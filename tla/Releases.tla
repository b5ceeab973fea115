------------------------------- MODULE Releases -------------------------------
(***************************************************************************)
(* Installation, update, rollback and removal of releases (install.sh and   *)
(* local_codex/releases.py): directories versions/v<n> beside each other,   *)
(* and a link "current" that is moved when everything else has succeeded.   *)
(* install.sh runs with "set -e": one action is one of its steps, each may  *)
(* fail or be interrupted, and the script may be started again.             *)
(***************************************************************************)
EXTENDS Integers, FiniteSets, FiniteSetsExt

CONSTANTS
  Version,   \* released versions, numbers in their order
  PowerShell, \* perform_update finds powershell.exe and runs install.ps1
  NoVersion,
  Mixed      \* files of two releases in one directory, or a file cut off in the middle

ASSUME ReleasesAssumption ==
  /\ Version \subseteq Nat \ {0} /\ Version # {} /\ IsFiniteSet(Version)
  /\ PowerShell \in BOOLEAN /\ NoVersion \notin Version /\ Mixed \notin Version

VARIABLES
  latest,    \* the newest release on GitHub
  dirs,      \* dirs[v]: what versions/v<v> holds
  current,   \* what the link "current" names
  previous,  \* what the link "previous" names
  checked,   \* update-state.json: the last check is less than a day old
  ignored,   \* update-state.json: ignored_version
  installer, \* the install.sh in progress
  spoiled    \* history: directories in which an installation did not get to its end

releaseVars == <<latest, dirs, current, previous, checked, ignored, installer, spoiled>>

\* code: the release whose files it holds, VERSION among them; deps: that for which pip
\* installed the requirements.
Dir    == [code: Version \cup {NoVersion, Mixed}, deps: Version \cup {NoVersion, Mixed}]
Bare   == [code |-> NoVersion, deps |-> NoVersion]
Ready  == [step |-> "none"]
Script ==
  [step: {"unpack", "deps", "monitor", "setup", "previous", "switch"}, target: Version,
   payload: Version]

\* No directory is none.
ASSUME DirAssumption == NoVersion \notin Dir

ReleasesTypeOK ==
  /\ latest \in Version
  /\ dirs \in [Version -> Dir \cup {NoVersion}]
  /\ current \in Version \cup {NoVersion} /\ previous \in Version \cup {NoVersion}
  /\ checked \in BOOLEAN /\ ignored \in Version \cup {NoVersion}
  /\ installer = Ready \/ installer \in Script
  /\ spoiled \subseteq Version

ReleasesInit ==
  /\ latest = Min(Version)
  /\ dirs = [v \in Version |-> NoVersion]
  /\ current = NoVersion /\ previous = NoVersion
  /\ checked = FALSE /\ ignored = NoVersion
  /\ installer = Ready /\ spoiled = {}

-----------------------------------------------------------------------------
\* The files of the release in use; CURRENT_VERSION is the VERSION among them.  A mixed
\* directory is not used any further in the model.
InUse   == dirs[current].code
CanRun  == current # NoVersion /\ dirs[current] # NoVersion /\ InUse \in Version
Present == {v \in Version : dirs[v] # NoVersion}

RunScript(target, payload) ==
  /\ installer = Ready
  /\ installer' = [step |-> "unpack", target |-> target, payload |-> payload]

\* install.sh from the web: it lies alone, downloads the release and verifies its checksum.
Bootstrap(v) ==
  /\ v <= latest
  /\ RunScript(v, v)
  /\ UNCHANGED <<latest, dirs, current, previous, checked, ignored, spoiled>>

\* perform_update.  On Linux it runs the install.sh of the release in use, which finds
\* local_codex beside itself and takes these files for the release to be installed.
PerformUpdate(v) ==
  /\ CanRun
  /\ RunScript(v, IF PowerShell THEN v ELSE InUse)

\* codex-local update [version]
Update(v) ==
  /\ v <= latest
  /\ PerformUpdate(v)
  /\ UNCHANGED <<latest, dirs, current, previous, checked, ignored, spoiled>>

\* codex-local rollback: the highest directory below CURRENT_VERSION, finished or not.
Rollback ==
  /\ CanRun
  /\ \E v \in Present : v < InUse
  /\ PerformUpdate(Max({v \in Present : v < InUse}))
  /\ UNCHANGED <<latest, dirs, current, previous, checked, ignored, spoiled>>

\* maybe_prompt_for_update at the start of a session, at most once a day.
Prompt ==
  /\ CanRun /\ installer = Ready /\ ~checked
  /\ checked' = TRUE
  /\ \/ UNCHANGED <<ignored, installer>>       \* offline, nothing newer, ignored, or "no"
     \/ /\ latest > InUse /\ ignored # latest
        /\ \/ ignored' = latest /\ UNCHANGED installer
           \/ PerformUpdate(latest) /\ UNCHANGED ignored
  /\ UNCHANGED <<latest, dirs, current, previous, spoiled>>

\* codex-local uninstall
Uninstall ==
  /\ CanRun /\ installer = Ready
  /\ current' = NoVersion /\ previous' = NoVersion
  /\ dirs' = [v \in Version |-> NoVersion]
  /\ spoiled' = {}
  /\ UNCHANGED <<latest, checked, ignored, installer>>

-----------------------------------------------------------------------------
Step(from, to) ==
  /\ installer.step = from
  /\ installer' = [installer EXCEPT !.step = to]

Held(v) == IF dirs[v] = NoVersion THEN Bare ELSE dirs[v]

\* mkdir and tar: the files come over those that are there, .venv stays.
Unpack ==
  /\ Step("unpack", "deps")
  /\ dirs' = [dirs EXCEPT ![installer.target] =
                [code |-> installer.payload, deps |-> Held(installer.target).deps]]
  /\ spoiled' = spoiled \cup {installer.target}
  /\ UNCHANGED <<latest, current, previous, checked, ignored>>

\* Mutant: packages are installed only into a new environment.
InstallDepsOnce ==
  /\ Step("deps", "monitor")
  /\ LET held == Held(installer.target)
     IN  dirs' = [dirs EXCEPT ![installer.target] =
                [code |-> held.code, deps |-> IF held.deps = NoVersion THEN held.code ELSE held.deps]]
  /\ UNCHANGED <<latest, current, previous, checked, ignored, spoiled>>
\* python3 -m venv and pip install
InstallDeps ==
  /\ Step("deps", "monitor")
  /\ dirs' = [dirs EXCEPT ![installer.target] =
                [code |-> Held(installer.target).code, deps |-> Held(installer.target).code]]
  /\ UNCHANGED <<latest, current, previous, checked, ignored, spoiled>>

\* The monitor of the target version is downloaded and verified.
DownloadMonitor ==
  /\ Step("monitor", "setup")
  /\ UNCHANGED <<latest, dirs, current, previous, checked, ignored, spoiled>>

\* start_codex.py setup of the new directory (module Setup).
RunSetup ==
  /\ Step("setup", "previous")
  /\ spoiled' = spoiled \ {installer.target}
  /\ UNCHANGED <<latest, dirs, current, previous, checked, ignored>>

LinkPrevious ==
  /\ Step("previous", "switch")
  /\ previous' = IF current = NoVersion THEN previous ELSE current
  /\ UNCHANGED <<latest, dirs, current, checked, ignored, spoiled>>

\* current.new, mv and the wrapper
Switch ==
  /\ installer.step = "switch"
  /\ current' = installer.target
  /\ installer' = Ready
  /\ UNCHANGED <<latest, dirs, previous, checked, ignored, spoiled>>

\* A step fails, or the script is interrupted: nothing is taken back.
Interrupted ==
  /\ installer # Ready
  /\ \/ UNCHANGED <<dirs, spoiled>>
     \/ /\ installer.step = "unpack"
        /\ dirs' = [dirs EXCEPT ![installer.target] =
                      [code |-> Mixed, deps |-> Held(installer.target).deps]]
        /\ spoiled' = spoiled \cup {installer.target}
  /\ installer' = Ready
  /\ UNCHANGED <<latest, current, previous, checked, ignored>>

\* Outside: a release is published, a day passes.
Publish ==
  /\ \E v \in Version : v > latest /\ latest' = Min({w \in Version : w > latest})
  /\ UNCHANGED <<dirs, current, previous, checked, ignored, installer, spoiled>>
NextDay ==
  /\ checked /\ checked' = FALSE
  /\ UNCHANGED <<latest, dirs, current, previous, ignored, installer, spoiled>>

Requests == (\E v \in Version : Bootstrap(v) \/ Update(v)) \/ Rollback \/ Prompt \/ Uninstall
Installs == Unpack \/ InstallDeps \/ DownloadMonitor \/ RunSetup \/ LinkPrevious \/ Switch
              \/ Interrupted

ReleasesNext == Requests \/ Installs \/ Publish \/ NextDay

ReleasesSpec == ReleasesInit /\ [][ReleasesNext]_releaseVars

-----------------------------------------------------------------------------
\* The release in use is a whole one, its files from one release and its packages
\* installed for them, however installations, updates and rollbacks failed or were
\* interrupted; except for one that was installed into the directory in use itself and did
\* not get to its end.
CurrentIsWhole ==
  current # NoVersion /\ current \notin spoiled =>
    /\ dirs[current] # NoVersion
    /\ dirs[current].code \in Version /\ dirs[current].deps = dirs[current].code

\* README.md:32 promises "SHA-256 verification, atomic updates, rollback": the directory of
\* the release in use holds that release.
CurrentIsItsVersion == current # NoVersion => dirs[current].code \in {current, Mixed}
=============================================================================
