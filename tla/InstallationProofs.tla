------------------------- MODULE InstallationProofs -------------------------
(***************************************************************************)
(* CurrentIsWhole of Releases and OrderUnlessHarmed of Setup, for any       *)
(* versions, roles, contexts and profiles, and any run of installations,    *)
(* updates, rollbacks and commands that succeed, fail or are killed; and    *)
(* the type invariant of the two side by side.                              *)
(*                                                                         *)
(* An installer may work on the directory that is in use, so the invariant  *)
(* of Releases speaks of all directories: one that is there and not spoiled *)
(* is whole, and what the installer has done so far is in the directory it  *)
(* works on.  Between two commands of Setup nothing says where the last one *)
(* stood, so its invariant follows the command in progress: which of the    *)
(* aliases, the catalog and config.toml it has changed, and to what.        *)
(***************************************************************************)
EXTENDS MCInstallation, CommonLemmas

\* A version with its code and the dependencies of it.
Whole(v) == dirs[v].code \in Version /\ dirs[v].deps = dirs[v].code

\* Only a directory in which an installation did not get to its end is not whole.
WholeUnlessSpoiled ==
  \A v \in Version : dirs[v] # NoVersion /\ v \notin spoiled => Whole(v)

\* The link names a directory.
CurrentIsThere == current # NoVersion => dirs[current] # NoVersion

\* What the steps behind the installer have left to the steps before it.
InstallerProgress ==
  /\ installer.step \in {"deps", "monitor", "setup", "previous", "switch"} =>
       dirs[installer.target] # NoVersion
  /\ installer.step = "deps" => dirs[installer.target].code = installer.payload
  /\ installer.step \in {"monitor", "setup"} => Whole(installer.target)

\* The inductive invariant of the releases.
ReleasesInv == ReleasesTypeOK /\ WholeUnlessSpoiled /\ CurrentIsThere /\ InstallerProgress

-----------------------------------------------------------------------------
\* A directory with files is not none.
LEMMA FilesAreThere ==
  ASSUME NEW c \in Version \cup {NoVersion, Mixed}, NEW d \in Version \cup {NoVersion, Mixed}
  PROVE  [code |-> c, deps |-> d] \in Dir /\ [code |-> c, deps |-> d] # NoVersion
<1>1. [code |-> c, deps |-> d] \in Dir
  BY DEF Dir
<1> QED
  BY <1>1, DirAssumption, Zenon

\* The installer starts with the files of a release.
LEMMA ScriptStarts ==
  ASSUME NEW v \in Version, PerformUpdate(v)
  PROVE  installer' \in Script /\ installer = Ready /\ installer'.step = "unpack"
<1>1. (IF PowerShell THEN v ELSE InUse) \in Version
  BY DEF PerformUpdate, CanRun
<1> QED
  BY <1>1 DEF PerformUpdate, RunScript, Script

\* A rollback finds the directory of a version.
LEMMA RollbackFindsOne ==
  ASSUME Rollback
  PROVE  \E v \in Version : PerformUpdate(v)
<1> DEFINE Lower == {v \in Present : v < InUse}
<1>1. InUse \in Nat /\ Lower \subseteq Nat /\ Lower \subseteq Version /\ Lower # {}
  BY ReleasesAssumption DEF Rollback, CanRun, Present
<1>2. IsFiniteSet(Lower)
  BY <1>1, ReleasesAssumption, FS_Subset
<1>3. Max(Lower) \in Lower
  <2> HIDE DEF Lower
  <2> QED
    BY <1>1, <1>2, GreatestIsOne
<1> QED
  BY <1>1, <1>3 DEF Rollback

\* What an installer reads of a directory may be a part of another.
LEMMA HeldIsDir ==
  ASSUME ReleasesTypeOK, NEW v \in Version
  PROVE  /\ Held(v).code \in Version \cup {NoVersion, Mixed}
         /\ Held(v).deps \in Version \cup {NoVersion, Mixed}
  BY DEF ReleasesTypeOK, Held, Bare, Dir

\* One step for each action, in the order of the module.
LEMMA ReleasesTypeStep ==
  ReleasesTypeOK /\ [ReleasesNext]_releaseVars => ReleasesTypeOK'
<1> SUFFICES ASSUME ReleasesTypeOK, [ReleasesNext]_releaseVars PROVE ReleasesTypeOK'
  OBVIOUS
<1>2. ASSUME NEW v \in Version, Update(v) PROVE ReleasesTypeOK'
  BY <1>2, ScriptStarts DEF Update, ReleasesTypeOK
<1>3. ASSUME Rollback PROVE ReleasesTypeOK'
  BY <1>3, RollbackFindsOne, ScriptStarts DEF Rollback, ReleasesTypeOK
<1>4. ASSUME Prompt PROVE ReleasesTypeOK'
  <2>1. installer' = installer \/ installer' \in Script
    BY <1>4, ScriptStarts DEF Prompt, ReleasesTypeOK
  <2>2. ignored' \in Version \cup {NoVersion}
    BY <1>4 DEF Prompt, ReleasesTypeOK
  <2>3. checked' \in BOOLEAN /\ UNCHANGED <<latest, dirs, current, previous, spoiled>>
    BY <1>4 DEF Prompt
  <2> QED
    BY <2>1, <2>2, <2>3 DEF ReleasesTypeOK
<1>13. ASSUME Publish PROVE ReleasesTypeOK'
  <2>1. PICK v \in Version : v > latest /\ latest' = Min({w \in Version : w > latest})
    BY <1>13 DEF Publish
  <2>2. Min({w \in Version : w > latest}) \in {w \in Version : w > latest}
    BY <2>1, LeastIsOne, ReleasesAssumption
  <2> QED
    BY <1>13, <2>1, <2>2 DEF Publish, ReleasesTypeOK
<1> USE DEF ReleasesTypeOK, Dir, Bare, Held, Script, Ready, Step
<1>1. ASSUME NEW v \in Version, Bootstrap(v) PROVE ReleasesTypeOK'
  BY <1>1 DEF Bootstrap, RunScript
<1>5. ASSUME Uninstall PROVE ReleasesTypeOK'
  BY <1>5 DEF Uninstall
<1>6. ASSUME Unpack PROVE ReleasesTypeOK'
  BY <1>6 DEF Unpack
<1>7. ASSUME InstallDeps PROVE ReleasesTypeOK'
  BY <1>7 DEF InstallDeps
<1>8. ASSUME DownloadMonitor PROVE ReleasesTypeOK'
  BY <1>8 DEF DownloadMonitor
<1>9. ASSUME RunSetup PROVE ReleasesTypeOK'
  BY <1>9 DEF RunSetup
<1>10. ASSUME LinkPrevious PROVE ReleasesTypeOK'
  BY <1>10 DEF LinkPrevious
<1>11. ASSUME Switch PROVE ReleasesTypeOK'
  BY <1>11 DEF Switch
<1>12. ASSUME Interrupted PROVE ReleasesTypeOK'
  BY <1>12 DEF Interrupted
<1>14. ASSUME NextDay PROVE ReleasesTypeOK'
  BY <1>14 DEF NextDay
<1>15. ASSUME UNCHANGED releaseVars PROVE ReleasesTypeOK'
  BY <1>15 DEF releaseVars
<1> QED
  BY <1>1, <1>2, <1>3, <1>4, <1>5, <1>6, <1>7, <1>8, <1>9, <1>10, <1>11, <1>12, <1>13, <1>14, <1>15
     DEF ReleasesNext, Requests, Installs

\* Packages are installed for the files that are there, with the directory spoiled.
LEMMA WholeStep ==
  ReleasesTypeOK /\ WholeUnlessSpoiled /\ InstallerProgress /\ [ReleasesNext]_releaseVars => WholeUnlessSpoiled'
<1> SUFFICES ASSUME ReleasesTypeOK, WholeUnlessSpoiled, InstallerProgress, [ReleasesNext]_releaseVars PROVE WholeUnlessSpoiled'
  OBVIOUS
<1> USE DEF ReleasesTypeOK, WholeUnlessSpoiled, InstallerProgress, Whole, Held, Script, Ready, Step
<1>1. ASSUME NEW v \in Version, Bootstrap(v) PROVE WholeUnlessSpoiled'
  BY <1>1 DEF Bootstrap, RunScript
<1>2. ASSUME NEW v \in Version, Update(v) PROVE WholeUnlessSpoiled'
  BY <1>2 DEF Update, PerformUpdate, RunScript
<1>3. ASSUME Rollback PROVE WholeUnlessSpoiled'
  BY <1>3 DEF Rollback, PerformUpdate, RunScript
<1>4. ASSUME Prompt PROVE WholeUnlessSpoiled'
  BY <1>4 DEF Prompt, PerformUpdate, RunScript
<1>5. ASSUME Uninstall PROVE WholeUnlessSpoiled'
  BY <1>5 DEF Uninstall
<1>6. ASSUME Unpack PROVE WholeUnlessSpoiled'
  BY <1>6 DEF Unpack
<1>7. ASSUME InstallDeps PROVE WholeUnlessSpoiled'
  BY <1>7 DEF InstallDeps
<1>8. ASSUME DownloadMonitor PROVE WholeUnlessSpoiled'
  BY <1>8 DEF DownloadMonitor
<1>9. ASSUME RunSetup PROVE WholeUnlessSpoiled'
  BY <1>9 DEF RunSetup
<1>10. ASSUME LinkPrevious PROVE WholeUnlessSpoiled'
  BY <1>10 DEF LinkPrevious
<1>11. ASSUME Switch PROVE WholeUnlessSpoiled'
  BY <1>11 DEF Switch
<1>12. ASSUME Interrupted PROVE WholeUnlessSpoiled'
  BY <1>12 DEF Interrupted
<1>13. ASSUME Publish PROVE WholeUnlessSpoiled'
  BY <1>13 DEF Publish
<1>14. ASSUME NextDay PROVE WholeUnlessSpoiled'
  BY <1>14 DEF NextDay
<1>15. ASSUME UNCHANGED releaseVars PROVE WholeUnlessSpoiled'
  BY <1>15 DEF releaseVars
<1> QED
  BY <1>1, <1>2, <1>3, <1>4, <1>5, <1>6, <1>7, <1>8, <1>9, <1>10, <1>11, <1>12, <1>13, <1>14, <1>15
     DEF ReleasesNext, Requests, Installs

\* The installer removes nothing, and what it has worked on is there.
LEMMA WrittenIsThere ==
  ASSUME ReleasesTypeOK, Unpack \/ InstallDeps
  PROVE  dirs'[installer.target] # NoVersion
<1>1. installer.target \in Version /\ installer.payload \in Version
  BY DEF ReleasesTypeOK, Unpack, InstallDeps, Step, Ready, Script
<1>2. CASE Unpack
  BY <1>1, <1>2, HeldIsDir, FilesAreThere DEF ReleasesTypeOK, Unpack
<1>3. CASE InstallDeps
  BY <1>1, <1>3, HeldIsDir, FilesAreThere DEF ReleasesTypeOK, InstallDeps
<1> QED
  BY <1>2, <1>3

\* A step that is broken off leaves each version as it was, or there in part.
LEMMA BrokenOffIsThere ==
  ASSUME ReleasesTypeOK, Interrupted
  PROVE  \A v \in Version : dirs'[v] = dirs[v] \/ dirs'[v] # NoVersion
<1>1. installer.target \in Version /\ installer.payload \in Version
  BY DEF ReleasesTypeOK, Interrupted, Ready, Script
<1>2. CASE UNCHANGED dirs
  BY <1>2
<1>3. CASE dirs' = [dirs EXCEPT ![installer.target] =
                      [code |-> Mixed, deps |-> Held(installer.target).deps]]
  BY <1>1, <1>3, HeldIsDir, FilesAreThere DEF ReleasesTypeOK
<1> QED
  BY <1>2, <1>3 DEF Interrupted

\* The link is moved to the directory the installer has worked on.
LEMMA ThereStep ==
  ReleasesTypeOK /\ CurrentIsThere /\ InstallerProgress /\ [ReleasesNext]_releaseVars => CurrentIsThere'
<1> SUFFICES ASSUME ReleasesTypeOK, CurrentIsThere, InstallerProgress, [ReleasesNext]_releaseVars PROVE CurrentIsThere'
  OBVIOUS
<1> USE DEF ReleasesTypeOK, CurrentIsThere, InstallerProgress, Held, Script, Ready, Step
<1>1. ASSUME NEW v \in Version, Bootstrap(v) PROVE CurrentIsThere'
  BY <1>1 DEF Bootstrap, RunScript
<1>2. ASSUME NEW v \in Version, Update(v) PROVE CurrentIsThere'
  BY <1>2 DEF Update, PerformUpdate, RunScript
<1>3. ASSUME Rollback PROVE CurrentIsThere'
  BY <1>3 DEF Rollback, PerformUpdate, RunScript
<1>4. ASSUME Prompt PROVE CurrentIsThere'
  BY <1>4 DEF Prompt, PerformUpdate, RunScript
<1>5. ASSUME Uninstall PROVE CurrentIsThere'
  BY <1>5 DEF Uninstall
<1>6. ASSUME Unpack PROVE CurrentIsThere'
  BY <1>6, WrittenIsThere DEF Unpack
<1>7. ASSUME InstallDeps PROVE CurrentIsThere'
  BY <1>7, WrittenIsThere DEF InstallDeps
<1>8. ASSUME DownloadMonitor PROVE CurrentIsThere'
  BY <1>8 DEF DownloadMonitor
<1>9. ASSUME RunSetup PROVE CurrentIsThere'
  BY <1>9 DEF RunSetup
<1>10. ASSUME LinkPrevious PROVE CurrentIsThere'
  BY <1>10 DEF LinkPrevious
<1>11. ASSUME Switch PROVE CurrentIsThere'
  BY <1>11 DEF Switch
<1>12. ASSUME Interrupted PROVE CurrentIsThere'
  BY <1>12, BrokenOffIsThere DEF Interrupted
<1>13. ASSUME Publish PROVE CurrentIsThere'
  BY <1>13 DEF Publish
<1>14. ASSUME NextDay PROVE CurrentIsThere'
  BY <1>14 DEF NextDay
<1>15. ASSUME UNCHANGED releaseVars PROVE CurrentIsThere'
  BY <1>15 DEF releaseVars
<1> QED
  BY <1>1, <1>2, <1>3, <1>4, <1>5, <1>6, <1>7, <1>8, <1>9, <1>10, <1>11, <1>12, <1>13, <1>14, <1>15
     DEF ReleasesNext, Requests, Installs

\* Each step finds what the one before it has left: one installer runs at a time.
LEMMA ProgressStep ==
  ReleasesTypeOK /\ InstallerProgress /\ [ReleasesNext]_releaseVars => InstallerProgress'
<1> SUFFICES ASSUME ReleasesTypeOK, InstallerProgress, [ReleasesNext]_releaseVars PROVE InstallerProgress'
  OBVIOUS
<1> USE DEF ReleasesTypeOK, InstallerProgress, Whole, Held, Script, Ready, Step
<1>1. ASSUME NEW v \in Version, Bootstrap(v) PROVE InstallerProgress'
  BY <1>1 DEF Bootstrap, RunScript
<1>2. ASSUME NEW v \in Version, Update(v) PROVE InstallerProgress'
  BY <1>2 DEF Update, PerformUpdate, RunScript
<1>3. ASSUME Rollback PROVE InstallerProgress'
  BY <1>3 DEF Rollback, PerformUpdate, RunScript
<1>4. ASSUME Prompt PROVE InstallerProgress'
  BY <1>4 DEF Prompt, PerformUpdate, RunScript
<1>5. ASSUME Uninstall PROVE InstallerProgress'
  BY <1>5 DEF Uninstall
<1>6. ASSUME Unpack PROVE InstallerProgress'
  BY <1>6, WrittenIsThere DEF Unpack
<1>7. ASSUME InstallDeps PROVE InstallerProgress'
  BY <1>7, WrittenIsThere DEF InstallDeps
<1>8. ASSUME DownloadMonitor PROVE InstallerProgress'
  BY <1>8 DEF DownloadMonitor
<1>9. ASSUME RunSetup PROVE InstallerProgress'
  BY <1>9 DEF RunSetup
<1>10. ASSUME LinkPrevious PROVE InstallerProgress'
  BY <1>10 DEF LinkPrevious
<1>11. ASSUME Switch PROVE InstallerProgress'
  BY <1>11 DEF Switch
<1>12. ASSUME Interrupted PROVE InstallerProgress'
  BY <1>12 DEF Interrupted
<1>13. ASSUME Publish PROVE InstallerProgress'
  BY <1>13 DEF Publish
<1>14. ASSUME NextDay PROVE InstallerProgress'
  BY <1>14 DEF NextDay
<1>15. ASSUME UNCHANGED releaseVars PROVE InstallerProgress'
  BY <1>15 DEF releaseVars
<1> QED
  BY <1>1, <1>2, <1>3, <1>4, <1>5, <1>6, <1>7, <1>8, <1>9, <1>10, <1>11, <1>12, <1>13, <1>14, <1>15
     DEF ReleasesNext, Requests, Installs

\* At first there is nothing.
LEMMA InitiallyWhole == ReleasesInit => ReleasesInv
<1> SUFFICES ASSUME ReleasesInit PROVE ReleasesInv
  OBVIOUS
<1>1. Min(Version) \in Version
  BY ReleasesAssumption, LeastIsOne
<1> QED
  BY <1>1 DEF ReleasesInit, ReleasesInv, ReleasesTypeOK, WholeUnlessSpoiled, CurrentIsThere,
              InstallerProgress, Ready

\* Every step keeps the invariant.
LEMMA ReleasesStep == ReleasesInv /\ [ReleasesNext]_releaseVars => ReleasesInv'
  BY ReleasesTypeStep, WholeStep, ThereStep, ProgressStep DEF ReleasesInv

\* The invariant says that of the current version.
LEMMA ReleasesInvIsWhole == ReleasesInv => CurrentIsWhole
  BY DEF ReleasesInv, ReleasesTypeOK, WholeUnlessSpoiled, Whole, CurrentIsThere, CurrentIsWhole

\* install.sh and releases.py, however installations fail: the release in use is a whole one.
THEOREM AlwaysCurrentIsWhole == ReleasesSpec => []CurrentIsWhole
  BY InitiallyWhole, ReleasesStep, ReleasesInvIsWhole, PTL DEF ReleasesSpec

-----------------------------------------------------------------------------
\* The steps of a command that measures, and those that apply the result.
Measuring == {"probe", "cleanup", "report", "confirm"}
Applying  == {"catalog", "config", "monitor", "runtime", "validate"}

\* What a benchmark has left to measure, and that each role it is done with has a context.
MeasuringProgress ==
  /\ At(Measuring \cup {"restore"}) => command.kind = "benchmark"
  /\ At({"probe", "cleanup"}) => \A r \in command.roles \ command.todo : command.stable[r] # {}
  /\ At({"probe"}) => \A r \in command.todo : command.stable[r] # Candidates
  /\ At({"report", "confirm"}) => \A r \in command.roles : command.stable[r] # {}
  /\ At({"aliases", "restore"}) => command.todo # {}

\* runtime.json still has the contexts the command has read, and has those it applies when
\* they are written.  A refresh applies what it has read, and starts with the catalog.
CommandKnows ==
  /\ At(Measuring \cup {"aliases", "restore"} \cup (Applying \ {"validate"})) =>
       Read.windows = command.known.windows
  /\ At({"validate"}) => Read.windows = command.selected
  /\ command # Idle /\ command.kind = "refresh" =>
       command.step \in Applying /\ command.selected = Remembered(command.known)

\* The aliases that exist have the windows.
AliasesFollow(windows, roles) == \A r \in roles : alias[r] \in {None, windows[r]}
\* By the steps of a command, which windows the aliases have.
AliasesInOrder ==
  /\ "aliases" \notin harm =>
       /\ command = Idle => AliasesFollow(Remembered(Read), Role)
       /\ At(Measuring) => AliasesFollow(Remembered(command.known), Role)
       /\ At({"restore"}) => AliasesFollow(Remembered(command.known), Role \ command.todo)
       /\ At(Applying) => AliasesFollow(command.selected, Role)
  /\ At({"aliases"}) => AliasesFollow(command.selected, Role \ command.todo)
  /\ At(Applying) /\ command.kind # "refresh" => AliasesFollow(command.selected, Role)

\* Catalog and configuration of Codex have the smallest window.
ConfigFollows(windows) == codex # None => codex = catalog /\ codex = Least(windows)
\* By the steps of a command, which windows catalog and configuration have.
ConfigInOrder ==
  /\ "config" \notin harm =>
       /\ command = Idle => ConfigFollows(Remembered(Read))
       /\ At(Measuring \cup {"aliases", "restore", "catalog"}) =>
            ConfigFollows(Remembered(command.known))
  /\ At({"config"}) => catalog = Least(command.selected)
  /\ At({"monitor", "runtime", "validate"}) =>
       codex = catalog /\ codex = Least(command.selected)

\* The aliases of a benchmark are those it has noted.
ScratchInOrder ==
  "scratch" \notin harm =>
    IF At({"probe", "cleanup"}) THEN scratch \subseteq command.created ELSE scratch = {}

\* The inductive invariant of setup.
SetupInv ==
  /\ SetupTypeOK /\ MeasuringProgress /\ CommandKnows
  /\ AliasesInOrder /\ ConfigInOrder /\ ScratchInOrder

-----------------------------------------------------------------------------

\* A command is not the idle state.
LEMMA CommandRuns == \A c \in Command : c # Idle
  BY DEF Command, Idle

\* A window is not none.
LEMMA WindowsAreSet == \A w \in Windows : w # None
  BY SetupAssumption DEF Windows

\* The contexts that commands choose from are contexts for each role.
LEMMA ContextsForAll ==
  ASSUME SetupTypeOK
  PROVE  /\ Configured \in Windows /\ Read \in Runtime /\ Launched \in Runtime
         /\ \A contents \in Runtime : Remembered(contents) \in Windows
         /\ \A context \in Window \cup {None} : Selected(context) \in Windows
<1>1. DefaultWindows \in Windows
  BY SetupAssumption DEF DefaultWindows, Windows
<1>2. Configured \in Windows
  BY <1>1, SetupAssumption DEF Configured, SetupTypeOK, Windows
<1>3. Unset \in Runtime
  BY DEF Unset, Runtime
<1>4. Read \in Runtime
  BY <1>3 DEF Read, SetupTypeOK
<1>5. Launched \in Runtime
  BY <1>3, <1>4 DEF Launched
<1>6. \A contents \in Runtime : Remembered(contents) \in Windows
  BY <1>1 DEF Remembered, Runtime
<1>7. \A context \in Window \cup {None} : Selected(context) \in Windows
  <2> SUFFICES ASSUME NEW context \in Window \cup {None} PROVE Selected(context) \in Windows
    OBVIOUS
  <2>1. CASE context # None
    BY <2>1 DEF Selected, Windows
  <2>2. CASE context = None /\ toml # None
    BY <2>2, SetupAssumption DEF Selected, SetupTypeOK, Windows
  <2>3. CASE context = None /\ toml = None
    BY <2>3, <1>4, <1>6 DEF Selected
  <2> QED
    BY <2>1, <2>2, <2>3
<1> QED
  BY <1>2, <1>4, <1>5, <1>6, <1>7

\* There are three kinds of starts.
LEMMA StartsAre ==
  ASSUME SetupTypeOK, Commands
  PROVE  \/ \E selected \in Windows : Start("install", "aliases", selected, {})
         \/ Start("refresh", "catalog", Remembered(Read), {})
         \/ \E roles \in SUBSET Role : roles # {} /\ Start("benchmark", "probe", Remembered(Read), roles)
<1>1. Remembered(Read) \in Windows /\ \A context \in Window \cup {None} : Selected(context) \in Windows
  BY ContextsForAll
<1>2. CASE Install
  BY <1>1, <1>2 DEF Install
<1>3. CASE Refresh
  BY <1>3 DEF Refresh
<1>4. CASE Benchmark
  BY <1>4 DEF Benchmark
<1>5. CASE LaunchInstalls
  BY <1>1, <1>5 DEF LaunchInstalls
<1>6. CASE LaunchRefreshes
  BY <1>6 DEF LaunchRefreshes
<1> QED
  BY <1>2, <1>3, <1>4, <1>5, <1>6 DEF Commands

\* The next role is one of those left, and the next context one that has not been measured.
LEMMA NextRole ==
  ASSUME SetupTypeOK, command # Idle, command.todo # {}
  PROVE  Min(command.todo) \in command.todo /\ Min(command.todo) \in Role
<1>1. command.todo \subseteq Nat /\ command.todo \subseteq Role
  BY SetupAssumption DEF SetupTypeOK, Command
<1> QED
  BY <1>1, LeastIsOne

\* What is probed next is a candidate that was not yet stable.
LEMMA NextProbe ==
  ASSUME SetupTypeOK, MeasuringProgress, At({"probe"}), command.todo # {}
  PROVE  /\ Probed[1] \in command.todo /\ Probed[1] \in Role
         /\ Probed[2] \in Candidates /\ Probed[2] \notin command.stable[Probed[1]]
         /\ Probed = <<Probed[1], Probed[2]>> /\ Probed \in Role \X Candidates
<1> DEFINE r == Min(command.todo)
           c == Min(Candidates \ command.stable[r])
<1>1. command # Idle
  BY DEF At
<1>2. r \in command.todo /\ r \in Role
  BY <1>1, NextRole
<1>3. Candidates \ command.stable[r] \subseteq Nat /\ Candidates \ command.stable[r] # {}
  <2>1. command.stable[r] \subseteq Candidates /\ command.stable[r] # Candidates
    BY <1>1, <1>2 DEF SetupTypeOK, Command, MeasuringProgress
  <2> QED
    BY <2>1, SetupAssumption
<1>4. c \in Candidates /\ c \notin command.stable[r]
  BY <1>3, LeastIsOne
<1>5. Probed = <<r, c>>
  BY DEF Probed
<1> HIDE DEF r, c
<1> QED
  BY <1>2, <1>4, <1>5

\* The least context is a context.
LEMMA LeastOfWindows ==
  ASSUME NEW windows \in Windows
  PROVE  Least(windows) \in Window
<1> DEFINE S == {windows[r] : r \in Role}
<1>1. S \subseteq Window /\ S # {} /\ S \subseteq Nat
  <2>1. Role # {} /\ Window \subseteq Nat
    BY SetupAssumption
  <2>2. windows \in [Role -> Window]
    BY DEF Windows
  <2> QED
    BY <2>1, <2>2
<1>2. Min(S) \in S
  <2> HIDE DEF S
  <2> QED
    BY <1>1, LeastIsOne
<1> QED
  BY <1>1, <1>2 DEF Least

\* What is read of a runtime.json that is there.
LEMMA ReadIsWritten ==
  ASSUME NEW contents \in Runtime
  PROVE  /\ contents # None
         /\ runtime = contents => Read = contents
         /\ runtime' = contents => Read' = contents
  BY NoneAssumption DEF Read

\* What runtime.json says of the contexts while a command runs.
LEMMA KnowsWhatIsRead ==
  ASSUME SetupInv, command # Idle
  PROVE  /\ command.step # "validate" => Remembered(Read) = Remembered(command.known)
         /\ command.step = "validate" \/ command.kind = "refresh" =>
              Remembered(Read) = command.selected
<1>1. command \in Command /\ command.selected \in Windows /\ command.selected # None
  BY WindowsAreSet DEF SetupInv, SetupTypeOK, Command
<1>2. command.step # "validate" => Read.windows = command.known.windows
  BY <1>1 DEF SetupInv, CommandKnows, At, Measuring, Applying, Command
<1>3. command.step = "validate" => Read.windows = command.selected
  BY DEF SetupInv, CommandKnows, At
<1>4. command.kind = "refresh" => command.selected = Remembered(command.known)
  BY DEF SetupInv, CommandKnows
<1> QED
  BY <1>1, <1>2, <1>3, <1>4 DEF Remembered

\* What a command touches can be in disorder.
LEMMA TouchedIsDisorder == Touched \subseteq {"aliases", "config"}
  BY DEF Touched

\* Files that a write may have left half written count as disordered, where the command
\* says that it touches config.toml when it writes it.
LEMMA SurvivingFiles ==
  ASSUME SetupTypeOK, command # Idle, NEW touched \in SUBSET {"aliases", "config"},
         At({"config"}) => "config" \in touched, FilesSurvive(touched)
  PROVE  /\ runtime' \in Runtime \cup {None}
         /\ catalog' \in Window \cup {None, Half} /\ codex' \in Window \cup {None, Half}
         /\ harm' \subseteq {"aliases", "config", "scratch"}
         /\ harm \subseteq harm' /\ ("scratch" \in harm' <=> "scratch" \in harm)
         /\ "aliases" \notin harm' => runtime' = runtime /\ "aliases" \notin touched
         /\ "config" \notin harm' =>
              UNCHANGED <<catalog, codex, runtime>> /\ "config" \notin touched
         /\ ~At({"report", "runtime"}) => runtime' = runtime
<1>1. Least(command.selected) \in Window
  BY LeastOfWindows DEF SetupTypeOK, Command
<1>2. /\ runtime \in Runtime \cup {None} /\ harm \subseteq {"aliases", "config", "scratch"}
      /\ catalog \in Window \cup {None, Half} /\ codex \in Window \cup {None, Half}
  BY DEF SetupTypeOK
<1>3. CASE UNCHANGED <<catalog, codex, runtime>> /\ harm' = harm \cup touched
  BY <1>2, <1>3
<1>4. CASE /\ catalog' = Half /\ harm' = harm \cup touched \cup {"config"}
           /\ UNCHANGED <<codex, runtime>>
  BY <1>2, <1>4
<1>5. CASE /\ codex' \in {Half, Least(command.selected)} /\ harm' = harm \cup touched
           /\ "config" \in touched /\ UNCHANGED <<catalog, runtime>>
  BY <1>1, <1>2, <1>5
<1>6. CASE /\ At({"report", "runtime"}) /\ runtime' = None /\ UNCHANGED <<catalog, codex>>
           /\ harm' = harm \cup {"aliases", "config"}
  BY <1>2, <1>6
<1> QED
  BY <1>3, <1>4, <1>5, <1>6 DEF FilesSurvive

\* A command with one of its fields changed is a command.
LEMMA CommandWith ==
  ASSUME NEW c \in Command
  PROVE  /\ \A step \in {"config", "monitor", "runtime", "validate", "cleanup", "report", "confirm"} :
              [c EXCEPT !.step = step] \in Command
         /\ \A todo \in SUBSET Role : \A step \in {"aliases", "catalog", "restore"} :
              /\ [c EXCEPT !.todo = todo, !.step = step] \in Command
              /\ [c EXCEPT !.step = step, !.todo = todo] \in Command
         /\ \A todo \in SUBSET Role : [c EXCEPT !.todo = todo] \in Command
         /\ \A todo \in SUBSET Role, selected \in Windows :
              [c EXCEPT !.step = "aliases", !.todo = todo, !.selected = selected] \in Command
         /\ \A monitor \in {"missing", "installed"} :
              [c EXCEPT !.step = "runtime", !.known.monitor = monitor] \in Command
         /\ \A created \in SUBSET (Role \X Candidates) :
              [c EXCEPT !.step = "cleanup", !.created = created] \in Command
<1>1. \A step \in {"config", "monitor", "runtime", "validate", "cleanup", "report", "confirm"} :
        [c EXCEPT !.step = step] \in Command
  BY DEF Command
<1>2. \A todo \in SUBSET Role : \A step \in {"aliases", "catalog", "restore"} :
        /\ [c EXCEPT !.todo = todo, !.step = step] \in Command
        /\ [c EXCEPT !.step = step, !.todo = todo] \in Command
  BY DEF Command
<1>3. \A todo \in SUBSET Role : [c EXCEPT !.todo = todo] \in Command
  BY DEF Command
<1>4. \A todo \in SUBSET Role, selected \in Windows :
        [c EXCEPT !.step = "aliases", !.todo = todo, !.selected = selected] \in Command
  BY DEF Command
<1>5. \A monitor \in {"missing", "installed"} :
        [c EXCEPT !.step = "runtime", !.known.monitor = monitor] \in Command
  BY DEF Command, Runtime
<1>6. \A created \in SUBSET (Role \X Candidates) :
        [c EXCEPT !.step = "cleanup", !.created = created] \in Command
  BY DEF Command
<1> QED
  BY <1>1, <1>2, <1>3, <1>4, <1>5, <1>6

\* A probe keeps a command a command.
LEMMA CommandAfterStable ==
  ASSUME NEW c \in Command, NEW created \in SUBSET (Role \X Candidates), NEW todo \in SUBSET Role,
         NEW r \in Role, NEW contexts \in SUBSET Candidates
  PROVE  [c EXCEPT !.created = created, !.stable[r] = contexts, !.todo = todo] \in Command
  BY DEF Command

\* A command with some of its fields replaced is one.
LEMMA CommandAfterUnstable ==
  ASSUME NEW c \in Command, NEW created \in SUBSET (Role \X Candidates), NEW todo \in SUBSET Role,
         NEW step \in {"probe", "cleanup"}
  PROVE  [c EXCEPT !.created = created, !.todo = todo, !.step = step] \in Command
  BY DEF Command

\* What an unstable or a stable context makes of the command.
LEMMA ProbeGoesOn ==
  ASSUME SetupTypeOK, MeasuringProgress, Probe
  PROVE  /\ command' \in Command /\ command' # Idle
         /\ command'.kind = command.kind /\ command'.known = command.known
         /\ command'.selected = command.selected /\ command'.roles = command.roles
         /\ command'.step \in {"probe", "cleanup"}
         /\ command'.created = command.created \cup {Probed}
         /\ \A r \in command.roles \ command'.todo : command'.stable[r] # {}
         /\ command'.step = "probe" => \A r \in command'.todo : command'.stable[r] # Candidates
<1> DEFINE r == Probed[1]
           c == Probed[2]
<1>1. At({"probe"}) /\ command.todo # {} /\ command \in Command
  BY DEF Probe, At, SetupTypeOK
<1>2. /\ r \in command.todo /\ r \in Role /\ c \in Candidates
      /\ c \notin command.stable[r] /\ Probed = <<r, c>> /\ command.step = "probe"
  BY <1>1, NextProbe DEF At
<1>3. /\ \A q \in command.roles \ command.todo : command.stable[q] # {}
      /\ \A q \in command.todo : command.stable[q] # Candidates
  BY <1>1, <1>2 DEF MeasuringProgress, At
<1>4. Stable(r, c) \/ Unstable(r, c)
  BY DEF Probe
<1> HIDE DEF r, c
<1>5. CASE Stable(r, c)
  <2>1. command' \in Command
    <3>1. /\ command.created \cup {<<r, c>>} \in SUBSET (Role \X Candidates)
          /\ command.stable[r] \cup {c} \in SUBSET Candidates
          /\ (IF Candidates = command.stable[r] \cup {c} THEN command.todo \ {r}
              ELSE command.todo) \in SUBSET Role
      BY <1>1, <1>2 DEF Command
    <3> QED
      BY <1>1, <1>2, <1>5, <3>1, CommandAfterStable DEF Stable
  <2>2. /\ command'.kind = command.kind /\ command'.known = command.known
        /\ command'.selected = command.selected /\ command'.roles = command.roles
        /\ command'.step = command.step /\ command'.created = command.created \cup {<<r, c>>}
        /\ command'.stable = [command.stable EXCEPT ![r] = @ \cup {c}]
        /\ command'.todo = (IF Candidates = command.stable[r] \cup {c}
                            THEN command.todo \ {r} ELSE command.todo)
    BY <1>1, <1>2, <1>5 DEF Stable, Command
  <2>3. /\ command'.stable[r] = command.stable[r] \cup {c}
        /\ \A q \in Role \ {r} : command'.stable[q] = command.stable[q]
    BY <1>1, <1>2, <2>2 DEF Command
  <2>4. command.roles \subseteq Role /\ command.todo \subseteq Role
    BY <1>1 DEF Command
  <2>5. \A q \in command.roles \ command'.todo : command'.stable[q] # {}
    BY <1>3, <2>2, <2>3, <2>4
  <2>6. \A q \in command'.todo : command'.stable[q] # Candidates
    <3> SUFFICES ASSUME NEW q \in command'.todo PROVE command'.stable[q] # Candidates
      OBVIOUS
    <3>1. CASE q = r
      BY <2>2, <2>3, <3>1
    <3>2. CASE q # r
      BY <1>3, <2>2, <2>3, <2>4, <3>2
    <3> QED
      BY <3>1, <3>2
  <2> QED
    BY <1>2, <2>1, <2>2, <2>5, <2>6, CommandRuns
<1>6. CASE Unstable(r, c)
  <2>1. command' \in Command
    <3>1. /\ command.created \cup {<<r, c>>} \in SUBSET (Role \X Candidates)
          /\ (IF command.stable[r] # {} THEN command.todo \ {r} ELSE command.todo) \in SUBSET Role
          /\ (IF command.stable[r] # {} THEN command.step ELSE "cleanup") \in {"probe", "cleanup"}
      BY <1>1, <1>2 DEF Command
    <3> QED
      BY <1>1, <1>6, <3>1, CommandAfterUnstable DEF Unstable
  <2>2. /\ command'.kind = command.kind /\ command'.known = command.known
        /\ command'.selected = command.selected /\ command'.roles = command.roles
        /\ command'.stable = command.stable /\ command'.created = command.created \cup {<<r, c>>}
        /\ command'.step = (IF command.stable[r] # {} THEN command.step ELSE "cleanup")
        /\ command'.todo = (IF command.stable[r] # {} THEN command.todo \ {r} ELSE command.todo)
    BY <1>1, <1>2, <1>6 DEF Unstable, Command
  <2> QED
    BY <1>2, <1>3, <2>1, <2>2, CommandRuns
<1> QED
  BY <1>4, <1>5, <1>6

\* A recommendation is one of the contexts that were stable.
LEMMA RecommendedAreWindows ==
  ASSUME SetupTypeOK, MeasuringProgress, At({"confirm"})
  PROVE  Recommended \in Windows
<1>1. command \in Command /\ command.step = "confirm"
  BY DEF At, SetupTypeOK
<1>2. ASSUME NEW r \in command.roles PROVE Max(command.stable[r]) \in Window
  <2>1. command.stable[r] \subseteq Candidates /\ command.stable[r] # {}
    BY <1>1 DEF MeasuringProgress, At, Command
  <2>2. command.stable[r] \subseteq Nat /\ IsFiniteSet(command.stable[r])
    BY <2>1, SetupAssumption, FS_Subset
  <2> QED
    BY <2>1, <2>2, GreatestIsOne, SetupAssumption
<1>3. Remembered(command.known) \in Windows
  BY <1>1, ContextsForAll DEF Command
<1> QED
  BY <1>2, <1>3 DEF Recommended, Windows

\* The next alias is created, for a role that was left.
LEMMA CreateAliasKeeps ==
  ASSUME SetupInv, CreateAlias
  PROVE  SetupInv'
<1>1. /\ command # Idle /\ command \in Command /\ command.step \in {"aliases"}
      /\ command' \in Command /\ command' # Idle
      /\ command'.kind = command.kind /\ command'.known = command.known
      /\ command'.profile = command.profile /\ command'.selected = command.selected
      /\ command'.roles = command.roles /\ command'.stable = command.stable
      /\ command'.created = command.created
      /\ Min(command.todo) \in command.todo
      /\ alias' = [alias EXCEPT ![Min(command.todo)] = command.selected[Min(command.todo)]]
      /\ command'.todo = command.todo \ {Min(command.todo)}
      /\ command'.step = (IF command.todo = {Min(command.todo)} THEN "catalog" ELSE "aliases")
      /\ UNCHANGED <<toml, scratch, catalog, codex, runtime, harm>>
  <2>1. command # Idle /\ command \in Command /\ command.step \in {"aliases"}
    BY DEF CreateAlias, At, SetupInv, SetupTypeOK
  <2>2. Min(command.todo) \in command.todo
    BY <2>1, NextRole DEF SetupInv, MeasuringProgress, At
  <2>3. /\ command.todo \ {Min(command.todo)} \in SUBSET Role
        /\ (IF command.todo = {Min(command.todo)} THEN "catalog" ELSE command.step) \in {"aliases", "catalog", "restore"}
    BY <2>1 DEF Command
  <2>4. command' \in Command
    BY <2>1, <2>3, CommandWith DEF CreateAlias
  <2> QED
    BY <2>1, <2>2, <2>4, CommandRuns DEF CreateAlias, Command
<1>2. SetupTypeOK'
  <2>1. command.selected[Min(command.todo)] \in Window
    BY <1>1 DEF Command, Windows
  <2> QED
    BY <1>1, <2>1 DEF SetupInv, SetupTypeOK, Command
<1>3. MeasuringProgress'
  BY <1>1 DEF SetupInv, MeasuringProgress, Measuring, At, Command
<1>4. CommandKnows'
  BY <1>1 DEF SetupInv, CommandKnows, Measuring, Applying, At, Read, Remembered, Command
<1>5. AliasesInOrder'
  <2>1. \A r \in Role \ command'.todo :
          \/ alias'[r] = command.selected[r]
          \/ alias'[r] = alias[r] /\ r \in Role \ command.todo
    BY <1>1 DEF SetupInv, SetupTypeOK
  <2>2. AliasesFollow(command.selected, Role \ command.todo)
    BY <1>1 DEF SetupInv, AliasesInOrder, At
  <2>3. \A r \in Role \ command'.todo : alias'[r] \in {None, command.selected[r]}
    BY <1>1, <2>1, <2>2 DEF AliasesFollow
  <2>4. CASE command.todo = {Min(command.todo)}
    BY <1>1, <2>3, <2>4 DEF AliasesInOrder, AliasesFollow, Measuring, Applying, At
  <2>5. CASE command.todo # {Min(command.todo)}
    BY <1>1, <2>3, <2>5 DEF AliasesInOrder, AliasesFollow, Measuring, Applying, At
  <2> QED
    BY <2>4, <2>5
<1>6. ConfigInOrder'
  BY <1>1 DEF SetupInv, ConfigInOrder, ConfigFollows, Measuring, At, Read, Remembered, Command
<1>7. ScratchInOrder'
  BY <1>1 DEF SetupInv, ScratchInOrder, At, Command
<1> QED
  BY <1>2, <1>3, <1>4, <1>5, <1>6, <1>7 DEF SetupInv

\* The catalog.
LEMMA GenerateCatalogKeeps ==
  ASSUME SetupInv, GenerateCatalog
  PROVE  SetupInv'
<1>1. /\ command # Idle /\ command \in Command /\ command.step \in {"catalog"}
      /\ command' \in Command /\ command' # Idle
      /\ command'.kind = command.kind /\ command'.known = command.known
      /\ command'.profile = command.profile /\ command'.selected = command.selected
      /\ command'.todo = command.todo /\ command'.roles = command.roles
      /\ command'.stable = command.stable /\ command'.created = command.created
      /\ command'.step = "config"
      /\ catalog' = Least(command.selected)
      /\ UNCHANGED <<toml, alias, scratch, codex, runtime, harm>>
  BY DEF GenerateCatalog, Goto, At, SetupInv, SetupTypeOK, Command, Idle
<1>2. SetupTypeOK'
  <2>1. Least(command.selected) \in Window
    BY <1>1, LeastOfWindows DEF Command
  <2> QED
    BY <1>1, <2>1 DEF SetupInv, SetupTypeOK
<1>3. MeasuringProgress'
  BY <1>1 DEF SetupInv, MeasuringProgress, Measuring, At, Command
<1>4. CommandKnows'
  BY <1>1 DEF SetupInv, CommandKnows, Measuring, Applying, At, Read, Remembered, Command
<1>5. AliasesInOrder'
  BY <1>1 DEF SetupInv, AliasesInOrder, AliasesFollow, Measuring, Applying, At, Read, Remembered, Command
<1>6. ConfigInOrder'
  BY <1>1 DEF SetupInv, ConfigInOrder, ConfigFollows, Measuring, At, Read, Remembered, Command
<1>7. ScratchInOrder'
  BY <1>1 DEF SetupInv, ScratchInOrder, At, Command
<1> QED
  BY <1>2, <1>3, <1>4, <1>5, <1>6, <1>7 DEF SetupInv

\* config.toml.
LEMMA WriteConfigKeeps ==
  ASSUME SetupInv, WriteConfig
  PROVE  SetupInv'
<1>1. /\ command # Idle /\ command \in Command /\ command.step \in {"config"}
      /\ command' \in Command /\ command' # Idle
      /\ command'.kind = command.kind /\ command'.known = command.known
      /\ command'.profile = command.profile /\ command'.selected = command.selected
      /\ command'.todo = command.todo /\ command'.roles = command.roles
      /\ command'.stable = command.stable /\ command'.created = command.created
      /\ command'.step = (IF command.kind = "benchmark" THEN "runtime" ELSE "monitor")
      /\ codex' = Least(command.selected)
      /\ UNCHANGED <<toml, alias, scratch, catalog, runtime, harm>>
  BY DEF WriteConfig, Goto, At, SetupInv, SetupTypeOK, Command, Idle
<1>2. SetupTypeOK'
  <2>1. Least(command.selected) \in Window
    BY <1>1, LeastOfWindows DEF Command
  <2> QED
    BY <1>1, <2>1 DEF SetupInv, SetupTypeOK
<1>3. MeasuringProgress'
  BY <1>1 DEF SetupInv, MeasuringProgress, Measuring, At, Command
<1>4. CommandKnows'
  BY <1>1 DEF SetupInv, CommandKnows, Measuring, Applying, At, Read, Remembered, Command
<1>5. AliasesInOrder'
  BY <1>1 DEF SetupInv, AliasesInOrder, AliasesFollow, Measuring, Applying, At, Read, Remembered, Command
<1>6. ConfigInOrder'
  BY <1>1 DEF SetupInv, ConfigInOrder, ConfigFollows, Measuring, At, Read, Remembered, Command
<1>7. ScratchInOrder'
  BY <1>1 DEF SetupInv, ScratchInOrder, At, Command
<1> QED
  BY <1>2, <1>3, <1>4, <1>5, <1>6, <1>7 DEF SetupInv

\* The monitor program: what is known of it changes, and nothing else.
LEMMA InstallMonitorKeeps ==
  ASSUME SetupInv, InstallMonitor
  PROVE  SetupInv'
<1>1. /\ command # Idle /\ command \in Command /\ command.step \in {"monitor"}
      /\ command' \in Command /\ command' # Idle
      /\ command'.kind = command.kind /\ command'.profile = command.profile
      /\ command'.selected = command.selected /\ command'.todo = command.todo
      /\ command'.roles = command.roles /\ command'.stable = command.stable
      /\ command'.created = command.created
      /\ command'.step = "runtime"
      /\ command'.known.windows = command.known.windows
      /\ UNCHANGED <<toml, alias, scratch, catalog, codex, runtime, harm>>
  <2>1. command # Idle /\ command \in Command /\ command.step \in {"monitor"}
    BY DEF InstallMonitor, At, SetupInv, SetupTypeOK
  <2>2. PICK monitor \in {"missing", "installed"} :
          command' = [command EXCEPT !.step = "runtime", !.known.monitor = monitor]
    <3>1. (IF Read.monitor = "installed" \/ Monitor THEN "installed" ELSE "missing") \in {"missing", "installed"}
      OBVIOUS
    <3> QED
      BY <3>1 DEF InstallMonitor
  <2>3. command' \in Command
    BY <2>1, <2>2, CommandWith
  <2> QED
    <3>1. command'.known = [command.known EXCEPT !.monitor = monitor]
      BY <2>1, <2>2 DEF Command
    <3>2. command'.known.windows = command.known.windows
      BY <2>1, <3>1 DEF Command, Runtime
    <3>3. UNCHANGED <<toml, alias, scratch, catalog, codex, runtime, harm>>
      BY DEF InstallMonitor
    <3> QED
      BY <2>1, <2>2, <2>3, <3>2, <3>3, CommandRuns DEF Command
<1>2. SetupTypeOK'
  BY <1>1 DEF SetupInv, SetupTypeOK
<1>3. MeasuringProgress'
  BY <1>1 DEF SetupInv, MeasuringProgress, Measuring, At, Command
<1>4. CommandKnows'
  BY <1>1 DEF SetupInv, CommandKnows, Measuring, Applying, At, Read, Remembered, Command
<1>5. AliasesInOrder'
  BY <1>1 DEF SetupInv, AliasesInOrder, AliasesFollow, Measuring, Applying, At, Read, Remembered, Command
<1>6. ConfigInOrder'
  BY <1>1 DEF SetupInv, ConfigInOrder, ConfigFollows, Measuring, At, Read, Remembered, Command
<1>7. ScratchInOrder'
  BY <1>1 DEF SetupInv, ScratchInOrder, At, Command
<1> QED
  BY <1>2, <1>3, <1>4, <1>5, <1>6, <1>7 DEF SetupInv

\* runtime.json.
LEMMA WriteRuntimeKeeps ==
  ASSUME SetupInv, WriteRuntime
  PROVE  SetupInv'
<1>1. /\ command # Idle /\ command \in Command /\ command.step \in {"runtime"}
      /\ command' \in Command /\ command' # Idle
      /\ command'.kind = command.kind /\ command'.known = command.known
      /\ command'.profile = command.profile /\ command'.selected = command.selected
      /\ command'.todo = command.todo /\ command'.roles = command.roles
      /\ command'.stable = command.stable /\ command'.created = command.created
      /\ command'.step = "validate"
      /\ runtime' = Written
      /\ harm' = harm \ (IF command.kind = "refresh" THEN {"config"} ELSE {"aliases", "config"})
      /\ UNCHANGED <<toml, alias, scratch, catalog, codex>>
  BY DEF WriteRuntime, Goto, At, SetupInv, SetupTypeOK, Command, Idle
<1>2. SetupTypeOK'
  <2>1. Written \in Runtime
    BY <1>1, ContextsForAll DEF Written, Command, Runtime, Windows, SetupInv
  <2> QED
    BY <1>1, <2>1 DEF SetupInv, SetupTypeOK
<1>3. MeasuringProgress'
  BY <1>1 DEF SetupInv, MeasuringProgress, Measuring, At, Command
<1>4. CommandKnows'
  <2>1. Written \in Runtime /\ Written.windows = command.selected
    BY <1>1, ContextsForAll DEF Written, Command, Runtime, Windows, SetupInv
  <2>2. Read' = Written
    BY <1>1, <2>1, ReadIsWritten
  <2> QED
    BY <1>1, <2>1, <2>2 DEF SetupInv, CommandKnows, Measuring, Applying, At
<1>5. AliasesInOrder'
  BY <1>1 DEF SetupInv, AliasesInOrder, AliasesFollow, Measuring, Applying, At, Read, Remembered, Command
<1>6. ConfigInOrder'
  BY <1>1 DEF SetupInv, ConfigInOrder, ConfigFollows, Measuring, At, Read, Remembered, Command
<1>7. ScratchInOrder'
  BY <1>1 DEF SetupInv, ScratchInOrder, At, Command
<1> QED
  BY <1>2, <1>3, <1>4, <1>5, <1>6, <1>7 DEF SetupInv

\* All roles are measured.
LEMMA ProbesDoneKeeps ==
  ASSUME SetupInv, ProbesDone
  PROVE  SetupInv'
<1>1. /\ command # Idle /\ command \in Command /\ command.step \in {"probe"}
      /\ command' \in Command /\ command' # Idle
      /\ command'.kind = command.kind /\ command'.known = command.known
      /\ command'.profile = command.profile /\ command'.selected = command.selected
      /\ command'.todo = command.todo /\ command'.roles = command.roles
      /\ command'.stable = command.stable /\ command'.created = command.created
      /\ command'.step = "cleanup"
      /\ command.todo = {}
      /\ UNCHANGED <<toml, alias, scratch, catalog, codex, runtime, harm>>
  BY DEF ProbesDone, Goto, At, SetupInv, SetupTypeOK, Command, Idle
<1>2. SetupTypeOK'
  BY <1>1 DEF SetupInv, SetupTypeOK
<1>3. MeasuringProgress'
  BY <1>1 DEF SetupInv, MeasuringProgress, Measuring, At, Command
<1>4. CommandKnows'
  BY <1>1 DEF SetupInv, CommandKnows, Measuring, Applying, At, Read, Remembered, Command
<1>5. AliasesInOrder'
  BY <1>1 DEF SetupInv, AliasesInOrder, AliasesFollow, Measuring, Applying, At, Read, Remembered, Command
<1>6. ConfigInOrder'
  BY <1>1 DEF SetupInv, ConfigInOrder, ConfigFollows, Measuring, At, Read, Remembered, Command
<1>7. ScratchInOrder'
  BY <1>1 DEF SetupInv, ScratchInOrder, At, Command
<1> QED
  BY <1>2, <1>3, <1>4, <1>5, <1>6, <1>7 DEF SetupInv

\* The report.
LEMMA ReportKeeps ==
  ASSUME SetupInv, Report
  PROVE  SetupInv'
<1>1. /\ command # Idle /\ command \in Command /\ command.step \in {"report"}
      /\ command' \in Command /\ command' # Idle
      /\ command'.kind = command.kind /\ command'.known = command.known
      /\ command'.profile = command.profile /\ command'.selected = command.selected
      /\ command'.todo = command.todo /\ command'.roles = command.roles
      /\ command'.stable = command.stable /\ command'.created = command.created
      /\ command'.step = "confirm"
      /\ runtime' = command.known
      /\ UNCHANGED <<toml, alias, scratch, catalog, codex, harm>>
  BY DEF Report, Goto, At, SetupInv, SetupTypeOK, Command, Idle
<1>2. SetupTypeOK'
  BY <1>1 DEF SetupInv, SetupTypeOK, Command
<1>3. MeasuringProgress'
  BY <1>1 DEF SetupInv, MeasuringProgress, Measuring, At, Command
<1>4. CommandKnows'
  <2>1. Read' = command.known
    BY <1>1, ReadIsWritten DEF Command
  <2> QED
    BY <1>1, <2>1 DEF SetupInv, CommandKnows, Measuring, Applying, At
<1>5. AliasesInOrder'
  BY <1>1 DEF SetupInv, AliasesInOrder, AliasesFollow, Measuring, Applying, At, Read, Remembered, Command
<1>6. ConfigInOrder'
  BY <1>1 DEF SetupInv, ConfigInOrder, ConfigFollows, Measuring, At, Read, Remembered, Command
<1>7. ScratchInOrder'
  BY <1>1 DEF SetupInv, ScratchInOrder, At, Command
<1> QED
  BY <1>2, <1>3, <1>4, <1>5, <1>6, <1>7 DEF SetupInv

\* An application is to be undone.
LEMMA ApplicationFailsKeeps ==
  ASSUME SetupInv, ApplicationFails
  PROVE  SetupInv'
<1>1. /\ command # Idle /\ command \in Command /\ command.step \in {"aliases", "catalog", "config"}
      /\ command' \in Command /\ command' # Idle
      /\ command'.kind = command.kind /\ command'.known = command.known
      /\ command'.profile = command.profile /\ command'.selected = command.selected
      /\ command'.roles = command.roles /\ command'.stable = command.stable
      /\ command'.created = command.created
      /\ command.kind = "benchmark"
      /\ command'.step = "restore"
      /\ command'.todo = Role
      /\ UNCHANGED <<toml, alias, scratch>>
  <2>1. command # Idle /\ command \in Command /\ command.step \in {"aliases", "catalog", "config"}
    BY DEF ApplicationFails, At, SetupInv, SetupTypeOK
  <2>2. command' \in Command
    BY <2>1, CommandWith DEF ApplicationFails
  <2> QED
    BY <2>1, <2>2, CommandRuns DEF ApplicationFails, Command
<1>2. /\ runtime' = runtime
      /\ catalog' \in Window \cup {None, Half} /\ codex' \in Window \cup {None, Half}
      /\ harm' \subseteq {"aliases", "config", "scratch"}
      /\ "aliases" \notin harm' => "aliases" \notin harm
      /\ "scratch" \notin harm' => "scratch" \notin harm
      /\ "config" \notin harm' =>
           /\ UNCHANGED <<catalog, codex>> /\ "config" \notin harm /\ command.step # "config"
  <2>1. At({"config"}) => "config" \in Touched \ {"aliases"}
    BY <1>1 DEF Touched, At
  <2>2. Touched \ {"aliases"} \in SUBSET {"aliases", "config"} /\ ~At({"report", "runtime"})
    BY <1>1, TouchedIsDisorder DEF At
  <2>3. FilesSurvive(Touched \ {"aliases"})
    BY DEF ApplicationFails
  <2> HIDE DEF Touched
  <2> QED
    BY <1>1, <2>1, <2>2, <2>3, SurvivingFiles DEF SetupInv, At
<1>3. SetupTypeOK'
  BY <1>1, <1>2 DEF SetupInv, SetupTypeOK
<1>4. MeasuringProgress'
  BY <1>1, SetupAssumption DEF SetupInv, MeasuringProgress, Measuring, At, Command
<1>5. CommandKnows'
  BY <1>1, <1>2 DEF SetupInv, CommandKnows, Measuring, Applying, At, Read, Remembered, Command
<1>6. AliasesInOrder'
  BY <1>1, <1>2 DEF SetupInv, AliasesInOrder, AliasesFollow, Measuring, Applying, At, Read, Remembered, Command
<1>7. ConfigInOrder'
  BY <1>1, <1>2 DEF SetupInv, ConfigInOrder, ConfigFollows, Measuring, At, Read, Remembered
<1>8. ScratchInOrder'
  BY <1>1, <1>2 DEF SetupInv, ScratchInOrder, At, Command
<1> QED
  BY <1>3, <1>4, <1>5, <1>6, <1>7, <1>8 DEF SetupInv

\* An alias of the benchmark cannot be created.
LEMMA ProbeFailsKeeps ==
  ASSUME SetupInv, ProbeFails
  PROVE  SetupInv'
<1>1. /\ command # Idle /\ command \in Command /\ command.step \in {"probe"}
      /\ command' \in Command /\ command' # Idle
      /\ command'.kind = command.kind /\ command'.known = command.known
      /\ command'.profile = command.profile /\ command'.selected = command.selected
      /\ command'.todo = command.todo /\ command'.roles = command.roles
      /\ command'.stable = command.stable
      /\ command.todo # {}
      /\ command'.step = "cleanup"
      /\ command'.created = command.created \cup {Probed}
      /\ scratch' \subseteq scratch \cup {Probed} /\ Probed \in Role \X Candidates
      /\ UNCHANGED <<toml, alias, catalog, codex, runtime, harm>>
  <2>1. command # Idle /\ command \in Command /\ command.step \in {"probe"} /\ command.todo # {}
    BY DEF ProbeFails, At, SetupInv, SetupTypeOK
  <2>2. Probed \in Role \X Candidates
    BY <2>1, NextProbe DEF SetupInv, At
  <2>3. command.created \cup {Probed} \in SUBSET (Role \X Candidates)
    BY <2>1, <2>2 DEF Command
  <2>4. command' \in Command
    BY <2>1, <2>3, CommandWith DEF ProbeFails
  <2> QED
    BY <2>1, <2>2, <2>4, CommandRuns DEF ProbeFails, Command
<1>2. SetupTypeOK'
  BY <1>1 DEF SetupInv, SetupTypeOK
<1>3. MeasuringProgress'
  BY <1>1 DEF SetupInv, MeasuringProgress, Measuring, At, Command
<1>4. CommandKnows'
  BY <1>1 DEF SetupInv, CommandKnows, Measuring, Applying, At, Read, Remembered, Command
<1>5. AliasesInOrder'
  BY <1>1 DEF SetupInv, AliasesInOrder, AliasesFollow, Measuring, Applying, At, Read, Remembered, Command
<1>6. ConfigInOrder'
  BY <1>1 DEF SetupInv, ConfigInOrder, ConfigFollows, Measuring, At, Read, Remembered, Command
<1>7. ScratchInOrder'
  BY <1>1 DEF SetupInv, ScratchInOrder, At, Command
<1> QED
  BY <1>2, <1>3, <1>4, <1>5, <1>6, <1>7 DEF SetupInv

\* An installation starts.
LEMMA InstallStarts ==
  ASSUME SetupInv, NEW selected \in Windows,
         Start("install", "aliases", selected, {})
  PROVE  SetupInv'
<1>1. /\ command = Idle /\ command' \in Command /\ command' # Idle
      /\ command'.kind = "install" /\ command'.step = "aliases" /\ command'.known = Read
      /\ command'.selected = selected /\ command'.roles = {}
      /\ command'.stable = [r \in Role |-> {}] /\ command'.created = {}
      /\ UNCHANGED <<toml, alias, scratch, catalog, codex, runtime, harm>>
      /\ command'.todo = Role
  <2>1. Configured \in Windows /\ Read \in Runtime
    BY ContextsForAll DEF SetupInv
  <2>2. command' \in Command
    BY <2>1 DEF Start, Command
  <2> QED
    BY <2>2, CommandRuns DEF Start
<1>2. SetupTypeOK'
  BY <1>1 DEF SetupInv, SetupTypeOK
<1>3. MeasuringProgress'
  BY <1>1, SetupAssumption DEF MeasuringProgress, Measuring, At
<1>4. CommandKnows'
  BY <1>1 DEF SetupInv, CommandKnows, Measuring, Applying, At, Read, Remembered, Command
<1>5. AliasesInOrder'
  BY <1>1 DEF SetupInv, AliasesInOrder, AliasesFollow, Measuring, Applying, At, Read, Remembered, Command
<1>6. ConfigInOrder'
  BY <1>1 DEF SetupInv, ConfigInOrder, ConfigFollows, Measuring, At, Read, Remembered, Command
<1>7. ScratchInOrder'
  BY <1>1 DEF SetupInv, ScratchInOrder, At, Command
<1> QED
  BY <1>2, <1>3, <1>4, <1>5, <1>6, <1>7 DEF SetupInv

\* A refresh starts.
LEMMA RefreshStarts ==
  ASSUME SetupInv, NEW selected \in Windows, selected = Remembered(Read),
         Start("refresh", "catalog", selected, {})
  PROVE  SetupInv'
<1>1. /\ command = Idle /\ command' \in Command /\ command' # Idle
      /\ command'.kind = "refresh" /\ command'.step = "catalog" /\ command'.known = Read
      /\ command'.selected = selected /\ command'.roles = {}
      /\ command'.stable = [r \in Role |-> {}] /\ command'.created = {}
      /\ UNCHANGED <<toml, alias, scratch, catalog, codex, runtime, harm>>
      /\ command'.todo = Role
  <2>1. Configured \in Windows /\ Read \in Runtime
    BY ContextsForAll DEF SetupInv
  <2>2. command' \in Command
    BY <2>1 DEF Start, Command
  <2> QED
    BY <2>2, CommandRuns DEF Start
<1>0. /\ Remembered(command.known)' = selected /\ Read' = Read
  <2>1. Read' = Read
    BY <1>1 DEF Read
  <2>2. Remembered(command.known)' = Remembered(Read)
    BY <1>1, <2>1 DEF Remembered, DefaultWindows
  <2> QED
    BY <2>1, <2>2
<1>2. SetupTypeOK'
  BY <1>0, <1>1 DEF SetupInv, SetupTypeOK
<1>3. MeasuringProgress'
  BY <1>0, <1>1 DEF SetupInv, MeasuringProgress, Measuring, At, Command
<1>4. CommandKnows'
  BY <1>0, <1>1 DEF SetupInv, CommandKnows, Measuring, Applying, At, Read, Remembered
<1>5. AliasesInOrder'
  <2>1. "aliases" \notin harm => AliasesFollow(selected, Role)
    BY <1>0, <1>1 DEF SetupInv, AliasesInOrder
  <2>2. "aliases" \notin harm => AliasesFollow(selected, Role)'
    BY <1>0, <1>1, <2>1 DEF AliasesFollow
  <2> QED
    BY <1>0, <1>1, <2>2 DEF AliasesInOrder, AliasesFollow, Measuring, Applying, At
<1>6. ConfigInOrder'
  BY <1>0, <1>1 DEF SetupInv, ConfigInOrder, ConfigFollows, Measuring, At, Least
<1>7. ScratchInOrder'
  BY <1>0, <1>1 DEF SetupInv, ScratchInOrder, At, Command
<1> QED
  BY <1>2, <1>3, <1>4, <1>5, <1>6, <1>7 DEF SetupInv

\* A benchmark starts.
LEMMA BenchmarkStarts ==
  ASSUME SetupInv, NEW selected \in Windows, selected = Remembered(Read),
         NEW roles \in SUBSET Role, roles # {}, Start("benchmark", "probe", selected, roles)
  PROVE  SetupInv'
<1>1. /\ command = Idle /\ command' \in Command /\ command' # Idle
      /\ command'.kind = "benchmark" /\ command'.step = "probe" /\ command'.known = Read
      /\ command'.selected = selected /\ command'.roles = roles
      /\ command'.stable = [r \in Role |-> {}] /\ command'.created = {}
      /\ UNCHANGED <<toml, alias, scratch, catalog, codex, runtime, harm>>
      /\ command'.todo = roles
  <2>1. Configured \in Windows /\ Read \in Runtime
    BY ContextsForAll DEF SetupInv
  <2>2. command' \in Command
    BY <2>1 DEF Start, Command
  <2> QED
    BY <2>2, CommandRuns DEF Start
<1>2. SetupTypeOK'
  BY <1>1 DEF SetupInv, SetupTypeOK
<1>3. MeasuringProgress'
  BY <1>1, SetupAssumption DEF MeasuringProgress, Measuring, At
<1>4. CommandKnows'
  BY <1>1 DEF SetupInv, CommandKnows, Measuring, Applying, At, Read, Remembered, Command
<1>5. AliasesInOrder'
  BY <1>1 DEF SetupInv, AliasesInOrder, AliasesFollow, Measuring, Applying, At, Read, Remembered, Command
<1>6. ConfigInOrder'
  BY <1>1 DEF SetupInv, ConfigInOrder, ConfigFollows, Measuring, At, Read, Remembered, Command
<1>7. ScratchInOrder'
  BY <1>1 DEF SetupInv, ScratchInOrder, At, Command
<1> QED
  BY <1>2, <1>3, <1>4, <1>5, <1>6, <1>7 DEF SetupInv

\* The command is done.
LEMMA ValidateKeeps ==
  ASSUME SetupInv, Validate
  PROVE  SetupInv'
<1>1. /\ command # Idle /\ command \in Command /\ command' = Idle
      /\ command.step = "validate"
      /\ UNCHANGED <<toml, alias, scratch, catalog, codex, runtime, harm>>
  BY DEF Validate, At, SetupInv, SetupTypeOK
<1>2. SetupTypeOK'
  BY <1>1 DEF SetupInv, SetupTypeOK
<1>3. MeasuringProgress'
  BY <1>1 DEF SetupInv, MeasuringProgress, Measuring, At, Command
<1>4. CommandKnows'
  BY <1>1 DEF SetupInv, CommandKnows, Measuring, Applying, At, Read, Remembered, Command
<1>5. AliasesInOrder'
  <2>1. Remembered(Read)' = command.selected
    BY <1>1, KnowsWhatIsRead DEF Read, Remembered
  <2> QED
    BY <1>1, <2>1 DEF SetupInv, AliasesInOrder, AliasesFollow, Applying, At
<1>6. ConfigInOrder'
  <2>1. Remembered(Read)' = command.selected
    BY <1>1, KnowsWhatIsRead DEF Read, Remembered
  <2> QED
    BY <1>1, <2>1 DEF SetupInv, ConfigInOrder, ConfigFollows, At, Least
<1>7. ScratchInOrder'
  BY <1>1 DEF SetupInv, ScratchInOrder, At, Command
<1> QED
  BY <1>2, <1>3, <1>4, <1>5, <1>6, <1>7 DEF SetupInv

\* A command that is broken off after its measurements has touched only what counts as
\* disordered; what it was writing is in disorder.
LEMMA BrokenOff ==
  ASSUME SetupInv, command # Idle, ~At({"probe", "cleanup"}), command' = Idle,
         FilesSurvive(Touched), UNCHANGED <<toml, alias, scratch>>
  PROVE  SetupInv'
<1>1. /\ command # Idle /\ command \in Command /\ command' = Idle
      /\ command.step \notin {"probe", "cleanup"} /\ UNCHANGED <<toml, alias, scratch>>
      /\ runtime' \in Runtime \cup {None}
      /\ catalog' \in Window \cup {None, Half} /\ codex' \in Window \cup {None, Half}
      /\ harm' \subseteq {"aliases", "config", "scratch"}
      /\ harm \subseteq harm' /\ ("scratch" \in harm' <=> "scratch" \in harm)
      /\ "aliases" \notin harm' => runtime' = runtime /\ "aliases" \notin Touched
      /\ "config" \notin harm' =>
           UNCHANGED <<catalog, codex, runtime>> /\ "config" \notin Touched
  <2>1. command \in Command /\ command.step \notin {"probe", "cleanup"}
    BY DEF SetupInv, SetupTypeOK, At
  <2>2. Touched \in SUBSET {"aliases", "config"} /\ (At({"config"}) => "config" \in Touched)
    BY TouchedIsDisorder DEF Touched, At
  <2> QED
    BY <2>1, <2>2, SurvivingFiles DEF SetupInv
<1>2. SetupTypeOK'
  BY <1>1 DEF SetupInv, SetupTypeOK
<1>3. MeasuringProgress'
  BY <1>1 DEF SetupInv, MeasuringProgress, Measuring, At, Command
<1>4. CommandKnows'
  BY <1>1 DEF SetupInv, CommandKnows, Measuring, Applying, At, Read, Remembered, Command
<1>5. AliasesInOrder'
  <2> SUFFICES ASSUME "aliases" \notin harm' PROVE AliasesFollow(Remembered(Read), Role)'
    BY <1>1 DEF AliasesInOrder, At
  <2>1. runtime' = runtime /\ "aliases" \notin harm /\ "aliases" \notin Touched
    BY <1>1
  <2>2. Remembered(Read)' = Remembered(Read)
    BY <2>1 DEF Remembered, Read
  <2>3. CASE command.step \in Measuring
    BY <1>1, <2>1, <2>2, <2>3, KnowsWhatIsRead DEF SetupInv, AliasesInOrder, AliasesFollow, At, Measuring
  <2>4. CASE command.step = "validate" \/ command.kind = "refresh"
    <3>1. command.step \in Applying
      BY <1>1, <2>4 DEF SetupInv, CommandKnows, Applying
    <3> QED
      BY <1>1, <2>1, <2>2, <2>4, <3>1, KnowsWhatIsRead DEF SetupInv, AliasesInOrder, AliasesFollow, At
  <2> QED
    BY <1>1, <2>1, <2>3, <2>4 DEF Touched, At, Measuring, Command
<1>6. ConfigInOrder'
  <2> SUFFICES ASSUME "config" \notin harm' PROVE ConfigFollows(Remembered(Read))'
    BY <1>1 DEF ConfigInOrder, At
  <2>1. UNCHANGED <<catalog, codex, runtime>> /\ "config" \notin harm /\ "config" \notin Touched
    BY <1>1
  <2>2. Remembered(Read)' = Remembered(Read)
    BY <2>1 DEF Remembered, Read
  <2>3. CASE command.step \in Measuring \cup {"aliases", "restore", "catalog"}
    BY <1>1, <2>1, <2>2, <2>3, KnowsWhatIsRead DEF SetupInv, ConfigInOrder, ConfigFollows, At, Measuring, Least
  <2>4. CASE command.step = "validate"
    BY <1>1, <2>1, <2>2, <2>4, KnowsWhatIsRead DEF SetupInv, ConfigInOrder, ConfigFollows, At, Least
  <2> QED
    BY <1>1, <2>1, <2>3, <2>4 DEF Touched, At, Measuring, Command
<1>7. ScratchInOrder'
  BY <1>1 DEF SetupInv, ScratchInOrder, At, Command
<1> QED
  BY <1>2, <1>3, <1>4, <1>5, <1>6, <1>7 DEF SetupInv

\* The role and the context that were probed are noted.
LEMMA ProbeKeeps ==
  ASSUME SetupInv, Probe
  PROVE  SetupInv'
<1>1. /\ command # Idle /\ command \in Command /\ command.step = "probe"
      /\ command' \in Command /\ command' # Idle
      /\ command'.kind = command.kind /\ command'.known = command.known
      /\ command'.selected = command.selected /\ command'.roles = command.roles
      /\ command'.step \in {"probe", "cleanup"}
      /\ command'.created = command.created \cup {Probed}
      /\ \A r \in command.roles \ command'.todo : command'.stable[r] # {}
      /\ command'.step = "probe" => \A r \in command'.todo : command'.stable[r] # Candidates
      /\ scratch' = scratch \cup {Probed} /\ Probed \in Role \X Candidates
      /\ UNCHANGED <<toml, alias, catalog, codex, runtime, harm>>
  <2>1. /\ command # Idle /\ command \in Command /\ command.step = "probe"
        /\ scratch' = scratch \cup {Probed} /\ command.todo # {} /\ At({"probe"})
        /\ UNCHANGED <<toml, alias, catalog, codex, runtime, harm>>
    BY DEF Probe, At, SetupInv, SetupTypeOK
  <2>2. Probed \in Role \X Candidates
    BY <2>1, NextProbe DEF SetupInv
  <2> QED
    BY <2>1, <2>2, ProbeGoesOn DEF SetupInv
<1>2. SetupTypeOK'
  BY <1>1 DEF SetupInv, SetupTypeOK
<1>3. MeasuringProgress'
  BY <1>1 DEF SetupInv, MeasuringProgress, Measuring, At, Command
<1>4. CommandKnows'
  BY <1>1 DEF SetupInv, CommandKnows, Measuring, Applying, At, Read, Remembered, Command
<1>5. AliasesInOrder'
  BY <1>1 DEF SetupInv, AliasesInOrder, AliasesFollow, Measuring, Applying, At, Read, Remembered, Command
<1>6. ConfigInOrder'
  BY <1>1 DEF SetupInv, ConfigInOrder, ConfigFollows, Measuring, At, Read, Remembered, Command
<1>7. ScratchInOrder'
  BY <1>1 DEF SetupInv, ScratchInOrder, At, Command
<1> QED
  BY <1>2, <1>3, <1>4, <1>5, <1>6, <1>7 DEF SetupInv

\* The benchmark aliases that were noted are removed, or those that are left are in disorder.
LEMMA CleanupKeeps ==
  ASSUME SetupInv, Cleanup
  PROVE  SetupInv'
<1>1. /\ command # Idle /\ command \in Command /\ command.step = "cleanup"
      /\ scratch' \subseteq scratch /\ harm' \subseteq {"aliases", "config", "scratch"}
      /\ "aliases" \in harm' <=> "aliases" \in harm
      /\ "config" \in harm' <=> "config" \in harm
      /\ "scratch" \notin harm' => scratch' = {}
      /\ UNCHANGED <<toml, alias, catalog, codex, runtime>>
  <2>1. /\ command # Idle /\ command \in Command /\ command.step = "cleanup"
        /\ harm \subseteq {"aliases", "config", "scratch"}
        /\ "scratch" \notin harm => scratch \subseteq command.created
    BY DEF Cleanup, At, SetupInv, SetupTypeOK, ScratchInOrder
  <2>2. PICK left \in SUBSET (scratch \cap command.created) :
          /\ scratch' = (scratch \ command.created) \cup left
          /\ harm' = IF left # {} THEN harm \cup {"scratch"}
                     ELSE IF scratch' = {} THEN harm \ {"scratch"} ELSE harm
    BY DEF Cleanup
  <2>3. UNCHANGED <<toml, alias, catalog, codex, runtime>>
    BY DEF Cleanup
  <2> QED
    BY <2>1, <2>2, <2>3
<1>2. CASE command.todo = {}
  <2>1. /\ command' = [command EXCEPT !.step = "report"] /\ command' \in Command
    BY <1>1, <1>2, CommandWith DEF Cleanup, Goto
  <2>2. /\ command' \in Command /\ command' # Idle /\ command'.step = "report"
        /\ command'.kind = command.kind /\ command'.known = command.known
        /\ command'.selected = command.selected /\ command'.todo = command.todo
        /\ command'.roles = command.roles /\ command'.stable = command.stable
    BY <1>1, <2>1, CommandRuns DEF Command
  <2>3. SetupTypeOK'
    BY <1>1, <2>2 DEF SetupInv, SetupTypeOK
  <2>4. MeasuringProgress'
    BY <1>1, <1>2, <2>2 DEF SetupInv, MeasuringProgress, Measuring, At, Command
  <2>5. CommandKnows'
    BY <1>1, <2>2 DEF SetupInv, CommandKnows, Measuring, Applying, At, Read, Remembered, Command
  <2>6. AliasesInOrder'
    BY <1>1, <2>2 DEF SetupInv, AliasesInOrder, AliasesFollow, Measuring, Applying, At, Read, Remembered, Command
  <2>7. ConfigInOrder'
    BY <1>1, <2>2 DEF SetupInv, ConfigInOrder, ConfigFollows, Measuring, At, Read, Remembered, Command
  <2>8. ScratchInOrder'
    BY <1>1, <2>2 DEF SetupInv, ScratchInOrder, At, Command
  <2> QED
    BY <2>3, <2>4, <2>5, <2>6, <2>7, <2>8 DEF SetupInv
<1>3. CASE command.todo # {}
  <2>1. command' = Idle
    BY <1>3 DEF Cleanup
  <2>2. Remembered(Read)' = Remembered(command.known)
    BY <1>1, KnowsWhatIsRead DEF Read, Remembered
  <2>3. SetupTypeOK'
    BY <1>1, <2>1 DEF SetupInv, SetupTypeOK
  <2>4. MeasuringProgress' /\ CommandKnows'
    BY <2>1 DEF MeasuringProgress, CommandKnows, At
  <2>5. AliasesInOrder'
    BY <1>1, <2>1, <2>2 DEF SetupInv, AliasesInOrder, AliasesFollow, Measuring, At
  <2>6. ConfigInOrder'
    BY <1>1, <2>1, <2>2 DEF SetupInv, ConfigInOrder, ConfigFollows, Measuring, At, Least
  <2>7. ScratchInOrder'
    BY <1>1, <2>1 DEF SetupInv, ScratchInOrder, At
  <2> QED
    BY <2>3, <2>4, <2>5, <2>6, <2>7 DEF SetupInv
<1> QED
  BY <1>2, <1>3

\* The recommendations are declined, or the aliases are created for them.
LEMMA ConfirmKeeps ==
  ASSUME SetupInv, Confirm
  PROVE  SetupInv'
<1>1. /\ command # Idle /\ command \in Command /\ command.step = "confirm"
      /\ command.kind = "benchmark"
      /\ UNCHANGED <<toml, alias, scratch, catalog, codex, runtime, harm>>
  BY DEF Confirm, At, SetupInv, SetupTypeOK, MeasuringProgress, Measuring
<1>2. CASE command' = Idle
  <2>1. ~At({"probe", "cleanup"}) /\ FilesSurvive(Touched)
    BY <1>1 DEF At, FilesSurvive, Touched
  <2> QED
    BY <1>1, <1>2, <2>1, BrokenOff
<1>3. CASE command' = [command EXCEPT !.step = "aliases", !.todo = Role, !.selected = Recommended]
  <2>1. Recommended \in Windows
    BY <1>1, RecommendedAreWindows DEF SetupInv, At
  <2>2. command' \in Command
    BY <1>1, <1>3, <2>1, CommandWith
  <2>3. /\ command' \in Command /\ command' # Idle /\ command'.step = "aliases"
        /\ command'.kind = command.kind /\ command'.known = command.known
        /\ command'.selected = Recommended /\ command'.todo = Role
        /\ command'.roles = command.roles /\ command'.stable = command.stable
    BY <1>1, <1>3, <2>2, CommandRuns DEF Command
  <2>4. SetupTypeOK'
    BY <1>1, <2>3 DEF SetupInv, SetupTypeOK
  <2>5. MeasuringProgress'
    BY <1>1, <2>3, SetupAssumption DEF MeasuringProgress, Measuring, At
  <2>6. CommandKnows'
    BY <1>1, <2>3 DEF SetupInv, CommandKnows, Measuring, Applying, At, Read, Remembered, Command
  <2>7. AliasesInOrder'
    BY <1>1, <2>3 DEF SetupInv, AliasesInOrder, AliasesFollow, Measuring, Applying, At
  <2>8. ConfigInOrder'
    BY <1>1, <2>3 DEF SetupInv, ConfigInOrder, ConfigFollows, Measuring, At, Read, Remembered, Command
  <2>9. ScratchInOrder'
    BY <1>1, <2>3 DEF SetupInv, ScratchInOrder, At, Command
  <2> QED
    BY <2>4, <2>5, <2>6, <2>7, <2>8, <2>9 DEF SetupInv
<1> QED
  BY <1>2, <1>3 DEF Confirm

\* An alias is created as it was, or cannot be; after the last, the benchmark ends.
LEMMA RestoreKeeps ==
  ASSUME SetupInv, Restore
  PROVE  SetupInv'
<1> DEFINE r == Min(command.todo)
<1>1. /\ command # Idle /\ command \in Command /\ command.step = "restore"
      /\ command.kind = "benchmark" /\ command.todo # {}
      /\ UNCHANGED <<toml, scratch, catalog, codex, runtime>>
  BY DEF Restore, At, SetupInv, SetupTypeOK, MeasuringProgress
<1>2. r \in command.todo /\ r \in Role
  BY <1>1, NextRole DEF SetupInv
<1>3. Remembered(command.known) \in Windows
  BY <1>1, ContextsForAll DEF SetupInv, Command
<1>4. /\ alias' \in [Role -> Window \cup {None}] /\ harm' \subseteq {"aliases", "config", "scratch"}
      /\ harm \subseteq harm' /\ harm' \subseteq harm \cup {"aliases"}
      /\ "aliases" \notin harm' =>
           \A q \in Role : alias'[q] = IF q = r THEN Remembered(command.known)[r] ELSE alias[q]
  BY <1>1, <1>2, <1>3 DEF Restore, SetupInv, SetupTypeOK, Windows
<1>5. "aliases" \notin harm' =>
        \A q \in Role \ (command.todo \ {r}) : alias'[q] \in {None, Remembered(command.known)[q]}
  BY <1>1, <1>2, <1>4 DEF SetupInv, AliasesInOrder, AliasesFollow, At
<1>6. CASE command.todo = {r}
  <2>1. command' = Idle
    BY <1>6 DEF Restore
  <2>2. Remembered(Read)' = Remembered(command.known)
    BY <1>1, KnowsWhatIsRead DEF Read, Remembered
  <2>3. SetupTypeOK'
    BY <1>1, <1>4, <2>1 DEF SetupInv, SetupTypeOK
  <2>4. MeasuringProgress' /\ CommandKnows'
    BY <2>1 DEF MeasuringProgress, CommandKnows, At
  <2>5. AliasesInOrder'
    BY <1>5, <1>6, <2>1, <2>2 DEF AliasesInOrder, AliasesFollow, At
  <2>6. ConfigInOrder'
    BY <1>1, <1>4, <2>1, <2>2 DEF SetupInv, ConfigInOrder, ConfigFollows, At, Least
  <2>7. ScratchInOrder'
    BY <1>1, <1>4, <2>1 DEF SetupInv, ScratchInOrder, At
  <2> QED
    BY <2>3, <2>4, <2>5, <2>6, <2>7 DEF SetupInv
<1>7. CASE command.todo # {r}
  <2>1. command' = [command EXCEPT !.todo = @ \ {r}] /\ command.todo \ {r} \in SUBSET Role
    BY <1>1, <1>7 DEF Restore, Command
  <2>2. command' \in Command
    BY <1>1, <2>1, CommandWith
  <2>3. /\ command' \in Command /\ command' # Idle /\ command'.step = "restore"
        /\ command'.kind = command.kind /\ command'.known = command.known
        /\ command'.todo = command.todo \ {r} /\ command'.todo # {}
    BY <1>1, <1>2, <1>7, <2>1, <2>2, CommandRuns DEF Command
  <2>4. SetupTypeOK'
    BY <1>1, <1>4, <2>3 DEF SetupInv, SetupTypeOK
  <2>5. MeasuringProgress'
    BY <1>1, <2>3 DEF MeasuringProgress, Measuring, At
  <2>6. CommandKnows'
    BY <1>1, <2>3 DEF SetupInv, CommandKnows, Measuring, Applying, At, Read, Remembered
  <2>7. AliasesInOrder'
    <3>1. Remembered(command.known)' = Remembered(command.known)
      BY <2>3 DEF Remembered, DefaultWindows
    <3> QED
      BY <1>1, <1>5, <2>3, <3>1 DEF AliasesInOrder, AliasesFollow, Measuring, Applying, At
  <2>8. ConfigInOrder'
    BY <1>1, <1>4, <2>3 DEF SetupInv, ConfigInOrder, ConfigFollows, Measuring, At, Read, Remembered
  <2>9. ScratchInOrder'
    BY <1>1, <1>4, <2>3 DEF SetupInv, ScratchInOrder, At
  <2> QED
    BY <2>4, <2>5, <2>6, <2>7, <2>8, <2>9 DEF SetupInv
<1> QED
  BY <1>6, <1>7

\* A command that fails, and one that is killed, are broken off.
LEMMA CommandFailsKeeps ==
  ASSUME SetupInv, CommandFails
  PROVE  SetupInv'
<1>1. command # Idle /\ ~At({"probe", "cleanup"})
  BY DEF CommandFails, At
<1> QED
  BY <1>1, BrokenOff DEF CommandFails

\* A command that is killed leaves behind what it says is in disorder.
LEMMA KilledKeeps ==
  ASSUME SetupInv, Killed
  PROVE  SetupInv'
<1>1. CASE ~At({"probe", "cleanup"})
  BY <1>1, BrokenOff DEF Killed
<1>2. CASE At({"probe", "cleanup"})
  <2>1. /\ command # Idle /\ command.step \in {"probe", "cleanup"} /\ command' = Idle
        /\ harm' = harm \cup {"scratch"} /\ UNCHANGED <<toml, alias, scratch, catalog, codex, runtime>>
    BY <1>2 DEF Killed, FilesSurvive, At
  <2>2. Remembered(Read)' = Remembered(command.known)
    BY <2>1, KnowsWhatIsRead DEF Read, Remembered
  <2>3. SetupTypeOK'
    BY <2>1 DEF SetupInv, SetupTypeOK
  <2>4. MeasuringProgress' /\ CommandKnows'
    BY <2>1 DEF MeasuringProgress, CommandKnows, At
  <2>5. AliasesInOrder'
    BY <2>1, <2>2 DEF SetupInv, AliasesInOrder, AliasesFollow, Measuring, At
  <2>6. ConfigInOrder'
    BY <2>1, <2>2 DEF SetupInv, ConfigInOrder, ConfigFollows, Measuring, At, Least
  <2>7. ScratchInOrder'
    BY <2>1 DEF ScratchInOrder, At
  <2> QED
    BY <2>3, <2>4, <2>5, <2>6, <2>7 DEF SetupInv
<1> QED
  BY <1>1, <1>2

\* The user's file, and steps of others.
LEMMA CommandUntouched ==
  ASSUME SetupInv, toml' \in Profile \cup {None},
         UNCHANGED <<alias, scratch, catalog, codex, runtime, command, harm>>
  PROVE  SetupInv'
<1>1. SetupTypeOK'
  BY DEF SetupInv, SetupTypeOK
<1>2. MeasuringProgress'
  BY DEF SetupInv, MeasuringProgress, At
<1>3. CommandKnows'
  BY DEF SetupInv, CommandKnows, At, Read, Remembered
<1>4. AliasesInOrder'
  BY DEF SetupInv, AliasesInOrder, AliasesFollow, At, Read, Remembered
<1>5. ConfigInOrder'
  BY DEF SetupInv, ConfigInOrder, ConfigFollows, At, Read, Remembered, Least
<1>6. ScratchInOrder'
  BY DEF SetupInv, ScratchInOrder, At
<1> QED
  BY <1>1, <1>2, <1>3, <1>4, <1>5, <1>6 DEF SetupInv

\* Before the first setup.
LEMMA SetupInvHoldsAtFirst == SetupInit => SetupInv
<1> SUFFICES ASSUME SetupInit PROVE SetupInv
  OBVIOUS
<1>1. SetupTypeOK
  BY DEF SetupInit, SetupTypeOK
<1>2. MeasuringProgress /\ CommandKnows /\ ScratchInOrder
  BY DEF SetupInit, MeasuringProgress, CommandKnows, ScratchInOrder, At
<1>3. AliasesInOrder /\ ConfigInOrder
  BY DEF SetupInit, AliasesInOrder, AliasesFollow, ConfigInOrder, ConfigFollows, At
<1> QED
  BY <1>1, <1>2, <1>3 DEF SetupInv

\* One step for each action, in the order of the module.
LEMMA SetupStep ==
  SetupInv /\ [SetupNext]_setupVars => SetupInv'
<1> SUFFICES ASSUME SetupInv, [SetupNext]_setupVars PROVE SetupInv'
  OBVIOUS
<1>1. ASSUME EditProfile PROVE SetupInv'
  BY <1>1, CommandUntouched DEF EditProfile
<1>2. ASSUME Commands PROVE SetupInv'
  <2>1. Remembered(Read) \in Windows
    BY ContextsForAll DEF SetupInv
  <2>2. ASSUME NEW selected \in Windows, Start("install", "aliases", selected, {}) PROVE SetupInv'
    BY <2>2, InstallStarts
  <2>3. ASSUME Start("refresh", "catalog", Remembered(Read), {}) PROVE SetupInv'
    BY <2>1, <2>3, RefreshStarts
  <2>4. ASSUME NEW roles \in SUBSET Role, roles # {},
               Start("benchmark", "probe", Remembered(Read), roles)
        PROVE  SetupInv'
    BY <2>1, <2>4, BenchmarkStarts
  <2> QED
    BY <1>2, <2>2, <2>3, <2>4, StartsAre DEF SetupInv
<1>3. ASSUME Applies PROVE SetupInv'
  BY <1>3, CreateAliasKeeps, GenerateCatalogKeeps, WriteConfigKeeps, InstallMonitorKeeps,
     WriteRuntimeKeeps, ValidateKeeps DEF Applies
<1>4. ASSUME Measures PROVE SetupInv'
  BY <1>4, ProbeKeeps, ProbesDoneKeeps, CleanupKeeps, ReportKeeps, ConfirmKeeps, RestoreKeeps
     DEF Measures
<1>5. ASSUME ApplicationFails \/ CommandFails \/ ProbeFails \/ Killed PROVE SetupInv'
  BY <1>5, ApplicationFailsKeeps, CommandFailsKeeps, ProbeFailsKeeps, KilledKeeps
<1>6. CASE UNCHANGED setupVars
  <2>1. toml' \in Profile \cup {None}
    BY <1>6 DEF setupVars, SetupInv, SetupTypeOK
  <2> QED
    BY <1>6, <2>1, CommandUntouched DEF setupVars
<1> QED
  BY <1>1, <1>2, <1>3, <1>4, <1>5, <1>6 DEF SetupNext

\* What the invariant says between two commands is what OrderUnlessHarmed asks for.
LEMMA SetupInvIsOrder == SetupInv => OrderUnlessHarmed
<1> SUFFICES ASSUME SetupInv, command = Idle PROVE OrderUnlessHarmed
  BY DEF OrderUnlessHarmed
<1> QED
  BY DEF SetupInv, AliasesInOrder, AliasesFollow, ConfigInOrder, ConfigFollows, ScratchInOrder,
         At, OrderUnlessHarmed

\* setup.py and ensure_setup: whatever commands ran, failed, were undone or killed, what they
\* are not known to have left in disorder is in order between two of them.
THEOREM SetupKeepsOrder == SetupSpec => []OrderUnlessHarmed
<1>1. SetupInv => OrderUnlessHarmed
  BY SetupInvIsOrder
<1> QED
  BY <1>1, SetupInvHoldsAtFirst, SetupStep, PTL DEF SetupSpec

-----------------------------------------------------------------------------
\* The installer and the setup command side by side: neither ever holds anything that its
\* variables do not provide for, and the promises of both hold.
THEOREM InstallationIsSafe ==
  InstallationSpec => [](InstallationTypeOK /\ OrderUnlessHarmed /\ CurrentIsWhole)
<1> DEFINE installationVars == <<setupVars, releaseVars, part>>
<1>1. InstallationInit => SetupInv /\ ReleasesInv
  BY SetupInvHoldsAtFirst, InitiallyWhole DEF InstallationInit
<1>2. SetupInv /\ ReleasesInv /\ [InstallationNext]_installationVars => (SetupInv /\ ReleasesInv)'
  <2>1. InstallationNext => [SetupNext]_setupVars /\ [ReleasesNext]_releaseVars
    BY DEF InstallationNext
  <2>2. UNCHANGED installationVars => [SetupNext]_setupVars /\ [ReleasesNext]_releaseVars
    OBVIOUS
  <2> QED
    BY <2>1, <2>2, SetupStep, ReleasesStep
<1>3. SetupInv /\ ReleasesInv => InstallationTypeOK /\ OrderUnlessHarmed /\ CurrentIsWhole
  BY SetupInvIsOrder, ReleasesInvIsWhole DEF SetupInv, ReleasesInv, InstallationTypeOK
<1> QED
  BY <1>1, <1>2, <1>3, PTL DEF InstallationSpec
=============================================================================
