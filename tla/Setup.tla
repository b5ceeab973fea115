-------------------------------- MODULE Setup --------------------------------
(***************************************************************************)
(* The setup of LocalCodex (local_codex/setup.py): install, refresh_config  *)
(* and run_benchmark_command, and ensure_setup (start_codex.py), by which a *)
(* launcher decides which of them to run before it starts Codex.            *)
(*                                                                         *)
(* A command changes things that have no common transaction: the aliases in *)
(* Ollama one by one, the model catalog, config.toml and runtime.json.  One *)
(* action is one of these steps; each may fail, and the process may be      *)
(* killed at any of them, in the middle of a write too.  Nothing but the    *)
(* user keeps two commands from running at once; one at a time is what is   *)
(* modelled.                                                                *)
(***************************************************************************)
EXTENDS Integers, FiniteSets, FiniteSetsExt

CONSTANTS
  Role,       \* plan, build and vision, numbered in the order of profiles()
  Window,     \* context sizes in tokens
  Default,    \* 8192
  Candidates, \* what --contexts names
  Profile,    \* what users write into localcodex.toml: a context for each role
  Monitor,    \* can the monitor program be installed?
  Wsl,        \* is it a Windows program?
  Faults,     \* may programs and writes fail, and the process be killed?
  None,
  Half        \* of a file that was cut off in the middle

ASSUME SetupAssumption ==
  /\ Role \subseteq Nat /\ Role # {} /\ IsFiniteSet(Role)
  /\ Window \subseteq Nat /\ IsFiniteSet(Window) /\ Default \in Window
  /\ Candidates \subseteq Window /\ Candidates # {}
  /\ Profile \subseteq [Role -> Window]
  /\ Monitor \in BOOLEAN /\ Wsl \in BOOLEAN /\ Faults \in BOOLEAN
  /\ None \notin Window /\ None \notin [Role -> Window]
  /\ Half \notin Window \cup {None}

VARIABLES
  toml,     \* localcodex.toml
  alias,    \* alias[r]: num_ctx of the managed alias of role r in Ollama
  scratch,  \* aliases the benchmark created: role and context
  catalog,  \* the context in model_catalog.json
  codex,    \* the context in config.toml
  runtime,  \* runtime.json; None too when it is half written, for it is read as if missing
  command,  \* the command in progress
  harm      \* history: what failed or killed commands may have left in disorder

setupVars == <<toml, alias, scratch, catalog, codex, runtime, command, harm>>

Windows == [Role -> Window]

\* config_version is current, model_profiles, context_windows, monitor.
Runtime ==
  [current: BOOLEAN, profile: Windows \cup {None}, windows: Windows \cup {None},
   monitor: {"absent", "missing", "installed"}]
Unset == [current |-> FALSE, profile |-> None, windows |-> None, monitor |-> "absent"]

ASSUME NoneAssumption == None \notin Runtime

\* known: runtime.json as read at the start; profile: MODEL_CONFIG; selected: the contexts
\* to apply; todo: the roles still to be measured, or whose alias is still to be created;
\* stable: the contexts found stable so far.
Command ==
  [kind: {"install", "refresh", "benchmark"},
   step: {"probe", "cleanup", "report", "confirm", "aliases", "catalog", "config",
          "restore", "monitor", "runtime", "validate"},
   known: Runtime, profile: Windows, selected: Windows, todo: SUBSET Role,
   roles: SUBSET Role, stable: [Role -> SUBSET Candidates],
   created: SUBSET (Role \X Candidates)]
Idle == [kind |-> "none"]

SetupTypeOK ==
  /\ toml \in Profile \cup {None}
  /\ alias \in [Role -> Window \cup {None}]
  /\ scratch \subseteq Role \X Candidates
  /\ catalog \in Window \cup {None, Half} /\ codex \in Window \cup {None, Half}
  /\ runtime \in Runtime \cup {None}
  /\ command = Idle \/ command \in Command
  /\ harm \subseteq {"aliases", "config", "scratch"}

SetupInit ==
  /\ toml = None
  /\ alias = [r \in Role |-> None] /\ scratch = {}
  /\ catalog = None /\ codex = None /\ runtime = None
  /\ command = Idle /\ harm = {}

-----------------------------------------------------------------------------
DefaultWindows       == [r \in Role |-> Default]
Least(windows)       == Min({windows[r] : r \in Role})
Configured           == IF toml = None THEN DefaultWindows ELSE toml
Read                 == IF runtime = None THEN Unset ELSE runtime
\* context_windows, else context_window or 8192 for each role.
Remembered(contents) == IF contents.windows = None THEN DefaultWindows ELSE contents.windows

At(steps)  == command # Idle /\ command.step \in steps
Goto(step) == command' = [command EXCEPT !.step = step]

Start(kind, step, selected, roles) ==
  /\ command = Idle
  /\ command' = [kind |-> kind, step |-> step, known |-> Read, profile |-> Configured,
                 selected |-> selected, todo |-> IF kind = "benchmark" THEN roles ELSE Role,
                 roles |-> roles, stable |-> [r \in Role |-> {}], created |-> {}]
  /\ UNCHANGED <<toml, alias, scratch, catalog, codex, runtime, harm>>

\* --context, then localcodex.toml, then the contexts of the last time, then the default.
Selected(context) ==
  IF context # None THEN [r \in Role |-> context]
  ELSE IF toml # None THEN toml ELSE Remembered(Read)

\* setup, with or without --context: verify_prerequisites found codex and the models.
Install == \E context \in Window \cup {None} : Start("install", "aliases", Selected(context), {})
\* setup --refresh-config
Refresh == Start("refresh", "catalog", Remembered(Read), {})
\* benchmark --models: no session is served (verify_benchmark_idle).
Benchmark ==
  \E roles \in (SUBSET Role) \ {{}} : Start("benchmark", "probe", Remembered(Read), roles)

\* ensure_setup: what it reads counts only if there is a config_version.
Launched       == IF Read.current THEN Read ELSE Unset
MonitorMissing == ~(Wsl /\ Launched.monitor = "installed")
ProfilesChanged ==
  /\ toml # None \/ Launched.profile # None
  /\ Launched.profile # Configured
\* A launcher without arguments starts.
LaunchInstalls ==
  /\ ProfilesChanged \/ codex = None
  /\ Start("install", "aliases", Selected(None), {})
LaunchRefreshes ==
  /\ ~ProfilesChanged /\ codex # None
  /\ ~Launched.current \/ MonitorMissing
  /\ Start("refresh", "catalog", Remembered(Read), {})

\* The user edits or removes localcodex.toml at any time; a command has read it by then.
EditProfile ==
  /\ toml' \in (Profile \cup {None}) \ {toml}
  /\ UNCHANGED <<alias, scratch, catalog, codex, runtime, command, harm>>

-----------------------------------------------------------------------------
\* create_alias for the next role.
CreateAlias ==
  /\ At({"aliases"})
  /\ LET r == Min(command.todo)
     IN  /\ alias' = [alias EXCEPT ![r] = command.selected[r]]
         /\ command' = [command EXCEPT !.todo = @ \ {r},
                                       !.step = IF command.todo = {r} THEN "catalog" ELSE @]
  /\ UNCHANGED <<toml, scratch, catalog, codex, runtime, harm>>

\* generate_model_catalog
GenerateCatalog ==
  /\ At({"catalog"})
  /\ catalog' = Least(command.selected)
  /\ Goto("config")
  /\ UNCHANGED <<toml, alias, scratch, codex, runtime, harm>>

\* write_codex_config
WriteConfig ==
  /\ At({"config"})
  /\ codex' = Least(command.selected)
  /\ Goto(IF command.kind = "benchmark" THEN "runtime" ELSE "monitor")
  /\ UNCHANGED <<toml, alias, scratch, catalog, runtime, harm>>

\* _existing_monitor raises AttributeError for a runtime.json without "monitor".
MonitorBreaks == runtime # None /\ runtime.monitor = "absent"
\* install_native_monitor keeps what is installed, installs it, or notes why it could not.
InstallMonitor ==
  /\ At({"monitor"}) /\ ~MonitorBreaks
  /\ command' = [command EXCEPT
       !.step = "runtime",
       !.known.monitor = IF Read.monitor = "installed" \/ Monitor THEN "installed" ELSE "missing"]
  /\ UNCHANGED <<toml, alias, scratch, catalog, codex, runtime, harm>>

\* Mutant: the contexts are the ones that were read.
WrittenAsRead ==
  [current |-> TRUE,
   profile |-> IF command.kind = "install" THEN command.profile ELSE command.known.profile,
   windows |-> Remembered(command.known),
   monitor |-> command.known.monitor]
\* install writes a new file; the others add to what they read, which keeps the profile.
Written ==
  [current |-> TRUE,
   profile |-> IF command.kind = "install" THEN command.profile ELSE command.known.profile,
   windows |-> command.selected,
   monitor |-> command.known.monitor]
WriteRuntime ==
  /\ At({"runtime"})
  /\ runtime' = Written
  /\ harm' = harm \ (IF command.kind = "refresh" THEN {"config"} ELSE {"aliases", "config"})
  /\ Goto("validate")
  /\ UNCHANGED <<toml, alias, scratch, catalog, codex>>

\* validate_config: nothing is undone when it refuses.
Validate ==
  /\ At({"validate"})
  /\ command' = Idle
  /\ UNCHANGED <<toml, alias, scratch, catalog, codex, runtime, harm>>

-----------------------------------------------------------------------------
\* benchmark_contexts: an alias for the next larger context, measured by benchmark_model.
Probed ==
  LET r == Min(command.todo) IN <<r, Min(Candidates \ command.stable[r])>>
Stable(r, c) ==
  command' = [command EXCEPT
    !.created = @ \cup {<<r, c>>},
    !.stable[r] = @ \cup {c},
    !.todo = IF Candidates = command.stable[r] \cup {c} THEN @ \ {r} ELSE @]
\* The role is done, or, without any stable context, the whole benchmark.
Unstable(r, c) ==
  command' = [command EXCEPT
    !.created = @ \cup {<<r, c>>},
    !.todo = IF command.stable[r] # {} THEN @ \ {r} ELSE @,
    !.step = IF command.stable[r] # {} THEN @ ELSE "cleanup"]
Probe ==
  /\ At({"probe"}) /\ command.todo # {}
  /\ scratch' = scratch \cup {Probed}
  /\ Stable(Probed[1], Probed[2]) \/ Unstable(Probed[1], Probed[2])
  /\ UNCHANGED <<toml, alias, catalog, codex, runtime, harm>>

ProbesDone ==
  /\ At({"probe"}) /\ command.todo = {}
  /\ Goto("cleanup")
  /\ UNCHANGED <<toml, alias, scratch, catalog, codex, runtime, harm>>

\* The finally clause; a benchmark that was broken off ends here.  When "ollama rm" fails,
\* nobody is told, and the alias stays until a later benchmark has removed it.
Cleanup ==
  /\ At({"cleanup"})
  /\ \E left \in SUBSET (scratch \cap command.created) :
       /\ left # {} => Faults
       /\ scratch' = (scratch \ command.created) \cup left
       /\ harm' = IF left # {} THEN harm \cup {"scratch"}
                  ELSE IF scratch' = {} THEN harm \ {"scratch"} ELSE harm
  /\ IF command.todo = {} THEN Goto("report") ELSE command' = Idle
  /\ UNCHANGED <<toml, alias, catalog, codex, runtime>>

\* hardware_benchmark is added to what was read before the benchmark.
Report ==
  /\ At({"report"})
  /\ runtime' = command.known
  /\ Goto("confirm")
  /\ UNCHANGED <<toml, alias, scratch, catalog, codex, harm>>

\* Mutant: the recommendations take the place of the other roles' contexts.
RecommendedOnly == [r \in command.roles |-> Max(command.stable[r])]
\* selected.update(recommendations)
Recommended ==
  [r \in Role |-> IF r \in command.roles THEN Max(command.stable[r])
                  ELSE Remembered(command.known)[r]]
Confirm ==
  /\ At({"confirm"})
  /\ \/ command' = Idle
     \/ command' = [command EXCEPT !.step = "aliases", !.todo = Role,
                                   !.selected = Recommended]
  /\ UNCHANGED <<toml, alias, scratch, catalog, codex, runtime, harm>>

\* The application failed: each alias is created again as it was, if that succeeds.
Restore ==
  /\ At({"restore"})
  /\ LET r == Min(command.todo)
     IN  /\ \/ /\ alias' = [alias EXCEPT ![r] = Remembered(command.known)[r]]
               /\ UNCHANGED harm
            \/ /\ Faults
               /\ harm' = harm \cup {"aliases"}
               /\ UNCHANGED alias
         /\ command' = IF command.todo = {r} THEN Idle
                       ELSE [command EXCEPT !.todo = @ \ {r}]
  /\ UNCHANGED <<toml, scratch, catalog, codex, runtime>>

-----------------------------------------------------------------------------
\* What the command has changed and not yet recorded in runtime.json.
Touched ==
  IF At({"aliases", "restore", "catalog"}) /\ command.kind # "refresh" THEN {"aliases"}
  ELSE IF At({"config", "monitor", "runtime"})
       THEN IF command.kind = "refresh" THEN {"config"} ELSE {"aliases", "config"}
       ELSE {}

\* A write that is broken off leaves half of its file: of model_catalog.json or config.toml
\* (or this one whole, and not instructions.md), or of runtime.json, with which everything
\* is forgotten.
FilesSurvive(touched) ==
  \/ /\ UNCHANGED <<catalog, codex, runtime>>
     /\ harm' = harm \cup touched
  \/ /\ At({"catalog"})
     /\ catalog' = Half
     /\ harm' = harm \cup touched \cup {"config"}
     /\ UNCHANGED <<codex, runtime>>
  \/ /\ At({"config"})
     /\ codex' \in {Half, Least(command.selected)}
     /\ harm' = harm \cup touched
     /\ UNCHANGED <<catalog, runtime>>
  \/ /\ At({"report", "runtime"})
     /\ runtime' = None
     /\ harm' = harm \cup {"aliases", "config"}
     /\ UNCHANGED <<catalog, codex>>

\* The application of a benchmark fails: the aliases are to be created as they were.
ApplicationFails ==
  /\ Faults /\ command.kind = "benchmark" /\ At({"aliases", "catalog", "config"})
  /\ command' = [command EXCEPT !.step = "restore", !.todo = Role]
  /\ FilesSurvive(Touched \ {"aliases"})
  /\ UNCHANGED <<toml, alias, scratch>>

\* A program or a write raises, and the command ends where it is.
CommandFails ==
  /\ \/ Faults /\ At({"aliases", "catalog", "config"}) /\ command.kind # "benchmark"
     \/ Faults /\ At({"report", "runtime", "validate"})
     \/ At({"monitor"}) /\ MonitorBreaks
  /\ command' = Idle
  /\ FilesSurvive(Touched)
  /\ UNCHANGED <<toml, alias, scratch>>

\* ollama create fails for a benchmark alias, or the measurement of it.
ProbeFails ==
  /\ Faults /\ At({"probe"}) /\ command.todo # {}
  /\ scratch' \in {scratch, scratch \cup {Probed}}
  /\ command' = [command EXCEPT !.step = "cleanup", !.created = @ \cup {Probed}]
  /\ UNCHANGED <<toml, alias, catalog, codex, runtime, harm>>

\* The process is killed: no except or finally clause runs.  That the kill may come when an
\* alias is created, or some of the removals are done, is that it comes after that step.
Killed ==
  /\ Faults /\ command # Idle
  /\ command' = Idle
  /\ FilesSurvive(IF At({"probe", "cleanup"}) THEN {"scratch"} ELSE Touched)
  /\ UNCHANGED <<toml, alias, scratch>>

Commands == Install \/ Refresh \/ Benchmark \/ LaunchInstalls \/ LaunchRefreshes
Applies  == CreateAlias \/ GenerateCatalog \/ WriteConfig \/ InstallMonitor \/ WriteRuntime
              \/ Validate
Measures == Probe \/ ProbesDone \/ Cleanup \/ Report \/ Confirm \/ Restore

SetupNext == EditProfile \/ Commands \/ Applies \/ Measures
               \/ ApplicationFails \/ CommandFails \/ ProbeFails \/ Killed

SetupSpec == SetupInit /\ [][SetupNext]_setupVars

-----------------------------------------------------------------------------
\* Between two commands, the aliases in Ollama have the contexts that runtime.json
\* remembers, Codex is told of the smallest of them, and no alias of a benchmark is left:
\* whatever commands ran, were declined, failed and were rolled back, and however the user
\* edited the profiles.  Excepted is the disorder of a command that failed or was killed
\* between its first change (half a catalog is one) and runtime.json, until the next that
\* succeeds; and the benchmark aliases that "ollama rm" did not remove or that a killed
\* benchmark left, until a benchmark has removed the last of them.
OrderUnlessHarmed ==
  command = Idle =>
    /\ "aliases" \notin harm => \A r \in Role : alias[r] \in {None, Remembered(Read)[r]}
    /\ "config" \notin harm /\ codex # None
         => codex = catalog /\ codex = Least(Remembered(Read))
    /\ "scratch" \notin harm => scratch = {}

\* A setup whose programs and writes all succeed gets through: README.local-codex.md:129
\* gives "start_codex.py --setup --benchmark" as the first step after a new installation.
SetupGetsThrough == At({"monitor"}) => ~MonitorBreaks
=============================================================================
