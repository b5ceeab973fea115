----------------------------- MODULE Lifecycle -----------------------------
(***************************************************************************)
(* How launchers (start_codex.py) share, keep and end the router process:  *)
(* each may spawn a router, registers a lease and sends heartbeats; the    *)
(* router reaps leases, unloads the models and stops itself when the last  *)
(* launcher is gone (local_codex/app.py, runtime.py, monitor.py).          *)
(*                                                                         *)
(* A router process is named after the launcher that would spawn it.  The  *)
(* steps of a router are those of its event loop between awaits; launchers, *)
(* heartbeat threads and routers interleave freely.  The inference path is *)
(* the module Execution: here a request is only the fact that the lock or  *)
(* pending_requests may delay or refuse an unload.                         *)
(***************************************************************************)
EXTENDS LeaseRegistry, FiniteSets

CONSTANTS
  Kind,      \* Kind[l]: "codex" session, "doctor" or "selftest"
  Late,      \* a heartbeat is at most so many ticks old while its thread runs
  Faults,    \* what may go wrong: see LifecycleAssumption
  NoRouter   \* None

\* "http":    a request to the router times out or its answer is lost
\* "ollama":  Ollama fails or is slow
\* "suspend": the machine sleeps, the wall clock jumps
\* "decline": a preflight fails and the user does not go on
ASSUME LifecycleAssumption ==
  /\ Kind \in [Launcher -> {"codex", "doctor", "selftest"}]
  /\ Late \in 1..TTL
  /\ Faults \subseteq {"http", "ollama", "suspend", "decline"}
  /\ NoRouter \notin Launcher

VARIABLES
  pc,         \* pc[l]: where launcher l is in start_codex.main
  proxy,      \* proxy[l]: does l hold the handle of the router it spawned?
  home,       \* home[l]: the router that acknowledged the lease l believes in
  beating,    \* beating[l]: is the heartbeat thread of l running?
  process,    \* process[p]: the router process spawned by launcher p
  registry,   \* registry[p]: its LeaseRegistry
  looked,     \* looked[p]: its monitor loop saw an idle registry and awaits Ollama
  task,       \* task[p]: its shutdown_if_idle task
  requested   \* requested[p]: its _shutdown_requested

launcherVars == <<pc, proxy, home, beating>>
routerVars   == <<process, registry, looked, task, requested>>
vars == <<launcherVars, routerVars>>

TypeOK ==
  /\ pc \in [Launcher -> {"new", "polling", "registering", "preflight", "running",
                          "leaving", "abandoning", "watching", "terminating", "reaping",
                          "done", "gone"}]
  /\ proxy \in [Launcher -> BOOLEAN]
  /\ home \in [Launcher -> Launcher \cup {NoRouter}]
  /\ beating \in [Launcher -> BOOLEAN]
  /\ process \in [Launcher -> {"none", "starting", "doomed", "serving", "exiting",
                               "held", "draining", "dead"}]
  /\ registry \in [Launcher -> Registries]
  /\ looked \in [Launcher -> BOOLEAN]
  /\ task \in [Launcher -> {"none", "sleeping", "queued", "unloading", "cancelled"}]
  /\ requested \in [Launcher -> BOOLEAN]

Init ==
  /\ pc = [l \in Launcher |-> "new"]
  /\ proxy = [l \in Launcher |-> FALSE]
  /\ home = [l \in Launcher |-> NoRouter]
  /\ beating = [l \in Launcher |-> FALSE]
  /\ process = [p \in Launcher |-> "none"]
  /\ registry = [p \in Launcher |-> NewRegistry]
  /\ looked = [p \in Launcher |-> FALSE]
  /\ task = [p \in Launcher |-> "none"]
  /\ requested = [p \in Launcher |-> FALSE]

May(fault) == fault \in Faults

\* The routers that answer on port 18081: also after SIGTERM, until uvicorn's
\* loop notices it.
Answering == {p \in Launcher : process[p] \in {"serving", "exiting"}}
\* /health says "ok" only if Ollama answers in time.
Healthy == Answering # {}
Unhealthy == Answering = {} \/ May("http") \/ May("ollama")

GoTo(l, at) == pc' = [pc EXCEPT ![l] = at]
StopBeating(l) == beating' = [beating EXCEPT ![l] = FALSE]

-----------------------------------------------------------------------------
(* start_router.                                                           *)

FindsRouter(l) ==
  /\ pc[l] = "new" /\ Healthy
  /\ GoTo(l, "registering")
  /\ UNCHANGED <<proxy, home, beating, routerVars>>

SpawnsRouter(l) ==
  /\ pc[l] = "new" /\ Unhealthy
  /\ process' = [process EXCEPT ![l] = "starting"]
  /\ GoTo(l, "polling")
  /\ UNCHANGED <<proxy, home, beating, registry, looked, task, requested>>

\* Some router is ready, not necessarily the one that was spawned.
RouterReady(l) ==
  /\ pc[l] = "polling" /\ process[l] # "dead" /\ Healthy
  /\ proxy' = [proxy EXCEPT ![l] = TRUE]
  /\ GoTo(l, "registering")
  /\ UNCHANGED <<home, beating, routerVars>>

\* RuntimeError: a session goes on to register, doctor and self-test do not.
AfterStartError(l) == GoTo(l, IF Kind[l] = "codex" THEN "registering" ELSE "preflight")

RouterEnded(l) ==
  /\ pc[l] = "polling" /\ process[l] = "dead"
  /\ AfterStartError(l)
  /\ UNCHANGED <<proxy, home, beating, routerVars>>

\* SIGTERM: before uvicorn serves it takes effect once the startup is over.
Terminated(p) ==
  [process EXCEPT ![p] = IF @ = "starting" THEN "doomed"
                         ELSE IF @ = "serving" THEN "exiting" ELSE @]

RouterTooSlow(l) ==
  /\ pc[l] = "polling" /\ process[l] # "dead" /\ May("ollama")
  /\ process' = Terminated(l)
  /\ AfterStartError(l)
  /\ UNCHANGED <<proxy, home, beating, registry, looked, task, requested>>

-----------------------------------------------------------------------------
(* The lease endpoints of the router p and their callers.                  *)

\* shutdown_task.cancel(), effective when the task runs next.
CancelTask(p) ==
  task' = [task EXCEPT ![p] = IF @ = "none" THEN "none" ELSE "cancelled"]

RegisterAt(l, p) ==
  /\ registry' = [registry EXCEPT ![p] = Reaped(Registered(@, l))]
  /\ requested' = [requested EXCEPT ![p] = FALSE]
  /\ CancelTask(p)

Registers(l) ==
  /\ pc[l] = "registering"
  /\ GoTo(l, "preflight")
  /\ \E p \in Answering :
       /\ RegisterAt(l, p)
       /\ \/ /\ home' = [home EXCEPT ![l] = p]
             /\ beating' = [beating EXCEPT ![l] = Kind[l] # "doctor"]
          \/ May("http") /\ UNCHANGED <<home, beating>>   \* the answer is lost
  /\ UNCHANGED <<proxy, process, looked>>

RegistersNowhere(l) ==
  /\ pc[l] = "registering" /\ (Answering = {} \/ May("http"))
  /\ GoTo(l, "preflight")
  /\ UNCHANGED <<proxy, home, beating, routerVars>>

\* One PUT of the heartbeat thread; any failure ends the thread for good.
Beats(l) ==
  /\ beating[l]
  /\ \E p \in Answering :
       /\ registry' = [registry EXCEPT ![p] = Reaped(Beaten(@, l))]
       /\ IF l \in registry[p].holders THEN UNCHANGED beating ELSE StopBeating(l)
  /\ UNCHANGED <<pc, proxy, home, process, looked, task, requested>>

BeatFails(l) ==
  /\ beating[l] /\ (Answering = {} \/ May("http"))
  /\ StopBeating(l)
  /\ UNCHANGED <<pc, proxy, home, routerVars>>

\* The last release starts shutdown_if_idle unless one is under way.
ReleaseAt(l, p) ==
  LET left == Reaped(Released(registry[p], l))
  IN  /\ registry' = [registry EXCEPT ![p] = left]
      /\ task' = [task EXCEPT ![p] =
                    IF left.holders = {} /\ @ = "none" THEN "sleeping" ELSE @]

\* What a launcher does with the router it spawned once its lease is gone.
AfterRelease(l) ==
  LET next == IF ~proxy[l] THEN "done"
              ELSE IF Kind[l] = "selftest" THEN "watching"
              ELSE IF pc[l] = "abandoning" \/ home[l] = NoRouter THEN "terminating"
              ELSE "done"
  IN  GoTo(l, next) /\ proxy' = [proxy EXCEPT ![l] = @ /\ next # "done"]

Releases(l) ==
  /\ pc[l] \in {"leaving", "abandoning"} /\ home[l] # NoRouter
  /\ AfterRelease(l)
  /\ home' = [home EXCEPT ![l] = NoRouter]
  /\ \/ \E p \in Answering : ReleaseAt(l, p)
     \/ (Answering = {} \/ May("http")) /\ UNCHANGED <<registry, task>>
  /\ UNCHANGED <<beating, process, looked, requested>>

HasNothingToRelease(l) ==
  /\ pc[l] \in {"leaving", "abandoning"} /\ home[l] = NoRouter
  /\ AfterRelease(l)
  /\ UNCHANGED <<home, beating, routerVars>>

-----------------------------------------------------------------------------
(* The rest of main, local_doctor and local_self_test.                     *)

\* The checks pass, or the user goes on all the same; a failed one ends it.
Preflight(l) ==
  /\ pc[l] = "preflight"
  /\ \/ Kind[l] # "doctor" /\ GoTo(l, "running") /\ UNCHANGED beating
     \/ Kind[l] = "doctor" /\ GoTo(l, "abandoning") /\ UNCHANGED beating
     \/ May("decline") /\ GoTo(l, "abandoning") /\ StopBeating(l)
  /\ UNCHANGED <<proxy, home, routerVars>>

SessionEnds(l) ==
  /\ pc[l] = "running"
  /\ GoTo(l, "leaving")
  /\ StopBeating(l)
  /\ UNCHANGED <<proxy, home, routerVars>>

\* The self-test waits 35 s for the router to disappear.
Watches(l) ==
  /\ pc[l] = "watching"
  /\ \/ Unhealthy /\ GoTo(l, "done") /\ proxy' = [proxy EXCEPT ![l] = FALSE]
     \/ Healthy /\ GoTo(l, "terminating") /\ UNCHANGED proxy
  /\ UNCHANGED <<home, beating, routerVars>>

Terminates(l) ==
  /\ pc[l] = "terminating"
  /\ process' = Terminated(l)
  /\ GoTo(l, "reaping")
  /\ UNCHANGED <<proxy, home, beating, registry, looked, task, requested>>

\* A router process is gone, and what it kept in memory.
Gone(p) ==
  /\ process' = [process EXCEPT ![p] = "dead"]
  /\ registry' = [registry EXCEPT ![p] = NewRegistry]
  /\ looked' = [looked EXCEPT ![p] = FALSE]
  /\ task' = [task EXCEPT ![p] = "none"]
  /\ requested' = [requested EXCEPT ![p] = FALSE]

\* proxy.wait returned, or its timeout (5 or 10 s) passed: proxy.kill.
Reaps(l) ==
  /\ pc[l] = "reaping"
  /\ GoTo(l, "done")
  /\ proxy' = [proxy EXCEPT ![l] = FALSE]
  /\ IF process[l] = "dead" THEN UNCHANGED routerVars ELSE Gone(l)
  /\ UNCHANGED <<home, beating>>

\* The terminal is closed or the launcher is killed: nothing is cleaned up, and
\* what it kept in memory is gone.
Crashes(l) ==
  /\ pc[l] \notin {"new", "done", "gone"}
  /\ GoTo(l, "gone")
  /\ StopBeating(l)
  /\ proxy' = [proxy EXCEPT ![l] = FALSE]
  /\ home' = [home EXCEPT ![l] = NoRouter]
  /\ UNCHANGED routerVars

-----------------------------------------------------------------------------
(* The router process.                                                     *)

\* uvicorn runs the lifespan startup first and then binds the port; the
\* process ends if the port is taken.
StartsUp(p) ==
  /\ process[p] \in {"starting", "doomed"}
  /\ IF Answering = {}
     THEN /\ process' = [process EXCEPT ![p] = IF @ = "doomed" THEN "exiting" ELSE "serving"]
          /\ UNCHANGED <<registry, looked, task, requested>>
     ELSE Gone(p)
  /\ UNCHANGED launcherVars

Loops(p) == process[p] \in {"serving", "exiting", "held", "draining"}

\* One turn of _monitor_runtime: the snapshot, then Ollama's answer; only an
\* idle registry matters after it.
MonitorLooks(p) ==
  /\ Loops(p) /\ ~looked[p]
  /\ registry' = [registry EXCEPT ![p] = Reaped(@)]
  /\ looked' = [looked EXCEPT ![p] = LET seen == registry'[p]
                                     IN seen.holders = {} /\ seen.empty >= Grace]
  /\ UNCHANGED <<launcherVars, process, task, requested>>

MonitorDecides(p) ==
  /\ Loops(p) /\ looked[p]
  /\ looked' = [looked EXCEPT ![p] = FALSE]
  /\ \/ task' = [task EXCEPT ![p] = IF ~requested[p] /\ @ = "none" THEN "sleeping" ELSE @]
     \/ May("ollama") /\ UNCHANGED task
  /\ UNCHANGED <<launcherVars, process, registry, requested>>

SetTask(p, at) == task' = [task EXCEPT ![p] = at]

\* After 0.2 s.
TaskWakes(p) ==
  /\ Loops(p) /\ task[p] = "sleeping"
  /\ registry' = [registry EXCEPT ![p] = Reaped(@)]
  /\ SetTask(p, IF registry'[p].holders = {} THEN "queued" ELSE "none")
  /\ UNCHANGED <<launcherVars, process, looked, requested>>

\* The inference lock is taken; a lease or a pending request ends the task.
TaskLocks(p) ==
  /\ Loops(p) /\ task[p] = "queued"
  /\ registry' = [registry EXCEPT ![p] = Reaped(@)]
  /\ \/ registry'[p].holders = {} /\ SetTask(p, "unloading")
     \/ /\ registry'[p].holders # {} \/ \E l \in Launcher : pc[l] = "running"
        /\ SetTask(p, "none")
  /\ UNCHANGED <<launcherVars, process, looked, requested>>

\* unload_local_models returned; the router signals itself.
StopsItself(p) ==
  /\ process' = [process EXCEPT ![p] = IF @ = "serving" THEN "exiting" ELSE @]
  /\ requested' = [requested EXCEPT ![p] = TRUE]

\* Mutant: the router signals itself in a finally clause, also when the task was
\* cancelled, and without a look at the leases.
TaskUnloadedBlindly(p) ==
  /\ Loops(p) /\ task[p] \in {"unloading", "cancelled"}
  /\ SetTask(p, "none")
  /\ IF ~requested[p] THEN StopsItself(p) ELSE UNCHANGED <<process, requested>>
  /\ UNCHANGED <<launcherVars, registry, looked>>
TaskUnloaded(p) ==
  /\ Loops(p) /\ task[p] = "unloading"
  /\ SetTask(p, "none")
  /\ \/ /\ registry' = [registry EXCEPT ![p] = Reaped(@)]
        /\ IF registry'[p].holders = {} /\ ~requested[p]
           THEN StopsItself(p) ELSE UNCHANGED <<process, requested>>
     \/ May("ollama") /\ UNCHANGED <<registry, process, requested>>
  /\ UNCHANGED <<launcherVars, looked>>

TaskCancelled(p) ==
  /\ Loops(p) /\ task[p] = "cancelled"
  /\ SetTask(p, "none")
  /\ UNCHANGED <<launcherVars, process, registry, looked, requested>>

\* uvicorn notices the signal and closes the port; requests in flight finish by
\* their deadline, but an open stream of /monitor/events runs on ("held"): there
\* is no limit to the graceful shutdown.
ClosesPort(p) ==
  /\ process[p] = "exiting"
  /\ \E next \in {"held", "draining"} : process' = [process EXCEPT ![p] = next]
  /\ UNCHANGED <<launcherVars, registry, looked, task, requested>>

\* The tray program hangs up.  It need not: the number of launchers, on which it
\* quits, reaches it only with a snapshot, and a lease that goes sends none.
StreamCloses(p) ==
  /\ process[p] = "held"
  /\ process' = [process EXCEPT ![p] = "draining"]
  /\ UNCHANGED <<launcherVars, registry, looked, task, requested>>

\* Runtime.stop ran and the process ended.
Ends(p) ==
  /\ process[p] = "draining"
  /\ Gone(p)
  /\ UNCHANGED launcherVars

-----------------------------------------------------------------------------
(* Time.  A heartbeat thread that runs is never more than Late ticks behind. *)

Tick ==
  /\ \A l \in Launcher, p \in Answering :
       beating[l] /\ l \in registry[p].holders => registry[p].age[l] < Late
  /\ registry' = [p \in Launcher |-> Aged(registry[p], 1)]
  /\ UNCHANGED <<launcherVars, process, looked, task, requested>>

\* The machine slept for longer than every limit.
Suspend ==
  /\ May("suspend")
  /\ registry' = [p \in Launcher |-> Aged(registry[p], TTL + Grace)]
  /\ UNCHANGED <<launcherVars, process, looked, task, requested>>

-----------------------------------------------------------------------------
LauncherStep(l) ==
  \/ FindsRouter(l) \/ SpawnsRouter(l) \/ RouterReady(l) \/ RouterEnded(l)
  \/ RouterTooSlow(l) \/ Registers(l) \/ RegistersNowhere(l) \/ Preflight(l)
  \/ SessionEnds(l) \/ Releases(l) \/ HasNothingToRelease(l) \/ Watches(l)
  \/ Terminates(l) \/ Reaps(l)

ProcessStep(p) == StartsUp(p) \/ ClosesPort(p) \/ Ends(p)
MonitorStep(p) == MonitorLooks(p) \/ MonitorDecides(p)
TaskStep(p)    == TaskWakes(p) \/ TaskLocks(p) \/ TaskUnloaded(p) \/ TaskCancelled(p)
RouterStep(p)  == ProcessStep(p) \/ MonitorStep(p) \/ TaskStep(p)

Next ==
  \/ \E l \in Launcher : LauncherStep(l) \/ Beats(l) \/ BeatFails(l) \/ Crashes(l)
  \/ \E p \in Launcher : RouterStep(p) \/ StreamCloses(p)
  \/ Tick
  \/ Suspend

Spec == Init /\ [][Next]_vars

(* The event loop of a router runs every task that can go on, uvicorn goes *)
(* on with what SIGTERM began when no stream holds it, and time passes.    *)
(* Launchers and the tray program promise nothing.                         *)
FairSpec ==
  /\ Spec
  /\ \A p \in Launcher :
       WF_vars(ProcessStep(p)) /\ WF_vars(MonitorStep(p)) /\ WF_vars(TaskStep(p))
  /\ WF_vars(Tick)

-----------------------------------------------------------------------------
(* Properties.                                                             *)

\* The router p, which nobody has signalled yet, signals itself.
SelfStop(p) == process[p] = "serving" /\ ~requested[p] /\ requested'[p]
\* The launcher l runs, sends heartbeats and was told that p holds its lease.
Attached(l, p) == beating[l] /\ home[l] = p

\* empty_since is set exactly while a registry that has seen a lease is empty:
\* the grace period is never counted with a lease alive, nor forgotten when
\* the last lease leaves by release or by age.
GraceRunsWhileEmpty ==
  \A p \in Launcher :
    registry[p].empty # NotEmpty <=> registry[p].holders = {} /\ registry[p].everHad

\* A launcher that keeps sending heartbeats keeps its lease, in any order of
\* heartbeats, snapshots and other launchers' releases.
HeartbeatKeepsLease ==
  \A l \in Launcher, p \in Answering : Attached(l, p) => l \in registry[p].holders

\* A router never stops itself while a launcher that sends heartbeats holds a
\* lease on it: neither after a snapshot that was idle before Ollama answered,
\* nor after an unload during which the launcher registered.
IdleStopSparesSessions ==
  [][\A p \in Launcher : SelfStop(p) => \A l \in Launcher : ~Attached(l, p)]_vars

\* With every launcher gone, cleanly or by a crash, a router that has had a
\* lease ends, unless a new launcher comes or a client keeps its monitor stream
\* open for ever after it has given up the port.
Quiet == \A l \in Launcher : pc[l] \in {"new", "done", "gone"}
Abandoned(p) == process[p] = "serving" /\ registry[p].everHad /\ Quiet
AbandonedRouterEnds ==
  \A p \in Launcher :
    []<>(process[p] # "held") => (Abandoned(p) ~> process[p] = "dead" \/ ~Quiet)

=============================================================================
