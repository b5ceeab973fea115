-------------------------- MODULE LifecycleProofs --------------------------
(***************************************************************************)
(* Proofs about Lifecycle for any number of launchers and any limits: type *)
(* correctness and the grace period always, and, while the machine does    *)
(* not sleep, that heartbeats keep a lease and spare the router.           *)
(***************************************************************************)
EXTENDS Lifecycle, TLAPS

-----------------------------------------------------------------------------
(* The registry as a value.                                                *)

\* What holds of every registry: its type, and when the grace period runs.
Sound(reg) ==
  /\ reg \in Registries
  /\ reg.empty # NotEmpty <=> reg.holders = {} /\ reg.everHad

\* The lease of l is there and not older than its heartbeat thread lets it be.
Fresh(reg, l) == l \in reg.holders /\ reg.age[l] <= Late

\* A new registry is sound.
LEMMA NewIsSound == Sound(NewRegistry)
  BY RegistryAssumption, SMT
  DEF Sound, NewRegistry, Registries, Registry, NotEmpty

\* Dropping leases keeps a registry sound.
LEMMA KeepingIsSound ==
  ASSUME NEW reg, Sound(reg), NEW kept \in SUBSET reg.holders
  PROVE  Sound(Keeping(reg, kept))
  BY RegistryAssumption, SMT
  DEF Sound, Keeping, Registries, Registry, NotEmpty

\* So does snapshot.
LEMMA ReapedIsSound ==
  ASSUME NEW reg, Sound(reg)
  PROVE  Sound(Reaped(reg))
<1>1. {l \in reg.holders : reg.age[l] <= TTL} \in SUBSET reg.holders
  OBVIOUS
<1> QED
  BY <1>1, KeepingIsSound DEF Reaped

\* So does release.
LEMMA ReleasedIsSound ==
  ASSUME NEW reg, Sound(reg), NEW l
  PROVE  Sound(Released(reg, l))
<1>1. reg.holders \ {l} \in SUBSET reg.holders
  OBVIOUS
<1> QED
  BY <1>1, KeepingIsSound DEF Released

\* So does register.
LEMMA RegisteredIsSound ==
  ASSUME NEW reg, Sound(reg), NEW l \in Launcher
  PROVE  Sound(Registered(reg, l))
  BY RegistryAssumption, SMT
  DEF Sound, Registered, Registries, Registry, NotEmpty

\* So does heartbeat.
LEMMA BeatenIsSound ==
  ASSUME NEW reg, Sound(reg), NEW l \in Launcher
  PROVE  Sound(Beaten(reg, l))
  BY RegistryAssumption, SMT
  DEF Sound, Beaten, Registries, Registry, NotEmpty

\* So does time.
LEMMA AgedIsSound ==
  ASSUME NEW reg, Sound(reg), NEW n \in Nat
  PROVE  Sound(Aged(reg, n))
  BY RegistryAssumption, SMT
  DEF Sound, Aged, Registries, Registry, NotEmpty

\* snapshot removes no fresh lease.
LEMMA ReapedKeepsFresh ==
  ASSUME NEW reg, Sound(reg), NEW l \in Launcher, Fresh(reg, l)
  PROVE  Fresh(Reaped(reg), l)
  BY RegistryAssumption, LifecycleAssumption, SMT
  DEF Sound, Fresh, Reaped, Keeping, Registries, Registry

\* Nor does the release of another lease.
LEMMA ReleasedKeepsFresh ==
  ASSUME NEW reg, Sound(reg), NEW l \in Launcher, NEW k \in Launcher \ {l}, Fresh(reg, l)
  PROVE  Fresh(Released(reg, k), l)
  BY RegistryAssumption, LifecycleAssumption, SMT
  DEF Sound, Fresh, Released, Keeping, Registries, Registry

\* Nor a registration; the lease registered is fresh.
LEMMA RegisteredKeepsFresh ==
  ASSUME NEW reg, Sound(reg), NEW l \in Launcher, NEW k \in Launcher,
         k = l \/ Fresh(reg, l)
  PROVE  Fresh(Registered(reg, k), l)
  BY RegistryAssumption, LifecycleAssumption, SMT
  DEF Sound, Fresh, Registered, Registries, Registry

\* Nor a heartbeat.
LEMMA BeatenKeepsFresh ==
  ASSUME NEW reg, Sound(reg), NEW l \in Launcher, NEW k \in Launcher, Fresh(reg, l)
  PROVE  Fresh(Beaten(reg, k), l)
  BY RegistryAssumption, LifecycleAssumption, SMT
  DEF Sound, Fresh, Beaten, Registries, Registry

\* Nor a tick, as long as the heartbeat is not overdue.
LEMMA AgedKeepsFresh ==
  ASSUME NEW reg, Sound(reg), NEW l \in Launcher, l \in reg.holders, reg.age[l] < Late
  PROVE  Fresh(Aged(reg, 1), l)
  BY RegistryAssumption, LifecycleAssumption, SMT
  DEF Sound, Fresh, Aged, Registries, Registry

-----------------------------------------------------------------------------
(* Launchers and router processes.                                         *)

\* The types of everything but the registries.
Control ==
  /\ pc \in [Launcher -> {"new", "polling", "registering", "preflight", "running",
                          "leaving", "abandoning", "watching", "terminating", "reaping",
                          "done", "gone"}]
  /\ proxy \in [Launcher -> BOOLEAN]
  /\ home \in [Launcher -> Launcher \cup {NoRouter}]
  /\ beating \in [Launcher -> BOOLEAN]
  /\ process \in [Launcher -> {"none", "starting", "doomed", "serving", "exiting",
                               "held", "draining", "dead"}]
  /\ looked \in [Launcher -> BOOLEAN]
  /\ task \in [Launcher -> {"none", "sleeping", "queued", "unloading", "cancelled"}]
  /\ requested \in [Launcher -> BOOLEAN]
\* Heartbeats come from a launcher that is up; a lease that is believed in was
\* acknowledged by a router that has served.
Phases ==
  /\ \A l \in Launcher : beating[l] => pc[l] \in {"preflight", "running"} /\ Kind[l] # "doctor"
  /\ \A l \in Launcher : pc[l] \in {"new", "polling", "registering"} => home[l] = NoRouter
  /\ \A l \in Launcher : pc[l] = "new" => process[l] = "none"
  /\ \A l \in Launcher :
       home[l] # NoRouter => process[home[l]] \in {"serving", "exiting", "held", "draining", "dead"}

\* Every step of a launcher keeps the control state.
LEMMA LauncherKeepsControl ==
  ASSUME Control, Phases, NEW l \in Launcher,
         LauncherStep(l) \/ Beats(l) \/ BeatFails(l) \/ Crashes(l)
  PROVE  Control' /\ Phases'
<1> USE LifecycleAssumption DEF Control, Phases, Answering, GoTo, StopBeating, SetTask,
     launcherVars, routerVars, Loops
<1>1. CASE FindsRouter(l)
  BY <1>1, SMT DEF FindsRouter
<1>2. CASE SpawnsRouter(l)
  BY <1>2, SMT DEF SpawnsRouter
<1>3. CASE RouterReady(l)
  BY <1>3, SMT DEF RouterReady
<1>4. CASE RouterEnded(l)
  BY <1>4, SMT DEF RouterEnded, AfterStartError
<1>5. CASE RouterTooSlow(l)
  BY <1>5, SMT DEF RouterTooSlow, AfterStartError, Terminated
<1>6. CASE Registers(l)
  <2>1. PICK p \in Answering :
          /\ RegisterAt(l, p)
          /\ \/ /\ home' = [home EXCEPT ![l] = p]
                /\ beating' = [beating EXCEPT ![l] = Kind[l] # "doctor"]
             \/ UNCHANGED <<home, beating>>
    BY <1>6 DEF Registers
  <2>2. /\ pc[l] = "registering" /\ pc' = [pc EXCEPT ![l] = "preflight"]
        /\ UNCHANGED <<proxy, process, looked>>
    BY <1>6 DEF Registers
  <2>3. CASE /\ home' = [home EXCEPT ![l] = p]
             /\ beating' = [beating EXCEPT ![l] = Kind[l] # "doctor"]
    BY <2>1, <2>2, <2>3, SMT DEF RegisterAt, CancelTask
  <2>4. CASE UNCHANGED <<home, beating>>
    BY <2>1, <2>2, <2>4, SMT DEF RegisterAt, CancelTask
  <2>5. QED  BY <2>1, <2>3, <2>4
<1>7. CASE RegistersNowhere(l)
  BY <1>7, SMT DEF RegistersNowhere
<1>8. CASE Preflight(l)
  <2>1. \/ UNCHANGED beating /\ Kind[l] # "doctor" /\ GoTo(l, "running")
        \/ UNCHANGED beating /\ Kind[l] = "doctor" /\ GoTo(l, "abandoning")
        \/ StopBeating(l) /\ GoTo(l, "abandoning")
    BY <1>8, Zenon DEF Preflight
  <2>2. pc[l] = "preflight" /\ UNCHANGED <<proxy, home, routerVars>>
    BY <1>8 DEF Preflight
  <2>3. CASE UNCHANGED beating /\ Kind[l] # "doctor" /\ GoTo(l, "running")
    BY <2>2, <2>3, SMT
  <2>4. CASE UNCHANGED beating /\ Kind[l] = "doctor" /\ GoTo(l, "abandoning")
    BY <2>2, <2>4, SMT
  <2>5. CASE StopBeating(l) /\ GoTo(l, "abandoning")
    BY <2>2, <2>5, SMT
  <2>6. QED  BY <2>1, <2>3, <2>4, <2>5
<1>9. CASE SessionEnds(l)
  BY <1>9, SMT DEF SessionEnds
<1>10. CASE Releases(l)
  BY <1>10, SMT DEF Releases, AfterRelease, ReleaseAt
<1>11. CASE HasNothingToRelease(l)
  BY <1>11, SMT DEF HasNothingToRelease, AfterRelease
<1>12. CASE Watches(l)
  <2>1. \/ GoTo(l, "done") /\ proxy' = [proxy EXCEPT ![l] = FALSE]
        \/ GoTo(l, "terminating") /\ UNCHANGED proxy
    BY <1>12, Zenon DEF Watches
  <2>2. pc[l] = "watching" /\ UNCHANGED <<home, beating, routerVars>>
    BY <1>12 DEF Watches
  <2>3. CASE GoTo(l, "done") /\ proxy' = [proxy EXCEPT ![l] = FALSE]
    BY <2>2, <2>3, SMT
  <2>4. CASE GoTo(l, "terminating") /\ UNCHANGED proxy
    BY <2>2, <2>4, SMT
  <2>5. QED  BY <2>1, <2>3, <2>4
<1>13. CASE Terminates(l)
  BY <1>13, SMT DEF Terminates, Terminated
<1>14. CASE Reaps(l)
  <2>1. /\ pc[l] = "reaping" /\ GoTo(l, "done")
        /\ proxy' = [proxy EXCEPT ![l] = FALSE] /\ UNCHANGED <<home, beating>>
    BY <1>14 DEF Reaps
  <2>2. CASE UNCHANGED routerVars
    BY <2>1, <2>2, SMT
  <2>3. CASE Gone(l)
    BY <2>1, <2>3, SMT DEF Gone
  <2>4. QED  BY <1>14, <2>2, <2>3 DEF Reaps
<1>15. CASE Beats(l)
  <2>1. UNCHANGED <<pc, proxy, home, process, looked, task, requested>>
    BY <1>15 DEF Beats
  <2>2. UNCHANGED beating \/ StopBeating(l)
    BY <1>15, Zenon DEF Beats
  <2>3. CASE UNCHANGED beating
    BY <2>1, <2>3, SMT
  <2>4. CASE StopBeating(l)
    BY <2>1, <2>4, SMT
  <2>5. QED  BY <2>2, <2>3, <2>4
<1>16. CASE BeatFails(l)
  BY <1>16, SMT DEF BeatFails
<1>17. CASE Crashes(l)
  BY <1>17, SMT DEF Crashes
<1>18. QED
  BY <1>1, <1>2, <1>3, <1>4, <1>5, <1>6, <1>7, <1>8, <1>9, <1>10, <1>11, <1>12, <1>13,
       <1>14, <1>15, <1>16, <1>17, Zenon DEF LauncherStep

\* So does every step of a router, and the end of a stream that holds it.
LEMMA RouterKeepsControl ==
  ASSUME Control, Phases, NEW p \in Launcher,
         RouterStep(p) \/ StreamCloses(p)
  PROVE  Control' /\ Phases'
<1> USE LifecycleAssumption DEF Control, Phases, Answering, GoTo, StopBeating, SetTask,
     launcherVars, routerVars, Loops
<1>1. CASE StartsUp(p)
  <2>1. process[p] \in {"starting", "doomed"} /\ UNCHANGED launcherVars
    BY <1>1 DEF StartsUp
  <2>2. CASE Gone(p)
    BY <2>1, <2>2, SMT DEF Gone
  <2>3. CASE ~Gone(p)
    <3>1. /\ process' = [process EXCEPT ![p] = IF @ = "doomed" THEN "exiting" ELSE "serving"]
          /\ UNCHANGED <<registry, looked, task, requested>>
      BY <1>1, <2>3, Zenon DEF StartsUp
    <3>2. QED  BY <2>1, <3>1, SMT
  <2>4. QED  BY <2>2, <2>3
<1>2. CASE ClosesPort(p) \/ StreamCloses(p)
  BY <1>2, SMT DEF ClosesPort, StreamCloses
<1>3. CASE Ends(p)
  BY <1>3, SMT DEF Ends, Gone
<1>4. CASE MonitorLooks(p)
  BY <1>4, SMT DEF MonitorLooks
<1>5. CASE MonitorDecides(p)
  BY <1>5, SMT DEF MonitorDecides
<1>6. CASE TaskWakes(p)
  BY <1>6, SMT DEF TaskWakes
<1>7. CASE TaskLocks(p)
  BY <1>7, SMT DEF TaskLocks
<1>8. CASE TaskUnloaded(p)
  <2>1. task' = [task EXCEPT ![p] = "none"] /\ UNCHANGED <<launcherVars, looked>>
    BY <1>8 DEF TaskUnloaded
  <2>2. CASE UNCHANGED <<process, requested>>
    BY <2>1, <2>2, SMT
  <2>3. CASE StopsItself(p)
    BY <2>1, <2>3, SMT DEF StopsItself
  <2>4. QED  BY <1>8, <2>2, <2>3, Zenon DEF TaskUnloaded
<1>9. CASE TaskCancelled(p)
  BY <1>9, SMT DEF TaskCancelled
<1>10. QED
  BY <1>1, <1>2, <1>3, <1>4, <1>5, <1>6, <1>7, <1>8, <1>9, Zenon DEF RouterStep,
       ProcessStep, MonitorStep, TaskStep

-----------------------------------------------------------------------------
(* The registries of all routers, and the leases of the attached launchers. *)

\* Every registry has its type and its grace period.
Sounds ==
  /\ registry \in [Launcher -> Registries]
  /\ \A p \in Launcher : Sound(registry[p])

\* Unless the machine sleeps, a launcher that was told of its lease and sends
\* heartbeats has a fresh one.
Leases ==
  ~May("suspend") => \A l \in Launcher, p \in Answering : Attached(l, p) =>
       Fresh(registry[p], l)

\* A step changes one registry, to a sound one.
LEMMA OneRegistry ==
  ASSUME Sounds, NEW p \in Launcher, NEW reg, Sound(reg),
         registry' = [registry EXCEPT ![p] = reg]
  PROVE  Sounds'
<1>1. reg \in Registries
  BY DEF Sound
<1>2. QED  BY <1>1, SMT DEF Sounds

\* A snapshot of one registry keeps the fresh leases of all.
LEMMA Snapshot ==
  ASSUME Sounds, Leases, NEW p \in Launcher, registry' = [registry EXCEPT ![p] = Reaped(@)],
         UNCHANGED launcherVars, Answering' \subseteq Answering
  PROVE  Sounds' /\ Leases'
<1>1. Sound(registry[p]) /\ Sound(Reaped(registry[p]))
  BY ReapedIsSound DEF Sounds
<1>2. Sounds'
  BY <1>1, OneRegistry
<1>3. \A l \in Launcher : Fresh(registry[p], l) => Fresh(Reaped(registry[p]), l)
  BY <1>1, ReapedKeepsFresh
<1>4. Leases'
  BY <1>3, SMT DEF Sounds, Leases, Answering, Attached, launcherVars
<1>5. QED  BY <1>2, <1>4

\* The end of the shutdown task moves no launcher and opens no port.
LEMMA UnloadStops ==
  ASSUME Control, NEW p \in Launcher, TaskUnloaded(p)
  PROVE  UNCHANGED launcherVars /\ Answering' \subseteq Answering
<1>1. UNCHANGED launcherVars
  BY DEF TaskUnloaded
<1>2. UNCHANGED process \/ process' = [process EXCEPT ![p] = IF @ = "serving" THEN "exiting"
     ELSE @]
  BY Zenon DEF TaskUnloaded, StopsItself
<1>3. QED  BY <1>1, <1>2, SMT DEF Control, Answering

\* Every step of a launcher keeps the registries sound and the attached fresh.
LEMMA LauncherKeepsLeases ==
  ASSUME Control, Phases, Sounds, Leases, NEW l \in Launcher,
         LauncherStep(l) \/ Beats(l) \/ BeatFails(l) \/ Crashes(l)
  PROVE  Sounds' /\ Leases'
<1> USE LifecycleAssumption DEF Control, Phases, Sounds, Leases, Attached, Answering, GoTo,
     StopBeating, SetTask, launcherVars, routerVars, Loops
<1>1. CASE FindsRouter(l)
  BY <1>1, SMT DEF FindsRouter
<1>2. CASE SpawnsRouter(l)
  BY <1>2, SMT DEF SpawnsRouter
<1>3. CASE RouterReady(l)
  BY <1>3, SMT DEF RouterReady
<1>4. CASE RouterEnded(l)
  BY <1>4, SMT DEF RouterEnded, AfterStartError
<1>5. CASE RouterTooSlow(l)
  BY <1>5, SMT DEF RouterTooSlow, AfterStartError, Terminated
<1>6. CASE Registers(l)
  <2>1. PICK p \in Answering :
          /\ RegisterAt(l, p)
          /\ \/ /\ home' = [home EXCEPT ![l] = p]
                /\ beating' = [beating EXCEPT ![l] = Kind[l] # "doctor"]
             \/ UNCHANGED <<home, beating>>
    BY <1>6 DEF Registers
  <2>2. UNCHANGED process
    BY <1>6 DEF Registers
  <2> DEFINE reg == Registered(registry[p], l)
  <2>3. p \in Launcher /\ Sound(registry[p])
    BY <2>1
  <2>4. registry' = [registry EXCEPT ![p] = Reaped(reg)]
    BY <2>1 DEF RegisterAt
  <2>5. Sound(reg) /\ Sound(Reaped(reg))
    BY <2>3, RegisteredIsSound, ReapedIsSound
  <2>6. \A k \in Launcher : k = l \/ Fresh(registry[p], k) => Fresh(Reaped(reg), k)
    BY <2>3, <2>5, RegisteredKeepsFresh, ReapedKeepsFresh
  <2> HIDE DEF reg
  <2>7. Sounds'
    BY <2>3, <2>4, <2>5, OneRegistry
  <2>8. CASE /\ home' = [home EXCEPT ![l] = p]
             /\ beating' = [beating EXCEPT ![l] = Kind[l] # "doctor"]
    BY <2>2, <2>3, <2>4, <2>6, <2>7, <2>8, SMT
  <2>9. CASE UNCHANGED <<home, beating>>
    BY <2>2, <2>3, <2>4, <2>6, <2>7, <2>9, SMT
  <2>10. QED  BY <2>1, <2>8, <2>9
<1>7. CASE RegistersNowhere(l)
  BY <1>7, SMT DEF RegistersNowhere
<1>8. CASE Preflight(l)
  BY <1>8, SMT DEF Preflight
<1>9. CASE SessionEnds(l)
  BY <1>9, SMT DEF SessionEnds
<1>10. CASE Releases(l)
  <2>1. /\ UNCHANGED <<beating, process>>
        /\ home' = [home EXCEPT ![l] = NoRouter]
        /\ ~beating[l]
    BY <1>10, SMT DEF Releases
  <2>2. CASE UNCHANGED registry
    BY <2>1, <2>2, SMT
  <2>3. CASE \E p \in Answering : ReleaseAt(l, p)
    <3>1. PICK p \in Answering :
            registry' = [registry EXCEPT ![p] = Reaped(Released(registry[p], l))]
      BY <2>3 DEF ReleaseAt
    <3>2. p \in Launcher /\ Sound(registry[p])
      BY <3>1
    <3> DEFINE reg == Released(registry[p], l)
    <3>3. Sound(reg) /\ Sound(Reaped(reg))
      BY <3>2, ReleasedIsSound, ReapedIsSound
    <3>4. \A k \in Launcher \ {l} : Fresh(registry[p], k) => Fresh(Reaped(reg), k)
      BY <3>2, <3>3, ReleasedKeepsFresh, ReapedKeepsFresh
    <3>5. registry' = [registry EXCEPT ![p] = Reaped(reg)]
      BY <3>1
    <3> HIDE DEF reg
    <3>6. Sounds'
      BY <3>2, <3>3, <3>5, OneRegistry
    <3>7. QED  BY <2>1, <3>2, <3>4, <3>5, <3>6, SMT
  <2>4. QED  BY <1>10, <2>2, <2>3, Zenon DEF Releases
<1>11. CASE HasNothingToRelease(l)
  BY <1>11, SMT DEF HasNothingToRelease, AfterRelease
<1>12. CASE Watches(l)
  BY <1>12, SMT DEF Watches
<1>13. CASE Terminates(l)
  BY <1>13, SMT DEF Terminates, Terminated
<1>14. CASE Reaps(l)
  <2>1. UNCHANGED <<home, beating>> /\ (UNCHANGED routerVars \/ Gone(l))
    BY <1>14, Zenon DEF Reaps
  <2>2. CASE UNCHANGED routerVars
    BY <2>1, <2>2, SMT
  <2>3. CASE Gone(l)
    <3>1. Sounds'
      BY <2>3, NewIsSound, OneRegistry DEF Gone
    <3>2. QED  BY <2>1, <2>3, <3>1, SMT DEF Gone
  <2>4. QED  BY <2>1, <2>2, <2>3
<1>15. CASE Beats(l)
  <2>1. PICK p \in Answering : registry' = [registry EXCEPT ![p] = Reaped(Beaten(@, l))]
    BY <1>15 DEF Beats
  <2>2. UNCHANGED <<home, process>> /\ (UNCHANGED beating \/ StopBeating(l))
    BY <1>15, Zenon DEF Beats
  <2>3. p \in Launcher /\ Sound(registry[p])
    BY <2>1
  <2> DEFINE reg == Beaten(registry[p], l)
  <2>4. Sound(reg) /\ Sound(Reaped(reg))
    BY <2>3, BeatenIsSound, ReapedIsSound
  <2>5. \A k \in Launcher : Fresh(registry[p], k) => Fresh(Reaped(reg), k)
    BY <2>3, <2>4, BeatenKeepsFresh, ReapedKeepsFresh
  <2>6. registry' = [registry EXCEPT ![p] = Reaped(reg)]
    BY <2>1
  <2> HIDE DEF reg
  <2>7. Sounds'
    BY <2>3, <2>4, <2>6, OneRegistry
  <2>8. CASE UNCHANGED beating
    BY <2>2, <2>3, <2>5, <2>6, <2>7, <2>8, SMT
  <2>9. CASE StopBeating(l)
    BY <2>2, <2>3, <2>5, <2>6, <2>7, <2>9, SMT
  <2>10. QED  BY <2>2, <2>8, <2>9
<1>16. CASE BeatFails(l)
  BY <1>16, SMT DEF BeatFails
<1>17. CASE Crashes(l)
  BY <1>17, SMT DEF Crashes
<1>18. QED
  BY <1>1, <1>2, <1>3, <1>4, <1>5, <1>6, <1>7, <1>8, <1>9, <1>10, <1>11, <1>12, <1>13,
       <1>14, <1>15, <1>16, <1>17, Zenon DEF LauncherStep

\* So does every step of a router, and the end of a stream that holds it.
LEMMA RouterKeepsLeases ==
  ASSUME Control, Phases, Sounds, Leases, NEW p \in Launcher,
         RouterStep(p) \/ StreamCloses(p)
  PROVE  Sounds' /\ Leases'
<1>1. CASE MonitorLooks(p)
  BY <1>1, Snapshot DEF MonitorLooks, Answering
<1>2. CASE TaskWakes(p)
  BY <1>2, Snapshot DEF TaskWakes, Answering
<1>3. CASE TaskLocks(p)
  BY <1>3, Snapshot DEF TaskLocks, Answering
<1>4. CASE TaskUnloaded(p)
  <2>1. UNCHANGED launcherVars /\ Answering' \subseteq Answering
    BY <1>4, UnloadStops
  <2>2. UNCHANGED registry \/ registry' = [registry EXCEPT ![p] = Reaped(@)]
    BY <1>4, Zenon DEF TaskUnloaded
  <2>3. CASE UNCHANGED registry
    BY <2>1, <2>3, SMT DEF Sounds, Leases, Attached, launcherVars
  <2>4. CASE registry' = [registry EXCEPT ![p] = Reaped(@)]
    BY <2>1, <2>4, Snapshot
  <2>5. QED  BY <2>2, <2>3, <2>4
<1> USE LifecycleAssumption DEF Control, Phases, Sounds, Leases, Attached, Answering, GoTo,
     StopBeating, SetTask, launcherVars, routerVars, Loops
<1>5. CASE StartsUp(p)
  <2>1. process[p] \in {"starting", "doomed"} /\ UNCHANGED launcherVars
    BY <1>5 DEF StartsUp
  <2>2. CASE Gone(p)
    <3>1. Sounds'
      BY <2>2, NewIsSound, OneRegistry DEF Gone
    <3>2. QED  BY <2>1, <2>2, <3>1, SMT DEF Gone
  <2>3. CASE ~Gone(p)
    <3>1. /\ process' = [process EXCEPT ![p] = IF @ = "doomed" THEN "exiting" ELSE "serving"]
          /\ UNCHANGED registry
      BY <1>5, <2>3, Zenon DEF StartsUp
    <3>2. QED  BY <2>1, <3>1, SMT
  <2>4. QED  BY <2>2, <2>3
<1>6. CASE ClosesPort(p) \/ StreamCloses(p)
  BY <1>6, SMT DEF ClosesPort, StreamCloses
<1>7. CASE Ends(p)
  <2>1. Sounds'
    BY <1>7, NewIsSound, OneRegistry DEF Ends, Gone
  <2>2. QED  BY <1>7, <2>1, SMT DEF Ends, Gone
<1>8. CASE MonitorDecides(p)
  BY <1>8, SMT DEF MonitorDecides
<1>9. CASE TaskCancelled(p)
  BY <1>9, SMT DEF TaskCancelled
<1>10. QED
  BY <1>1, <1>2, <1>3, <1>4, <1>5, <1>6, <1>7, <1>8, <1>9, Zenon DEF RouterStep,
       ProcessStep, MonitorStep, TaskStep

\* Time keeps both.
LEMMA TimeKeepsAll ==
  ASSUME Control, Phases, Sounds, Leases, Tick \/ Suspend
  PROVE  Control' /\ Phases' /\ Sounds' /\ Leases'
<1>1. UNCHANGED <<launcherVars, process, looked, task, requested>>
  BY Zenon DEF Tick, Suspend
<1>2. Control' /\ Phases'
  BY <1>1, SMT DEF Control, Phases, launcherVars
<1>3. PICK n \in Nat : registry' = [p \in Launcher |-> Aged(registry[p], n)]
  <2>1. 1 \in Nat /\ TTL + Grace \in Nat
    BY RegistryAssumption
  <2>2. QED  BY <2>1, Zenon DEF Tick, Suspend
<1>4. \A p \in Launcher : Sound(Aged(registry[p], n))
  BY AgedIsSound DEF Sounds
<1>5. Sounds'
  <2>1. \A p \in Launcher : Aged(registry[p], n) \in Registries
    BY <1>4 DEF Sound
  <2>2. QED  BY <1>3, <1>4, <2>1, Zenon DEF Sounds
<1>6. Leases'
  <2>1. SUFFICES ASSUME ~May("suspend"), NEW l \in Launcher, NEW p \in Answering',
       Attached(l, p)'
                 PROVE  Fresh(registry[p], l)'
    BY Zenon DEF Leases
  <2>2. p \in Answering /\ p \in Launcher /\ Attached(l, p)
    BY <1>1, <2>1 DEF Answering, Attached, launcherVars
  <2>3. Tick
    BY <2>1 DEF Suspend
  <2>4. Fresh(registry[p], l) /\ Sound(registry[p])
    BY <2>1, <2>2 DEF Leases, Sounds
  <2>5. l \in registry[p].holders /\ registry[p].age[l] < Late
    BY <2>2, <2>3, <2>4 DEF Tick, Fresh, Attached
  <2>6. Fresh(Aged(registry[p], 1), l)
    BY <2>4, <2>5, AgedKeepsFresh
  <2>7. registry'[p] = Aged(registry[p], 1)
    BY <2>2, <2>3 DEF Tick
  <2>8. QED  BY <2>6, <2>7 DEF Fresh
<1>7. QED  BY <1>2, <1>5, <1>6

-----------------------------------------------------------------------------
(* The inductive invariant and what follows from it.                       *)

\* Types, phases, sound registries and fresh leases: together they are inductive.
Inv == Control /\ Phases /\ Sounds /\ Leases

\* It holds at the start.
LEMMA InvInit == Init => Inv
<1>1. Init => Control /\ Phases
  BY SMT DEF Init, Control, Phases
<1>2. Init => Sounds
  BY NewIsSound DEF Init, Sounds, Sound
<1>3. Init => Leases
  BY SMT DEF Init, Leases, Attached
<1>4. QED  BY <1>1, <1>2, <1>3 DEF Inv

\* Every step keeps it.
LEMMA InvNext == Inv /\ [Next]_vars => Inv'
<1>1. SUFFICES ASSUME Inv, [Next]_vars
               PROVE  Inv'
  OBVIOUS
<1>2. Control /\ Phases /\ Sounds /\ Leases
  BY <1>1 DEF Inv
<1>3. CASE UNCHANGED vars
  <2>1. UNCHANGED <<pc, proxy, home, beating, process, registry, looked, task, requested>>
    BY <1>3 DEF vars, launcherVars, routerVars
  <2>2. Control' /\ Phases' /\ Sounds'
    BY <1>2, <2>1, SMT DEF Control, Phases, Sounds
  <2>3. Leases'
    BY <1>2, <2>1, SMT DEF Leases, Attached, Answering, Fresh
  <2>4. QED  BY <2>2, <2>3 DEF Inv
<1>4. ASSUME NEW l \in Launcher, LauncherStep(l) \/ Beats(l) \/ BeatFails(l) \/ Crashes(l)
      PROVE  Inv'
  BY <1>2, <1>4, LauncherKeepsControl, LauncherKeepsLeases DEF Inv
<1>5. ASSUME NEW p \in Launcher, RouterStep(p) \/ StreamCloses(p)
      PROVE  Inv'
  BY <1>2, <1>5, RouterKeepsControl, RouterKeepsLeases DEF Inv
<1>6. CASE Tick \/ Suspend
  BY <1>2, <1>6, TimeKeepsAll DEF Inv
<1>7. QED
  BY <1>1, <1>3, <1>4, <1>5, <1>6, Zenon DEF Next

\* Every state satisfies it.
THEOREM InvAlways == Spec => []Inv
<1>1. QED  BY InvInit, InvNext, PTL DEF Spec

\* What the invariant says of the properties the runs check.
LEMMA InvImplies ==
  ASSUME Inv
  PROVE  TypeOK /\ GraceRunsWhileEmpty /\ (~May("suspend") => HeartbeatKeepsLease)
<1>1. TypeOK
  BY SMT DEF Inv, Control, Sounds, TypeOK
<1>2. GraceRunsWhileEmpty
  BY DEF Inv, Sounds, Sound, GraceRunsWhileEmpty
<1>3. ~May("suspend") => HeartbeatKeepsLease
  BY DEF Inv, Leases, Fresh, HeartbeatKeepsLease
<1>4. QED  BY <1>1, <1>2, <1>3

\* Type correctness, for any number of launchers (start_codex.py, app.py,
\* runtime.py and monitor.py together).
THEOREM TypeCorrect == Spec => []TypeOK
<1>1. QED  BY InvAlways, InvImplies, PTL

\* empty_since is set exactly while a registry that has seen a lease is empty.
THEOREM GracePeriod == Spec => []GraceRunsWhileEmpty
<1>1. QED  BY InvAlways, InvImplies, PTL

\* Unless the machine sleeps, a launcher that sends heartbeats keeps its lease.
THEOREM HeartbeatsKeepLease ==
  ASSUME ~May("suspend")
  PROVE  Spec => []HeartbeatKeepsLease
<1>1. Inv => HeartbeatKeepsLease
  BY InvImplies
<1>2. QED  BY <1>1, InvAlways, PTL

\* No step of a launcher sets _shutdown_requested.
LEMMA LaunchersDoNotRequest ==
  ASSUME NEW l \in Launcher, LauncherStep(l) \/ Beats(l) \/ BeatFails(l) \/ Crashes(l)
  PROVE  \/ UNCHANGED requested
         \/ \E q \in Launcher : requested' = [requested EXCEPT ![q] = FALSE]
<1> USE DEF Answering
<1>1. CASE FindsRouter(l)
  BY <1>1, Zenon DEF FindsRouter, routerVars
<1>2. CASE SpawnsRouter(l)
  BY <1>2, Zenon DEF SpawnsRouter, routerVars
<1>3. CASE RouterReady(l)
  BY <1>3, Zenon DEF RouterReady, routerVars
<1>4. CASE RouterEnded(l)
  BY <1>4, Zenon DEF RouterEnded, routerVars
<1>5. CASE RouterTooSlow(l)
  BY <1>5, Zenon DEF RouterTooSlow, routerVars
<1>6. CASE Registers(l)
  BY <1>6, Zenon DEF Registers, RegisterAt
<1>7. CASE RegistersNowhere(l)
  BY <1>7, Zenon DEF RegistersNowhere, routerVars
<1>8. CASE Preflight(l)
  BY <1>8, Zenon DEF Preflight, routerVars
<1>9. CASE SessionEnds(l)
  BY <1>9, Zenon DEF SessionEnds, routerVars
<1>10. CASE Releases(l)
  BY <1>10, Zenon DEF Releases, ReleaseAt
<1>11. CASE HasNothingToRelease(l)
  BY <1>11, Zenon DEF HasNothingToRelease, routerVars
<1>12. CASE Watches(l)
  BY <1>12, Zenon DEF Watches, routerVars
<1>13. CASE Terminates(l)
  BY <1>13, Zenon DEF Terminates, routerVars
<1>14. CASE Reaps(l)
  BY <1>14, Zenon DEF Reaps, Gone, routerVars
<1>15. CASE Beats(l)
  BY <1>15, Zenon DEF Beats, routerVars
<1>16. CASE BeatFails(l)
  BY <1>16, Zenon DEF BeatFails, routerVars
<1>17. CASE Crashes(l)
  BY <1>17, Zenon DEF Crashes, routerVars
<1>18. QED
  BY <1>1, <1>2, <1>3, <1>4, <1>5, <1>6, <1>7, <1>8, <1>9, <1>10, <1>11, <1>12, <1>13,
       <1>14, <1>15, <1>16, <1>17, Zenon DEF LauncherStep

\* Nor does a step of a router other than the end of its shutdown task.
LEMMA OnlyUnloadRequests ==
  ASSUME NEW p \in Launcher, RouterStep(p) \/ StreamCloses(p), ~TaskUnloaded(p)
  PROVE  \/ UNCHANGED requested
         \/ \E q \in Launcher : requested' = [requested EXCEPT ![q] = FALSE]
<1> USE DEF Answering
<1>1. CASE StartsUp(p)
  BY <1>1, Zenon DEF StartsUp, Gone
<1>2. CASE ClosesPort(p) \/ StreamCloses(p)
  BY <1>2, Zenon DEF ClosesPort, StreamCloses, routerVars
<1>3. CASE Ends(p)
  BY <1>3, Zenon DEF Ends, Gone
<1>4. CASE MonitorLooks(p)
  BY <1>4, Zenon DEF MonitorLooks, routerVars
<1>5. CASE MonitorDecides(p)
  BY <1>5, Zenon DEF MonitorDecides, routerVars
<1>6. CASE TaskWakes(p)
  BY <1>6, Zenon DEF TaskWakes, routerVars
<1>7. CASE TaskLocks(p)
  BY <1>7, Zenon DEF TaskLocks, routerVars
<1>8. CASE TaskCancelled(p)
  BY <1>8, Zenon DEF TaskCancelled, routerVars
<1>9. QED
  BY <1>1, <1>2, <1>3, <1>4, <1>5, <1>6, <1>7, <1>8, Zenon DEF RouterStep, ProcessStep,
       MonitorStep, TaskStep

\* A router signals itself only at the end of its shutdown task, after a look
\* at the leases that leaves none.
LEMMA SelfStopLooks ==
  ASSUME Inv, Next, NEW p \in Launcher, SelfStop(p)
  PROVE  Reaped(registry[p]).holders = {}
<1>1. requested \in [Launcher -> BOOLEAN] /\ ~requested[p] /\ requested'[p]
  BY DEF Inv, Control, SelfStop
<1>2. ~(\/ UNCHANGED requested
        \/ \E q \in Launcher : requested' = [requested EXCEPT ![q] = FALSE])
  BY <1>1, SMT
<1>3. ~\E l \in Launcher : LauncherStep(l) \/ Beats(l) \/ BeatFails(l) \/ Crashes(l)
  BY <1>2, LaunchersDoNotRequest
<1>4. ~(Tick \/ Suspend)
  BY <1>2, Zenon DEF Tick, Suspend
<1>5. PICK q \in Launcher : RouterStep(q) \/ StreamCloses(q)
  BY <1>3, <1>4, Zenon DEF Next
<1>6. TaskUnloaded(q)
  BY <1>2, <1>5, OnlyUnloadRequests
<1>7. /\ registry' = [registry EXCEPT ![q] = Reaped(@)]
      /\ registry'[q].holders = {}
      /\ requested' = [requested EXCEPT ![q] = TRUE]
  BY <1>2, <1>6, Zenon DEF TaskUnloaded, StopsItself
<1>8. p = q
  BY <1>1, <1>7, SMT
<1>9. QED
  BY <1>7, <1>8, Zenon DEF Inv, Sounds

\* Unless the machine sleeps, no router stops itself under a launcher that
\* sends heartbeats and holds a lease on it.
THEOREM SessionsAreSpared ==
  ASSUME ~May("suspend")
  PROVE  Spec => IdleStopSparesSessions
<1>1. ASSUME Inv, [Next]_vars, NEW p \in Launcher, SelfStop(p), NEW l \in Launcher,
     Attached(l, p)
      PROVE  FALSE
  <2>1. requested' # requested
    BY <1>1 DEF SelfStop
  <2>2. Next
    BY <1>1, <2>1 DEF vars, routerVars
  <2>3. Reaped(registry[p]).holders = {}
    BY <1>1, <2>2, SelfStopLooks
  <2>4. Sound(registry[p]) /\ Fresh(registry[p], l)
    BY <1>1 DEF Inv, Sounds, Leases, Answering, SelfStop
  <2>5. QED  BY <2>3, <2>4, ReapedKeepsFresh DEF Fresh
<1>2. Inv /\ [Next]_vars =>
        [\A p \in Launcher : SelfStop(p) => \A l \in Launcher : ~Attached(l, p)]_vars
  BY <1>1
<1>3. QED  BY <1>2, InvAlways, PTL DEF Spec, IdleStopSparesSessions
=============================================================================
