-------------------------- MODULE ExecutionProofs --------------------------
(***************************************************************************)
(* Proofs about Execution, for every set of requests, aliases and bounds.  *)
(***************************************************************************)
EXTENDS Execution, FiniteSetTheorems, TLAPS

(***************************************************************************)
(* Counting the requests inside execute().                                 *)
(***************************************************************************)

\* The requests inside execute() are finitely many, in every state.
LEMMA InFlightFinite ==
  /\ IsFiniteSet(InFlight) /\ Cardinality(InFlight) \in Nat
  /\ IsFiniteSet(InFlight') /\ Cardinality(InFlight') \in Nat
<1>1. InFlight \in SUBSET Request /\ InFlight' \in SUBSET Request
  BY DEF InFlight, Waiting, Serving
<1>2. IsFiniteSet(InFlight) /\ IsFiniteSet(InFlight')
  BY <1>1, FS_Subset, ExecutionAssumption DEF ExecutionAssumption
<1>3. QED  BY <1>2, FS_CardinalityType

\* A step that admits one request and counts it keeps the count right.
LEMMA CountUp ==
  ASSUME PendingIsInFlight, NEW r \in Request, r \notin InFlight,
         InFlight' = InFlight \cup {r}, pending' = pending + 1
  PROVE  PendingIsInFlight' /\ pending' \in Nat
BY InFlightFinite, FS_AddElement DEF PendingIsInFlight

\* A step that lets one request out and takes it off keeps the count right.
LEMMA CountDown ==
  ASSUME PendingIsInFlight, NEW r \in Request, r \in InFlight,
         InFlight' = InFlight \ {r}, pending' = pending - 1
  PROVE  PendingIsInFlight' /\ pending' \in Nat
BY InFlightFinite, FS_RemoveElement DEF PendingIsInFlight

\* A step that changes neither keeps the count right.
LEMMA CountStays ==
  ASSUME PendingIsInFlight, InFlight' = InFlight, pending' = pending
  PROVE  PendingIsInFlight' /\ pending' \in Nat
BY InFlightFinite DEF PendingIsInFlight

(***************************************************************************)
(* How a step moves the requests.                                          *)
(***************************************************************************)

\* A request that goes on inside the router stays counted.
LEMMA MovesInside ==
  ASSUME TypeOK, NEW r \in Request, pc[r] \in {"waiting"} \cup InService,
         NEW p \in {"waiting"} \cup InService, pc' = [pc EXCEPT ![r] = p]
  PROVE  InFlight' = InFlight
BY DEF TypeOK, InFlight, Waiting, Serving, InService

\* A request that enters was not counted before.
LEMMA MovesIn ==
  ASSUME TypeOK, NEW r \in Request, pc[r] = "new",
         NEW p \in {"waiting"} \cup InService, pc' = [pc EXCEPT ![r] = p]
  PROVE  r \notin InFlight /\ InFlight' = InFlight \cup {r}
BY DEF TypeOK, InFlight, Waiting, Serving, InService

\* A request that is answered is no longer counted.
LEMMA MovesOut ==
  ASSUME TypeOK, NEW r \in Request, pc' = [pc EXCEPT ![r] = "done"]
  PROVE  InFlight' = InFlight \ {r}
BY DEF TypeOK, InFlight, Waiting, Serving, InService

(***************************************************************************)
(* Type correctness and the admission count, one lemma for each action.    *)
(***************************************************************************)

\* What the queue operators make of `ahead`.
LEMMA QueueTypes ==
  ASSUME TypeOK, NEW a \in Actor
  PROVE  /\ Queue \subseteq Actor
         /\ Enqueue(a) => ahead' \in [Actor -> SUBSET Actor]
         /\ Dequeue(a) => ahead' \in [Actor -> SUBSET Actor]
BY DEF TypeOK, Queue, Waiting, Actor, Enqueue, Dequeue

\* The record of the dashboard keeps its type under every update.
LEMMA TelemetryTypes ==
  ASSUME TypeOK, NEW r \in Request
  PROVE  LET T == [active : BOOLEAN, turn : Request \cup {NoOne},
                   phase : {"idle", "loading", "thinking", "generating", "tool",
                            "completed", "error"}]
         IN  /\ Started(r) \in T /\ Failed \in T /\ Completed \in T
             /\ \A p \in {"thinking", "generating", "tool"} :
                  ShowPhase(r, p) => telemetry' \in T
             /\ FailIfShown(r) => telemetry' \in T
             /\ CompleteIfShown(r) => telemetry' \in T
<1> DEFINE T == [active : BOOLEAN, turn : Request \cup {NoOne},
                 phase : {"idle", "loading", "thinking", "generating", "tool",
                          "completed", "error"}]
<1>1. telemetry \in T
  BY DEF TypeOK
<1>2. Started(r) \in T
  BY DEF Started
<1>3. Failed \in T /\ Completed \in T
  BY <1>1 DEF Failed, Completed, Ended
<1>4. ASSUME NEW p \in {"thinking", "generating", "tool"}, ShowPhase(r, p)
      PROVE  telemetry' \in T
  BY <1>1, <1>4 DEF ShowPhase
<1>5. (FailIfShown(r) \/ CompleteIfShown(r)) => telemetry' \in T
  <2>1. (FailIfShown(r) \/ CompleteIfShown(r)) => telemetry' \in {telemetry, Failed, Completed}
    BY Zenon DEF FailIfShown, CompleteIfShown
  <2>. HIDE DEF T
  <2>2. QED  BY <1>1, <1>3, <2>1
<1>6. QED  BY <1>2, <1>3, <1>4, <1>5

\* An exit from the slot: everything Leave touches keeps its type.
LEMMA LeaveTypes ==
  ASSUME TypeOK, PendingIsInFlight, NEW r \in Request, pc[r] \in InService,
         NEW o \in Outcome, Leave(r, o)
  PROVE  /\ pc' \in [Request -> {"new", "waiting", "done"} \cup InService]
         /\ round' \in [Request -> 0..MaxRounds]
         /\ answer' \in [Request -> Outcome]
         /\ holder' \in Actor \cup {NoOne}
         /\ ahead' \in [Actor -> SUBSET Actor]
         /\ PendingIsInFlight' /\ pending' \in Nat
<1>1. PendingIsInFlight' /\ pending' \in Nat
  <2>1. r \in InFlight
    BY DEF InFlight, Serving
  <2>2. InFlight' = InFlight \ {r}
    BY MovesOut DEF Leave
  <2>3. QED  BY <2>1, <2>2, CountDown DEF Leave
<1>2. QED
  BY <1>1, ExecutionAssumption DEF ExecutionAssumption, TypeOK, Leave

\* The first run of _execute in the slot, for a request whose admission has
\* just been counted or was counted when it queued.
LEMMA BeginTypes ==
  ASSUME TypeOK, PendingIsInFlight, NEW r \in Request, NEW n, Begin(r, n),
         \/ pc[r] = "new" /\ n = pending + 1
         \/ pc[r] = "waiting" /\ n = pending
  PROVE  /\ pc' \in [Request -> {"new", "waiting", "done"} \cup InService]
         /\ answer' \in [Request -> Outcome]
         /\ holder' \in Actor \cup {NoOne}
         /\ telemetry' \in [active : BOOLEAN, turn : Request \cup {NoOne},
                            phase : {"idle", "loading", "thinking", "generating",
                                     "tool", "completed", "error"}]
         /\ PendingIsInFlight' /\ pending' \in Nat
<1>1. CASE TakeSlot(r, n)
  <2>1. PendingIsInFlight' /\ pending' \in Nat
    <3>1. CASE pc[r] = "new" /\ n = pending + 1
      <4>1. r \notin InFlight /\ InFlight' = InFlight \cup {r}
        BY <1>1, <3>1, MovesIn DEF TakeSlot, InService
      <4>2. QED  BY <1>1, <3>1, <4>1, CountUp DEF TakeSlot
    <3>2. CASE pc[r] = "waiting" /\ n = pending
      <4>1. InFlight' = InFlight
        BY <1>1, <3>2, MovesInside DEF TakeSlot, InService
      <4>2. QED  BY <1>1, <3>2, <4>1, CountStays DEF TakeSlot
    <3>3. QED  BY <3>1, <3>2
  <2>2. QED
    BY <1>1, <2>1, TelemetryTypes DEF TakeSlot, TypeOK, InService, Actor
<1>2. CASE RefuseInSlot(r, n)
  <2>1. PendingIsInFlight' /\ pending' \in Nat
    <3>1. InFlight' = InFlight \ {r}
      BY <1>2, MovesOut DEF RefuseInSlot
    <3>2. CASE pc[r] = "new" /\ n = pending + 1
      <4>1. InFlight' = InFlight
        BY <3>1, <3>2 DEF InFlight, Waiting, Serving, InService
      <4>2. QED  BY <1>2, <3>2, <4>1, CountStays DEF RefuseInSlot, TypeOK
    <3>3. CASE pc[r] = "waiting" /\ n = pending
      <4>1. r \in InFlight
        BY <3>3 DEF InFlight, Waiting
      <4>2. QED  BY <1>2, <3>1, <3>3, <4>1, CountDown DEF RefuseInSlot
    <3>4. QED  BY <3>2, <3>3
  <2>2. QED
    BY <1>2, <2>1, TelemetryTypes DEF RefuseInSlot, TypeOK, Outcome
<1>3. QED  BY <1>1, <1>2 DEF Begin

\* What the inductive step needs beyond the types: the admission count, and
\* that a request begins its exchanges with the round counter at zero.
RoundsBeginAtZero ==
  \A r \in Request : pc[r] \notin {"inferring", "searching"} => round[r] = 0
Typed == TypeOK /\ PendingIsInFlight /\ RoundsBeginAtZero

\* A request goes to its next exchange.
LEMMA ExchangeTyped ==
  ASSUME Typed, NEW r \in Request,
         pc[r] \in {"showing", "unloading", "searching"}, round[r] < MaxRounds,
         NEW loaded \in SUBSET Model, Exchange(r, loaded),
         currentModel' \in Model \cup {NoModel},
         UNCHANGED <<answer, pending, lockVars, bookVars, unload>>
  PROVE  Typed'
<1> USE DEF Typed
<1> USE ExecutionAssumption DEF ExecutionAssumption
<1>1. InFlight' = InFlight
  BY MovesInside DEF Exchange, InService
<1>2. PendingIsInFlight' /\ pending' \in Nat
  BY <1>1, CountStays
<1>3. telemetry' \in [active : BOOLEAN, turn : Request \cup {NoOne},
                      phase : {"idle", "loading", "thinking", "generating", "tool",
                               "completed", "error"}]
  BY TelemetryTypes DEF Exchange
<1>4. round' \in [Request -> 0..MaxRounds]
  BY DEF Exchange, TypeOK
<1>5. RoundsBeginAtZero'
  BY DEF Exchange, TypeOK, RoundsBeginAtZero
<1>6. QED
  BY <1>2, <1>3, <1>4, <1>5
  DEF TypeOK, Exchange, InService, lockVars, bookVars

\* A request leaves the slot.
LEMMA LeaveTyped ==
  ASSUME Typed, NEW r \in Request, pc[r] \in InService,
         NEW o \in Outcome, Leave(r, o),
         telemetry' \in {telemetry, Failed, Completed},
         \/ UNCHANGED usage
         \/ Record(r),
         stored' \in {stored, stored \cup {r}},
         resident' \in SUBSET resident, UNCHANGED <<currentModel, unload>>
  PROVE  Typed'
<1> USE DEF Typed
<1>1. telemetry' \in [active : BOOLEAN, turn : Request \cup {NoOne},
                      phase : {"idle", "loading", "thinking", "generating", "tool",
                               "completed", "error"}]
  BY TelemetryTypes DEF TypeOK
<1>2. usage' \in [Request -> Nat]
  BY DEF TypeOK, Record
<1>3. RoundsBeginAtZero'
  BY DEF TypeOK, Leave, RoundsBeginAtZero
<1>4. QED
  BY <1>1, <1>2, <1>3, LeaveTypes DEF TypeOK

\* A request is admitted, turned away or woken.
LEMMA ArrivalTyped ==
  ASSUME Typed, NEW r \in Request, Arrive(r) \/ Wake(r)
  PROVE  Typed'
<1> USE DEF Typed
<1>1. CASE Reject(r)
  <2>1. InFlight' = InFlight
    BY <1>1 DEF Reject, TypeOK, InFlight, Waiting, Serving, InService
  <2>2. PendingIsInFlight' /\ pending' \in Nat
    BY <1>1, <2>1, CountStays DEF Reject
  <2>3. RoundsBeginAtZero'
    BY <1>1 DEF Reject, TypeOK, RoundsBeginAtZero
  <2>4. QED
    BY <1>1, <2>2, <2>3 DEF Reject, TypeOK, Outcome, lockVars, bookVars, modelVars
<1>2. CASE AdmitToQueue(r)
  <2>1. r \notin InFlight /\ InFlight' = InFlight \cup {r}
    BY <1>2, MovesIn DEF AdmitToQueue
  <2>2. PendingIsInFlight' /\ pending' \in Nat
    BY <1>2, <2>1, CountUp DEF AdmitToQueue
  <2>3. ahead' \in [Actor -> SUBSET Actor]
    BY <1>2, QueueTypes DEF AdmitToQueue, Actor
  <2>4. RoundsBeginAtZero'
    BY <1>2 DEF AdmitToQueue, TypeOK, RoundsBeginAtZero
  <2>5. QED
    BY <1>2, <2>2, <2>3, <2>4 DEF AdmitToQueue, TypeOK, bookVars, modelVars
<1>3. CASE AdmitToSlot(r)
  <2>1. pc[r] = "new" /\ Begin(r, pending + 1)
    BY <1>3 DEF AdmitToSlot
  <2>2. RoundsBeginAtZero'
    BY <1>3 DEF AdmitToSlot, Begin, TakeSlot, RefuseInSlot, TypeOK, RoundsBeginAtZero
  <2>3. QED
    BY <1>3, <2>1, <2>2, BeginTypes DEF AdmitToSlot, TypeOK, bookVars, modelVars
<1>4. CASE Wake(r)
  <2>1. pc[r] = "waiting" /\ Begin(r, pending)
    BY <1>4 DEF Wake
  <2>2. ahead' \in [Actor -> SUBSET Actor]
    BY <1>4, QueueTypes DEF Wake, Actor
  <2>3. RoundsBeginAtZero'
    BY <1>4 DEF Wake, Begin, TakeSlot, RefuseInSlot, TypeOK, RoundsBeginAtZero
  <2>4. QED
    BY <1>4, <2>1, <2>2, <2>3, BeginTypes DEF Wake, TypeOK, bookVars, modelVars
<1>5. QED  BY <1>1, <1>2, <1>3, <1>4 DEF Arrive

\* A request goes on in the slot, or leaves it, or leaves the queue.
LEMMA ProgressTyped ==
  ASSUME Typed, NEW r \in Request,
         Progress(r) \/ Stream(r) \/ WebCalls(r) \/ Interrupt(r)
  PROVE  Typed'
<1> USE DEF Typed
<1>1. CASE ModelShown(r)
  <2>1. CASE pc' = [pc EXCEPT ![r] = "unloading"] /\ UNCHANGED <<round, telemetry, modelVars>>
    <3>1. InFlight' = InFlight
      BY <1>1, <2>1, MovesInside DEF ModelShown, InService
    <3>2. PendingIsInFlight' /\ pending' \in Nat
      BY <1>1, <3>1, CountStays DEF ModelShown
    <3>3. RoundsBeginAtZero'
      BY <1>1, <2>1 DEF ModelShown, TypeOK, RoundsBeginAtZero
    <3>4. QED
      BY <1>1, <2>1, <3>2, <3>3
      DEF ModelShown, TypeOK, InService, lockVars, bookVars, modelVars
  <2>2. CASE currentModel' = Route[r] /\ Exchange(r, resident)
    <3>1. round[r] < MaxRounds
      BY <1>1, ExecutionAssumption DEF ModelShown, RoundsBeginAtZero, ExecutionAssumption
    <3>2. currentModel' \in Model
      BY <2>2, ExecutionAssumption DEF ExecutionAssumption
    <3>3. QED
      BY <1>1, <2>2, <3>1, <3>2, ExchangeTyped DEF ModelShown, TypeOK
  <2>3. QED  BY <1>1, <2>1, <2>2 DEF ModelShown
<1>2. CASE PreviousUnloaded(r)
  <2>1. round[r] < MaxRounds
    BY <1>2, ExecutionAssumption
    DEF PreviousUnloaded, RoundsBeginAtZero, ExecutionAssumption
  <2>2. currentModel' \in Model
    BY <1>2, ExecutionAssumption DEF PreviousUnloaded, ExecutionAssumption
  <2>3. PICK loaded \in SUBSET Model : Exchange(r, loaded)
    BY <1>2 DEF PreviousUnloaded, TypeOK
  <2>4. QED
    BY <1>2, <2>1, <2>2, <2>3, ExchangeTyped DEF PreviousUnloaded
<1>3. CASE NextRound(r)
  BY <1>3, ExchangeTyped DEF NextRound, TypeOK
<1>4. CASE TransportFails(r) \/ ModelInvalid(r) \/ Crashes(r)
  BY <1>4, LeaveTyped
  DEF TransportFails, ModelInvalid, Crashes, FailIfShown, InService, Outcome,
      bookVars, modelVars
<1>5. CASE Complete(r)
  BY <1>5, LeaveTyped
  DEF Complete, Answerable, CompleteIfShown, InService, Outcome, modelVars
<1>6. CASE FinalizationCrashes(r)
  BY <1>6, LeaveTyped
  DEF FinalizationCrashes, Answerable, CompleteIfShown, InService, Outcome, modelVars
<1>7. CASE FinalizationInvalid(r)
  <2>1. /\ pc[r] \in InService /\ telemetry' = Failed /\ "invalid" \in Outcome
        /\ Leave(r, "invalid") /\ UNCHANGED <<currentModel, unload>>
        /\ resident' \in SUBSET resident
        /\ UNCHANGED usage \/ Record(r)
        /\ stored' \in {stored, stored \cup {r}}
    BY <1>7 DEF FinalizationInvalid, Answerable, InService, Outcome, bookVars, modelVars
  <2>2. QED  BY <2>1, LeaveTyped
<1>8. CASE Stream(r)
  <2>1. PendingIsInFlight' /\ pending' \in Nat
    BY <1>8, CountStays DEF Stream, requestVars, InFlight, Waiting, Serving
  <2>2. QED
    BY <1>8, <2>1, TelemetryTypes
    DEF Stream, TypeOK, RoundsBeginAtZero, requestVars, lockVars, bookVars, modelVars
<1>9. CASE WebCalls(r)
  <2>1. InFlight' = InFlight
    BY <1>9, MovesInside DEF WebCalls, InService
  <2>2. PendingIsInFlight' /\ pending' \in Nat
    BY <1>9, <2>1, CountStays DEF WebCalls
  <2>3. RoundsBeginAtZero'
    BY <1>9 DEF WebCalls, TypeOK, RoundsBeginAtZero
  <2>4. QED
    BY <1>9, <2>2, <2>3, TelemetryTypes
    DEF WebCalls, TypeOK, InService, lockVars, bookVars, modelVars
<1>10. CASE Interrupt(r)
  <2>1. CASE pc[r] = "waiting"
    <3>1. r \in InFlight
      BY <2>1 DEF InFlight, Waiting
    <3>2. /\ pc' = [pc EXCEPT ![r] = "done"] /\ pending' = pending - 1
          /\ answer' = [answer EXCEPT ![r] = "failed"] /\ Dequeue(r)
          /\ UNCHANGED <<round, holder, telemetry, bookVars, modelVars, unload>>
      BY <1>10, <2>1 DEF Interrupt, InService
    <3>3. PendingIsInFlight' /\ pending' \in Nat
      BY <3>1, <3>2, MovesOut, CountDown
    <3>4. ahead' \in [Actor -> SUBSET Actor]
      BY <3>2, QueueTypes DEF Actor
    <3>5. RoundsBeginAtZero'
      BY <2>1, <3>2 DEF TypeOK, RoundsBeginAtZero
    <3>6. QED
      BY <3>2, <3>3, <3>4, <3>5 DEF TypeOK, Outcome, bookVars, modelVars
  <2>2. CASE pc[r] \in InService
    BY <1>10, <2>2, LeaveTyped DEF Interrupt, InService, Outcome, bookVars
  <2>3. QED  BY <1>10, <2>1, <2>2 DEF Interrupt
<1>11. QED
  BY <1>1, <1>2, <1>3, <1>4, <1>5, <1>6, <1>7, <1>8, <1>9, <1>10
  DEF Progress

\* The unload coroutine and Ollama's own expiry move no request.
LEMMA UnloadTyped ==
  ASSUME Typed,
         \/ \E requireIdle \in BOOLEAN : UnloadAtOnce(requireIdle) \/ UnloadQueues(requireIdle)
         \/ Unloading \/ UnloadCancelled \/ Expire
  PROVE  Typed'
<1> USE DEF Typed
<1> USE ExecutionAssumption DEF ExecutionAssumption
<1>1. UNCHANGED <<requestVars, telemetry, bookVars>>
  BY DEF UnloadAtOnce, UnloadQueues, Unloading, UnloadWakes, Listed, Posted, Paused,
         UnloadCancelled, Expire
<1>2. PendingIsInFlight' /\ pending' \in Nat
  BY <1>1, CountStays DEF requestVars, InFlight, Waiting, Serving
<1>3. RoundsBeginAtZero'
  BY <1>1 DEF requestVars, RoundsBeginAtZero
<1>4. ahead' \in [Actor -> SUBSET Actor]
  BY QueueTypes
  DEF UnloadAtOnce, UnloadQueues, Unloading, UnloadWakes, Listed, Posted, Paused,
      UnloadCancelled, Expire, TypeOK, Actor, lockVars
<1>5. holder' \in Actor \cup {NoOne}
  BY DEF UnloadAtOnce, UnloadQueues, Unloading, UnloadWakes, EnterUnload, Listed, Posted,
         Paused, UnloadCancelled, Expire, TypeOK, Actor, lockVars
<1>6. currentModel' \in Model \cup {NoModel} /\ resident' \subseteq Model
  BY DEF UnloadAtOnce, UnloadQueues, Unloading, UnloadWakes, Listed, Posted, Paused,
         UnloadCancelled, Expire, TypeOK, modelVars
<1> DEFINE Fields == [at : {"idle", "waiting", "listing", "posting", "pausing"},
                      requireIdle : BOOLEAN, attempt : 0..MaxAttempts,
                      remaining : SUBSET Model, todo : SUBSET Model]
<1>7. unload' \in Fields
  <2>1. /\ NotUnloading \in Fields
        /\ UnloadState("listing", FALSE, 1, Model, {}) \in Fields
        /\ \A i \in BOOLEAN : UnloadState("waiting", i, 0, {}, {}) \in Fields
    BY DEF NotUnloading, UnloadState
  <2>2. \A i \in BOOLEAN : EnterUnload(i) => unload' \in Fields
    BY <2>1, Zenon DEF EnterUnload, UnloadEnds
  <2>3. CASE \E i \in BOOLEAN : UnloadAtOnce(i) \/ UnloadQueues(i)
    BY <2>1, <2>2, <2>3, Zenon DEF UnloadAtOnce, UnloadQueues
  <2>4. CASE UnloadWakes
    BY <2>2, <2>4 DEF UnloadWakes, TypeOK
  <2>5. CASE Listed
    <3>1. \A left \in SUBSET Model :
            UnloadState("posting", FALSE, unload.attempt, left, left) \in Fields
      BY DEF UnloadState, TypeOK
    <3>2. \A left \in {resident} \cup (IF OllamaFaults THEN {unload.remaining} ELSE {}) :
            left \in SUBSET Model
      BY DEF TypeOK
    <3>3. CASE UnloadEnds
      BY <2>1, <3>3, Zenon DEF UnloadEnds
    <3>4. CASE ~UnloadEnds
      <4>1. PICK left \in {resident} \cup (IF OllamaFaults THEN {unload.remaining} ELSE {}) :
              unload' = UnloadState("posting", FALSE, unload.attempt, left, left)
        BY <2>5, <3>4, Zenon DEF Listed
      <4>2. QED  BY <3>1, <3>2, <4>1, Zenon
    <3>5. QED  BY <3>3, <3>4
  <2>6. CASE Posted
    BY <2>6 DEF Posted, UnloadState, TypeOK
  <2>7. CASE Paused
    <3>1. unload.attempt < MaxAttempts =>
            UnloadState("listing", FALSE, unload.attempt + 1, unload.remaining, {}) \in Fields
      BY DEF UnloadState, TypeOK
    <3>2. QED  BY <2>1, <2>7, <3>1, Zenon DEF Paused, UnloadEnds
  <2>8. CASE UnloadCancelled
    BY <2>1, <2>8 DEF UnloadCancelled, UnloadEnds
  <2>9. CASE Expire
    BY <2>9 DEF Expire, TypeOK
  <2>10. QED  BY <2>3, <2>4, <2>5, <2>6, <2>7, <2>8, <2>9 DEF Unloading
<1>8. QED
  BY <1>1, <1>2, <1>3, <1>4, <1>5, <1>6, <1>7
  DEF TypeOK, requestVars, bookVars

\* Nothing changes in a stuttering step.
LEMMA StutterTyped == Typed /\ UNCHANGED vars => Typed'
BY DEF Typed, TypeOK, PendingIsInFlight, RoundsBeginAtZero, InFlight, Waiting, Serving,
       vars, requestVars, lockVars, bookVars, modelVars

\* Type correctness, and runtime.pending_requests counts the requests inside
\* execute() on every path: no exit forgets its decrement or runs it twice.
THEOREM AdmissionCount == Spec => []Typed
<1>1. Init => Typed
  <2> SUFFICES ASSUME Init PROVE Typed
    OBVIOUS
  <2>1. TypeOK
    BY ExecutionAssumption
    DEF ExecutionAssumption, Init, TypeOK, NotUnloading, UnloadState, Actor, Outcome, InService
  <2>2. InFlight = {}
    BY DEF Init, InFlight, Waiting, Serving, InService
  <2>3. QED
    BY <2>1, <2>2, FS_EmptySet DEF Init, Typed, PendingIsInFlight, RoundsBeginAtZero
<1>2. Typed /\ [Next]_vars => Typed'
  BY ArrivalTyped, ProgressTyped, UnloadTyped, StutterTyped DEF Next
<1>3. QED  BY <1>1, <1>2, PTL DEF Spec

\* What the run checks of it: the type invariant and the admission count.
THEOREM TypeCorrect == Spec => [](TypeOK /\ PendingIsInFlight)
<1>1. Typed => TypeOK /\ PendingIsInFlight
  BY DEF Typed
<1>2. QED  BY <1>1, AdmissionCount, PTL

(***************************************************************************)
(* The slot.                                                               *)
(***************************************************************************)

\* A request past the lock holds it, in every step a request takes.
LEMMA SlotRequestStep ==
  ASSUME Typed, SlotExclusive, NEW r \in Request,
         \/ Arrive(r) \/ Wake(r) \/ Progress(r) \/ Stream(r) \/ WebCalls(r)
         \/ Interrupt(r)
  PROVE  SlotExclusive'
<1> USE DEF Typed, TypeOK, SlotExclusive, InService
<1> USE ExecutionAssumption DEF ExecutionAssumption
<1>1. CASE Reject(r)
  BY <1>1 DEF Reject, lockVars
<1>2. CASE AdmitToQueue(r)
  BY <1>2 DEF AdmitToQueue
<1>3. CASE AdmitToSlot(r)
  BY <1>3 DEF AdmitToSlot, Begin, TakeSlot, RefuseInSlot, LockFree
<1>4. CASE Wake(r)
  BY <1>4 DEF Wake, IsNext, Begin, TakeSlot, RefuseInSlot
<1>5. CASE ModelShown(r)
  BY <1>5 DEF ModelShown, Exchange, lockVars
<1>6. CASE PreviousUnloaded(r)
  BY <1>6 DEF PreviousUnloaded, Exchange, lockVars
<1>7. CASE NextRound(r)
  BY <1>7 DEF NextRound, Exchange, lockVars
<1>8. CASE Stream(r)
  BY <1>8 DEF Stream, requestVars, lockVars
<1>9. CASE WebCalls(r)
  BY <1>9 DEF WebCalls, lockVars
<1>10. CASE pc[r] \in InService /\ UNCHANGED unload /\ \E o \in Outcome : Leave(r, o)
  BY <1>10 DEF Leave
<1>11. CASE Interrupt(r)
  <2>1. CASE pc[r] = "waiting"
    BY <1>11, <2>1 DEF Interrupt
  <2>2. CASE pc[r] \in InService
    BY <1>10, <1>11, <2>2 DEF Interrupt, Outcome
  <2>3. QED  BY <1>11, <2>1, <2>2 DEF Interrupt
<1>12. CASE TransportFails(r) \/ ModelInvalid(r) \/ Crashes(r)
            \/ Complete(r) \/ FinalizationCrashes(r) \/ FinalizationInvalid(r)
  BY <1>10, <1>12
  DEF TransportFails, ModelInvalid, Crashes, Complete, FinalizationCrashes,
      FinalizationInvalid, Answerable, Outcome
<1>13. QED
  BY <1>1, <1>2, <1>3, <1>4, <1>5, <1>6, <1>7, <1>8, <1>9, <1>11, <1>12
  DEF Arrive, Progress

\* The unload takes the lock only when it is free and gives it back at its end.
LEMMA SlotUnloadStep ==
  ASSUME Typed, SlotExclusive,
         \/ \E requireIdle \in BOOLEAN : UnloadAtOnce(requireIdle) \/ UnloadQueues(requireIdle)
         \/ Unloading \/ UnloadCancelled \/ Expire
  PROVE  SlotExclusive'
<1> USE DEF Typed, TypeOK, SlotExclusive, InService, NotUnloading, UnloadState
<1> USE ExecutionAssumption DEF ExecutionAssumption
<1>1. ASSUME NEW i \in BOOLEAN, EnterUnload(i)
      PROVE  \/ unload' = NotUnloading /\ UNCHANGED holder
             \/ unload'.at = "listing" /\ holder' = Unloader
  <2>1. \/ unload' = NotUnloading /\ UNCHANGED holder
        \/ unload' = UnloadState("listing", FALSE, 1, Model, {}) /\ holder' = Unloader
    BY <1>1, Zenon DEF EnterUnload, UnloadEnds
  <2>2. QED  BY <2>1
<1>2. CASE \E i \in BOOLEAN : UnloadAtOnce(i)
  <2>1. PICK i \in BOOLEAN : UnloadAtOnce(i)
    BY <1>2
  <2>2. QED  BY <2>1, <1>1 DEF UnloadAtOnce, LockFree, requestVars
<1>3. CASE \E i \in BOOLEAN : UnloadQueues(i)
  BY <1>3 DEF UnloadQueues, requestVars
<1>4. CASE UnloadWakes
  BY <1>1, <1>4 DEF UnloadWakes, IsNext, requestVars
<1>5. CASE Listed
  BY <1>5 DEF Listed, UnloadEnds, requestVars
<1>6. CASE Posted
  BY <1>6 DEF Posted, requestVars, lockVars
<1>7. CASE Paused
  BY <1>7 DEF Paused, UnloadEnds, requestVars
<1>8. CASE UnloadCancelled
  BY <1>8 DEF UnloadCancelled, UnloadEnds, requestVars
<1>9. CASE Expire
  BY <1>9 DEF Expire, requestVars, lockVars
<1>10. QED
  BY <1>2, <1>3, <1>4, <1>5, <1>6, <1>7, <1>8, <1>9 DEF Unloading

\* One inference per router, no unload during an inference, and every exit
\* gives the lock back.
THEOREM OneInference == Spec => []SlotExclusive
<1>1. Init => SlotExclusive
  BY ExecutionAssumption
  DEF ExecutionAssumption, Init, SlotExclusive, InService, NotUnloading, UnloadState
<1>2. Typed /\ SlotExclusive /\ [Next]_vars => SlotExclusive'
  <2>1. SlotExclusive /\ UNCHANGED vars => SlotExclusive'
    BY DEF SlotExclusive, vars, requestVars, lockVars
  <2>2. QED  BY <2>1, SlotRequestStep, SlotUnloadStep DEF Next
<1>3. QED  BY <1>1, <1>2, AdmissionCount, PTL DEF Spec

(***************************************************************************)
(* The queue limit.                                                        *)
(***************************************************************************)

WithinLimit == pending <= MaxPending + 1

\* Only an admission raises the count, and only below the limit.
LEMMA LimitStep == Typed /\ WithinLimit /\ [Next]_vars => WithinLimit'
<1> SUFFICES ASSUME Typed, WithinLimit, [Next]_vars PROVE WithinLimit'
  OBVIOUS
<1> USE DEF WithinLimit, Typed, TypeOK, Full
<1> USE ExecutionAssumption DEF ExecutionAssumption
<1>1. CASE UNCHANGED pending
  BY <1>1
<1>2. ASSUME NEW r \in Request, NEW o \in Outcome, Leave(r, o)
      PROVE  WithinLimit'
  BY <1>2 DEF Leave
<1>3. ASSUME NEW r \in Request, AdmitToQueue(r) \/ AdmitToSlot(r) PROVE WithinLimit'
  BY <1>3 DEF AdmitToQueue, AdmitToSlot, Begin, TakeSlot, RefuseInSlot
<1>4. ASSUME NEW r \in Request, Wake(r) PROVE WithinLimit'
  BY <1>4 DEF Wake, Begin, TakeSlot, RefuseInSlot
<1>5. ASSUME NEW r \in Request, Interrupt(r) PROVE WithinLimit'
  BY <1>2, <1>5 DEF Interrupt, Outcome
<1>6. ASSUME NEW r \in Request, Progress(r) PROVE WithinLimit'
  BY <1>1, <1>2, <1>6
  DEF Progress, ModelShown, PreviousUnloaded, NextRound, TransportFails, ModelInvalid,
      Crashes, Complete, FinalizationCrashes, FinalizationInvalid, Outcome
<1>7. ASSUME NEW r \in Request, Reject(r) \/ Stream(r) \/ WebCalls(r) PROVE WithinLimit'
  BY <1>1, <1>7 DEF Reject, Stream, WebCalls, requestVars
<1>8. CASE \/ \E i \in BOOLEAN : UnloadAtOnce(i) \/ UnloadQueues(i)
           \/ Unloading \/ UnloadCancelled \/ Expire
  BY <1>1, <1>8
  DEF UnloadAtOnce, UnloadQueues, Unloading, UnloadWakes, Listed, Posted, Paused,
      UnloadCancelled, Expire, requestVars
<1>9. CASE UNCHANGED vars
  BY <1>1, <1>9 DEF vars, requestVars
<1>10. QED
  BY <1>3, <1>4, <1>5, <1>6, <1>7, <1>8, <1>9 DEF Next, Arrive

\* At most MaxPending + 1 requests are inside execute(), and at most
\* MaxPending wait while one has the slot.
THEOREM QueueLimit == Spec => []QueueBounded
<1>1. Init => WithinLimit
  BY ExecutionAssumption DEF ExecutionAssumption, Init, WithinLimit
<1>2. Typed /\ WithinLimit /\ SlotExclusive => QueueBounded
  <2> SUFFICES ASSUME Typed, WithinLimit, SlotExclusive PROVE QueueBounded
    OBVIOUS
  <2>1. Cardinality(InFlight) <= MaxPending + 1
    BY DEF Typed, WithinLimit, PendingIsInFlight
  <2>2. ASSUME holder \in Request PROVE Cardinality(Waiting) <= MaxPending
    <3>1. holder \in InFlight /\ Waiting = InFlight \ {holder}
      BY <2>2 DEF SlotExclusive, InFlight, Waiting, Serving, InService
    <3>2. Cardinality(Waiting) = Cardinality(InFlight) - 1
      BY <3>1, InFlightFinite, FS_RemoveElement
    <3>3. QED
      BY <2>1, <3>2, InFlightFinite, ExecutionAssumption DEF ExecutionAssumption
  <2>3. QED  BY <2>1, <2>2 DEF QueueBounded
<1>3. QED  BY <1>1, <1>2, LimitStep, AdmissionCount, OneInference, PTL DEF Spec

(***************************************************************************)
(* The dashboard and the loaded alias while a request is served.           *)
(***************************************************************************)

Served == SlotExclusive /\ ServedTurnIsShown /\ RunsOnCurrentModel

\* What a request does to the dashboard and to current_model while it is
\* served concerns itself only.
LEMMA ServedRequestStep ==
  ASSUME Typed, Served, NEW r \in Request,
         \/ Arrive(r) \/ Wake(r) \/ Progress(r) \/ Stream(r) \/ WebCalls(r)
         \/ Interrupt(r)
  PROVE  (ServedTurnIsShown /\ RunsOnCurrentModel)'
<1> USE DEF Typed, TypeOK, Served, SlotExclusive, ServedTurnIsShown, RunsOnCurrentModel,
            InService, Serving, Shown
<1> USE ExecutionAssumption DEF ExecutionAssumption
<1>1. CASE Reject(r)
  BY <1>1 DEF Reject, modelVars
<1>2. CASE AdmitToQueue(r)
  BY <1>2 DEF AdmitToQueue, modelVars
<1>3. CASE AdmitToSlot(r)
  BY <1>3 DEF AdmitToSlot, Begin, TakeSlot, RefuseInSlot, LockFree, Started, modelVars
<1>4. CASE Wake(r)
  BY <1>4 DEF Wake, IsNext, Begin, TakeSlot, RefuseInSlot, Started, modelVars
<1>5. CASE ModelShown(r)
  BY <1>5 DEF ModelShown, Exchange, ShowPhase, modelVars
<1>6. CASE PreviousUnloaded(r)
  BY <1>6 DEF PreviousUnloaded, Exchange, ShowPhase
<1>7. CASE NextRound(r)
  BY <1>7 DEF NextRound, Exchange, ShowPhase
<1>8. CASE Stream(r)
  BY <1>8 DEF Stream, ShowPhase, requestVars, modelVars
<1>9. CASE WebCalls(r)
  BY <1>9 DEF WebCalls, ShowPhase, modelVars
<1>10. CASE pc[r] \in InService /\ UNCHANGED currentModel /\ \E o \in Outcome : Leave(r, o)
  BY <1>10 DEF Leave
<1>11. CASE Interrupt(r)
  <2>1. CASE pc[r] = "waiting"
    BY <1>11, <2>1 DEF Interrupt, modelVars
  <2>2. CASE pc[r] \in InService
    BY <1>10, <1>11, <2>2 DEF Interrupt, Outcome
  <2>3. QED  BY <1>11, <2>1, <2>2 DEF Interrupt
<1>12. CASE TransportFails(r) \/ ModelInvalid(r) \/ Crashes(r)
            \/ Complete(r) \/ FinalizationCrashes(r) \/ FinalizationInvalid(r)
  BY <1>10, <1>12
  DEF TransportFails, ModelInvalid, Crashes, Complete, FinalizationCrashes,
      FinalizationInvalid, Answerable, Outcome, modelVars
<1>13. QED
  BY <1>1, <1>2, <1>3, <1>4, <1>5, <1>6, <1>7, <1>8, <1>9, <1>11, <1>12
  DEF Arrive, Progress

\* Unloading changes current_model only with the lock, when nothing is served.
LEMMA ServedUnloadStep ==
  ASSUME Typed, Served,
         \/ \E requireIdle \in BOOLEAN : UnloadAtOnce(requireIdle) \/ UnloadQueues(requireIdle)
         \/ Unloading \/ UnloadCancelled \/ Expire
  PROVE  (ServedTurnIsShown /\ RunsOnCurrentModel)'
<1> USE DEF Typed, TypeOK, Served, SlotExclusive, ServedTurnIsShown, RunsOnCurrentModel,
            InService, Serving
<1>1. UNCHANGED <<pc, telemetry>>
  BY DEF UnloadAtOnce, UnloadQueues, Unloading, UnloadWakes, Listed, Posted, Paused,
         UnloadCancelled, Expire, requestVars
<1>2. CASE Listed
  BY <1>1, <1>2, ExecutionAssumption DEF Listed, ExecutionAssumption
<1>3. CASE UNCHANGED currentModel
  BY <1>1, <1>3
<1>4. QED
  BY <1>2, <1>3
  DEF UnloadAtOnce, UnloadQueues, Unloading, UnloadWakes, Posted, Paused,
      UnloadCancelled, Expire, modelVars

\* The dashboard shows the visible turn in the slot, and the slot runs on the
\* alias the router believes is loaded.
THEOREM ServedRequest == Spec => [](ServedTurnIsShown /\ RunsOnCurrentModel)
<1>1. Init => Served
  BY ExecutionAssumption
  DEF ExecutionAssumption, Init, Served, SlotExclusive, ServedTurnIsShown,
      RunsOnCurrentModel, Serving, InService, NotUnloading, UnloadState
<1>2. Typed /\ Served /\ [Next]_vars => (ServedTurnIsShown /\ RunsOnCurrentModel)'
  <2>1. Served /\ UNCHANGED vars => (ServedTurnIsShown /\ RunsOnCurrentModel)'
    BY DEF Served, ServedTurnIsShown, RunsOnCurrentModel, Serving, InService, vars,
           requestVars, modelVars
  <2>2. QED  BY <2>1, ServedRequestStep, ServedUnloadStep DEF Next
<1>3. Served <=> SlotExclusive /\ ServedTurnIsShown /\ RunsOnCurrentModel
  BY DEF Served
<1>4. QED  BY <1>1, <1>2, <1>3, AdmissionCount, OneInference, PTL DEF Spec

(***************************************************************************)
(* The aliases in memory, when no call that unloads one fails.             *)
(***************************************************************************)

\* Whatever Ollama has loaded is the alias the router believes is loaded, also
\* while a switch waits for the old one to go and after a cancelled unload.
LoadedIsCurrent == resident \subseteq {currentModel}

\* A request loads its alias only where no other one is: nothing was loaded, or
\* the previous alias has just gone, or it goes on with its own.
LEMMA ResidentRequestStep ==
  ASSUME ~OllamaFaults, Typed, Served, LoadedIsCurrent, NEW r \in Request,
         \/ Arrive(r) \/ Wake(r) \/ Progress(r) \/ Stream(r) \/ WebCalls(r)
         \/ Interrupt(r)
  PROVE  LoadedIsCurrent'
<1> USE DEF LoadedIsCurrent
<1>1. Route[r] \in Model /\ resident \subseteq Model
  BY ExecutionAssumption DEF Typed, TypeOK
<1>2. CASE ModelShown(r)
  <2>1. CASE currentModel \in Model \ {Route[r]}
    BY <1>2, <2>1 DEF ModelShown, modelVars
  <2>2. CASE currentModel \notin Model \ {Route[r]}
    <3>1. currentModel' = Route[r] /\ resident' = resident \cup {Route[r]}
      BY <1>2, <2>2 DEF ModelShown, Exchange
    <3>2. resident \subseteq {Route[r]}
      BY <1>1, <2>2
    <3> QED BY <3>1, <3>2
  <2> QED BY <2>1, <2>2
<1>3. CASE PreviousUnloaded(r)
  BY <1>3 DEF PreviousUnloaded, Exchange
<1>4. CASE NextRound(r)
  <2>1. currentModel' = currentModel /\ resident' = resident \cup {Route[r]} /\ pc[r] = "searching"
    BY <1>4 DEF NextRound, Exchange
  <2>2. currentModel = Route[r]
    BY <2>1 DEF Served, RunsOnCurrentModel
  <2> QED BY <2>1, <2>2
<1>5. CASE Interrupt(r)
  <2>1. currentModel' = currentModel /\ resident' \subseteq resident
    BY <1>5 DEF Interrupt, modelVars
  <2> QED BY <2>1
<1>6. CASE \/ Arrive(r) \/ Wake(r) \/ TransportFails(r) \/ ModelInvalid(r) \/ Crashes(r)
           \/ Complete(r) \/ FinalizationCrashes(r) \/ FinalizationInvalid(r) \/ Stream(r) \/ WebCalls(r)
  BY <1>6
  DEF Arrive, Reject, AdmitToQueue, AdmitToSlot, Wake, TransportFails, ModelInvalid, Crashes,
      Complete, FinalizationCrashes, FinalizationInvalid, Stream, WebCalls, modelVars
<1> QED BY <1>2, <1>3, <1>4, <1>5, <1>6 DEF Progress

\* The unload and Ollama itself only take aliases out; current_model is cleared
\* when none is left.
LEMMA ResidentUnloadStep ==
  ASSUME ~OllamaFaults, LoadedIsCurrent,
         \/ \E requireIdle \in BOOLEAN : UnloadAtOnce(requireIdle) \/ UnloadQueues(requireIdle)
         \/ Unloading \/ UnloadCancelled \/ Expire \/ UNCHANGED vars
  PROVE  LoadedIsCurrent'
<1> USE DEF LoadedIsCurrent
<1>1. CASE Listed
  BY <1>1 DEF Listed
<1>2. CASE Posted
  BY <1>2 DEF Posted
<1>3. CASE Expire
  BY <1>3 DEF Expire
<1>4. CASE \/ \E requireIdle \in BOOLEAN : UnloadAtOnce(requireIdle) \/ UnloadQueues(requireIdle)
           \/ UnloadWakes \/ Paused \/ UnloadCancelled \/ UNCHANGED vars
  BY <1>4 DEF UnloadAtOnce, UnloadQueues, UnloadWakes, Paused, UnloadCancelled, vars, modelVars
<1> QED BY <1>1, <1>2, <1>3, <1>4 DEF Unloading

\* Model switching keeps one managed alias in memory as long as no call that
\* unloads one fails; with such a failure, which the code logs and forgets, two
\* stay (ModelShown and PreviousUnloaded are where it bites).
THEOREM OneModelWithoutFaults == ~OllamaFaults /\ Spec => []OneModelResident
<1> SUFFICES ASSUME ~OllamaFaults PROVE Spec => []OneModelResident
  OBVIOUS
<1>1. Init => LoadedIsCurrent
  BY DEF Init, LoadedIsCurrent
<1>2. Typed /\ Served /\ LoadedIsCurrent /\ [Next]_vars => LoadedIsCurrent'
  BY ResidentRequestStep, ResidentUnloadStep DEF Next
<1>3. LoadedIsCurrent => OneModelResident
  <2> SUFFICES ASSUME LoadedIsCurrent PROVE Cardinality(resident) <= 1
    BY DEF OneModelResident
  <2>1. IsFiniteSet({currentModel}) /\ Cardinality({currentModel}) = 1
    BY FS_Singleton, Zenon
  <2>2. Cardinality(resident) \in Nat /\ Cardinality(resident) <= Cardinality({currentModel})
    BY <2>1, FS_Subset, FS_CardinalityType DEF LoadedIsCurrent
  <2> QED BY <2>1, <2>2
<1>4. Served <=> SlotExclusive /\ ServedTurnIsShown /\ RunsOnCurrentModel
  BY DEF Served
<1> QED BY <1>1, <1>2, <1>3, <1>4, AdmissionCount, OneInference, ServedRequest, PTL DEF Spec

(***************************************************************************)
(* Usage, stored responses, answers and the active turn.                   *)
(***************************************************************************)

\* Nothing is written for a request before its answer is decided.
NothingYet ==
  \A r \in Request :
    pc[r] # "done" => usage[r] = 0 /\ r \notin stored /\ answer[r] = "none"
\* A title request never becomes the turn on the dashboard.
VisibleTurn ==
  /\ telemetry.turn \notin Title
  /\ telemetry.active => telemetry.turn \in Request
Settled == NothingYet /\ AnswerMatchesBooks /\ VisibleTurn /\ ActiveTurnInSlot

\* Whatever a request does, its books are written together with its answer.
LEMMA SettledRequestStep ==
  ASSUME Typed, Served, Settled, NEW r \in Request,
         \/ Arrive(r) \/ Wake(r) \/ Progress(r) \/ Stream(r) \/ WebCalls(r)
         \/ Interrupt(r)
  PROVE  Settled'
<1> USE DEF Typed, TypeOK, Served, SlotExclusive, ServedTurnIsShown, Settled, NothingYet,
            AnswerMatchesBooks, VisibleTurn, ActiveTurnInSlot, InService, Serving, Shown
<1> USE ExecutionAssumption DEF ExecutionAssumption
<1>1. CASE Reject(r)
  BY <1>1 DEF Reject, lockVars, bookVars
<1>2. CASE AdmitToQueue(r)
  BY <1>2 DEF AdmitToQueue, bookVars
<1>3. CASE AdmitToSlot(r)
  BY <1>3 DEF AdmitToSlot, Begin, TakeSlot, RefuseInSlot, LockFree, Started, Failed, Ended, bookVars
<1>4. CASE Wake(r)
  BY <1>4 DEF Wake, IsNext, Begin, TakeSlot, RefuseInSlot, Started, Failed, Ended, bookVars
<1>5. CASE ModelShown(r)
  BY <1>5 DEF ModelShown, Exchange, ShowPhase, lockVars, bookVars
<1>6. CASE PreviousUnloaded(r)
  BY <1>6 DEF PreviousUnloaded, Exchange, ShowPhase, lockVars, bookVars
<1>7. CASE NextRound(r)
  BY <1>7 DEF NextRound, Exchange, ShowPhase, lockVars, bookVars
<1>8. CASE Stream(r)
  BY <1>8 DEF Stream, ShowPhase, requestVars, lockVars, bookVars
<1>9. CASE WebCalls(r)
  BY <1>9 DEF WebCalls, ShowPhase, lockVars, bookVars
<1>10. CASE Interrupt(r)
  <2>1. CASE pc[r] = "waiting"
    BY <1>10, <2>1 DEF Interrupt, bookVars
  <2>2. CASE pc[r] \in InService
    BY <1>10, <2>2 DEF Interrupt, Leave, Failed, Ended, bookVars
  <2>3. QED  BY <1>10, <2>1, <2>2 DEF Interrupt
<1>11. CASE TransportFails(r)
  BY <1>11 DEF TransportFails, Leave, FailIfShown, Failed, Ended, bookVars
<1>12. CASE ModelInvalid(r)
  BY <1>12 DEF ModelInvalid, Leave, Failed, Ended, Outcome, bookVars
<1>13. CASE Crashes(r)
  BY <1>13 DEF Crashes, Leave, bookVars
<1>14. CASE Complete(r)
  BY <1>14 DEF Complete, Answerable, Record, CompleteIfShown, Completed, Ended, Leave
<1>15. CASE FinalizationCrashes(r)
  BY <1>15
  DEF FinalizationCrashes, Answerable, Record, CompleteIfShown, Completed, Ended, Leave
<1>16. CASE FinalizationInvalid(r)
  BY <1>16 DEF FinalizationInvalid, Answerable, Record, Failed, Ended, Leave, bookVars
<1>17. QED
  BY <1>1, <1>2, <1>3, <1>4, <1>5, <1>6, <1>7, <1>8, <1>9, <1>10, <1>11, <1>12, <1>13,
     <1>14, <1>15, <1>16
  DEF Arrive, Progress

\* The unload and Ollama's expiry touch neither books nor dashboard.
LEMMA SettledUnloadStep ==
  ASSUME Typed, Served, Settled,
         \/ \E requireIdle \in BOOLEAN : UnloadAtOnce(requireIdle) \/ UnloadQueues(requireIdle)
         \/ Unloading \/ UnloadCancelled \/ Expire
  PROVE  Settled'
<1> USE DEF Typed, TypeOK, Served, SlotExclusive, Settled, NothingYet, AnswerMatchesBooks,
            VisibleTurn, ActiveTurnInSlot
<1> USE ExecutionAssumption DEF ExecutionAssumption
<1>1. UNCHANGED <<requestVars, telemetry, bookVars>>
  BY DEF UnloadAtOnce, UnloadQueues, Unloading, UnloadWakes, Listed, Posted, Paused,
         UnloadCancelled, Expire
<1>2. holder \in Request => holder' = holder
  <2> SUFFICES ASSUME holder \in Request PROVE holder' = holder
    OBVIOUS
  <2>1. unload.at \notin {"listing", "posting", "pausing"} /\ ~LockFree
        /\ ~IsNext(Unloader)
    BY DEF LockFree, IsNext
  <2>2. QED
    BY <2>1
    DEF UnloadAtOnce, UnloadQueues, Unloading, UnloadWakes, Listed, Posted, Paused,
        UnloadCancelled, Expire, lockVars
<1>3. QED  BY <1>1, <1>2 DEF requestVars, bookVars

\* The inductive invariant behind BooksAgree.
LEMMA AlwaysSettled == Spec => []Settled
<1>1. Init => Settled
  BY ExecutionAssumption
  DEF ExecutionAssumption, Init, Settled, NothingYet, AnswerMatchesBooks, VisibleTurn,
      ActiveTurnInSlot
<1>2. Typed /\ Served /\ Settled /\ [Next]_vars => Settled'
  <2>1. Settled /\ UNCHANGED vars => Settled'
    BY DEF Settled, NothingYet, AnswerMatchesBooks, VisibleTurn, ActiveTurnInSlot, vars,
           requestVars, lockVars, bookVars
  <2>2. QED  BY <2>1, SettledRequestStep, SettledUnloadStep DEF Next
<1>3. Served <=> SlotExclusive /\ ServedTurnIsShown /\ RunsOnCurrentModel
  BY DEF Served
<1>4. QED
  BY <1>1, <1>2, <1>3, AdmissionCount, OneInference, ServedRequest, PTL DEF Spec

\* Usage, stored responses and answers agree, whatever happens to a request,
\* and only an exception execute() does not name leaves an active turn on the
\* dashboard without the slot.
THEOREM BooksAgree == Spec => [](AnswerMatchesBooks /\ ActiveTurnInSlot)
<1>1. Settled => AnswerMatchesBooks /\ ActiveTurnInSlot
  BY DEF Settled
<1>2. QED  BY <1>1, AlwaysSettled, PTL

(***************************************************************************)
(* The order of the queue.                                                 *)
(***************************************************************************)

\* A step leaves the queue alone, puts one actor at its end or takes one out.
LEMMA QueueMoves ==
  ASSUME Typed, [Next]_vars
  PROVE  \/ Queue' = Queue /\ ahead' = ahead
         \/ \E a \in Actor \ Queue : Queue' = Queue \cup {a} /\ Enqueue(a)
         \/ \E a \in Queue : Queue' = Queue \ {a} /\ Dequeue(a)
<1> USE DEF Typed, TypeOK, Queue, Waiting, Actor, InService
<1> USE ExecutionAssumption DEF ExecutionAssumption
<1> DEFINE Goal == \/ Queue' = Queue /\ ahead' = ahead
                   \/ \E a \in Actor \ Queue : Queue' = Queue \cup {a} /\ Enqueue(a)
                   \/ \E a \in Queue : Queue' = Queue \ {a} /\ Dequeue(a)
<1>1. ASSUME NEW r \in Request, AdmitToQueue(r) PROVE Goal
  <2>1. r \in Actor \ Queue /\ Queue' = Queue \cup {r} /\ Enqueue(r)
    BY <1>1 DEF AdmitToQueue
  <2>2. QED  BY <2>1, Zenon
<1>2. ASSUME NEW r \in Request, AdmitToSlot(r) PROVE Goal
  <2>1. Queue' = Queue /\ ahead' = ahead
    BY <1>2 DEF AdmitToSlot, Begin, TakeSlot, RefuseInSlot
  <2>2. QED  BY <2>1, Zenon
<1>3. ASSUME NEW r \in Request, Wake(r) PROVE Goal
  <2>1. r \in Queue /\ Queue' = Queue \ {r} /\ Dequeue(r)
    BY <1>3 DEF Wake, Begin, TakeSlot, RefuseInSlot
  <2>2. QED  BY <2>1, Zenon
<1>4. ASSUME NEW r \in Request, Interrupt(r) PROVE Goal
  <2>1. CASE pc[r] = "waiting"
    <3>1. r \in Queue /\ Queue' = Queue \ {r} /\ Dequeue(r)
      BY <1>4, <2>1 DEF Interrupt
    <3>2. QED  BY <3>1, Zenon
  <2>2. CASE pc[r] \in InService
    <3>1. Queue' = Queue /\ ahead' = ahead
      BY <1>4, <2>2 DEF Interrupt, Leave
    <3>2. QED  BY <3>1, Zenon
  <2>3. QED  BY <1>4, <2>1, <2>2 DEF Interrupt
<1>5. ASSUME NEW r \in Request, Reject(r) \/ Progress(r) \/ Stream(r) \/ WebCalls(r)
      PROVE  Goal
  <2>1. Queue' = Queue /\ ahead' = ahead
    BY <1>5
    DEF Reject, Progress, Stream, WebCalls, ModelShown, PreviousUnloaded, NextRound,
        Exchange, TransportFails, ModelInvalid, Crashes, Complete,
        FinalizationCrashes, FinalizationInvalid, Answerable, Leave, requestVars, lockVars
  <2>2. QED  BY <2>1, Zenon
<1>6. ASSUME NEW i \in BOOLEAN, UnloadQueues(i) PROVE Goal
  <2>1. Unloader \in Actor \ Queue /\ Queue' = Queue \cup {Unloader} /\ Enqueue(Unloader)
    BY <1>6 DEF UnloadQueues, UnloadState, requestVars
  <2>2. QED  BY <2>1, Zenon
<1>7. ASSUME NEW i \in BOOLEAN, EnterUnload(i) PROVE unload'.at \in {"idle", "listing"}
  <2>1. \/ unload' = NotUnloading
        \/ unload' = UnloadState("listing", FALSE, 1, Model, {})
    BY <1>7, Zenon DEF EnterUnload, UnloadEnds
  <2>2. QED  BY <2>1 DEF NotUnloading, UnloadState
<1>8. ASSUME NEW i \in BOOLEAN, UnloadAtOnce(i) PROVE Goal
  <2>1. Queue' = Queue /\ ahead' = ahead
    BY <1>7, <1>8 DEF UnloadAtOnce, requestVars
  <2>2. QED  BY <2>1, Zenon
<1>9. CASE UnloadWakes
  <2>1. Unloader \in Queue /\ Queue' = Queue \ {Unloader} /\ Dequeue(Unloader)
    BY <1>7, <1>9 DEF UnloadWakes, requestVars
  <2>2. QED  BY <2>1, Zenon
<1>10. CASE UnloadCancelled
  <2>1. CASE unload.at = "waiting"
    <3>1. Unloader \in Queue /\ Queue' = Queue \ {Unloader} /\ Dequeue(Unloader)
      BY <1>10, <2>1
      DEF UnloadCancelled, UnloadEnds, NotUnloading, UnloadState, requestVars
    <3>2. QED  BY <3>1, Zenon
  <2>2. CASE unload.at # "waiting"
    <3>1. Queue' = Queue /\ ahead' = ahead
      BY <1>10, <2>2
      DEF UnloadCancelled, UnloadEnds, NotUnloading, UnloadState, requestVars
    <3>2. QED  BY <3>1, Zenon
  <2>3. QED  BY <2>1, <2>2
<1>11. CASE Listed \/ Posted \/ Paused \/ Expire \/ UNCHANGED vars
  <2>1. Queue' = Queue /\ ahead' = ahead
    BY <1>11
    DEF Listed, Posted, Paused, Expire, UnloadEnds, NotUnloading, UnloadState, vars,
        requestVars, lockVars
  <2>2. QED  BY <2>1, Zenon
<1>12. QED
  BY <1>1, <1>2, <1>3, <1>4, <1>5, <1>6, <1>8, <1>9, <1>10, <1>11
  DEF Next, Arrive, Unloading

\* The queue stays one line, also when a waiter in the middle is cancelled.
THEOREM QueueInOrder == Spec => []QueueIsOrdered
<1>1. Init => QueueIsOrdered
  BY DEF Init, QueueIsOrdered, Queue, Waiting, NotUnloading, UnloadState
<1>2. Typed /\ QueueIsOrdered /\ [Next]_vars => QueueIsOrdered'
  <2> SUFFICES ASSUME Typed, QueueIsOrdered, [Next]_vars PROVE QueueIsOrdered'
    OBVIOUS
  <2>1. ahead \in [Actor -> SUBSET Actor] /\ Queue \subseteq Actor
    BY DEF Typed, TypeOK, Queue, Waiting, Actor
  <2>2. CASE Queue' = Queue /\ ahead' = ahead
    BY <2>2, Zenon DEF QueueIsOrdered
  <2>3. ASSUME NEW a \in Actor \ Queue, Queue' = Queue \cup {a}, Enqueue(a)
        PROVE  QueueIsOrdered'
    BY <2>1, <2>3 DEF QueueIsOrdered, Enqueue
  <2>4. ASSUME NEW a \in Queue, Queue' = Queue \ {a}, Dequeue(a)
        PROVE  QueueIsOrdered'
    BY <2>1, <2>4 DEF QueueIsOrdered, Dequeue
  <2>5. QED  BY <2>2, <2>3, <2>4, QueueMoves
<1>3. QED  BY <1>1, <1>2, AdmissionCount, PTL DEF Spec

\* The lock goes to the first in the line only.
THEOREM FirstComeFirstServed == Spec => NoOvertaking
<1> DEFINE Handover == \A a \in Queue, b \in Actor :
                         a # b /\ holder' = b /\ holder # b => b \in Queue /\ a \notin ahead[b]
<1>1. Typed /\ [Next]_vars => Handover
  <2> SUFFICES ASSUME Typed, [Next]_vars, NEW a \in Queue, NEW b \in Actor, a # b,
                      holder' = b, holder # b
               PROVE  b \in Queue /\ a \notin ahead[b]
    OBVIOUS
  <2> USE ExecutionAssumption DEF ExecutionAssumption, Typed, TypeOK, Actor
  <2>1. ASSUME NEW r \in Request, Arrive(r) PROVE FALSE
    BY <2>1
    DEF Arrive, Reject, AdmitToQueue, AdmitToSlot, LockFree, Begin, TakeSlot,
        RefuseInSlot, lockVars
  <2>2. ASSUME NEW r \in Request, Wake(r) PROVE IsNext(b)
    BY <2>2 DEF Wake, IsNext, Begin, TakeSlot, RefuseInSlot
  <2>3. ASSUME NEW r \in Request, Progress(r) \/ Stream(r) \/ WebCalls(r) \/ Interrupt(r)
        PROVE  FALSE
    BY <2>3
    DEF Progress, Stream, WebCalls, Interrupt, ModelShown, PreviousUnloaded, NextRound,
        TransportFails, ModelInvalid, Crashes, Complete, FinalizationCrashes,
        FinalizationInvalid, Leave, lockVars
  <2>4. ASSUME NEW i \in BOOLEAN, EnterUnload(i) PROVE holder' = holder \/ holder' = Unloader
    BY <2>4, Zenon DEF EnterUnload
  <2>5. ASSUME NEW i \in BOOLEAN, UnloadAtOnce(i) \/ UnloadQueues(i) PROVE FALSE
    BY <2>5 DEF UnloadAtOnce, UnloadQueues, LockFree
  <2>6. CASE UnloadWakes
    <3>1. holder' = holder \/ holder' = Unloader
      BY <2>4, <2>6 DEF UnloadWakes
    <3>2. IsNext(b)
      BY <2>6, <3>1 DEF UnloadWakes
    <3>3. QED  BY <3>2 DEF IsNext
  <2>7. CASE Listed \/ Posted \/ Paused \/ UnloadCancelled \/ Expire \/ UNCHANGED vars
    BY <2>7 DEF Listed, Posted, Paused, UnloadCancelled, Expire, vars, lockVars
  <2>8. QED
    BY <2>1, <2>2, <2>3, <2>5, <2>6, <2>7 DEF Next, Unloading, IsNext
<1>2. QED  BY <1>1, AdmissionCount, PTL DEF Spec, NoOvertaking

(***************************************************************************)
(* The implementation of the promise.                                      *)
(***************************************************************************)

\* What the stages of the abstract service are in terms of the code.
LEMMA Stages ==
  ASSUME Typed, SlotExclusive
  PROVE  /\ Promise!Inside = InFlight
         /\ Promise!SlotFree <=> holder \notin Request
BY DEF Typed, TypeOK, SlotExclusive, Promise!Inside, Promise!SlotFree, StageOf, InFlight,
       Waiting, Serving, InService

\* The Cardinality the instance of the abstract service brings is the library's.
LEMMA SameCardinality == \A S : Promise!Cardinality(S) = Cardinality(S)
BY DEF Promise!Cardinality, Cardinality

\* A step of a request is one step of the abstract service, or none.
LEMMA PromiseRequestStep ==
  ASSUME Typed, SlotExclusive, NothingYet, NEW r \in Request,
         \/ Arrive(r) \/ Wake(r) \/ Progress(r) \/ Stream(r) \/ WebCalls(r)
         \/ Interrupt(r)
  PROVE  \/ Promise!TurnAway(r) \/ Promise!Admit(r) \/ Promise!Activate(r)
         \/ Promise!Answer(r)
         \/ \A q \in Request : StageOf(q)' = StageOf(q)
<1> DEFINE stage == [q \in Request |-> StageOf(q)]
           Becomes(s) == stage' = [stage EXCEPT ![r] = s]
<1> USE DEF Typed, TypeOK, InService, Full
<1> USE ExecutionAssumption DEF ExecutionAssumption
<1>1. ASSUME NEW p \in {"waiting"} \cup InService, pc' = [pc EXCEPT ![r] = p],
             \A q \in Request : q # r => answer'[q] = answer[q]
      PROVE  Becomes(IF p = "waiting" THEN "waiting" ELSE "active")
  BY <1>1 DEF StageOf
<1>2. ASSUME NEW o \in Outcome, pc' = [pc EXCEPT ![r] = "done"],
             answer' = [answer EXCEPT ![r] = o]
      PROVE  Becomes(IF o = "tooMany" THEN "turnedAway" ELSE "answered")
  BY <1>2 DEF StageOf
<1>3. pending = Cardinality(Promise!Inside) /\ (Promise!SlotFree <=> holder \notin Request)
  BY Stages DEF PendingIsInFlight
<1>4. CASE Reject(r)
  <2>1. Becomes("turnedAway")
    BY <1>2, <1>4 DEF Reject, Outcome
  <2>2. stage[r] = "new"
    BY <1>4 DEF Reject, StageOf
  <2>3. Cardinality(Promise!Inside) >= MaxPending + 1
    BY <1>3, <1>4 DEF Reject
  <2>4. QED  BY <2>1, <2>2, <2>3, SameCardinality, Zenon DEF Promise!TurnAway
<1>5. CASE AdmitToQueue(r)
  <2>1. Becomes("waiting")
    BY <1>1, <1>5 DEF AdmitToQueue
  <2>2. stage[r] = "new"
    BY <1>5 DEF AdmitToQueue, StageOf
  <2>3. Cardinality(Promise!Inside) < MaxPending + 1
    BY <1>3, <1>5 DEF AdmitToQueue
  <2>4. QED  BY <2>1, <2>2, <2>3, SameCardinality, Zenon DEF Promise!Admit
<1>6. ASSUME NEW n, Begin(r, n) PROVE Becomes("active") \/ Becomes("answered")
  <2>1. CASE TakeSlot(r, n)
    BY <1>1, <2>1 DEF TakeSlot
  <2>2. CASE RefuseInSlot(r, n)
    BY <1>2, <2>2 DEF RefuseInSlot, Outcome
  <2>3. QED  BY <1>6, <2>1, <2>2 DEF Begin
<1>7. CASE AdmitToSlot(r)
  <2>1. Becomes("active") \/ Becomes("answered")
    BY <1>6, <1>7 DEF AdmitToSlot
  <2>2. stage[r] = "new" /\ holder \notin Request /\ pending < MaxPending + 1
    BY <1>7 DEF AdmitToSlot, LockFree, StageOf
  <2>3. Cardinality(Promise!Inside) < MaxPending + 1 /\ Promise!SlotFree
    BY <1>3, <2>2
  <2>4. QED  BY <2>1, <2>2, <2>3, SameCardinality, Zenon DEF Promise!Admit
<1>8. CASE Wake(r)
  <2>1. Becomes("active") \/ Becomes("answered")
    BY <1>6, <1>8 DEF Wake
  <2>2. stage[r] = "waiting" /\ holder \notin Request
    BY <1>8 DEF Wake, IsNext, StageOf
  <2>3. QED  BY <1>3, <2>1, <2>2 DEF Promise!Activate, Promise!Answer
<1>9. ASSUME pc[r] \in {"waiting"} \cup InService, pc' = [pc EXCEPT ![r] = "done"],
             NEW o \in Outcome \ {"tooMany"}, answer' = [answer EXCEPT ![r] = o]
      PROVE  Promise!Answer(r)
  <2>1. Becomes("answered")
    BY <1>2, <1>9 DEF Outcome
  <2>2. stage[r] \in {"waiting", "active"}
    BY <1>9 DEF StageOf
  <2>3. QED  BY <2>1, <2>2 DEF Promise!Answer
<1>10. CASE Interrupt(r)
  BY <1>9, <1>10 DEF Interrupt, Leave, Outcome
<1>11. CASE TransportFails(r) \/ ModelInvalid(r) \/ Crashes(r) \/ Complete(r)
            \/ FinalizationCrashes(r) \/ FinalizationInvalid(r)
  BY <1>9, <1>11
  DEF TransportFails, ModelInvalid, Crashes, Complete, FinalizationCrashes,
      FinalizationInvalid, Answerable, Leave, Outcome
<1>12. CASE ModelShown(r) \/ PreviousUnloaded(r) \/ NextRound(r) \/ Stream(r) \/ WebCalls(r)
  BY <1>12
  DEF ModelShown, PreviousUnloaded, NextRound, Stream, WebCalls, Exchange, StageOf,
      requestVars
<1>13. QED
  BY <1>4, <1>5, <1>7, <1>8, <1>10, <1>11, <1>12 DEF Arrive, Progress

\* The unload is invisible to the abstract service.
LEMMA PromiseUnloadStep ==
  ASSUME \/ \E requireIdle \in BOOLEAN : UnloadAtOnce(requireIdle) \/ UnloadQueues(requireIdle)
         \/ Unloading \/ UnloadCancelled \/ Expire \/ UNCHANGED vars
  PROVE  \A q \in Request : StageOf(q)' = StageOf(q)
<1>1. UNCHANGED requestVars
  BY DEF UnloadAtOnce, UnloadQueues, Unloading, UnloadWakes, Listed, Posted, Paused,
         UnloadCancelled, Expire, vars
<1>2. QED  BY <1>1 DEF StageOf, requestVars

\* The router keeps the promise to its clients: one active request, a bounded
\* number inside, one answer for each, and 429 only when it is full.
THEOREM KeepsPromise == Spec => ImplementsPromise
<1>1. Init => Promise!Init
  BY DEF Init, Promise!Init, StageOf, InService
<1>2. Typed /\ SlotExclusive /\ Settled /\ [Next]_vars => [Promise!Next]_[r \in Request |-> StageOf(r)]
  <2> SUFFICES ASSUME Typed, SlotExclusive, NothingYet, [Next]_vars
               PROVE  [Promise!Next]_[r \in Request |-> StageOf(r)]
    BY DEF Settled
  <2>1. ASSUME NEW q \in Request,
               \/ Arrive(q) \/ Wake(q) \/ Progress(q) \/ Stream(q) \/ WebCalls(q)
               \/ Interrupt(q)
        PROVE  [Promise!Next]_[r \in Request |-> StageOf(r)]
    BY <2>1, PromiseRequestStep DEF Promise!Next
  <2>2. ASSUME \/ \E requireIdle \in BOOLEAN : UnloadAtOnce(requireIdle) \/ UnloadQueues(requireIdle)
               \/ Unloading \/ UnloadCancelled \/ Expire \/ UNCHANGED vars
        PROVE  [Promise!Next]_[r \in Request |-> StageOf(r)]
    BY <2>2, PromiseUnloadStep, Zenon
  <2>3. QED  BY <2>1, <2>2 DEF Next
<1>3. QED
  BY <1>1, <1>2, AdmissionCount, OneInference, AlwaysSettled, PTL
  DEF Spec, ImplementsPromise, Promise!Spec
=============================================================================
