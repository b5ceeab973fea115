----------------------------- MODULE Execution -----------------------------
(***************************************************************************)
(* The inference path of the router (local_codex/service.py) together with *)
(* everything that takes Runtime.inference_lock (local_codex/runtime.py):  *)
(* admission, the FIFO lock, the model switch, the local web rounds, the   *)
(* deadline and the disconnect, the finalisation of usage, telemetry and   *)
(* the stored response, and the coroutine that unloads the models.         *)
(*                                                                         *)
(* One action is one run of the event loop between two awaits: what Python *)
(* executes without suspending is one step here.  asyncio.Lock is FIFO; the *)
(* queue is kept as `ahead`, for each waiter the set of those before it.    *)
(***************************************************************************)
EXTENDS Integers, FiniteSets

CONSTANTS
  Request,       \* POST /v1/responses requests, each sent once
  Title,         \* those that are Codex's hidden title requests
  Model,         \* the managed LocalCodex aliases
  Route,         \* Route[r]: the alias TurnRouter.choose picks for r
  MaxPending,    \* settings.max_pending_requests (8 in the code)
  MaxRounds,     \* local web rounds of one request (4 in the code)
  MaxAttempts,   \* unload attempts of unload_local_models (3 in the code)
  OllamaFaults,  \* may a call that unloads a model fail?
  Unloader,      \* the task that runs unload_local_models
  NoOne, NoModel \* None

ASSUME ExecutionAssumption ==
  /\ IsFiniteSet(Request) /\ Title \subseteq Request
  /\ Route \in [Request -> Model]
  /\ MaxPending \in Nat /\ MaxRounds \in Nat \ {0} /\ MaxAttempts \in Nat \ {0}
  /\ OllamaFaults \in BOOLEAN
  /\ Unloader \notin Request /\ NoOne \notin Request /\ NoOne # Unloader
  /\ NoModel \notin Model

VARIABLES
  pc,            \* pc[r]: the await at which the task of request r is suspended
  round,         \* round[r]: upstream exchanges begun for r
  answer,        \* answer[r]: the HTTP outcome, by name
  pending,       \* runtime.pending_requests
  holder,        \* who owns runtime.inference_lock
  ahead,         \* ahead[a]: the waiters of the lock in front of waiter a
  telemetry,     \* TelemetryHub._state: is a turn active, its phase, whose turn
  usage,         \* usage[r]: rows UsageStore.record wrote for r
  stored,        \* requests whose response was put into the ResponseStateStore
  currentModel,  \* runtime.current_model
  resident,      \* managed aliases Ollama has loaded (GET /api/ps)
  unload         \* the state of the unload coroutine

requestVars == <<pc, round, answer, pending>>
lockVars    == <<holder, ahead>>
bookVars    == <<usage, stored>>
modelVars   == <<currentModel, resident>>
vars == <<requestVars, lockVars, telemetry, bookVars, modelVars, unload>>

Actor == Request \cup {Unloader}

InService == {"showing", "unloading", "inferring", "searching"}
\* "invalid" is the 400 of execute()'s (ValueError, TypeError), whatever raised
\* it; "failed" stands for the other failures execute() names: 409, 502, 504, the
\* status of Ollama and the closed connection; "internal" for an exception it
\* lets through.
Outcome   == {"none", "ok", "tooMany", "failed", "invalid", "internal"}

Waiting  == {r \in Request : pc[r] = "waiting"}
Serving  == {r \in Request : pc[r] \in InService}
InFlight == Waiting \cup Serving

UnloadState(at, requireIdle, attempt, remaining, todo) ==
  [at |-> at, requireIdle |-> requireIdle, attempt |-> attempt,
   remaining |-> remaining, todo |-> todo]
NotUnloading == UnloadState("idle", FALSE, 0, {}, {})
Queue == Waiting \cup (IF unload.at = "waiting" THEN {Unloader} ELSE {})

TypeOK ==
  /\ pc \in [Request -> {"new", "waiting", "done"} \cup InService]
  /\ round \in [Request -> 0..MaxRounds]
  /\ answer \in [Request -> Outcome]
  /\ pending \in Nat
  /\ holder \in Actor \cup {NoOne}
  /\ ahead \in [Actor -> SUBSET Actor]
  /\ telemetry \in [active : BOOLEAN, turn : Request \cup {NoOne},
                    phase : {"idle", "loading", "thinking", "generating", "tool",
                             "completed", "error"}]
  /\ usage \in [Request -> Nat]
  /\ stored \subseteq Request
  /\ currentModel \in Model \cup {NoModel}
  /\ resident \subseteq Model
  /\ unload \in [at : {"idle", "waiting", "listing", "posting", "pausing"},
                 requireIdle : BOOLEAN, attempt : 0..MaxAttempts,
                 remaining : SUBSET Model, todo : SUBSET Model]

Init ==
  /\ pc = [r \in Request |-> "new"]
  /\ round = [r \in Request |-> 0]
  /\ answer = [r \in Request |-> "none"]
  /\ pending = 0
  /\ holder = NoOne
  /\ ahead = [a \in Actor |-> {}]
  /\ telemetry = [active |-> FALSE, turn |-> NoOne, phase |-> "idle"]
  /\ usage = [r \in Request |-> 0]
  /\ stored = {}
  /\ currentModel = NoModel
  /\ resident = {}
  /\ unload = NotUnloading

-----------------------------------------------------------------------------
(* The telemetry hub.                                                      *)

Started(r) == [active |-> TRUE, turn |-> r, phase |-> "loading"]
Ended(phase) == [active |-> FALSE, turn |-> telemetry.turn, phase |-> phase]
Failed     == Ended("error")
Completed  == Ended("completed")

Shown(r) == r \notin Title                   \* display_turn

ShowPhase(r, p) ==
  telemetry' = IF Shown(r) THEN [telemetry EXCEPT !.phase = p] ELSE telemetry
\* Mutant: the handler of a transport error forgets the dashboard.
FailNever(r) == UNCHANGED telemetry
FailIfShown(r) == telemetry' = IF Shown(r) THEN Failed ELSE telemetry

-----------------------------------------------------------------------------
(* The lock.  acquire() succeeds at once only when nobody holds the lock   *)
(* and nobody waits; release() hands it to the first waiter.               *)

LockFree == holder = NoOne /\ Queue = {}
Enqueue(a) == ahead' = [ahead EXCEPT ![a] = Queue]
\* Mutant: a waiter that leaves stays in front of those behind it.
DequeueLeavesTrace(a) == ahead' = [ahead EXCEPT ![a] = {}]
Dequeue(a) == ahead' = [b \in Actor |-> IF b = a THEN {} ELSE ahead[b] \ {a}]
\* Mutants of the hand-over: to whoever asks first; without a release.
AnyWaiter(a) == holder = NoOne /\ a \in Queue
NextWithoutRelease(a) == a \in Queue /\ ahead[a] = {}
IsNext(a) == holder = NoOne /\ a \in Queue /\ ahead[a] = {}

\* The end of execute() for a request in the slot: the lock is released and
\* the finally clause gives the admission back.
Leave(r, outcome) ==
  /\ pc' = [pc EXCEPT ![r] = "done"]
  /\ answer' = [answer EXCEPT ![r] = outcome]
  /\ pending' = pending - 1
  /\ round' = [round EXCEPT ![r] = 0]
  /\ holder' = NoOne
  /\ UNCHANGED ahead

-----------------------------------------------------------------------------
(* Admission and the first run of _execute, up to its first await.  n is   *)
(* the value of pending_requests when the slot is taken.                   *)

TakeSlot(r, n) ==
  /\ pending' = n
  /\ holder' = r
  /\ pc' = [pc EXCEPT ![r] = "showing"]
  /\ telemetry' = IF Shown(r) THEN Started(r) ELSE telemetry
  /\ UNCHANGED answer

\* _prepare_body (or the statistics read before telemetry.start) raises: the
\* slot is taken and given back without an await.  A ValueError or TypeError
\* (400) reaches telemetry.fail, a ContinuationError (409) does not.
RefuseInSlot(r, n) ==
  /\ pc' = [pc EXCEPT ![r] = "done"]
  /\ pending' = n - 1
  /\ holder' = NoOne
  /\ \/ answer' = [answer EXCEPT ![r] = "invalid"] /\ telemetry' = Failed
     \/ \E o \in {"failed", "internal"} :
          answer' = [answer EXCEPT ![r] = o] /\ UNCHANGED telemetry

Begin(r, n) == TakeSlot(r, n) \/ RefuseInSlot(r, n)

\* Mutants of Full: one waiting request too many; the active request counted
\* as a waiting one.
FullTooLate == pending > MaxPending + 1
FullTooEarly == pending >= MaxPending
Full == pending >= MaxPending + 1

\* Mutant: the check moved into the try whose finally gives the admission back.
RejectInsideTry(r) ==
  /\ pc[r] = "new"
  /\ pending > 0 /\ Full
  /\ pc' = [pc EXCEPT ![r] = "done"]
  /\ answer' = [answer EXCEPT ![r] = "tooMany"]
  /\ pending' = pending - 1
  /\ UNCHANGED <<round, lockVars, telemetry, bookVars, modelVars, unload>>
Reject(r) ==
  /\ pc[r] = "new"
  /\ Full
  /\ pc' = [pc EXCEPT ![r] = "done"]
  /\ answer' = [answer EXCEPT ![r] = "tooMany"]
  /\ UNCHANGED <<round, pending, lockVars, telemetry, bookVars, modelVars, unload>>

AdmitToQueue(r) ==
  /\ pc[r] = "new"
  /\ ~Full
  /\ ~LockFree
  /\ pc' = [pc EXCEPT ![r] = "waiting"]
  /\ pending' = pending + 1
  /\ Enqueue(r)
  /\ UNCHANGED <<round, answer, holder, telemetry, bookVars, modelVars, unload>>

AdmitToSlot(r) ==
  /\ pc[r] = "new"
  /\ ~Full
  /\ LockFree
  /\ Begin(r, pending + 1)
  /\ UNCHANGED <<round, ahead, bookVars, modelVars, unload>>

Wake(r) ==
  /\ pc[r] = "waiting"
  /\ IsNext(r)
  /\ Begin(r, pending)
  /\ Dequeue(r)
  /\ UNCHANGED <<round, bookVars, modelVars, unload>>

-----------------------------------------------------------------------------
(* Runtime.switch_model and the upstream rounds.                           *)

\* The next upstream exchange of the request r: Ollama loads the alias.
Exchange(r, loaded) ==
  /\ pc' = [pc EXCEPT ![r] = "inferring"]
  /\ round' = [round EXCEPT ![r] = @ + 1]
  /\ resident' = loaded \cup {Route[r]}
  /\ ShowPhase(r, "thinking")

\* /api/show answered and the alias passed validate_model_info.
ModelShown(r) ==
  /\ pc[r] = "showing"
  /\ \/ /\ currentModel \in Model \ {Route[r]}
        /\ pc' = [pc EXCEPT ![r] = "unloading"]
        /\ UNCHANGED <<round, telemetry, modelVars>>
     \/ /\ currentModel \notin Model \ {Route[r]}
        /\ currentModel' = Route[r]
        /\ Exchange(r, resident)
  /\ UNCHANGED <<answer, pending, lockVars, bookVars, unload>>

\* Mutant: the previous alias is forgotten, not unloaded.
PreviousForgotten(r) ==
  /\ pc[r] = "unloading"
  /\ currentModel' = Route[r]
  /\ Exchange(r, resident)
  /\ UNCHANGED <<answer, pending, lockVars, bookVars, unload>>

\* The keep_alive 0 call returned; an HTTP error is logged and forgotten.
PreviousUnloaded(r) ==
  /\ pc[r] = "unloading"
  /\ currentModel' = Route[r]
  /\ \/ Exchange(r, resident \ {currentModel})
     \/ OllamaFaults /\ Exchange(r, resident)
  /\ UNCHANGED <<answer, pending, lockVars, bookVars, unload>>

\* Stream events of the exchange as the TelemetrySSEParser reports them.
Stream(r) ==
  /\ pc[r] = "inferring" /\ Shown(r)
  /\ \E p \in {"generating", "tool"} : ShowPhase(r, p)
  /\ UNCHANGED <<requestVars, lockVars, bookVars, modelVars, unload>>

\* Mutant: the usage of every round is recorded when it ends.
WebCallsRecorded(r) ==
  /\ pc[r] = "inferring"
  /\ pc' = [pc EXCEPT ![r] = "searching"]
  /\ ShowPhase(r, "tool")
  /\ usage' = [usage EXCEPT ![r] = @ + 1]
  /\ UNCHANGED <<round, answer, pending, lockVars, stored, modelVars, unload>>

\* The model asked for local web tools: the first search runs in a thread.
WebCalls(r) ==
  /\ pc[r] = "inferring"
  /\ pc' = [pc EXCEPT ![r] = "searching"]
  /\ ShowPhase(r, "tool")
  /\ UNCHANGED <<round, answer, pending, lockVars, bookVars, modelVars, unload>>

\* Mutant: one round more than the code allows.
NextRoundTooMany(r) ==
  /\ pc[r] = "searching" /\ round[r] <= MaxRounds
  /\ Exchange(r, resident)
  /\ UNCHANGED <<answer, pending, lockVars, bookVars, currentModel, unload>>

\* All searches of this round returned and a further exchange is allowed.
NextRound(r) ==
  /\ pc[r] = "searching" /\ round[r] < MaxRounds
  /\ Exchange(r, resident)
  /\ UNCHANGED <<answer, pending, lockVars, bookVars, currentModel, unload>>

\* httpx.HTTPError before or during an exchange, and an upstream status >= 400.
TransportFails(r) ==
  /\ pc[r] \in {"showing", "inferring"}
  /\ FailIfShown(r)
  /\ Leave(r, "failed")
  /\ UNCHANGED <<bookVars, modelVars, unload>>

\* ModelResponseError and ResponseLimitError (502), or the ValueError of an
\* alias that fails its validation or of token counts that are none (400).
ModelInvalid(r) ==
  /\ pc[r] \in {"showing", "inferring"}
  /\ telemetry' = Failed
  /\ \E o \in {"failed", "invalid"} : Leave(r, o)
  /\ UNCHANGED <<bookVars, modelVars, unload>>

\* An exception execute() does not name: sqlite3.Error of the web cache or of
\* the first statement of UsageStore.record, AttributeError of a JSON value
\* that is no object.
Crashes(r) ==
  /\ pc[r] \in {"showing", "inferring", "searching"}
  /\ Leave(r, "internal")
  /\ UNCHANGED <<telemetry, bookVars, modelVars, unload>>

\* A final answer arrived, or the rounds are used up and the fixed
\* "local-web-loop-limit" response takes its place.
Answerable(r) ==
  \/ pc[r] = "inferring"
  \/ pc[r] = "searching" /\ round[r] = MaxRounds

Record(r) == usage' = [usage EXCEPT ![r] = @ + 1]
CompleteIfShown(r) == telemetry' = IF Shown(r) THEN Completed ELSE telemetry

Complete(r) ==
  /\ Answerable(r)
  /\ Record(r)
  /\ CompleteIfShown(r)
  /\ stored' \in {stored, stored \cup {r}}  \* kept if its id is text
  /\ Leave(r, "ok")
  /\ UNCHANGED <<modelVars, unload>>

\* SQLite fails later: between the statements of UsageStore.record, whose open
\* transaction the next commit takes along, or after telemetry.complete in the
\* statistics queries or around ResponseStateStore.put.
FinalizationCrashes(r) ==
  /\ Answerable(r)
  /\ Record(r)
  /\ \/ UNCHANGED <<telemetry, stored>>
     \/ CompleteIfShown(r) /\ stored' \in {stored, stored \cup {r}}
  /\ Leave(r, "internal")
  /\ UNCHANGED <<modelVars, unload>>

\* The finalization meets a value it cannot take and execute() answers 400: a
\* session name that cannot be encoded before the row is written; after it, the
\* null content of a title, or text that SQLite or response_as_sse cannot encode.
FinalizationInvalid(r) ==
  /\ Answerable(r)
  /\ \/ UNCHANGED bookVars
     \/ Record(r) /\ stored' \in {stored, stored \cup {r}}
  /\ telemetry' = Failed
  /\ Leave(r, "invalid")
  /\ UNCHANGED <<modelVars, unload>>

-----------------------------------------------------------------------------
(* The 900 s deadline and a client that closed its connection cancel the   *)
(* task at its await.  In the queue the waiter leaves; in the slot the     *)
(* handler marks the telemetry before the lock is released.                *)

\* Mutant: a request cancelled while it waits marks the dashboard too.
InterruptMarksAll(r) ==
  \/ /\ pc[r] = "waiting"
     /\ pc' = [pc EXCEPT ![r] = "done"]
     /\ answer' = [answer EXCEPT ![r] = "failed"]
     /\ pending' = pending - 1
     /\ telemetry' = Failed
     /\ Dequeue(r)
     /\ UNCHANGED <<round, holder, bookVars, modelVars, unload>>
  \/ /\ pc[r] \in InService
     /\ telemetry' = Failed
     /\ Leave(r, "failed")
     /\ UNCHANGED <<bookVars, modelVars, unload>>

Interrupt(r) ==
  \/ /\ pc[r] = "waiting"
     /\ pc' = [pc EXCEPT ![r] = "done"]
     /\ answer' = [answer EXCEPT ![r] = "failed"]
     /\ pending' = pending - 1
     /\ Dequeue(r)
     /\ UNCHANGED <<round, holder, telemetry, bookVars, modelVars, unload>>
  \/ /\ pc[r] \in InService
     /\ telemetry' = Failed
     /\ Leave(r, "failed")
     \* a call that unloads the previous alias may have reached Ollama
     /\ resident' \in {resident, IF pc[r] = "unloading"
                                 THEN resident \ {currentModel} ELSE resident}
     /\ UNCHANGED <<bookVars, currentModel, unload>>

-----------------------------------------------------------------------------
(* Runtime.unload_local_models, run by start, shutdown_if_idle and stop.   *)
(* `leased` is what the lease registry says at that moment.                *)

UnloadEnds == unload' = NotUnloading

EnterUnload(requireIdle) ==
  \E leased \in BOOLEAN :
    IF requireIdle /\ (leased \/ pending # 0)
    THEN UnloadEnds /\ UNCHANGED holder
    ELSE /\ holder' = Unloader
         /\ unload' = UnloadState("listing", FALSE, 1, Model, {})

\* Mutant: the unload does not take the inference lock of a running request.
UnloadUnlocked(requireIdle) ==
  /\ unload.at = "idle"
  /\ EnterUnload(requireIdle)
  /\ UNCHANGED <<requestVars, ahead, telemetry, bookVars, modelVars>>
UnloadAtOnce(requireIdle) ==
  /\ unload.at = "idle"
  /\ LockFree
  /\ EnterUnload(requireIdle)
  /\ UNCHANGED <<requestVars, ahead, telemetry, bookVars, modelVars>>

UnloadQueues(requireIdle) ==
  /\ unload.at = "idle"
  /\ ~LockFree
  /\ unload' = UnloadState("waiting", requireIdle, 0, {}, {})
  /\ Enqueue(Unloader)
  /\ UNCHANGED <<requestVars, holder, telemetry, bookVars, modelVars>>

UnloadWakes ==
  /\ unload.at = "waiting"
  /\ IsNext(Unloader)
  /\ EnterUnload(unload.requireIdle)
  /\ Dequeue(Unloader)
  /\ UNCHANGED <<requestVars, telemetry, bookVars, modelVars>>

\* The answer of /api/ps: nothing left is success; a failed call keeps what
\* was known (every alias on the first attempt).
Listed ==
  /\ unload.at = "listing"
  /\ \/ /\ resident = {}
        /\ currentModel' = NoModel
        /\ holder' = NoOne
        /\ UnloadEnds
     \/ \E left \in {resident} \cup (IF OllamaFaults THEN {unload.remaining} ELSE {}) :
          /\ left # {}
          /\ unload' = UnloadState("posting", FALSE, unload.attempt, left, left)
          /\ UNCHANGED <<currentModel, holder>>
  /\ UNCHANGED <<requestVars, ahead, telemetry, bookVars, resident>>

\* One keep_alive 0 call returned.
Posted ==
  /\ unload.at = "posting"
  /\ \E m \in unload.todo :
       /\ resident' \in {resident \ {m}} \cup (IF OllamaFaults THEN {resident} ELSE {})
       /\ LET left == unload.todo \ {m}
              at   == IF left = {} THEN "pausing" ELSE "posting"
          IN  unload' = UnloadState(at, FALSE, unload.attempt, unload.remaining, left)
  /\ UNCHANGED <<requestVars, lockVars, telemetry, bookVars, currentModel>>

Paused ==
  /\ unload.at = "pausing"
  /\ \/ /\ unload.attempt < MaxAttempts
        /\ unload' = UnloadState("listing", FALSE, unload.attempt + 1, unload.remaining, {})
        /\ UNCHANGED holder
     \/ /\ unload.attempt = MaxAttempts
        /\ holder' = NoOne
        /\ UnloadEnds
  /\ UNCHANGED <<requestVars, ahead, telemetry, bookVars, modelVars>>

\* Mutant: the cancelled unload keeps the lock.
UnloadCancelledHolding ==
  /\ unload.at # "idle"
  /\ UnloadEnds
  /\ IF unload.at = "waiting" THEN Dequeue(Unloader) ELSE UNCHANGED ahead
  /\ UNCHANGED <<requestVars, holder, telemetry, bookVars, modelVars>>

\* The task is cancelled (a new lease, Runtime.stop): it leaves the queue or
\* releases the lock, and current_model stays as it was.
UnloadCancelled ==
  /\ unload.at # "idle"
  /\ UnloadEnds
  /\ IF unload.at = "waiting"
     THEN Dequeue(Unloader) /\ UNCHANGED holder
     ELSE holder' = NoOne /\ UNCHANGED ahead
  /\ UNCHANGED <<requestVars, telemetry, bookVars, modelVars>>

-----------------------------------------------------------------------------
(* Ollama drops an alias that no exchange uses (keep_alive ran out).       *)
Expire ==
  /\ \E m \in resident :
       /\ \A r \in Request : pc[r] = "inferring" => Route[r] # m
       /\ resident' = resident \ {m}
  /\ UNCHANGED <<requestVars, lockVars, telemetry, bookVars, currentModel, unload>>

-----------------------------------------------------------------------------
Progress(r) ==
  \/ ModelShown(r) \/ PreviousUnloaded(r) \/ NextRound(r)
  \/ TransportFails(r) \/ ModelInvalid(r) \/ Crashes(r)
  \/ Complete(r) \/ FinalizationCrashes(r) \/ FinalizationInvalid(r)

Arrive(r) == Reject(r) \/ AdmitToQueue(r) \/ AdmitToSlot(r)

Unloading == UnloadWakes \/ Listed \/ Posted \/ Paused

Next ==
  \/ \E r \in Request :
       \/ Arrive(r) \/ Wake(r) \/ Progress(r) \/ Stream(r) \/ WebCalls(r)
       \/ Interrupt(r)
  \/ \E requireIdle \in BOOLEAN : UnloadAtOnce(requireIdle) \/ UnloadQueues(requireIdle)
  \/ Unloading
  \/ UnloadCancelled
  \/ Expire

Spec == Init /\ [][Next]_vars

(* A resumable task runs; every await inside the slot ends, at the latest  *)
(* by the deadline of the request or by the HTTP timeouts and the sleep of *)
(* the unload.  Nothing is assumed of clients, of Ollama's answers, or of  *)
(* the deadline of a request that still waits.                             *)
FairSpec ==
  /\ Spec
  /\ \A r \in Request : WF_vars(Wake(r))
  /\ \A r \in Request : WF_vars(pc[r] \in InService /\ Interrupt(r))
  /\ WF_vars(Unloading)

-----------------------------------------------------------------------------
(* Properties.                                                             *)

\* runtime.pending_requests is the number of requests inside execute(),
\* whichever of its exits they take: a lost decrement would shrink the queue
\* for good, a double one would let it grow.
PendingIsInFlight == pending = Cardinality(InFlight)

\* Whoever is past the lock holds it: one inference per router, no unload
\* during an inference, and no exit leaves the lock behind.
SlotExclusive ==
  /\ \A r \in Request : pc[r] \in InService <=> holder = r
  /\ unload.at \in {"listing", "posting", "pausing"} <=> holder = Unloader

\* The queue limit of execute(): with a request in the slot at most MaxPending
\* wait, and never more than MaxPending + 1 are inside.
QueueBounded ==
  /\ Cardinality(InFlight) <= MaxPending + 1
  /\ holder \in Request => Cardinality(Waiting) <= MaxPending

\* While a visible turn is worked on the dashboard shows that turn as active:
\* neither a title request nor a waiting request that is cancelled, times out
\* or is refused touches it.
ServedTurnIsShown ==
  \A r \in Serving \ Title : telemetry.active /\ telemetry.turn = r

\* An active turn on the dashboard is the turn in the slot, except after an
\* exception execute() does not name.
ActiveTurnInSlot ==
  telemetry.active =>
    \/ holder = telemetry.turn
    \/ telemetry.turn \in Request /\ answer[telemetry.turn] = "internal"

\* Usage, the stored response and the answer agree: no request is counted twice,
\* an answer 200 and a stored response were counted, and a request that was
\* refused, cancelled, timed out or failed upstream left neither usage nor a
\* response to continue from.  An answer 400 or 500 says neither: the request may
\* have been counted, and its response stored, before the finalization broke.
AnswerMatchesBooks ==
  \A r \in Request :
    /\ usage[r] <= 1
    /\ answer[r] = "ok" \/ r \in stored => usage[r] = 1
    /\ answer[r] \in {"tooMany", "failed"} => usage[r] = 0 /\ r \notin stored

\* The alias a request runs on is the one the router believes is loaded: no
\* concurrent switch or unload intervenes between its rounds.
RunsOnCurrentModel ==
  \A r \in Request : pc[r] \in {"inferring", "searching"} => currentModel = Route[r]

\* Model switching keeps one managed alias in memory.
OneModelResident == Cardinality(resident) <= 1

\* The waiters of the lock, requests and the unload alike, stand in one line:
\* nobody is forgotten in it when a waiter in front is cancelled.
QueueIsOrdered ==
  /\ \A a \in Actor : ahead[a] \subseteq Queue \ {a} /\ (a \notin Queue => ahead[a] = {})
  /\ \A a, b \in Queue : a # b => (a \in ahead[b] <=> b \notin ahead[a])
  /\ \A a, b \in Queue : b \in ahead[a] => ahead[b] \subseteq ahead[a]

\* The lock is handed over in the order of arrival: a waiter is never
\* overtaken by a request or an unload that queued after it.
NoOvertaking ==
  [][\A a \in Queue, b \in Actor :
       a # b /\ holder' = b /\ holder # b => b \in Queue /\ a \notin ahead[b]]_vars

\* A waiting request reaches the slot or gives up, and unload_local_models
\* returns: nobody waits for ever on a lock that was not handed over.
EveryWaitEnds ==
  /\ \A r \in Request : pc[r] = "waiting" ~> pc[r] # "waiting"
  /\ unload.at # "idle" ~> unload.at = "idle"

\* The promise to the clients (SlotService): one active request, a bounded
\* number inside, one answer for each, and 429 only when full.
StageOf(r) ==
  IF pc[r] = "done"
  THEN IF answer[r] = "tooMany" THEN "turnedAway" ELSE "answered"
  ELSE IF pc[r] \in InService THEN "active" ELSE pc[r]
Promise == INSTANCE SlotService
             WITH Capacity <- MaxPending + 1, stage <- [r \in Request |-> StageOf(r)]
ImplementsPromise == Promise!Spec

=============================================================================
