------------------------------ MODULE Dashboard ------------------------------
(***************************************************************************)
(* TelemetryHub (local_codex/telemetry.py) as the service and the monitor   *)
(* loop use it, and /monitor/events (app.py), which shows it to the tray    *)
(* program.  Everything runs on one event loop; one action is what happens  *)
(* between two awaits.  Tokens are input and output together.               *)
(***************************************************************************)
EXTENDS Integers, FiniteSets, FiniteSetsExt

CONSTANTS
  Session,
  Alias,
  Estimate,    \* the tokens of the input, as estimated
  MaxDelta,    \* bounds the estimated tokens of an output
  MaxRecorded, \* bounds the tokens of a session
  Nobody

ASSUME DashboardAssumption ==
  /\ IsFiniteSet(Session) /\ Nobody \notin Session \cup Alias
  /\ Estimate \in Nat /\ MaxDelta \in Nat /\ MaxRecorded \in Nat

VARIABLES
  hub,       \* _state
  recorded,  \* recorded[s]: the tokens of s in the usage store
  work,      \* the request in the slot: whose, and whether it is displayed
  loaded,    \* what Ollama has in memory
  unsent,    \* of a stream: revision # last_revision
  disorder   \* history: a finalization broke off, and no turn was finalized since

dashboardVars ==
  <<hub, recorded, work, loaded, unsent, disorder>>

Hub ==
  [active: BOOLEAN, phase: {"idle", "loading", "thinking", "generating", "tool", "completed", "error"},
   session: Session \cup {Nobody}, model: Alias \cup {Nobody}, input: Nat, output: Nat,
   sessionTokens: Nat, allTokens: Nat, runtime: Alias \cup {Nobody}]
IdleState ==
  [active |-> FALSE, phase |-> "idle", session |-> Nobody, model |-> Nobody, input |-> 0,
   output |-> 0, sessionTokens |-> 0, allTokens |-> 0, runtime |-> Nobody]
Free  == [session |-> Nobody, displayed |-> FALSE]
Total == MapThenSumSet(LAMBDA s : recorded[s], Session)

\* snapshot: the totals include the turn while it is active.
Live(state) == IF state.active THEN state.input + state.output ELSE 0
Snapshot ==
  [active |-> hub.active, phase |-> hub.phase, session |-> hub.session, model |-> hub.model,
   runtime |-> hub.runtime, sessionTotal |-> hub.sessionTokens + Live(hub),
   total |-> hub.allTokens + Live(hub)]

DashboardTypeOK ==
  /\ hub \in Hub
  /\ recorded \in [Session -> Nat]
  /\ work = Free \/ work \in [session: Session, displayed: BOOLEAN]
  /\ loaded \subseteq Alias
  /\ unsent \in BOOLEAN /\ disorder \in BOOLEAN

\* Runtime.start has filled in the statistics of all sessions.
DashboardInit ==
  /\ hub = IdleState
  /\ recorded = [s \in Session |-> 0]
  /\ work = Free
  /\ loaded = {}
  /\ unsent = TRUE /\ disorder = FALSE

-----------------------------------------------------------------------------
\* _touch_locked
Touch == unsent' = TRUE

\* start: a new state, but for what does not belong to the turn.
Started(s, model) ==
  [IdleState EXCEPT !.active = TRUE, !.phase = "loading", !.session = s, !.model = model,
                    !.input = Estimate, !.sessionTokens = recorded[s],
                    !.allTokens = hub.allTokens, !.runtime = hub.runtime]
StartTurn(s, model) ==
  /\ work = Free
  /\ work' = [session |-> s, displayed |-> TRUE]
  /\ hub' = Started(s, model)
  /\ Touch
  /\ UNCHANGED <<recorded, loaded, disorder>>
StartTitle(s) ==
  /\ work = Free
  /\ work' = [session |-> s, displayed |-> FALSE]
  /\ UNCHANGED <<hub, recorded, loaded, unsent, disorder>>

\* Mutant: the revision stays.
PhaseUntouched(value) ==
  /\ work.displayed
  /\ hub' = [hub EXCEPT !.phase = value]
  /\ UNCHANGED <<recorded, work, loaded, unsent, disorder>>
\* phase: a round begins; a web tool runs; the stream holds an event of a call.
Phase(value) ==
  /\ work.displayed
  /\ hub' = [hub EXCEPT !.phase = value]
  /\ Touch
  /\ UNCHANGED <<recorded, work, loaded, disorder>>

\* output_delta
OutputDelta ==
  /\ work.displayed /\ hub.output < MaxDelta
  /\ hub' = [hub EXCEPT !.phase = "generating", !.output = @ + 1]
  /\ Touch
  /\ UNCHANGED <<recorded, work, loaded, disorder>>

Recorded(tokens) == [recorded EXCEPT ![work.session] = @ + tokens]
\* complete, with the tokens Ollama has counted.
Completed(state, tokens) ==
  IF work.displayed
  THEN [state EXCEPT !.active = FALSE, !.phase = "completed", !.input = 0, !.output = tokens]
  ELSE state
\* Mutant: a title request does not update the statistics of the session that is shown.
UpdatedForTurns(state, tokens) ==
  [state EXCEPT !.sessionTokens = IF work.displayed /\ state.session = work.session
                                  THEN recorded[work.session] + tokens ELSE @,
                !.allTokens = Total + tokens]
\* update_session_statistics and update_all_statistics
Updated(state, tokens) ==
  [state EXCEPT !.sessionTokens = IF state.session = work.session
                                  THEN recorded[work.session] + tokens ELSE @,
                !.allTokens = Total + tokens]

\* An answer: usage.record, complete and the updates, without an await.
Finish(tokens) ==
  /\ work # Free /\ recorded[work.session] + tokens <= MaxRecorded
  /\ recorded' = Recorded(tokens)
  /\ hub' = Updated(Completed(hub, tokens), tokens)
  /\ work' = Free
  /\ disorder' = (disorder /\ ~work.displayed)
  /\ Touch
  /\ UNCHANGED <<loaded>>

Failing(state) == [state EXCEPT !.active = FALSE, !.phase = "error"]
\* fail, by execute() for every request, and by _execute for a displayed one.
Fail ==
  /\ work # Free
  /\ hub' = Failing(hub)
  /\ work' = Free
  /\ Touch
  /\ UNCHANGED <<recorded, loaded, disorder>>
\* A request is invalid before it starts, or it fails and is not displayed.
FailSilently ==
  /\ work # Free /\ ~work.displayed
  /\ work' = Free
  /\ UNCHANGED <<hub, recorded, loaded, unsent, disorder>>
\* Something raises after usage.record: before complete, before or between the updates,
\* or after them.  execute() marks the failure if it names the exception (400).
Breaks(tokens) ==
  /\ work # Free /\ recorded[work.session] + tokens <= MaxRecorded
  /\ recorded' = Recorded(tokens)
  /\ LET completed == Completed(hub, tokens)
         updated   == Updated(completed, tokens)
     IN  \E reached \in {hub, completed, [updated EXCEPT !.allTokens = hub.allTokens], updated} :
           hub' \in {reached, Failing(reached)}
  /\ work' = Free
  /\ disorder' = TRUE
  /\ unsent' \in {unsent, TRUE} /\ (hub' # hub => unsent')
  /\ UNCHANGED loaded

\* update_ollama_runtime: the alias of the turn, or whichever comes first.
Reported == IF loaded = {} THEN {Nobody} ELSE IF hub.model \in loaded THEN {hub.model} ELSE loaded
UpdateOllamaRuntime ==
  /\ \E model \in Reported :
       /\ hub' = [hub EXCEPT !.runtime = model]
       /\ unsent' = (unsent \/ model # hub.runtime)
  /\ UNCHANGED <<recorded, work, loaded, disorder>>

\* Outside: Ollama loads and drops aliases.
OllamaLoads ==
  /\ loaded' \in SUBSET Alias
  /\ UNCHANGED <<hub, recorded, work, unsent, disorder>>

-----------------------------------------------------------------------------
\* A pass of the loop of /monitor/events that sends a snapshot: the revision is a new one,
\* or a second has passed in a turn.  (The heartbeat changes nothing.)
Send ==
  /\ unsent \/ hub.active
  /\ unsent' = FALSE
  /\ UNCHANGED <<hub, recorded, work, loaded, disorder>>
\* The tray program connects anew: last_revision is -1.
Reconnect ==
  /\ unsent' = TRUE
  /\ UNCHANGED <<hub, recorded, work, loaded, disorder>>

Serves ==
  \/ \E s \in Session : (\E model \in Alias : StartTurn(s, model)) \/ StartTitle(s)
  \/ \E value \in {"thinking", "tool"} : Phase(value)
  \/ OutputDelta \/ Fail \/ FailSilently
  \/ \E tokens \in 0..(Estimate + MaxDelta) : Finish(tokens) \/ Breaks(tokens)

DashboardNext == Serves \/ UpdateOllamaRuntime \/ OllamaLoads \/ Send \/ Reconnect

DashboardSpec == DashboardInit /\ [][DashboardNext]_dashboardVars

-----------------------------------------------------------------------------
\* The totals that are shown are what has been recorded, of the session and of all, and,
\* while a turn is served, the estimate of this turn: its tokens are never missing and never
\* counted twice, whatever titles and failures come in between.
TotalsCountEachTurnOnce ==
  ~disorder =>
    LET live == IF work.displayed THEN hub.input + hub.output ELSE 0
    IN  /\ hub.session # Nobody => Snapshot.sessionTotal = recorded[hub.session] + live
        /\ Snapshot.total = Total + live

\* No step of anyone changes what the dashboard shows of the turn without a new revision:
\* a stream that has sent the last revision has sent the turn as it is.  (The number of
\* launchers in the same snapshot changes without one.)
ChangesAreAnnounced == [][Snapshot' # Snapshot => unsent']_dashboardVars
=============================================================================
