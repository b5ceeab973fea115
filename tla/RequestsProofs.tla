---------------------------- MODULE RequestsProofs ----------------------------
(***************************************************************************)
(* What the parts promise that a request goes through besides Execution,    *)
(* for any clients, tools, aliases and bounds: the router remembers a turn  *)
(* and lets no instructions decide, the rounds answer every web call and    *)
(* deliver only calls that can be used, the parser of the stream sees every *)
(* event once, and the dashboard counts every turn once and announces what  *)
(* changes.                                                                 *)
(***************************************************************************)
EXTENDS MCRequests, CommonLemmas, SequenceTheorems

-----------------------------------------------------------------------------
(* The dashboard.                                                          *)

\* What the statistics of the dashboard are of, while no finalization has broken off; and the
\* session of a turn, which is the one that Finish updates.
StatisticsAreCurrent ==
  /\ work.displayed => hub.session = work.session
  /\ ~disorder =>
       /\ hub.active = work.displayed
       /\ hub.session # Nobody => hub.sessionTokens = recorded[hub.session]
       /\ hub.allTokens = Total

\* The inductive invariant.
DashboardInv == DashboardTypeOK /\ StatisticsAreCurrent

\* Total by the lemmas on sums.
LEMMA TotalIsSum ==
  Total = SumOf(recorded, Session) /\ Total' = SumOf(recorded', Session)
<1>1. Total = SumOf(recorded, Session)
  BY Zenon DEF Total, SumOf
<1>2. (Total = SumOf(recorded, Session))'
  BY <1>1, PTL
<1> QED
  BY <1>1, <1>2

\* New statistics keep the hub a hub.
LEMMA HubWithStatistics ==
  ASSUME NEW state \in Hub, NEW one \in Nat, NEW all \in Nat
  PROVE  [state EXCEPT !.sessionTokens = one, !.allTokens = all] \in Hub
  BY DEF Hub

\* Total is a number.
LEMMA TotalIsNat ==
  ASSUME DashboardTypeOK
  PROVE  Total \in Nat
<1>1. \A s \in Session : recorded[s] \in Nat
  BY DEF DashboardTypeOK
<1> QED
  BY <1>1, SumOfIsNat, TotalIsSum, DashboardAssumption

\* The sum is that of the recorded tokens, whichever they are.
LEMMA TotalStays ==
  ASSUME UNCHANGED recorded
  PROVE  Total' = Total
  BY TotalIsSum

\* An answer adds its tokens to the sum.
LEMMA TotalGrows ==
  ASSUME DashboardTypeOK, work # Free, NEW tokens \in Nat, recorded' = Recorded(tokens)
  PROVE  Total' = Total + tokens
<1>1. work.session \in Session /\ recorded \in [Session -> Nat]
  BY DEF DashboardTypeOK
<1>2. recorded' = [recorded EXCEPT ![work.session] = @ + tokens]
  BY DEF Recorded
<1>3. \A s \in Session : recorded'[s] = IF s = work.session THEN recorded[s] + tokens ELSE recorded[s]
  BY <1>1, <1>2
<1>4. \A s \in Session : recorded[s] \in Nat
  BY <1>1
<1>5. SumOf(recorded', Session) = SumOf(recorded, Session) + tokens
  BY <1>1, <1>3, <1>4, SumOfGrows, DashboardAssumption
<1> QED
  BY <1>5, TotalIsSum

\* What the finalization writes is well formed at each of its places.
LEMMA FinalizationTypes ==
  ASSUME DashboardTypeOK, work # Free, NEW tokens \in Nat
  PROVE  /\ Recorded(tokens) \in [Session -> Nat]
         /\ Completed(hub, tokens) \in Hub
         /\ Updated(Completed(hub, tokens), tokens) \in Hub
<1>1. Total \in Nat
  BY TotalIsNat
<1>2. work.session \in Session /\ work.displayed \in BOOLEAN
  BY DEF DashboardTypeOK
<1>3. Completed(hub, tokens) \in Hub
  BY DEF Completed, Hub, DashboardTypeOK
<1>4. \A state \in Hub : Updated(state, tokens) \in Hub
  <2> SUFFICES ASSUME NEW state \in Hub PROVE Updated(state, tokens) \in Hub
    OBVIOUS
  <2>1. Total + tokens \in Nat /\ recorded[work.session] + tokens \in Nat /\ state.sessionTokens \in Nat
    BY <1>1, <1>2 DEF DashboardTypeOK, Hub
  <2>2. (IF state.session = work.session THEN recorded[work.session] + tokens
         ELSE state.sessionTokens) \in Nat
    BY <2>1
  <2> QED
    BY <2>1, <2>2, HubWithStatistics DEF Updated
<1>5. Recorded(tokens) \in [Session -> Nat]
  BY <1>2 DEF Recorded, DashboardTypeOK
<1> QED
  BY <1>3, <1>4, <1>5

\* One step for each action, in the order of the module.
LEMMA DashboardTypeStep ==
  DashboardTypeOK /\ [DashboardNext]_dashboardVars => DashboardTypeOK'
<1> SUFFICES ASSUME DashboardTypeOK, [DashboardNext]_dashboardVars PROVE DashboardTypeOK'
  OBVIOUS
<1>0. Estimate \in Nat /\ MaxDelta \in Nat /\ Nobody \notin Session
  BY DashboardAssumption
<1>7. ASSUME NEW tokens \in 0..(Estimate + MaxDelta), Finish(tokens) PROVE DashboardTypeOK'
  <2>1. work # Free /\ tokens \in Nat
    BY <1>0, <1>7 DEF Finish
  <2>2. recorded' \in [Session -> Nat] /\ Updated(Completed(hub, tokens), tokens) \in Hub
    BY <1>7, <2>1, FinalizationTypes DEF Finish
  <2> QED
    BY <1>7, <2>2 DEF Finish, Touch, DashboardTypeOK
<1>8. ASSUME NEW tokens \in 0..(Estimate + MaxDelta), Breaks(tokens) PROVE DashboardTypeOK'
  <2> DEFINE completed == Completed(hub, tokens)
             updated   == Updated(completed, tokens)
             halfway   == [updated EXCEPT !.allTokens = hub.allTokens]
  <2>1. work # Free /\ tokens \in Nat
    BY <1>0, <1>8 DEF Breaks
  <2>2. /\ recorded' \in [Session -> Nat]
        /\ completed \in Hub /\ updated \in Hub
    BY <1>8, <2>1, FinalizationTypes DEF Breaks
  <2> HIDE DEF completed, updated
  <2>3. hub \in Hub /\ halfway \in Hub
    BY <2>2 DEF DashboardTypeOK, Hub
  <2>4. \A state \in Hub : Failing(state) \in Hub
    BY DEF Failing, Hub
  <2>5. PICK reached \in {hub, completed, halfway, updated} : hub' \in {reached, Failing(reached)}
    BY <1>8 DEF Breaks, completed, updated
  <2>6. hub' \in Hub
    BY <2>2, <2>3, <2>4, <2>5
  <2> QED
    BY <1>8, <2>2, <2>6 DEF Breaks, DashboardTypeOK
<1> USE DEF DashboardTypeOK, Hub, Free
<1>1. ASSUME NEW s \in Session, NEW model \in Alias, StartTurn(s, model) PROVE DashboardTypeOK'
  BY <1>0, <1>1 DEF StartTurn, Started, IdleState, Touch
<1>2. ASSUME NEW s \in Session, StartTitle(s) PROVE DashboardTypeOK'
  BY <1>2 DEF StartTitle
<1>3. ASSUME NEW value \in {"thinking", "tool"}, Phase(value) PROVE DashboardTypeOK'
  BY <1>3 DEF Phase, Touch
<1>4. ASSUME OutputDelta PROVE DashboardTypeOK'
  <2>1. hub \in Hub /\ hub.output + 1 \in Nat
    OBVIOUS
  <2>2. [hub EXCEPT !.phase = "generating", !.output = hub.output + 1] \in Hub
    BY <2>1
  <2> QED
    BY <1>4, <2>2 DEF OutputDelta, Touch
<1>5. ASSUME Fail PROVE DashboardTypeOK'
  BY <1>5 DEF Fail, Failing, Touch
<1>6. ASSUME FailSilently PROVE DashboardTypeOK'
  BY <1>6 DEF FailSilently
<1>9. ASSUME UpdateOllamaRuntime PROVE DashboardTypeOK'
  BY <1>9 DEF UpdateOllamaRuntime, Reported
<1>10. ASSUME OllamaLoads PROVE DashboardTypeOK'
  BY <1>10 DEF OllamaLoads
<1>11. ASSUME Send PROVE DashboardTypeOK'
  BY <1>11 DEF Send
<1>12. ASSUME Reconnect PROVE DashboardTypeOK'
  BY <1>12 DEF Reconnect
<1>13. ASSUME UNCHANGED dashboardVars PROVE DashboardTypeOK'
  BY <1>13 DEF dashboardVars
<1> QED
  BY <1>1, <1>2, <1>3, <1>4, <1>5, <1>6, <1>7, <1>8, <1>9, <1>10, <1>11, <1>12, <1>13
     DEF DashboardNext, Serves

\* The statistics of the state stay those of the usage store.
LEMMA StatisticsStep ==
  DashboardTypeOK /\ StatisticsAreCurrent /\ [DashboardNext]_dashboardVars => StatisticsAreCurrent'
<1> SUFFICES ASSUME DashboardTypeOK, StatisticsAreCurrent, [DashboardNext]_dashboardVars
    PROVE  StatisticsAreCurrent'
  OBVIOUS
<1>0. Estimate \in Nat /\ MaxDelta \in Nat /\ Nobody \notin Session
  BY DashboardAssumption
<1>7. ASSUME NEW tokens \in 0..(Estimate + MaxDelta), Finish(tokens) PROVE StatisticsAreCurrent'
  <2>1. tokens \in Nat /\ work # Free /\ recorded' = Recorded(tokens)
    BY <1>0, <1>7 DEF Finish
  <2>2. Total' = Total + tokens
    BY <2>1, TotalGrows
  <2>3. /\ work.session \in Session /\ work.displayed \in BOOLEAN
        /\ recorded' = [recorded EXCEPT ![work.session] = @ + tokens]
    BY <2>1 DEF DashboardTypeOK, Recorded
  <2>4. /\ hub'.session = hub.session /\ hub'.allTokens = Total + tokens
        /\ hub'.active = (hub.active /\ ~work.displayed)
        /\ hub'.sessionTokens = IF hub.session = work.session
                                THEN recorded[work.session] + tokens ELSE hub.sessionTokens
    BY <1>7, <2>3 DEF Finish, Updated, Completed, DashboardTypeOK, Hub
  <2>5. hub'.session # Nobody => hub'.session \in Session
    BY <2>4 DEF DashboardTypeOK, Hub
  <2>6. work' = Free /\ work'.displayed = FALSE /\ disorder' = (disorder /\ ~work.displayed)
    BY <1>7 DEF Finish, Free
  <2> SUFFICES ASSUME ~disorder'
      PROVE  /\ hub'.active = FALSE
             /\ hub'.session # Nobody => hub'.sessionTokens = recorded'[hub'.session]
             /\ hub'.allTokens = Total'
    BY <2>6 DEF StatisticsAreCurrent
  <2>7. ~disorder \/ work.displayed
    BY <2>6
  <2>8. hub'.active = FALSE
    <3>1. hub.active => work.displayed
      BY <2>7 DEF StatisticsAreCurrent
    <3> QED
      BY <2>4, <3>1
  <2>9. ASSUME hub'.session # Nobody PROVE hub'.sessionTokens = recorded'[hub'.session]
    <3>1. CASE hub.session = work.session
      BY <2>3, <2>4, <3>1 DEF DashboardTypeOK
    <3>2. CASE hub.session # work.session
      BY <2>3, <2>4, <2>5, <2>7, <2>9, <3>2 DEF DashboardTypeOK, StatisticsAreCurrent
    <3> QED
      BY <3>1, <3>2
  <2> QED
    BY <2>2, <2>4, <2>8, <2>9
<1> USE DEF DashboardTypeOK, StatisticsAreCurrent, Hub, Free
<1>1. ASSUME NEW s \in Session, NEW model \in Alias, StartTurn(s, model) PROVE StatisticsAreCurrent'
  BY <1>0, <1>1, TotalStays DEF StartTurn, Started, IdleState, Touch
<1>2. ASSUME NEW s \in Session, StartTitle(s) PROVE StatisticsAreCurrent'
  BY <1>0, <1>2, TotalStays DEF StartTitle
<1>3. ASSUME NEW value \in {"thinking", "tool"}, Phase(value) PROVE StatisticsAreCurrent'
  BY <1>0, <1>3, TotalStays DEF Phase, Touch
<1>4. ASSUME OutputDelta PROVE StatisticsAreCurrent'
  BY <1>0, <1>4, TotalStays DEF OutputDelta, Touch
<1>5. ASSUME Fail PROVE StatisticsAreCurrent'
  BY <1>0, <1>5, TotalStays DEF Fail, Failing, Touch
<1>6. ASSUME FailSilently PROVE StatisticsAreCurrent'
  BY <1>0, <1>6, TotalStays DEF FailSilently
<1>8. ASSUME NEW tokens \in 0..(Estimate + MaxDelta), Breaks(tokens) PROVE StatisticsAreCurrent'
  BY <1>8 DEF Breaks
<1>9. ASSUME UpdateOllamaRuntime PROVE StatisticsAreCurrent'
  BY <1>0, <1>9, TotalStays DEF UpdateOllamaRuntime
<1>10. ASSUME OllamaLoads PROVE StatisticsAreCurrent'
  BY <1>0, <1>10, TotalStays DEF OllamaLoads
<1>11. ASSUME Send PROVE StatisticsAreCurrent'
  BY <1>0, <1>11, TotalStays DEF Send
<1>12. ASSUME Reconnect PROVE StatisticsAreCurrent'
  BY <1>0, <1>12, TotalStays DEF Reconnect
<1>13. ASSUME UNCHANGED dashboardVars PROVE StatisticsAreCurrent'
  BY <1>0, <1>13, TotalStays DEF dashboardVars
<1> QED
  BY <1>1, <1>2, <1>3, <1>4, <1>5, <1>6, <1>7, <1>8, <1>9, <1>10, <1>11, <1>12, <1>13
     DEF DashboardNext, Serves

\* Nothing is recorded and nothing shown.
LEMMA DashboardInvAtFirst == DashboardInit => DashboardInv
<1> SUFFICES ASSUME DashboardInit PROVE DashboardInv
  OBVIOUS
<1>1. SumOf(recorded, Session) = 0
  BY SumOfZeros, DashboardAssumption DEF DashboardInit
<1>2. Total = 0
  BY <1>1, TotalIsSum
<1> QED
  BY <1>2 DEF DashboardInit, DashboardInv, DashboardTypeOK, StatisticsAreCurrent, IdleState, Hub, Free

\* Every step keeps the invariant.
LEMMA DashboardStep == DashboardInv /\ [DashboardNext]_dashboardVars => DashboardInv'
  BY DashboardTypeStep, StatisticsStep DEF DashboardInv

\* With current statistics, what is shown is what is recorded and the turn that runs.
LEMMA TotalsAreShown == DashboardInv => TotalsCountEachTurnOnce
<1> SUFFICES ASSUME DashboardInv, ~disorder PROVE TotalsCountEachTurnOnce
  BY DEF TotalsCountEachTurnOnce
<1>1. Total \in Nat
  BY TotalIsNat DEF DashboardInv
<1> QED
  BY <1>1 DEF DashboardInv, DashboardTypeOK, StatisticsAreCurrent, TotalsCountEachTurnOnce,
              Snapshot, Live, Hub, Free

\* telemetry.py and service.py: whatever turns, titles and failures come after one another, the
\* totals have each turn once.
THEOREM AlwaysTotalsCountOnce == DashboardSpec => []TotalsCountEachTurnOnce
  BY DashboardInvAtFirst, DashboardStep, TotalsAreShown, PTL DEF DashboardSpec

\* The snapshot shows nothing but the hub.
LEMMA SnapshotOfHub ==
  ASSUME UNCHANGED hub
  PROVE  Snapshot' = Snapshot
  BY DEF Snapshot, Live

\* Every action that changes what is shown touches the state.
LEMMA AnnouncedStep ==
  DashboardInv /\ [DashboardNext]_dashboardVars => (Snapshot' # Snapshot => unsent')
<1> SUFFICES ASSUME DashboardInv, [DashboardNext]_dashboardVars, Snapshot' # Snapshot PROVE unsent'
  OBVIOUS
<1>0. hub' # hub
  BY SnapshotOfHub
<1>1. ASSUME NEW s \in Session, NEW model \in Alias, StartTurn(s, model) PROVE unsent'
  BY <1>0, <1>1 DEF StartTurn, Started, IdleState, Touch
<1>2. ASSUME NEW s \in Session, StartTitle(s) PROVE unsent'
  BY <1>0, <1>2 DEF StartTitle
<1>3. ASSUME NEW value \in {"thinking", "tool"}, Phase(value) PROVE unsent'
  BY <1>0, <1>3 DEF Phase, Touch
<1>4. ASSUME OutputDelta PROVE unsent'
  BY <1>0, <1>4 DEF OutputDelta, Touch
<1>5. ASSUME Fail PROVE unsent'
  BY <1>0, <1>5 DEF Fail, Touch
<1>6. ASSUME FailSilently PROVE unsent'
  BY <1>0, <1>6 DEF FailSilently
<1>7. ASSUME NEW tokens \in 0..(Estimate + MaxDelta), Finish(tokens) PROVE unsent'
  BY <1>0, <1>7 DEF Finish, Recorded, Updated, Completed, Touch
<1>8. ASSUME NEW tokens \in 0..(Estimate + MaxDelta), Breaks(tokens) PROVE unsent'
  BY <1>0, <1>8 DEF Breaks
<1>9. ASSUME UpdateOllamaRuntime PROVE unsent'
  <2>1. PICK model \in Reported : hub' = [hub EXCEPT !.runtime = model] /\ unsent' = (unsent \/ model # hub.runtime)
    BY <1>0, <1>9 DEF UpdateOllamaRuntime
  <2>2. model # hub.runtime
    BY <1>0, <2>1 DEF DashboardInv, DashboardTypeOK, Hub
  <2> QED
    BY <2>1, <2>2
<1>10. ASSUME OllamaLoads PROVE unsent'
  BY <1>0, <1>10 DEF OllamaLoads
<1>11. ASSUME Send PROVE unsent'
  BY <1>0, <1>11 DEF Send
<1>12. ASSUME Reconnect PROVE unsent'
  BY <1>0, <1>12 DEF Reconnect
<1>13. ASSUME UNCHANGED dashboardVars PROVE unsent'
  BY <1>0, <1>13 DEF dashboardVars
<1> QED
  BY <1>1, <1>2, <1>3, <1>4, <1>5, <1>6, <1>7, <1>8, <1>9, <1>10, <1>11, <1>12, <1>13
     DEF DashboardNext, Serves

\* telemetry.py: a stream of the monitor that has sent the last revision has sent what the hub
\* shows of the turn; what Ollama reports counts as new only if it is.
THEOREM AlwaysChangesAreAnnounced == DashboardSpec => ChangesAreAnnounced
<1>1. DashboardInv /\ [DashboardNext]_dashboardVars => [Snapshot' # Snapshot => unsent']_dashboardVars
  BY AnnouncedStep
<1> QED
  BY <1>1, DashboardInvAtFirst, DashboardStep, PTL DEF DashboardSpec, ChangesAreAnnounced

-----------------------------------------------------------------------------
(* The router.                                                             *)

\* What the table turns holds.
Entries == Keys \X Aliases
\* Every key stands in it once,
Once(sequence) ==
  \A i, j \in DOMAIN sequence : sequence[i][1] = sequence[j][1] => i = j

KeysStandOnce == Once(turns)
\* with the alias it was given last.
AliasesAreLast == \A i \in DOMAIN turns : turns[i][2] = last[turns[i][1]]
\* Whoever stands behind a key was asked for since,
LaterAskedSince == \A i, j \in DOMAIN turns : i < j => turns[j][1] \in since[turns[i][1]]
\* and these are finitely many;
SinceIsFinite == \A k \in Keys : IsFiniteSet(since[k])
\* a key goes only when MaxTurns others were asked for since.
StillThere ==
  \A k \in Keys :
    last[k] # Absent /\ Cardinality(since[k]) < MaxTurns => \E i \in DOMAIN turns : turns[i][1] = k

\* The inductive invariant.
RouterInv ==
  /\ RouterTypeOK
  /\ KeysStandOnce /\ AliasesAreLast /\ LaterAskedSince /\ SinceIsFinite /\ StillThere

-----------------------------------------------------------------------------
\* BoundedSeq by length.
LEMMA BoundedIs ==
  ASSUME NEW S, NEW n \in Nat, NEW s
  PROVE  s \in BoundedSeq(S, n) <=> s \in Seq(S) /\ Len(s) =< n
<1>1. ASSUME s \in BoundedSeq(S, n) PROVE s \in Seq(S) /\ Len(s) =< n
  <2>1. PICK m \in 0..n : s \in [1..m -> S]
    BY <1>1 DEF BoundedSeq, SeqOf
  <2> QED BY <2>1
<1>2. ASSUME s \in Seq(S), Len(s) =< n PROVE s \in BoundedSeq(S, n)
  <2>1. Len(s) \in 0..n /\ s \in [1..Len(s) -> S]
    BY <1>2, LenProperties
  <2> QED BY <2>1 DEF BoundedSeq, SeqOf
<1> QED BY <1>1, <1>2

\* A key stands at one place.
LEMMA OnePlace ==
  ASSUME NEW seq \in Seq(Entries), Once(seq), NEW i \in 1..Len(seq)
  PROVE  /\ PlacesOf(seq, seq[i][1]) = {i}
         /\ Max(PlacesOf(seq, seq[i][1])) = i
<1>1. DOMAIN seq = 1..Len(seq) /\ Len(seq) \in Nat
  BY LenProperties
<1>2. PlacesOf(seq, seq[i][1]) = {i}
  BY <1>1 DEF PlacesOf, Once
<1>3. {i} \subseteq Nat /\ {i} # {} /\ IsFiniteSet({i})
  <2>1. IsFiniteSet({i})
    BY FS_Singleton, Zenon
  <2> QED BY <1>1, <2>1
<1>4. Max({i}) \in {i}
  BY <1>3, GreatestIsOne
<1> QED BY <1>2, <1>4

\* AliasOf finds the alias of a key that stands there, or none.
LEMMA AliasOfIs ==
  ASSUME NEW seq \in Seq(Entries), Once(seq), NEW key
  PROVE  /\ AliasOf(seq, key) \in Aliases \cup {Absent}
         /\ \A i \in 1..Len(seq) : seq[i][1] = key => AliasOf(seq, key) = seq[i][2]
<1>1. DOMAIN seq = 1..Len(seq) /\ Len(seq) \in Nat /\ \A i \in 1..Len(seq) : seq[i] \in Entries
  BY LenProperties
<1>2. CASE PlacesOf(seq, key) = {}
  BY <1>1, <1>2 DEF PlacesOf, AliasOf
<1>3. CASE PlacesOf(seq, key) # {}
  <2>1. PICK i \in 1..Len(seq) : seq[i][1] = key
    BY <1>1, <1>3 DEF PlacesOf
  <2>2. Max(PlacesOf(seq, key)) = i
    BY <2>1, OnePlace
  <2>3. AliasOf(seq, key) = seq[i][2]
    BY <1>3, <2>2 DEF AliasOf
  <2>4. \A j \in 1..Len(seq) : seq[j][1] = key => j = i
    BY <1>1, <2>1 DEF Once
  <2> QED BY <1>1, <2>3, <2>4 DEF Entries
<1> QED BY <1>2, <1>3

\* RemoveAt by elements.
LEMMA RemoveAtIs ==
  ASSUME NEW S, NEW s \in Seq(S), NEW p \in 1..Len(s)
  PROVE  /\ RemoveAt(s, p) \in Seq(S)
         /\ Len(RemoveAt(s, p)) = Len(s) - 1
         /\ \A i \in 1..Len(s) - 1 : RemoveAt(s, p)[i] = IF i < p THEN s[i] ELSE s[i + 1]
<1> DEFINE front == SubSeq(s, 1, p - 1)
           back == SubSeq(s, p + 1, Len(s))
<1>1. Len(s) \in Nat /\ \A i \in 1..Len(s) : s[i] \in S
  BY LenProperties
<1>2. /\ front \in Seq(S) /\ Len(front) = p - 1
      /\ \A i \in 1..p - 1 : front[i] = s[i]
  <2>1. 1 \in Int /\ p - 1 \in Int /\ \A i \in 1..p - 1 : s[i] \in S
    BY <1>1
  <2>2. /\ front \in Seq(S)
        /\ Len(front) = (IF 1 <= p - 1 THEN p - 1 - 1 + 1 ELSE 0)
        /\ \A i \in 1..p - 1 - 1 + 1 : front[i] = s[1 + i - 1]
    BY <2>1, SubSeqProperties, SMT
  <2> HIDE DEF front
  <2> QED BY <1>1, <2>2
<1>3. /\ back \in Seq(S) /\ Len(back) = Len(s) - p
      /\ \A i \in 1..Len(s) - p : back[i] = s[p + i]
  <2>1. p + 1 \in Int /\ Len(s) \in Int /\ \A i \in p + 1..Len(s) : s[i] \in S
    BY <1>1
  <2>2. /\ back \in Seq(S)
        /\ Len(back) = (IF p + 1 <= Len(s) THEN Len(s) - (p + 1) + 1 ELSE 0)
        /\ \A i \in 1..Len(s) - (p + 1) + 1 : back[i] = s[p + 1 + i - 1]
    BY <2>1, SubSeqProperties, SMT
  <2> HIDE DEF back
  <2> QED BY <1>1, <2>2
<1>4. RemoveAt(s, p) = front \o back
  BY DEF RemoveAt
<1> HIDE DEF front, back
<1>5. /\ front \o back \in Seq(S)
      /\ Len(front \o back) = Len(front) + Len(back)
      /\ \A i \in 1..Len(front) + Len(back) :
           (front \o back)[i] = IF i <= Len(front) THEN front[i] ELSE back[i - Len(front)]
  BY <1>2, <1>3, ConcatProperties
<1> QED BY <1>1, <1>2, <1>3, <1>4, <1>5

\* What is left of the turns before a request, and where each of them stood.
Rest(sequence, key, rest, from) ==
  /\ rest \in Seq(Entries) /\ from \in [1..Len(rest) -> 1..Len(sequence)]
  /\ \A i \in 1..Len(rest) : rest[i] = sequence[from[i]] /\ sequence[from[i]][1] # key
  /\ \A i, j \in 1..Len(rest) : i < j => from[i] < from[j]

\* Others takes out a key and leaves the rest in order.
LEMMA OthersAre ==
  ASSUME NEW seq \in Seq(Entries), Once(seq), NEW key
  PROVE  LET others == Others(seq, key)
         IN  /\ Len(others) =< Len(seq)
             /\ (\E i \in 1..Len(seq) : seq[i][1] = key) => Len(others) < Len(seq)
             /\ \E from : /\ Rest(seq, key, others, from)
                          /\ \A j \in 1..Len(seq) :
                               seq[j][1] # key => \E i \in 1..Len(others) : from[i] = j
<1> DEFINE others == Others(seq, key)
<1>1. DOMAIN seq = 1..Len(seq) /\ Len(seq) \in Nat /\ \A i \in 1..Len(seq) : seq[i] \in Entries
  BY LenProperties
<1>2. CASE PlacesOf(seq, key) = {}
  <2> DEFINE from == [i \in 1..Len(seq) |-> i]
  <2>1. others = seq
    BY <1>2 DEF Others
  <2>2. \A i \in 1..Len(seq) : seq[i][1] # key
    BY <1>1, <1>2 DEF PlacesOf
  <2>3. Rest(seq, key, seq, from)
    BY <1>1, <2>2 DEF Rest
  <2>4. \A j \in 1..Len(seq) : from[j] = j
    OBVIOUS
  <2> HIDE DEF from
  <2> QED BY <1>1, <2>1, <2>2, <2>3, <2>4
<1>3. CASE PlacesOf(seq, key) # {}
  <2>1. PICK p \in 1..Len(seq) : seq[p][1] = key
    BY <1>1, <1>3 DEF PlacesOf
  <2>2. Max(PlacesOf(seq, key)) = p
    BY <2>1, OnePlace
  <2>3. others = RemoveAt(seq, p)
    BY <1>3, <2>2 DEF Others
  <2>4. /\ others \in Seq(Entries) /\ Len(others) = Len(seq) - 1
        /\ \A i \in 1..Len(seq) - 1 : others[i] = IF i < p THEN seq[i] ELSE seq[i + 1]
    BY <2>3, RemoveAtIs
  <2> HIDE DEF others
  <2> DEFINE from == [i \in 1..Len(others) |-> IF i < p THEN i ELSE i + 1]
  <2>5. \A j \in 1..Len(seq) : seq[j][1] = key => j = p
    BY <1>1, <2>1 DEF Once
  <2>6. Rest(seq, key, others, from)
    <3>1. from \in [1..Len(others) -> 1..Len(seq)]
      BY <1>1, <2>4
    <3>2. \A i \in 1..Len(others) : others[i] = seq[from[i]]
      BY <1>1, <2>4
    <3>3. \A i \in 1..Len(others) : from[i] # p
      BY <1>1, <2>4
    <3>4. \A i, j \in 1..Len(others) : i < j => from[i] < from[j]
      BY <1>1, <2>4
    <3> HIDE DEF from
    <3> QED BY <2>4, <2>5, <3>1, <3>2, <3>3, <3>4 DEF Rest
  <2>7. \A j \in 1..Len(seq) : seq[j][1] # key => \E i \in 1..Len(others) : from[i] = j
    <3> TAKE j \in 1..Len(seq)
    <3> HAVE seq[j][1] # key
    <3>1. CASE j < p
      BY <1>1, <2>4, <3>1
    <3>2. CASE j > p
      <4>1. j - 1 \in 1..Len(others) /\ from[j - 1] = j
        BY <1>1, <2>4, <3>2
      <4> QED BY <4>1
    <3> QED BY <1>1, <2>1, <3>1, <3>2
  <2> HIDE DEF from
  <2> QED BY <1>1, <2>4, <2>6, <2>7 DEF others
<1> QED BY <1>2, <1>3

\* Evicted takes out the first entry if there is one too many.
LEMMA EvictedIs ==
  ASSUME NEW S, NEW s \in Seq(S), Len(s) =< MaxTurns + 1
  PROVE  LET gone == IF Len(s) = MaxTurns + 1 THEN 1 ELSE 0
         IN  /\ Evicted(s) \in Seq(S)
             /\ Len(Evicted(s)) = Len(s) - gone
             /\ \A i \in 1..Len(s) - gone : Evicted(s)[i] = s[i + gone]
<1>1. Len(s) \in Nat /\ \A i \in 1..Len(s) : s[i] \in S
  BY LenProperties
<1>2. MaxTurns \in Nat \ {0}
  BY RouterAssumption
<1>3. CASE Len(s) = MaxTurns + 1
  <2>1. Evicted(s) = SubSeq(s, 2, Len(s))
    BY <1>1, <1>2, <1>3 DEF Evicted
  <2>2. 2 \in Int /\ Len(s) \in Int /\ \A i \in 2..Len(s) : s[i] \in S
    BY <1>1
  <2>3. /\ SubSeq(s, 2, Len(s)) \in Seq(S)
        /\ Len(SubSeq(s, 2, Len(s))) = (IF 2 <= Len(s) THEN Len(s) - 2 + 1 ELSE 0)
        /\ \A i \in 1..Len(s) - 2 + 1 : SubSeq(s, 2, Len(s))[i] = s[2 + i - 1]
    BY <2>2, SubSeqProperties, SMT
  <2> QED BY <1>1, <1>2, <1>3, <2>1, <2>3
<1>4. CASE Len(s) =< MaxTurns
  <2>1. Evicted(s) = s /\ Len(s) # MaxTurns + 1
    BY <1>1, <1>2, <1>4 DEF Evicted
  <2> QED BY <1>1, <2>1
<1> QED BY <1>1, <1>2, <1>3, <1>4

\* What a request leaves of the turns: they keep their order, the turn of the request stands
\* last, and if an older one is gone, MaxTurns - 1 younger ones stay.
Left(before, key, model, after) ==
  /\ after \in Seq(Entries) /\ Len(after) \in 1..MaxTurns /\ after[Len(after)] = <<key, model>>
  /\ \E from \in [1..Len(after) - 1 -> 1..Len(before)] :
       /\ \A i \in 1..Len(after) - 1 : after[i] = before[from[i]] /\ before[from[i]][1] # key
       /\ \A i, j \in 1..Len(after) - 1 : i < j => from[i] < from[j]
       /\ \A j \in 1..Len(before) :
            before[j][1] # key =>
              \/ \E i \in 1..Len(after) - 1 : from[i] = j
              \/ Len(after) = MaxTurns /\ \A i \in 1..Len(after) - 1 : j < from[i]

\* The table after an answer: the key at the end, the rest in order before it.
LEMMA TurnsAfter ==
  ASSUME NEW seq \in Seq(Entries), Once(seq), Len(seq) =< MaxTurns,
         NEW key \in Keys, NEW model \in Aliases
  PROVE  Left(seq, key, model, Evicted(Placed(seq, key, model)))
<1> DEFINE others == Others(seq, key)
           placed == Placed(seq, key, model)
           after == Evicted(placed)
           gone == IF Len(placed) = MaxTurns + 1 THEN 1 ELSE 0
           n == Len(after)
<1>1. MaxTurns \in Nat \ {0} /\ Len(seq) \in Nat
  BY RouterAssumption, LenProperties
<1>2. PICK old : /\ Len(others) =< Len(seq) /\ Rest(seq, key, others, old)
                 /\ \A j \in 1..Len(seq) :
                      seq[j][1] # key => \E i \in 1..Len(others) : old[i] = j
  BY OthersAre
<1>3. /\ others \in Seq(Entries) /\ old \in [1..Len(others) -> 1..Len(seq)]
      /\ \A i \in 1..Len(others) : others[i] = seq[old[i]] /\ seq[old[i]][1] # key
      /\ \A i, j \in 1..Len(others) : i < j => old[i] < old[j]
      /\ Len(others) \in Nat
  BY <1>2, LenProperties DEF Rest
<1> HIDE DEF others
<1>4. /\ placed \in Seq(Entries) /\ Len(placed) = Len(others) + 1
      /\ \A i \in 1..Len(others) : placed[i] = others[i]
      /\ placed[Len(others) + 1] = <<key, model>>
  <2>1. placed = Append(others, <<key, model>>) /\ <<key, model>> \in Entries
    BY DEF Placed, others, Entries
  <2> QED BY <1>3, <2>1, AppendProperties
<1>5. /\ after \in Seq(Entries) /\ n = Len(placed) - gone
      /\ \A i \in 1..Len(placed) - gone : after[i] = placed[i + gone]
  <2>1. Len(placed) =< MaxTurns + 1
    BY <1>1, <1>2, <1>3, <1>4
  <2> HIDE DEF placed
  <2> QED BY <1>4, <2>1, EvictedIs
<1> HIDE DEF placed, after
<1>6. gone \in {0, 1} /\ gone =< Len(others) /\ n = Len(others) + 1 - gone /\ n \in 1..MaxTurns
  BY <1>1, <1>2, <1>3, <1>4, <1>5
<1>7. gone = 1 => n = MaxTurns
  BY <1>1, <1>4, <1>5
<1> HIDE DEF gone, n
<1> DEFINE from == [i \in 1..n - 1 |-> old[i + gone]]
<1>8. after[n] = <<key, model>>
  <2>1. n \in 1..Len(placed) - gone /\ n + gone = Len(others) + 1
    BY <1>3, <1>4, <1>5, <1>6
  <2> QED BY <1>4, <1>5, <2>1
<1>9. \A i \in 1..n - 1 : i + gone \in 1..Len(others) /\ i \in 1..Len(placed) - gone
  BY <1>3, <1>4, <1>6
<1>10. from \in [1..n - 1 -> 1..Len(seq)]
  BY <1>3, <1>9
<1>11. \A i \in 1..n - 1 : after[i] = seq[from[i]] /\ seq[from[i]][1] # key
  BY <1>3, <1>4, <1>5, <1>9
<1>12. \A i, j \in 1..n - 1 : i < j => from[i] < from[j]
  BY <1>3, <1>6, <1>9
<1>13. ASSUME NEW j \in 1..Len(seq), seq[j][1] # key
       PROVE  \/ \E i \in 1..n - 1 : from[i] = j
              \/ n = MaxTurns /\ \A i \in 1..n - 1 : j < from[i]
  <2>1. PICK i \in 1..Len(others) : old[i] = j
    BY <1>2, <1>13
  <2>2. CASE i =< gone
    <3>1. i = 1 /\ gone = 1
      BY <1>3, <1>6, <2>2
    <3>2. \A h \in 1..n - 1 : i < h + gone
      BY <3>1
    <3> QED BY <1>3, <1>7, <1>9, <2>1, <3>1, <3>2
  <2>3. CASE i > gone
    <3>1. i - gone \in 1..n - 1 /\ from[i - gone] = j
      BY <1>3, <1>6, <2>1, <2>3
    <3> QED BY <3>1
  <2> QED BY <1>3, <1>6, <2>2, <2>3
<1> HIDE DEF from
<1>14. /\ after \in Seq(Entries) /\ n \in 1..MaxTurns /\ after[n] = <<key, model>>
       /\ \E f \in [1..n - 1 -> 1..Len(seq)] :
            /\ \A i \in 1..n - 1 : after[i] = seq[f[i]] /\ seq[f[i]][1] # key
            /\ \A i, j \in 1..n - 1 : i < j => f[i] < f[j]
            /\ \A j \in 1..Len(seq) :
                 seq[j][1] # key =>
                   \/ \E i \in 1..n - 1 : f[i] = j
                   \/ n = MaxTurns /\ \A i \in 1..n - 1 : j < f[i]
  BY <1>5, <1>6, <1>8, <1>10, <1>11, <1>12, <1>13
<1> QED BY <1>14 DEF Left, n, after, placed

\* Whatever is decided is an alias.
LEMMA DecisionIsAlias ==
  ASSUME NEW existing \in Aliases \cup {Absent}, NEW input
  PROVE  Decision(existing, input) \in Aliases
  BY DEF Decision, Aliases

\* The type invariant by the length of the table.
LEMMA TurnsType ==
  RouterTypeOK <=>
    /\ turns \in Seq(Entries) /\ Len(turns) =< MaxTurns
    /\ used \subseteq Uuid
    /\ last \in [Keys -> Aliases \cup {Absent}]
    /\ since \in [Keys -> SUBSET Keys]
<1>1. MaxTurns \in Nat
  BY RouterAssumption
<1>2. turns \in BoundedSeq(Keys \X Aliases, MaxTurns)
        <=> turns \in Seq(Keys \X Aliases) /\ Len(turns) =< MaxTurns
  BY <1>1, BoundedIs
<1> QED BY <1>2, Zenon DEF RouterTypeOK, Entries

\* An empty table.
LEMMA RouterInvAtFirst == RouterInit => RouterInv
<1> SUFFICES ASSUME RouterInit PROVE RouterInv
  OBVIOUS
<1> USE DEF RouterInit
<1>1. RouterTypeOK
  <2>1. turns \in Seq(Entries) /\ Len(turns) = 0 /\ MaxTurns \in Nat
    BY RouterAssumption
  <2>2. \A k \in Keys : last[k] = Absent /\ since[k] = {}
    OBVIOUS
  <2> QED BY <2>1, TurnsType
<1>2. DOMAIN turns = {}
  OBVIOUS
<1>3. SinceIsFinite
  BY FS_EmptySet DEF SinceIsFinite
<1>4. StillThere
  BY DEF StillThere
<1> QED BY <1>1, <1>2, <1>3, <1>4 DEF RouterInv, KeysStandOnce, Once, AliasesAreLast, LaterAskedSince

\* An answer keeps the invariant.
LEMMA ChooseKeeps ==
  ASSUME RouterInv, NEW key \in Keys, NEW uuid \in Uuid, NEW model \in Aliases,
         Choose(key, uuid, model)
  PROVE  RouterInv'
<1>1. /\ turns \in Seq(Entries) /\ Len(turns) =< MaxTurns
      /\ used \subseteq Uuid
      /\ last \in [Keys -> Aliases \cup {Absent}]
      /\ since \in [Keys -> SUBSET Keys]
  BY TurnsType DEF RouterInv
<1>2. Once(turns)
  BY DEF RouterInv, KeysStandOnce
<1> DEFINE n == Len(turns')
<1>3. Left(turns, key, model, turns')
  BY <1>1, <1>2, TurnsAfter DEF Choose
<1>4. turns' \in Seq(Entries) /\ n \in 1..MaxTurns /\ turns'[n] = <<key, model>>
  BY <1>3 DEF Left
<1>5. PICK from \in [1..n - 1 -> 1..Len(turns)] :
        /\ \A i \in 1..n - 1 : turns'[i] = turns[from[i]] /\ turns[from[i]][1] # key
        /\ \A i, j \in 1..n - 1 : i < j => from[i] < from[j]
        /\ \A j \in 1..Len(turns) :
             turns[j][1] # key =>
               \/ \E i \in 1..n - 1 : from[i] = j
               \/ n = MaxTurns /\ \A i \in 1..n - 1 : j < from[i]
  BY <1>3 DEF Left
<1>6. /\ DOMAIN turns = 1..Len(turns) /\ Len(turns) \in Nat /\ \A i \in 1..Len(turns) : turns[i] \in Entries
      /\ DOMAIN turns' = 1..n /\ \A i \in 1..n : turns'[i] \in Entries
      /\ n \in Nat \ {0} /\ MaxTurns \in Nat \ {0}
  BY <1>1, <1>4, RouterAssumption, LenProperties
<1> HIDE DEF n
<1>7. /\ turns'[n][1] = key /\ turns'[n][2] = model
      /\ \A i \in 1..n : i # n => i \in 1..n - 1
  BY <1>4, <1>6
<1>8. /\ last' = [last EXCEPT ![key] = model]
      /\ since' = [k \in Keys |-> IF k = key \/ last[k] = Absent THEN {} ELSE since[k] \cup {key}]
      /\ used' \subseteq Uuid
  BY <1>1 DEF Choose
<1>9. RouterTypeOK'
  <2>1. last' \in [Keys -> Aliases \cup {Absent}] /\ since' \in [Keys -> SUBSET Keys]
    BY <1>1, <1>8
  <2>2. turns' \in Seq(Entries) /\ Len(turns') =< MaxTurns
    BY <1>4 DEF n
  <2>3. (/\ turns \in Seq(Entries) /\ Len(turns) =< MaxTurns
         /\ used \subseteq Uuid
         /\ last \in [Keys -> Aliases \cup {Absent}]
         /\ since \in [Keys -> SUBSET Keys])' => RouterTypeOK'
    BY TurnsType, PTL
  <2> QED BY <1>8, <2>1, <2>2, <2>3
<1>10. Once(turns')
  <2> SUFFICES ASSUME NEW i \in 1..n, NEW j \in 1..n, i < j PROVE turns'[i][1] # turns'[j][1]
    BY <1>6 DEF Once
  <2>1. i \in 1..n - 1 /\ from[i] \in 1..Len(turns) /\ turns'[i][1] # key
        /\ turns'[i] = turns[from[i]]
    BY <1>5, <1>6
  <2>2. CASE j \in 1..n - 1
    <3>1. from[j] \in 1..Len(turns) /\ turns'[j] = turns[from[j]] /\ from[i] < from[j]
      BY <1>5, <2>1, <2>2
    <3> QED BY <1>2, <1>6, <2>1, <3>1 DEF Once
  <2> QED BY <1>7, <2>1, <2>2
<1>11. KeysStandOnce'
  BY <1>10 DEF KeysStandOnce
<1>12. \A i \in 1..Len(turns) : turns[i][1] \in Keys /\ last[turns[i][1]] = turns[i][2]
                               /\ last[turns[i][1]] # Absent
  <2>1. \A i \in 1..Len(turns) : turns[i][1] \in Keys /\ turns[i][2] \in Aliases
    BY <1>6 DEF Entries
  <2>2. Absent \notin Aliases
    BY RouterAssumption DEF Aliases
  <2> QED BY <1>6, <2>1, <2>2 DEF RouterInv, AliasesAreLast
<1>13. AliasesAreLast'
  <2> SUFFICES ASSUME NEW i \in 1..n PROVE turns'[i][2] = last'[turns'[i][1]]
    BY <1>6 DEF AliasesAreLast
  <2>1. CASE i = n
    BY <1>1, <1>7, <1>8, <2>1
  <2>2. CASE i \in 1..n - 1
    <3>1. from[i] \in 1..Len(turns) /\ turns'[i] = turns[from[i]] /\ turns[from[i]][1] # key
      BY <1>5, <2>2
    <3> QED BY <1>1, <1>8, <1>12, <3>1
  <2> QED BY <1>7, <2>1, <2>2
<1>14. \A k \in Keys : k # key /\ last[k] # Absent => since'[k] = since[k] \cup {key}
  BY <1>8
<1>15. LaterAskedSince'
  <2> SUFFICES ASSUME NEW i \in 1..n, NEW j \in 1..n, i < j
               PROVE  turns'[j][1] \in since'[turns'[i][1]]
    BY <1>6 DEF LaterAskedSince
  <2>1. i \in 1..n - 1
    BY <1>6
  <2>2. /\ from[i] \in 1..Len(turns) /\ turns'[i] = turns[from[i]] /\ turns[from[i]][1] # key
        /\ since'[turns'[i][1]] = since[turns'[i][1]] \cup {key}
    BY <1>5, <1>12, <1>14, <2>1
  <2>3. CASE j = n
    BY <1>7, <2>2, <2>3
  <2>4. CASE j \in 1..n - 1
    <3>1. from[j] \in 1..Len(turns) /\ turns'[j] = turns[from[j]] /\ from[i] < from[j]
      BY <1>5, <2>1, <2>4
    <3>2. turns[from[j]][1] \in since[turns[from[i]][1]]
      BY <1>6, <2>2, <3>1 DEF RouterInv, LaterAskedSince
    <3> QED BY <2>2, <3>1, <3>2
  <2> QED BY <1>7, <2>3, <2>4
<1>16. SinceIsFinite'
  <2> SUFFICES ASSUME NEW k \in Keys PROVE IsFiniteSet(since'[k])
    BY DEF SinceIsFinite
  <2>1. IsFiniteSet(since[k]) /\ IsFiniteSet({})
    BY FS_EmptySet DEF RouterInv, SinceIsFinite
  <2>2. IsFiniteSet(since[k] \cup {key})
    BY <2>1, FS_AddElement
  <2> QED BY <1>8, <2>1, <2>2
<1>17. StillThere'
  <2> SUFFICES ASSUME NEW k \in Keys, last'[k] # Absent, Cardinality(since'[k]) < MaxTurns,
                      \A i \in 1..n : turns'[i][1] # k
               PROVE  FALSE
    BY <1>6 DEF StillThere
  <2>1. k # key /\ last[k] # Absent /\ since'[k] = since[k] \cup {key}
    BY <1>1, <1>6, <1>7, <1>8, <1>14
  <2>2. IsFiniteSet(since[k]) /\ IsFiniteSet(since'[k])
    BY <1>16 DEF RouterInv, SinceIsFinite
  <2>3. Cardinality(since[k]) =< Cardinality(since'[k]) /\ Cardinality(since[k]) \in Nat
        /\ Cardinality(since'[k]) \in Nat
    BY <2>1, <2>2, FS_Subset, FS_CardinalityType
  <2>4. Cardinality(since[k]) < MaxTurns
    BY <1>6, <2>3
  <2>5. PICK j \in 1..Len(turns) : turns[j][1] = k
    BY <1>6, <2>1, <2>4 DEF RouterInv, StillThere
  <2>6. ~ \E i \in 1..n - 1 : from[i] = j
    BY <1>5, <1>6, <2>5
  <2>7. n = MaxTurns /\ \A i \in 1..n - 1 : j < from[i]
    BY <1>5, <2>1, <2>5, <2>6
  <2>8. \A i \in 1..n : turns'[i][1] \in since'[k]
    <3> SUFFICES ASSUME NEW i \in 1..n PROVE turns'[i][1] \in since'[k]
      OBVIOUS
    <3>1. CASE i = n
      BY <1>7, <2>1, <3>1
    <3>2. CASE i \in 1..n - 1
      <4>1. from[i] \in 1..Len(turns) /\ turns'[i] = turns[from[i]] /\ j < from[i]
        BY <1>5, <2>7, <3>2
      <4>2. turns[from[i]][1] \in since[turns[j][1]]
        BY <1>6, <4>1 DEF RouterInv, LaterAskedSince
      <4> QED BY <2>1, <2>5, <4>1, <4>2
    <3> QED BY <1>7, <3>1, <3>2
  <2> DEFINE who == [i \in 1..n |-> turns'[i][1]]
  <2>9. who \in [1..n -> since'[k]]
    BY <2>8
  <2>10. IsFiniteSet(1..n) /\ Cardinality(1..n) = MaxTurns
    <3>1. n = MaxTurns /\ n \in Nat \ {0}
      BY <2>7, RouterAssumption
    <3>2. IsFiniteSet(1..n) /\ Cardinality(1..n) = n - 1 + 1
      BY ONLY <3>1, FS_Interval
    <3> QED BY <3>1, <3>2
  <2> HIDE DEF who
  <2>11. PICK x, y \in 1..n : x # y /\ who[x] = who[y]
    <3> DEFINE many == 1..n
               few  == since'[k]
    <3>1. IsFiniteSet(many) /\ IsFiniteSet(few) /\ Cardinality(few) < Cardinality(many)
      BY <2>2, <2>10
    <3>2. who \in [many -> few]
      BY <2>9
    <3> HIDE DEF many, few
    <3>3. \E x, y \in many : x # y /\ who[x] = who[y]
      BY <3>1, <3>2, FS_PigeonHole
    <3> QED BY <3>3 DEF many
  <2> QED BY <1>6, <1>10, <2>11 DEF who, Once
<1> QED BY <1>9, <1>11, <1>13, <1>15, <1>16, <1>17 DEF RouterInv

\* Every step keeps the invariant.
LEMMA RouterStep == RouterInv /\ [RouterNext]_routerVars => RouterInv'
<1> SUFFICES ASSUME RouterInv, [RouterNext]_routerVars PROVE RouterInv'
  OBVIOUS
<1>1. CASE RouterNext
  <2>1. PICK c \in Client, uuid \in Uuid :
          \E model \in Decisions(KeyOf(c, uuid)) : Choose(KeyOf(c, uuid), uuid, model)
    BY <1>1 DEF RouterNext
  <2>2. PICK model \in Decisions(KeyOf(c, uuid)) : Choose(KeyOf(c, uuid), uuid, model)
    BY <2>1
  <2>3. KeyOf(c, uuid) \in Keys
    BY DEF Keys
  <2>4. turns \in Seq(Entries) /\ Once(turns)
    BY TurnsType DEF RouterInv, KeysStandOnce
  <2>5. model \in Aliases
    BY <2>4, AliasOfIs, DecisionIsAlias DEF Decisions
  <2> QED BY <2>2, <2>3, <2>5, ChooseKeeps
<1>2. CASE UNCHANGED routerVars
  BY <1>2 DEF routerVars, RouterInv, RouterTypeOK, KeysStandOnce, Once, AliasesAreLast,
     LaterAskedSince, SinceIsFinite, StillThere
<1> QED BY <1>1, <1>2

\* The invariant tells the alias of every key asked for recently.
LEMMA InvRemembers == RouterInv => TurnIsRemembered
<1> SUFFICES ASSUME RouterInv, NEW k \in Keys, last[k] # Absent, Cardinality(since[k]) < MaxTurns
             PROVE  AliasOf(turns, k) = last[k]
  BY DEF TurnIsRemembered
<1>1. turns \in Seq(Entries) /\ Once(turns) /\ DOMAIN turns = 1..Len(turns)
  BY TurnsType, LenProperties DEF RouterInv, KeysStandOnce
<1>2. PICK i \in 1..Len(turns) : turns[i][1] = k
  BY <1>1 DEF RouterInv, StillThere
<1>3. AliasOf(turns, k) = turns[i][2]
  BY <1>1, <1>2, AliasOfIs
<1> QED BY <1>1, <1>2, <1>3 DEF RouterInv, AliasesAreLast

\* _choose_and_remember, its eviction and its touch: a turn keeps its alias while fewer than MaxTurns
\* others were asked for since.
THEOREM AlwaysRemembered == RouterSpec => []TurnIsRemembered
<1>1. RouterInit => RouterInv
  BY RouterInvAtFirst
<1>2. RouterInv /\ [RouterNext]_routerVars => RouterInv'
  BY RouterStep
<1>3. RouterInv => TurnIsRemembered
  BY InvRemembers
<1> QED BY <1>1, <1>2, <1>3, PTL DEF RouterSpec

-----------------------------------------------------------------------------
\* InsertAt by elements.
LEMMA InsertAtIs ==
  ASSUME NEW S, NEW s \in Seq(S), NEW p \in 1..Len(s) + 1, NEW e \in S
  PROVE  /\ InsertAt(s, p, e) \in Seq(S)
         /\ Len(InsertAt(s, p, e)) = Len(s) + 1
         /\ InsertAt(s, p, e)[p] = e
         /\ \A i \in 1..Len(s) : InsertAt(s, p, e)[IF i < p THEN i ELSE i + 1] = s[i]
<1> DEFINE front == SubSeq(s, 1, p - 1)
           back == SubSeq(s, p, Len(s))
<1>1. Len(s) \in Nat /\ \A i \in 1..Len(s) : s[i] \in S
  BY LenProperties
<1>2. /\ front \in Seq(S) /\ Len(front) = p - 1
      /\ \A i \in 1..p - 1 : front[i] = s[i]
  <2>1. 1 \in Int /\ p - 1 \in Int /\ \A i \in 1..p - 1 : s[i] \in S
    BY <1>1
  <2>2. /\ front \in Seq(S)
        /\ Len(front) = (IF 1 <= p - 1 THEN p - 1 - 1 + 1 ELSE 0)
        /\ \A i \in 1..p - 1 - 1 + 1 : front[i] = s[1 + i - 1]
    BY <2>1, SubSeqProperties, SMT
  <2> HIDE DEF front
  <2> QED BY <1>1, <2>2
<1>3. /\ back \in Seq(S) /\ Len(back) = Len(s) - p + 1
      /\ \A i \in 1..Len(s) - p + 1 : back[i] = s[p + i - 1]
  <2>1. p \in Int /\ Len(s) \in Int /\ \A i \in p..Len(s) : s[i] \in S
    BY <1>1
  <2>2. /\ back \in Seq(S)
        /\ Len(back) = (IF p <= Len(s) THEN Len(s) - p + 1 ELSE 0)
        /\ \A i \in 1..Len(s) - p + 1 : back[i] = s[p + i - 1]
    BY <2>1, SubSeqProperties, SMT
  <2> HIDE DEF back
  <2> QED BY <1>1, <2>2
<1>4. <<e>> \in Seq(S) /\ Len(<<e>>) = 1 /\ <<e>>[1] = e
  OBVIOUS
<1>5. InsertAt(s, p, e) = (front \o <<e>>) \o back
  BY DEF InsertAt
<1> HIDE DEF front, back
<1>6. /\ front \o <<e>> \in Seq(S) /\ Len(front \o <<e>>) = p
      /\ (front \o <<e>>)[p] = e /\ \A i \in 1..p - 1 : (front \o <<e>>)[i] = s[i]
  <2>1. /\ front \o <<e>> \in Seq(S) /\ Len(front \o <<e>>) = Len(front) + Len(<<e>>)
        /\ \A i \in 1..Len(front) + Len(<<e>>) :
             (front \o <<e>>)[i] = IF i <= Len(front) THEN front[i] ELSE <<e>>[i - Len(front)]
    BY <1>2, <1>4, ConcatProperties
  <2> QED BY <1>1, <1>2, <1>4, <2>1
<1> DEFINE start == front \o <<e>>
<1>7. /\ start \in Seq(S) /\ Len(start) = p
      /\ start[p] = e /\ \A i \in 1..p - 1 : start[i] = s[i]
  BY <1>6
<1> HIDE DEF start
<1>8. /\ start \o back \in Seq(S) /\ Len(start \o back) = Len(start) + Len(back)
      /\ \A i \in 1..Len(start) + Len(back) :
           (start \o back)[i] = IF i <= Len(start) THEN start[i] ELSE back[i - Len(start)]
  BY <1>3, <1>7, ConcatProperties
<1>9. /\ start \o back \in Seq(S) /\ Len(start \o back) = Len(s) + 1
      /\ (start \o back)[p] = e
      /\ \A i \in 1..Len(s) : (start \o back)[IF i < p THEN i ELSE i + 1] = s[i]
  <2>1. ASSUME NEW i \in 1..Len(s), i < p PROVE (start \o back)[i] = s[i]
    BY <1>1, <1>3, <1>7, <1>8, <2>1
  <2>2. ASSUME NEW i \in 1..Len(s), ~(i < p) PROVE (start \o back)[i + 1] = s[i]
    <3>1. /\ i + 1 \in 1..Len(start) + Len(back) /\ ~(i + 1 <= Len(start))
          /\ i + 1 - Len(start) = i - p + 1 /\ i - p + 1 \in 1..Len(s) - p + 1
          /\ p + (i - p + 1) - 1 = i
      BY <1>1, <1>3, <1>7, <2>2
    <3>2. (start \o back)[i + 1] = back[i - p + 1]
      BY <1>8, <3>1
    <3>3. back[i - p + 1] = s[p + (i - p + 1) - 1]
      BY <1>3, <3>1
    <3> QED BY <3>1, <3>2, <3>3
  <2> QED BY <1>1, <1>3, <1>7, <1>8, <2>1, <2>2
<1> QED BY <1>5, <1>9 DEF start

\* A message that is not the user's changes nothing that Decision looks at.
LEMMA InstructionDoesNotRoute ==
  ASSUME NEW existing, NEW input \in Inputs, UserMessages(input) # {},
         NEW said \in Item, said.from = "developer", ~said.image, NEW p \in 1..Len(input) + 1
  PROVE  Decision(existing, InsertAt(input, p, said)) = Decision(existing, input)
<1> DEFINE n == Len(input)
           longer == InsertAt(input, p, said)
           Place(i) == IF i < p THEN i ELSE i + 1
<1>1. input \in Seq(Item)
  BY DEF Inputs
<1>2. n \in Nat /\ DOMAIN input = 1..n /\ p \in 1..n + 1
  BY <1>1, LenProperties
<1>3. /\ longer \in Seq(Item) /\ Len(longer) = n + 1 /\ longer[p] = said
      /\ \A i \in 1..n : longer[Place(i)] = input[i]
  BY <1>1, InsertAtIs
<1>4. DOMAIN longer = 1..n + 1
  BY <1>3, LenProperties
<1>5. /\ \A i \in 1..n : Place(i) \in 1..n + 1 /\ Place(i) # p
      /\ \A i, j \in 1..n : i =< j => Place(i) =< Place(j)
      /\ \A k \in 1..n + 1 : k # p => \E i \in 1..n : k = Place(i)
  <2>1. \A k \in 1..n + 1 : k # p => \E i \in 1..n : k = Place(i)
    <3> TAKE k \in 1..n + 1
    <3> HAVE k # p
    <3>1. CASE k < p
      <4>1. k \in 1..n /\ Place(k) = k
        BY <1>2, <3>1
      <4> QED BY <4>1
    <3>2. CASE k > p
      <4>1. k - 1 \in 1..n /\ Place(k - 1) = k
        BY <1>2, <3>2
      <4> QED BY <4>1
    <3> QED BY <1>2, <3>1, <3>2
  <2> QED BY <1>2, <2>1
<1> HIDE DEF n, longer, Place
<1>6. /\ \A i \in DOMAIN input : Place(i) \in DOMAIN longer /\ longer[Place(i)] = input[i]
      /\ \A k \in DOMAIN longer :
           \/ longer[k] = said
           \/ \E i \in DOMAIN input : k = Place(i) /\ longer[k] = input[i]
  <2>1. ASSUME NEW i \in DOMAIN input PROVE Place(i) \in DOMAIN longer /\ longer[Place(i)] = input[i]
    BY <1>2, <1>3, <1>4, <1>5
  <2>2. ASSUME NEW k \in DOMAIN longer, k # p
        PROVE  \E i \in DOMAIN input : k = Place(i) /\ longer[k] = input[i]
    <3>1. PICK i \in 1..n : k = Place(i)
      BY <1>4, <1>5, <2>2
    <3> QED BY <1>2, <1>3, <3>1
  <2> QED BY <1>3, <2>1, <2>2
<1>7. (HasImage(longer) <=> HasImage(input)) /\ (HasToolError(longer) <=> HasToolError(input))
  <2>1. HasImage(longer) <=> HasImage(input)
    BY <1>6, Zenon DEF HasImage
  <2>2. ASSUME HasToolError(longer) PROVE HasToolError(input)
    <3>1. PICK k \in DOMAIN longer : longer[k].from = "tool" /\ "error" \in longer[k].words
      BY <2>2 DEF HasToolError
    <3>2. PICK i \in DOMAIN input : longer[k] = input[i]
      BY <1>6, <3>1
    <3> QED BY <3>1, <3>2 DEF HasToolError
  <2>3. ASSUME HasToolError(input) PROVE HasToolError(longer)
    BY <1>6, <2>3, Zenon DEF HasToolError
  <2> QED BY <2>1, <2>2, <2>3
<1>8. LatestUserWords(longer) = LatestUserWords(input)
  <2> DEFINE here == UserMessages(input)
             there == UserMessages(longer)
  <2>1. here \subseteq 1..n /\ there \subseteq 1..n + 1
    BY <1>2, <1>4 DEF UserMessages
  <2>2. there = {Place(i) : i \in here}
    <3>1. ASSUME NEW k \in there PROVE k \in {Place(i) : i \in here}
      <4>1. k \in DOMAIN longer /\ longer[k].from = "user"
        BY DEF UserMessages
      <4>2. PICK i \in DOMAIN input : k = Place(i) /\ longer[k] = input[i]
        BY <1>6, <4>1
      <4> QED BY <4>1, <4>2 DEF UserMessages
    <3>2. ASSUME NEW i \in here PROVE Place(i) \in there
      BY <1>6 DEF UserMessages
    <3> HIDE DEF here, there
    <3> QED BY <3>1, <3>2
  <2>3. IsFiniteSet(1..n) /\ IsFiniteSet(1..n + 1)
    BY <1>2, FS_Interval
  <2>4. IsFiniteSet(here) /\ IsFiniteSet(there)
    BY <2>1, <2>3, FS_Subset
  <2>5. here # {} /\ there # {}
    BY <2>2
  <2> HIDE DEF here, there
  <2>6. /\ Max(here) \in here /\ \A i \in here : i =< Max(here)
        /\ Max(there) \in there /\ \A i \in there : i =< Max(there)
    <3>1. here \subseteq Nat /\ there \subseteq Nat
      BY <1>2, <2>1
    <3> QED BY <2>4, <2>5, <3>1, GreatestIsOne
  <2>7. Max(there) = Place(Max(here))
    <3>1. PICK i \in here : Max(there) = Place(i)
      BY <2>2, <2>6
    <3>2. Place(i) =< Place(Max(here))
      BY <1>5, <2>1, <2>6
    <3>3. Place(Max(here)) =< Max(there)
      BY <2>2, <2>6
    <3>4. Max(here) \in 1..n /\ Max(there) \in 1..n + 1
      BY <2>1, <2>6
    <3>5. Max(there) \in Nat /\ Place(Max(here)) \in Nat
      BY <1>2, <1>5, <3>4
    <3> QED BY <3>1, <3>2, <3>3, <3>5
  <2>8. longer[Max(there)] = input[Max(here)]
    BY <1>3, <2>1, <2>6, <2>7
  <2> QED BY <2>5, <2>8 DEF LatestUserWords, here, there
<1>9. Decision(existing, longer) = Decision(existing, input)
  BY <1>7, <1>8 DEF Decision
<1> QED BY <1>9 DEF longer

\* An input, and what it is with an instruction in it.
Told(input) ==
  {<<input, InsertAt(input, i, said)>> :
     i \in 1..Len(input) + 1, said \in {item \in Item : item.from = "developer" /\ ~item.image}}

LEMMA InstructionsAreUnmoved == RouterInv => InstructionsDoNotRoute
<1>1. ASSUME NEW existing, NEW pair \in Instructed
      PROVE  Decision(existing, pair[2]) = Decision(existing, pair[1])
  <2>0. PICK input \in {spoken \in Inputs : UserMessages(spoken) # {}} : pair \in Told(input)
    BY DEF Instructed, Told
  <2>1. PICK p \in 1..Len(input) + 1, said \in {item \in Item : item.from = "developer" /\ ~item.image} :
          pair = <<input, InsertAt(input, p, said)>>
    BY <2>0 DEF Told
  <2>2. pair[1] = input /\ pair[2] = InsertAt(input, p, said)
    BY <2>1
  <2> QED BY <2>1, <2>2, InstructionDoesNotRoute
<1> SUFFICES ASSUME RouterInv, NEW k \in Keys PROVE AliasOf(turns, k) \in Unmoved
  BY DEF InstructionsDoNotRoute
<1>2. turns \in Seq(Entries) /\ Once(turns)
  BY TurnsType DEF RouterInv, KeysStandOnce
<1>3. AliasOf(turns, k) \in Aliases \cup {Absent}
  BY <1>2, AliasOfIs
<1> QED BY <1>1, <1>3 DEF Unmoved

\* _contains: what the developer message says decides nothing while there is a user message.
THEOREM InstructionsNeverRoute == RouterSpec => []InstructionsDoNotRoute
  BY InstructionsAreUnmoved, RouterInvAtFirst, RouterStep, PTL DEF RouterSpec

-----------------------------------------------------------------------------
(* The rounds of a request.                                                *)

-----------------------------------------------------------------------------
\* The keys that normalization knows.
LEMMA WordsAre == \A key \in {"command", "cmd", "workdir", "path", "query", "url"} : key \in Word
  BY RoundsAssumption

\* The tools of a request and the names of the local ones.
LEMMA NamesAre ==
  ASSUME tools \in ToolList
  PROVE  /\ Offered \subseteq Name /\ LocalWeb \subseteq Offered /\ Exec \in Name
         /\ \A c \in {"web_search", "fetch_page"} : Plain(c) \in LocalWeb
<1>1. SentNames \subseteq Name
  BY RoundsAssumption DEF SentNames
<1>2. LocalWeb \subseteq Name /\ Exec \in Name
  <2>1. \A b \in {"exec_command", "web_search", "fetch_page"} : b \in Word
    BY RoundsAssumption
  <2>2. \A b \in Word : Plain(b) \in Name
    BY DEF Plain, Name
  <2> QED BY <2>1, <2>2 DEF LocalWeb, Exec
<1> QED BY <1>1, <1>2 DEF Offered, LocalWeb

\* A canonical name has a provider among the tools.
LEMMA ProviderIs ==
  ASSUME tools \in ToolList, NEW canonical \in {"web_search", "fetch_page"}
  PROVE  Provider(canonical, Offered) \in Offered
<1> DEFINE matches == {c \in Offered : c.base = canonical /\ c.prefix # "namespace"}
           ranks == {SortsAt(c) : c \in matches}
<1>1. Plain(canonical) \in matches
  BY NamesAre DEF Plain
<1>2. \A c \in matches : SortsAt(c) \in Nat
  BY DEF SortsAt
<1>3. PICK least \in ranks : \A x \in ranks : least =< x
  <2>1. ranks \subseteq Nat /\ ranks # {}
    BY <1>1, <1>2
  <2> HIDE DEF ranks
  <2> QED BY <2>1, LeastExists
<1>4. PICK c \in matches : least = SortsAt(c)
  BY <1>3
<1>5. \A d \in matches : SortsAt(c) <= SortsAt(d)
  BY <1>3, <1>4
<1>6. Provider(canonical, Offered) = CHOOSE x \in matches : \A d \in matches : SortsAt(x) <= SortsAt(d)
  BY Zenon DEF Provider
<1> HIDE DEF matches
<1>7. (CHOOSE x \in matches : \A d \in matches : SortsAt(x) <= SortsAt(d)) \in matches
  BY <1>4, <1>5
<1> QED BY <1>6, <1>7 DEF matches

\* A name becomes that of a tool, or unsupported.
LEMMA CanonicalIs ==
  ASSUME tools \in ToolList, NEW name
  PROVE  Canonical(name, Offered) \in Offered \cup {Unsupported}
  BY ProviderIs DEF Canonical

\* Renaming leaves keys of arguments.
LEMMA RenamedAre ==
  ASSUME NEW keys \in SUBSET Word, NEW key \in Word, NEW aliases
  PROVE  Renamed(keys, key, aliases) \in SUBSET Word
  BY DEF Renamed

\* Arguments with which a shell call may reach Codex: those of an object have a command.
MayRun(a) ==
  /\ a.shape \in {"object", "list", "string", "none"}
  /\ a.shape # "none" => "cmd" \in a.keys

\* Renaming a key leaves arguments, or raises, as it does for a number.
LEMMA RenameIs ==
  ASSUME NEW data \in Argument, NEW key \in Word, NEW aliases
  PROVE  LET made == Rename(data, key, aliases)
         IN  /\ made \in Data
             /\ made # Raises =>
                  made \in Argument /\ made.shape = data.shape /\ data.shape # "number"
<1> DEFINE keys == Renamed(data.keys, key, aliases)
           renamed == [data EXCEPT !.keys = keys]
<1>1. keys \in SUBSET Word
  BY RenamedAre DEF Argument
<1>2. Rename(data, key, aliases) =
        IF data.shape = "number" THEN Raises
        ELSE IF keys = data.keys THEN data
        ELSE IF data.shape = "object" THEN renamed ELSE Raises
  BY Zenon DEF Rename
<1> HIDE DEF keys
<1>3. renamed \in Argument /\ renamed.shape = data.shape
  BY <1>1 DEF Argument
<1> HIDE DEF renamed
<1> QED BY <1>2, <1>3 DEF Data

\* What the adapter makes of the arguments of a shell call.
LEMMA ExecArgumentsAre ==
  ASSUME NEW name, NEW data \in Argument, data.shape # "text"
  PROVE  LET made == ExecArguments(name, data)
         IN  made \in Data /\ (made # Raises => MayRun(made))
<1> DEFINE one == Rename(data, "cmd", <<"command">>)
           next == Rename(one, "workdir", <<"cwd">>)
           two == IF one = Raises THEN Raises ELSE next
<1>1. Refusal \in Argument /\ MayRun(Refusal) /\ Raises \in Data /\ Argument \subseteq Data
  BY WordsAre DEF Refusal, MayRun, Argument, Shape, Data
<1>2. one \in Data /\ (one # Raises => /\ one \in Argument /\ one.shape = data.shape
                                       /\ data.shape # "number")
  BY WordsAre, RenameIs
<1> HIDE DEF one
<1>3. one # Raises => /\ next \in Data
                      /\ next # Raises => next \in Argument /\ next.shape = one.shape
  BY <1>2, WordsAre, RenameIs
<1> HIDE DEF next
<1>4. two \in Data /\ (two # Raises => /\ two \in Argument
                                       /\ two.shape \in {"object", "list", "string", "none"})
  BY <1>1, <1>2, <1>3 DEF Argument, Shape
<1>5. ExecArguments(name, data) =
        IF name \in Edits THEN IF data.shape = "object" THEN Refusal ELSE Raises
        ELSE IF two = Raises \/ "cmd" \in two.keys THEN two ELSE Refusal
  BY Zenon DEF ExecArguments, two, next, one
<1> HIDE DEF two
<1> QED BY <1>1, <1>4, <1>5 DEF MayRun

\* What the adapter makes of arguments.
LEMMA ArgumentsAre ==
  ASSUME NEW name, NEW target, NEW a \in Arguments
  PROVE  LET made == CanonicalArguments(name, target, a)
         IN  /\ made \in Data
             /\ target = Exec /\ made # Raises => MayRun(made)
<1> DEFINE data == Parsed(a)
<1>1. data \in Argument /\ data.shape # "text"
  <2>1. a \in Argument
    BY RoundsAssumption
  <2> QED BY <2>1, WordsAre DEF Parsed, Argument, Shape
<1>2. data \in Data
  BY <1>1 DEF Data
<1> HIDE DEF data
<1>3. \A key \in Word : \A aliases : Rename(data, key, aliases) \in Data
  BY <1>1, RenameIs
<1>4. CASE target = Exec
  <2>1. CanonicalArguments(name, target, a) = ExecArguments(name, data)
    BY <1>4 DEF CanonicalArguments, data
  <2> QED BY <1>1, <2>1, ExecArgumentsAre
<1>5. CASE target # Exec
  <2>1. CanonicalArguments(name, target, a) \in Data
    BY <1>2, <1>3, <1>5, WordsAre DEF CanonicalArguments, data
  <2> QED BY <1>5, <2>1
<1> QED BY <1>4, <1>5

-----------------------------------------------------------------------------
\* What a response holds when it is normalized: messages, and calls of this round, each with
\* its own id, which can be used unless their arguments are broken.
Fresh(items, round, offered) ==
  /\ items \in Seq(Items)
  /\ \A i \in DOMAIN items : items[i].kind \in {"message", "call"}
  /\ \A i \in CallsIn(items) :
       /\ items[i] \in Call /\ items[i].id[1] = round
       /\ items[i].arguments # Raises =>
            /\ items[i].name \in offered
            /\ items[i].name = Exec => MayRun(items[i].arguments)
  /\ \A i, j \in CallsIn(items) : items[i].id = items[j].id => i = j

\* The outputs of web calls in the input.
OutputsIn(items) == {i \in DOMAIN items : items[i].kind = "output"}
\* Every web call has one output, behind it, and every output its call.
Answered(items) ==
  /\ \A i \in DOMAIN items : items[i].kind # "reasoning"
  /\ \A i \in WebCallsIn(items) :
       \E j \in OutputsIn(items) :
         /\ j > i /\ items[j].id = items[i].id
         /\ \A k \in OutputsIn(items) : items[k].id = items[i].id => k = j
  /\ \A j \in OutputsIn(items) : \E i \in WebCallsIn(items) : items[i].id = items[j].id
\* A call for Codex is in the input only beside a web call of its round.
OnlyMixed(items) ==
  \A i \in CallsIn(items) :
    items[i].name \notin LocalWeb =>
      \E j \in CallsIn(items) : items[j].name \in LocalWeb /\ items[j].id[1] = items[i].id[1]
\* All calls are of earlier rounds.
Before(items, round) ==
  \A i \in CallsIn(items) \cup OutputsIn(items) : items[i].id[1] < round

\* The inductive invariant, by the stages of a request.
RoundsInv ==
  /\ RoundsTypeOK
  /\ DeliveredCallsAreUsable
  /\ OnlyMixed(fed)
  /\ stage = "prepare" => fed \in Seq(Message)
  /\ stage \in {"infer", "search"} => Answered(fed)
  /\ stage = "infer" => Before(fed, rounds + 1)
  /\ stage = "search" =>
       Before(fed, rounds) /\ Fresh(response, rounds, Offered) /\ WebCallsIn(response) # {}

-----------------------------------------------------------------------------
\* Items by their kinds.
LEMMA KindsAre ==
  ASSUME NEW item \in Items
  PROVE  /\ item.kind = "call" => item \in Call
         /\ item.kind = "output" => item \in Output
         /\ item.kind \in {"message", "reasoning"} => item \in Message
         /\ item.kind \in {"message", "reasoning", "call", "output"}
  BY DEF Items, Message, Call, Output

\* The adapter leaves messages alone and a call its number.
LEMMA NormalizedIs ==
  ASSUME tools \in ToolList, rounds \in 0..MaxRounds, rounds < MaxRounds,
         NEW i \in 1..MaxOutput, NEW item \in ItemsAt(i), item.kind # "reasoning"
  PROVE  LET made == Normalized(item, Offered)
         IN  /\ made \in Items /\ made.kind = item.kind /\ made.kind \in {"message", "call"}
             /\ made.kind = "call" =>
                  /\ made \in Call /\ made.id = <<rounds + 1, i>>
                  /\ made.arguments # Raises =>
                       /\ made.name \in Offered
                       /\ made.name = Exec => MayRun(made.arguments)
<1> DEFINE made == Normalized(item, Offered)
           target == Canonical(item.name, Offered)
           data == IF target = Unsupported THEN Raises
                   ELSE IF item.arguments.shape = "none" THEN item.arguments
                   ELSE CanonicalArguments(item.name, target, item.arguments)
<1>1. CASE item.kind # "call"
  <2>1. made = item
    BY <1>1 DEF Normalized
  <2>2. item \in Message /\ item.kind = "message"
    BY <1>1 DEF ItemsAt, Message
  <2> QED BY <2>1, <2>2 DEF Items
<1>2. CASE item.kind = "call"
  <2>1. PICK n \in Called, a \in Arguments :
          item = [kind |-> "call", id |-> <<rounds + 1, i>>, name |-> n, arguments |-> a]
    BY <1>2 DEF ItemsAt
  <2>2. target \in Offered \cup {Unsupported}
    BY CanonicalIs
  <2>3. data \in Data /\ (data # Raises => target # Unsupported)
        /\ (target = Exec /\ data # Raises => MayRun(data))
    <3>1. Raises \in Data
      BY DEF Data
    <3>2. LET m == CanonicalArguments(item.name, target, a)
          IN  /\ m \in Data
              /\ target = Exec /\ m # Raises => MayRun(m)
      BY ArgumentsAre
    <3>3. item.arguments = a
      BY <2>1
    <3>4. a \in Data /\ (a.shape = "none" => MayRun(a))
      BY RoundsAssumption DEF Data, MayRun
    <3> HIDE DEF target
    <3> QED BY <3>1, <3>2, <3>3, <3>4
  <2>4. made = [item EXCEPT !.name = target, !.arguments = data]
    BY <1>2, Zenon DEF Normalized
  <2> HIDE DEF made, data, target
  <2>5. made = [kind |-> "call", id |-> <<rounds + 1, i>>, name |-> target, arguments |-> data]
    BY <2>1, <2>4
  <2>6. <<rounds + 1, i>> \in Id
    BY RoundsAssumption DEF Id
  <2>7. target \in Name \cup {Unsupported}
    BY <2>2, NamesAre
  <2>8. made \in Call
    BY <2>3, <2>5, <2>6, <2>7 DEF Call
  <2>9. made.kind = "call" /\ made.id = <<rounds + 1, i>> /\ made.name = target /\ made.arguments = data
    BY <2>5
  <2> HIDE DEF Call
  <2>10. made \in Items
    BY <2>8 DEF Items
  <2> QED BY <1>2, <2>2, <2>3, <2>8, <2>9, <2>10 DEF made
<1> QED BY <1>1, <1>2

\* The items that are left, in order.
LEMMA WithoutReasoningIs ==
  ASSUME NEW S, NEW items \in Seq(S)
  PROVE  LET kept == WithoutReasoning(items)
         IN  /\ kept \in Seq(S)
             /\ \E f \in [1..Len(kept) -> DOMAIN items] :
                  /\ \A i, j \in 1..Len(kept) : i < j => f[i] < f[j]
                  /\ \A i \in 1..Len(kept) :
                       kept[i] = items[f[i]] /\ items[f[i]].kind # "reasoning"
<1> DEFINE P == {i \in DOMAIN items : items[i].kind # "reasoning"}
           kept == PickedAt(items, P)
<1>1. IsFiniteSet(P) /\ P \subseteq Nat /\ P \subseteq DOMAIN items
  <2>1. DOMAIN items = 1..Len(items) /\ Len(items) \in Nat
    BY SeqDef
  <2>2. IsFiniteSet(1..Len(items))
    BY <2>1, FS_Interval
  <2> QED BY <2>1, <2>2, FS_Subset
<1>2. \A p \in P : items[p] \in S
  BY ElementOfSeq
<1>3. WithoutReasoning(items) = kept
  BY DEF WithoutReasoning
<1>4. \A p \in P : items[p].kind # "reasoning"
  OBVIOUS
<1> HIDE DEF P
<1>5. Picked(kept, S, items, P)
  BY <1>1, <1>2, AtIs
<1> HIDE DEF kept
<1>6. PICK f \in [1..Len(kept) -> P] :
        /\ \A i, j \in 1..Len(kept) : i < j => f[i] < f[j]
        /\ \A i \in 1..Len(kept) : kept[i] = items[f[i]]
  BY <1>5 DEF Picked
<1>7. f \in [1..Len(kept) -> DOMAIN items]
      /\ \A i \in 1..Len(kept) : items[f[i]].kind # "reasoning"
  BY <1>1, <1>4, <1>6
<1>8. kept \in Seq(S)
  BY <1>5 DEF Picked
<1> QED BY <1>3, <1>6, <1>7, <1>8

\* _normalize_response leaves what Fresh says, for any output of the model.
LEMMA ResponseIs ==
  ASSUME RoundsTypeOK, rounds < MaxRounds, NEW raw \in Outputs
  PROVE  Fresh(NormalizedOutput(raw, Offered), rounds + 1, Offered)
<1>1. PICK n \in 1..MaxOutput : DOMAIN raw = 1..n /\ \A i \in 1..n : raw[i] \in ItemsAt(i)
  <2>1. PICK n \in 1..MaxOutput :
          raw \in {r \in [1..n -> UNION {ItemsAt(i) : i \in 1..n}] : \A i \in 1..n : r[i] \in ItemsAt(i)}
    BY DEF Outputs
  <2> QED BY <2>1
<1> DEFINE kept == WithoutReasoning(raw)
           made == NormalizedOutput(raw, Offered)
<1>2. raw \in Seq(UNION {ItemsAt(i) : i \in 1..n})
  <2>1. PICK k \in 1..MaxOutput : raw \in [1..k -> UNION {ItemsAt(i) : i \in 1..k}]
    BY DEF Outputs
  <2>2. raw = [i \in 1..n |-> raw[i]]
    BY <1>1, <2>1
  <2>3. \A i \in 1..n : raw[i] \in UNION {ItemsAt(j) : j \in 1..n}
    BY <1>1
  <2>4. n \in Nat
    BY RoundsAssumption
  <2> DEFINE any == UNION {ItemsAt(i) : i \in 1..n}
  <2>5. \A i \in 1..n : raw[i] \in any
    BY <2>3
  <2> HIDE DEF any
  <2>6. raw \in [1..n -> any]
    BY <2>2, <2>5
  <2>7. raw \in Seq(any)
    BY <2>4, <2>6
  <2> QED BY <2>7 DEF any
<1>3. PICK f \in [1..Len(kept) -> 1..n] :
        /\ \A i, j \in 1..Len(kept) : i < j => f[i] < f[j]
        /\ \A i \in 1..Len(kept) : kept[i] = raw[f[i]] /\ raw[f[i]].kind # "reasoning"
  <2> DEFINE any == UNION {ItemsAt(i) : i \in 1..n}
  <2> HIDE DEF any
  <2>1. raw \in Seq(any)
    BY <1>2 DEF any
  <2>2. PICK f \in [1..Len(kept) -> DOMAIN raw] :
        /\ \A i, j \in 1..Len(kept) : i < j => f[i] < f[j]
        /\ \A i \in 1..Len(kept) : kept[i] = raw[f[i]] /\ raw[f[i]].kind # "reasoning"
    BY <2>1, WithoutReasoningIs
  <2>3. f \in [1..Len(kept) -> 1..n]
    BY <1>1, <2>2
  <2> QED BY <2>2, <2>3
<1>4. Len(kept) \in Nat /\ DOMAIN kept = 1..Len(kept)
  BY <1>2, WithoutReasoningIs, SeqDef
<1>5. made = [i \in DOMAIN kept |-> Normalized(kept[i], Offered)]
  BY DEF NormalizedOutput
<1> HIDE DEF kept, made
<1>6. made = [i \in 1..Len(kept) |-> Normalized(kept[i], Offered)]
  BY <1>4, <1>5
<1>7. \A i \in 1..Len(kept) :
        /\ made[i] \in Items /\ made[i].kind \in {"message", "call"}
        /\ made[i].kind = "call" =>
             /\ made[i] \in Call /\ made[i].id = <<rounds + 1, f[i]>>
             /\ made[i].arguments # Raises =>
                  /\ made[i].name \in Offered
                  /\ made[i].name = Exec => MayRun(made[i].arguments)
  <2> SUFFICES ASSUME NEW i \in 1..Len(kept)
               PROVE  /\ made[i] \in Items /\ made[i].kind \in {"message", "call"}
                      /\ made[i].kind = "call" =>
                           /\ made[i] \in Call /\ made[i].id = <<rounds + 1, f[i]>>
                           /\ made[i].arguments # Raises =>
                                /\ made[i].name \in Offered
                                /\ made[i].name = Exec => MayRun(made[i].arguments)
    OBVIOUS
  <2>1. f[i] \in 1..n /\ f[i] \in 1..MaxOutput
    <3>1. f[i] \in 1..n
      BY <1>3
    <3> QED BY <3>1, RoundsAssumption
  <2>2. kept[i] \in ItemsAt(f[i]) /\ kept[i].kind # "reasoning"
    BY <1>1, <1>3, <2>1
  <2>3. made[i] = Normalized(kept[i], Offered)
    BY <1>6
  <2>4. tools \in ToolList /\ rounds \in 0..MaxRounds
    BY DEF RoundsTypeOK
  <2> QED BY <2>1, <2>2, <2>3, <2>4, NormalizedIs
<1>8. made \in Seq(Items) /\ DOMAIN made = 1..Len(kept)
  BY <1>4, <1>6, <1>7
<1>9. \A i, j \in CallsIn(made) : made[i].id = made[j].id => i = j
  <2> SUFFICES ASSUME NEW i \in CallsIn(made), NEW j \in CallsIn(made),
                      made[i].id = made[j].id, i # j
               PROVE  FALSE
    OBVIOUS
  <2>1. i \in 1..Len(kept) /\ j \in 1..Len(kept) /\ made[i].kind = "call" /\ made[j].kind = "call"
    BY <1>8 DEF CallsIn
  <2>2. f[i] = f[j]
    BY <1>7, <2>1
  <2>3. f[i] \in Nat /\ f[j] \in Nat
    BY <1>3, <2>1
  <2> QED BY <1>3, <1>4, <2>1, <2>2, <2>3
<1>10. \A i \in CallsIn(made) : i \in 1..Len(kept) /\ made[i].kind = "call"
  BY <1>8 DEF CallsIn
<1>11. rounds \in Nat
  BY DEF RoundsTypeOK
<1> QED BY <1>7, <1>8, <1>9, <1>10, <1>11 DEF Fresh, made

-----------------------------------------------------------------------------
\* The items of three sequences, one behind the other.
LEMMA JoinedIs ==
  ASSUME NEW S, NEW a \in Seq(S), NEW b \in Seq(S), NEW c \in Seq(S)
  PROVE  LET s == a \o (b \o c)
         IN  /\ s \in Seq(S) /\ DOMAIN s = 1..Len(a) + Len(b) + Len(c)
             /\ DOMAIN a = 1..Len(a) /\ DOMAIN b = 1..Len(b) /\ DOMAIN c = 1..Len(c)
             /\ Len(a) \in Nat /\ Len(b) \in Nat /\ Len(c) \in Nat
             /\ \A i \in 1..Len(a) : s[i] = a[i]
             /\ \A i \in 1..Len(b) : s[Len(a) + i] = b[i]
             /\ \A i \in 1..Len(c) : s[Len(a) + Len(b) + i] = c[i]
<1> DEFINE d == b \o c
           s == a \o d
<1>1. Len(a) \in Nat /\ Len(b) \in Nat /\ Len(c) \in Nat
      /\ DOMAIN a = 1..Len(a) /\ DOMAIN b = 1..Len(b) /\ DOMAIN c = 1..Len(c)
  BY LenProperties
<1>2. /\ d \in Seq(S) /\ Len(d) = Len(b) + Len(c)
      /\ \A i \in 1..Len(b) : d[i] = b[i]
      /\ \A i \in 1..Len(c) : d[Len(b) + i] = c[i]
  BY PairIs
<1> HIDE DEF d
<1>3. /\ s \in Seq(S) /\ Len(s) = Len(a) + Len(d)
      /\ \A i \in 1..Len(a) : s[i] = a[i]
      /\ \A i \in 1..Len(d) : s[Len(a) + i] = d[i]
  <2>1. d \in Seq(S)
    BY <1>2
  <2>2. ASSUME NEW e \in Seq(S)
        PROVE  /\ a \o e \in Seq(S) /\ Len(a \o e) = Len(a) + Len(e)
               /\ \A i \in 1..Len(a) : (a \o e)[i] = a[i]
               /\ \A i \in 1..Len(e) : (a \o e)[Len(a) + i] = e[i]
    BY PairIs
  <2> QED BY <2>1, <2>2
<1> HIDE DEF s
<1>4. DOMAIN s = 1..Len(s)
  BY <1>3, LenProperties
<1>5. \A i \in 1..Len(b) : s[Len(a) + i] = b[i]
  BY <1>1, <1>2, <1>3
<1>6. \A i \in 1..Len(c) : s[Len(a) + Len(b) + i] = c[i]
  <2> SUFFICES ASSUME NEW i \in 1..Len(c) PROVE s[Len(a) + Len(b) + i] = c[i]
    OBVIOUS
  <2>1. Len(b) + i \in 1..Len(d) /\ Len(a) + Len(b) + i = Len(a) + (Len(b) + i)
    BY <1>1, <1>2
  <2> QED BY <1>2, <1>3, <2>1
<1>7. DOMAIN s = 1..Len(a) + Len(b) + Len(c)
  BY <1>1, <1>2, <1>3, <1>4
<1> QED BY <1>1, <1>3, <1>5, <1>6, <1>7 DEF s, d

\* The outputs of a response, each with the number of its call.
AnswersTo(outputs, items) ==
  /\ outputs \in Seq(Items)
  /\ \A k \in 1..Len(outputs) : outputs[k].kind = "output"
  /\ \E f \in [1..Len(outputs) -> WebCallsIn(items)] :
       /\ \A k, l \in 1..Len(outputs) : f[k] = f[l] => k = l
       /\ \A i \in WebCallsIn(items) : \E k \in 1..Len(outputs) : f[k] = i
       /\ \A k \in 1..Len(outputs) : outputs[k].id = items[f[k]].id

\* A round whose web calls are answered behind its response goes before the next one.
LEMMA RoundIsAnswered ==
  ASSUME NEW a \in Seq(Items), NEW b, NEW c, NEW n \in Nat,
         Answered(a), OnlyMixed(a), Before(a, n), Fresh(b, n, Offered), WebCallsIn(b) # {}, AnswersTo(c, b)
  PROVE  LET s == a \o (b \o c)
         IN  s \in Seq(Items) /\ Answered(s) /\ OnlyMixed(s) /\ Before(s, n + 1)
<1> DEFINE s == a \o (b \o c)
           A == Len(a)
           B == Len(b)
           C == Len(c)
<1>1. b \in Seq(Items) /\ c \in Seq(Items)
  BY DEF Fresh, AnswersTo
<1>2. /\ s \in Seq(Items) /\ DOMAIN s = 1..A + B + C
      /\ DOMAIN a = 1..A /\ DOMAIN b = 1..B /\ DOMAIN c = 1..C
      /\ A \in Nat /\ B \in Nat /\ C \in Nat
      /\ \A i \in 1..A : s[i] = a[i]
      /\ \A i \in 1..B : s[A + i] = b[i]
      /\ \A i \in 1..C : s[A + B + i] = c[i]
  BY <1>1, JoinedIs
<1>3. PICK f \in [1..C -> WebCallsIn(b)] :
        /\ \A k, l \in 1..C : f[k] = f[l] => k = l
        /\ \A i \in WebCallsIn(b) : \E k \in 1..C : f[k] = i
        /\ \A k \in 1..C : c[k].id = b[f[k]].id
  BY DEF AnswersTo
<1> HIDE DEF s, A, B, C
\* Where an item of the whole comes from.
<1>4. \A p \in DOMAIN s : \/ p \in 1..A /\ s[p] = a[p]
                          \/ \E i \in 1..B : p = A + i /\ s[p] = b[i]
                          \/ \E i \in 1..C : p = A + B + i /\ s[p] = c[i]
  <2> SUFFICES ASSUME NEW p \in DOMAIN s
               PROVE  \/ p \in 1..A /\ s[p] = a[p]
                      \/ \E i \in 1..B : p = A + i /\ s[p] = b[i]
                      \/ \E i \in 1..C : p = A + B + i /\ s[p] = c[i]
    OBVIOUS
  <2>1. CASE p =< A
    BY <1>2, <2>1
  <2>2. CASE p > A /\ p =< A + B
    <3>1. p - A \in 1..B /\ p = A + (p - A)
      BY <1>2, <2>2
    <3> QED BY <1>2, <3>1
  <2>3. CASE p > A + B
    <3>1. p - (A + B) \in 1..C /\ p = A + B + (p - (A + B))
      BY <1>2, <2>3
    <3> QED BY <1>2, <3>1
  <2> QED BY <1>2, <2>1, <2>2, <2>3
<1>5. /\ \A i \in 1..A : i \in DOMAIN s
      /\ \A i \in 1..B : A + i \in DOMAIN s
      /\ \A i \in 1..C : A + B + i \in DOMAIN s
  BY <1>2
<1>6. /\ \A i \in 1..B : b[i].kind \in {"message", "call"}
      /\ \A i \in 1..C : c[i].kind = "output"
      /\ \A i \in CallsIn(b) : b[i].id[1] = n
      /\ \A i, j \in CallsIn(b) : b[i].id = b[j].id => i = j
      /\ WebCallsIn(b) \subseteq CallsIn(b) /\ CallsIn(b) \subseteq 1..B
  <2>1. \A i \in 1..B : b[i].kind \in {"message", "call"}
    BY <1>2 DEF Fresh
  <2>2. \A i \in 1..C : c[i].kind = "output"
    BY DEF AnswersTo, C
  <2>3. /\ \A i \in CallsIn(b) : b[i].id[1] = n
        /\ \A i, j \in CallsIn(b) : b[i].id = b[j].id => i = j
    BY DEF Fresh
  <2>4. WebCallsIn(b) \subseteq CallsIn(b) /\ CallsIn(b) \subseteq 1..B
    BY <1>2 DEF WebCallsIn, CallsIn
  <2> QED BY <2>1, <2>2, <2>3, <2>4
<1>7. \A k \in 1..C : f[k] \in CallsIn(b) /\ c[k].id = b[f[k]].id /\ c[k].id[1] = n
  BY <1>3, <1>6
<1>8. \A p \in CallsIn(s) : \/ p \in CallsIn(a) /\ s[p] = a[p]
                            \/ \E i \in CallsIn(b) : p = A + i /\ s[p] = b[i]
  <2> SUFFICES ASSUME NEW p \in CallsIn(s)
               PROVE  \/ p \in CallsIn(a) /\ s[p] = a[p]
                      \/ \E i \in CallsIn(b) : p = A + i /\ s[p] = b[i]
    OBVIOUS
  <2>1. p \in DOMAIN s /\ s[p].kind = "call"
    BY DEF CallsIn
  <2>2. \A i \in 1..A : a[i].kind = "call" => i \in CallsIn(a)
    BY <1>2 DEF CallsIn
  <2>3. \A i \in 1..B : b[i].kind = "call" => i \in CallsIn(b)
    BY <1>2 DEF CallsIn
  <2> QED BY <1>4, <1>6, <2>1, <2>2, <2>3
<1>9. \A p \in OutputsIn(s) : \/ p \in OutputsIn(a) /\ s[p] = a[p]
                              \/ \E i \in 1..C : p = A + B + i /\ s[p] = c[i]
  BY <1>2, <1>4, <1>6 DEF OutputsIn
<1>10. /\ \A i \in CallsIn(a) : i \in CallsIn(s) /\ s[i] = a[i] /\ i =< A
       /\ \A i \in CallsIn(b) : A + i \in CallsIn(s) /\ s[A + i] = b[i]
       /\ \A i \in OutputsIn(a) : i \in OutputsIn(s) /\ s[i] = a[i]
       /\ \A i \in 1..C : A + B + i \in OutputsIn(s) /\ s[A + B + i] = c[i]
  <2>1. \A i \in CallsIn(a) : i \in 1..A /\ a[i].kind = "call"
    BY <1>2 DEF CallsIn
  <2>2. \A i \in CallsIn(b) : i \in 1..B /\ b[i].kind = "call"
    BY <1>2 DEF CallsIn
  <2>3. \A i \in OutputsIn(a) : i \in 1..A /\ a[i].kind = "output"
    BY <1>2 DEF OutputsIn
  <2>4. /\ \A p \in DOMAIN s : s[p].kind = "call" => p \in CallsIn(s)
        /\ \A p \in DOMAIN s : s[p].kind = "output" => p \in OutputsIn(s)
    BY DEF CallsIn, OutputsIn
  <2>5. \A i \in 1..A : i =< A
    BY <1>2
  <2>6. ASSUME NEW i \in CallsIn(a) PROVE i \in CallsIn(s) /\ s[i] = a[i] /\ i =< A
    BY <1>2, <1>5, <2>1, <2>4, <2>5
  <2>7. ASSUME NEW i \in CallsIn(b) PROVE A + i \in CallsIn(s) /\ s[A + i] = b[i]
    BY <1>2, <1>5, <2>2, <2>4
  <2>8. ASSUME NEW i \in OutputsIn(a) PROVE i \in OutputsIn(s) /\ s[i] = a[i]
    BY <1>2, <1>5, <2>3, <2>4
  <2>9. ASSUME NEW i \in 1..C PROVE A + B + i \in OutputsIn(s) /\ s[A + B + i] = c[i]
    <3>1. A + B + i \in DOMAIN s /\ c[i].kind = "output"
      BY <1>5, <1>6
    <3>2. s[A + B + i] = c[i]
      BY <1>2
    <3> QED BY <3>1, <3>2, <2>4
  <2> QED BY <2>6, <2>7, <2>8, <2>9
<1>11. Before(s, n + 1)
  <2> SUFFICES ASSUME NEW p \in CallsIn(s) \cup OutputsIn(s) PROVE s[p].id[1] < n + 1
    BY DEF Before
  <2>1. CASE p \in CallsIn(a) \cup OutputsIn(a) /\ s[p] = a[p]
    <3>1. a[p].id[1] < n
      BY <2>1 DEF Before
    <3>2. a[p] \in Call \cup Output
      <4>1. a[p] \in Items /\ a[p].kind \in {"call", "output"}
        BY <2>1, ElementOfSeq DEF CallsIn, OutputsIn
      <4> QED BY <4>1, KindsAre
    <3>3. a[p].id[1] \in Int
      <4>1. a[p].id \in Id
        BY <3>2 DEF Call, Output
      <4> QED BY <4>1, RoundsAssumption DEF Id
    <3> QED BY <2>1, <3>1, <3>3
  <2>2. CASE \E i \in CallsIn(b) : s[p] = b[i]
    BY <1>6, <2>2
  <2>3. CASE \E i \in 1..C : s[p] = c[i]
    BY <1>7, <2>3
  <2> QED BY <1>8, <1>9, <2>1, <2>2, <2>3
<1>12. OnlyMixed(s)
  <2> SUFFICES ASSUME NEW p \in CallsIn(s), s[p].name \notin LocalWeb
               PROVE  \E q \in CallsIn(s) : s[q].name \in LocalWeb /\ s[q].id[1] = s[p].id[1]
    BY DEF OnlyMixed
  <2>1. CASE p \in CallsIn(a) /\ s[p] = a[p]
    <3>1. PICK q \in CallsIn(a) : a[q].name \in LocalWeb /\ a[q].id[1] = a[p].id[1]
      BY <2>1 DEF OnlyMixed
    <3> QED BY <1>10, <2>1, <3>1
  <2>2. CASE \E i \in CallsIn(b) : p = A + i /\ s[p] = b[i]
    <3>1. PICK q \in WebCallsIn(b) : TRUE
      OBVIOUS
    <3>2. q \in CallsIn(b) /\ b[q].name \in LocalWeb /\ b[q].id[1] = n
      BY <1>6, <3>1 DEF WebCallsIn
    <3>3. s[p].id[1] = n
      BY <1>6, <2>2
    <3> QED BY <1>10, <3>2, <3>3
  <2> QED BY <1>8, <2>1, <2>2
<1>13. Answered(s)
  <2>1. \A p \in DOMAIN s : s[p].kind # "reasoning"
    <3> SUFFICES ASSUME NEW p \in DOMAIN s, s[p].kind = "reasoning" PROVE FALSE
      OBVIOUS
    <3>1. \A i \in 1..A : a[i].kind # "reasoning"
      BY <1>2 DEF Answered
    <3> QED BY <1>4, <1>6, <3>1
  <2>2. ASSUME NEW p \in WebCallsIn(s)
        PROVE  \E q \in OutputsIn(s) :
                 /\ q > p /\ s[q].id = s[p].id
                 /\ \A r \in OutputsIn(s) : s[r].id = s[p].id => r = q
    <3>1. p \in CallsIn(s) /\ s[p].name \in LocalWeb
      BY <2>2 DEF WebCallsIn
    <3>2. CASE p \in CallsIn(a) /\ s[p] = a[p]
      <4>1. p \in WebCallsIn(a)
        BY <3>1, <3>2 DEF WebCallsIn
      <4>2. PICK q \in OutputsIn(a) :
              /\ q > p /\ a[q].id = a[p].id
              /\ \A r \in OutputsIn(a) : a[r].id = a[p].id => r = q
        BY <4>1 DEF Answered
      <4>3. a[p].id[1] # n
        <5>1. a[p].id[1] < n
          BY <3>2 DEF Before
        <5> QED BY <5>1
      <4>4. \A r \in OutputsIn(s) : s[r].id = s[p].id => r = q
        <5> SUFFICES ASSUME NEW r \in OutputsIn(s), s[r].id = s[p].id PROVE r = q
          OBVIOUS
        <5>1. CASE r \in OutputsIn(a) /\ s[r] = a[r]
          BY <3>2, <4>2, <5>1
        <5>2. CASE \E i \in 1..C : s[r] = c[i]
          BY <1>7, <3>2, <4>3, <5>2
        <5> QED BY <1>9, <5>1, <5>2
      <4> QED BY <1>10, <3>2, <4>2, <4>4
    <3>3. ASSUME NEW i \in CallsIn(b), p = A + i, s[p] = b[i]
          PROVE  \E q \in OutputsIn(s) :
                   /\ q > p /\ s[q].id = s[p].id
                   /\ \A r \in OutputsIn(s) : s[r].id = s[p].id => r = q
      <4>1. i \in WebCallsIn(b) /\ i \in 1..B
        BY <1>6, <3>1, <3>3 DEF WebCallsIn
      <4>2. PICK k \in 1..C : f[k] = i
        BY <1>3, <4>1
      <4>3. A + B + k > p
        BY <1>2, <3>3, <4>1, <4>2
      <4>4. \A r \in OutputsIn(s) : s[r].id = s[p].id => r = A + B + k
        <5> SUFFICES ASSUME NEW r \in OutputsIn(s), s[r].id = s[p].id PROVE r = A + B + k
          OBVIOUS
        <5>1. s[p].id[1] = n
          BY <1>6, <3>3
        <5>2. CASE r \in OutputsIn(a) /\ s[r] = a[r]
          <6>1. a[r].id[1] < n
            BY <5>2 DEF Before
          <6> QED BY <5>1, <5>2, <6>1
        <5>3. CASE \E l \in 1..C : r = A + B + l /\ s[r] = c[l]
          <6>1. PICK l \in 1..C : r = A + B + l /\ s[r] = c[l]
            BY <5>3
          <6>2. b[f[l]].id = b[i].id /\ f[l] \in CallsIn(b)
            BY <1>7, <3>3, <6>1
          <6>3. f[l] = i
            BY <1>6, <3>3, <6>2
          <6>4. l = k
            BY <1>3, <4>2, <6>3
          <6> QED BY <6>1, <6>4
        <5> QED BY <1>9, <5>2, <5>3
      <4>5. s[A + B + k].id = s[p].id /\ A + B + k \in OutputsIn(s)
        BY <1>7, <1>10, <3>3, <4>2
      <4> QED BY <4>3, <4>4, <4>5
    <3> QED BY <1>8, <3>1, <3>2, <3>3
  <2>3. ASSUME NEW q \in OutputsIn(s) PROVE \E p \in WebCallsIn(s) : s[p].id = s[q].id
    <3>1. CASE q \in OutputsIn(a) /\ s[q] = a[q]
      <4>1. PICK p \in WebCallsIn(a) : a[p].id = a[q].id
        BY <3>1 DEF Answered
      <4>2. p \in WebCallsIn(s) /\ s[p] = a[p]
        BY <1>10, <4>1 DEF WebCallsIn
      <4> QED BY <3>1, <4>1, <4>2
    <3>2. CASE \E i \in 1..C : s[q] = c[i]
      <4>1. PICK k \in 1..C : s[q] = c[k]
        BY <3>2
      <4>2. f[k] \in WebCallsIn(b) /\ f[k] \in CallsIn(b) /\ c[k].id = b[f[k]].id
        BY <1>3, <1>7, <4>1
      <4>3. A + f[k] \in WebCallsIn(s) /\ s[A + f[k]] = b[f[k]]
        BY <1>10, <4>2 DEF WebCallsIn
      <4> QED BY <4>1, <4>2, <4>3
    <3> QED BY <1>9, <3>1, <3>2
  <2> QED BY <2>1, <2>2, <2>3 DEF Answered
<1> QED BY <1>2, <1>11, <1>12, <1>13 DEF s

-----------------------------------------------------------------------------
\* An input without calls.
LEMMA MessagesAre ==
  ASSUME NEW items \in Seq(Message)
  PROVE  /\ items \in Seq(Items) /\ OnlyMixed(items) /\ \A n \in Nat : Before(items, n)
         /\ (\A i \in DOMAIN items : items[i].kind # "reasoning") => Answered(items)
<1>1. \A i \in DOMAIN items : items[i] \in Message
  BY ElementOfSeq
<1>2. \A i \in DOMAIN items : items[i].kind \notin {"call", "output"}
  BY <1>1 DEF Message
<1>3. CallsIn(items) = {} /\ OutputsIn(items) = {} /\ WebCallsIn(items) = {}
  BY <1>2 DEF CallsIn, OutputsIn, WebCallsIn
<1>4. items \in Seq(Items)
  <2>1. Message \subseteq Items
    BY DEF Items
  <2>2. Len(items) \in Nat /\ DOMAIN items = 1..Len(items) /\ items = [i \in 1..Len(items) |-> items[i]]
    BY LenProperties
  <2>3. \A i \in 1..Len(items) : items[i] \in Items
    BY <1>1, <2>1, <2>2
  <2> QED BY <2>2, <2>3
<1> QED BY <1>3, <1>4 DEF OnlyMixed, Before, Answered

\* What a request can end with.
Results == [status: {"none", "completed", "limit", "refused", "invalid", "raised", "failed"},
            output: Seq(Items)]
\* The calls in a result can be used.
Usable(result, offered) ==
  \A i \in CallsIn(result.output) :
    /\ result.output[i].name \in offered \ LocalWeb
    /\ result.output[i].name = Exec => MayRun(result.output[i].arguments)

\* An empty result has no calls.
LEMMA NothingIsUsable ==
  ASSUME NEW status \in {"none", "refused", "invalid", "raised", "failed"}, NEW offered
  PROVE  Nothing(status) \in Results /\ Usable(Nothing(status), offered)
<1>1. <<>> \in Seq(Items) /\ CallsIn(<<>>) = {}
  BY EmptySeq DEF CallsIn
<1>2. Nothing(status).output = <<>> /\ Nothing(status) = [status |-> status, output |-> <<>>]
  BY DEF Nothing
<1>3. Nothing(status) \in Results
  BY <1>1, <1>2 DEF Results
<1> QED BY <1>1, <1>2, <1>3 DEF Usable

\* Usable is the property.
LEMMA UsableIs == DeliveredCallsAreUsable <=> Usable(delivered, SentNames)
  BY DEF DeliveredCallsAreUsable, Usable, MayRun

\* A request before its first round.
LEMMA RoundsInvAtFirst == RoundsInit => RoundsInv
<1> SUFFICES ASSUME RoundsInit PROVE RoundsInv
  OBVIOUS
<1>1. fed \in Seq(Message)
  <2>1. [kind |-> "message"] \in Message /\ [kind |-> "reasoning"] \in Message
    BY DEF Message
  <2> DEFINE m == [kind |-> "message"]
             r == [kind |-> "reasoning"]
  <2>2. fed = <<m>> \/ fed = <<m, r>>
    BY DEF RoundsInit
  <2>3. m \in Message /\ r \in Message
    BY <2>1
  <2> HIDE DEF m, r
  <2>4. <<m>> \in Seq(Message)
    BY <2>3
  <2>5. <<m, r>> \in Seq(Message)
    BY <2>3
  <2> QED BY <2>2, <2>4, <2>5
<1>2. fed \in Seq(Items) /\ OnlyMixed(fed)
  BY <1>1, MessagesAre
<1>3. delivered \in Results /\ Usable(delivered, SentNames)
  BY NothingIsUsable DEF RoundsInit
<1>4. <<>> \in Seq(Items) /\ <<>> \in Seq(Call) /\ 0 \in 0..MaxRounds
  BY EmptySeq, RoundsAssumption
<1>5. RoundsTypeOK
  BY <1>2, <1>3, <1>4 DEF RoundsInit, RoundsTypeOK, Results
<1> QED BY <1>1, <1>2, <1>3, <1>5, UsableIs DEF RoundsInit, RoundsInv

\* LocalCalls are the web calls, in order.
LEMMA WebCallsAre ==
  ASSUME NEW items \in Seq(Items)
  PROVE  Picked(LocalCalls(items, items), Call, items, WebCallsIn(items))
<1>1. IsFiniteSet(WebCallsIn(items)) /\ WebCallsIn(items) \subseteq Nat
  <2>1. DOMAIN items = 1..Len(items) /\ Len(items) \in Nat
    BY LenProperties
  <2>2. IsFiniteSet(1..Len(items))
    BY <2>1, FS_Interval
  <2>3. WebCallsIn(items) \subseteq DOMAIN items
    BY DEF WebCallsIn, CallsIn
  <2> QED BY <2>1, <2>2, <2>3, FS_Subset
<1>2. \A i \in WebCallsIn(items) : items[i] \in Call
  BY ElementOfSeq, KindsAre DEF WebCallsIn, CallsIn
<1>3. Picked(PickedAt(items, WebCallsIn(items)), Call, items, WebCallsIn(items))
  BY <1>1, <1>2, AtIs
<1> QED BY <1>3 DEF LocalCalls

-----------------------------------------------------------------------------
\* The tools are looked at.
LEMMA PrepareKeeps == RoundsInv /\ Prepare => RoundsInv'
<1> SUFFICES ASSUME RoundsInv, Prepare PROVE RoundsInv'
  OBVIOUS
<1> USE DEF RoundsInv
<1>1. UNCHANGED <<tools, rounds, response, pending>> /\ stage = "prepare" /\ fed \in Seq(Message)
  BY DEF Prepare
<1>2. SentNames' = SentNames
  BY <1>1 DEF SentNames
<1>3. CASE ToolsRefused /\ Done(Nothing("refused")) /\ UNCHANGED fed
  <2>1. Nothing("refused") \in Results /\ Usable(Nothing("refused"), SentNames)
    BY NothingIsUsable
  <2>2. stage' = "done" /\ delivered' = Nothing("refused")
    BY <1>3 DEF Done
  <2>3. RoundsTypeOK'
    BY <1>1, <1>3, <2>1, <2>2 DEF RoundsTypeOK, Results
  <2>4. DeliveredCallsAreUsable'
    <3>1. Usable(delivered, SentNames)'
      BY <1>2, <2>1, <2>2
    <3>2. (DeliveredCallsAreUsable <=> Usable(delivered, SentNames))'
      BY UsableIs, PTL
    <3> QED BY <3>1, <3>2
  <2>5. OnlyMixed(fed)'
    BY <1>3
  <2> QED BY <2>2, <2>3, <2>4, <2>5
<1>4. CASE stage' = "infer" /\ fed' = WithoutReasoning(fed) /\ UNCHANGED delivered
  <2>1. fed' \in Seq(Message) /\ \A i \in DOMAIN fed' : fed'[i].kind # "reasoning"
    <3> DEFINE kept == WithoutReasoning(fed)
    <3>1. kept \in Seq(Message) /\ \A i \in 1..Len(kept) : kept[i].kind # "reasoning"
      BY <1>1, WithoutReasoningIs
    <3>2. DOMAIN kept = 1..Len(kept)
      BY <3>1, LenProperties
    <3> HIDE DEF kept
    <3>3. fed' = kept
      BY <1>4 DEF kept
    <3> QED BY <3>1, <3>2, <3>3
  <2>2. fed' \in Seq(Items) /\ OnlyMixed(fed') /\ Answered(fed') /\ \A n \in Nat : Before(fed', n)
    BY <2>1, MessagesAre
  <2>3. RoundsTypeOK'
    BY <1>1, <1>4, <2>2 DEF RoundsTypeOK
  <2>4. DeliveredCallsAreUsable'
    <3>1. Usable(delivered, SentNames)
      BY UsableIs
    <3>2. Usable(delivered, SentNames)'
      BY <1>2, <1>4, <3>1
    <3>3. (DeliveredCallsAreUsable <=> Usable(delivered, SentNames))'
      BY UsableIs, PTL
    <3> QED BY <3>2, <3>3
  <2>5. rounds' + 1 \in Nat
    BY <1>1 DEF RoundsTypeOK
  <2> QED BY <1>4, <2>2, <2>3, <2>4, <2>5
<1> QED BY <1>3, <1>4 DEF Prepare

\* What ends a request without touching what it was fed.
LEMMA DoneKeeps ==
  ASSUME RoundsInv, NEW result, result \in Results, Usable(result, SentNames),
         stage' = "done", delivered' = result, UNCHANGED <<tools, fed>>,
         rounds' \in 0..MaxRounds, response' \in Seq(Items), pending' \in Seq(Call)
  PROVE  RoundsInv'
<1>1. RoundsTypeOK'
  BY DEF RoundsInv, RoundsTypeOK, Results
<1>2. DeliveredCallsAreUsable'
  <2>1. SentNames' = SentNames
    BY DEF SentNames
  <2>2. Usable(delivered, SentNames)'
    BY <2>1
  <2>3. (DeliveredCallsAreUsable <=> Usable(delivered, SentNames))'
    BY UsableIs, PTL
  <2> QED BY <2>2, <2>3
<1>3. OnlyMixed(fed)'
  BY DEF RoundsInv
<1> QED BY <1>1, <1>2, <1>3 DEF RoundsInv

\* A response goes to Codex, or its web calls are next.
LEMMA InferKeeps == RoundsInv /\ Infer => RoundsInv'
<1> SUFFICES ASSUME RoundsInv, Infer PROVE RoundsInv'
  OBVIOUS
<1>1. RoundsTypeOK /\ stage = "infer" /\ rounds < MaxRounds /\ rounds' = rounds + 1 /\ UNCHANGED <<tools, fed>>
  BY DEF RoundsInv, Infer
<1>2. PICK raw \in Outputs : Responds(raw)
  BY DEF Infer
<1> DEFINE items == NormalizedOutput(raw, Offered)
           calls == LocalCalls(raw, items)
           bad == {i \in CallsIn(items) : items[i].arguments = Raises}
<1>3. Fresh(items, rounds + 1, Offered)
  BY <1>1, ResponseIs
<1>4. items \in Seq(Items)
  BY <1>3 DEF Fresh
<1>5. calls \in Seq(Call) /\ (calls = <<>> <=> WebCallsIn(items) = {})
  <2>1. Picked(LocalCalls(items, items), Call, items, WebCallsIn(items))
    <3> HIDE DEF items
    <3> QED BY <1>4, WebCallsAre
  <2>2. calls = LocalCalls(items, items)
    BY Zenon DEF LocalCalls
  <2> HIDE DEF calls, items
  <2> QED BY <2>1, <2>2 DEF Picked
<1>6. /\ response' = items /\ pending' = calls
      /\ IF bad # {}
           THEN Done(Nothing(IF items[Min(bad)].name = Unsupported THEN "invalid" ELSE "raised"))
         ELSE IF calls = <<>> THEN Done([status |-> "completed", output |-> items])
         ELSE stage' = "search" /\ UNCHANGED delivered
  BY <1>2, Zenon DEF Responds
<1> HIDE DEF items, calls, bad
<1>7. rounds' \in 0..MaxRounds /\ rounds \in Nat
  BY <1>1, RoundsAssumption DEF RoundsTypeOK
<1>8. CASE bad # {}
  <2> DEFINE status == IF items[Min(bad)].name = Unsupported THEN "invalid" ELSE "raised"
  <2>1. status \in {"invalid", "raised"}
    OBVIOUS
  <2>2. stage' = "done" /\ delivered' = Nothing(status)
    BY <1>6, <1>8 DEF Done
  <2> HIDE DEF status
  <2>3. Nothing(status) \in Results /\ Usable(Nothing(status), SentNames)
    BY <2>1, NothingIsUsable
  <2> QED BY <1>1, <1>4, <1>5, <1>6, <1>7, <2>2, <2>3, DoneKeeps
<1>9. CASE bad = {} /\ calls = <<>>
  <2> DEFINE result == [status |-> "completed", output |-> items]
  <2>1. stage' = "done" /\ delivered' = result
    BY <1>6, <1>9 DEF Done
  <2>2. result \in Results /\ result.output = items
    BY <1>4 DEF Results
  <2>3. Usable(result, SentNames)
    <3> SUFFICES ASSUME NEW i \in CallsIn(items)
                 PROVE  /\ items[i].name \in SentNames \ LocalWeb
                        /\ items[i].name = Exec => MayRun(items[i].arguments)
      BY <2>2 DEF Usable
    <3>1. items[i].arguments # Raises
      BY <1>9 DEF bad
    <3>2. items[i].name \in Offered /\ (items[i].name = Exec => MayRun(items[i].arguments))
      BY <1>3, <3>1 DEF Fresh
    <3>3. items[i].name \notin LocalWeb
      BY <1>5, <1>9 DEF WebCallsIn
    <3> QED BY <3>2, <3>3 DEF Offered
  <2> HIDE DEF result
  <2> QED BY <1>1, <1>4, <1>5, <1>6, <1>7, <2>1, <2>2, <2>3, DoneKeeps
<1>10. CASE bad = {} /\ calls # <<>>
  <2>1. stage' = "search" /\ UNCHANGED delivered
    BY <1>6, <1>10
  <2>2. RoundsTypeOK'
    BY <1>1, <1>4, <1>5, <1>6, <1>7, <2>1 DEF RoundsTypeOK
  <2>3. SentNames' = SentNames /\ Offered' = Offered
    BY <1>1 DEF SentNames, Offered
  <2>4. DeliveredCallsAreUsable'
    <3>1. Usable(delivered, SentNames)
      BY UsableIs DEF RoundsInv
    <3>2. Usable(delivered, SentNames)'
      BY <2>1, <2>3, <3>1
    <3>3. (DeliveredCallsAreUsable <=> Usable(delivered, SentNames))'
      BY UsableIs, PTL
    <3> QED BY <3>2, <3>3
  <2>5. OnlyMixed(fed') /\ Answered(fed') /\ Before(fed', rounds')
    BY <1>1 DEF RoundsInv
  <2>6. Fresh(response', rounds', Offered') /\ WebCallsIn(response') # {}
    BY <1>1, <1>3, <1>5, <1>6, <1>10, <2>3
  <2> QED BY <2>1, <2>2, <2>4, <2>5, <2>6 DEF RoundsInv
<1> QED BY <1>8, <1>9, <1>10

\* Each web call is given one output with its id.
LEMMA OutputsAnswer ==
  ASSUME NEW items \in Seq(Items), NEW calls, Picked(calls, Call, items, WebCallsIn(items))
  PROVE  AnswersTo([i \in DOMAIN calls |-> OutputFor(calls[i])], items)
<1> DEFINE outputs == [i \in DOMAIN calls |-> OutputFor(calls[i])]
<1>1. calls \in Seq(Call)
  BY DEF Picked
<1>2. Len(calls) \in Nat /\ DOMAIN calls = 1..Len(calls)
  BY <1>1, LenProperties
<1>3. PICK f \in [1..Len(calls) -> WebCallsIn(items)] :
        /\ \A i, j \in 1..Len(calls) : i < j => f[i] < f[j]
        /\ \A p \in WebCallsIn(items) : \E i \in 1..Len(calls) : f[i] = p
        /\ \A i \in 1..Len(calls) : calls[i] = items[f[i]]
  BY DEF Picked
<1>4. \A i \in 1..Len(calls) : outputs[i].kind = "output" /\ outputs[i].id = calls[i].id /\ outputs[i] \in Items
  <2> SUFFICES ASSUME NEW i \in 1..Len(calls)
               PROVE  outputs[i].kind = "output" /\ outputs[i].id = calls[i].id /\ outputs[i] \in Items
    OBVIOUS
  <2>1. outputs[i] = [kind |-> "output", id |-> calls[i].id]
    BY <1>2 DEF OutputFor
  <2>2. calls[i].id \in Id
    <3>1. calls[i] \in Call
      BY <1>1, <1>2, ElementOfSeq
    <3> QED BY <3>1 DEF Call
  <2> HIDE DEF outputs
  <2>3. outputs[i] \in Output
    BY <2>1, <2>2 DEF Output
  <2> QED BY <2>1, <2>3 DEF Items
<1>5. outputs \in Seq(Items) /\ Len(outputs) = Len(calls)
  <2>1. outputs = [i \in 1..Len(calls) |-> outputs[i]]
    BY <1>2
  <2> HIDE DEF outputs
  <2> QED BY <1>2, <1>4, <2>1
<1> HIDE DEF outputs
<1>6. \A k, l \in 1..Len(calls) : f[k] = f[l] => k = l
  <2> SUFFICES ASSUME NEW k \in 1..Len(calls), NEW l \in 1..Len(calls), f[k] = f[l], k # l PROVE FALSE
    OBVIOUS
  <2>1. f[k] \in Nat /\ f[l] \in Nat
    <3>1. WebCallsIn(items) \subseteq Nat
      BY LenProperties DEF WebCallsIn, CallsIn
    <3> QED BY <1>3, <3>1
  <2>2. CASE k < l
    BY <1>3, <2>1, <2>2
  <2>3. CASE l < k
    BY <1>3, <2>1, <2>3
  <2> QED BY <1>2, <2>2, <2>3
<1>7. \A k \in 1..Len(outputs) : outputs[k].kind = "output"
  BY <1>4, <1>5
<1>8. \E g \in [1..Len(outputs) -> WebCallsIn(items)] :
       /\ \A k, l \in 1..Len(outputs) : g[k] = g[l] => k = l
       /\ \A i \in WebCallsIn(items) : \E k \in 1..Len(outputs) : g[k] = i
       /\ \A k \in 1..Len(outputs) : outputs[k].id = items[g[k]].id
  BY <1>3, <1>4, <1>5, <1>6
<1> QED BY <1>5, <1>7, <1>8 DEF AnswersTo, outputs

\* The outputs of a round follow its calls.
LEMMA WebCallKeeps == RoundsInv /\ WebCall => RoundsInv'
<1> SUFFICES ASSUME RoundsInv, WebCall PROVE RoundsInv'
  OBVIOUS
<1>1. /\ RoundsTypeOK /\ stage = "search" /\ pending # <<>> /\ pending' = Tail(pending)
      /\ UNCHANGED <<tools, rounds, response, delivered>>
  BY DEF RoundsInv, WebCall
<1>2. pending' \in Seq(Call)
  BY <1>1 DEF RoundsTypeOK
<1>3. SentNames' = SentNames /\ Offered' = Offered
  BY <1>1 DEF SentNames, Offered
<1>4. DeliveredCallsAreUsable'
  <2>1. Usable(delivered, SentNames)
    BY UsableIs DEF RoundsInv
  <2>2. Usable(delivered, SentNames)'
    BY <1>1, <1>3, <2>1
  <2>3. (DeliveredCallsAreUsable <=> Usable(delivered, SentNames))'
    BY UsableIs, PTL
  <2> QED BY <2>2, <2>3
<1>5. /\ fed \in Seq(Items) /\ OnlyMixed(fed) /\ Answered(fed) /\ Before(fed, rounds)
      /\ Fresh(response, rounds, Offered) /\ WebCallsIn(response) # {} /\ rounds \in Nat
  BY <1>1 DEF RoundsInv, RoundsTypeOK
<1>6. CASE Len(pending) > 1
  <2>1. UNCHANGED <<stage, fed>>
    BY <1>6 DEF WebCall
  <2>2. RoundsTypeOK'
    BY <1>1, <1>2, <2>1 DEF RoundsTypeOK
  <2>3. /\ OnlyMixed(fed') /\ Answered(fed') /\ Before(fed', rounds')
        /\ Fresh(response', rounds', Offered') /\ WebCallsIn(response') # {}
    BY <1>1, <1>3, <1>5, <2>1
  <2> QED BY <1>1, <1>4, <2>1, <2>2, <2>3 DEF RoundsInv
<1>7. CASE ~(Len(pending) > 1)
  <2> DEFINE calls == LocalCalls(response, response)
             outputs == [i \in DOMAIN calls |-> OutputFor(calls[i])]
  <2>1. fed' = fed \o (response \o outputs) /\ stage' = "infer"
    BY <1>7, Zenon DEF WebCall, Feed
  <2>2. response \in Seq(Items)
    BY <1>5 DEF Fresh
  <2>3. Picked(calls, Call, response, WebCallsIn(response))
    BY <2>2, WebCallsAre
  <2> HIDE DEF calls
  <2>4. AnswersTo(outputs, response)
    BY <2>2, <2>3, OutputsAnswer
  <2> HIDE DEF outputs
  <2>5. fed' \in Seq(Items) /\ Answered(fed') /\ OnlyMixed(fed') /\ Before(fed', rounds + 1)
    <3> DEFINE s == fed \o (response \o outputs)
    <3>1. s \in Seq(Items) /\ Answered(s) /\ OnlyMixed(s) /\ Before(s, rounds + 1)
      BY <1>5, <2>4, RoundIsAnswered
    <3>2. fed' = s
      BY <2>1
    <3> HIDE DEF s
    <3> QED BY <3>1, <3>2
  <2>6. RoundsTypeOK'
    BY <1>1, <1>2, <2>1, <2>5 DEF RoundsTypeOK
  <2>7. Before(fed', rounds' + 1)
    BY <1>1, <2>5
  <2> QED BY <1>4, <2>1, <2>5, <2>6, <2>7 DEF RoundsInv
<1> QED BY <1>6, <1>7

\* A round breaks off, or is one too many.
LEMMA FailuresKeep == RoundsInv /\ (InferenceFails \/ WebCallRaises \/ GiveUp) => RoundsInv'
<1> SUFFICES ASSUME RoundsInv, InferenceFails \/ WebCallRaises \/ GiveUp PROVE RoundsInv'
  OBVIOUS
<1>1. UNCHANGED <<tools, rounds, fed, response, pending>>
  BY DEF InferenceFails, WebCallRaises, GiveUp
<1>2. rounds' \in 0..MaxRounds /\ response' \in Seq(Items) /\ pending' \in Seq(Call)
  BY <1>1 DEF RoundsInv, RoundsTypeOK
<1>3. PICK result \in Results : Usable(result, SentNames) /\ stage' = "done" /\ delivered' = result
  <2>1. CASE InferenceFails \/ WebCallRaises
    <3>1. PICK status \in {"failed", "invalid", "raised"} : Done(Nothing(status))
      BY <2>1 DEF InferenceFails, WebCallRaises
    <3>2. Nothing(status) \in Results /\ Usable(Nothing(status), SentNames)
      BY NothingIsUsable
    <3> QED BY <3>1, <3>2 DEF Done
  <2>2. CASE GiveUp
    <3> DEFINE m == [kind |-> "message"]
    <3>1. m \in Message
      BY DEF Message
    <3>2. delivered' = [status |-> "limit", output |-> <<m>>] /\ stage' = "done"
      BY <2>2 DEF GiveUp, Done
    <3> HIDE DEF m
    <3>3. <<m>> \in Seq(Message)
      BY <3>1
    <3> DEFINE o == <<m>>
    <3>4. o \in Seq(Items) /\ CallsIn(o) = {}
      <4>1. \A i \in DOMAIN o : o[i].kind # "call"
        BY <3>1 DEF Message
      <4> QED BY <3>3, <4>1, MessagesAre DEF CallsIn
    <3> HIDE DEF o
    <3>5. delivered' = [status |-> "limit", output |-> o]
      BY <3>2 DEF o
    <3>6. delivered' \in Results /\ delivered'.output = o
      BY <3>4, <3>5 DEF Results
    <3>7. Usable(delivered', SentNames)
      BY <3>4, <3>6 DEF Usable
    <3> QED BY <3>2, <3>6, <3>7
  <2> QED BY <2>1, <2>2
<1> QED BY <1>1, <1>2, <1>3, DoneKeeps

\* Every step keeps the invariant.
LEMMA RoundsStep == RoundsInv /\ [RoundsNext]_roundVars => RoundsInv'
<1> SUFFICES ASSUME RoundsInv, [RoundsNext]_roundVars PROVE RoundsInv'
  OBVIOUS
<1>1. CASE UNCHANGED roundVars
  <2>1. UNCHANGED <<tools, stage, rounds, fed, response, pending, delivered>>
    BY <1>1 DEF roundVars
  <2>2. SentNames' = SentNames /\ Offered' = Offered
    BY <2>1 DEF SentNames, Offered
  <2>3. DeliveredCallsAreUsable'
    <3>1. Usable(delivered, SentNames)'
      BY <2>1, <2>2, UsableIs DEF RoundsInv
    <3>2. (DeliveredCallsAreUsable <=> Usable(delivered, SentNames))'
      BY UsableIs, PTL
    <3> QED BY <3>1, <3>2
  <2> QED BY <2>1, <2>2, <2>3 DEF RoundsInv, RoundsTypeOK
<1>2. CASE RoundsNext
  BY <1>2, PrepareKeeps, InferKeeps, WebCallKeeps, FailuresKeep DEF RoundsNext
<1> QED BY <1>1, <1>2

\* The invariant says what the next round is sent.
LEMMA AnsweredIs == RoundsInv => WebCallsAreAnswered
<1> SUFFICES ASSUME RoundsInv, stage = "infer"
             PROVE  LET answers(i) == {j \in DOMAIN fed : fed[j].kind = "output" /\ fed[j].id = fed[i].id}
                        webCalls   == WebCallsIn(fed)
                    IN  /\ \A i \in DOMAIN fed : fed[i].kind # "reasoning"
                        /\ \A i \in webCalls : \E j \in answers(i) : answers(i) = {j} /\ j > i
                        /\ {j \in DOMAIN fed : fed[j].kind = "output"} = UNION {answers(i) : i \in webCalls}
  BY DEF WebCallsAreAnswered
<1> DEFINE answers(i) == {j \in DOMAIN fed : fed[j].kind = "output" /\ fed[j].id = fed[i].id}
<1>1. Answered(fed)
  BY DEF RoundsInv
<1>2. \A i : answers(i) = {j \in OutputsIn(fed) : fed[j].id = fed[i].id}
  BY DEF OutputsIn
<1>3. ASSUME NEW i \in WebCallsIn(fed) PROVE \E j \in answers(i) : answers(i) = {j} /\ j > i
  <2>1. PICK j \in OutputsIn(fed) :
          /\ j > i /\ fed[j].id = fed[i].id
          /\ \A k \in OutputsIn(fed) : fed[k].id = fed[i].id => k = j
    BY <1>1 DEF Answered
  <2>2. answers(i) = {j}
    BY <1>2, <2>1
  <2> QED BY <2>1, <2>2
<1>4. OutputsIn(fed) = UNION {answers(i) : i \in WebCallsIn(fed)}
  <2>1. \A j \in OutputsIn(fed) : \E i \in WebCallsIn(fed) : fed[i].id = fed[j].id
    BY <1>1 DEF Answered
  <2>2. \A j \in OutputsIn(fed) : \E i \in WebCallsIn(fed) : j \in answers(i)
    BY <1>2, <2>1
  <2>3. \A i : answers(i) \subseteq OutputsIn(fed)
    BY <1>2
  <2> HIDE DEF answers
  <2> QED BY <2>2, <2>3
<1>5. \A i \in DOMAIN fed : fed[i].kind # "reasoning"
  BY <1>1 DEF Answered
<1>6. {j \in DOMAIN fed : fed[j].kind = "output"} = OutputsIn(fed)
  BY DEF OutputsIn
<1> QED BY <1>3, <1>4, <1>5, <1>6

\* The loop of _run_ollama_with_web_tools, for any tools, outputs of the model and number of
\* rounds: only calls mixed with web calls are lost; Codex is delivered calls of tools it has,
\* a shell call with a command but for the shapes of arguments that DeliveredCallsAreUsable
\* names; and web calls are answered.
THEOREM AlwaysAnswered ==
  RoundsSpec => [](OnlyMixedCallsAreLost /\ DeliveredCallsAreUsable /\ WebCallsAreAnswered)
<1>1. RoundsInv => OnlyMixedCallsAreLost /\ DeliveredCallsAreUsable /\ WebCallsAreAnswered
  BY AnsweredIs DEF RoundsInv, OnlyMixed, OnlyMixedCallsAreLost
<1> QED BY <1>1, RoundsInvAtFirst, RoundsStep, PTL DEF RoundsSpec

-----------------------------------------------------------------------------
(* The parser of the stream.                                               *)

\* The sums g[k] of the first k sequences of s.
SumsUp(g, s, n, X) ==
  g \in [0..n -> Seq(X)] /\ g[0] = <<>> /\ \A i \in 1..n : g[i] = g[i - 1] \o s[i]

\* FlattenSeq is the last of them.
LEMMA FlattenIs ==
  ASSUME NEW X, NEW n \in Nat, NEW s \in [1..n -> Seq(X)]
  PROVE  \E g : SumsUp(g, s, n, X) /\ FlattenSeq(s) = g[n]
<1> DEFINE Without == {k \in 0..n : ~\E g : SumsUp(g, s, k, X)}
           Flat(g) == g = [i \in 1..Len(s) |-> IF i = 1 THEN s[i] ELSE g[i - 1] \o s[i]]
<1>1. ASSUME Without # {} PROVE FALSE
  <2>1. PICK k \in Without : \A l \in Without : k <= l
    <3>1. Without \subseteq Nat
      OBVIOUS
    <3> HIDE DEF Without
    <3> QED BY <1>1, <3>1, LeastExists
  <2>2. k \in 0..n /\ ~\E g : SumsUp(g, s, k, X)
    BY <2>1
  <2>3. CASE k = 0
    <3>1. SumsUp([i \in 0..0 |-> <<>>], s, 0, X)
      BY DEF SumsUp
    <3> QED BY <2>2, <2>3, <3>1
  <2>4. CASE k # 0
    <3>1. k - 1 \in 0..n /\ ~(k <= k - 1) /\ k \in 1..n
      BY <2>2, <2>4
    <3>2. k - 1 \notin Without
      BY <2>1, <3>1
    <3>3. PICK g : SumsUp(g, s, k - 1, X)
      BY <3>1, <3>2
    <3> DEFINE h == [i \in 0..k |-> IF i = k THEN g[k - 1] \o s[k] ELSE g[i]]
    <3>4. g[k - 1] \in Seq(X) /\ s[k] \in Seq(X) /\ g[k - 1] \o s[k] \in Seq(X)
      BY <3>1, <3>3 DEF SumsUp
    <3>5. \A i \in 0..k : h[i] \in Seq(X)
      BY <3>1, <3>3, <3>4 DEF SumsUp
    <3>6. ASSUME NEW i \in 1..k PROVE h[i] = h[i - 1] \o s[i]
      <4>1. k \in Nat /\ i \in 0..k /\ i - 1 \in 0..k /\ i - 1 # k
        BY <3>1
      <4>2. h[i] = (IF i = k THEN g[k - 1] \o s[k] ELSE g[i]) /\ h[i - 1] = g[i - 1]
        BY <4>1
      <4>3. i # k => i \in 1..(k - 1)
        BY <4>1
      <4> HIDE DEF h
      <4>4. CASE i = k
        BY <4>2, <4>4
      <4>5. CASE i # k
        <5>1. g[i] = g[i - 1] \o s[i]
          BY <3>3, <4>3, <4>5 DEF SumsUp
        <5> QED BY <4>2, <4>5, <5>1
      <4> QED BY <4>4, <4>5
    <3>7. h[0] = <<>> /\ h \in [0..k -> Seq(X)]
      BY <3>1, <3>3, <3>5 DEF SumsUp
    <3>8. SumsUp(h, s, k, X)
      BY <3>6, <3>7 DEF SumsUp
    <3> QED BY <2>2, <3>8
  <2> QED BY <2>3, <2>4
<1>2. PICK g : SumsUp(g, s, n, X)
  <2>1. Without = {}
    BY <1>1
  <2>2. n \in 0..n
    OBVIOUS
  <2> QED BY <2>1, <2>2
<1>3. Len(s) = n
  OBVIOUS
<1>4. CASE n = 0
  <2>1. FlattenSeq(s) = s /\ s = <<>>
    BY <1>3, <1>4 DEF FlattenSeq
  <2> QED BY <1>2, <1>4, <2>1 DEF SumsUp
<1>5. CASE n # 0
  <2> DEFINE f == CHOOSE h : Flat(h)
             first == [i \in 1..n |-> g[i]]
  <2>1. FlattenSeq(s) = f[n]
    BY <1>3, <1>5, Zenon DEF FlattenSeq
  <2>0. g[1] = s[1]
    <3>1. ASSUME NEW i \in 1..n, i = 1 PROVE g[i] = s[i]
      <4>1. g[i] = g[i - 1] \o s[i] /\ s[i] \in Seq(X) /\ g[0] = <<>>
        BY <1>2 DEF SumsUp
      <4>2. g[i - 1] = <<>>
        <5>1. i - 1 = 0
          BY <3>1
        <5> QED BY <4>1, <5>1
      <4>3. <<>> \o s[i] = s[i]
        BY <4>1, ConcatEmptySeq
      <4> QED BY <4>1, <4>2, <4>3
    <3>2. 1 \in 1..n
      BY <1>5
    <3> QED BY <3>1, <3>2
  <2>2. Flat(first)
    <3>1. \A i \in 1..n : first[i] = IF i = 1 THEN s[i] ELSE first[i - 1] \o s[i]
      <4>1. \A i \in 1..n : i # 1 => i - 1 \in 1..n
        OBVIOUS
      <4> QED BY <1>2, <2>0, <4>1 DEF SumsUp
    <3>2. first = [i \in 1..n |-> first[i]]
      OBVIOUS
    <3> HIDE DEF first
    <3> QED BY <1>3, <3>1, <3>2
  <2>3. Flat(f)
    <3> HIDE DEF Flat, first
    <3> QED BY <2>2
  <2>4. \A i \in 1..n : f[i] = IF i = 1 THEN s[i] ELSE f[i - 1] \o s[i]
    <3> HIDE DEF f
    <3> QED BY <1>3, <2>3
  <2> HIDE DEF f
  <2> DEFINE Other == {i \in 1..n : f[i] # g[i]}
  <2>5. ASSUME Other # {} PROVE FALSE
    <3>1. PICK i \in Other : \A j \in Other : i <= j
      <4>1. Other \subseteq Nat
        OBVIOUS
      <4> HIDE DEF Other
      <4> QED BY <2>5, <4>1, LeastExists
    <3>2. i \in 1..n /\ f[i] # g[i]
      BY <3>1
    <3>3. i # 1
      BY <1>5, <2>0, <2>4, <3>2
    <3>4. i - 1 \in 1..n /\ ~(i <= i - 1)
      BY <3>2, <3>3
    <3>5. f[i - 1] = g[i - 1]
      BY <3>1, <3>4
    <3> QED BY <1>2, <2>4, <3>2, <3>3, <3>5 DEF SumsUp
  <2>6. f[n] = g[n]
    <3>1. n \in 1..n
      BY <1>5
    <3> QED BY <2>5, <3>1
  <2> QED BY <1>2, <2>1, <2>6, Zenon
<1> QED BY <1>4, <1>5

\* Each of them begins the last one.
Begins(g, n, X) == \A k \in 0..n : \E r \in Seq(X) : g[n] = g[k] \o r
LEMMA SumsBegin ==
  ASSUME NEW X, NEW n \in Nat, NEW s \in [1..n -> Seq(X)], NEW g, SumsUp(g, s, n, X)
  PROVE  Begins(g, n, X)
<1> SUFFICES ASSUME NEW k \in 0..n PROVE \E r \in Seq(X) : g[n] = g[k] \o r
  BY DEF Begins
<1> DEFINE Without == {m \in k..n : ~\E r \in Seq(X) : g[m] = g[k] \o r}
<1>1. ASSUME Without # {} PROVE FALSE
  <2>1. PICK m \in Without : \A l \in Without : m <= l
    <3>1. Without \subseteq Nat
      OBVIOUS
    <3> HIDE DEF Without
    <3> QED BY <1>1, <3>1, LeastExists
  <2>2. m \in k..n /\ ~\E r \in Seq(X) : g[m] = g[k] \o r
    BY <2>1
  <2>3. CASE m = k
    <3>1. g[k] \in Seq(X) /\ <<>> \in Seq(X)
      BY DEF SumsUp
    <3>2. g[k] = g[k] \o <<>>
      BY <3>1, ConcatEmptySeq
    <3> QED BY <2>2, <2>3, <3>1, <3>2
  <2>4. CASE m # k
    <3>1. m - 1 \in k..n /\ ~(m <= m - 1) /\ m \in 1..n /\ m - 1 \in 0..n
      BY <2>2, <2>4
    <3>2. PICK r \in Seq(X) : g[m - 1] = g[k] \o r
      BY <2>1, <3>1
    <3>3. g[m] = (g[k] \o r) \o s[m] /\ g[k] \in Seq(X) /\ s[m] \in Seq(X)
      BY <3>1, <3>2 DEF SumsUp
    <3>4. \A a, b \in Seq(X) : (a \o r) \o b = a \o (r \o b)
      BY ConcatAssociative
    <3>5. r \o s[m] \in Seq(X)
      BY <3>3
    <3> QED BY <2>2, <3>3, <3>4, <3>5
  <2> QED BY <2>3, <2>4
<1>2. Without = {}
  BY <1>1
<1>3. n \in k..n
  OBVIOUS
<1> QED BY <1>2, <1>3

\* Where a separator stands.
LEMMA FoundAreTwo ==
  ASSUME NEW X, NEW text \in Seq(X)
  PROVE  FoundAt(text, Lf) = {i \in 1..(Len(text) - 1) : text[i] = "LF" /\ text[i + 1] = "LF"}
<1>1. Len(Lf) = 2 /\ Len(text) \in Nat
  BY DEF Lf
<1>2. ASSUME NEW i \in 1..(Len(text) - 1)
      PROVE  SubSeq(text, i, i + 1) = Lf <=> text[i] = "LF" /\ text[i + 1] = "LF"
  <2> DEFINE cut == SubSeq(text, i, i + 1)
  <2>1. \A j \in i..(i + 1) : text[j] \in X
    BY <1>1
  <2>2. cut \in Seq(X) /\ Len(cut) = 2 /\ cut[1] = text[i] /\ cut[2] = text[i + 1]
    <3>1. i \in Int /\ i + 1 \in Int /\ i <= i + 1 /\ (i + 1) - i + 1 = 2
      OBVIOUS
    <3>2. cut \in Seq(X) /\ Len(cut) = 2 /\ \A j \in 1..2 : cut[j] = text[i + j - 1]
      BY <2>1, <3>1, SubSeqProperties
    <3> HIDE DEF cut
    <3>3. i + 1 - 1 = i /\ i + 2 - 1 = i + 1
      OBVIOUS
    <3> QED BY <3>2, <3>3
  <2> HIDE DEF cut
  <2>3. cut = <<cut[1], cut[2]>>
    BY <2>2
  <2> QED BY <2>2, <2>3 DEF Lf, cut
<1>3. \A i : i + Len(Lf) - 1 = i + 2 - 1
  BY <1>1
<1>4. FoundAt(text, Lf) = {i \in 1..(Len(text) - 1) : SubSeq(text, i, i + 1) = Lf}
  <2>1. Len(text) - Len(Lf) + 1 = Len(text) - 1 /\ \A i \in 1..(Len(text) - 1) : i + Len(Lf) - 1 = i + 1
    BY <1>1
  <2> QED BY <2>1 DEF FoundAt
<1> QED BY <1>2, <1>4

LEMMA FoundAreFour ==
  ASSUME NEW X, NEW text \in Seq(X)
  PROVE  FoundAt(text, Crlf) =
           {i \in 1..(Len(text) - 3) : /\ text[i] = "CR" /\ text[i + 1] = "LF"
                                       /\ text[i + 2] = "CR" /\ text[i + 3] = "LF"}
<1>1. Len(Crlf) = 4 /\ Len(text) \in Nat
  BY DEF Crlf
<1>2. ASSUME NEW i \in 1..(Len(text) - 3)
      PROVE  SubSeq(text, i, i + 3) = Crlf <=>
               /\ text[i] = "CR" /\ text[i + 1] = "LF" /\ text[i + 2] = "CR" /\ text[i + 3] = "LF"
  <2> DEFINE cut == SubSeq(text, i, i + 3)
  <2>1. \A j \in i..(i + 3) : text[j] \in X
    BY <1>1
  <2>2. /\ cut \in Seq(X) /\ Len(cut) = 4 /\ cut[1] = text[i] /\ cut[2] = text[i + 1]
        /\ cut[3] = text[i + 2] /\ cut[4] = text[i + 3]
    <3>1. i \in Int /\ i + 3 \in Int /\ i <= i + 3 /\ (i + 3) - i + 1 = 4
      OBVIOUS
    <3>2. cut \in Seq(X) /\ Len(cut) = 4 /\ \A j \in 1..4 : cut[j] = text[i + j - 1]
      BY <2>1, <3>1, SubSeqProperties
    <3> HIDE DEF cut
    <3>3. i + 1 - 1 = i /\ i + 2 - 1 = i + 1 /\ i + 3 - 1 = i + 2 /\ i + 4 - 1 = i + 3
      OBVIOUS
    <3> QED BY <3>2, <3>3
  <2> HIDE DEF cut
  <2>3. cut = <<cut[1], cut[2], cut[3], cut[4]>>
    BY <2>2
  <2> QED BY <2>2, <2>3 DEF Crlf, cut
<1>4. FoundAt(text, Crlf) = {i \in 1..(Len(text) - 3) : SubSeq(text, i, i + 3) = Crlf}
  <2>1. Len(text) - Len(Crlf) + 1 = Len(text) - 3 /\ \A i \in 1..(Len(text) - 3) : i + Len(Crlf) - 1 = i + 3
    BY <1>1
  <2> QED BY <2>1 DEF FoundAt
<1> QED BY <1>2, <1>4

\* A number of a set that is not above any other is the least.
LEMMA FirstOne ==
  ASSUME NEW b \in Nat, NEW found, found \subseteq Nat, b \in found, \A i \in found : b <= i
  PROVE  Min(found) = b
<1>1. Min(found) \in found /\ \A i \in found : Min(found) <= i
  BY LeastIsOne
<1>2. Min(found) \in Nat /\ Min(found) <= b /\ b <= Min(found)
  BY <1>1
<1> QED BY <1>2

\* No separator begins in a block, also not with its last characters.
Whole(block, blank, X) ==
  LET text == block \o blank
  IN  /\ block \in Seq(X) /\ blank \in Seq(X)
      /\ \/ /\ blank = Lf /\ "CR" \notin X
            /\ \A i \in 1..Len(block) : ~(text[i] = "LF" /\ text[i + 1] = "LF")
         \/ /\ blank = Crlf
            /\ \A i \in 1..(Len(text) - 1) : ~(text[i] = "LF" /\ text[i + 1] = "LF")
            /\ \A i \in 1..Len(block) : ~(/\ text[i] = "CR" /\ text[i + 1] = "LF"
                                          /\ text[i + 2] = "CR" /\ text[i + 3] = "LF")

\* So the first one that is found is the one behind the block, and it is found when it is there.
LEMMA BlockIsFound ==
  ASSUME NEW X, buffer \in Seq(X), NEW later \in Seq(X), NEW rest \in Seq(X),
         NEW block, NEW blank, Whole(block, blank, X),
         buffer \o later = (block \o blank) \o rest
  PROVE  /\ HasBlock => /\ Separator = blank /\ Min(FoundAt(buffer, Separator)) = Len(block) + 1
                        /\ Len(block) + Len(blank) <= Len(buffer)
         /\ Len(block) + Len(blank) <= Len(buffer) => HasBlock
<1> DEFINE text == block \o blank
           B == Len(block)
<1>1. block \in Seq(X) /\ blank \in Seq(X) /\ text \in Seq(X) /\ B \in Nat /\ Len(text) = B + Len(blank)
  BY DEF Whole
<1>2. \A i \in 1..Len(text) : (text \o rest)[i] = text[i]
  BY <1>1, ConcatProperties
<1>3. \A i \in 1..Len(buffer) : (buffer \o later)[i] = buffer[i]
  BY ConcatProperties
<1>4. \A i \in 1..Len(buffer) : i <= Len(text) => buffer[i] = text[i]
  BY <1>1, <1>2, <1>3
<1>5. \A i \in 1..Len(blank) : text[B + i] = blank[i]
  BY <1>1, ConcatProperties
<1> HIDE DEF text, B
<1>6. Len(buffer) \in Nat /\ \A i \in 1..Len(buffer) : buffer[i] \in X
  OBVIOUS
<1> DEFINE Two == FoundAt(buffer, Lf)
           Four == FoundAt(buffer, Crlf)
<1>7. Two = {i \in 1..(Len(buffer) - 1) : buffer[i] = "LF" /\ buffer[i + 1] = "LF"}
  BY FoundAreTwo
<1>8. Four = {i \in 1..(Len(buffer) - 3) : /\ buffer[i] = "CR" /\ buffer[i + 1] = "LF"
                                           /\ buffer[i + 2] = "CR" /\ buffer[i + 3] = "LF"}
  BY FoundAreFour
<1> HIDE DEF Two, Four
<1>9. ASSUME NEW found, found \subseteq Nat, B + 1 \in found, \A i \in found : B + 1 <= i
      PROVE  Min(found) = B + 1
  <2>1. B + 1 \in Nat
    BY <1>1
  <2> QED BY <1>9, <2>1, FirstOne
<1>10. CASE /\ blank = Lf /\ "CR" \notin X
            /\ \A i \in 1..B : ~(text[i] = "LF" /\ text[i + 1] = "LF")
  <2>1. Four = {}
    <3>1. \A i \in Four : i \in 1..Len(buffer) /\ buffer[i] = "CR"
      BY <1>6, <1>8
    <3> QED BY <1>6, <1>10, <3>1
  <2>2. Separator = Lf /\ FoundAt(buffer, Separator) = Two
    BY <2>1 DEF Separator, Two, Four
  <2>3. Len(text) = B + 2 /\ text[B + 1] = "LF" /\ text[B + 2] = "LF"
    BY <1>1, <1>5, <1>10 DEF Lf
  <2>4. ASSUME NEW i \in Two PROVE B + 1 <= i
    <3>1. i \in 1..Len(buffer) /\ i + 1 \in 1..Len(buffer) /\ buffer[i] = "LF" /\ buffer[i + 1] = "LF"
      BY <1>6, <1>7
    <3>2. i <= B => i \in 1..B /\ text[i] = "LF" /\ text[i + 1] = "LF"
      BY <1>1, <1>4, <2>3, <3>1
    <3> QED BY <1>1, <1>10, <3>1, <3>2
  <2>5. ASSUME B + 2 <= Len(buffer) PROVE B + 1 \in Two
    <3>1. B + 1 \in 1..(Len(buffer) - 1) /\ B + 1 \in 1..Len(buffer) /\ (B + 1) + 1 = B + 2 /\ B + 2 \in 1..Len(buffer)
      BY <1>1, <1>6, <2>5
    <3>2. buffer[B + 1] = "LF" /\ buffer[B + 2] = "LF"
      BY <1>1, <1>4, <2>3, <3>1
    <3> QED BY <1>7, <3>1, <3>2
  <2>6. ASSUME Two # {} PROVE B + 2 <= Len(buffer)
    <3>1. PICK i \in Two : TRUE
      BY <2>6
    <3>2. i \in 1..(Len(buffer) - 1) /\ B + 1 <= i
      BY <1>7, <2>4, <3>1
    <3> QED BY <1>1, <1>6, <3>2
  <2>7. Two # {} => Min(Two) = B + 1
    <3>1. Two \subseteq Nat
      BY <1>7
    <3> QED BY <1>9, <2>4, <2>5, <2>6, <3>1
  <2>8. Len(blank) = 2
    BY <1>10 DEF Lf
  <2> QED BY <1>10, <2>2, <2>5, <2>6, <2>7, <2>8 DEF HasBlock, B
<1>11. CASE /\ blank = Crlf
            /\ \A i \in 1..(Len(text) - 1) : ~(text[i] = "LF" /\ text[i + 1] = "LF")
            /\ \A i \in 1..B : ~(/\ text[i] = "CR" /\ text[i + 1] = "LF"
                                 /\ text[i + 2] = "CR" /\ text[i + 3] = "LF")
  <2>1. /\ Len(text) = B + 4 /\ text[B + 1] = "CR" /\ text[B + 2] = "LF"
        /\ text[B + 3] = "CR" /\ text[B + 4] = "LF"
    BY <1>1, <1>5, <1>11 DEF Crlf
  <2>2. ASSUME NEW i \in Four PROVE B + 1 <= i
    <3>1. /\ i \in 1..Len(buffer) /\ i + 1 \in 1..Len(buffer) /\ i + 2 \in 1..Len(buffer) /\ i + 3 \in 1..Len(buffer)
          /\ buffer[i] = "CR" /\ buffer[i + 1] = "LF" /\ buffer[i + 2] = "CR" /\ buffer[i + 3] = "LF"
      BY <1>6, <1>8
    <3>2. ASSUME i <= B PROVE FALSE
      <4>1. B \in Nat /\ Len(text) = B + 4 /\ i \in Nat /\ 1 <= i
        BY <1>1, <2>1, <3>1
      <4>2. i \in 1..B
        BY ONLY <3>2, <4>1
      <4>3. i <= Len(text) /\ i + 1 <= Len(text) /\ i + 2 <= Len(text) /\ i + 3 <= Len(text)
        BY ONLY <3>2, <4>1
      <4>4. text[i] = "CR" /\ text[i + 1] = "LF" /\ text[i + 2] = "CR" /\ text[i + 3] = "LF"
        BY ONLY <1>4, <3>1, <4>3
      <4> QED BY ONLY <1>11, <4>2, <4>4
    <3> QED BY <1>1, <3>1, <3>2
  <2>3. ASSUME B + 4 <= Len(buffer) PROVE B + 1 \in Four
    <3>1. /\ B + 1 \in 1..(Len(buffer) - 3) /\ B + 1 \in 1..Len(buffer) /\ (B + 1) + 1 = B + 2
          /\ (B + 1) + 2 = B + 3 /\ (B + 1) + 3 = B + 4
          /\ B + 2 \in 1..Len(buffer) /\ B + 3 \in 1..Len(buffer) /\ B + 4 \in 1..Len(buffer)
      <4>1. \A b, n \in Nat : b + 4 <= n =>
              /\ b + 1 \in 1..(n - 3) /\ b + 1 \in 1..n /\ (b + 1) + 1 = b + 2
              /\ (b + 1) + 2 = b + 3 /\ (b + 1) + 3 = b + 4
              /\ b + 2 \in 1..n /\ b + 3 \in 1..n /\ b + 4 \in 1..n
        OBVIOUS
      <4>2. B \in Nat /\ Len(buffer) \in Nat
        BY <1>1, <1>6
      <4> QED BY ONLY <2>3, <4>1, <4>2
    <3>2. /\ buffer[B + 1] = "CR" /\ buffer[B + 2] = "LF" /\ buffer[B + 3] = "CR" /\ buffer[B + 4] = "LF"
      <4>1. \A k \in {1, 2, 3, 4} : B + k \in 1..Len(buffer) /\ B + k <= Len(text)
        BY ONLY <1>1, <2>1, <3>1
      <4> QED BY ONLY <1>4, <2>1, <4>1
    <3> QED BY <1>8, <3>1, <3>2
  <2>4. ASSUME Four # {} PROVE B + 4 <= Len(buffer)
    <3>1. PICK i \in Four : TRUE
      BY <2>4
    <3>2. i \in 1..(Len(buffer) - 3) /\ B + 1 <= i
      BY <1>8, <2>2, <3>1
    <3> QED BY <1>1, <1>6, <3>2
  <2>5. Four # {} => Min(Four) = B + 1
    <3>1. Four \subseteq Nat
      BY <1>8
    <3> QED BY <1>9, <2>2, <2>3, <2>4, <3>1
  <2>6. Four = {} => Two = {}
    <3> SUFFICES ASSUME Four = {}, NEW i \in Two PROVE FALSE
      OBVIOUS
    <3>1. Len(buffer) < B + 4
      BY <1>1, <1>6, <2>3
    <3>2. i \in 1..Len(buffer) /\ i + 1 \in 1..Len(buffer) /\ buffer[i] = "LF" /\ buffer[i + 1] = "LF"
      BY <1>6, <1>7
    <3>3. i \in 1..(Len(text) - 1) /\ text[i] = "LF" /\ text[i + 1] = "LF"
      BY <1>1, <1>4, <2>1, <3>1, <3>2
    <3> QED BY <1>11, <3>3
  <2>7. Separator = (IF Four # {} THEN Crlf ELSE Lf) /\ (HasBlock <=> Four # {})
    BY <2>6 DEF Separator, HasBlock, Two, Four
  <2>8. Len(blank) = 4
    BY <1>11 DEF Crlf
  <2>9. ASSUME HasBlock PROVE Separator = blank /\ FoundAt(buffer, Separator) = Four
    BY <1>11, <2>7, <2>9 DEF Four
  <2> QED BY <2>3, <2>4, <2>5, <2>7, <2>8, <2>9 DEF B
<1> QED BY <1>10, <1>11 DEF Whole, text, B

\* Line ends are of the characters of the stream, and no lines.
SignsOf(end) == Lines \cup (IF end = <<"LF">> THEN {"LF"} ELSE {"CR", "LF"})

\* What a line adds to the events of a block.
Datum(line) == IF line \in Events THEN <<line>> ELSE <<>>

LEMMA DatumIs == \A line : Datum(line) \in Seq(Events) /\ (line \notin Events => Datum(line) = <<>>)
  BY DEF Datum

LEMMA DataAre ==
  ASSUME NEW n \in 0..4, NEW block, DOMAIN block = 1..n, Len(block) = n
  PROVE  /\ n = 0 => DataLines(block) = <<>>
         /\ n = 1 => DataLines(block) = Datum(block[1])
         /\ n = 2 => DataLines(block) = Datum(block[1]) \o Datum(block[2])
         /\ n = 3 => DataLines(block) = (Datum(block[1]) \o Datum(block[2])) \o Datum(block[3])
         /\ n = 4 => DataLines(block) = ((Datum(block[1]) \o Datum(block[2])) \o Datum(block[3])) \o Datum(block[4])
<1> DEFINE s == [i \in 1..n |-> Datum(block[i])]
<1>1. DataLines(block) = FlattenSeq(s)
  BY DEF DataLines, Datum
<1>2. s \in [1..n -> Seq(Events)] /\ \A i \in 1..n : s[i] = Datum(block[i]) /\ Datum(block[i]) \in Seq(Events)
  BY DatumIs
<1> HIDE DEF s
<1>3. PICK g : SumsUp(g, s, n, Events) /\ FlattenSeq(s) = g[n]
  BY <1>2, FlattenIs
<1>4. g[0] = <<>>
  BY <1>3 DEF SumsUp
<1>5. ASSUME NEW k \in 1..n, NEW j \in 0..n, j + 1 = k PROVE g[k] = g[j] \o s[k]
  <2>1. g[k] = g[k - 1] \o s[k]
    BY <1>3 DEF SumsUp
  <2>2. k - 1 = j
    BY <1>5
  <2> QED BY <2>1, <2>2
<1>6. n >= 1 => g[1] = Datum(block[1])
  <2> SUFFICES ASSUME n >= 1 PROVE g[1] = Datum(block[1])
    OBVIOUS
  <2>1. 1 \in 1..n /\ 0 \in 0..n /\ 0 + 1 = 1
    OBVIOUS
  <2>2. g[1] = g[0] \o s[1]
    BY <1>5, <2>1
  <2>3. s[1] = Datum(block[1]) /\ s[1] \in Seq(Events)
    BY <1>2, <2>1
  <2> QED BY <1>4, <2>2, <2>3, ConcatEmptySeq
<1>7. n >= 2 => g[2] = g[1] \o Datum(block[2])
  <2> SUFFICES ASSUME n >= 2 PROVE g[2] = g[1] \o Datum(block[2])
    OBVIOUS
  <2>1. 2 \in 1..n /\ 1 \in 0..n /\ 1 + 1 = 2
    OBVIOUS
  <2>2. g[2] = g[1] \o s[2]
    BY <1>5, <2>1
  <2> QED BY <1>2, <2>1, <2>2
<1>8. n >= 3 => g[3] = g[2] \o Datum(block[3])
  <2> SUFFICES ASSUME n >= 3 PROVE g[3] = g[2] \o Datum(block[3])
    OBVIOUS
  <2>1. 3 \in 1..n /\ 2 \in 0..n /\ 2 + 1 = 3
    OBVIOUS
  <2>2. g[3] = g[2] \o s[3]
    BY <1>5, <2>1
  <2> QED BY <1>2, <2>1, <2>2
<1>9. n >= 4 => g[4] = g[3] \o Datum(block[4])
  <2> SUFFICES ASSUME n >= 4 PROVE g[4] = g[3] \o Datum(block[4])
    OBVIOUS
  <2>1. 4 \in 1..n /\ 3 \in 0..n /\ 3 + 1 = 4
    OBVIOUS
  <2>2. g[4] = g[3] \o s[4]
    BY <1>5, <2>1
  <2> QED BY <1>2, <2>1, <2>2
<1>10. DataLines(block) = g[n] /\ n \in {0, 1, 2, 3, 4}
  BY <1>1, <1>3
<1>11. n = 0 => DataLines(block) = g[0]
  BY <1>10
<1>12. n = 1 => DataLines(block) = g[1]
  BY <1>10
<1>13. n = 2 => DataLines(block) = g[2]
  BY <1>10
<1>14. n = 3 => DataLines(block) = g[3]
  BY <1>10
<1>15. n = 4 => DataLines(block) = g[4]
  BY <1>10
<1>16. (n = 1 => n >= 1) /\ (n = 2 => n >= 1 /\ n >= 2) /\ (n = 3 => n >= 1 /\ n >= 2 /\ n >= 3)
       /\ (n = 4 => n >= 1 /\ n >= 2 /\ n >= 3 /\ n >= 4)
  OBVIOUS
<1> QED BY <1>4, <1>6, <1>7, <1>8, <1>9, <1>11, <1>12, <1>13, <1>14, <1>15, <1>16, Zenon

LEMMA TwoOrFour ==
  ASSUME NEW X, NEW s \in Seq(X)
  PROVE  /\ Len(s) = 2 => s = <<s[1], s[2]>>
         /\ Len(s) = 4 => s = <<s[1], s[2], s[3], s[4]>>
<1>1. ASSUME Len(s) = 2 PROVE s = <<s[1], s[2]>>
  BY <1>1
<1>2. ASSUME Len(s) = 4 PROVE s = <<s[1], s[2], s[3], s[4]>>
  BY <1>2
<1> QED BY <1>1, <1>2

\* Place by place.
LEMMA JoinIs ==
  ASSUME NEW X, NEW s \in Seq(X), NEW t \in Seq(X)
  PROVE  /\ s \o t \in Seq(X) /\ Len(s \o t) = Len(s) + Len(t)
         /\ \A i \in 1..Len(s) : (s \o t)[i] = s[i]
         /\ \A i \in 1..Len(t) : \A j \in Nat : j = Len(s) + i => (s \o t)[j] = t[i]
<1>1. Len(s) \in Nat /\ Len(t) \in Nat
  OBVIOUS
<1>2. /\ s \o t \in Seq(X) /\ Len(s \o t) = Len(s) + Len(t)
      /\ \A i \in 1..(Len(s) + Len(t)) : (s \o t)[i] = IF i <= Len(s) THEN s[i] ELSE t[i - Len(s)]
  BY ConcatProperties
<1>3. ASSUME NEW i \in 1..Len(t), NEW j \in Nat, j = Len(s) + i PROVE (s \o t)[j] = t[i]
  <2>1. j \in 1..(Len(s) + Len(t)) /\ ~(j <= Len(s)) /\ j - Len(s) = i
    BY <1>1, <1>3
  <2> QED BY <1>2, <2>1
<1>4. ASSUME NEW i \in 1..Len(s) PROVE (s \o t)[i] = s[i]
  <2>1. i \in 1..(Len(s) + Len(t)) /\ i <= Len(s)
    BY <1>1
  <2> QED BY <1>2, <2>1
<1> QED BY <1>2, <1>3, <1>4

LEMMA TwoLines ==
  ASSUME NEW X, NEW a \in X, NEW b \in X, NEW end \in Seq(X), NEW text, text = (<<a>> \o end) \o <<b>>
  PROVE  /\ text \in Seq(X) /\ Len(text) = Len(end) + 2 /\ text[1] = a
         /\ \A i \in 1..Len(end) : \A j \in Nat : j = i + 1 => text[j] = end[i]
         /\ \A j \in Nat : j = Len(end) + 2 => text[j] = b
<1> DEFINE one == <<a>>
           two == <<b>>
           front == one \o end
<1>1. one \in Seq(X) /\ two \in Seq(X) /\ Len(one) = 1 /\ Len(two) = 1 /\ one[1] = a /\ two[1] = b /\ Len(end) \in Nat
  OBVIOUS
<1>2. text = front \o two /\ front = one \o end
  OBVIOUS
<1> HIDE DEF one, two, front
<1>3. /\ front \in Seq(X) /\ Len(front) = Len(one) + Len(end)
      /\ \A i \in 1..Len(one) : front[i] = one[i]
      /\ \A i \in 1..Len(end) : \A j \in Nat : j = Len(one) + i => front[j] = end[i]
  BY <1>1, <1>2, JoinIs
<1>4. /\ text \in Seq(X) /\ Len(text) = Len(front) + Len(two)
      /\ \A i \in 1..Len(front) : text[i] = front[i]
      /\ \A i \in 1..Len(two) : \A j \in Nat : j = Len(front) + i => text[j] = two[i]
  BY <1>1, <1>2, <1>3, JoinIs
<1>5. Len(front) = Len(end) + 1 /\ Len(text) = Len(end) + 2
  BY <1>1, <1>3, <1>4
<1>6. text[1] = a
  <2>1. 1 \in 1..Len(front) /\ 1 \in 1..Len(one)
    BY <1>1, <1>5
  <2> QED BY <1>1, <1>3, <1>4, <2>1
<1>7. ASSUME NEW i \in 1..Len(end), NEW j \in Nat, j = i + 1 PROVE text[j] = end[i]
  <2>1. j \in 1..Len(front) /\ j = Len(one) + i
    BY <1>1, <1>5, <1>7
  <2> QED BY <1>3, <1>4, <2>1
<1>8. ASSUME NEW j \in Nat, j = Len(end) + 2 PROVE text[j] = b
  <2>1. 1 \in 1..Len(two) /\ j = Len(front) + 1
    BY <1>1, <1>5, <1>8
  <2> QED BY <1>1, <1>4, <2>1
<1> QED BY <1>4, <1>5, <1>6, <1>7, <1>8

\* The text of a block: it cannot be mistaken for more than one, and says what the block says.
LEMMA BlocksAre ==
  ASSUME NEW block \in Blocks, NEW end \in {<<"LF">>, <<"CR", "LF">>}
  PROVE  /\ Whole(BlockText(block, end), end \o end, SignsOf(end))
         /\ Observed(BlockText(block, end)) = DataLines(block)
         /\ DataLines(block) \in Seq(Events)
<1> DEFINE text == BlockText(block, end)
           a == block[1]
           b == block[2]
<1>1. a \in Lines /\ a # "LF" /\ a # "CR"
  BY DEF Blocks, Lines
<1>2. Datum(a) \in Seq(Events) /\ Len(Datum(a)) \in {0, 1} /\ (Len(Datum(a)) = 0 => Datum(a) = <<>>)
  BY DEF Datum
<1>3. "LF" \notin Events /\ "CR" \notin Events /\ Datum("LF") = <<>> /\ Datum("CR") = <<>>
  BY DEF Events, Datum
<1>4. (end = <<"LF">> => end \o end = Lf) /\ (end = <<"CR", "LF">> => end \o end = Crlf)
  <2> DEFINE blank == end \o end
  <2> DEFINE signs == {"CR", "LF"}
  <2>1. end \in Seq(signs)
    <3>1. <<"LF">> \in Seq(signs) /\ <<"CR", "LF">> \in Seq(signs)
      OBVIOUS
    <3> HIDE DEF signs
    <3> QED BY <3>1
  <2> HIDE DEF signs
  <2>2. /\ blank \in Seq(signs) /\ Len(blank) = Len(end) + Len(end)
        /\ \A i \in 1..Len(end) : blank[i] = end[i]
        /\ \A i \in 1..Len(end) : \A j \in Nat : j = Len(end) + i => blank[j] = end[i]
    BY ONLY <2>1, JoinIs
  <2> HIDE DEF blank
  <2>3. ASSUME end = <<"LF">> PROVE blank = Lf
    <3>1. Len(end) = 1 /\ end[1] = "LF"
      BY <2>3
    <3>2. Len(blank) = 2 /\ blank[1] = "LF" /\ blank[2] = "LF"
      BY <2>2, <3>1
    <3>3. blank = <<blank[1], blank[2]>>
      BY <2>2, <3>2, TwoOrFour
    <3> QED BY <3>2, <3>3 DEF Lf
  <2>4. ASSUME end = <<"CR", "LF">> PROVE blank = Crlf
    <3>1. Len(end) = 2 /\ end[1] = "CR" /\ end[2] = "LF"
      BY <2>4
    <3>2. Len(blank) = 4 /\ blank[1] = "CR" /\ blank[2] = "LF" /\ blank[3] = "CR" /\ blank[4] = "LF"
      BY <2>2, <3>1
    <3>3. blank = <<blank[1], blank[2], blank[3], blank[4]>>
      BY <2>2, <3>2, TwoOrFour
    <3> QED BY <3>2, <3>3 DEF Crlf
  <2> QED BY <2>3, <2>4 DEF blank
<1>5. /\ end = <<"LF">> => Lf \in Seq(SignsOf(end)) /\ "CR" \notin SignsOf(end)
      /\ end = <<"CR", "LF">> => Crlf \in Seq(SignsOf(end))
      /\ "LF" \in SignsOf(end) /\ Lines \subseteq SignsOf(end)
      /\ end = <<"CR", "LF">> => "CR" \in SignsOf(end)
  BY DEF SignsOf, Lines, Lf, Crlf
<1>6. ASSUME NEW blank, blank \in Seq(SignsOf(end)), text \in Seq(SignsOf(end))
      PROVE  /\ text \o blank \in Seq(SignsOf(end)) /\ Len(text \o blank) = Len(text) + Len(blank)
             /\ \A i \in 1..Len(text) : (text \o blank)[i] = text[i]
             /\ \A i \in 1..Len(blank) : \A j \in Nat : j = Len(text) + i => (text \o blank)[j] = blank[i]
  <2> HIDE DEF text
  <2> QED BY <1>6, JoinIs
<1>7. Len(Lf) = 2 /\ Lf[1] = "LF" /\ Lf[2] = "LF"
  BY DEF Lf
<1>8. Len(Crlf) = 4 /\ Crlf[1] = "CR" /\ Crlf[2] = "LF" /\ Crlf[3] = "CR" /\ Crlf[4] = "LF"
  BY DEF Crlf
<1>9. CASE Len(block) = 1
  <2>1. text = <<a>> /\ block = <<a>> /\ text \in Seq(SignsOf(end)) /\ Len(text) = 1 /\ text[1] = a
    <3>1. block = <<a>>
      BY <1>9 DEF Blocks
    <3>2. text = block
      BY <1>9 DEF BlockText
    <3>3. a \in SignsOf(end)
      BY <1>1, <1>5
    <3> HIDE DEF text, a
    <3> QED BY <3>1, <3>2, <3>3
  <2>2. DataLines(block) = Datum(a) /\ Observed(text) = Datum(a)
    <3>1. DOMAIN block = 1..1 /\ 1 \in 0..4
      BY <2>1
    <3>2. DataLines(block) = Datum(a)
      BY <1>9, <3>1, DataAre
    <3> QED BY <1>2, <2>1, <3>2 DEF Observed
  <2> HIDE DEF text, a, b
  <2>3. CASE end = <<"LF">>
    <3> DEFINE whole == text \o Lf
    <3>0. /\ Len(whole) = Len(text) + Len(Lf) /\ \A i \in 1..Len(text) : whole[i] = text[i]
          /\ \A i \in 1..Len(Lf) : \A j \in Nat : j = Len(text) + i => whole[j] = Lf[i]
      BY <1>5, <1>6, <2>1, <2>3
    <3> HIDE DEF whole
    <3>1. whole[1] = a /\ whole[2] = "LF" /\ whole[3] = "LF" /\ Len(whole) = 3
      BY <1>7, <2>1, <3>0
    <3>2. \A i \in 1..Len(text) : ~(whole[i] = "LF" /\ whole[i + 1] = "LF")
      BY <1>1, <2>1, <3>1
    <3>3. Whole(text, Lf, SignsOf(end))
      BY <1>5, <2>1, <2>3, <3>2 DEF Whole, whole
    <3> QED BY <1>2, <1>4, <2>2, <2>3, <3>3 DEF text
  <2>4. CASE end = <<"CR", "LF">>
    <3> DEFINE whole == text \o Crlf
    <3>0. /\ Len(whole) = Len(text) + Len(Crlf) /\ \A i \in 1..Len(text) : whole[i] = text[i]
          /\ \A i \in 1..Len(Crlf) : \A j \in Nat : j = Len(text) + i => whole[j] = Crlf[i]
      BY <1>5, <1>6, <2>1, <2>4
    <3> HIDE DEF whole
    <3>1. /\ whole[1] = a /\ whole[2] = "CR" /\ whole[3] = "LF" /\ whole[4] = "CR" /\ whole[5] = "LF"
          /\ Len(whole) = 5
      BY <1>8, <2>1, <3>0
    <3>2. /\ \A i \in 1..Len(text) : whole[i] # "CR"
          /\ \A i \in 1..(Len(whole) - 1) : ~(whole[i] = "LF" /\ whole[i + 1] = "LF")
      BY <1>1, <2>1, <3>1
    <3>3. Whole(text, Crlf, SignsOf(end))
      BY <1>5, <2>1, <2>4, <3>2 DEF Whole, whole
    <3> QED BY <1>2, <1>4, <2>2, <2>4, <3>3 DEF text
  <2> QED BY <2>3, <2>4
<1>10. CASE Len(block) # 1
  <2>1. /\ Len(block) = 2 /\ block = <<a, b>> /\ text = (<<a>> \o end) \o <<b>>
        /\ b \in Lines /\ b # "LF" /\ b # "CR"
    BY <1>10 DEF BlockText, Blocks, Lines
  <2>2. a \notin Events \/ b \notin Events
    BY <1>10 DEF Blocks, Events
  <2>3. Datum(b) \in Seq(Events) /\ Len(Datum(b)) \in {0, 1} /\ (Len(Datum(b)) = 0 => Datum(b) = <<>>)
    BY DEF Datum
  <2>4. DataLines(block) = Datum(a) \o Datum(b)
    <3>1. DOMAIN block = 1..2 /\ 2 \in 0..4
      BY <2>1
    <3> QED BY <2>1, <3>1, DataAre
  <2> HIDE DEF text, a, b
  <2>5. /\ Datum(a) \o Datum(b) \in Seq(Events) /\ Len(Datum(a) \o Datum(b)) \in {0, 1}
        /\ (Len(Datum(a) \o Datum(b)) = 0 => Datum(a) \o Datum(b) = <<>>)
    <3>1. Datum(a) = <<>> \/ Datum(b) = <<>>
      BY <2>2, DatumIs
    <3> QED BY <1>2, <2>3, <3>1, ConcatEmptySeq
  <2>6. end \in Seq(SignsOf(end))
    <3> DEFINE X == SignsOf(end)
    <3>1. "LF" \in X /\ (end = <<"CR", "LF">> => "CR" \in X)
      BY <1>5
    <3> HIDE DEF X
    <3>2. end = <<"LF">> => end \in Seq(X)
      BY <3>1
    <3>3. end = <<"CR", "LF">> => end \in Seq(X)
      BY <3>1
    <3> QED BY <3>2, <3>3 DEF X
  <2>7. /\ text \in Seq(SignsOf(end)) /\ Len(text) = Len(end) + 2 /\ text[1] = a
        /\ \A i \in 1..Len(end) : \A j \in Nat : j = i + 1 => text[j] = end[i]
        /\ \A j \in Nat : j = Len(end) + 2 => text[j] = b
    <3>1. a \in SignsOf(end) /\ b \in SignsOf(end)
      BY <1>1, <1>5, <2>1
    <3> QED BY <2>1, <2>6, <3>1, TwoLines
  <2>8. CASE end = <<"LF">>
    <3> DEFINE whole == text \o Lf
    <3>1. Len(text) = 3 /\ text[2] = "LF" /\ text[3] = b
      <4>1. Len(end) = 1 /\ end[1] = "LF"
        BY <2>8
      <4> QED BY <2>7, <4>1
    <3>0. /\ Len(whole) = Len(text) + Len(Lf) /\ \A i \in 1..Len(text) : whole[i] = text[i]
          /\ \A i \in 1..Len(Lf) : \A j \in Nat : j = Len(text) + i => whole[j] = Lf[i]
      BY <1>5, <1>6, <2>7, <2>8
    <3> HIDE DEF whole
    <3>2. whole[1] = a /\ whole[2] = "LF" /\ whole[3] = b /\ whole[4] = "LF" /\ whole[5] = "LF" /\ Len(whole) = 5
      <4>1. text[1] = a
        BY <2>7
      <4>2. \A i \in {1, 2, 3} : whole[i] = text[i]
        BY <3>0, <3>1
      <4>3. whole[4] = Lf[1] /\ whole[5] = Lf[2] /\ Len(whole) = 5
        BY <1>7, <3>0, <3>1
      <4> QED BY <1>7, <3>1, <4>1, <4>2, <4>3
    <3>3. \A i \in 1..Len(text) : ~(whole[i] = "LF" /\ whole[i + 1] = "LF")
      BY <1>1, <2>1, <3>1, <3>2
    <3>4. Whole(text, Lf, SignsOf(end))
      BY <1>5, <2>7, <2>8, <3>3 DEF Whole, whole
    <3>5. DataLines(text) = Datum(a) \o Datum(b)
      <4>1. DOMAIN text = 1..3 /\ 3 \in 0..4
        <5>1. DOMAIN text = 1..Len(text)
          BY <2>7, LenProperties
        <5> QED BY <3>1, <5>1
      <4>2. DataLines(text) = (Datum(a) \o <<>>) \o Datum(b)
        BY <1>3, <2>7, <3>1, <4>1, DataAre
      <4> QED BY <1>2, <4>2, ConcatEmptySeq
    <3>6. Observed(text) = Datum(a) \o Datum(b)
      BY <2>5, <3>5 DEF Observed
    <3> QED BY <1>4, <2>4, <2>5, <2>8, <3>4, <3>6 DEF text
  <2>9. CASE end = <<"CR", "LF">>
    <3> DEFINE whole == text \o Crlf
    <3>1. Len(text) = 4 /\ text[2] = "CR" /\ text[3] = "LF" /\ text[4] = b
      <4>1. Len(end) = 2 /\ end[1] = "CR" /\ end[2] = "LF"
        BY <2>9
      <4> QED BY <2>7, <4>1
    <3>0. /\ Len(whole) = Len(text) + Len(Crlf) /\ \A i \in 1..Len(text) : whole[i] = text[i]
          /\ \A i \in 1..Len(Crlf) : \A j \in Nat : j = Len(text) + i => whole[j] = Crlf[i]
      BY <1>5, <1>6, <2>7, <2>9
    <3> HIDE DEF whole
    <3>2. /\ whole[1] = a /\ whole[2] = "CR" /\ whole[3] = "LF" /\ whole[4] = b
          /\ whole[5] = "CR" /\ whole[6] = "LF" /\ whole[7] = "CR" /\ whole[8] = "LF" /\ Len(whole) = 8
      <4>1. text[1] = a
        BY <2>7
      <4>2. \A i \in {1, 2, 3, 4} : whole[i] = text[i]
        BY <3>0, <3>1
      <4>3. /\ whole[5] = Crlf[1] /\ whole[6] = Crlf[2] /\ whole[7] = Crlf[3] /\ whole[8] = Crlf[4]
            /\ Len(whole) = 8
        BY <1>8, <3>0, <3>1
      <4> QED BY <1>8, <3>1, <4>1, <4>2, <4>3
    <3>3. /\ \A i \in 1..Len(text) : ~(whole[i] = "CR" /\ whole[i + 2] = "CR")
          /\ \A i \in 1..(Len(whole) - 1) : ~(whole[i] = "LF" /\ whole[i + 1] = "LF")
      BY <1>1, <2>1, <3>1, <3>2
    <3>4. Whole(text, Crlf, SignsOf(end))
      BY <1>5, <2>7, <2>9, <3>3 DEF Whole, whole
    <3>5. DataLines(text) = Datum(a) \o Datum(b)
      <4>1. DOMAIN text = 1..4 /\ 4 \in 0..4
        <5>1. DOMAIN text = 1..Len(text)
          BY <2>7, LenProperties
        <5> QED BY <3>1, <5>1
      <4>2. DataLines(text) = ((Datum(a) \o <<>>) \o <<>>) \o Datum(b)
        BY <1>3, <2>7, <3>1, <4>1, DataAre
      <4> QED BY <1>2, <4>2, ConcatEmptySeq
    <3>6. Observed(text) = Datum(a) \o Datum(b)
      BY <2>5, <3>5 DEF Observed
    <3> QED BY <1>4, <2>4, <2>5, <2>9, <3>4, <3>6 DEF text
  <2> QED BY <2>8, <2>9
<1> QED BY <1>9, <1>10

\* The texts of the blocks of a stream and what they say, and the sums of both.
TextParts(stream) ==
  [i \in 1..Len(stream.blocks) |->
     BlockText(stream.blocks[i], stream.end)
       \o (IF i < Len(stream.blocks) \/ stream.closed THEN stream.end \o stream.end ELSE <<>>)]
MeantParts(stream) == [i \in 1..Len(stream.blocks) |-> DataLines(stream.blocks[i])]
Sums(s, n, X) == CHOOSE g : SumsUp(g, s, n, X) /\ FlattenSeq(s) = g[n]
TextSums(stream)  == Sums(TextParts(stream), Len(stream.blocks), SignsOf(stream.end))
MeantSums(stream) == Sums(MeantParts(stream), Len(stream.blocks), Events)

LEMMA WholeIs ==
  ASSUME NEW block, NEW blank, NEW X, Whole(block, blank, X)
  PROVE  block \in Seq(X) /\ blank \in Seq(X)
BY DEF Whole

LEMMA StreamIs ==
  ASSUME NEW stream \in Streams
  PROVE  /\ Len(stream.blocks) \in Nat \ {0} /\ stream.blocks \in [1..Len(stream.blocks) -> Blocks]
         /\ stream.end \in {<<"LF">>, <<"CR", "LF">>} /\ stream.closed \in BOOLEAN
<1>1. /\ stream.end \in {<<"LF">>, <<"CR", "LF">>} /\ stream.closed \in BOOLEAN
      /\ stream.blocks \in UNION {[1..n -> Blocks] : n \in 1..MaxBlocks}
  BY DEF Streams
<1>2. PICK n \in 1..MaxBlocks : stream.blocks \in [1..n -> Blocks]
  BY <1>1
<1>3. n \in Nat \ {0}
  BY StreamAssumption
<1>4. Len(stream.blocks) = n
  BY <1>2, <1>3
<1> QED BY <1>1, <1>2, <1>3, <1>4

LEMMA SumsAre ==
  ASSUME NEW stream \in Streams
  PROVE  LET n == Len(stream.blocks)
             X == SignsOf(stream.end)
         IN  /\ TextParts(stream) \in [1..n -> Seq(X)]
             /\ SumsUp(TextSums(stream), TextParts(stream), n, X) /\ Text(stream) = TextSums(stream)[n]
             /\ MeantParts(stream) \in [1..n -> Seq(Events)]
             /\ SumsUp(MeantSums(stream), MeantParts(stream), n, Events) /\ Meant(stream) = MeantSums(stream)[n]
<1> DEFINE n == Len(stream.blocks)
           X == SignsOf(stream.end)
           texts == TextParts(stream)
           meant == MeantParts(stream)
<1>1. /\ n \in Nat \ {0} /\ stream.blocks \in [1..n -> Blocks]
      /\ stream.end \in {<<"LF">>, <<"CR", "LF">>}
  BY StreamIs
<1>2. \A i \in 1..n : /\ BlockText(stream.blocks[i], stream.end) \in Seq(X)
                      /\ stream.end \o stream.end \in Seq(X)
                      /\ DataLines(stream.blocks[i]) \in Seq(Events)
  <2> SUFFICES ASSUME NEW i \in 1..n
      PROVE  /\ BlockText(stream.blocks[i], stream.end) \in Seq(X)
             /\ stream.end \o stream.end \in Seq(X)
             /\ DataLines(stream.blocks[i]) \in Seq(Events)
    OBVIOUS
  <2>1. stream.blocks[i] \in Blocks
    BY <1>1
  <2>2. /\ Whole(BlockText(stream.blocks[i], stream.end), stream.end \o stream.end, X)
        /\ DataLines(stream.blocks[i]) \in Seq(Events)
    BY <1>1, <2>1, BlocksAre
  <2> HIDE DEF X
  <2> QED BY <2>2, WholeIs
<1>3. texts \in [1..n -> Seq(X)]
  <2> HIDE DEF X
  <2>1. \A i \in 1..n : \A t \in {stream.end \o stream.end, <<>>} :
          BlockText(stream.blocks[i], stream.end) \o t \in Seq(X)
    <3> SUFFICES ASSUME NEW i \in 1..n, NEW t \in {stream.end \o stream.end, <<>>}
        PROVE  BlockText(stream.blocks[i], stream.end) \o t \in Seq(X)
      OBVIOUS
    <3>1. t \in Seq(X)
      <4>1. <<>> \in Seq(X)
        BY EmptySeq
      <4> QED BY <1>2, <4>1
    <3> QED BY <1>2, <3>1, ConcatProperties
  <2> QED BY <2>1 DEF TextParts
<1>4. meant \in [1..n -> Seq(Events)]
  BY <1>2 DEF MeantParts
<1>5. Text(stream) = FlattenSeq(texts)
  BY DEF Text, TextParts
<1>6. Meant(stream) = FlattenSeq(meant)
  BY <1>1 DEF Meant, MeantParts
<1> HIDE DEF n, X, texts, meant
<1>7. \E g : SumsUp(g, texts, n, X) /\ FlattenSeq(texts) = g[n]
  BY <1>1, <1>3, FlattenIs
<1>8. \E g : SumsUp(g, meant, n, Events) /\ FlattenSeq(meant) = g[n]
  BY <1>1, <1>4, FlattenIs
<1>9. SumsUp(Sums(texts, n, X), texts, n, X) /\ FlattenSeq(texts) = Sums(texts, n, X)[n]
  BY <1>7 DEF Sums
<1>10. SumsUp(Sums(meant, n, Events), meant, n, Events) /\ FlattenSeq(meant) = Sums(meant, n, Events)[n]
  BY <1>8 DEF Sums
<1> QED BY <1>3, <1>4, <1>5, <1>6, <1>9, <1>10 DEF n, X, texts, meant, TextSums, MeantSums

\* Concatenation is associative, stated so that it is applied where it is wanted.
Regrouped(a, b, c) == (a \o b) \o c = a \o (b \o c)
LEMMA Regroup ==
  ASSUME NEW X, NEW a \in Seq(X), NEW b \in Seq(X), NEW c \in Seq(X)
  PROVE  Regrouped(a, b, c)
BY ConcatAssociative DEF Regrouped

\* What is left behind the first sequences of a sum begins with the next one.
Follows(g, p, n, X, k, rest) ==
  g[k] \o rest = g[n] =>
    /\ k = n => rest = <<>>
    /\ k < n => \E more \in Seq(X) : /\ rest = p[k + 1] \o more /\ g[k + 1] \o more = g[n]
                                     /\ k + 1 = n => more = <<>>
LEMMA RestOfSums ==
  ASSUME NEW X, NEW n \in Nat, NEW p \in [1..n -> Seq(X)], NEW g, SumsUp(g, p, n, X),
         NEW k \in 0..n, NEW rest \in Seq(X)
  PROVE  Follows(g, p, n, X, k, rest)
<1>b. \A j \in 0..n : \E r \in Seq(X) : g[n] = g[j] \o r
  <2>1. Begins(g, n, X)
    BY SumsBegin
  <2> QED BY <2>1 DEF Begins
<1>0. SUFFICES ASSUME g[k] \o rest = g[n]
      PROVE  /\ k = n => rest = <<>>
             /\ k < n => \E more \in Seq(X) : /\ rest = p[k + 1] \o more /\ g[k + 1] \o more = g[n]
                                              /\ k + 1 = n => more = <<>>
  BY DEF Follows
<1>1. \A j \in 0..n : g[j] \in Seq(X)
  BY DEF SumsUp
<1>2. k = n => rest = <<>>
  BY <1>0, <1>1, ConcatEqualIffEmpty
<1>3. ASSUME NEW m \in 1..n, m = k + 1
      PROVE  \E more \in Seq(X) : rest = p[m] \o more /\ g[m] \o more = g[n] /\ (m = n => more = <<>>)
  <2>1. m \in 0..n
    OBVIOUS
  <2>2. PICK more \in Seq(X) : g[n] = g[m] \o more
    BY <2>1, <1>b
  <2>3. g[m] = g[k] \o p[m] /\ g[k] \in Seq(X) /\ p[m] \in Seq(X) /\ g[m] \in Seq(X)
    <3>1. m - 1 = k
      BY <1>3
    <3> QED BY <1>1, <2>1, <3>1 DEF SumsUp
  <2>4. Regrouped(g[k], p[m], more)
    BY <2>3, Regroup
  <2>5. p[m] \o more \in Seq(X)
    BY <2>3, ConcatProperties
  <2>6. rest = p[m] \o more
    <3>1. g[k] \o rest = g[k] \o (p[m] \o more)
      BY <1>0, <2>2, <2>3, <2>4 DEF Regrouped
    <3>2. \A a, b, c \in Seq(X) : a \o b = a \o c => b = c
      BY ConcatSimplifications
    <3> QED BY <2>3, <2>5, <3>1, <3>2
  <2>7. m = n => more = <<>>
    BY <2>2, <2>3, ConcatEqualIffEmpty
  <2> QED BY <2>2, <2>6, <2>7
<1>4. ASSUME k < n
      PROVE  \E more \in Seq(X) : rest = p[k + 1] \o more /\ g[k + 1] \o more = g[n] /\ (k + 1 = n => more = <<>>)
  <2> DEFINE m == k + 1
  <2>1. m \in 1..n /\ m = k + 1
    BY <1>4
  <2> HIDE DEF m
  <2>2. \E more \in Seq(X) : rest = p[m] \o more /\ g[m] \o more = g[n] /\ (m = n => more = <<>>)
    BY <1>3, <2>1
  <2> QED BY <2>2 DEF m
<1> QED BY <1>2, <1>4

\* A text s that begins with t: what follows in it comes before what follows it.
Splits(s, later, t, more, X) ==
  Len(t) <= Len(s) /\ s \o later = t \o more =>
    /\ SubSeq(s, Len(t) + 1, Len(s)) \in Seq(X)
    /\ SubSeq(s, Len(t) + 1, Len(s)) \o later = more
    /\ SubSeq(s, 1, Len(t)) = t
LEMMA SplitAt ==
  ASSUME NEW X, NEW s \in Seq(X), NEW later \in Seq(X), NEW t \in Seq(X), NEW more \in Seq(X)
  PROVE  Splits(s, later, t, more, X)
<1>0. SUFFICES ASSUME Len(t) <= Len(s), s \o later = t \o more
      PROVE  /\ SubSeq(s, Len(t) + 1, Len(s)) \in Seq(X)
             /\ SubSeq(s, Len(t) + 1, Len(s)) \o later = more
             /\ SubSeq(s, 1, Len(t)) = t
  BY DEF Splits
<1> DEFINE L == Len(t)
           front == SubSeq(s, 1, L)
           back == SubSeq(s, L + 1, Len(s))
<1>1. L \in Nat /\ Len(s) \in Nat /\ L <= Len(s)
  BY <1>0
<1>2. \A i \in 1..Len(s) : s[i] \in X
  OBVIOUS
<1>3. front \in Seq(X) /\ Len(front) = L /\ \A i \in 1..L : front[i] = s[i]
  <2>1. 1 \in Int /\ L \in Int /\ \A i \in 1..L : s[i] \in X
    BY <1>1, <1>2
  <2> HIDE DEF L
  <2>2. front \in Seq(X) /\ Len(front) = (IF 1 <= L THEN L - 1 + 1 ELSE 0)
        /\ \A i \in 1..(L - 1 + 1) : front[i] = s[1 + i - 1]
    BY <2>1, SubSeqProperties
  <2>3. L - 1 + 1 = L /\ (~(1 <= L) => L = 0) /\ \A i \in 1..L : 1 + i - 1 = i
    BY <1>1
  <2> QED BY <2>2, <2>3
<1>4. back \in Seq(X)
  <2>1. L + 1 \in Int /\ Len(s) \in Int /\ \A i \in (L + 1)..Len(s) : s[i] \in X
    BY <1>1, <1>2
  <2> HIDE DEF L
  <2> QED BY <2>1, SubSeqProperties
<1>5. front = t
  <2> HIDE DEF front
  <2>1. ASSUME NEW i \in 1..L PROVE front[i] = t[i]
    <3>1. i \in 1..Len(s) /\ i \in 1..Len(t)
      BY <1>1
    <3>2. (s \o later)[i] = s[i] /\ (t \o more)[i] = t[i]
      BY <3>1, JoinIs
    <3> QED BY <1>0, <1>3, <3>2
  <2> QED BY <1>3, <2>1, SeqEqual
<1>6. front \o back = s
  <2> HIDE DEF L
  <2>1. 1 \in 1..(Len(s) + 1) /\ L \in (1 - 1)..Len(s) /\ Len(s) \in L..Len(s)
    BY <1>1
  <2>2. SubSeq(s, 1, L) \o SubSeq(s, L + 1, Len(s)) = SubSeq(s, 1, Len(s))
    BY <2>1, ConcatAdjacentSubSeq
  <2> QED BY <2>2, SubSeqFull
<1> HIDE DEF front, back, L
<1>7. t \o (back \o later) = t \o more /\ back \o later \in Seq(X)
  <2>2. Regrouped(t, back, later)
    BY <1>4, Regroup
  <2>3. back \o later \in Seq(X)
    BY <1>4, ConcatProperties
  <2> QED BY <1>0, <1>5, <1>6, <2>2, <2>3 DEF Regrouped
<1>8. back \o later = more
  <2>1. \A a, b, c \in Seq(X) : a \o b = a \o c => b = c
    BY ConcatSimplifications
  <2> QED BY <1>7, <2>1
<1> QED BY <1>4, <1>5, <1>8 DEF front, back, L

\* The blocks of a stream behind its first k are what is left of its text.
Remains(stream, k, rest) == TextSums(stream)[k] \o rest = Text(stream)

LEMMA RestIs ==
  ASSUME NEW stream \in Streams, NEW k \in 0..Len(stream.blocks),
         NEW rest \in Seq(SignsOf(stream.end)), Remains(stream, k, rest)
  PROVE  /\ k = Len(stream.blocks) => rest = <<>>
         /\ k < Len(stream.blocks) =>
              \E more \in Seq(SignsOf(stream.end)) :
                /\ rest = TextParts(stream)[k + 1] \o more /\ Remains(stream, k + 1, more)
                /\ k + 1 = Len(stream.blocks) => more = <<>>
<1> DEFINE n == Len(stream.blocks)
           X == SignsOf(stream.end)
           g == TextSums(stream)
           p == TextParts(stream)
<1>1. n \in Nat
  BY StreamIs
<1>2. p \in [1..n -> Seq(X)] /\ SumsUp(g, p, n, X) /\ Text(stream) = g[n]
  BY SumsAre
<1>3. k \in 0..n /\ rest \in Seq(X)
  OBVIOUS
<1>4. g[k] \o rest = g[n]
  BY <1>2 DEF Remains
<1> HIDE DEF n, X, g, p
<1>5. /\ k = n => rest = <<>>
      /\ k < n => \E more \in Seq(X) : /\ rest = p[k + 1] \o more /\ g[k + 1] \o more = g[n]
                                       /\ k + 1 = n => more = <<>>
  <2>1. Follows(g, p, n, X, k, rest)
    BY <1>1, <1>2, <1>3, RestOfSums
  <2> QED BY <1>4, <2>1, Zenon DEF Follows
<1>6. \A more : Remains(stream, k + 1, more) <=> g[k + 1] \o more = g[n]
  BY <1>2 DEF Remains, g
<1>7. k < n => \E more \in Seq(X) : /\ rest = p[k + 1] \o more /\ Remains(stream, k + 1, more)
                                    /\ k + 1 = n => more = <<>>
  BY <1>5, <1>6, Zenon
<1> QED BY <1>5, <1>7 DEF n, X, p

\* The next block is closed with a blank line, or it is the last one and open.
LEMMA NextBlock ==
  ASSUME NEW stream \in Streams, NEW k \in 0..Len(stream.blocks), k < Len(stream.blocks),
         NEW rest \in Seq(SignsOf(stream.end)), Remains(stream, k, rest)
  PROVE  LET block == BlockText(stream.blocks[k + 1], stream.end)
             blank == stream.end \o stream.end
         IN  \/ \E more \in Seq(SignsOf(stream.end)) : /\ rest = (block \o blank) \o more
                                                       /\ Remains(stream, k + 1, more)
             \/ k + 1 = Len(stream.blocks) /\ rest = block
<1> DEFINE n == Len(stream.blocks)
           X == SignsOf(stream.end)
           block == BlockText(stream.blocks[k + 1], stream.end)
           blank == stream.end \o stream.end
<1>1. n \in Nat /\ k + 1 \in 1..n /\ stream.blocks[k + 1] \in Blocks /\ stream.end \in {<<"LF">>, <<"CR", "LF">>}
  BY StreamIs
<1>2. PICK more \in Seq(X) : /\ rest = TextParts(stream)[k + 1] \o more /\ Remains(stream, k + 1, more)
                             /\ k + 1 = n => more = <<>>
  BY RestIs
<1>3. TextParts(stream)[k + 1] = block \o (IF k + 1 < n \/ stream.closed THEN blank ELSE <<>>)
  BY <1>1 DEF TextParts
<1>4. Whole(block, blank, X)
  BY <1>1, BlocksAre
<1> HIDE DEF X, block, blank, n
<1>5. block \in Seq(X) /\ blank \in Seq(X)
  BY <1>4, WholeIs
<1>6. CASE k + 1 < n \/ stream.closed
  BY <1>2, <1>3, <1>6 DEF X, block, blank, n
<1>7. CASE ~(k + 1 < n \/ stream.closed)
  <2>1. k + 1 = n
    BY <1>1, <1>7
  <2>2. block \o <<>> = block
    BY <1>5, ConcatEmptySeq
  <2>3. rest = block
    BY <1>2, <1>3, <1>7, <2>1, <2>2
  <2> QED BY <2>1, <2>3 DEF block, n
<1> QED BY <1>6, <1>7

\* What the blocks say.
LEMMA MeantNext ==
  ASSUME NEW stream \in Streams
  PROVE  /\ \A k \in 0..Len(stream.blocks) : MeantSums(stream)[k] \in Seq(Events)
         /\ MeantSums(stream)[0] = <<>> /\ MeantSums(stream)[Len(stream.blocks)] = Meant(stream)
         /\ \A k \in 0..Len(stream.blocks) : k < Len(stream.blocks) =>
              MeantSums(stream)[k + 1] = MeantSums(stream)[k] \o DataLines(stream.blocks[k + 1])
         /\ Begins(MeantSums(stream), Len(stream.blocks), Events)
<1> DEFINE n == Len(stream.blocks)
           g == MeantSums(stream)
           p == MeantParts(stream)
<1>1. n \in Nat
  BY StreamIs
<1>2. p \in [1..n -> Seq(Events)] /\ SumsUp(g, p, n, Events) /\ Meant(stream) = g[n]
  BY SumsAre
<1>3. \A i \in 1..n : p[i] = DataLines(stream.blocks[i])
  BY DEF MeantParts
<1> HIDE DEF n, g, p
<1>4. Begins(g, n, Events)
  BY <1>1, <1>2, SumsBegin
<1>5. (\A k \in 0..n : g[k] \in Seq(Events)) /\ g[0] = <<>>
  BY <1>2 DEF SumsUp
<1>6. ASSUME NEW k \in 0..n, k < n PROVE g[k + 1] = g[k] \o DataLines(stream.blocks[k + 1])
  <2>1. k + 1 \in 1..n /\ (k + 1) - 1 = k
    BY <1>1, <1>6
  <2>2. \A i \in 1..n : g[i] = g[i - 1] \o p[i]
    BY <1>2 DEF SumsUp
  <2>3. g[k + 1] = g[(k + 1) - 1] \o p[k + 1]
    BY <2>1, <2>2
  <2> QED BY <1>3, <2>1, <2>3
<1> QED BY <1>2, <1>4, <1>5, <1>6 DEF n, g

-----------------------------------------------------------------------------
\* seen is what the first blocks say, and the others are in the buffer and to come.
StreamInv ==
  /\ sent \in Streams /\ ended \in BOOLEAN
  /\ buffer \in Seq(SignsOf(sent.end)) /\ coming \in Seq(SignsOf(sent.end))
  /\ \E k \in 0..Len(sent.blocks) :
       /\ seen = MeantSums(sent)[k]
       /\ ~ended => Remains(sent, k, buffer \o coming)
       /\ ended => k = Len(sent.blocks) /\ buffer = <<>> /\ coming = <<>>

LEMMA StreamInvAtFirst == StreamInit => StreamInv
<1> SUFFICES ASSUME StreamInit PROVE StreamInv
  OBVIOUS
<1>1. sent \in Streams /\ coming = Text(sent) /\ buffer = <<>> /\ seen = <<>> /\ ended = FALSE
  BY DEF StreamInit
<1> DEFINE n == Len(sent.blocks)
           X == SignsOf(sent.end)
<1>2. n \in Nat
  BY <1>1, StreamIs
<1>3. SumsUp(TextSums(sent), TextParts(sent), n, X) /\ Text(sent) = TextSums(sent)[n]
  BY <1>1, SumsAre
<1>4. MeantSums(sent)[0] = <<>>
  BY <1>1, MeantNext
<1> HIDE DEF n, X
<1>5. TextSums(sent)[0] = <<>> /\ TextSums(sent)[n] \in Seq(X) /\ <<>> \in Seq(X)
  BY <1>2, <1>3 DEF SumsUp
<1>6. coming \in Seq(X) /\ buffer \in Seq(X)
  BY <1>1, <1>3, <1>5
<1>7. buffer \o coming = coming /\ <<>> \o coming = coming
  BY <1>1, <1>6, ConcatEmptySeq
<1>8. Remains(sent, 0, buffer \o coming)
  BY <1>1, <1>5, <1>7 DEF Remains
<1>9. 0 \in 0..n
  BY <1>2
<1> QED BY <1>1, <1>4, <1>6, <1>8, <1>9 DEF StreamInv, n, X

LEMMA NothingIn ==
  ASSUME NEW text \in Seq(Lines), Len(text) = 0
  PROVE  FoundAt(text, Lf) = {} /\ FoundAt(text, Crlf) = {}
<1>1. Len(Lf) = 2 /\ Len(Crlf) = 4
  BY DEF Lf, Crlf
<1>2. 1..(Len(text) - Len(Lf) + 1) = {} /\ 1..(Len(text) - Len(Crlf) + 1) = {}
  BY <1>1
<1> QED BY <1>2 DEF FoundAt

LEMMA NothingFound == buffer = <<>> => ~HasBlock
<1>1. ASSUME buffer = <<>> PROVE FoundAt(buffer, Lf) = {} /\ FoundAt(buffer, Crlf) = {}
  <2>1. buffer \in Seq(Lines) /\ Len(buffer) = 0
    BY <1>1
  <2> QED BY <2>1, NothingIn
<1> QED BY <1>1 DEF HasBlock, Separator

LEMMA ArrivesKeeps == StreamInv /\ Arrives => StreamInv'
<1> SUFFICES ASSUME StreamInv, Arrives PROVE StreamInv'
  OBVIOUS
<1> DEFINE X == SignsOf(sent.end)
<1>1. sent \in Streams /\ ended \in BOOLEAN /\ buffer \in Seq(X) /\ coming \in Seq(X)
  BY DEF StreamInv
<1>2. PICK k \in 0..Len(sent.blocks) :
        /\ seen = MeantSums(sent)[k]
        /\ ~ended => Remains(sent, k, buffer \o coming)
        /\ ended => k = Len(sent.blocks) /\ buffer = <<>> /\ coming = <<>>
  BY DEF StreamInv
<1>3. PICK m \in 1..Len(coming) : /\ buffer' = buffer \o SubSeq(coming, 1, m)
                                  /\ coming' = SubSeq(coming, m + 1, Len(coming))
  BY DEF Arrives, Fed
<1>4. coming # <<>> /\ UNCHANGED <<sent, seen, ended>>
  BY DEF Arrives
<1>5. ~ended
  BY <1>2, <1>4
<1> HIDE DEF X
<1> DEFINE front == SubSeq(coming, 1, m)
           back == SubSeq(coming, m + 1, Len(coming))
<1>6. Len(coming) \in Nat /\ m \in Nat /\ m <= Len(coming) /\ 1 <= m
  BY <1>1
<1>7. \A i \in 1..Len(coming) : coming[i] \in X
  BY <1>1, ElementOfSeq
<1>8. front \in Seq(X)
  <2>1. 1 \in Int /\ m \in Int /\ \A i \in 1..m : coming[i] \in X
    BY <1>6, <1>7
  <2> QED BY <2>1, SubSeqProperties
<1>9. back \in Seq(X)
  <2>1. m + 1 \in Int /\ Len(coming) \in Int /\ \A i \in (m + 1)..Len(coming) : coming[i] \in X
    BY <1>6, <1>7
  <2> QED BY <2>1, SubSeqProperties
<1>10. front \o back = coming
  <2>1. 1 \in 1..(Len(coming) + 1) /\ m \in (1 - 1)..Len(coming) /\ Len(coming) \in m..Len(coming)
    BY <1>6
  <2>2. SubSeq(coming, 1, m) \o SubSeq(coming, m + 1, Len(coming)) = SubSeq(coming, 1, Len(coming))
    BY <1>1, <2>1, ConcatAdjacentSubSeq
  <2> QED BY <1>1, <2>2, SubSeqFull
<1>11. buffer' = buffer \o front /\ coming' = back
  BY <1>3
<1> HIDE DEF front, back
<1>12. Regrouped(buffer, front, back)
  BY <1>1, <1>8, <1>9, Regroup
<1>13. buffer' \o coming' = buffer \o coming
  BY <1>10, <1>11, <1>12 DEF Regrouped
<1>14. buffer' \in Seq(X) /\ coming' \in Seq(X)
  BY <1>1, <1>8, <1>9, <1>11, ConcatProperties
<1>15. Remains(sent, k, buffer' \o coming')
  BY <1>2, <1>5, <1>13
<1> QED BY <1>1, <1>2, <1>4, <1>5, <1>14, <1>15 DEF StreamInv, X, Remains

\* A block that is found is the next one.
LEMMA TakesKeeps == StreamInv /\ TakesBlock => StreamInv'
<1> SUFFICES ASSUME StreamInv, TakesBlock PROVE StreamInv'
  OBVIOUS
<1> DEFINE X == SignsOf(sent.end)
           n == Len(sent.blocks)
<1>1. sent \in Streams /\ ended \in BOOLEAN /\ buffer \in Seq(X) /\ coming \in Seq(X)
  BY DEF StreamInv
<1>2. PICK k \in 0..n :
        /\ seen = MeantSums(sent)[k]
        /\ ~ended => Remains(sent, k, buffer \o coming)
        /\ ended => k = n /\ buffer = <<>> /\ coming = <<>>
  BY DEF StreamInv
<1>3. HasBlock /\ UNCHANGED <<sent, coming, ended>>
  BY DEF TakesBlock
<1>4. /\ seen' = seen \o Observed(SubSeq(buffer, 1, Min(FoundAt(buffer, Separator)) - 1))
      /\ buffer' = SubSeq(buffer, Min(FoundAt(buffer, Separator)) + Len(Separator), Len(buffer))
  BY DEF TakesBlock
<1>5. ~ended
  BY <1>1, <1>2, <1>3, NothingFound
<1>6. buffer \o coming \in Seq(X)
  BY <1>1, ConcatProperties
<1>7. n \in Nat
  BY <1>1, StreamIs
<1>8. k < n
  <2>1. k = n => buffer \o coming = <<>>
    BY <1>1, <1>2, <1>5, <1>6, RestIs
  <2>2. k = n => buffer = <<>>
    BY <1>1, <2>1, ConcatEqualIffEmpty
  <2>3. k # n
    BY <1>3, <2>2, NothingFound
  <2> QED BY <1>2, <1>7, <2>3
<1> DEFINE block == BlockText(sent.blocks[k + 1], sent.end)
           blank == sent.end \o sent.end
<1>9. \/ \E more \in Seq(X) : buffer \o coming = (block \o blank) \o more /\ Remains(sent, k + 1, more)
      \/ k + 1 = n /\ buffer \o coming = block
  BY <1>1, <1>2, <1>5, <1>6, <1>8, NextBlock
<1>10. /\ Whole(block, blank, X) /\ Observed(block) = DataLines(sent.blocks[k + 1])
  <2>1. k + 1 \in 1..n
    BY <1>2, <1>7, <1>8
  <2>2. sent.blocks \in [1..n -> Blocks] /\ sent.end \in {<<"LF">>, <<"CR", "LF">>}
    BY <1>1, StreamIs
  <2> QED BY <2>1, <2>2, BlocksAre
<1>11. MeantSums(sent)[k + 1] = MeantSums(sent)[k] \o DataLines(sent.blocks[k + 1])
  BY <1>1, <1>2, <1>8, MeantNext
<1>12. k + 1 \in 0..n
  BY <1>2, <1>7, <1>8
<1> HIDE DEF X, n, block, blank
<1>13. block \in Seq(X) /\ blank \in Seq(X)
  BY <1>10, WholeIs
<1>14. ~(k + 1 = n /\ buffer \o coming = block)
  <2>0. SUFFICES ASSUME buffer \o coming = block PROVE FALSE
    OBVIOUS
  <2> DEFINE later == coming \o blank
  <2>1. later \in Seq(X) /\ <<>> \in Seq(X) /\ block \o blank \in Seq(X)
    BY <1>1, <1>13, ConcatProperties
  <2>2. Regrouped(buffer, coming, blank)
    BY <1>1, <1>13, Regroup
  <2>3. (block \o blank) \o <<>> = block \o blank
    BY <2>1, ConcatEmptySeq
  <2>4. buffer \o later = (block \o blank) \o <<>>
    BY <2>0, <2>2, <2>3 DEF Regrouped
  <2> HIDE DEF later
  <2>5. Len(block) + Len(blank) <= Len(buffer)
    BY <1>1, <1>3, <1>10, <2>1, <2>4, BlockIsFound
  <2>6. Len(buffer \o coming) = Len(buffer) + Len(coming) /\ Len(buffer) \in Nat /\ Len(coming) \in Nat
    BY <1>1, ConcatProperties, LenProperties
  <2>7. Len(blank) \in Nat /\ Len(blank) # 0
    <3>1. blank = Lf \/ blank = Crlf
      BY <1>10 DEF Whole
    <3> QED BY <3>1 DEF Lf, Crlf
  <2> QED BY <2>0, <2>5, <2>6, <2>7
<1>15. PICK more \in Seq(X) : buffer \o coming = (block \o blank) \o more /\ Remains(sent, k + 1, more)
  BY <1>9, <1>14
<1>16. /\ Separator = blank /\ Min(FoundAt(buffer, Separator)) = Len(block) + 1
       /\ Len(block) + Len(blank) <= Len(buffer)
  BY <1>1, <1>3, <1>10, <1>15, BlockIsFound
<1>17. Len(block) \in Nat /\ Len(blank) \in Nat /\ Len(block \o blank) = Len(block) + Len(blank)
       /\ block \o blank \in Seq(X) /\ blank \o more \in Seq(X)
  BY <1>13, ConcatProperties, LenProperties
<1>18. SubSeq(buffer, 1, Len(block)) = block
  <2>1. Regrouped(block, blank, more)
    BY <1>13, Regroup
  <2>2. buffer \o coming = block \o (blank \o more)
    BY <1>15, <2>1 DEF Regrouped
  <2>3. Len(block) <= Len(buffer)
    <3>1. Len(buffer) \in Nat
      BY <1>1, LenProperties
    <3> QED BY <1>16, <1>17, <3>1
  <2>4. Splits(buffer, coming, block, blank \o more, X)
    BY <1>1, <1>13, <1>17, SplitAt
  <2> QED BY <2>2, <2>3, <2>4 DEF Splits
<1> DEFINE t == block \o blank
           left == SubSeq(buffer, Len(t) + 1, Len(buffer))
<1>19. left \in Seq(X) /\ left \o coming = more
  <2>1. t \in Seq(X) /\ Len(t) <= Len(buffer) /\ buffer \o coming = t \o more
    BY <1>15, <1>16, <1>17
  <2> HIDE DEF t
  <2>2. Splits(buffer, coming, t, more, X)
    BY <1>1, <2>1, SplitAt
  <2> QED BY <2>1, <2>2 DEF Splits
<1>20. buffer' = left /\ seen' = seen \o Observed(block)
  <2>1. (Len(block) + 1) - 1 = Len(block) /\ (Len(block) + 1) + Len(blank) = Len(t) + 1
    BY <1>17
  <2> QED BY <1>4, <1>16, <1>18, <2>1
<1>21. seen' = MeantSums(sent)[k + 1]
  BY <1>2, <1>10, <1>11, <1>20
<1> HIDE DEF left
<1>22. buffer' \in Seq(X) /\ Remains(sent, k + 1, buffer' \o coming')
  BY <1>3, <1>15, <1>19, <1>20
<1> QED BY <1>1, <1>3, <1>5, <1>12, <1>21, <1>22 DEF StreamInv, X, n, Remains

\* What is left at the end is the last block, or nothing.
LEMMA EndsKeeps == StreamInv /\ EndsStream => StreamInv'
<1> SUFFICES ASSUME StreamInv, EndsStream PROVE StreamInv'
  OBVIOUS
<1> DEFINE X == SignsOf(sent.end)
           n == Len(sent.blocks)
<1>1. sent \in Streams /\ ended \in BOOLEAN /\ buffer \in Seq(X) /\ coming \in Seq(X)
  BY DEF StreamInv
<1>2. PICK k \in 0..n : seen = MeantSums(sent)[k] /\ (~ended => Remains(sent, k, buffer \o coming))
  BY DEF StreamInv
<1>3. ~HasBlock /\ coming = <<>> /\ ~ended /\ UNCHANGED <<sent, coming>>
  BY DEF EndsStream
<1>4. seen' = seen \o Observed(buffer) /\ buffer' = <<>> /\ ended' = TRUE
  BY DEF EndsStream
<1>5. buffer \o coming = buffer
  BY <1>1, <1>3, ConcatEmptySeq
<1>6. Remains(sent, k, buffer)
  BY <1>2, <1>3, <1>5
<1>7. n \in Nat
  BY <1>1, StreamIs
<1>8. \A j \in 0..n : MeantSums(sent)[j] \in Seq(Events)
  BY <1>1, MeantNext
<1>9. ASSUME k = n PROVE seen' = MeantSums(sent)[n]
  <2>1. buffer = <<>>
    BY <1>1, <1>6, <1>9, RestIs
  <2>2. Observed(<<>>) = <<>>
    <3>1. 0 \in 0..4 /\ DOMAIN <<>> = 1..0 /\ Len(<<>>) = 0
      OBVIOUS
    <3>2. DataLines(<<>>) = <<>>
      BY <3>1, DataAre
    <3> QED BY <3>2 DEF Observed
  <2>3. seen \o <<>> = seen
    BY <1>2, <1>8, ConcatEmptySeq
  <2> QED BY <1>4, <1>9, <1>2, <2>1, <2>2, <2>3
<1>10. ASSUME k # n PROVE seen' = MeantSums(sent)[n]
  <2>0. k < n
    BY <1>2, <1>7, <1>10
  <2> DEFINE block == BlockText(sent.blocks[k + 1], sent.end)
             blank == sent.end \o sent.end
  <2>1. \/ \E more \in Seq(X) : buffer = (block \o blank) \o more /\ Remains(sent, k + 1, more)
        \/ k + 1 = n /\ buffer = block
    BY <1>1, <1>2, <1>6, <2>0, NextBlock
  <2>2. /\ Whole(block, blank, X) /\ Observed(block) = DataLines(sent.blocks[k + 1])
    <3>1. k + 1 \in 1..n
      BY <1>2, <1>7, <2>0
    <3>2. sent.blocks \in [1..n -> Blocks] /\ sent.end \in {<<"LF">>, <<"CR", "LF">>}
      BY <1>1, StreamIs
    <3> QED BY <3>1, <3>2, BlocksAre
  <2>3. MeantSums(sent)[k + 1] = MeantSums(sent)[k] \o DataLines(sent.blocks[k + 1])
    BY <1>1, <1>2, <2>0, MeantNext
  <2> HIDE DEF X, n, block, blank
  <2>4. block \in Seq(X) /\ blank \in Seq(X)
    BY <2>2, WholeIs
  <2>5. ASSUME NEW more \in Seq(X), buffer = (block \o blank) \o more PROVE FALSE
    <3>1. buffer \o coming = (block \o blank) \o more
      BY <1>5, <2>5
    <3>2. Len(block) + Len(blank) <= Len(buffer) => HasBlock
      BY <1>1, <2>2, <3>1, BlockIsFound
    <3>3. Len(block \o blank) = Len(block) + Len(blank) /\ block \o blank \in Seq(X)
          /\ Len(block) \in Nat /\ Len(blank) \in Nat /\ Len(more) \in Nat
      BY <2>4, ConcatProperties, LenProperties
    <3>4. Len((block \o blank) \o more) = Len(block \o blank) + Len(more)
      BY <3>3, ConcatProperties
    <3> QED BY <1>3, <2>5, <3>2, <3>3, <3>4
  <2>6. k + 1 = n /\ buffer = block
    BY <2>1, <2>5
  <2> QED BY <1>2, <1>4, <2>2, <2>3, <2>6
<1>11. seen' = MeantSums(sent)[n]
  BY <1>9, <1>10
<1>12. buffer' \in Seq(X) /\ coming' \in Seq(X) /\ coming' = <<>> /\ n \in 0..n
  BY <1>1, <1>3, <1>4, <1>7
<1> QED BY <1>1, <1>3, <1>4, <1>11, <1>12 DEF StreamInv

LEMMA StreamStep == StreamInv /\ [StreamNext]_streamVars => StreamInv'
<1> SUFFICES ASSUME StreamInv, [StreamNext]_streamVars PROVE StreamInv'
  OBVIOUS
<1>1. CASE Arrives
  BY <1>1, ArrivesKeeps
<1>2. CASE TakesBlock
  BY <1>2, TakesKeeps
<1>3. CASE EndsStream
  BY <1>3, EndsKeeps
<1>4. CASE UNCHANGED streamVars
  BY <1>4 DEF StreamInv, streamVars, Remains
<1> QED BY <1>1, <1>2, <1>3, <1>4 DEF StreamNext

LEMMA SeenIsPrefix == StreamInv => ChunksDoNotMatter
<1> SUFFICES ASSUME StreamInv PROVE ChunksDoNotMatter
  OBVIOUS
<1> DEFINE n == Len(sent.blocks)
           g == MeantSums(sent)
<1>1. sent \in Streams
  BY DEF StreamInv
<1>2. PICK k \in 0..n : seen = g[k] /\ (ended => k = n)
  BY DEF StreamInv
<1>3. /\ \A j \in 0..n : g[j] \in Seq(Events)
      /\ g[n] = Meant(sent) /\ Begins(g, n, Events)
  BY <1>1, MeantNext
<1>4. n \in Nat
  BY <1>1, StreamIs
<1> HIDE DEF n, g
<1>5. PICK r \in Seq(Events) : Meant(sent) = seen \o r
  BY <1>2, <1>3 DEF Begins
<1>6. seen \in Seq(Events) /\ Meant(sent) \in Seq(Events)
  <2>1. n \in 0..n
    BY <1>4
  <2> QED BY <1>2, <1>3, <2>1
<1>7. Len(seen) <= Len(Meant(sent))
  <2>1. Len(Meant(sent)) = Len(seen) + Len(r) /\ Len(r) \in Nat /\ Len(seen) \in Nat
    BY <1>5, <1>6, ConcatProperties, LenProperties
  <2> QED BY <2>1
<1>8. SubSeq(Meant(sent), 1, Len(seen)) = seen
  <2>1. <<>> \in Seq(Events)
    BY EmptySeq
  <2>2. Meant(sent) \o <<>> = Meant(sent)
    BY <1>6, ConcatEmptySeq
  <2>3. Splits(Meant(sent), <<>>, seen, r, Events)
    BY <1>5, <1>6, <2>1, SplitAt
  <2> QED BY <1>5, <1>7, <2>2, <2>3 DEF Splits
<1>9. SubSeq(seen, 1, Len(seen)) = seen
  BY <1>6, SubSeqFull
<1>10. IsPrefix(seen, Meant(sent))
  BY <1>7, <1>8, <1>9 DEF IsPrefix
<1> QED BY <1>2, <1>3, <1>10 DEF ChunksDoNotMatter

LEMMA StreamIsTyped == StreamInv => StreamTypeOK
<1> SUFFICES ASSUME StreamInv PROVE StreamTypeOK
  OBVIOUS
<1>1. sent \in Streams /\ ended \in BOOLEAN
      /\ buffer \in Seq(SignsOf(sent.end)) /\ coming \in Seq(SignsOf(sent.end))
  BY DEF StreamInv
<1>2. SignsOf(sent.end) \subseteq Lines \cup {"CR", "LF"}
  BY DEF SignsOf
<1>3. \A t \in {coming, buffer} : \A i \in DOMAIN t : t[i] \in Lines \cup {"CR", "LF"}
  <2>1. \A t \in Seq(SignsOf(sent.end)) : \A i \in DOMAIN t : t[i] \in SignsOf(sent.end)
    OBVIOUS
  <2> QED BY <1>1, <1>2, <2>1
<1>4. PICK k \in 0..Len(sent.blocks) : seen = MeantSums(sent)[k]
  BY DEF StreamInv
<1>5. seen \in Seq(Events)
  BY <1>1, <1>4, MeantNext
<1>6. \A i \in DOMAIN seen : seen[i] \in Events
  BY <1>5
<1> QED BY <1>1, <1>3, <1>6 DEF StreamTypeOK

\* The dashboard sees the events of a stream once each, in order, and in the end all of
\* them, however it is cut (telemetry.py, TelemetrySSEParser.feed and finish).
THEOREM AlwaysWhole == StreamSpec => []ChunksDoNotMatter
<1>1. StreamInit => StreamInv
  BY StreamInvAtFirst
<1>2. StreamInv /\ [StreamNext]_streamVars => StreamInv'
  BY StreamStep
<1>3. StreamInv => ChunksDoNotMatter
  BY SeenIsPrefix
<1> QED BY <1>1, <1>2, <1>3, PTL DEF StreamSpec

-----------------------------------------------------------------------------
(* The parts together, of which one runs.                                  *)

RequestsInv == RouterInv /\ RoundsInv /\ StreamInv /\ DashboardInv

LEMMA RequestsStep ==
  RequestsInv /\ [RequestsNext]_<<routerVars, roundVars, streamVars, dashboardVars, part>> => RequestsInv'
<1> SUFFICES ASSUME RequestsInv, [RequestsNext]_<<routerVars, roundVars, streamVars, dashboardVars, part>>
             PROVE  RequestsInv'
  OBVIOUS
<1>1. /\ [RouterNext]_routerVars /\ [RoundsNext]_roundVars
      /\ [StreamNext]_streamVars /\ [DashboardNext]_dashboardVars
  BY Zenon DEF RequestsNext
<1>2. RouterInv'
  BY <1>1, RouterStep DEF RequestsInv
<1>3. RoundsInv'
  BY <1>1, RoundsStep DEF RequestsInv
<1>4. StreamInv'
  BY <1>1, StreamStep DEF RequestsInv
<1>5. DashboardInv'
  BY <1>1, DashboardStep DEF RequestsInv
<1> QED BY <1>2, <1>3, <1>4, <1>5 DEF RequestsInv

\* Whichever part a request is in: the types and the invariants of all of them, and what the
\* dashboard shows is announced (routing.py, service.py, local_search.py and telemetry.py).
THEOREM RequestsAreSafe ==
  RequestsSpec => /\ [](RequestsTypeOK /\ TurnIsRemembered /\ InstructionsDoNotRoute)
                  /\ [](OnlyMixedCallsAreLost /\ DeliveredCallsAreUsable /\ WebCallsAreAnswered)
                  /\ [](ChunksDoNotMatter /\ TotalsCountEachTurnOnce)
                  /\ ChangesAreAnnounced
<1>1. RequestsInit => RequestsInv
  BY RouterInvAtFirst, RoundsInvAtFirst, StreamInvAtFirst, DashboardInvAtFirst DEF RequestsInit, RequestsInv
<1>2. RequestsInv => RequestsTypeOK
  BY StreamIsTyped DEF RequestsInv, RequestsTypeOK, RouterInv, RoundsInv, DashboardInv
<1>3. RequestsInv => TurnIsRemembered /\ InstructionsDoNotRoute
  BY InvRemembers, InstructionsAreUnmoved DEF RequestsInv
<1>4. RequestsInv => OnlyMixedCallsAreLost /\ DeliveredCallsAreUsable /\ WebCallsAreAnswered
  BY AnsweredIs DEF RequestsInv, RoundsInv, OnlyMixed, OnlyMixedCallsAreLost
<1>5. RequestsInv => ChunksDoNotMatter /\ TotalsCountEachTurnOnce
  BY SeenIsPrefix, TotalsAreShown DEF RequestsInv
<1>6. RequestsInv /\ [RequestsNext]_<<routerVars, roundVars, streamVars, dashboardVars, part>>
        => [Snapshot' # Snapshot => unsent']_dashboardVars
  <2> SUFFICES ASSUME RequestsInv, [RequestsNext]_<<routerVars, roundVars, streamVars, dashboardVars, part>>
               PROVE  [Snapshot' # Snapshot => unsent']_dashboardVars
    OBVIOUS
  <2>1. [DashboardNext]_dashboardVars
    BY Zenon DEF RequestsNext
  <2> QED BY <2>1, AnnouncedStep DEF RequestsInv
<1> QED BY <1>1, <1>2, <1>3, <1>4, <1>5, <1>6, RequestsStep, PTL DEF RequestsSpec, ChangesAreAnnounced
=============================================================================
