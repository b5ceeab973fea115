----------------------------- MODULE StoresProofs -----------------------------
(***************************************************************************)
(* What the three stores promise, for any sessions, callers and sizes: the  *)
(* usage store keeps the titles it is given, whatever statement touches the *)
(* table of sessions, and its statistics agree with each other; the web     *)
(* cache never gives up a fresh row for an older one; and, with             *)
(* SchemaAdoptionProofs, all three stay well-formed.                        *)
(***************************************************************************)
EXTENDS MCStores, SchemaAdoptionProofs, CommonLemmas

-----------------------------------------------------------------------------
(* The usage store keeps its titles.                                       *)

Titled ==
  \A s \in Sid : TitleOf(sessions, s) = titled[s]

\* A session without a row has no title yet.
UsageInv == UsageTypeOK /\ Titled

\* With and Seen by the titles they leave.
LEMMA TitlesAfterWith ==
  ASSUME NEW rows, NEW s, NEW title, NEW x
  PROVE  TitleOf(With(rows, s, title), x) = IF x = s THEN title ELSE TitleOf(rows, x)
  BY DEF TitleOf, With

\* A title that is set, and one that a new row takes over, is one.
LEMMA SessionsAfterWith ==
  ASSUME UsageTypeOK, NEW s \in Sid, NEW title \in Title \cup {Untitled}
  PROVE  /\ DOMAIN With(sessions, s, title) \subseteq Sid
         /\ \A x \in DOMAIN With(sessions, s, title) :
              With(sessions, s, title)[x] \in Title \cup {Untitled}
  BY DEF With, UsageTypeOK

\* The table sessions is new; the rows may be there.
LEMMA UsageInvAtFirst == UsageInit => UsageInv
<1> SUFFICES ASSUME UsageInit PROVE UsageInv
  OBVIOUS
<1>1. events \in Seq(Event) /\ Len(events) \in 0..MaxClock
  <2>1. CASE events = <<>>
    BY <2>1, UsageAssumption
  <2>2. ASSUME NEW s \in Sid, NEW t \in Tid, NEW m \in Model,
               events = <<[at |-> 1, sid |-> s, tid |-> t, model |-> m, tokens |-> 1]>>
        PROVE  events \in Seq(Event) /\ Len(events) \in 0..MaxClock
    <3>1. [at |-> 1, sid |-> s, tid |-> t, model |-> m, tokens |-> 1] \in Event
      BY UsageAssumption DEF Event
    <3> QED
      BY <2>2, <3>1, UsageAssumption
  <2>3. \/ events = <<>>
        \/ \E s \in Sid, t \in Tid, m \in Model :
             events = <<[at |-> 1, sid |-> s, tid |-> t, model |-> m, tokens |-> 1]>>
    BY DEF UsageInit
  <2> QED
    BY <2>1, <2>2, <2>3
<1> QED
  BY <1>1 DEF UsageInit, UsageInv, UsageTypeOK, Titled, TitleOf, NoTable

\* Every call keeps the titles: the one that opens the store, that records, that names.
LEMMA UsageStep == UsageInv /\ [UsageNext]_usageVars => UsageInv'
<1> SUFFICES ASSUME UsageInv, [UsageNext]_usageVars PROVE UsageInv'
  OBVIOUS
<1> USE DEF UsageInv
<1>1. ASSUME OpenStore PROVE UsageInv'
  <2>1. \A s \in Sid : TitleOf(sessions', s) = TitleOf(sessions, s)
    BY <1>1 DEF OpenStore, TitleOf
  <2>2. \A i \in DOMAIN events : events[i].sid \in Sid
    <3>1. \A i \in DOMAIN events : events[i] \in Event
      BY DEF UsageTypeOK
    <3> QED
      BY <3>1 DEF Event
  <2>3. /\ DOMAIN sessions' \subseteq Sid
        /\ \A s \in DOMAIN sessions' : sessions'[s] \in Title \cup {Untitled}
    BY <1>1, <2>2 DEF OpenStore, TitleOf, UsageTypeOK
  <2> QED
    BY <1>1, <2>1, <2>3 DEF OpenStore, UsageTypeOK, Titled
<1>2. ASSUME NEW s \in Sid, NEW t \in Tid, NEW m \in Model, NEW n \in 0..MaxTokens,
             Record(s, t, m, n)
      PROVE  UsageInv'
  <2>1. wall' \in 1..MaxClock /\ wall' \in 0..MaxClock
    BY <1>2, UsageAssumption DEF Record, UsageTypeOK
  <2>2. [at |-> wall', sid |-> s, tid |-> t, model |-> m, tokens |-> n] \in Event
    BY <2>1 DEF Event
  <2>3. events' \in Seq(Event)
    BY <1>2, <2>2 DEF Record, UsageTypeOK
  <2>4. \A x \in Sid : TitleOf(sessions', x) = TitleOf(sessions, x)
    BY <1>2, TitlesAfterWith DEF Record, Seen
  <2>5. TitleOf(sessions, s) \in Title \cup {Untitled}
    BY DEF TitleOf, UsageTypeOK
  <2>6. /\ DOMAIN sessions' \subseteq Sid
        /\ \A x \in DOMAIN sessions' : sessions'[x] \in Title \cup {Untitled}
    BY <1>2, <2>5, SessionsAfterWith DEF Record, Seen
  <2> QED
    BY <1>2, <2>1, <2>3, <2>4, <2>6 DEF Record, UsageTypeOK, Titled
<1>3. ASSUME NEW s \in Sid, NEW title \in Title, SetSessionTitle(s, title) PROVE UsageInv'
  <2>1. /\ DOMAIN sessions' \subseteq Sid
        /\ \A x \in DOMAIN sessions' : sessions'[x] \in Title \cup {Untitled}
    BY <1>3, SessionsAfterWith DEF SetSessionTitle
  <2>2. \A x \in Sid : TitleOf(sessions', x) = titled'[x]
    BY <1>3, TitlesAfterWith DEF SetSessionTitle, UsageTypeOK, Titled
  <2> QED
    BY <1>3, <2>1, <2>2 DEF SetSessionTitle, UsageTypeOK, Titled
<1>4. CASE UNCHANGED usageVars
  BY <1>4 DEF usageVars, UsageTypeOK, Titled
<1> QED
  BY <1>1, <1>2, <1>3, <1>4 DEF UsageNext

\* The invariant tells the titles of every session with a row.
LEMMA InvIsTitled == UsageInv => TitlesAreKept
<1> SUFFICES ASSUME UsageInv, NEW i \in DOMAIN events
             PROVE  TitleOf(sessions, events[i].sid) = titled[events[i].sid]
  BY DEF TitlesAreKept
<1>1. events[i] \in Event
  BY DEF UsageInv, UsageTypeOK
<1> QED
  BY <1>1 DEF UsageInv, Titled, Event

\* UsageStore: whatever is recorded and restarted in between, a session keeps its title.
THEOREM AlwaysTitled == UsageSpec => []TitlesAreKept
  BY UsageInvAtFirst, UsageStep, InvIsTitled, PTL DEF UsageSpec

-----------------------------------------------------------------------------
(* What the statistics add up to.                                          *)

\* Time has passed between two events, and before now.
EventsInOrder ==
  \A i \in 1..Len(events) :
    events[i].at <= wall /\ \A j \in 1..Len(events) : i < j => events[i].at < events[j].at

OrderedInv == UsageInv /\ EventsInOrder

\* An event is written at an instant of its own.
LEMMA OrderStep == OrderedInv /\ [UsageNext]_usageVars => OrderedInv'
<1> SUFFICES ASSUME OrderedInv, [UsageNext]_usageVars PROVE EventsInOrder'
  BY UsageStep DEF OrderedInv
<1>1. ASSUME NEW s \in Sid, NEW t \in Tid, NEW m \in Model, NEW n \in 0..MaxTokens,
             Record(s, t, m, n)
      PROVE  EventsInOrder'
  <2> DEFINE event == [at |-> wall', sid |-> s, tid |-> t, model |-> m, tokens |-> n]
             last == Len(events)
  <2>1. events \in Seq(Event) /\ wall \in Nat /\ wall' = wall + 1 /\ events' = Append(events, event)
    BY <1>1, UsageAssumption DEF Record, OrderedInv, UsageInv, UsageTypeOK
  <2>2. event.at = wall'
    OBVIOUS
  <2>3. last \in Nat /\ \A i \in 1..last : events[i].at \in Nat
    <3>1. \A i \in 1..last : events[i] \in Event
      BY <2>1
    <3> QED BY <2>1, <3>1, UsageAssumption DEF Event
  <2> HIDE DEF event
  <2>4. Len(events') = last + 1 /\ events'[last + 1] = event /\ \A i \in 1..last : events'[i] = events[i]
    BY <2>1
  <2>5. \A i \in 1..last + 1 : i = last + 1 \/ i \in 1..last
    BY <2>3
  <2> HIDE DEF last
  <2>6. \A i \in 1..last : events'[i].at < wall' /\ events'[i].at \in Nat
    BY <2>1, <2>3, <2>4 DEF OrderedInv, EventsInOrder, last
  <2>7. \A i, j \in 1..last + 1 : i < j => events'[i].at < events'[j].at
    <3> SUFFICES ASSUME NEW i \in 1..last + 1, NEW j \in 1..last + 1, i < j
        PROVE  events'[i].at < events'[j].at
      OBVIOUS
    <3>1. i \in 1..last
      BY <2>3
    <3>2. CASE j = last + 1
      BY <2>2, <2>4, <2>6, <3>1, <3>2
    <3>3. CASE j \in 1..last
      BY <2>4, <3>1, <3>3 DEF OrderedInv, EventsInOrder, last
    <3> QED BY <2>5, <3>2, <3>3
  <2>8. \A i \in 1..last + 1 : events'[i].at <= wall'
    BY <2>1, <2>2, <2>4, <2>5, <2>6
  <2> QED BY <2>4, <2>7, <2>8 DEF EventsInOrder
<1>2. CASE UNCHANGED <<events, wall>>
  BY <1>2 DEF OrderedInv, EventsInOrder
<1> QED BY <1>1, <1>2 DEF UsageNext, OpenStore, SetSessionTitle, usageVars

\* A row of an older release is alone.
LEMMA OrderAtFirst == UsageInit => OrderedInv
<1> SUFFICES ASSUME UsageInit PROVE EventsInOrder
  BY UsageInvAtFirst DEF OrderedInv
<1>1. CASE events = <<>>
  BY <1>1 DEF EventsInOrder
<1>2. ASSUME NEW s \in Sid, NEW t \in Tid, NEW m \in Model,
             events = <<[at |-> 1, sid |-> s, tid |-> t, model |-> m, tokens |-> 1]>>
      PROVE  EventsInOrder
  <2>1. Len(events) = 1 /\ events[1].at = 1 /\ wall = 1
    BY <1>2 DEF UsageInit
  <2> QED BY <2>1 DEF EventsInOrder
<1> QED BY <1>1, <1>2 DEF UsageInit

-----------------------------------------------------------------------------
\* A table of as many rows as there are classes, each with the calls and tokens of its class,
\* adds up to the totals.
RowPerClass(table, line, C, rows, c) ==
  /\ table = {line[k] : k \in C}
  /\ \A i \in rows : c[i] \in C
  /\ \A k, l \in C : line[k] = line[l] => k = l
  /\ \A k \in C : /\ line[k].calls = Cardinality({i \in rows : c[i] = k})
                  /\ line[k].tokens = TokensOf({i \in rows : c[i] = k})
LEMMA TableAdds ==
  ASSUME UsageInv, NEW rows, rows \subseteq 1..Len(events),
         NEW C, IsFiniteSet(C), NEW c, NEW line, NEW table, RowPerClass(table, line, C, rows, c)
  PROVE  CallsIn(table) = Cardinality(rows) /\ TokensIn(table) = TokensOf(rows)
<1> DEFINE Part(k) == {i \in rows : c[i] = k}
           ones == [i \in rows |-> 1]
           callsAt == [row \in table |-> row.calls]
           tokensAt == [row \in table |-> row.tokens]
           counted == [k \in C |-> Cardinality(Part(k))]
           summed == [k \in C |-> TokensOf(Part(k))]
<1>0. /\ table = {line[k] : k \in C} /\ \A i \in rows : c[i] \in C
      /\ \A k, l \in C : line[k] = line[l] => k = l
      /\ \A k \in C : line[k].calls = Cardinality(Part(k)) /\ line[k].tokens = TokensOf(Part(k))
  BY DEF RowPerClass
<1>1. IsFiniteSet(rows) /\ \A k : IsFiniteSet(Part(k))
  <2>1. Len(events) \in Nat
    BY DEF UsageInv, UsageTypeOK
  <2>2. IsFiniteSet(1..Len(events))
    BY <2>1, FS_Interval
  <2>3. \A k : Part(k) \in SUBSET (1..Len(events))
    OBVIOUS
  <2> QED BY <2>2, <2>3, FS_Subset
<1>2. \A i \in rows : Tokens[i] \in Nat
  <2>1. DOMAIN events = 1..Len(events) /\ \A i \in 1..Len(events) : events[i] \in Event
    BY DEF UsageInv, UsageTypeOK
  <2> QED BY <2>1, UsageAssumption DEF Tokens, Event
<1>3. \A R : TokensOf(R) = SumOf(Tokens, R)
  BY Zenon DEF TokensOf, SumOf
<1>4. /\ CallsIn(table) = SumOf(callsAt, table)
      /\ TokensIn(table) = SumOf(tokensAt, table)
  BY Zenon DEF CallsIn, TokensIn, SumOf
<1>5. \A k \in C : callsAt[line[k]] = counted[k] /\ tokensAt[line[k]] = summed[k]
  <2> SUFFICES ASSUME NEW k \in C PROVE callsAt[line[k]] = counted[k] /\ tokensAt[line[k]] = summed[k]
    OBVIOUS
  <2>1. line[k] \in table
    BY <1>0
  <2>2. callsAt[line[k]] = line[k].calls /\ tokensAt[line[k]] = line[k].tokens
    BY <2>1
  <2> QED BY <1>0, <2>2
<1>6. \A k \in C : counted[k] = SumOf(ones, Part(k)) /\ summed[k] = SumOf(Tokens, Part(k))
  <2> SUFFICES ASSUME NEW k \in C PROVE counted[k] = SumOf(ones, Part(k)) /\ summed[k] = SumOf(Tokens, Part(k))
    OBVIOUS
  <2>1. \A i \in Part(k) : ones[i] = 1
    OBVIOUS
  <2>2. counted[k] = Cardinality(Part(k)) /\ summed[k] = TokensOf(Part(k))
    OBVIOUS
  <2> HIDE DEF ones, Part, counted, summed
  <2>3. SumOf(ones, Part(k)) = Cardinality(Part(k))
    BY <1>1, <2>1, SumOfOnes
  <2> QED BY <1>3, <2>2, <2>3
<1>7. \A k \in C : counted[k] \in Nat /\ summed[k] \in Nat
  <2> SUFFICES ASSUME NEW k \in C PROVE counted[k] \in Nat /\ summed[k] \in Nat
    OBVIOUS
  <2>1. \A i \in Part(k) : ones[i] \in Nat /\ Tokens[i] \in Nat
    BY <1>2
  <2> HIDE DEF ones, Part, counted, summed
  <2>2. SumOf(ones, Part(k)) \in Nat /\ SumOf(Tokens, Part(k)) \in Nat
    BY <1>1, <2>1, SumOfIsNat
  <2> QED BY <1>6, <2>2
<1>8. \A i \in rows : ones[i] = 1 /\ ones[i] \in Nat
  OBVIOUS
<1>9. SumsByClass(counted, C, ones, rows, c) /\ SumsByClass(summed, C, Tokens, rows, c)
  BY <1>6 DEF SumsByClass
<1> HIDE DEF ones, callsAt, tokensAt, counted, summed, Part
<1>10. SumOf(callsAt, {line[k] : k \in C}) = SumOf(counted, C)
  <2>1. (\A k, l \in C : line[k] = line[l] => k = l) /\ \A k \in C : callsAt[line[k]] = counted[k]
    BY <1>0, <1>5
  <2> QED BY <1>7, <2>1, SumOfImage
<1>11. SumOf(tokensAt, {line[k] : k \in C}) = SumOf(summed, C)
  <2>1. (\A k, l \in C : line[k] = line[l] => k = l) /\ \A k \in C : tokensAt[line[k]] = summed[k]
    BY <1>0, <1>5
  <2> QED BY <1>7, <2>1, SumOfImage
<1>12. SumOf(counted, C) = SumOf(ones, rows)
  <2>1. IsFiniteSet(rows) /\ SumsByClass(counted, C, ones, rows, c)
    BY <1>1, <1>9
  <2>2. \A i \in rows : ones[i] \in Nat
    BY <1>8
  <2> QED BY ONLY <1>0, <2>1, <2>2, IsFiniteSet(C), SumOfParts
<1>13. SumOf(summed, C) = SumOf(Tokens, rows)
  <2>1. IsFiniteSet(rows) /\ SumsByClass(summed, C, Tokens, rows, c)
    BY <1>1, <1>9
  <2> QED BY ONLY <1>0, <1>2, <2>1, IsFiniteSet(C), SumOfParts
<1>14. SumOf(ones, rows) = Cardinality(rows)
  BY <1>1, <1>8, SumOfOnes
<1> QED BY <1>0, <1>3, <1>4, <1>10, <1>11, <1>12, <1>13, <1>14

\* What may be asked for: finitely many events.
LEMMA RowsAre ==
  ASSUME UsageInv, NEW rows \in Selections
  PROVE  /\ rows \subseteq 1..Len(events) /\ IsFiniteSet(rows) /\ Len(events) \in Nat
         /\ \A i \in 1..Len(events) : events[i] \in Event
<1>1. Len(events) \in Nat /\ DOMAIN events = 1..Len(events) /\ \A i \in 1..Len(events) : events[i] \in Event
  BY DEF UsageInv, UsageTypeOK
<1>2. rows \subseteq 1..Len(events)
  BY <1>1 DEF Selections, Rows
<1>3. IsFiniteSet(1..Len(events))
  BY <1>1, FS_Interval
<1> QED BY <1>1, <1>2, <1>3, FS_Subset

\* The last event of a session is one of the session's.
LEMMA LastIs ==
  ASSUME UsageInv, NEW rows \in Selections, NEW s \in SessionsOf(rows)
  PROVE  \E i \in rows : events[i].sid = s /\ LastOf(RowsOf(rows, s)) = events[i].at
<1> DEFINE own == RowsOf(rows, s)
           times == {events[i].at : i \in own}
<1>1. own \subseteq rows /\ own # {} /\ \A i \in own : events[i].sid = s
  BY DEF SessionsOf, RowsOf
<1>2. IsFiniteSet(own) /\ \A i \in own : events[i].at \in Nat
  <2>1. IsFiniteSet(rows) /\ \A i \in rows : events[i] \in Event
    BY RowsAre
  <2>2. IsFiniteSet(own)
    BY <1>1, <2>1, FS_Subset
  <2> QED BY <1>1, <2>1, <2>2, UsageAssumption DEF Event
<1> HIDE DEF own
<1>3. times \subseteq Nat /\ times # {}
  BY <1>1, <1>2
<1>4. IsFiniteSet(times)
  <2> DEFINE f == [i \in own |-> events[i].at]
  <2>1. f \in Surjection(own, times)
    BY DEF Surjection
  <2> HIDE DEF f, times
  <2> QED BY <1>2, <2>1, FS_Surjection
<1>5. Max(times) \in times
  <2> HIDE DEF times
  <2> QED BY <1>3, <1>4, GreatestIsOne
<1>6. LastOf(own) = Max(times)
  BY DEF LastOf
<1> QED BY <1>1, <1>5, <1>6 DEF own

\* The sessions of some rows, each once in the order of Newest.
LEMMA NewestIs ==
  ASSUME OrderedInv, NEW rows \in Selections
  PROVE  LET n == Cardinality(SessionsOf(rows))
         IN  /\ IsFiniteSet(SessionsOf(rows)) /\ n \in Nat
             /\ Newest(rows) \in [1..n -> SessionsOf(rows)]
             /\ \A i, j \in 1..n : Newest(rows)[i] = Newest(rows)[j] => i = j
             /\ \A s \in SessionsOf(rows) : \E i \in 1..n : Newest(rows)[i] = s
<1> DEFINE S == SessionsOf(rows)
           n == Cardinality(S)
           L == [s \in S |-> LastOf(RowsOf(rows, s))]
           P == {L[s] : s \in S}
           Sorted(order) == \A i, j \in 1..n : i < j => L[order[i]] > L[order[j]]
<1>1. rows \subseteq 1..Len(events) /\ IsFiniteSet(rows) /\ \A i \in rows : events[i] \in Event
  BY RowsAre DEF OrderedInv
<1>2. IsFiniteSet(S) /\ n \in Nat
  <2> DEFINE f == [i \in rows |-> events[i].sid]
  <2>1. f \in Surjection(rows, S)
    BY DEF Surjection, SessionsOf
  <2> HIDE DEF f, S
  <2>2. IsFiniteSet(S)
    BY <1>1, <2>1, FS_Surjection
  <2> QED BY <2>2, FS_CardinalityType
<1>3. \A s \in S : \E i \in rows : events[i].sid = s /\ L[s] = events[i].at
  BY LastIs DEF OrderedInv
<1>4. Newest(rows) = CHOOSE order \in [1..n -> S] :
        \A i, j \in 1..n : i < j => LastOf(RowsOf(rows, order[i])) > LastOf(RowsOf(rows, order[j]))
  BY DEF Newest
<1>5. \A order \in [1..n -> S] : \A i \in 1..n : L[order[i]] = LastOf(RowsOf(rows, order[i]))
  OBVIOUS
<1> HIDE DEF S, n, L
<1>6. \A s \in S : L[s] \in Nat
  <2> SUFFICES ASSUME NEW s \in S PROVE L[s] \in Nat
    OBVIOUS
  <2>1. PICK i \in rows : L[s] = events[i].at
    BY <1>3
  <2> QED BY <1>1, <2>1, UsageAssumption DEF Event
<1>7. \A s, t \in S : L[s] = L[t] => s = t
  <2> SUFFICES ASSUME NEW s \in S, NEW t \in S, L[s] = L[t] PROVE s = t
    OBVIOUS
  <2>1. PICK i \in rows : events[i].sid = s /\ L[s] = events[i].at
    BY <1>3
  <2>2. PICK j \in rows : events[j].sid = t /\ L[t] = events[j].at
    BY <1>3
  <2>3. i \in 1..Len(events) /\ j \in 1..Len(events) /\ events[i].at = events[j].at /\ L[s] \in Nat
    BY <1>1, <1>6, <2>1, <2>2
  <2>4. ~(i < j) /\ ~(j < i)
    BY <2>1, <2>2, <2>3 DEF OrderedInv, EventsInOrder
  <2>5. i = j
    BY <2>3, <2>4
  <2> QED BY <2>1, <2>2, <2>5
<1>8. P \subseteq Nat /\ IsFiniteSet(P) /\ Cardinality(P) = n
  <2>1. L \in Surjection(S, P) /\ L \in Injection(S, P)
    <3>1. L \in [S -> P] /\ \A y \in P : \E s \in S : L[s] = y
      BY DEF L
    <3> HIDE DEF P
    <3> QED BY <1>7, <3>1 DEF Surjection, Injection, IsInjective
  <2>2. IsFiniteSet(P) /\ Cardinality(P) = Cardinality(S)
    <3> HIDE DEF P
    <3> QED BY <1>2, <2>1, FS_Surjection
  <2> QED BY <1>6, <2>2 DEF n
<1>9. PICK g \in [1..n -> P] : \A i, j \in 1..n : i < j => g[i] < g[j]
  <2> HIDE DEF P
  <2>1. \E g \in [1..Cardinality(P) -> P] :
          \A i, j \in 1..Cardinality(P) : i < j => g[i] < g[j]
    BY <1>8, OrderExists
  <2> QED BY <1>8, <2>1
<1>10. \E order \in [1..n -> S] : Sorted(order)
  <2> DEFINE order == [i \in 1..n |-> CHOOSE s \in S : L[s] = g[n + 1 - i]]
  <2>1. \A i \in 1..n : n + 1 - i \in 1..n
    BY <1>2
  <2>2. \A i \in 1..n : order[i] \in S /\ L[order[i]] = g[n + 1 - i]
    <3> SUFFICES ASSUME NEW i \in 1..n PROVE order[i] \in S /\ L[order[i]] = g[n + 1 - i]
      OBVIOUS
    <3>1. g[n + 1 - i] \in P
      BY <1>9, <2>1
    <3>2. \E s \in S : L[s] = g[n + 1 - i]
      BY <3>1
    <3> QED BY <3>2
  <2>3. order \in [1..n -> S]
    <3>1. order = [i \in 1..n |-> order[i]]
      OBVIOUS
    <3> HIDE DEF order
    <3> QED BY <2>2, <3>1
  <2> HIDE DEF order
  <2>4. ASSUME NEW i \in 1..n, NEW j \in 1..n, i < j PROVE L[order[i]] > L[order[j]]
    <3>1. n + 1 - j < n + 1 - i /\ n + 1 - j \in 1..n /\ n + 1 - i \in 1..n
      BY <1>2, <2>1, <2>4
    <3>2. g[n + 1 - j] < g[n + 1 - i] /\ g[n + 1 - j] \in Nat /\ g[n + 1 - i] \in Nat
      BY <1>8, <1>9, <3>1
    <3> QED BY <2>2, <3>2
  <2> QED BY <2>3, <2>4
<1>11. Newest(rows) \in [1..n -> S] /\ Sorted(Newest(rows))
  <2>1. \E order \in [1..n -> S] :
          \A i, j \in 1..n : i < j => LastOf(RowsOf(rows, order[i])) > LastOf(RowsOf(rows, order[j]))
    BY <1>5, <1>10
  <2>2. /\ Newest(rows) \in [1..n -> S]
        /\ \A i, j \in 1..n :
             i < j => LastOf(RowsOf(rows, Newest(rows)[i])) > LastOf(RowsOf(rows, Newest(rows)[j]))
    BY <1>4, <2>1
  <2> QED BY <1>5, <2>2
<1> DEFINE f == Newest(rows)
<1>12. f \in [1..n -> S] /\ Sorted(f)
  BY <1>11
<1> HIDE DEF f
<1>13. \A i, j \in 1..n : f[i] = f[j] => i = j
  <2> SUFFICES ASSUME NEW i \in 1..n, NEW j \in 1..n, f[i] = f[j], i # j PROVE FALSE
    OBVIOUS
  <2>1. f[i] \in S /\ L[f[i]] \in Nat /\ L[f[i]] = L[f[j]]
    BY <1>6, <1>12
  <2>2. CASE i < j
    BY <1>12, <2>1, <2>2
  <2>3. CASE j < i
    BY <1>12, <2>1, <2>3
  <2> QED BY <1>2, <2>2, <2>3
<1>14. \A s \in S : \E i \in 1..n : f[i] = s
  <2>1. IsFiniteSet(1..n) /\ Cardinality(1..n) = n
    BY <1>2, FS_Interval
  <2>2. f \in Injection(1..n, S)
    BY <1>12, <1>13 DEF Injection, IsInjective
  <2>3. f \in Surjection(1..n, S)
    BY <1>2, <2>1, <2>2, FS_Injection DEF n
  <2> QED BY <2>3 DEF Surjection
<1> QED BY <1>2, <1>12, <1>13, <1>14 DEF S, n, f


\* The sessions counted are spread over whole pages, and the last one.
PagesFor(n, size) == IF (n + size - 1) \div size < 1 THEN 1 ELSE (n + size - 1) \div size
LEMMA PagesAre ==
  ASSUME NEW n \in Nat, NEW size \in Nat \ {0}
  PROVE  /\ PagesFor(n, size) \in Nat \ {0}
         /\ \A p \in 1..PagesFor(n, size) : (p - 1) * size \in Nat /\ (p - 1) * size <= n
         /\ \A k \in 1..n : \E p \in 1..PagesFor(n, size), j \in 1..size : (p - 1) * size + j = k
<1> DEFINE b == (n + size - 1) \div size
           pages == PagesFor(n, size)
<1>1. b \in Nat /\ size * b <= n + size - 1 /\ n + size - 1 < size * b + size
  BY SMT
<1>2. pages = IF b < 1 THEN 1 ELSE b
  BY DEF PagesFor
<1> HIDE DEF b, pages
<1>3. pages \in Nat \ {0}
  BY <1>1, <1>2
<1>4. ASSUME NEW p \in 1..pages PROVE (p - 1) * size \in Nat /\ (p - 1) * size <= n
  <2>1. CASE p = 1
    BY <2>1
  <2>2. CASE p # 1
    <3>1. p \in Nat /\ p <= b /\ p - 1 \in Nat
      BY <1>1, <1>2, <2>2
    <3>2. (p - 1) * size \in Nat
      BY <3>1
    <3>3. p * size <= b * size
      BY <1>1, <3>1
    <3>4. (p - 1) * size = p * size - size /\ b * size = size * b /\ p * size \in Nat /\ size * b \in Nat
      BY <1>1, <3>1
    <3> QED BY <1>1, <3>2, <3>3, <3>4
  <2> QED BY <2>1, <2>2
<1>5. ASSUME NEW k \in 1..n PROVE \E p \in 1..pages, j \in 1..size : (p - 1) * size + j = k
  <2> DEFINE a == (k - 1) \div size
  <2>1. a \in Nat /\ size * a <= k - 1 /\ k - 1 < size * a + size
    BY SMT
  <2> HIDE DEF a
  <2>2. a < b
    <3>1. size * a < size * b
      <4>1. size * a \in Nat /\ size * b \in Nat
        BY <1>1, <2>1
      <4> QED BY <1>1, <2>1, <4>1
    <3>2. b <= a => size * b <= size * a
      BY <1>1, <2>1
    <3>3. size * a \in Nat /\ size * b \in Nat
      BY <1>1, <2>1
    <3> QED BY <1>1, <2>1, <3>1, <3>2, <3>3
  <2>3. a + 1 \in 1..pages
    BY <1>1, <1>2, <2>1, <2>2
  <2>4. size * a \in Nat /\ ((a + 1) - 1) * size = size * a
    BY <2>1
  <2>5. k - size * a \in 1..size /\ ((a + 1) - 1) * size + (k - size * a) = k
    BY <2>1, <2>4
  <2> QED BY <2>3, <2>5
<1> QED BY <1>3, <1>4, <1>5 DEF pages

\* No place is on two pages.
LEMMA PlacesDiffer ==
  ASSUME NEW size \in Nat \ {0}, NEW p \in Nat, NEW q \in Nat, NEW j \in 1..size, NEW k \in 1..size,
         (p - 1) * size + j = (q - 1) * size + k
  PROVE  p = q /\ j = k
<1> DEFINE a == (p - 1) * size
           b == (q - 1) * size
<1>1. a \in Int /\ b \in Int /\ a - b < size /\ b - a < size
  <2>1. a \in Int /\ b \in Int /\ a + j = b + k
    OBVIOUS
  <2> HIDE DEF a, b
  <2> QED BY <2>1
<1>2. ASSUME p < q PROVE FALSE
  <2>1. p * size <= (q - 1) * size
    BY <1>2
  <2>2. p * size = a + size
    OBVIOUS
  <2> QED BY <1>1, <2>1, <2>2
<1>3. ASSUME q < p PROVE FALSE
  <2>1. q * size <= (p - 1) * size
    BY <1>3
  <2>2. q * size = b + size
    OBVIOUS
  <2> QED BY <1>1, <2>1, <2>2
<1>4. p = q
  BY <1>2, <1>3
<1> QED BY <1>4

\* What a page holds.
LEMMA PageHolds ==
  ASSUME OrderedInv, NEW rows \in Selections, NEW size \in PageSizes,
         NEW p \in 1..TotalPages(rows, size)
  PROVE  LET n == Cardinality(SessionsOf(rows))
             found == SessionsOnPage(rows, p, size)
         IN  /\ (p - 1) * size \in Nat
             /\ DOMAIN found = {k \in 1..size : (p - 1) * size + k <= n}
             /\ \A k \in DOMAIN found : found[k] = Newest(rows)[(p - 1) * size + k]
<1> DEFINE S == SessionsOf(rows)
           n == Cardinality(S)
           f == Newest(rows)
           from == (p - 1) * size
           to == IF from + size < n THEN from + size ELSE n
           found == SubSeq(f, from + 1, to)
<1>1. n \in Nat /\ f \in [1..n -> S] /\ size \in Nat \ {0}
  BY NewestIs, UsageAssumption
<1>2. from \in Nat /\ from <= n
  BY <1>1, PagesAre DEF TotalPages, PagesFor
<1>3. Len(f) = n
  BY <1>1, LenProperties
<1>4. SessionsOnPage(rows, p, size) = found
  BY <1>3 DEF SessionsOnPage, Offset
<1> HIDE DEF n, f, from, S
<1>5. to \in Int /\ from + 1 \in Int /\ \A i \in from + 1 .. to : f[i] \in S
  BY <1>1, <1>2
<1>6. /\ found \in Seq(S)
      /\ Len(found) = IF from + 1 <= to THEN to - (from + 1) + 1 ELSE 0
      /\ \A i \in 1 .. to - (from + 1) + 1 : found[i] = f[(from + 1) + i - 1]
  <2> HIDE DEF to
  <2> QED BY <1>5, SubSeqProperties
<1> HIDE DEF found
<1>7. DOMAIN found = 1..(to - from)
  <2>1. DOMAIN found = 1..Len(found)
    BY <1>6
  <2>2. Len(found) = to - from
    BY <1>1, <1>2, <1>6
  <2> QED BY <2>1, <2>2
<1>8. DOMAIN found = {k \in 1..size : from + k <= n}
  BY <1>1, <1>2, <1>7
<1>9. \A k \in DOMAIN found : found[k] = f[from + k]
  BY <1>1, <1>2, <1>6, <1>7
<1> QED BY <1>2, <1>4, <1>8, <1>9 DEF n, f, from, S

\* Over all pages each session counted has one place.
PlacesFor(n, size) ==
  {place \in (1..PagesFor(n, size)) \X (1..size) : (place[1] - 1) * size + place[2] <= n}
LEMMA PlacesAre ==
  ASSUME NEW n \in Nat, NEW size \in Nat \ {0}
  PROVE  /\ Cardinality(PlacesFor(n, size)) = n
         /\ \A place \in PlacesFor(n, size) : (place[1] - 1) * size + place[2] \in 1..n
         /\ \A k \in 1..n : \E place \in PlacesFor(n, size) : (place[1] - 1) * size + place[2] = k
<1> DEFINE pages == PagesFor(n, size)
           places == PlacesFor(n, size)
           number == [place \in places |-> (place[1] - 1) * size + place[2]]
<1>1. /\ pages \in Nat \ {0}
      /\ \A p \in 1..pages : (p - 1) * size \in Nat
      /\ \A k \in 1..n : \E p \in 1..pages, j \in 1..size : (p - 1) * size + j = k
  BY PagesAre
<1> HIDE DEF pages
<1>0. places = {place \in (1..pages) \X (1..size) : (place[1] - 1) * size + place[2] <= n}
  BY DEF PlacesFor, pages
<1> HIDE DEF places
<1>2. \A place \in places : (place[1] - 1) * size + place[2] \in 1..n
  <2> SUFFICES ASSUME NEW place \in places PROVE (place[1] - 1) * size + place[2] \in 1..n
    OBVIOUS
  <2> DEFINE p == place[1]
             j == place[2]
             from == (p - 1) * size
  <2>1. p \in 1..pages /\ j \in 1..size /\ from + j <= n
    BY <1>0
  <2>2. from \in Nat
    BY <1>1, <2>1
  <2> HIDE DEF p, j, from
  <2>3. from + j \in 1..n
    BY <2>1, <2>2
  <2> QED BY <2>3 DEF from, p, j
<1>3. \A k \in 1..n : \E place \in places : (place[1] - 1) * size + place[2] = k
  <2> SUFFICES ASSUME NEW k \in 1..n PROVE \E place \in places : (place[1] - 1) * size + place[2] = k
    OBVIOUS
  <2>1. PICK p \in 1..pages, j \in 1..size : (p - 1) * size + j = k
    BY <1>1
  <2>2. <<p, j>> \in (1..pages) \X (1..size) /\ <<p, j>>[1] = p /\ <<p, j>>[2] = j
    OBVIOUS
  <2>3. (<<p, j>>[1] - 1) * size + <<p, j>>[2] = k
    BY <2>1, <2>2
  <2>4. k <= n
    OBVIOUS
  <2>5. <<p, j>> \in places
    BY <1>0, <2>2, <2>3, <2>4
  <2> QED BY <2>3, <2>5
<1>4. \A a, b \in places : number[a] = number[b] => a = b
  <2> SUFFICES ASSUME NEW a \in places, NEW b \in places, number[a] = number[b] PROVE a = b
    OBVIOUS
  <2>1. /\ a[1] \in Nat /\ a[2] \in 1..size /\ a = <<a[1], a[2]>>
        /\ b[1] \in Nat /\ b[2] \in 1..size /\ b = <<b[1], b[2]>>
    BY <1>0, <1>1
  <2>2. (a[1] - 1) * size + a[2] = (b[1] - 1) * size + b[2]
    OBVIOUS
  <2>3. a[1] = b[1] /\ a[2] = b[2]
    BY ONLY <2>1, <2>2, size \in Nat \ {0}, PlacesDiffer
  <2> QED BY <2>1, <2>3
<1>5. number \in [places -> 1..n] /\ \A k \in 1..n : \E place \in places : number[place] = k
  BY <1>2, <1>3
<1> HIDE DEF number
<1>6. number \in Injection(places, 1..n) /\ number \in Surjection(places, 1..n)
  BY <1>4, <1>5 DEF Injection, Surjection, IsInjective
<1>7. IsFiniteSet(1..n) /\ Cardinality(1..n) = n
  BY FS_Interval
<1>8. Cardinality(places) = Cardinality(1..n)
  BY <1>6, <1>7, FS_Injection
<1> QED BY <1>2, <1>3, <1>7, <1>8 DEF places

\* The sessions shown add up to the totals.
LEMMA SessionsAddUp ==
  ASSUME UsageInv, NEW rows \in Selections
  PROVE  LET table == {SessionRow(rows, s) : s \in SessionsOf(rows)}
         IN  /\ CallsIn(table) = Cardinality(rows)
             /\ TokensIn(table) = TokensOf(rows)
             /\ {row.session_id : row \in table} = SessionsOf(rows)
<1> DEFINE C == SessionsOf(rows)
           c == [i \in rows |-> events[i].sid]
           line == [s \in C |-> SessionRow(rows, s)]
<1>1. rows \subseteq 1..Len(events) /\ IsFiniteSet(rows)
  BY RowsAre
<1>2. IsFiniteSet(C)
  <2>1. c \in Surjection(rows, C)
    BY DEF Surjection, SessionsOf
  <2> HIDE DEF c, C
  <2> QED BY <1>1, <2>1, FS_Surjection
<1>3. \A i \in rows : c[i] \in C
  BY DEF SessionsOf
<1>4. \A s \in C : line[s].session_id = s
  BY DEF SessionRow
<1>5. \A s : RowsOf(rows, s) = {i \in rows : c[i] = s}
  BY DEF RowsOf
<1>6. \A s \in C : line[s].calls = Cardinality(RowsOf(rows, s)) /\ line[s].tokens = TokensOf(RowsOf(rows, s))
  BY DEF SessionRow
<1>7. {SessionRow(rows, s) : s \in C} = {line[s] : s \in C}
  OBVIOUS
<1> HIDE DEF C, c, line
<1>8. \A s, t \in C : line[s] = line[t] => s = t
  BY <1>4
<1> DEFINE table == {line[s] : s \in C}
<1>9. RowPerClass(table, line, C, rows, c)
  BY <1>3, <1>5, <1>6, <1>8 DEF RowPerClass
<1>10. CallsIn(table) = Cardinality(rows) /\ TokensIn(table) = TokensOf(rows)
  <2> HIDE DEF table
  <2> QED BY <1>1, <1>2, <1>9, TableAdds
<1>11. {row.session_id : row \in {line[s] : s \in C}} = C
  BY <1>4
<1> QED BY <1>7, <1>10, <1>11 DEF C

\* So do the models.
LEMMA ModelsAddUp ==
  ASSUME UsageInv, NEW rows \in Selections, NEW table,
         table = {[model |-> r.model, calls |-> Cardinality(r.rows), tokens |-> TokensOf(r.rows)] :
                    r \in ModelRows(rows)}
  PROVE  CallsIn(table) = Cardinality(rows) /\ TokensIn(table) = TokensOf(rows)
<1> DEFINE C == {events[i].model : i \in rows}
           c == [i \in rows |-> events[i].model]
           Part(m) == {i \in rows : c[i] = m}
           line == [m \in C |-> [model |-> m, calls |-> Cardinality(Part(m)), tokens |-> TokensOf(Part(m))]]
<1>1. rows \subseteq 1..Len(events) /\ IsFiniteSet(rows)
  BY RowsAre
<1>2. IsFiniteSet(C)
  <2>1. c \in Surjection(rows, C)
    BY DEF Surjection
  <2> HIDE DEF c, C
  <2> QED BY <1>1, <2>1, FS_Surjection
<1>3. \A i \in rows : c[i] \in C
  OBVIOUS
<1>4. \A m \in C : /\ line[m].model = m
                   /\ line[m].calls = Cardinality(Part(m))
                   /\ line[m].tokens = TokensOf(Part(m))
  <2> HIDE DEF Part, C
  <2> QED OBVIOUS
<1>5. /\ \A r \in ModelRows(rows) : r.model \in C /\ r.rows = Part(r.model)
      /\ \A m \in C : \E r \in ModelRows(rows) : r.model = m
  <2>1. \A m : Part(m) = {i \in rows : events[i].model = m}
    OBVIOUS
  <2> HIDE DEF Part, c
  <2>2. ModelRows(rows) = {[model |-> m, rows |-> Part(m)] : m \in C}
    BY <2>1 DEF ModelRows
  <2> HIDE DEF C
  <2>3. \A r \in ModelRows(rows) : r.model \in C /\ r.rows = Part(r.model)
    BY <2>2
  <2>4. ASSUME NEW m \in C PROVE \E r \in ModelRows(rows) : r.model = m
    <3>1. [model |-> m, rows |-> Part(m)] \in ModelRows(rows)
      BY <2>2
    <3>2. [model |-> m, rows |-> Part(m)].model = m
      OBVIOUS
    <3> QED BY <3>1, <3>2
  <2> QED BY <2>3, <2>4
<1>6. table = {line[m] : m \in C}
  <2> DEFINE TableLine(r) == [model |-> r.model, calls |-> Cardinality(r.rows), tokens |-> TokensOf(r.rows)]
  <2>1. \A r \in ModelRows(rows) : r.model \in C /\ TableLine(r) = line[r.model]
    <3> HIDE DEF Part, C
    <3> QED BY <1>5
  <2>2. table = {TableLine(r) : r \in ModelRows(rows)}
    OBVIOUS
  <2> HIDE DEF line, TableLine, C
  <2>3. ASSUME NEW row \in table PROVE row \in {line[m] : m \in C}
    <3>1. PICK r \in ModelRows(rows) : row = TableLine(r)
      BY <2>2
    <3> QED BY <2>1, <3>1
  <2>4. ASSUME NEW m \in C PROVE line[m] \in table
    <3>1. PICK r \in ModelRows(rows) : r.model = m
      BY <1>5
    <3> QED BY <2>1, <2>2, <3>1
  <2> QED BY <2>3, <2>4
<1> HIDE DEF C, c, line
<1>7. \A m, o \in C : line[m] = line[o] => m = o
  BY <1>4
<1>8. RowPerClass(table, line, C, rows, c)
  BY <1>3, <1>4, <1>6, <1>7 DEF RowPerClass
<1> QED BY ONLY UsageInv, <1>1, <1>2, <1>8, TableAdds

\* For every selection and page size, in every state that may be reached.
LEMMA TablesAgree == OrderedInv => StatisticsAgree
<1> SUFFICES ASSUME OrderedInv, NEW rows \in Selections, NEW size \in PageSizes
    PROVE  LET first   == Statistics(rows, 1, size)
               page(p) == Statistics(rows, p, size).sessions
               places  == UNION {{p} \X DOMAIN page(p) : p \in 1..first.pages}
               shown   == {page(place[1])[place[2]] : place \in places}
           IN  /\ Cardinality(places) = first.session_count
               /\ Cardinality({row.session_id : row \in shown}) = first.session_count
               /\ first.calls = CallsIn(shown) /\ first.tokens = TokensIn(shown)
               /\ first.calls = CallsIn(first.models) /\ first.tokens = TokensIn(first.models)
  BY DEF StatisticsAgree
<1> DEFINE S == SessionsOf(rows)
           n == Cardinality(S)
           f == Newest(rows)
           pages == TotalPages(rows, size)
           first == Statistics(rows, 1, size)
           page(p) == Statistics(rows, p, size).sessions
           places == UNION {{p} \X DOMAIN page(p) : p \in 1..first.pages}
           shown == {page(place[1])[place[2]] : place \in places}
<1>1. /\ n \in Nat /\ f \in [1..n -> S] /\ \A s \in S : \E i \in 1..n : f[i] = s
      /\ size \in Nat \ {0}
  BY NewestIs, UsageAssumption
<1>2. pages = PagesFor(n, size)
  BY DEF TotalPages, PagesFor
<1>3. pages \in Nat \ {0}
  BY <1>1, <1>2, PagesAre
<1>4. /\ first.calls = Cardinality(rows) /\ first.tokens = TokensOf(rows)
      /\ first.session_count = n /\ first.pages = pages
      /\ first.models = {[model |-> r.model, calls |-> Cardinality(r.rows), tokens |-> TokensOf(r.rows)] :
                           r \in ModelRows(rows)}
  BY DEF Statistics
<1>5. \A p \in 1..pages :
        /\ DOMAIN page(p) = {k \in 1..size : (p - 1) * size + k <= n}
        /\ \A k \in DOMAIN page(p) : page(p)[k] = SessionRow(rows, f[(p - 1) * size + k])
  <2> SUFFICES ASSUME NEW p \in 1..pages
      PROVE  /\ DOMAIN page(p) = {k \in 1..size : (p - 1) * size + k <= n}
             /\ \A k \in DOMAIN page(p) : page(p)[k] = SessionRow(rows, f[(p - 1) * size + k])
    OBVIOUS
  <2> DEFINE found == SessionsOnPage(rows, p, size)
  <2>1. /\ DOMAIN found = {k \in 1..size : (p - 1) * size + k <= n}
        /\ \A k \in DOMAIN found : found[k] = f[(p - 1) * size + k]
    BY PageHolds
  <2>2. ~(p < 1)
    BY <1>3
  <2>3. page(p) = [k \in DOMAIN found |-> SessionRow(rows, found[k])]
    BY <2>2 DEF Statistics
  <2> HIDE DEF found, page, n, f
  <2> QED BY <2>1, <2>3
<1>6. places = {place \in (1..pages) \X (1..size) : (place[1] - 1) * size + place[2] <= n}
  <2> HIDE DEF page, n, pages, first
  <2>1. ASSUME NEW p \in 1..pages, NEW k \in 1..size, (p - 1) * size + k <= n PROVE <<p, k>> \in places
    <3>1. k \in DOMAIN page(p) /\ <<p, k>> \in {p} \X DOMAIN page(p)
      BY <1>5, <2>1
    <3> QED BY <1>4, <3>1
  <2>2. ASSUME NEW place \in places
        PROVE  place \in (1..pages) \X (1..size) /\ (place[1] - 1) * size + place[2] <= n
    <3>1. PICK p \in 1..pages : place \in {p} \X DOMAIN page(p)
      BY <1>4
    <3>2. place = <<p, place[2]>> /\ place[1] = p /\ place[2] \in DOMAIN page(p)
      BY <3>1
    <3>3. place[2] \in 1..size /\ (p - 1) * size + place[2] <= n
      BY <1>5, <3>2
    <3> QED BY <3>2, <3>3
  <2> HIDE DEF places
  <2>3. ASSUME NEW place \in (1..pages) \X (1..size), (place[1] - 1) * size + place[2] <= n PROVE place \in places
    <3>1. place = <<place[1], place[2]>> /\ place[1] \in 1..pages /\ place[2] \in 1..size
      OBVIOUS
    <3>2. <<place[1], place[2]>> \in places
      BY <2>1, <2>3, <3>1
    <3> QED BY <3>1, <3>2
  <2> QED BY <2>2, <2>3
<1>7. places = PlacesFor(n, size)
  BY <1>2, <1>6 DEF PlacesFor
<1> HIDE DEF page, places, pages, first, S, n, f
<1>8. /\ Cardinality(places) = n
      /\ \A place \in places : (place[1] - 1) * size + place[2] \in 1..n
      /\ \A k \in 1..n : \E place \in places : (place[1] - 1) * size + place[2] = k
  BY <1>1, <1>7, PlacesAre
<1>9. \A place \in places :
        page(place[1])[place[2]] = SessionRow(rows, f[(place[1] - 1) * size + place[2]])
  <2> SUFFICES ASSUME NEW place \in places
      PROVE  page(place[1])[place[2]] = SessionRow(rows, f[(place[1] - 1) * size + place[2]])
    OBVIOUS
  <2>1. place[1] \in 1..pages /\ place[2] \in 1..size /\ (place[1] - 1) * size + place[2] <= n
    BY <1>6
  <2> QED BY <1>5, <2>1
<1>10. shown = {SessionRow(rows, s) : s \in S}
  <2>1. \A place \in places : \E s \in S : page(place[1])[place[2]] = SessionRow(rows, s)
    BY <1>1, <1>8, <1>9
  <2>2. \A s \in S : \E place \in places : page(place[1])[place[2]] = SessionRow(rows, s)
    <3> SUFFICES ASSUME NEW s \in S
        PROVE  \E place \in places : page(place[1])[place[2]] = SessionRow(rows, s)
      OBVIOUS
    <3>1. PICK i \in 1..n : f[i] = s
      BY <1>1
    <3>2. PICK place \in places : (place[1] - 1) * size + place[2] = i
      BY <1>8
    <3> QED BY <1>9, <3>1, <3>2
  <2> QED BY <2>1, <2>2
<1>11. UsageInv
  BY DEF OrderedInv
<1>12. /\ CallsIn(shown) = Cardinality(rows) /\ TokensIn(shown) = TokensOf(rows)
       /\ {row.session_id : row \in shown} = S
  BY <1>10, <1>11, SessionsAddUp DEF S
<1>13. CallsIn(first.models) = Cardinality(rows) /\ TokensIn(first.models) = TokensOf(rows)
  BY <1>4, <1>11, ModelsAddUp
<1>14. /\ Cardinality(places) = first.session_count
       /\ Cardinality({row.session_id : row \in shown}) = first.session_count
       /\ first.calls = CallsIn(shown) /\ first.tokens = TokensIn(shown)
       /\ first.calls = CallsIn(first.models) /\ first.tokens = TokensIn(first.models)
  BY <1>4, <1>8, <1>12, <1>13 DEF n
<1> QED BY <1>14 DEF places, first, page

\* What the monitor shows in several tables agrees, whatever was recorded, for every number
\* of sessions, events and sizes of a page: over the pages of statistics() each session has
\* one place, and the calls and tokens by session, and by model, add up to the totals.
THEOREM AlwaysAgree == UsageSpec => []StatisticsAgree
<1>1. UsageInit => OrderedInv
  BY OrderAtFirst
<1>2. OrderedInv /\ [UsageNext]_usageVars => OrderedInv'
  BY OrderStep
<1>3. OrderedInv => StatisticsAgree
  BY TablesAgree
<1> QED BY <1>1, <1>2, <1>3, PTL DEF UsageSpec

-----------------------------------------------------------------------------
(* The web cache.                                                          *)

\* A table of the cache.
IsTable(table) == DOMAIN table \subseteq Key /\ \A k \in DOMAIN table : table[k] \in Row

\* A call does not come from the future.
NowIsPast == \A c \in Caller : calls[c] # Idle => calls[c].now =< clock
\* A row that a get of the same process is about to delete had expired when the get began.
OwnRowsHaveExpired ==
  \A c \in Caller :
    (/\ calls[c].at = "deleting" /\ calls[c].key \in DOMAIN cache
     /\ cache[calls[c].key].router = (c \in Router)) =>
      cache[calls[c].key].expires =< calls[c].now

\* The inductive invariant.
CacheInv == CacheTypeOK /\ NowIsPast /\ OwnRowsHaveExpired

-----------------------------------------------------------------------------
\* The size of a table by the lemmas on sums.
LEMMA SizeIsSum ==
  ASSUME NEW table
  PROVE  SizeOf(table) = SumOf(Sizes(table), DOMAIN table)
  BY Zenon DEF SizeOf, SumOf

\* What is left without some rows, and its size.
LEMMA SizeOfRest ==
  ASSUME NEW table, IsTable(table), NEW keys
  PROVE  /\ IsFiniteSet(DOMAIN table) /\ IsTable(Without(table, keys))
         /\ DOMAIN Without(table, keys) = DOMAIN table \ keys
         /\ \A k \in DOMAIN table \ keys : Without(table, keys)[k] = table[k]
         /\ SizeOf(Without(table, keys)) = SumOf(Sizes(table), DOMAIN table \ keys)
         /\ SizeOf(table) \in Nat /\ SizeOf(Without(table, keys)) \in Nat
         /\ SizeOf(Without(table, keys)) =< SizeOf(table)
<1> DEFINE rest == Without(table, keys)
<1>1. /\ DOMAIN rest = DOMAIN table \ keys
      /\ \A k \in DOMAIN table \ keys : rest[k] = table[k]
  BY DEF Without, Restrict
<1>2. IsFiniteSet(DOMAIN table) /\ IsFiniteSet(DOMAIN rest) /\ DOMAIN rest \in SUBSET DOMAIN table
  <2>1. IsFiniteSet(Key) /\ DOMAIN table \in SUBSET Key /\ DOMAIN rest \in SUBSET Key
    BY <1>1, CacheAssumption DEF IsTable, Key
  <2> QED BY <1>1, <2>1, FS_Subset
<1>3. IsTable(rest)
  BY <1>1 DEF IsTable
<1> HIDE DEF rest
<1>4. \A k \in DOMAIN table : Sizes(table)[k] \in 0..MaxSize
  BY CacheAssumption DEF Sizes, IsTable, Row
<1>5. \A k \in DOMAIN rest : Sizes(rest)[k] = Sizes(table)[k]
  BY <1>1 DEF Sizes
<1>6. SumOf(Sizes(rest), DOMAIN rest) = SumOf(Sizes(table), DOMAIN rest)
  BY <1>2, <1>5, SumOfSame
<1>7. MaxSize \in Nat /\ \A k \in DOMAIN table : Sizes(table)[k] \in Nat
  BY <1>4, CacheAssumption
<1>8. SumOf(Sizes(table), DOMAIN rest) =< SumOf(Sizes(table), DOMAIN table)
  BY <1>2, <1>4, <1>7, SumOfMore
<1>9. SumOf(Sizes(table), DOMAIN table) \in Nat /\ SumOf(Sizes(table), DOMAIN rest) \in Nat
  BY <1>1, <1>2, <1>7, SumOfIsNat
<1>10. SizeOf(rest) = SumOf(Sizes(table), DOMAIN rest) /\ SizeOf(table) = SumOf(Sizes(table), DOMAIN table)
  BY <1>6, SizeIsSum
<1> QED BY <1>1, <1>2, <1>3, <1>8, <1>9, <1>10 DEF rest

\* A row less makes room for at most MaxSize.
LEMMA RoomOf ==
  ASSUME NEW table, IsTable(table), NEW keys \in SUBSET DOMAIN table, NEW before \in SUBSET keys
  PROVE  /\ Cardinality(keys) \in Nat /\ Cardinality(before) \in Nat
         /\ SizeOf(Without(table, before))
              =< SizeOf(Without(table, keys)) + MaxSize * (Cardinality(keys) - Cardinality(before))
<1> DEFINE S == DOMAIN table \ before
           T == DOMAIN table \ keys
<1>1. IsFiniteSet(DOMAIN table)
  BY SizeOfRest
<1>2. /\ IsFiniteSet(keys) /\ IsFiniteSet(before) /\ IsFiniteSet(S)
      /\ T \in SUBSET S /\ S \ T = keys \ before
  <2>1. keys \in SUBSET DOMAIN table /\ before \in SUBSET DOMAIN table /\ S \in SUBSET DOMAIN table
    OBVIOUS
  <2> QED BY <1>1, <2>1, FS_Subset
<1>3. /\ Cardinality(keys) \in Nat /\ Cardinality(before) \in Nat
      /\ Cardinality(keys \ before) = Cardinality(keys) - Cardinality(before)
  <2>1. keys \cap before = before
    OBVIOUS
  <2> QED BY <1>2, <2>1, FS_Difference, FS_CardinalityType
<1>4. MaxSize \in Nat /\ \A k \in S : Sizes(table)[k] \in 0..MaxSize
  BY CacheAssumption DEF Sizes, IsTable, Row
<1>5. /\ SizeOf(Without(table, before)) = SumOf(Sizes(table), S)
      /\ SizeOf(Without(table, keys)) = SumOf(Sizes(table), T)
  BY SizeOfRest
<1> HIDE DEF S, T
<1>6. SumOf(Sizes(table), S) =< SumOf(Sizes(table), T) + MaxSize * Cardinality(S \ T)
  BY <1>2, <1>4, SumOfMore
<1> QED BY <1>2, <1>3, <1>5, <1>6

\* The size does not depend on the times.
LEMMA RowsKeepSize ==
  ASSUME NEW table, NEW other, IsTable(table), DOMAIN other = DOMAIN table,
         \A k \in DOMAIN table : other[k].size = table[k].size
  PROVE  SizeOf(other) = SizeOf(table)
<1>1. IsFiniteSet(DOMAIN table)
  BY SizeOfRest
<1>2. \A k \in DOMAIN table : Sizes(other)[k] = Sizes(table)[k]
  BY DEF Sizes
<1>3. SumOf(Sizes(other), DOMAIN table) = SumOf(Sizes(table), DOMAIN table)
  BY <1>1, <1>2, SumOfSame
<1> QED BY <1>3, SizeIsSum

\* What the eviction takes is as old as anything it leaves, and leaves at most Batch rows too
\* little.
LEMMA EvictedAre ==
  ASSUME NEW table, IsTable(table), NEW keys \in Evicted(table)
  PROVE  /\ SizeOf(Without(table, keys)) =< MaxBytes
         /\ keys # {} =>
              /\ keys \in SUBSET DOMAIN table
              /\ \A k \in keys, l \in DOMAIN table \ keys : table[k].accessed =< table[l].accessed
              /\ SizeOf(Without(table, keys)) + Batch * MaxSize > MaxBytes
<1>1. CASE SizeOf(table) =< MaxBytes
  <2>1. keys = {}
    BY <1>1 DEF Evicted
  <2>2. SizeOf(Without(table, keys)) =< SizeOf(table) /\ SizeOf(table) \in Nat
        /\ SizeOf(Without(table, keys)) \in Nat
    BY SizeOfRest
  <2> QED BY <1>1, <2>1, <2>2, CacheAssumption
<1>2. CASE ~(SizeOf(table) =< MaxBytes)
  <2>1. PICK before \in Oldest(table) :
          /\ keys \in Oldest(table) /\ SizeOf(Without(table, keys)) =< MaxBytes
          /\ before \subseteq keys
          /\ SizeOf(Without(table, before)) > MaxBytes
          /\ Cardinality(keys) = Min({Cardinality(before) + Batch, Cardinality(DOMAIN table)})
    BY <1>2, Zenon DEF Evicted
  <2>2. keys \in SUBSET DOMAIN table /\ before \in SUBSET keys
        /\ \A k \in keys, l \in DOMAIN table \ keys : table[k].accessed =< table[l].accessed
    BY <2>1 DEF Oldest
  <2>3. /\ Cardinality(keys) \in Nat /\ Cardinality(before) \in Nat
        /\ SizeOf(Without(table, before))
             =< SizeOf(Without(table, keys)) + MaxSize * (Cardinality(keys) - Cardinality(before))
    BY <2>2, RoomOf
  <2>4. Cardinality(keys) =< Cardinality(before) + Batch
    <3> DEFINE a == Cardinality(before) + Batch
               b == Cardinality(DOMAIN table)
    <3>1. a \in Nat /\ b \in Nat
      <4>1. IsFiniteSet(DOMAIN table)
        BY SizeOfRest
      <4>2. Cardinality(DOMAIN table) \in Nat
        BY <4>1, FS_CardinalityType
      <4> QED BY <2>3, <4>2, CacheAssumption
    <3>2. {a, b} \subseteq Nat /\ {a, b} # {}
      BY <3>1
    <3>3. Min({a, b}) =< a
      BY <3>2, LeastIsOne
    <3> QED BY <2>1, <3>3
  <2>5. MaxSize * (Cardinality(keys) - Cardinality(before)) =< Batch * MaxSize
    <3> DEFINE d == Cardinality(keys) - Cardinality(before)
    <3>1. d \in Int /\ d =< Batch /\ MaxSize \in Nat /\ Batch \in Nat
      BY <2>3, <2>4, CacheAssumption
    <3> HIDE DEF d
    <3>2. MaxSize * d =< Batch * MaxSize
      BY <3>1
    <3> QED BY <3>2 DEF d
  <2>6. SizeOf(Without(table, before)) \in Nat /\ SizeOf(Without(table, keys)) \in Nat
        /\ MaxSize * (Cardinality(keys) - Cardinality(before)) \in Int /\ Batch * MaxSize \in Int
        /\ MaxBytes \in Nat
    <3>1. SizeOf(Without(table, before)) \in Nat /\ SizeOf(Without(table, keys)) \in Nat
      BY SizeOfRest
    <3> QED BY <2>3, <3>1, CacheAssumption
  <2>7. SizeOf(Without(table, keys)) + Batch * MaxSize > MaxBytes
    BY <2>1, <2>3, <2>5, <2>6
  <2> QED BY <2>1, <2>2, <2>7
<1> QED BY <1>1, <1>2

\* An empty cache.
LEMMA CacheInvAtFirst == CacheInit => CacheInv
<1> SUFFICES ASSUME CacheInit PROVE CacheInv
  OBVIOUS
<1>1. DOMAIN cache = {}
  BY DEF CacheInit
<1>2. SizeOf(cache) = 0
  BY <1>1, SizeIsSum, SumOfNothing
<1>3. \A c \in Caller : calls[c] = Idle
  BY DEF CacheInit
<1>4. CacheTypeOK
  <2>1. MaxBytes \in Nat /\ MaxTime \in Nat
    BY CacheAssumption
  <2>2. calls \in [Caller -> Call \cup {Idle}]
    BY DEF CacheInit
  <2> QED BY <1>1, <1>2, <2>1, <2>2 DEF CacheInit, CacheTypeOK
<1> QED BY <1>3, <1>4 DEF CacheInv, NowIsPast, OwnRowsHaveExpired, Idle

\* A call goes on.
LEMMA MovesAre ==
  ASSUME CacheTypeOK, NEW c \in Caller, calls[c] \in Call,
         NEW place \in {"looking", "deleting", "touching", "fetching", "storing"}, MoveTo(c, place)
  PROVE  /\ calls' \in [Caller -> Call \cup {Idle}]
         /\ \A d \in Caller : d # c => calls'[d] = calls[d]
         /\ calls'[c].at = place /\ calls'[c].key = calls[c].key /\ calls'[c].now = calls[c].now
  BY DEF CacheTypeOK, MoveTo, Call

\* A call returns.
LEMMA ReturnsAre ==
  ASSUME CacheTypeOK, NEW c \in Caller, Return(c)
  PROVE  /\ calls' \in [Caller -> Call \cup {Idle}]
         /\ \A d \in Caller : d # c => calls'[d] = calls[d]
         /\ calls'[c] = Idle
  BY DEF CacheTypeOK, Return

\* A caller that is not idle is in a call.
LEMMA BusyIsCall ==
  ASSUME CacheTypeOK, NEW c \in Caller
  PROVE  (calls[c] # Idle \/ calls[c].at # "idle") => calls[c] \in Call /\ calls[c] # Idle
  BY DEF CacheTypeOK, Idle

\* The table after INSERT OR REPLACE and the DELETE that follows it.
LEMMA InsertedIs ==
  ASSUME CacheInv, NEW c \in Caller, calls[c].at = "storing", NEW size \in 1..MaxSize
  PROVE  LET table == Inserted(c, size)
             key == calls[c].key
             now == calls[c].now
         IN  /\ IsTable(table) /\ key \in DOMAIN table
             /\ table[key].accessed = now /\ table[key].router = (c \in Router)
             /\ now =< clock
             /\ \A k \in DOMAIN table : k # key => k \in DOMAIN cache /\ table[k] = cache[k]
             /\ \A k \in DOMAIN cache \ DOMAIN table : cache[k].expires =< now
<1> DEFINE key == calls[c].key
           now == calls[c].now
           row == RowOf(c, size)
           all == [k \in DOMAIN cache \cup {key} |-> IF k = key THEN row ELSE cache[k]]
           gone == {k \in DOMAIN all : all[k].expires <= now}
<1>1. calls[c] \in Call /\ calls[c] # Idle
  BY BusyIsCall DEF CacheInv
<1>2. key \in Key /\ now \in 0..MaxTime /\ now =< clock
  BY <1>1 DEF Call, CacheInv, NowIsPast
<1>3. row \in Row /\ row.expires > now /\ row.accessed = now /\ row.router = (c \in Router)
  <2>1. Ttl[key] \in Nat /\ Ttl[key] > 0 /\ MaxTime \in Nat
    BY <1>2, CacheAssumption DEF Key
  <2> QED BY <1>2, <2>1 DEF RowOf, Row
<1>4. DOMAIN cache \subseteq Key /\ \A k \in DOMAIN cache : cache[k] \in Row
  BY DEF CacheInv, CacheTypeOK
<1>5. Inserted(c, size) = Without(all, gone)
  BY DEF Inserted
<1> HIDE DEF row, key, now
<1>6. /\ DOMAIN all = DOMAIN cache \cup {key} /\ all[key] = row
      /\ \A k \in DOMAIN cache : k # key => all[k] = cache[k]
  OBVIOUS
<1>7. IsTable(all)
  BY <1>2, <1>3, <1>4, <1>6 DEF IsTable
<1>8. key \notin gone
  <2>1. ~(row.expires <= now)
    BY <1>2, <1>3 DEF Row
  <2> QED BY <1>6, <2>1
<1>9. \A k \in DOMAIN all : k \in gone <=> all[k].expires <= now
  OBVIOUS
<1> HIDE DEF all, gone
<1>10. /\ IsTable(Without(all, gone)) /\ DOMAIN Without(all, gone) = DOMAIN all \ gone
       /\ \A k \in DOMAIN all \ gone : Without(all, gone)[k] = all[k]
  BY <1>7, SizeOfRest
<1> DEFINE table == Without(all, gone)
<1>11. /\ IsTable(table) /\ DOMAIN table = DOMAIN all \ gone
       /\ \A k \in DOMAIN all \ gone : table[k] = all[k]
  BY <1>10
<1> HIDE DEF table
<1>12. key \in DOMAIN table /\ table[key] = row
  BY <1>6, <1>8, <1>11
<1>13. \A k \in DOMAIN table : k # key => k \in DOMAIN cache /\ table[k] = cache[k]
  BY <1>6, <1>11
<1>14. \A k \in DOMAIN cache \ DOMAIN table : cache[k].expires =< now
  BY <1>6, <1>8, <1>9, <1>11
<1> QED BY <1>2, <1>3, <1>5, <1>11, <1>12, <1>13, <1>14 DEF table, key, now

\* A step of one call that leaves the table alone.
LEMMA CallMoves ==
  ASSUME CacheInv, NEW c \in Caller, UNCHANGED <<cache, clock>>,
         calls' \in [Caller -> Call \cup {Idle}], \A d \in Caller : d # c => calls'[d] = calls[d],
         \/ calls'[c] = Idle
         \/ /\ calls'[c].now =< clock
            /\ (calls'[c].at = "deleting" /\ calls'[c].key \in DOMAIN cache) =>
                 cache[calls'[c].key].expires =< calls'[c].now
  PROVE  CacheInv'
<1>1. CacheTypeOK'
  BY DEF CacheInv, CacheTypeOK
<1>2. NowIsPast'
  BY DEF CacheInv, NowIsPast
<1>3. OwnRowsHaveExpired'
  <2> SUFFICES ASSUME NEW d \in Caller, calls'[d].at = "deleting", calls'[d].key \in DOMAIN cache,
                      cache[calls'[d].key].router = (d \in Router)
               PROVE  cache[calls'[d].key].expires =< calls'[d].now
    BY DEF OwnRowsHaveExpired
  <2>1. CASE d = c
    BY <2>1 DEF Idle
  <2>2. CASE d # c
    BY <2>2 DEF CacheInv, OwnRowsHaveExpired
  <2> QED BY <2>1, <2>2
<1> QED BY <1>1, <1>2, <1>3 DEF CacheInv

\* A step that takes rows away, or changes no more of them than their time of use.
LEMMA TableShrinks ==
  ASSUME CacheInv, NEW c \in Caller, UNCHANGED clock,
         IsTable(cache'), SizeOf(cache') =< MaxBytes, DOMAIN cache' \subseteq DOMAIN cache,
         \A k \in DOMAIN cache' : cache'[k].expires = cache[k].expires /\ cache'[k].router = cache[k].router,
         calls' \in [Caller -> Call \cup {Idle}], \A d \in Caller : d # c => calls'[d] = calls[d],
         calls'[c] = Idle \/ (calls'[c].now =< clock /\ calls'[c].at # "deleting")
  PROVE  CacheInv'
<1>1. CacheTypeOK'
  BY DEF CacheInv, CacheTypeOK, IsTable
<1>2. NowIsPast'
  BY DEF CacheInv, NowIsPast
<1>3. OwnRowsHaveExpired'
  <2> SUFFICES ASSUME NEW d \in Caller, calls'[d].at = "deleting", calls'[d].key \in DOMAIN cache',
                      cache'[calls'[d].key].router = (d \in Router)
               PROVE  cache'[calls'[d].key].expires =< calls'[d].now
    BY DEF OwnRowsHaveExpired
  <2>1. d # c
    BY DEF Idle
  <2> QED BY <2>1 DEF CacheInv, OwnRowsHaveExpired
<1> QED BY <1>1, <1>2, <1>3 DEF CacheInv

\* Every step keeps the invariant.
LEMMA CacheStep == CacheInv /\ [CacheNext]_cacheVars => CacheInv'
<1> SUFFICES ASSUME CacheInv, [CacheNext]_cacheVars PROVE CacheInv'
  OBVIOUS
<1>0. /\ CacheTypeOK /\ IsTable(cache) /\ clock \in 0..MaxTime /\ MaxTime \in Nat
      /\ MaxHops \in Nat \ {0} /\ MaxBytes \in Nat
      /\ calls \in [Caller -> Call \cup {Idle}] /\ SizeOf(cache) =< MaxBytes
  BY CacheAssumption DEF CacheInv, CacheTypeOK, IsTable
<1>1. ASSUME NEW c \in Caller, NEW keys \in SUBSET Key, Asks(c, keys) PROVE CacheInv'
  <2>1. PICK k \in keys : calls' = [calls EXCEPT ![c] = [at |-> "looking", key |-> k, now |-> clock, hops |-> 0]]
    BY <1>1 DEF Asks
  <2>2. [at |-> "looking", key |-> k, now |-> clock, hops |-> 0] \in Call
    BY <1>0, <2>1 DEF Call
  <2>3. /\ calls' \in [Caller -> Call \cup {Idle}] /\ \A d \in Caller : d # c => calls'[d] = calls[d]
        /\ calls'[c] = [at |-> "looking", key |-> k, now |-> clock, hops |-> 0]
    BY <1>0, <2>1, <2>2
  <2>4. calls'[c].now =< clock /\ calls'[c].at # "deleting"
    BY <1>0, <2>3
  <2> QED BY <1>1, <2>3, <2>4, CallMoves DEF Asks
<1>2. ASSUME NEW c \in Caller, Looks(c) PROVE CacheInv'
  <2> DEFINE key == calls[c].key
             place == IF key \notin DOMAIN cache THEN "fetching"
                      ELSE IF cache[key].expires <= calls[c].now THEN "deleting" ELSE "touching"
  <2>1. calls[c] \in Call /\ calls[c] # Idle
    BY <1>0, <1>2, BusyIsCall DEF Looks
  <2>2. MoveTo(c, place) /\ place \in {"looking", "deleting", "touching", "fetching", "storing"}
    BY <1>2 DEF Looks
  <2>3. /\ calls' \in [Caller -> Call \cup {Idle}] /\ \A d \in Caller : d # c => calls'[d] = calls[d]
        /\ calls'[c].at = place /\ calls'[c].key = key /\ calls'[c].now = calls[c].now
    BY <1>0, <2>1, <2>2, MovesAre
  <2>4. place = "deleting" => key \in DOMAIN cache /\ cache[key].expires =< calls[c].now
    OBVIOUS
  <2>5. calls[c].now =< clock
    BY <2>1 DEF CacheInv, NowIsPast
  <2> HIDE DEF place, key
  <2> QED BY <1>2, <2>3, <2>4, <2>5, CallMoves DEF Looks
<1>3. ASSUME NEW c \in Caller, Deletes(c) PROVE CacheInv'
  <2>1. calls[c] \in Call /\ calls[c] # Idle
    BY <1>0, <1>3, BusyIsCall DEF Deletes
  <2>2. /\ calls' \in [Caller -> Call \cup {Idle}] /\ \A d \in Caller : d # c => calls'[d] = calls[d]
        /\ calls'[c].at = "fetching" /\ calls'[c].now = calls[c].now
    BY <1>0, <1>3, <2>1, MovesAre DEF Deletes
  <2>3. calls[c].now =< clock
    BY <2>1 DEF CacheInv, NowIsPast
  <2>4. cache' = Without(cache, {calls[c].key}) /\ UNCHANGED clock
    BY <1>3 DEF Deletes
  <2>5. /\ IsTable(cache') /\ DOMAIN cache' = DOMAIN cache \ {calls[c].key}
        /\ \A k \in DOMAIN cache \ {calls[c].key} : cache'[k] = cache[k]
        /\ SizeOf(cache') \in Nat /\ SizeOf(cache) \in Nat /\ SizeOf(cache') =< SizeOf(cache)
    <3> DEFINE gone == {calls[c].key}
               rest == Without(cache, gone)
    <3>1. /\ IsTable(rest) /\ DOMAIN rest = DOMAIN cache \ gone
          /\ \A k \in DOMAIN cache \ gone : rest[k] = cache[k]
          /\ SizeOf(cache) \in Nat /\ SizeOf(rest) \in Nat /\ SizeOf(rest) =< SizeOf(cache)
      <4> HIDE DEF gone
      <4> QED BY <1>0, SizeOfRest
    <3>2. cache' = rest
      BY <2>4
    <3> HIDE DEF rest
    <3> QED BY <3>1, <3>2
  <2>6. SizeOf(cache') =< MaxBytes
    BY <1>0, <2>5
  <2> QED BY <2>2, <2>3, <2>4, <2>5, <2>6, TableShrinks
<1>4. ASSUME NEW c \in Caller, Touches(c) PROVE CacheInv'
  <2>1. calls[c] \in Call /\ calls[c] # Idle
    BY <1>0, <1>4, BusyIsCall DEF Touches
  <2>2. /\ calls' \in [Caller -> Call \cup {Idle}] /\ \A d \in Caller : d # c => calls'[d] = calls[d]
        /\ calls'[c] = Idle
    BY <1>0, <1>4, ReturnsAre DEF Touches
  <2>3. /\ DOMAIN cache' = DOMAIN cache
        /\ \A k \in DOMAIN cache :
             cache'[k] = IF k = calls[c].key THEN [cache[k] EXCEPT !.accessed = calls[c].now] ELSE cache[k]
    BY <1>4 DEF Touches
  <2>4. calls[c].now \in 0..MaxTime
    BY <2>1 DEF Call
  <2>5. \A k \in DOMAIN cache : /\ cache'[k] \in Row /\ cache'[k].size = cache[k].size
                               /\ cache'[k].expires = cache[k].expires /\ cache'[k].router = cache[k].router
    BY <1>0, <2>3, <2>4 DEF IsTable, Row
  <2>6. IsTable(cache') /\ SizeOf(cache') = SizeOf(cache)
    BY <1>0, <2>3, <2>5, RowsKeepSize DEF IsTable
  <2> QED BY <1>0, <1>4, <2>2, <2>3, <2>5, <2>6, TableShrinks DEF Touches
<1>5. ASSUME NEW c \in Caller, Redirected(c) PROVE CacheInv'
  <2>1. calls[c] \in Call /\ calls[c] # Idle
    BY <1>0, <1>5, BusyIsCall DEF Redirected
  <2>2. calls[c].hops + 1 \in 0..MaxHops /\ calls' = [calls EXCEPT ![c].hops = @ + 1]
    BY <1>0, <1>5, <2>1 DEF Redirected, Call
  <2>3. /\ calls' \in [Caller -> Call \cup {Idle}] /\ \A d \in Caller : d # c => calls'[d] = calls[d]
        /\ calls'[c].at = "fetching" /\ calls'[c].now = calls[c].now
    BY <1>0, <1>5, <2>1, <2>2 DEF Redirected, Call
  <2>4. calls[c].now =< clock
    BY <2>1 DEF CacheInv, NowIsPast
  <2> QED BY <1>5, <2>3, <2>4, CallMoves DEF Redirected
<1>6. ASSUME NEW c \in Caller, Fetched(c) PROVE CacheInv'
  <2>1. calls[c] \in Call /\ calls[c] # Idle
    BY <1>0, <1>6, BusyIsCall DEF Fetched
  <2>2. /\ calls' \in [Caller -> Call \cup {Idle}] /\ \A d \in Caller : d # c => calls'[d] = calls[d]
        /\ calls'[c].at = "storing" /\ calls'[c].now = clock
    BY <1>0, <1>6, <2>1 DEF Fetched, Call
  <2>3. calls'[c].now =< clock /\ calls'[c].at # "deleting"
    BY <1>0, <2>2
  <2> QED BY <1>6, <2>2, <2>3, CallMoves DEF Fetched
<1>7. ASSUME NEW c \in Caller, Fails(c) PROVE CacheInv'
  BY <1>0, <1>7, ReturnsAre, CallMoves DEF Fails
<1>8. ASSUME NEW c \in Caller, Puts(c) PROVE CacheInv'
  <2>0. PICK size \in 1..MaxSize :
          \E keys \in Evicted(Inserted(c, size)) : cache' = Without(Inserted(c, size), keys)
    BY <1>8 DEF Puts
  <2>1. PICK keys \in Evicted(Inserted(c, size)) : cache' = Without(Inserted(c, size), keys)
    BY <2>0
  <2> DEFINE table == Inserted(c, size)
             key == calls[c].key
  <2>2. /\ IsTable(table) /\ table[key].router = (c \in Router)
        /\ \A k \in DOMAIN table : k # key => k \in DOMAIN cache /\ table[k] = cache[k]
    BY <1>8, InsertedIs DEF Puts
  <2> HIDE DEF table, key
  <2>3. cache' = Without(table, keys) /\ keys \in Evicted(table)
    BY <2>1 DEF table
  <2>4. /\ IsTable(cache') /\ DOMAIN cache' = DOMAIN table \ keys
        /\ \A k \in DOMAIN table \ keys : cache'[k] = table[k]
    BY <2>2, <2>3, SizeOfRest
  <2>5. SizeOf(cache') =< MaxBytes
    BY <2>2, <2>3, EvictedAre
  <2>6. /\ calls' \in [Caller -> Call \cup {Idle}] /\ \A d \in Caller : d # c => calls'[d] = calls[d]
        /\ calls'[c] = Idle /\ clock' = clock
    BY <1>0, <1>8, ReturnsAre DEF Puts
  <2>7. CacheTypeOK' /\ NowIsPast'
    BY <1>0, <2>4, <2>5, <2>6 DEF CacheTypeOK, IsTable, CacheInv, NowIsPast
  <2>8. OwnRowsHaveExpired'
    <3> SUFFICES ASSUME NEW d \in Caller, calls'[d].at = "deleting", calls'[d].key \in DOMAIN cache',
                        cache'[calls'[d].key].router = (d \in Router)
                 PROVE  cache'[calls'[d].key].expires =< calls'[d].now
      BY DEF OwnRowsHaveExpired
    <3>1. d # c /\ calls'[d] = calls[d]
      BY <2>6 DEF Idle
    <3>2. ~SameProcess(c, d)
      BY <1>8, <3>1 DEF Puts, LockFree
    <3>3. calls[d].key # key
      BY <2>2, <2>4, <3>1, <3>2 DEF SameProcess
    <3>4. calls[d].key \in DOMAIN cache /\ cache'[calls[d].key] = cache[calls[d].key]
      BY <2>2, <2>4, <3>1, <3>3
    <3> QED BY <3>1, <3>4 DEF CacheInv, OwnRowsHaveExpired
  <2> QED BY <2>7, <2>8 DEF CacheInv
<1>9. ASSUME Tick PROVE CacheInv'
  <2>1. clock' = clock + 1 /\ clock' \in 0..MaxTime /\ UNCHANGED <<cache, calls>>
    BY <1>0, <1>9 DEF Tick
  <2>2. NowIsPast'
    <3> SUFFICES ASSUME NEW d \in Caller, calls[d] # Idle PROVE calls[d].now =< clock'
      BY <2>1 DEF NowIsPast
    <3>1. calls[d] \in Call /\ calls[d].now =< clock
      BY BusyIsCall DEF CacheInv, NowIsPast
    <3> QED BY <1>0, <2>1, <3>1 DEF Call
  <2> QED BY <2>1, <2>2 DEF CacheInv, CacheTypeOK, OwnRowsHaveExpired
<1>10. CASE UNCHANGED cacheVars
  BY <1>10 DEF cacheVars, CacheInv, CacheTypeOK, NowIsPast, OwnRowsHaveExpired
<1> QED
  BY <1>1, <1>2, <1>3, <1>4, <1>5, <1>6, <1>7, <1>8, <1>9, <1>10
  DEF CacheNext, WebSearch, FetchPage, Key

-----------------------------------------------------------------------------
\* Why a row that has not expired may be gone after a step.
Survives(k) ==
  cache[k].expires > clock =>
    \/ MakesRoom(k)
    \/ \E c \in Caller : /\ calls[c].at = "deleting" /\ calls[c].key = k
                         /\ (c \in Router) # cache[k].router

\* A get deletes a row that has expired, or that another process has put since.
LEMMA DeletesSurvived ==
  ASSUME CacheInv, NEW c \in Caller, Deletes(c), NEW k \in DOMAIN cache \ DOMAIN cache'
  PROVE  Survives(k)
<1> SUFFICES ASSUME cache[k].expires > clock, (c \in Router) = cache[k].router PROVE FALSE
  <2>1. k = calls[c].key
    BY DEF Deletes, Without, Restrict
  <2> QED BY <2>1 DEF Survives, Deletes
<1>1. k = calls[c].key /\ calls[c].at = "deleting"
  BY DEF Deletes, Without, Restrict
<1>2. cache[k].expires =< calls[c].now
  BY <1>1, Zenon DEF CacheInv, OwnRowsHaveExpired
<1>3. calls[c] \in Call /\ calls[c].now =< clock
  BY <1>1, BusyIsCall DEF CacheInv, NowIsPast
<1>4. cache[k].expires \in Nat /\ calls[c].now \in 0..MaxTime /\ clock \in 0..MaxTime /\ MaxTime \in Nat
  BY <1>3, CacheAssumption DEF CacheInv, CacheTypeOK, Row, Call
<1> QED BY <1>2, <1>3, <1>4

\* A put evicts expired rows, and then the oldest until there is room.
LEMMA PutsSurvived ==
  ASSUME CacheInv, NEW c \in Caller, Puts(c), NEW k \in DOMAIN cache \ DOMAIN cache'
  PROVE  Survives(k)
<1> SUFFICES ASSUME cache[k].expires > clock PROVE MakesRoom(k)
  BY DEF Survives
<1>1. PICK size \in 1..MaxSize :
        \E keys \in Evicted(Inserted(c, size)) : cache' = Without(Inserted(c, size), keys)
  BY DEF Puts
<1>2. PICK keys \in Evicted(Inserted(c, size)) : cache' = Without(Inserted(c, size), keys)
  BY <1>1
<1> DEFINE table == Inserted(c, size)
           key == calls[c].key
           now == calls[c].now
<1>3. /\ IsTable(table) /\ key \in DOMAIN table /\ table[key].accessed = now /\ now =< clock
      /\ \A l \in DOMAIN table : l # key => l \in DOMAIN cache /\ table[l] = cache[l]
      /\ \A l \in DOMAIN cache \ DOMAIN table : cache[l].expires =< now
  BY InsertedIs DEF Puts
<1>4. calls[c].at = "storing" /\ calls[c] \in Call
  BY BusyIsCall DEF Puts, CacheInv
<1> HIDE DEF table, key, now
<1>5. cache' = Without(table, keys) /\ keys \in Evicted(table)
  BY <1>2 DEF table
<1>6. /\ DOMAIN cache' = DOMAIN table \ keys
      /\ \A l \in DOMAIN table \ keys : cache'[l] = table[l]
  BY <1>5 DEF Without, Restrict
<1>7. k \in DOMAIN table
  <2> SUFFICES ASSUME k \notin DOMAIN table PROVE FALSE
    OBVIOUS
  <2>1. cache[k].expires =< now
    BY <1>3
  <2>2. cache[k].expires \in Nat /\ now \in 0..MaxTime /\ clock \in 0..MaxTime /\ MaxTime \in Nat
    BY <1>4, CacheAssumption DEF CacheInv, CacheTypeOK, Row, Call, now
  <2> QED BY <1>3, <2>1, <2>2
<1>8. k \in keys
  BY <1>6, <1>7
<1>9. /\ \A l \in DOMAIN table \ keys : table[k].accessed =< table[l].accessed
      /\ SizeOf(Without(table, keys)) + Batch * MaxSize > MaxBytes
  BY <1>3, <1>5, <1>8, EvictedAre
<1>10. SizeOf(cache') + Batch * MaxSize > MaxBytes
  BY <1>5, <1>9
<1>11. CASE k = key
  <2>1. calls[c].key = k /\ \A l \in DOMAIN cache' : calls[c].now =< cache'[l].accessed
    BY <1>3, <1>6, <1>9, <1>11 DEF key, now
  <2> QED BY <1>4, <1>10, <2>1 DEF MakesRoom
<1>12. CASE k # key
  <2>1. \A l \in DOMAIN cache' : cache[k].accessed =< cache'[l].accessed
    BY <1>3, <1>6, <1>7, <1>9, <1>12
  <2> QED BY <1>10, <2>1 DEF MakesRoom
<1> QED BY <1>11, <1>12

\* No other step takes a row.
LEMMA SurvivedStep ==
  CacheInv /\ [CacheNext]_cacheVars => [\A k \in DOMAIN cache \ DOMAIN cache' : Survives(k)]_cacheVars
<1> SUFFICES ASSUME CacheInv, CacheNext, NEW k \in DOMAIN cache \ DOMAIN cache' PROVE Survives(k)
  OBVIOUS
<1>1. ASSUME NEW c \in Caller, Touches(c) PROVE FALSE
  BY <1>1 DEF Touches
<1>2. ASSUME UNCHANGED cache PROVE FALSE
  BY <1>2
<1> QED
  BY <1>1, <1>2, DeletesSurvived, PutsSurvived
  DEF CacheNext, WebSearch, FetchPage, Asks, Looks, Redirected, Fetched, Fails, Tick

\* put and its eviction, by any callers of both processes: no fresh row is lost to an older one.
THEOREM AlwaysSurvive == CacheSpec => FreshRowsSurvive
<1>1. CacheInit => CacheInv
  BY CacheInvAtFirst
<1>2. CacheInv /\ [CacheNext]_cacheVars => CacheInv'
  BY CacheStep
<1>3. CacheInv /\ [CacheNext]_cacheVars => [\A k \in DOMAIN cache \ DOMAIN cache' : Survives(k)]_cacheVars
  BY SurvivedStep
<1> QED BY <1>1, <1>2, <1>3, PTL DEF CacheSpec, FreshRowsSurvive, Survives

-----------------------------------------------------------------------------
(* The stores together.                                                    *)

StoresInv == OrderedInv /\ AdoptionInv /\ CacheInv

\* While one store runs, the others stay as they are.
LEMMA StoresStep ==
  StoresInv /\ [StoresNext]_<<usageVars, adoptionVars, cacheVars, part>> => StoresInv'
<1> SUFFICES ASSUME StoresInv, [StoresNext]_<<usageVars, adoptionVars, cacheVars, part>>
             PROVE  StoresInv'
  OBVIOUS
<1>1. /\ [UsageNext]_usageVars
      /\ [AdoptionNext]_adoptionVars
      /\ [CacheNext]_cacheVars
  BY Zenon DEF StoresNext
<1> QED
  BY <1>1, OrderStep, AdoptionStep, CacheStep DEF StoresInv

\* The three stores as the runs check them: well-formed, the titles kept, the statistics in
\* agreement, and the file of a release before versions recoverable.
THEOREM StoresAreSafe ==
  StoresSpec => [](StoresTypeOK /\ TitlesAreKept /\ StatisticsAgree /\ AdoptionIsRecoverable)
<1>1. StoresInit => StoresInv
  BY OrderAtFirst, InitiallyRecoverable, CacheInvAtFirst DEF StoresInit, StoresInv
<1>2. StoresInv => StoresTypeOK /\ TitlesAreKept /\ StatisticsAgree /\ AdoptionIsRecoverable
  BY InvIsTitled, TablesAgree, InvIsRecoverable
     DEF StoresInv, OrderedInv, StoresTypeOK, UsageInv, AdoptionInv, CacheInv
<1> QED
  BY <1>1, <1>2, StoresStep, PTL DEF StoresSpec
=============================================================================
