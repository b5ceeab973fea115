-------------------------- MODULE ConversationProofs --------------------------
(***************************************************************************)
(* What the store promises, for any sessions, messages and bounds: it is    *)
(* well-formed and bounded; answers stay with their session; the history of *)
(* an answer is the conversation up to it; prune takes the oldest rows; and *)
(* the answer just given can be continued.  But for the first, requests do  *)
(* not use up their web rounds: that every answer has an id of its own is   *)
(* what the proofs need, and LimitId is not such an id.                     *)
(***************************************************************************)
EXTENDS Conversation, CommonLemmas, SequenceTheorems

-----------------------------------------------------------------------------
(* Lemmas: what is said for the first time, and in which order.            *)

\* What is said first does not depend on what is said of it.
LEMMA SaidIs ==
  ASSUME NEW S, NEW x \in Seq(S), NEW a, NEW b
  PROVE  /\ SaidBefore(x, a, b) => a \in ToSet(x)
         /\ b \notin ToSet(x) => (SaidBefore(x, a, b) <=> a \in ToSet(x))
         /\ SaidBefore(x, a, b) <=> \E i \in 1..Len(x) : x[i] = a /\ \A j \in 1..i : x[j] # b
         /\ a \in ToSet(x) <=> \E i \in 1..Len(x) : x[i] = a
<1>1. DOMAIN x = 1..Len(x) /\ Len(x) \in Nat
  BY LenProperties
<1>2. ToSet(x) = {x[i] : i \in 1..Len(x)}
  BY <1>1 DEF ToSet
<1>3. SaidBefore(x, a, b) <=> \E i \in 1..Len(x) : x[i] = a /\ \A j \in 1..i : x[j] # b
  BY <1>1 DEF SaidBefore
<1>4. \A i \in 1..Len(x) : \A j \in 1..i : j \in 1..Len(x)
  BY <1>1
<1> QED BY <1>2, <1>3, <1>4

\* Something is said at some place.
LEMMA IsSaid ==
  ASSUME NEW S, NEW x \in Seq(S), NEW a
  PROVE  a \in ToSet(x) <=> \E i \in 1..Len(x) : x[i] = a
  BY SaidIs

\* Something is said at a place up to which the other one is not.
LEMMA SaidFirst ==
  ASSUME NEW S, NEW x \in Seq(S), NEW a, NEW b
  PROVE  SaidBefore(x, a, b) <=> \E i \in 1..Len(x) : x[i] = a /\ \A j \in 1..i : x[j] # b
  BY SaidIs

\* The order in which two sequences say something for the first time.
LEMMA SameIs ==
  ASSUME NEW S, NEW x \in Seq(S), NEW T, NEW y \in Seq(T)
  PROVE  SameConversation(x, y) <=>
           /\ ToSet(x) = ToSet(y)
           /\ \A a, b : SaidBefore(x, a, b) <=> SaidBefore(y, a, b)
<1>1. ASSUME SameConversation(x, y), NEW a, NEW b
      PROVE  SaidBefore(x, a, b) <=> SaidBefore(y, a, b)
  <2>1. ToSet(x) = ToSet(y)
    BY <1>1 DEF SameConversation
  <2>2. CASE a \notin ToSet(x)
    BY <2>1, <2>2, SaidIs
  <2>3. CASE b \notin ToSet(x)
    <3>1. SaidBefore(x, a, b) <=> a \in ToSet(x)
      BY <2>3, SaidIs
    <3>2. SaidBefore(y, a, b) <=> a \in ToSet(y)
      BY <2>1, <2>3, SaidIs
    <3> QED BY <2>1, <3>1, <3>2
  <2>4. CASE a \in ToSet(x) /\ b \in ToSet(x)
    BY <1>1, <2>4 DEF SameConversation
  <2> QED BY <2>2, <2>3, <2>4
<1>2. SameConversation(x, y) => ToSet(x) = ToSet(y)
  BY DEF SameConversation
<1>3. (ToSet(x) = ToSet(y) /\ \A a, b : SaidBefore(x, a, b) <=> SaidBefore(y, a, b))
        => SameConversation(x, y)
  BY DEF SameConversation
<1> QED BY <1>1, <1>2, <1>3

\* A conversation is the same as itself.
LEMMA SameAsItself ==
  ASSUME NEW S, NEW x \in Seq(S) PROVE SameConversation(x, x)
  BY SameIs

\* Two that are the same as a third one are the same.
LEMMA SameAsThird ==
  ASSUME NEW S, NEW x \in Seq(S), NEW y \in Seq(S), NEW z \in Seq(S),
         SameConversation(x, y), SameConversation(y, z)
  PROVE  SameConversation(x, z)
  BY SameIs

\* What is said after more has been said.
LEMMA SaidLater ==
  ASSUME NEW S, NEW x \in Seq(S), NEW y \in Seq(S)
  PROVE  /\ ToSet(x \o y) = ToSet(x) \cup ToSet(y)
         /\ \A a, b : SaidBefore(x \o y, a, b) <=>
              SaidBefore(x, a, b) \/ (b \notin ToSet(x) /\ SaidBefore(y, a, b))
<1> DEFINE z == x \o y
           n == Len(x)
           k == Len(y)
<1>1. /\ z \in Seq(S) /\ Len(z) = n + k /\ n \in Nat /\ k \in Nat
      /\ \A i \in 1..n : z[i] = x[i]
      /\ \A i \in 1..k : z[n + i] = y[i]
  BY PairIs
<1> HIDE DEF z
<1>2. \A a : a \in ToSet(z) <=> a \in ToSet(x) \/ a \in ToSet(y)
  <2> SUFFICES ASSUME NEW a PROVE a \in ToSet(z) <=> a \in ToSet(x) \/ a \in ToSet(y)
    OBVIOUS
  <2>1. /\ a \in ToSet(z) <=> \E i \in 1..Len(z) : z[i] = a
        /\ a \in ToSet(x) <=> \E i \in 1..n : x[i] = a
        /\ a \in ToSet(y) <=> \E i \in 1..k : y[i] = a
    BY <1>1, IsSaid, Zenon
  <2> HIDE DEF n, k
  <2>2. \A i \in 1..n + k : i \in 1..n \/ (i - n \in 1..k /\ i = n + (i - n))
    BY <1>1
  <2>3. \A i \in 1..k : n + i \in 1..n + k
    BY <1>1
  <2>4. \A i \in 1..n : i \in 1..n + k
    BY <1>1
  <2>5. ASSUME NEW i \in 1..Len(z), z[i] = a PROVE a \in ToSet(x) \/ a \in ToSet(y)
    <3>1. CASE i \in 1..n
      BY <1>1, <2>1, <2>5, <3>1
    <3>2. CASE i \notin 1..n
      <4>1. i - n \in 1..k /\ i = n + (i - n)
        BY <1>1, <2>2, <3>2
      <4>2. y[i - n] = a
        BY <1>1, <2>5, <4>1
      <4> QED BY <2>1, <4>1, <4>2
    <3> QED BY <3>1, <3>2
  <2>6. ASSUME NEW i \in 1..n, x[i] = a PROVE \E j \in 1..Len(z) : z[j] = a
    BY <1>1, <2>4, <2>6
  <2>7. ASSUME NEW i \in 1..k, y[i] = a PROVE \E j \in 1..Len(z) : z[j] = a
    BY <1>1, <2>3, <2>7
  <2> QED BY <2>1, <2>5, <2>6, <2>7
<1>3. ASSUME NEW a, NEW b
      PROVE  SaidBefore(z, a, b) <=>
               SaidBefore(x, a, b) \/ (b \notin ToSet(x) /\ SaidBefore(y, a, b))
  <2>1. SaidBefore(z, a, b) <=> \E i \in 1..Len(z) : z[i] = a /\ \A j \in 1..i : z[j] # b
    <3>1. z \in Seq(S)
      BY <1>1
    <3> QED BY <3>1, SaidFirst
  <2>5. SaidBefore(x, a, b) <=> \E i \in 1..n : x[i] = a /\ \A j \in 1..i : x[j] # b
    BY SaidFirst
  <2>6. SaidBefore(y, a, b) <=> \E i \in 1..k : y[i] = a /\ \A j \in 1..i : y[j] # b
    BY SaidFirst
  <2>7. b \in ToSet(x) <=> \E i \in 1..n : x[i] = b
    BY IsSaid
  <2> HIDE DEF n, k
  <2>2. ASSUME NEW i \in 1..n, x[i] = a, \A j \in 1..i : x[j] # b
        PROVE  i \in 1..Len(z) /\ z[i] = a /\ \A j \in 1..i : z[j] # b
    BY <1>1, <2>2
  <2>3. ASSUME NEW i \in 1..k, y[i] = a, \A j \in 1..i : y[j] # b, \A j \in 1..n : x[j] # b
        PROVE  n + i \in 1..Len(z) /\ z[n + i] = a /\ \A j \in 1..(n + i) : z[j] # b
    <3>1. n + i \in 1..Len(z) /\ z[n + i] = a
      BY <1>1, <2>3
    <3>2. ASSUME NEW j \in 1..(n + i) PROVE z[j] # b
      <4>1. CASE j \in 1..n
        BY <1>1, <2>3, <4>1
      <4>2. CASE j \notin 1..n
        <5>1. j - n \in 1..i /\ j - n \in 1..k /\ j = n + (j - n)
          BY <1>1, <4>2
        <5>2. z[n + (j - n)] = y[j - n]
          BY <1>1, <5>1
        <5> QED BY <2>3, <5>1, <5>2
      <4> QED BY <4>1, <4>2
    <3> QED BY <3>1, <3>2
  <2>4. ASSUME NEW i \in 1..Len(z), z[i] = a, \A j \in 1..i : z[j] # b
        PROVE  \/ \E m \in 1..n : x[m] = a /\ \A j \in 1..m : x[j] # b
               \/ /\ \A j \in 1..n : x[j] # b
                  /\ \E m \in 1..k : y[m] = a /\ \A j \in 1..m : y[j] # b
    <3>1. CASE i \in 1..n
      <4>1. x[i] = a /\ \A j \in 1..i : x[j] # b
        BY <1>1, <2>4, <3>1
      <4> QED BY <3>1, <4>1
    <3>2. CASE i \notin 1..n
      <4>1. i - n \in 1..k /\ i = n + (i - n)
        BY <1>1, <3>2
      <4>2. y[i - n] = a
        BY <1>1, <2>4, <4>1
      <4>3. ASSUME NEW j \in 1..(i - n) PROVE y[j] # b
        <5>1. j \in 1..k /\ n + j \in 1..i
          BY <1>1, <4>1
        <5> QED BY <1>1, <2>4, <5>1
      <4>4. \A j \in 1..n : x[j] # b
        BY <1>1, <2>4, <3>2
      <4> QED BY <4>1, <4>2, <4>3, <4>4
    <3> QED BY <3>1, <3>2
  <2> QED BY <2>1, <2>2, <2>3, <2>4, <2>5, <2>6, <2>7
<1> QED BY <1>2, <1>3 DEF z

\* More is said after the same.
LEMMA SameGoesOn ==
  ASSUME NEW S, NEW x \in Seq(S), NEW y \in Seq(S), NEW more \in Seq(S), SameConversation(x, y)
  PROVE  SameConversation(x \o more, y \o more)
<1>1. x \o more \in Seq(S) /\ y \o more \in Seq(S)
  BY PairIs
<1>2. ToSet(x) = ToSet(y) /\ \A a, b : SaidBefore(x, a, b) <=> SaidBefore(y, a, b)
  BY SameIs
<1>3. ToSet(x \o more) = ToSet(y \o more)
  <2>1. ToSet(x \o more) = ToSet(x) \cup ToSet(more) /\ ToSet(y \o more) = ToSet(y) \cup ToSet(more)
    BY SaidLater, Zenon
  <2> QED BY <1>2, <2>1, Zenon
<1>4. ASSUME NEW a, NEW b PROVE SaidBefore(x \o more, a, b) <=> SaidBefore(y \o more, a, b)
  BY <1>2, SaidLater
<1> QED BY <1>1, <1>3, <1>4, SameIs

\* Nothing new is said.
LEMMA SameRepeated ==
  ASSUME NEW S, NEW x \in Seq(S), NEW more \in Seq(S), ToSet(more) \subseteq ToSet(x)
  PROVE  SameConversation(x \o more, x)
<1>1. x \o more \in Seq(S)
  BY PairIs
<1>2. ToSet(x \o more) = ToSet(x)
  <2>1. ToSet(x \o more) = ToSet(x) \cup ToSet(more)
    BY SaidLater, Zenon
  <2> HIDE DEF ToSet
  <2> QED BY <2>1, Zenon
<1>3. ASSUME NEW a, NEW b PROVE SaidBefore(x \o more, a, b) <=> SaidBefore(x, a, b)
  <2>1. SaidBefore(x \o more, a, b) <=>
          SaidBefore(x, a, b) \/ (b \notin ToSet(x) /\ SaidBefore(more, a, b))
    BY SaidLater
  <2>2. ASSUME b \notin ToSet(x), SaidBefore(more, a, b) PROVE SaidBefore(x, a, b)
    <3>1. a \in ToSet(x)
      BY <2>2, SaidIs
    <3> QED BY <2>2, <3>1, SaidIs
  <2> QED BY <2>1, <2>2
<1> QED BY <1>1, <1>2, <1>3, SameIs

\* _deduplicate(): the same is said for the first time in the same order.
LEMMA SameDeduplicated ==
  ASSUME NEW S, NEW items \in Seq(S)
  PROVE  Deduplicate(items) \in Seq(S) /\ SameConversation(Deduplicate(items), items)
<1> DEFINE P == {i \in DOMAIN items : \A j \in 1..(i - 1) : items[j] # items[i]}
           n == Len(items)
           kept == Deduplicate(items)
<1>1. DOMAIN items = 1..n /\ n \in Nat /\ \A i \in 1..n : items[i] \in S
  BY LenProperties
<1>2. P \subseteq 1..n /\ P \subseteq Nat /\ IsFiniteSet(P) /\ \A p \in P : items[p] \in S
  <2>1. P \subseteq 1..n /\ IsFiniteSet(1..n) /\ 1..n \subseteq Nat
    BY <1>1, FS_Interval
  <2>2. IsFiniteSet(P)
    BY <2>1, FS_Subset
  <2> QED BY <1>1, <2>1, <2>2
<1>3. kept = PickedAt(items, P)
  BY Zenon DEF Deduplicate
<1>4. \A i \in P : \A j \in 1..(i - 1) : items[j] # items[i]
  OBVIOUS
<1>5. \A i \in 1..n : \E p \in P : p =< i /\ items[p] = items[i]
  <2> SUFFICES ASSUME NEW i \in 1..n PROVE \E p \in P : p =< i /\ items[p] = items[i]
    OBVIOUS
  <2> DEFINE A == {j \in 1..n : items[j] = items[i]}
  <2>1. A \subseteq Nat /\ i \in A
    BY <1>1
  <2> HIDE DEF A
  <2>2. PICK p \in A : \A y \in A : p =< y
    BY <2>1, LeastExists
  <2>3. p \in 1..n /\ items[p] = items[i] /\ p =< i
    BY <2>1, <2>2 DEF A
  <2>4. ASSUME NEW j \in 1..(p - 1) PROVE items[j] # items[p]
    BY <1>1, <2>2, <2>3 DEF A
  <2>5. p \in P
    BY <1>1, <2>3, <2>4
  <2> QED BY <2>3, <2>5
<1> HIDE DEF P, kept
<1>6. Picked(kept, S, items, P)
  BY <1>2, <1>3, AtIs
<1>7. kept \in Seq(S)
  BY <1>6 DEF Picked
<1>8. PICK f \in [1..Len(kept) -> P] :
       /\ \A i, j \in 1..Len(kept) : i < j => f[i] < f[j]
       /\ \A p \in P : \E i \in 1..Len(kept) : f[i] = p
       /\ \A i \in 1..Len(kept) : kept[i] = items[f[i]]
  BY <1>6 DEF Picked
<1>9. \A k \in 1..Len(kept) : f[k] \in P /\ f[k] \in 1..n
  BY <1>2, <1>8
<1>10. Len(kept) \in Nat
  BY <1>7, LenProperties
<1> HIDE DEF n
<1>11. ToSet(kept) = ToSet(items)
  <2>1. ASSUME NEW a PROVE a \in ToSet(kept) <=> a \in ToSet(items)
    <3>1. /\ a \in ToSet(kept) <=> \E i \in 1..Len(kept) : kept[i] = a
          /\ a \in ToSet(items) <=> \E i \in 1..n : items[i] = a
      BY <1>7, SaidIs DEF n
    <3>2. ASSUME NEW i \in 1..Len(kept), kept[i] = a PROVE \E j \in 1..n : items[j] = a
      BY <1>8, <1>9, <3>2
    <3>3. ASSUME NEW i \in 1..n, items[i] = a PROVE \E j \in 1..Len(kept) : kept[j] = a
      <4>1. PICK p \in P : p =< i /\ items[p] = items[i]
        BY <1>5
      <4> QED BY <1>8, <3>3, <4>1
    <3> QED BY <3>1, <3>2, <3>3
  <2> QED BY <2>1
<1>12. ASSUME NEW a, NEW b PROVE SaidBefore(kept, a, b) <=> SaidBefore(items, a, b)
  <2>1. /\ SaidBefore(kept, a, b) <=>
             \E i \in 1..Len(kept) : kept[i] = a /\ \A j \in 1..i : kept[j] # b
        /\ SaidBefore(items, a, b) <=> \E i \in 1..n : items[i] = a /\ \A j \in 1..i : items[j] # b
    BY <1>7, SaidIs DEF n
  <2>2. ASSUME NEW k \in 1..Len(kept), kept[k] = a, \A j \in 1..k : kept[j] # b
        PROVE  f[k] \in 1..n /\ items[f[k]] = a /\ \A j \in 1..f[k] : items[j] # b
    <3>1. f[k] \in 1..n /\ items[f[k]] = a
      BY <1>8, <1>9, <2>2
    <3>2. ASSUME NEW j \in 1..f[k], items[j] = b PROVE FALSE
      <4>1. j \in 1..n
        BY <1>1, <3>1
      <4>2. PICK p \in P : p =< j /\ items[p] = b
        BY <1>5, <3>2, <4>1
      <4>3. PICK m \in 1..Len(kept) : f[m] = p
        BY <1>8
      <4>4. kept[m] = b
        BY <1>8, <4>2, <4>3
      <4>5. k < m
        BY <1>10, <2>2, <4>4
      <4>6. f[k] < p
        BY <1>8, <4>3, <4>5
      <4>7. p \in 1..n
        BY <1>2
      <4> QED BY <1>1, <3>1, <4>1, <4>2, <4>6, <4>7
    <3> QED BY <3>1, <3>2
  <2>3. ASSUME NEW i \in 1..n, items[i] = a, \A j \in 1..i : items[j] # b
        PROVE  \E k \in 1..Len(kept) : kept[k] = a /\ \A j \in 1..k : kept[j] # b
    <3>1. PICK p \in P : p =< i /\ items[p] = a
      BY <1>5, <2>3
    <3>2. PICK k \in 1..Len(kept) : f[k] = p
      BY <1>8
    <3>3. kept[k] = a
      BY <1>8, <3>1, <3>2
    <3>4. ASSUME NEW j \in 1..k PROVE kept[j] # b
      <4>1. j \in 1..Len(kept) /\ (j < k \/ j = k)
        BY <1>10
      <4>2. f[j] =< f[k] /\ f[j] \in 1..n /\ f[k] \in 1..n
        BY <1>8, <1>9, <4>1
      <4>3. f[j] \in 1..i
        BY <1>1, <3>1, <3>2, <4>2
      <4> QED BY <1>8, <2>3, <4>1, <4>3
    <3> QED BY <3>3, <3>4
  <2> QED BY <2>1, <2>2, <2>3
<1> QED BY <1>7, <1>11, <1>12, SameIs DEF kept

-----------------------------------------------------------------------------
(* The store is well-formed, whatever requests use up.                     *)

\* Every row and every conversation is made of items that exist; no two rows have
\* the same time, so that max_rows newer rows are max_rows rows.
ContentOK ==
  /\ TypeOK
  /\ IsFiniteSet(DOMAIN rows)
  /\ \A i, j \in DOMAIN rows : rows[i].at = rows[j].at => i = j
  /\ \A s \in Session : \A id \in DOMAIN heard[s] : heard[s][id] \in Seq(Item) \ {<<>>}

\* A sequence of some items is one of more items.
LEMMA SeqGrows ==
  ASSUME NEW S, NEW T, S \subseteq T PROVE Seq(S) \subseteq Seq(T)
<1> SUFFICES ASSUME NEW x \in Seq(S) PROVE x \in Seq(T)
  OBVIOUS
<1>1. Len(x) \in Nat /\ x \in [1..Len(x) -> S]
  BY LenProperties
<1>2. x \in [1..Len(x) -> T]
  BY <1>1
<1> QED BY <1>1, <1>2

\* prune() writes nothing.
LEMMA PrunedIsPart ==
  ASSUME NEW table
  PROVE  /\ DOMAIN Pruned(table) \subseteq DOMAIN table
         /\ \A id \in DOMAIN Pruned(table) : Pruned(table)[id] = table[id]
  BY DEF Pruned, Kept

\* prune() leaves at most max_rows rows, because their times differ.
LEMMA PrunedIsSmall ==
  ASSUME NEW table, IsFiniteSet(DOMAIN table), now \in Nat,
         \A i \in DOMAIN table : table[i].at \in Nat,
         \A i, j \in DOMAIN table : table[i].at = table[j].at => i = j
  PROVE  Cardinality(DOMAIN Pruned(table)) =< MaxRows /\ IsFiniteSet(DOMAIN Pruned(table))
<1> DEFINE live     == {i \in DOMAIN table : table[i].at >= now - TTL}
           newer(i) == {j \in live : table[j].at > table[i].at}
           kept     == Kept(table)
<1>1. TTL \in Nat /\ MaxRows \in Nat \ {0}
  BY ConversationAssumption
<1>2. kept = {i \in live : Cardinality(newer(i)) < MaxRows}
  BY DEF Kept
<1>3. DOMAIN Pruned(table) = kept
  BY DEF Pruned
<1>4. kept \subseteq live /\ live \subseteq DOMAIN table
  BY <1>2
<1> HIDE DEF kept
<1>5. IsFiniteSet(kept) /\ IsFiniteSet(live)
  BY <1>4, FS_Subset
<1>6. CASE kept = {}
  <2>1. Cardinality(kept) = 0
    BY <1>6, FS_EmptySet, Zenon
  <2> QED BY <1>1, <1>3, <1>5, <2>1
<1>7. CASE kept # {}
  <2> DEFINE times == {table[i].at : i \in kept}
  <2>1. times \subseteq Nat /\ times # {}
    BY <1>4, <1>7
  <2>2. PICK t \in times : \A y \in times : t =< y
    BY <2>1, LeastExists
  <2>3. PICK i \in kept : t = table[i].at
    OBVIOUS
  <2>4. kept \ {i} \subseteq newer(i)
    <3> SUFFICES ASSUME NEW j \in kept, j # i PROVE j \in newer(i)
      OBVIOUS
    <3>1. table[i].at =< table[j].at
      BY <2>2, <2>3
    <3>2. table[i].at # table[j].at /\ table[i].at \in Nat /\ table[j].at \in Nat
      BY <1>4
    <3> QED BY <1>4, <3>1, <3>2
  <2>5. Cardinality(newer(i)) < MaxRows
    BY <1>2
  <2>6. IsFiniteSet(newer(i))
    BY <1>5, FS_Subset
  <2> HIDE DEF newer
  <2>7. Cardinality(kept \ {i}) =< Cardinality(newer(i))
    BY <2>4, <2>6, FS_Subset
  <2>8. IsFiniteSet(kept \ {i}) /\ Cardinality(kept \ {i}) = Cardinality(kept) - 1
    BY <1>5, FS_RemoveElement
  <2>9. /\ Cardinality(kept) \in Nat
        /\ Cardinality(kept \ {i}) \in Nat
        /\ Cardinality(newer(i)) \in Nat
    BY <1>5, <2>6, <2>8, FS_CardinalityType
  <2> QED BY <1>1, <1>3, <1>5, <2>5, <2>7, <2>8, <2>9
<1> QED BY <1>6, <1>7

\* What an answer does to the store, those of a web loop at its limit included.
LEMMA AnswerIsWell ==
  ASSUME ContentOK, NEW s \in Session, NEW input \in Seq(Item), NEW said \in Seq(Item),
         Answered(s, input, said)
  PROVE  /\ issued' \in 0..MaxAnswers /\ issued =< issued' /\ now' = now
         /\ \A i \in DOMAIN rows : rows[i].at # now
         /\ \E id \in Id', output \in Seq(Item') \ {<<>>} :
              /\ rows' = Pruned(WithRow(rows, id, Row(SessionOf(s), input, output, now)))
              /\ \/ heard' = heard
                 \/ heard' = [heard EXCEPT ![s] = WithRow(heard[s], id, said \o output)]
<1>1. PICK id \in {issued + 1} \cup (IF Limits THEN {LimitId} ELSE {}) :
        LET output == IF id = LimitId THEN <<LimitNotice>> ELSE <<id>>
        IN  /\ issued' = IF id = LimitId THEN issued ELSE id
            /\ rows' = Pruned(WithRow(rows, id, Row(SessionOf(s), input, output, now)))
            /\ \/ heard' = [heard EXCEPT ![s] = WithRow(@, id, said \o output)]
               \/ UNCHANGED heard
  BY DEF Answered
<1> DEFINE output == IF id = LimitId THEN <<LimitNotice>> ELSE <<id>>
<1>2. /\ issued < MaxAnswers /\ now' = now
      /\ \A i \in DOMAIN rows : rows[i].at # now
  BY DEF Answered
<1>3. issued \in Nat /\ issued \in 0..MaxAnswers /\ MaxAnswers \in Nat /\ LimitId \notin Nat
  BY ConversationAssumption DEF ContentOK, TypeOK
<1>4. id = issued + 1 \/ id = LimitId
  BY <1>1
<1>5. issued' = IF id = LimitId THEN issued ELSE id
  BY <1>1
<1>6. issued' \in 0..MaxAnswers /\ issued =< issued'
  BY <1>2, <1>3, <1>4, <1>5
<1>7. id \in Id'
  BY <1>3, <1>4, <1>5 DEF Id, Answer
<1>8. output \in Seq(Item') \ {<<>>}
  <2>1. CASE id = LimitId
    <3>1. LimitNotice \in Item'
      BY DEF Item
    <3> QED BY <2>1, <3>1
  <2>2. CASE id # LimitId
    <3>1. id \in Item'
      BY <2>2, <1>3, <1>4, <1>5 DEF Item, Answer
    <3> QED BY <2>2, <3>1
  <2> QED BY <2>1, <2>2
<1>9. /\ rows' = Pruned(WithRow(rows, id, Row(SessionOf(s), input, output, now)))
      /\ \/ heard' = heard
         \/ heard' = [heard EXCEPT ![s] = WithRow(heard[s], id, said \o output)]
  BY <1>1, Zenon
<1> HIDE DEF output
<1> QED BY <1>2, <1>6, <1>7, <1>8, <1>9

\* put() and its prune() leave a well-formed store.
LEMMA ContentStep ==
  ASSUME ContentOK, NEW s \in Session, NEW input \in Seq(Item), NEW said \in Seq(Item),
         Answered(s, input, said)
  PROVE  ContentOK'
<1>1. /\ issued' \in 0..MaxAnswers /\ issued =< issued' /\ now' = now
      /\ \A i \in DOMAIN rows : rows[i].at # now
  BY AnswerIsWell
<1>2. PICK id \in Id', output \in Seq(Item') \ {<<>>} :
        /\ rows' = Pruned(WithRow(rows, id, Row(SessionOf(s), input, output, now)))
        /\ \/ heard' = heard
           \/ heard' = [heard EXCEPT ![s] = WithRow(heard[s], id, said \o output)]
  BY AnswerIsWell
<1> DEFINE row   == Row(SessionOf(s), input, output, now)
           table == WithRow(rows, id, row)
<1>3. issued \in Nat /\ issued' \in Nat /\ now \in 0..MaxTime /\ now \in Nat
  BY <1>1, ConversationAssumption DEF ContentOK, TypeOK
<1>4. Id \subseteq Id' /\ Item \subseteq Item'
  BY <1>1, <1>3 DEF Id, Item, Answer
<1>5. Seq(Item) \subseteq Seq(Item')
  BY <1>4, SeqGrows
<1>6. /\ row.session \in Session \cup {NoSession}
      /\ row.input \in Seq(Item') /\ row.output \in Seq(Item')
      /\ row.at = now
  BY <1>5 DEF Row, SessionOf
<1>7. /\ DOMAIN table = DOMAIN rows \cup {id}
      /\ \A i \in DOMAIN table : table[i] = IF i = id THEN row ELSE rows[i]
  BY DEF WithRow
<1> HIDE DEF row, table
<1>8. /\ DOMAIN rows \subseteq Id /\ IsFiniteSet(DOMAIN rows)
      /\ \A i, j \in DOMAIN rows : rows[i].at = rows[j].at => i = j
      /\ \A i \in DOMAIN rows :
           /\ rows[i].session \in Session \cup {NoSession}
           /\ rows[i].input \in Seq(Item) /\ rows[i].output \in Seq(Item)
           /\ rows[i].at \in 0..MaxTime
  BY DEF ContentOK, TypeOK
<1>9. \A i \in DOMAIN table :
        /\ i \in Id'
        /\ table[i].session \in Session \cup {NoSession}
        /\ table[i].input \in Seq(Item') /\ table[i].output \in Seq(Item')
        /\ table[i].at \in 0..MaxTime
  BY <1>3, <1>4, <1>5, <1>6, <1>7, <1>8
<1>10. \A i, j \in DOMAIN table : table[i].at = table[j].at => i = j
  BY <1>1, <1>6, <1>7, <1>8
<1>11. IsFiniteSet(DOMAIN table)
  <2>1. IsFiniteSet(DOMAIN rows \cup {id})
    BY <1>8, FS_AddElement
  <2> QED BY <1>7, <2>1
<1>12. \A i \in DOMAIN table : table[i].at \in Nat
  BY <1>9, ConversationAssumption
<1>13. Cardinality(DOMAIN Pruned(table)) =< MaxRows /\ IsFiniteSet(DOMAIN Pruned(table))
  BY <1>3, <1>10, <1>11, <1>12, PrunedIsSmall
<1>14. /\ DOMAIN Pruned(table) \subseteq DOMAIN table
       /\ \A i \in DOMAIN Pruned(table) : Pruned(table)[i] = table[i]
  BY PrunedIsPart
<1>15. rows' = Pruned(table)
  BY <1>2 DEF table, row
<1>16. /\ DOMAIN heard = Session
       /\ \A t \in Session : DOMAIN heard[t] \subseteq Id
       /\ \A t \in Session : \A i \in DOMAIN heard[t] : heard[t][i] \in Seq(Item) \ {<<>>}
  BY DEF ContentOK, TypeOK
<1>17. said \o output \in Seq(Item') \ {<<>>}
  <2>1. said \in Seq(Item') /\ output \in Seq(Item')
    BY <1>5
  <2>2. said \o output \in Seq(Item') /\ Len(said \o output) = Len(said) + Len(output)
    BY <2>1, ConcatProperties
  <2>3. Len(said) \in Nat /\ Len(output) \in Nat /\ Len(output) # 0
    BY <2>1, EmptySeq
  <2>4. Len(said \o output) # 0
    BY <2>2, <2>3
  <2> QED BY <2>2, <2>4, EmptySeq
<1>18. /\ DOMAIN heard' = Session
       /\ \A t \in Session : DOMAIN heard'[t] \subseteq Id'
       /\ \A t \in Session : \A i \in DOMAIN heard'[t] : heard'[t][i] \in Seq(Item') \ {<<>>}
  <2>1. CASE heard' = heard
    BY <1>4, <1>5, <1>16, <2>1
  <2>2. CASE heard' = [heard EXCEPT ![s] = WithRow(heard[s], id, said \o output)]
    <3> DEFINE told == WithRow(heard[s], id, said \o output)
    <3>1. /\ DOMAIN told = DOMAIN heard[s] \cup {id}
          /\ \A i \in DOMAIN told : told[i] = IF i = id THEN said \o output ELSE heard[s][i]
      BY DEF WithRow
    <3> HIDE DEF told
    <3>2. /\ DOMAIN told \subseteq Id'
          /\ \A i \in DOMAIN told : told[i] \in Seq(Item') \ {<<>>}
      BY <1>4, <1>5, <1>16, <1>17, <3>1
    <3>3. \A t \in Session : heard'[t] = IF t = s THEN told ELSE heard[t]
      BY <1>16, <2>2 DEF told
    <3> QED BY <1>4, <1>5, <1>16, <2>2, <3>2, <3>3
  <2> QED BY <1>2, <2>1, <2>2
<1>19. TypeOK'
  BY <1>1, <1>3, <1>9, <1>13, <1>14, <1>15, <1>18 DEF TypeOK
<1>20. \A i, j \in DOMAIN rows' : rows'[i].at = rows'[j].at => i = j
  BY <1>10, <1>14, <1>15
<1> QED BY <1>13, <1>15, <1>18, <1>19, <1>20 DEF ContentOK

\* What a step does: an answer to some input is put, the table is pruned, or the time goes on.
\* The input tells the conversation that it stands for, if that is so for the rows.
LEMMA StepsAreWell ==
  ASSUME ContentOK, [Next]_vars
  PROVE  \/ \E s \in Session, input, said \in Seq(Item) :
              /\ Answered(s, input, said)
              /\ \/ SameConversation(input, said)
                 \/ \E id \in DOMAIN heard[s] :
                      Usable(s, id) /\ ~SameConversation(History(rows[id]), heard[s][id])
         \/ Restarts \/ Tick \/ ClockIsSetBack \/ UNCHANGED vars
<1>1. /\ DOMAIN heard = Session
      /\ \A t \in Session : \A i \in DOMAIN heard[t] : heard[t][i] \in Seq(Item) \ {<<>>}
      /\ \A i \in DOMAIN rows : rows[i].input \in Seq(Item) /\ rows[i].output \in Seq(Item)
      /\ Message \subseteq Item
  BY DEF ContentOK, TypeOK, Item
<1>2. ASSUME NEW s \in Session, StartsAnew(s)
      PROVE  \E input, said \in Seq(Item) : Answered(s, input, said) /\ SameConversation(input, said)
  <2>1. PICK old \in {<<>>} \cup {heard[s][id] : id \in DOMAIN heard[s]}, message \in Message :
          Answered(s, Append(old, message), Append(old, message))
    BY <1>2 DEF StartsAnew
  <2>2. old \in Seq(Item) /\ message \in Item
    <3>1. CASE old = <<>>
      BY <1>1, <3>1
    <3>2. CASE old # <<>>
      BY <1>1, <3>2
    <3> QED BY <3>1, <3>2
  <2>3. Append(old, message) \in Seq(Item)
    BY <2>2, AppendProperties
  <2> QED BY <2>1, <2>3, SameAsItself
<1>3. ASSUME NEW s \in Session, Continues(s)
      PROVE  \E input, said \in Seq(Item) :
               /\ Answered(s, input, said)
               /\ \/ SameConversation(input, said)
                  \/ \E id \in DOMAIN heard[s] :
                       Usable(s, id) /\ ~SameConversation(History(rows[id]), heard[s][id])
  <2>1. PICK id \in DOMAIN heard[s], message \in Message :
          LET said == heard[s][id]
          IN  \E from \in {1, Len(said), Len(said) + 1} :
                /\ Usable(s, id)
                /\ Answered(s, Deduplicate(History(rows[id]) \o SubSeq(said, from, Len(said))
                                             \o <<message>>),
                            Append(said, message))
    BY <1>3 DEF Continues
  <2> DEFINE said == heard[s][id]
             old  == History(rows[id])
  <2>2. PICK from \in {1, Len(said), Len(said) + 1} :
          /\ Usable(s, id)
          /\ Answered(s, Deduplicate(old \o SubSeq(said, from, Len(said)) \o <<message>>),
                      Append(said, message))
    BY <2>1
  <2> DEFINE again == SubSeq(said, from, Len(said))
             whole == old \o again \o <<message>>
  <2>3. said \in Seq(Item) /\ said # <<>> /\ message \in Item /\ id \in DOMAIN rows
    BY <1>1, <2>2 DEF Usable
  <2>4. old \in Seq(Item)
    <3>1. rows[id].input \in Seq(Item) /\ rows[id].output \in Seq(Item)
      BY <1>1, <2>3
    <3> QED BY <3>1, ConcatProperties DEF History
  <2>5. again \in Seq(Item) /\ ToSet(again) \subseteq ToSet(said)
    <3> HIDE DEF said
    <3>1. Len(said) \in Nat \ {0} /\ \A i \in 1..Len(said) : said[i] \in Item
      BY <2>3, EmptySeq
    <3>2. from \in 1..Len(said) + 1
      BY <3>1
    <3>3. \A i \in from..Len(said) : said[i] \in Item
      BY <3>1, <3>2
    <3>4. /\ again \in Seq(Item)
          /\ \A i \in 1..Len(again) : \E j \in 1..Len(said) : again[i] = said[j]
      BY <2>3, <3>1, <3>2, <3>3, SubSeqProperties
    <3> HIDE DEF again
    <3>5. ASSUME NEW a \in ToSet(again) PROVE a \in ToSet(said)
      <4>1. PICK i \in 1..Len(again) : again[i] = a
        BY <3>4, <3>5, IsSaid
      <4>2. PICK j \in 1..Len(said) : said[j] = a
        BY <3>4, <4>1
      <4> QED BY <2>3, <4>2, IsSaid
    <3> QED BY <3>4, <3>5
  <2> HIDE DEF said, old, again
  <2>6. <<message>> \in Seq(Item)
    BY <2>3
  <2>7. old \o again \in Seq(Item) /\ whole \in Seq(Item) /\ said \o <<message>> \in Seq(Item)
    BY <2>3, <2>4, <2>5, <2>6, ConcatProperties
  <2>8. Append(said, message) = said \o <<message>>
    BY <2>3, <2>6
  <2>9. /\ Deduplicate(whole) \in Seq(Item)
        /\ SameConversation(Deduplicate(whole), whole)
    BY <2>7, SameDeduplicated
  <2>10. ASSUME SameConversation(old, said)
         PROVE  SameConversation(Deduplicate(whole), said \o <<message>>)
    <3>1. ToSet(again) \subseteq ToSet(old)
      BY <2>5, <2>10 DEF SameConversation
    <3>2. SameConversation(old \o again, old)
      BY <2>4, <2>5, <3>1, SameRepeated
    <3>3. SameConversation(old \o again, said)
      BY <2>3, <2>4, <2>7, <2>10, <3>2, SameAsThird
    <3>4. SameConversation(whole, said \o <<message>>)
      BY <2>3, <2>6, <2>7, <3>3, SameGoesOn
    <3> QED BY <2>7, <2>9, <3>4, SameAsThird
  <2>11. Answered(s, Deduplicate(whole), said \o <<message>>)
    BY <2>2, <2>8 DEF said, old, again
  <2>12. SameConversation(old, said) \/ (Usable(s, id) /\ ~SameConversation(History(rows[id]), heard[s][id]))
    BY <2>2 DEF said, old
  <2> HIDE DEF whole
  <2> QED BY <2>7, <2>9, <2>10, <2>11, <2>12
<1> QED
  BY <1>2, <1>3, Zenon DEF Next

\* The table after a prune, of an answer or of a restart, is as well-formed as before.
LEMMA RestartsWell == ContentOK /\ Restarts => ContentOK'
<1> SUFFICES ASSUME ContentOK, Restarts PROVE ContentOK'
  OBVIOUS
<1>1. rows' = Pruned(rows) /\ UNCHANGED <<now, issued, heard>>
  BY DEF Restarts
<1>2. /\ IsFiniteSet(DOMAIN rows) /\ now \in 0..MaxTime /\ now \in Nat
      /\ \A i \in DOMAIN rows : rows[i].at \in Nat
      /\ \A i, j \in DOMAIN rows : rows[i].at = rows[j].at => i = j
  BY ConversationAssumption DEF ContentOK, TypeOK
<1>3. Cardinality(DOMAIN rows') =< MaxRows /\ IsFiniteSet(DOMAIN rows')
  BY <1>1, <1>2, PrunedIsSmall
<1>4. DOMAIN rows' \subseteq DOMAIN rows /\ \A i \in DOMAIN rows' : rows'[i] = rows[i]
  BY <1>1, PrunedIsPart
<1>5. Id' = Id /\ Item' = Item
  BY <1>1 DEF Id, Item, Answer
<1>6. TypeOK'
  BY <1>1, <1>3, <1>4, <1>5 DEF ContentOK, TypeOK
<1> QED BY <1>1, <1>2, <1>3, <1>4, <1>5, <1>6 DEF ContentOK

\* An empty store is well-formed.
LEMMA ContentAtFirst == Init => ContentOK
<1> SUFFICES ASSUME Init PROVE ContentOK
  OBVIOUS
<1>1. DOMAIN rows = {} /\ \A s \in Session : DOMAIN heard[s] = {}
  BY DEF Init
<1>2. IsFiniteSet({}) /\ Cardinality({}) = 0
  BY FS_EmptySet
<1> QED BY <1>1, <1>2, ConversationAssumption DEF Init, ContentOK, TypeOK

\* Every step keeps the store well-formed.
LEMMA ContentKept == ContentOK /\ [Next]_vars => ContentOK'
<1> SUFFICES ASSUME ContentOK, [Next]_vars PROVE ContentOK'
  OBVIOUS
<1>1. CASE Tick \/ ClockIsSetBack \/ UNCHANGED vars
  <2>1. UNCHANGED <<issued, rows, heard>> /\ now' \in 0..MaxTime
    BY <1>1, ConversationAssumption DEF Tick, ClockIsSetBack, vars, ContentOK, TypeOK
  <2> QED BY <2>1 DEF ContentOK, TypeOK, Id, Item, Answer
<1> QED BY <1>1, StepsAreWell, ContentStep, RestartsWell

\* state.py: a table of at most max_rows rows, whatever the clock and the web rounds do.
THEOREM AlwaysContent == Spec => []TypeOK
<1>1. ContentOK => TypeOK
  BY DEF ContentOK
<1> QED
  BY ContentAtFirst, ContentKept, <1>1, PTL DEF Spec

-----------------------------------------------------------------------------
(* Ids, times and sessions, when every answer has an id of its own.        *)

\* Ids come from Ollama, one for each answer.
IdsAreIssued ==
  /\ issued \in Nat
  /\ DOMAIN rows \subseteq 1..issued
  /\ DOMAIN heard = Session
  /\ \A s \in Session : DOMAIN heard[s] \subseteq 1..issued

\* The table is finite, and its times can be compared.
RowsHaveTimes ==
  /\ now \in Nat
  /\ IsFiniteSet(DOMAIN rows)
  /\ \A id \in DOMAIN rows : rows[id].at \in Nat

\* No other session than that of the row was told its id.
RowsAreOwn ==
  \A s \in Session, id \in DOMAIN rows :
    rows[id].session = s =>
      s \notin Anonymous /\ \A other \in Session \ {s} : id \notin DOMAIN heard[other]

StoreInv == IdsAreIssued /\ RowsHaveTimes /\ RowsAreOwn

-----------------------------------------------------------------------------

\* prune() takes a row that has not expired only if max_rows rows are newer.
LEMMA PrunedAreOldest ==
  ASSUME NEW table, IsFiniteSet(DOMAIN table), \A i \in DOMAIN table : table[i].at \in Nat,
         now \in Nat, NEW id \in DOMAIN table, id \notin DOMAIN Pruned(table),
         ~(table[id].at < now - TTL), NEW kept \in DOMAIN Pruned(table)
  PROVE  table[kept].at > table[id].at
<1> DEFINE live     == {i \in DOMAIN table : table[i].at >= now - TTL}
           newer(i) == {j \in live : table[j].at > table[i].at}
<1>1. TTL \in Nat /\ MaxRows \in Nat
  BY ConversationAssumption
<1>2. id \in live /\ kept \in live /\ Cardinality(newer(kept)) < MaxRows
  BY <1>1 DEF Pruned, Kept
<1>3. ~(Cardinality(newer(id)) < MaxRows)
  BY <1>2 DEF Pruned, Kept
<1>4. IsFiniteSet(newer(id)) /\ IsFiniteSet(newer(kept))
  BY FS_Subset
<1>5. SUFFICES ASSUME ~(table[kept].at > table[id].at) PROVE FALSE
  OBVIOUS
<1>6. newer(id) \subseteq newer(kept)
  BY <1>2, <1>5
<1> HIDE DEF newer
<1>7. Cardinality(newer(id)) <= Cardinality(newer(kept))
  BY <1>4, <1>6, FS_Subset
<1> QED
  BY <1>1, <1>2, <1>3, <1>4, <1>7, FS_CardinalityType

\* The newest row stays.
LEMMA NewestStays ==
  ASSUME NEW table, now \in Nat, NEW id \in DOMAIN table, table[id].at = now,
         \A i \in DOMAIN table \ {id} : ~(table[i].at > now)
  PROVE  id \in DOMAIN Pruned(table)
<1> DEFINE live     == {i \in DOMAIN table : table[i].at >= now - TTL}
           newer(i) == {j \in live : table[j].at > table[i].at}
<1>1. TTL \in Nat /\ MaxRows \in Nat \ {0}
  BY ConversationAssumption
<1>2. newer(id) = {}
  OBVIOUS
<1>3. Cardinality(newer(id)) < MaxRows
  <2>1. Cardinality({}) = 0
    BY FS_EmptySet, Zenon
  <2> QED
    BY <1>1, <1>2, <2>1
<1>4. id \in live
  BY <1>1
<1> QED
  BY <1>3, <1>4 DEF Pruned, Kept

\* What an answer does to the store, when every answer has an id of its own.
LEMMA AnswerIsPut ==
  ASSUME ~Limits, IdsAreIssued, NEW s \in Session, NEW input, NEW said, Answered(s, input, said)
  PROVE  /\ issued' = issued + 1 /\ now' = now
         /\ rows' = Pruned(WithRow(rows, issued', Row(SessionOf(s), input, <<issued'>>, now)))
         /\ \/ heard' = heard
            \/ heard' = [heard EXCEPT ![s] = WithRow(heard[s], issued', said \o <<issued'>>)]
<1>1. PICK id \in {issued + 1} :
        LET output == IF id = LimitId THEN <<LimitNotice>> ELSE <<id>>
        IN  /\ issued' = IF id = LimitId THEN issued ELSE id
            /\ rows' = Pruned(WithRow(rows, id, Row(SessionOf(s), input, output, now)))
            /\ \/ heard' = [heard EXCEPT ![s] = WithRow(@, id, said \o output)]
               \/ UNCHANGED heard
  BY DEF Answered
<1>2. id = issued + 1 /\ id # LimitId
  BY ConversationAssumption DEF IdsAreIssued
<1>3. issued' = id /\ rows' = Pruned(WithRow(rows, id, Row(SessionOf(s), input, <<id>>, now)))
  BY <1>1, <1>2
<1>4. \/ heard' = heard
      \/ heard' = [heard EXCEPT ![s] = WithRow(heard[s], id, said \o <<id>>)]
  BY <1>1, <1>2, Zenon
<1>5. now' = now
  BY DEF Answered
<1> QED
  BY <1>2, <1>3, <1>4, <1>5, Zenon

\* What a step does: an answer of a session is put, the table is pruned, or the time goes on.
LEMMA Steps ==
  ASSUME [Next]_vars
  PROVE  \/ \E s \in Session : \E input, said : Answered(s, input, said)
         \/ Restarts \/ Tick \/ ClockIsSetBack \/ UNCHANGED vars
<1>1. ASSUME NEW s \in Session, StartsAnew(s)
      PROVE  \E input, said : Answered(s, input, said)
  BY <1>1 DEF StartsAnew
<1>2. ASSUME NEW s \in Session, Continues(s)
      PROVE  \E input, said : Answered(s, input, said)
  BY <1>2 DEF Continues
<1> QED
  BY <1>1, <1>2, Zenon DEF Next

\* An empty store fulfils the invariant.
LEMMA InitiallyStored == Init => StoreInv
<1> SUFFICES ASSUME Init PROVE StoreInv
  OBVIOUS
<1> USE DEF Init
<1>1. DOMAIN rows = {}
  OBVIOUS
<1>2. \A s \in Session : DOMAIN heard[s] = {}
  OBVIOUS
<1> QED
  BY <1>1, <1>2, FS_EmptySet DEF StoreInv, IdsAreIssued, RowsHaveTimes, RowsAreOwn

\* The rows after an answer: the new one, and old ones as they were.
LEMMA RowsAfterAnswer ==
  ASSUME ~Limits, StoreInv, NEW s \in Session, NEW input, NEW said, Answered(s, input, said)
  PROVE  /\ DOMAIN rows' \subseteq DOMAIN rows \cup {issued'}
         /\ \A id \in DOMAIN rows' :
              IF id = issued' THEN /\ rows'[id].session = SessionOf(s) /\ rows'[id].at = now
                                   /\ History(rows'[id]) = input \o <<issued'>>
              ELSE rows'[id] = rows[id]
<1> DEFINE row == Row(SessionOf(s), input, <<issued'>>, now)
           table == WithRow(rows, issued', row)
<1>1. rows' = Pruned(table)
  BY AnswerIsPut DEF StoreInv
<1>2. DOMAIN table = DOMAIN rows \cup {issued'}
  BY DEF WithRow
<1>3. \A id \in DOMAIN table : table[id] = IF id = issued' THEN row ELSE rows[id]
  BY DEF WithRow
<1>4. row.session = SessionOf(s) /\ row.at = now /\ History(row) = input \o <<issued'>>
  BY DEF Row, History
<1> HIDE DEF table, row
<1>5. DOMAIN Pruned(table) \subseteq DOMAIN table
      /\ \A id \in DOMAIN Pruned(table) : Pruned(table)[id] = table[id]
  BY PrunedIsPart
<1> QED
  BY <1>1, <1>2, <1>3, <1>4, <1>5

\* The ids stay those issued.
LEMMA IdsStep ==
  ASSUME ~Limits, StoreInv, NEW s \in Session, NEW input, NEW said, Answered(s, input, said)
  PROVE  IdsAreIssued'
<1>1. issued \in Nat /\ issued' = issued + 1 /\ DOMAIN rows \subseteq 1..issued
  BY AnswerIsPut DEF StoreInv, IdsAreIssued
<1>2. DOMAIN rows' \subseteq 1..issued'
  BY <1>1, RowsAfterAnswer
<1>3. \A t \in Session : DOMAIN heard'[t] \subseteq DOMAIN heard[t] \cup {issued'}
  BY AnswerIsPut DEF StoreInv, IdsAreIssued, WithRow
<1>4. DOMAIN heard' = Session
  BY AnswerIsPut DEF StoreInv, IdsAreIssued
<1> QED
  BY <1>1, <1>2, <1>3, <1>4 DEF StoreInv, IdsAreIssued

\* The table stays finite.
LEMMA TimesStep ==
  ASSUME ~Limits, StoreInv, NEW s \in Session, NEW input, NEW said, Answered(s, input, said)
  PROVE  RowsHaveTimes'
<1>1. IsFiniteSet(DOMAIN rows \cup {issued'})
  BY FS_AddElement DEF StoreInv, RowsHaveTimes
<1>2. IsFiniteSet(DOMAIN rows')
  BY <1>1, RowsAfterAnswer, FS_Subset
<1> QED
  BY <1>2, RowsAfterAnswer, AnswerIsPut DEF StoreInv, RowsHaveTimes

\* The new row is that of its session, and no other session was told its id.
LEMMA OwnStep ==
  ASSUME ~Limits, StoreInv, NEW s \in Session, NEW input, NEW said, Answered(s, input, said)
  PROVE  RowsAreOwn'
<1> SUFFICES ASSUME NEW t \in Session, NEW id \in DOMAIN rows', rows'[id].session = t
             PROVE  t \notin Anonymous /\ \A other \in Session \ {t} : id \notin DOMAIN heard'[other]
  BY DEF RowsAreOwn
<1>1. /\ issued \in Nat /\ issued' = issued + 1 /\ DOMAIN rows \subseteq 1..issued
      /\ \A u \in Session : DOMAIN heard[u] \subseteq 1..issued
  BY AnswerIsPut DEF StoreInv, IdsAreIssued
<1>2. \A u \in Session : /\ DOMAIN heard'[u] \subseteq DOMAIN heard[u] \cup {issued'}
                         /\ u # s => DOMAIN heard'[u] = DOMAIN heard[u]
  BY AnswerIsPut DEF StoreInv, IdsAreIssued, WithRow
<1>3. CASE id = issued'
  <2>1. t = s /\ s \notin Anonymous
    BY <1>3, RowsAfterAnswer, ConversationAssumption DEF SessionOf
  <2>2. \A u \in Session : id \notin DOMAIN heard[u]
    BY <1>1, <1>3
  <2> QED
    BY <1>2, <2>1, <2>2
<1>4. CASE id # issued'
  <2>1. id \in DOMAIN rows /\ rows[id].session = t
    BY <1>4, RowsAfterAnswer
  <2> QED
    BY <1>2, <1>4, <2>1 DEF StoreInv, RowsAreOwn
<1> QED
  BY <1>3, <1>4

\* The invariant is kept by every step.
LEMMA StoreStep == ~Limits /\ StoreInv /\ [Next]_vars => StoreInv'
<1> SUFFICES ASSUME ~Limits, StoreInv, [Next]_vars PROVE StoreInv'
  OBVIOUS
<1>1. ASSUME NEW s \in Session, NEW input, NEW said, Answered(s, input, said) PROVE StoreInv'
  BY <1>1, IdsStep, TimesStep, OwnStep DEF StoreInv
<1>2. CASE Restarts
  <2>1. /\ DOMAIN rows' \subseteq DOMAIN rows
        /\ \A id \in DOMAIN rows' : rows'[id] = rows[id]
    BY <1>2, PrunedIsPart DEF Restarts
  <2>2. IsFiniteSet(DOMAIN rows')
    BY <2>1, FS_Subset DEF StoreInv, RowsHaveTimes
  <2>3. UNCHANGED <<now, issued, heard>>
    BY <1>2 DEF Restarts
  <2> QED
    BY <2>1, <2>2, <2>3 DEF StoreInv, IdsAreIssued, RowsHaveTimes, RowsAreOwn
<1>3. CASE Tick \/ ClockIsSetBack \/ UNCHANGED vars
  BY <1>3 DEF Tick, ClockIsSetBack, vars, StoreInv, IdsAreIssued, RowsHaveTimes, RowsAreOwn
<1> QED
  BY <1>1, <1>2, <1>3, Steps

-----------------------------------------------------------------------------
\* The invariant holds in every state.
LEMMA AlwaysStoreInv == ~Limits /\ Spec => []StoreInv
<1> SUFFICES ASSUME ~Limits PROVE Spec => []StoreInv
  OBVIOUS
<1>1. StoreInv /\ [Next]_vars => StoreInv'
  BY StoreStep
<1> QED
  BY InitiallyStored, <1>1, PTL DEF Spec

\* expand() compares the session: a predecessor that a session may use is its own.
THEOREM AlwaysIsolated == ~Limits /\ Spec => []SessionsAreIsolated
<1> SUFFICES ASSUME ~Limits PROVE Spec => []SessionsAreIsolated
  OBVIOUS
<1>1. StoreInv => SessionsAreIsolated
  BY DEF StoreInv, RowsAreOwn, SessionsAreIsolated, Usable
<1>2. Spec => []StoreInv
  BY AlwaysStoreInv
<1> QED
  BY <1>1, <1>2, PTL

\* prune() takes the oldest of a table, that of an answer or that of a restart.
LEMMA PruneStep ==
  ASSUME ~Limits, StoreInv, [Next]_vars, NEW id \in DOMAIN rows \ DOMAIN rows',
         ~(rows[id].at < now - TTL), NEW kept \in DOMAIN rows'
  PROVE  rows'[kept].at > rows[id].at
<1>1. ASSUME NEW s \in Session, NEW input, NEW said, Answered(s, input, said)
      PROVE  rows'[kept].at > rows[id].at
  <2> DEFINE row == Row(SessionOf(s), input, <<issued'>>, now)
             table == WithRow(rows, issued', row)
  <2>1. rows' = Pruned(table) /\ id # issued'
    BY <1>1, AnswerIsPut DEF StoreInv, IdsAreIssued
  <2>2. /\ DOMAIN table = DOMAIN rows \cup {issued'}
        /\ \A i \in DOMAIN table : table[i] = IF i = issued' THEN row ELSE rows[i]
        /\ row.at = now
    BY DEF WithRow, Row
  <2> HIDE DEF table, row
  <2>3. IsFiniteSet(DOMAIN table)
    BY <2>2, FS_AddElement DEF StoreInv, RowsHaveTimes
  <2>4. now \in Nat /\ \A i \in DOMAIN table : table[i].at \in Nat
    BY <2>2 DEF StoreInv, RowsHaveTimes
  <2>5. id \in DOMAIN table /\ table[id] = rows[id]
    BY <2>1, <2>2
  <2>6. table[kept].at > table[id].at
    BY <2>1, <2>3, <2>4, <2>5, PrunedAreOldest
  <2> QED
    BY <2>1, <2>5, <2>6, PrunedIsPart
<1>2. CASE Restarts
  <2>1. rows' = Pruned(rows)
    BY <1>2 DEF Restarts
  <2>2. rows[kept].at > rows[id].at
    BY <2>1, PrunedAreOldest DEF StoreInv, RowsHaveTimes
  <2> QED
    BY <2>1, <2>2, PrunedIsPart
<1>3. CASE Tick \/ ClockIsSetBack \/ UNCHANGED vars
  BY <1>3 DEF Tick, ClockIsSetBack, vars
<1> QED
  BY <1>1, <1>2, <1>3, Steps

\* prune(): no row is lost to one that is older, whatever the clock does.
THEOREM AlwaysTakesOldest == ~Limits /\ Spec => PruneTakesOldest
<1> SUFFICES ASSUME ~Limits PROVE Spec => PruneTakesOldest
  OBVIOUS
<1>1. StoreInv /\ [Next]_vars =>
        \A id \in DOMAIN rows \ DOMAIN rows' :
          \/ rows[id].at < now - TTL
          \/ \A kept \in DOMAIN rows' : rows'[kept].at > rows[id].at
  BY PruneStep
<1>2. Spec => []StoreInv
  BY AlwaysStoreInv
<1> QED
  BY <1>1, <1>2, PTL DEF Spec, PruneTakesOldest

\* The row of an answer is the newest of the table.
LEMMA AnswerStays ==
  ASSUME ~Limits, StoreInv, [Next]_vars, issued' # issued, \A id \in DOMAIN rows : rows[id].at < now
  PROVE  issued' \in DOMAIN rows'
<1>1. PICK s \in Session : \E input, said : Answered(s, input, said)
  BY Steps DEF Restarts, Tick, ClockIsSetBack, vars
<1>2. PICK input, said : Answered(s, input, said)
  BY <1>1
<1> DEFINE row == Row(SessionOf(s), input, <<issued'>>, now)
           table == WithRow(rows, issued', row)
<1>3. rows' = Pruned(table)
  BY <1>2, AnswerIsPut DEF StoreInv
<1>4. /\ DOMAIN table = DOMAIN rows \cup {issued'}
      /\ \A i \in DOMAIN table : table[i] = IF i = issued' THEN row ELSE rows[i]
      /\ row.at = now
  BY DEF WithRow, Row
<1> HIDE DEF table, row
<1>5. \A i \in DOMAIN table \ {issued'} : ~(table[i].at > now)
  BY <1>4 DEF StoreInv, RowsHaveTimes
<1> QED
  BY <1>3, <1>4, <1>5, NewestStays DEF StoreInv, RowsHaveTimes

\* put() and its prune(): the answer just given can be continued.
THEOREM AlwaysContinued == ~Limits /\ Spec => AnswerCanBeContinued
<1> SUFFICES ASSUME ~Limits PROVE Spec => AnswerCanBeContinued
  OBVIOUS
<1>1. StoreInv /\ [Next]_vars =>
        ((issued' # issued /\ \A id \in DOMAIN rows : rows[id].at < now)
           => issued' \in DOMAIN rows')
  BY AnswerStays
<1>2. Spec => []StoreInv
  BY AlwaysStoreInv
<1> QED
  BY <1>1, <1>2, PTL DEF Spec, AnswerCanBeContinued

-----------------------------------------------------------------------------
(* The history of an answer is the conversation up to it.                  *)

\* With an id for every answer, the conversation goes on where the row says.
LEMMA HistoryStep ==
  ASSUME ~Limits, ContentOK, StoreInv, HistoryKept,
         NEW s \in Session, NEW input \in Seq(Item), NEW said \in Seq(Item),
         Answered(s, input, said),
         \/ SameConversation(input, said)
         \/ \E id \in DOMAIN heard[s] :
              Usable(s, id) /\ ~SameConversation(History(rows[id]), heard[s][id])
  PROVE  HistoryKept'
<1>1. /\ issued \in Nat /\ DOMAIN rows \subseteq 1..issued /\ DOMAIN heard = Session
      /\ \A u \in Session : DOMAIN heard[u] \subseteq 1..issued
  BY DEF StoreInv, IdsAreIssued
<1>2. /\ issued' = issued + 1
      /\ \/ heard' = heard
         \/ heard' = [heard EXCEPT ![s] = WithRow(heard[s], issued', said \o <<issued'>>)]
  BY AnswerIsPut DEF StoreInv
<1>3. /\ DOMAIN rows' \subseteq DOMAIN rows \cup {issued'}
      /\ \A id \in DOMAIN rows' :
           IF id = issued' THEN /\ rows'[id].session = SessionOf(s) /\ rows'[id].at = now
                                /\ History(rows'[id]) = input \o <<issued'>>
           ELSE rows'[id] = rows[id]
  BY RowsAfterAnswer
<1>4. \A u \in Session : \A id \in DOMAIN heard'[u] :
        \/ id \in DOMAIN heard[u] /\ id # issued' /\ heard'[u][id] = heard[u][id]
        \/ u = s /\ id = issued' /\ heard'[u][id] = said \o <<issued'>>
  <2>1. CASE heard' = heard
    BY <1>1, <1>2, <2>1
  <2>2. CASE heard' = [heard EXCEPT ![s] = WithRow(heard[s], issued', said \o <<issued'>>)]
    <3> DEFINE told == WithRow(heard[s], issued', said \o <<issued'>>)
    <3>1. /\ DOMAIN told = DOMAIN heard[s] \cup {issued'}
          /\ \A i \in DOMAIN told : told[i] = IF i = issued' THEN said \o <<issued'>> ELSE heard[s][i]
      BY DEF WithRow
    <3> HIDE DEF told
    <3>2. \A u \in Session : heard'[u] = IF u = s THEN told ELSE heard[u]
      BY <1>1, <2>2 DEF told
    <3>3. \A u \in Session : issued' \notin DOMAIN heard[u]
      BY <1>1, <1>2
    <3>4. \A u \in Session \ {s} : heard'[u] = heard[u]
      BY <3>2
    <3>5. heard'[s] = told
      BY <3>2
    <3> QED BY <3>1, <3>3, <3>4, <3>5
  <2> QED BY <1>2, <2>1, <2>2
<1>5. SUFFICES ASSUME NEW t \in Session \ Anonymous, NEW id \in DOMAIN heard'[t], id \in DOMAIN rows'
               PROVE  SameConversation(History(rows'[id]), heard'[t][id])
  BY DEF HistoryKept
<1>6. CASE id # issued'
  <2>1. id \in DOMAIN heard[t] /\ heard'[t][id] = heard[t][id]
    BY <1>4, <1>6
  <2>2. id \in DOMAIN rows /\ rows'[id] = rows[id]
    BY <1>3, <1>5, <1>6
  <2> QED BY <2>1, <2>2 DEF HistoryKept
<1>7. CASE id = issued'
  <2>1. t = s /\ heard'[t][id] = said \o <<issued'>>
    BY <1>4, <1>7
  <2>2. History(rows'[id]) = input \o <<issued'>>
    BY <1>3, <1>5, <1>7
  <2>3. SameConversation(input, said)
    BY <2>1 DEF HistoryKept, Usable
  <2>4. Item \subseteq Item' /\ issued' \in Item'
    BY <1>1, <1>2 DEF Item, Answer
  <2>5. input \in Seq(Item') /\ said \in Seq(Item') /\ <<issued'>> \in Seq(Item')
    BY <2>4, SeqGrows
  <2> QED BY <2>1, <2>2, <2>3, <2>5, SameGoesOn
<1> QED BY <1>6, <1>7

\* Every step keeps the histories.
LEMMA HistoryStays == ~Limits /\ ContentOK /\ StoreInv /\ HistoryKept /\ [Next]_vars => HistoryKept'
<1> SUFFICES ASSUME ~Limits, ContentOK, StoreInv, HistoryKept, [Next]_vars PROVE HistoryKept'
  OBVIOUS
<1>1. CASE Restarts
  <2>1. /\ DOMAIN rows' \subseteq DOMAIN rows
        /\ \A id \in DOMAIN rows' : rows'[id] = rows[id]
        /\ heard' = heard
    BY <1>1, PrunedIsPart DEF Restarts
  <2> QED BY <2>1 DEF HistoryKept
<1>2. CASE Tick \/ ClockIsSetBack \/ UNCHANGED vars
  BY <1>2 DEF Tick, ClockIsSetBack, vars, HistoryKept
<1> QED
  BY <1>1, <1>2, StepsAreWell, HistoryStep

\* put() and expand(): the history of an answer is the conversation the session had, whatever
\* was refused, rewound, pruned or started again; only repetitions may be missing.
THEOREM AlwaysKept == ~Limits /\ Spec => []HistoryKept
<1> SUFFICES ASSUME ~Limits PROVE Spec => []HistoryKept
  OBVIOUS
<1>1. Init => HistoryKept
  BY DEF Init, HistoryKept
<1>2. ContentOK /\ StoreInv /\ HistoryKept /\ [Next]_vars => HistoryKept'
  BY HistoryStays
<1> QED
  BY ContentAtFirst, ContentKept, InitiallyStored, StoreStep, <1>1, <1>2, PTL DEF Spec
=============================================================================
