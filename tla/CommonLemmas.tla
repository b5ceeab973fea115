------------------------------ MODULE CommonLemmas ------------------------------
(***************************************************************************)
(* What the proofs need to know of the operators they share: that Min and   *)
(* Max are elements of the set, how MapThenSumSet changes with the set and  *)
(* with the numbers, what PickedAt picks, and what stands where in two      *)
(* sequences one behind the other.  The library's induction theorems take   *)
(* an operator as a parameter; here, the least counterexample takes their   *)
(* place (WFMin for the order of the natural numbers).                      *)
(***************************************************************************)
EXTENDS Integers, Sequences, FiniteSets, FiniteSetsExt, Places, FiniteSetTheorems,
        SequenceTheorems, WellFoundedInduction, TLAPS

\* A natural number that is not less is at least as great.
LEMMA LessOrNot == \A x, y \in Nat : ~(y < x) => x =< y
  OBVIOUS

\* Of two natural numbers, one is not before the other in the order of WFMin.
LEMMA NotBefore ==
  ASSUME NEW x \in Nat, NEW y \in Nat, <<y, x>> \notin OpToRel(<, Nat)
  PROVE  x =< y
<1>1. <<y, x>> \in Nat \X Nat /\ <<y, x>>[1] = y /\ <<y, x>>[2] = x
  OBVIOUS
<1>2. ~(<<y, x>>[1] < <<y, x>>[2])
  BY <1>1, Zenon DEF OpToRel
<1>3. ~(y < x)
  BY <1>1, <1>2, Zenon
<1> QED
  BY <1>3, LessOrNot, Zenon

\* A set of natural numbers has a least element.
LEMMA LeastExists ==
  ASSUME NEW S, S \subseteq Nat, S # {}
  PROVE  \E x \in S : \A y \in S : x =< y
<1>1. PICK x \in S : \A y \in S : <<y, x>> \notin OpToRel(<, Nat)
  BY NatLessThanWellFounded, WFMin, Zenon
<1> QED
  BY <1>1, NotBefore

\* Min is the least element.
LEMMA LeastIsOne ==
  ASSUME NEW S, S \subseteq Nat, S # {}
  PROVE  Min(S) \in S /\ \A y \in S : Min(S) =< y
<1>1. PICK x \in S : \A y \in S : x =< y
  BY LeastExists
<1> QED
  BY <1>1 DEF Min

\* A finite set of natural numbers has a greatest one: a smallest set without one, less an
\* element, has one.
LEMMA GreatestExists ==
  ASSUME NEW S, S \subseteq Nat, S # {}, IsFiniteSet(S)
  PROVE  \E x \in S : \A y \in S : y =< x
<1> DEFINE Greatest(T) == \E x \in T : \A y \in T : y =< x
           Without == {T \in SUBSET S : T # {} /\ ~Greatest(T)}
           Sizes == {Cardinality(T) : T \in Without}
<1> SUFFICES ASSUME S \in Without PROVE FALSE
  OBVIOUS
<1>1. \A T \in SUBSET S : IsFiniteSet(T) /\ Cardinality(T) \in Nat
  BY FS_Subset, FS_CardinalityType
<1>2. Sizes \subseteq Nat /\ Sizes # {}
  BY <1>1
<1>3. PICK n \in Sizes : \A k \in Sizes : n =< k
  <2> HIDE DEF Sizes
  <2> QED
    BY <1>2, LeastExists
<1>4. PICK T \in Without : Cardinality(T) = n
  OBVIOUS
<1>5. PICK x \in T : TRUE
  OBVIOUS
<1>6. T \ {x} \in SUBSET S /\ Cardinality(T \ {x}) = Cardinality(T) - 1
  BY <1>1, <1>5, FS_RemoveElement
<1>7. T \ {x} \notin Without
  <2> SUFFICES ASSUME T \ {x} \in Without PROVE FALSE
    OBVIOUS
  <2>1. n =< Cardinality(T \ {x})
    BY <1>3
  <2>2. Cardinality(T) \in Nat
    BY <1>1
  <2> HIDE DEF Without
  <2> QED
    BY <1>4, <1>6, <2>1, <2>2
<1>8. CASE T \ {x} = {}
  BY <1>4, <1>5, <1>8
<1>9. CASE T \ {x} # {}
  <2>1. PICK z \in T \ {x} : \A y \in T \ {x} : y =< z
    BY <1>6, <1>7, <1>9
  <2>2. CASE z =< x
    BY <1>4, <1>5, <2>1, <2>2
  <2>3. CASE x =< z
    BY <1>4, <1>5, <2>1, <2>3
  <2> QED
    BY <1>4, <1>5, <2>1, <2>2, <2>3
<1> QED
  BY <1>8, <1>9

\* Max is the greatest element of a finite set.
LEMMA GreatestIsOne ==
  ASSUME NEW S, S \subseteq Nat, S # {}, IsFiniteSet(S)
  PROVE  Max(S) \in S /\ \A y \in S : y =< Max(S)
<1>1. PICK x \in S : \A y \in S : x >= y
  BY GreatestExists
<1> QED
  BY <1>1 DEF Max

\* GreatestExists and the sums below go from a set to what is left of it.
LEMMA SmallestSubset ==
  ASSUME NEW S, IsFiniteSet(S), NEW B, B \subseteq SUBSET S, B # {}
  PROVE  \E s \in B : \A x \in s : s \ {x} \notin B
<1> DEFINE Sizes == {Cardinality(s) : s \in B}
<1>1. \A s \in SUBSET S : IsFiniteSet(s) /\ Cardinality(s) \in Nat
  BY FS_Subset, FS_CardinalityType
<1>2. Sizes \subseteq Nat /\ Sizes # {}
  BY <1>1
<1>3. PICK n \in Sizes : \A k \in Sizes : n =< k
  <2> HIDE DEF Sizes
  <2> QED
    BY <1>2, LeastExists
<1>4. PICK s \in B : Cardinality(s) = n
  OBVIOUS
<1>5. ASSUME NEW x \in s, s \ {x} \in B PROVE FALSE
  <2>1. n =< Cardinality(s \ {x})
    BY <1>3, <1>5
  <2>2. IsFiniteSet(s) /\ Cardinality(s) \in Nat
    BY <1>1
  <2>3. Cardinality(s \ {x}) = Cardinality(s) - 1
    BY <2>2, FS_RemoveElement
  <2> QED
    BY <1>4, <2>1, <2>2, <2>3
<1> QED
  BY <1>5

-----------------------------------------------------------------------------
\* What MapThenSumSet computes of w, a function on S: SumOf is the form the modules use.
SumOf(w, S) == MapThenSumSet(LAMBDA x : w[x], S)
\* A sum by taking out one element after the other.
One(s) == CHOOSE x \in s : TRUE
\* f gives the sums over the subsets of S.
SumsTo(f, S, w) ==
  f = [s \in SUBSET S |-> IF s = {} THEN 0 ELSE w[One(s)] + f[s \ {One(s)}]]

\* The recursive function of MapThenSumSet exists: one step for each size of the subsets.
LEMMA SumExists ==
  ASSUME NEW S, IsFiniteSet(S), NEW w
  PROVE  \E f : SumsTo(f, S, w)
<1> DEFINE Upto(n) == {s \in SUBSET S : Cardinality(s) =< n}
           Sums(f, n) == f = [s \in Upto(n) |-> IF s = {} THEN 0 ELSE w[One(s)] + f[s \ {One(s)}]]
           Without == {n \in Nat : ~\E f : Sums(f, n)}
<1>1. \A s \in SUBSET S : IsFiniteSet(s) /\ Cardinality(s) \in Nat
  BY FS_Subset, FS_CardinalityType
<1>2. \A s \in SUBSET S : s # {} => /\ One(s) \in s /\ s \ {One(s)} \in SUBSET S
                                    /\ Cardinality(s \ {One(s)}) = Cardinality(s) - 1
  <2> SUFFICES ASSUME NEW s \in SUBSET S, s # {}
      PROVE  /\ One(s) \in s /\ s \ {One(s)} \in SUBSET S
             /\ Cardinality(s \ {One(s)}) = Cardinality(s) - 1
    OBVIOUS
  <2>1. One(s) \in s
    BY DEF One
  <2> QED
    BY <1>1, <2>1, FS_RemoveElement
<1>3. Without = {}
  <2> SUFFICES ASSUME Without # {} PROVE FALSE
    OBVIOUS
  <2>1. PICK n \in Without : \A k \in Without : n =< k
    <3>1. Without \subseteq Nat
      OBVIOUS
    <3> HIDE DEF Without
    <3> QED
      BY <3>1, LeastExists
  <2>2. CASE n = 0
    <3>1. \A s \in Upto(0) : s = {}
      <4> SUFFICES ASSUME NEW s \in Upto(0), s # {} PROVE FALSE
        OBVIOUS
      <4>1. Cardinality(s) = 0 /\ Cardinality(s \ {One(s)}) \in Nat
        BY <1>1, <1>2
      <4>2. Cardinality(s \ {One(s)}) = Cardinality(s) - 1
        BY <1>2
      <4> HIDE DEF Upto
      <4> QED
        BY <4>1, <4>2
    <3>2. Sums([s \in Upto(0) |-> 0], 0)
      BY <3>1
    <3> QED
      BY <2>1, <2>2, <3>2
  <2>3. CASE n # 0
    <3>1. n - 1 \in Nat /\ n - 1 \notin Without
      <4>1. n \in Nat /\ n - 1 \in Nat
        BY <2>1, <2>3
      <4>2. n - 1 \in Without => n =< n - 1
        BY <2>1
      <4> HIDE DEF Without
      <4> QED
        BY <4>1, <4>2
    <3>2. PICK f : Sums(f, n - 1)
      BY <3>1
    <3> DEFINE g == [s \in Upto(n) |-> IF s = {} THEN 0 ELSE w[One(s)] + f[s \ {One(s)}]]
    <3>3. \A s \in Upto(n) : s # {} => s \ {One(s)} \in Upto(n - 1) /\ s \ {One(s)} \in Upto(n)
      BY <1>1, <1>2, <2>1
    <3>4. \A s \in Upto(n - 1) : s \in Upto(n) /\ f[s] = g[s]
      <4> SUFFICES ASSUME NEW s \in Upto(n - 1) PROVE s \in Upto(n) /\ f[s] = g[s]
        OBVIOUS
      <4>1. s \in Upto(n)
        BY <1>1, <2>1
      <4>2. f[s] = IF s = {} THEN 0 ELSE w[One(s)] + f[s \ {One(s)}]
        BY <3>2, Zenon
      <4> QED
        BY <4>1, <4>2
    <3>5. \A s \in Upto(n) : s # {} => g[s \ {One(s)}] = f[s \ {One(s)}]
      BY <3>3, <3>4
    <3>6. Sums(g, n)
      BY <3>5
    <3> QED
      BY <2>1, <3>6
  <2> QED
    BY <2>2, <2>3
<1>4. PICK f : Sums(f, Cardinality(S))
  BY <1>1, <1>3
<1>5. Upto(Cardinality(S)) = SUBSET S
  <2>1. \A s \in SUBSET S : Cardinality(s) =< Cardinality(S)
    BY FS_Subset
  <2> QED
    BY <2>1
<1>6. SumsTo(f, S, w)
  BY <1>4, <1>5 DEF SumsTo
<1> QED
  BY <1>6

\* MapThenSumSet is the sum over the whole set.
LEMMA SumOfIsSum ==
  ASSUME NEW S, IsFiniteSet(S), NEW w
  PROVE  \E f : SumsTo(f, S, w) /\ SumOf(w, S) = f[S]
<1>1. \E f : SumsTo(f, S, w)
  BY SumExists
<1> QED
  BY <1>1 DEF SumOf, MapThenSumSet, MapThenFoldSet, SumsTo, One

\* The sums as an equation.
LEMMA SumStep ==
  ASSUME NEW S, NEW w, NEW f, SumsTo(f, S, w)
  PROVE  /\ f[{}] = 0
         /\ \A s \in SUBSET S : s # {} => One(s) \in s /\ f[s] = w[One(s)] + f[s \ {One(s)}]
<1>1. \A s \in SUBSET S : f[s] = IF s = {} THEN 0 ELSE w[One(s)] + f[s \ {One(s)}]
  BY Zenon DEF SumsTo
<1>2. \A s \in SUBSET S : s # {} => One(s) \in s
  BY DEF One
<1> QED
  BY <1>1, <1>2

\* Sums of natural numbers are natural numbers.
LEMMA SumIsNat ==
  ASSUME NEW S, IsFiniteSet(S), NEW w, \A x \in S : w[x] \in Nat, NEW f, SumsTo(f, S, w)
  PROVE  \A s \in SUBSET S : f[s] \in Nat
<1> DEFINE Without == {s \in SUBSET S : f[s] \notin Nat}
<1> SUFFICES ASSUME Without # {} PROVE FALSE
  OBVIOUS
<1>1. PICK s \in Without : \A x \in s : s \ {x} \notin Without
  <2>1. Without \subseteq SUBSET S
    OBVIOUS
  <2> HIDE DEF Without
  <2> QED
    BY <2>1, SmallestSubset
<1>2. s # {} /\ One(s) \in s /\ f[s] = w[One(s)] + f[s \ {One(s)}]
  <2>1. f[{}] \in Nat /\ f[s] \notin Nat /\ s \in SUBSET S
    BY <1>1, SumStep
  <2>2. s # {}
    BY <2>1
  <2> QED
    BY <2>1, <2>2, SumStep
<1>3. w[One(s)] \in Nat /\ f[s \ {One(s)}] \in Nat
  BY <1>1, <1>2
<1> QED
  BY <1>1, <1>2, <1>3

\* Whichever element is taken out first, the sum is the same.
LEMMA SumTakesOut ==
  ASSUME NEW S, IsFiniteSet(S), NEW w, \A x \in S : w[x] \in Nat, NEW f, SumsTo(f, S, w)
  PROVE  \A s \in SUBSET S : \A x \in s : f[s] = w[x] + f[s \ {x}]
<1>0. \A s \in SUBSET S : s # {} => One(s) \in s /\ f[s] = w[One(s)] + f[s \ {One(s)}]
  BY SumStep
<1> DEFINE Without == {s \in SUBSET S : ~\A x \in s : f[s] = w[x] + f[s \ {x}]}
<1> SUFFICES ASSUME Without # {} PROVE FALSE
  OBVIOUS
<1>1. PICK s \in Without : \A x \in s : s \ {x} \notin Without
  <2>1. Without \subseteq SUBSET S
    OBVIOUS
  <2> HIDE DEF Without
  <2> QED
    BY <2>1, SmallestSubset
<1>2. PICK x \in s : f[s] # w[x] + f[s \ {x}]
  BY <1>1
<1> DEFINE c == One(s)
<1>3. c \in s /\ f[s] = w[c] + f[s \ {c}] /\ c # x
  <2>1. s \in SUBSET S /\ s # {}
    BY <1>1, <1>2
  <2>2. c \in s /\ f[s] = w[c] + f[s \ {c}]
    BY <1>0, <2>1
  <2> HIDE DEF c
  <2> QED
    BY <1>2, <2>2
<1> HIDE DEF c
<1>4. f[s \ {c}] = w[x] + f[(s \ {c}) \ {x}]
  BY <1>1, <1>2, <1>3
<1>5. f[s \ {x}] = w[c] + f[(s \ {x}) \ {c}]
  BY <1>1, <1>2, <1>3
<1>6. f[(s \ {x}) \ {c}] = f[(s \ {c}) \ {x}]
  <2>1. (s \ {x}) \ {c} = (s \ {c}) \ {x}
    OBVIOUS
  <2> QED
    BY <2>1, Zenon
<1>7. w[c] \in Nat /\ w[x] \in Nat /\ f[(s \ {c}) \ {x}] \in Nat
  <2>1. (s \ {c}) \ {x} \in SUBSET S
    BY <1>1
  <2> QED
    BY <1>1, <1>2, <1>3, <2>1, SumIsNat
<1> HIDE DEF Without
<1> QED
  BY <1>2, <1>3, <1>4, <1>5, <1>6, <1>7

\* A sum depends on the numbers that are summed, and on nothing else.
LEMMA SumAgrees ==
  ASSUME NEW S, NEW T, IsFiniteSet(S), NEW w, NEW v, NEW f, SumsTo(f, S, w), NEW g, SumsTo(g, T, v),
         S \subseteq T, \A x \in S : w[x] = v[x]
  PROVE  \A s \in SUBSET S : f[s] = g[s]
<1> DEFINE Without == {s \in SUBSET S : f[s] # g[s]}
<1> SUFFICES ASSUME Without # {} PROVE FALSE
  OBVIOUS
<1>1. PICK s \in Without : \A x \in s : s \ {x} \notin Without
  <2>1. Without \subseteq SUBSET S
    OBVIOUS
  <2> HIDE DEF Without
  <2> QED
    BY <2>1, SmallestSubset
<1>2. s # {} /\ f[s] # g[s] /\ s \in SUBSET S /\ s \in SUBSET T
  <2>1. f[{}] = g[{}]
    BY SumStep
  <2> QED
    BY <1>1, <2>1
<1>3. /\ One(s) \in s /\ f[s] = w[One(s)] + f[s \ {One(s)}]
      /\ g[s] = v[One(s)] + g[s \ {One(s)}]
  BY <1>2, SumStep
<1>4. f[s \ {One(s)}] = g[s \ {One(s)}]
  BY <1>1, <1>3
<1> QED
  BY <1>2, <1>3, <1>4

\* The same of SumOf.
LEMMA SumOfIsNat ==
  ASSUME NEW S, IsFiniteSet(S), NEW w, \A x \in S : w[x] \in Nat
  PROVE  SumOf(w, S) \in Nat
  BY SumOfIsSum, SumIsNat

\* The empty sum.
LEMMA SumOfNothing ==
  ASSUME NEW w
  PROVE  SumOf(w, {}) = 0
  BY SumOfIsSum, SumStep, FS_EmptySet

\* Equal numbers have equal sums.
LEMMA SumOfSame ==
  ASSUME NEW S, IsFiniteSet(S), NEW w, NEW v, \A x \in S : w[x] = v[x]
  PROVE  SumOf(w, S) = SumOf(v, S)
<1>1. PICK f : SumsTo(f, S, w) /\ SumOf(w, S) = f[S]
  BY SumOfIsSum
<1>2. PICK g : SumsTo(g, S, v) /\ SumOf(v, S) = g[S]
  BY SumOfIsSum
<1>3. \A s \in SUBSET S : f[s] = g[s]
  BY <1>1, <1>2, SumAgrees, S \subseteq S
<1> QED
  BY <1>1, <1>2, <1>3

\* An element can be taken out of a sum, whatever MapThenSumSet takes first.
LEMMA SumOfElement ==
  ASSUME NEW S, IsFiniteSet(S), NEW w, \A x \in S : w[x] \in Nat, NEW x \in S
  PROVE  SumOf(w, S) = w[x] + SumOf(w, S \ {x})
<1>1. PICK f : SumsTo(f, S, w) /\ SumOf(w, S) = f[S]
  BY SumOfIsSum
<1>2. IsFiniteSet(S \ {x})
  BY FS_RemoveElement
<1>3. PICK g : SumsTo(g, S \ {x}, w) /\ SumOf(w, S \ {x}) = g[S \ {x}]
  BY <1>2, SumOfIsSum
<1>4. g[S \ {x}] = f[S \ {x}]
  BY <1>1, <1>2, <1>3, SumAgrees
<1>5. f[S] = w[x] + f[S \ {x}]
  BY <1>1, SumTakesOut
<1> QED
  BY <1>1, <1>3, <1>4, <1>5

\* One number that grows makes the sum grow by as much.
LEMMA SumOfGrows ==
  ASSUME NEW S, IsFiniteSet(S), NEW w, \A x \in S : w[x] \in Nat, NEW y \in S, NEW t \in Nat,
         NEW v, \A x \in S : v[x] = IF x = y THEN w[x] + t ELSE w[x]
  PROVE  SumOf(v, S) = SumOf(w, S) + t
<1>1. SumOf(w, S) = w[y] + SumOf(w, S \ {y})
  BY SumOfElement
<1>2. \A x \in S : v[x] \in Nat
  OBVIOUS
<1>3. SumOf(v, S) = v[y] + SumOf(v, S \ {y})
  BY <1>2, SumOfElement
<1>4. IsFiniteSet(S \ {y})
  BY FS_RemoveElement
<1>5. SumOf(v, S \ {y}) = SumOf(w, S \ {y}) /\ SumOf(w, S \ {y}) \in Nat
  BY <1>4, SumOfSame, SumOfIsNat
<1> QED
  BY <1>1, <1>3, <1>5

\* A sum of zeros.
LEMMA SumOfZeros ==
  ASSUME NEW S, IsFiniteSet(S), NEW w, \A x \in S : w[x] = 0
  PROVE  SumOf(w, S) = 0
<1>1. PICK f : SumsTo(f, S, w) /\ SumOf(w, S) = f[S]
  BY SumOfIsSum
<1>2. /\ f[{}] = 0
      /\ \A s \in SUBSET S : s # {} => One(s) \in s /\ f[s] = w[One(s)] + f[s \ {One(s)}]
  BY <1>1, SumStep
<1> DEFINE Without == {s \in SUBSET S : f[s] # 0}
<1>3. ASSUME Without # {} PROVE FALSE
  <2>1. PICK s \in Without : \A x \in s : s \ {x} \notin Without
    <3>1. Without \subseteq SUBSET S
      OBVIOUS
    <3> HIDE DEF Without
    <3> QED
      BY <1>3, <3>1, SmallestSubset
  <2>2. s \in SUBSET S /\ f[s] # 0 /\ s # {}
    BY <1>2, <2>1
  <2>3. One(s) \in s /\ f[s] = w[One(s)] + f[s \ {One(s)}] /\ w[One(s)] = 0
    BY <1>2, <2>2
  <2>4. f[s \ {One(s)}] = 0
    BY <2>1, <2>3
  <2> QED
    BY <2>2, <2>3, <2>4
<1> QED
  BY <1>1, <1>3, S \in SUBSET S

\* What is added to a set adds to the sum, at most the largest number for each element.
LEMMA SumOfMore ==
  ASSUME NEW S, IsFiniteSet(S), NEW w, NEW m \in Nat, \A x \in S : w[x] \in 0..m,
         NEW T \in SUBSET S
  PROVE  /\ SumOf(w, T) =< SumOf(w, S)
         /\ SumOf(w, S) =< SumOf(w, T) + m * Cardinality(S \ T)
<1>1. IsFiniteSet(S \ T) /\ \A x \in S : w[x] \in Nat
  BY FS_Subset, S \ T \subseteq S
<1>2. \A s \in SUBSET (S \ T) : /\ IsFiniteSet(T \cup s) /\ SumOf(w, T \cup s) \in Nat
                                /\ IsFiniteSet(s) /\ Cardinality(s) \in Nat
  <2> TAKE s \in SUBSET (S \ T)
  <2>1. IsFiniteSet(T \cup s) /\ IsFiniteSet(s)
    <3>1. T \cup s \in SUBSET S /\ s \in SUBSET S
      OBVIOUS
    <3> QED BY <3>1, FS_Subset
  <2>2. \A x \in T \cup s : w[x] \in Nat
    BY <1>1
  <2> QED BY <2>1, <2>2, SumOfIsNat, FS_CardinalityType
<1> DEFINE Bounded(s) == /\ SumOf(w, T) =< SumOf(w, T \cup s)
                         /\ SumOf(w, T \cup s) =< SumOf(w, T) + m * Cardinality(s)
           Without == {s \in SUBSET (S \ T) : ~Bounded(s)}
<1>3. ASSUME Without # {} PROVE FALSE
  <2>1. PICK s \in Without : \A x \in s : s \ {x} \notin Without
    <3>1. Without \subseteq SUBSET (S \ T)
      OBVIOUS
    <3> HIDE DEF Without
    <3> QED BY <1>1, <1>3, <3>1, SmallestSubset
  <2>2. CASE s = {}
    <3>1. T \cup s = T /\ Cardinality(s) = 0 /\ SumOf(w, T) \in Nat
      BY <1>2, <2>1, <2>2, FS_EmptySet
    <3> QED BY <2>1, <3>1
  <2>3. ASSUME NEW x \in s PROVE FALSE
    <3> DEFINE before == SumOf(w, T \cup (s \ {x}))
               c == Cardinality(s \ {x})
    <3>1. Bounded(s \ {x}) /\ ~Bounded(s) /\ s \in SUBSET (S \ T) /\ s \ {x} \in SUBSET (S \ T)
      BY <2>1
    <3>2. (T \cup s) \ {x} = T \cup (s \ {x}) /\ x \in T \cup s
      BY <3>1
    <3>3. \A y \in T \cup s : w[y] \in Nat
      BY <1>1, <3>1
    <3>4. SumOf(w, T \cup s) = w[x] + before
      <4>1. IsFiniteSet(T \cup s)
        BY <1>2, <3>1
      <4>2. SumOf(w, T \cup s) = w[x] + SumOf(w, (T \cup s) \ {x})
        BY <3>2, <3>3, <4>1, SumOfElement
      <4> QED BY <3>2, <4>2
    <3>5. c \in Nat /\ Cardinality(s) = c + 1
      <4>1. IsFiniteSet(s) /\ Cardinality(s) \in Nat /\ c \in Nat
        BY <1>2, <3>1
      <4>2. c = Cardinality(s) - 1
        BY <4>1, FS_RemoveElement
      <4> QED BY <4>1, <4>2
    <3>6. before \in Nat /\ SumOf(w, T) \in Nat /\ w[x] \in 0..m
      <4>1. {} \in SUBSET (S \ T) /\ T \cup {} = T
        OBVIOUS
      <4> QED BY <1>2, <3>1, <4>1
    <3>7. SumOf(w, T) =< before /\ before =< SumOf(w, T) + m * c
      BY <3>1
    <3> HIDE DEF before, c
    <3>8. m * (c + 1) = m * c + m /\ m * c \in Nat
      BY <3>5
    <3>9. /\ SumOf(w, T) =< w[x] + before
          /\ w[x] + before =< SumOf(w, T) + m * (c + 1)
      BY <3>6, <3>7, <3>8
    <3> QED BY <3>1, <3>4, <3>5, <3>9
  <2> QED BY <2>2, <2>3
<1>4. Bounded(S \ T)
  BY <1>3
<1>5. T \cup (S \ T) = S
  OBVIOUS
<1> QED BY <1>4, <1>5

\* A sum is that of a part and that of the rest.
LEMMA SumOfUnion ==
  ASSUME NEW S, IsFiniteSet(S), NEW w, \A x \in S : w[x] \in Nat, NEW T \in SUBSET S
  PROVE  SumOf(w, S) = SumOf(w, T) + SumOf(w, S \ T)
<1> DEFINE Adds(s) == SumOf(w, S) = SumOf(w, s) + SumOf(w, S \ s)
           Without == {s \in SUBSET T : ~Adds(s)}
<1>1. \A s \in SUBSET S : IsFiniteSet(s) /\ (\A x \in s : w[x] \in Nat) /\ SumOf(w, s) \in Nat
  <2> SUFFICES ASSUME NEW s \in SUBSET S
      PROVE  IsFiniteSet(s) /\ (\A x \in s : w[x] \in Nat) /\ SumOf(w, s) \in Nat
    OBVIOUS
  <2>1. IsFiniteSet(s) /\ \A x \in s : w[x] \in Nat
    BY FS_Subset
  <2> QED BY <2>1, SumOfIsNat
<1>2. ASSUME Without # {} PROVE FALSE
  <2>1. PICK s \in Without : \A x \in s : s \ {x} \notin Without
    <3>1. Without \subseteq SUBSET T /\ IsFiniteSet(T)
      BY <1>1
    <3> HIDE DEF Without
    <3> QED BY <1>2, <3>1, SmallestSubset
  <2>2. s \in SUBSET T /\ s \in SUBSET S /\ ~Adds(s)
    BY <2>1
  <2>3. CASE s = {}
    <3>1. S \ s = S /\ SumOf(w, s) = 0
      BY <2>3, SumOfNothing
    <3>2. SumOf(w, S) \in Nat
      BY <1>1
    <3>3. Adds(s)
      BY <3>1, <3>2
    <3> QED BY <2>2, <3>3
  <2>4. ASSUME NEW x \in s PROVE FALSE
    <3> DEFINE r == s \ {x}
    <3>1. r \in SUBSET S /\ Adds(r) /\ x \in S \ r /\ (S \ r) \ {x} = S \ s
      BY <2>1, <2>2
    <3>2. SumOf(w, s) = w[x] + SumOf(w, r)
      BY <1>1, <2>2, SumOfElement
    <3>3. SumOf(w, S \ r) = w[x] + SumOf(w, S \ s)
      <4>1. SumOf(w, S \ r) = w[x] + SumOf(w, (S \ r) \ {x})
        <5>1. S \ r \in SUBSET S /\ x \in S \ r
          BY <3>1
        <5> HIDE DEF r
        <5> QED BY <1>1, <5>1, SumOfElement
      <4> QED BY <3>1, <4>1
    <3>4. SumOf(w, r) \in Nat /\ SumOf(w, S \ s) \in Nat /\ w[x] \in Nat
      BY <1>1, <2>2, <3>1
    <3> HIDE DEF r
    <3>5. Adds(s)
      BY <3>1, <3>2, <3>3, <3>4
    <3> QED BY <2>2, <3>5
  <2> QED BY <2>3, <2>4
<1>3. Adds(T)
  BY <1>2
<1> QED BY <1>3

\* v gives the sums of the classes of S.
SumsByClass(v, C, w, S, c) == \A k \in C : v[k] = SumOf(w, {x \in S : c[x] = k})
\* A sum class by class.
LEMMA SumOfParts ==
  ASSUME NEW S, IsFiniteSet(S), NEW w, \A x \in S : w[x] \in Nat,
         NEW C, IsFiniteSet(C), NEW c, \A x \in S : c[x] \in C,
         NEW v, SumsByClass(v, C, w, S, c)
  PROVE  SumOf(v, C) = SumOf(w, S)
<1> DEFINE Part(s) == {x \in S : c[x] \in s}
           Without == {s \in SUBSET C : SumOf(v, s) # SumOf(w, Part(s))}
<1>1. \A s : IsFiniteSet(Part(s)) /\ (\A x \in Part(s) : w[x] \in Nat) /\ SumOf(w, Part(s)) \in Nat
  <2> SUFFICES ASSUME NEW s
      PROVE  IsFiniteSet(Part(s)) /\ (\A x \in Part(s) : w[x] \in Nat) /\ SumOf(w, Part(s)) \in Nat
    OBVIOUS
  <2>1. IsFiniteSet(Part(s)) /\ \A x \in Part(s) : w[x] \in Nat
    <3>1. Part(s) \in SUBSET S
      OBVIOUS
    <3> QED BY <3>1, FS_Subset
  <2> HIDE DEF Part
  <2> QED BY <2>1, SumOfIsNat
<1>2. \A k \in C : v[k] = SumOf(w, Part({k}))
  <2> SUFFICES ASSUME NEW k \in C PROVE v[k] = SumOf(w, Part({k}))
    OBVIOUS
  <2>1. Part({k}) = {x \in S : c[x] = k}
    OBVIOUS
  <2> QED BY <2>1 DEF SumsByClass
<1>3. \A s \in SUBSET C : \A k \in s :
        SumOf(w, Part(s)) = SumOf(w, Part({k})) + SumOf(w, Part(s \ {k}))
  <2> SUFFICES ASSUME NEW s \in SUBSET C, NEW k \in s
      PROVE  SumOf(w, Part(s)) = SumOf(w, Part({k})) + SumOf(w, Part(s \ {k}))
    OBVIOUS
  <2>1. Part({k}) \in SUBSET Part(s) /\ Part(s) \ Part({k}) = Part(s \ {k})
    OBVIOUS
  <2> HIDE DEF Part
  <2>2. SumOf(w, Part(s)) = SumOf(w, Part({k})) + SumOf(w, Part(s) \ Part({k}))
    BY <1>1, <2>1, SumOfUnion
  <2> QED BY <2>1, <2>2
<1>4. Part({}) = {} /\ Part(C) = S
  OBVIOUS
<1> HIDE DEF Part
<1>5. ASSUME Without # {} PROVE FALSE
  <2>1. PICK s \in Without : \A k \in s : s \ {k} \notin Without
    <3>1. Without \subseteq SUBSET C
      OBVIOUS
    <3> HIDE DEF Without
    <3> QED BY <1>5, <3>1, SmallestSubset
  <2>2. s \in SUBSET C /\ SumOf(v, s) # SumOf(w, Part(s))
    BY <2>1
  <2>3. CASE s = {}
    BY <1>4, <2>2, <2>3, SumOfNothing
  <2>4. ASSUME NEW k \in s PROVE FALSE
    <3>1. IsFiniteSet(s) /\ \A l \in s : v[l] \in Nat
      BY <1>1, <1>2, <2>2, FS_Subset
    <3>2. SumOf(v, s) = v[k] + SumOf(v, s \ {k})
      BY <3>1, SumOfElement
    <3>3. s \ {k} \in SUBSET C /\ SumOf(v, s \ {k}) = SumOf(w, Part(s \ {k}))
      BY <2>1, <2>2
    <3> HIDE DEF Without
    <3> QED BY <1>2, <1>3, <2>2, <3>2, <3>3
  <2> QED BY <2>3, <2>4
<1>6. SumOf(v, C) = SumOf(w, Part(C))
  BY <1>5
<1> QED BY <1>4, <1>6

\* A sum over other names of the same things.
LEMMA SumOfImage ==
  ASSUME NEW S, IsFiniteSet(S), NEW w, \A x \in S : w[x] \in Nat,
         NEW f, \A x, y \in S : f[x] = f[y] => x = y,
         NEW v, \A x \in S : v[f[x]] = w[x]
  PROVE  SumOf(v, {f[x] : x \in S}) = SumOf(w, S)
<1> DEFINE Named(s) == {f[x] : x \in s}
           Without == {s \in SUBSET S : SumOf(v, Named(s)) # SumOf(w, s)}
<1>1. \A s \in SUBSET S :
        /\ IsFiniteSet(s) /\ IsFiniteSet(Named(s))
        /\ (\A x \in s : w[x] \in Nat) /\ (\A y \in Named(s) : v[y] \in Nat)
  <2> SUFFICES ASSUME NEW s \in SUBSET S
      PROVE  /\ IsFiniteSet(s) /\ IsFiniteSet(Named(s))
             /\ (\A x \in s : w[x] \in Nat) /\ (\A y \in Named(s) : v[y] \in Nat)
    OBVIOUS
  <2>1. IsFiniteSet(s)
    BY FS_Subset
  <2>2. IsFiniteSet(Named(s))
    <3> DEFINE g == [x \in s |-> f[x]]
    <3>1. g \in Surjection(s, Named(s))
      BY DEF Surjection
    <3> HIDE DEF g, Named
    <3> QED BY <2>1, <3>1, FS_Surjection
  <2> QED BY <2>1, <2>2
<1>2. \A s \in SUBSET S : \A x \in s : f[x] \in Named(s) /\ Named(s) \ {f[x]} = Named(s \ {x})
  OBVIOUS
<1>3. Named({}) = {}
  OBVIOUS
<1> HIDE DEF Named
<1>4. ASSUME Without # {} PROVE FALSE
  <2>1. PICK s \in Without : \A x \in s : s \ {x} \notin Without
    <3>1. Without \subseteq SUBSET S
      OBVIOUS
    <3> HIDE DEF Without
    <3> QED BY <1>4, <3>1, SmallestSubset
  <2>2. s \in SUBSET S /\ SumOf(v, Named(s)) # SumOf(w, s)
    BY <2>1
  <2>3. CASE s = {}
    BY <1>3, <2>2, <2>3, SumOfNothing
  <2>4. ASSUME NEW x \in s PROVE FALSE
    <3>1. SumOf(w, s) = w[x] + SumOf(w, s \ {x})
      BY <1>1, <2>2, SumOfElement
    <3>2. SumOf(v, Named(s)) = v[f[x]] + SumOf(v, Named(s) \ {f[x]})
      BY <1>1, <1>2, <2>2, SumOfElement
    <3>3. SumOf(v, Named(s \ {x})) = SumOf(w, s \ {x})
      BY <2>1, <2>2
    <3>4. v[f[x]] = w[x] /\ Named(s) \ {f[x]} = Named(s \ {x})
      BY <1>2, <2>2
    <3> HIDE DEF Without
    <3> QED BY <2>2, <3>1, <3>2, <3>3, <3>4
  <2> QED BY <2>3, <2>4
<1>5. SumOf(v, Named(S)) = SumOf(w, S)
  BY <1>4
<1> QED BY <1>5 DEF Named

\* A set by counting its elements.
LEMMA SumOfOnes ==
  ASSUME NEW S, IsFiniteSet(S), NEW w, \A x \in S : w[x] = 1
  PROVE  SumOf(w, S) = Cardinality(S)
<1> DEFINE Without == {s \in SUBSET S : SumOf(w, s) # Cardinality(s)}
<1>1. ASSUME Without # {} PROVE FALSE
  <2>1. PICK s \in Without : \A x \in s : s \ {x} \notin Without
    <3>1. Without \subseteq SUBSET S
      OBVIOUS
    <3> HIDE DEF Without
    <3> QED BY <1>1, <3>1, SmallestSubset
  <2>2. s \in SUBSET S /\ SumOf(w, s) # Cardinality(s)
    BY <2>1
  <2>3. IsFiniteSet(s) /\ \A x \in s : w[x] \in Nat
    BY <2>2, FS_Subset
  <2>4. CASE s = {}
    BY <2>2, <2>4, SumOfNothing, FS_EmptySet
  <2>5. ASSUME NEW x \in s PROVE FALSE
    <3>1. SumOf(w, s) = w[x] + SumOf(w, s \ {x})
      BY <2>3, SumOfElement
    <3>2. SumOf(w, s \ {x}) = Cardinality(s \ {x})
      BY <2>1, <2>2
    <3>3. Cardinality(s \ {x}) = Cardinality(s) - 1 /\ IsFiniteSet(s \ {x})
      BY <2>3, FS_RemoveElement
    <3>4. Cardinality(s) \in Nat /\ w[x] = 1
      BY <2>2, <2>3, FS_CardinalityType
    <3> HIDE DEF Without
    <3> QED BY <2>2, <3>1, <3>2, <3>3, <3>4
  <2> QED BY <2>4, <2>5
<1>2. SumOf(w, S) = Cardinality(S)
  BY <1>1
<1> QED BY <1>2

\* Finitely many natural numbers can be put in order.
LEMMA OrderExists ==
  ASSUME NEW P, P \subseteq Nat, IsFiniteSet(P)
  PROVE  \E f \in [1..Cardinality(P) -> P] :
           \A i, j \in 1..Cardinality(P) : i < j => f[i] < f[j]
<1> DEFINE Ordered(s) == \E f \in [1..Cardinality(s) -> s] :
                           \A i, j \in 1..Cardinality(s) : i < j => f[i] < f[j]
           Without == {s \in SUBSET P : ~Ordered(s)}
<1>1. ASSUME Without # {} PROVE FALSE
  <2>1. PICK s \in Without : \A x \in s : s \ {x} \notin Without
    <3>1. Without \subseteq SUBSET P
      OBVIOUS
    <3> HIDE DEF Without
    <3> QED BY <1>1, <3>1, SmallestSubset
  <2>2. s \in SUBSET P /\ ~Ordered(s) /\ IsFiniteSet(s)
    BY <2>1, FS_Subset
  <2>3. CASE s = {}
    <3>1. Cardinality(s) = 0
      BY <2>3, FS_EmptySet
    <3>2. 1..0 = {}
      OBVIOUS
    <3>3. [i \in 1..0 |-> 0] \in [1..0 -> s] /\ \A i, j \in 1..0 : FALSE
      BY <3>2
    <3> QED BY <2>2, <3>1, <3>3
  <2>4. CASE s # {}
    <3> DEFINE m == Max(s)
               rest == s \ {m}
               n == Cardinality(s)
    <3>1. m \in s /\ \A y \in s : y =< m
      BY <2>2, <2>4, GreatestIsOne
    <3> HIDE DEF m
    <3>2. IsFiniteSet(rest) /\ n \in Nat /\ Cardinality(rest) = n - 1 /\ n - 1 \in Nat
      <4>1. IsFiniteSet(rest) /\ Cardinality(rest) = n - 1
        BY <2>2, <3>1, FS_RemoveElement
      <4>2. n \in Nat /\ Cardinality(rest) \in Nat
        BY <2>2, <4>1, FS_CardinalityType
      <4> QED BY <4>1, <4>2
    <3>3. PICK f \in [1..n - 1 -> rest] : \A i, j \in 1..n - 1 : i < j => f[i] < f[j]
      <4>1. Ordered(rest)
        BY <2>1, <3>1
      <4> QED BY <3>2, <4>1
    <3> DEFINE g == [i \in 1..n |-> IF i = n THEN m ELSE f[i]]
    <3>4. \A i \in 1..n : i # n => i \in 1..n - 1 /\ f[i] \in rest
      BY <3>2, <3>3
    <3>5. \A y \in rest : y < m /\ y \in s
      BY <2>2, <3>1
    <3> HIDE DEF n, rest
    <3>6. g \in [1..n -> s]
      BY <3>1, <3>4, <3>5
    <3>7. \A i, j \in 1..n : i < j => g[i] < g[j]
      <4> SUFFICES ASSUME NEW i \in 1..n, NEW j \in 1..n, i < j PROVE g[i] < g[j]
        OBVIOUS
      <4>1. i # n
        BY <3>2
      <4>2. CASE j = n
        BY <3>4, <3>5, <4>1, <4>2
      <4>3. CASE j # n
        BY <3>3, <3>4, <4>1, <4>3
      <4> QED BY <4>2, <4>3
    <3>8. Ordered(s)
      BY <3>6, <3>7 DEF n
    <3> QED BY <2>2, <3>8
  <2> QED BY <2>3, <2>4
<1> QED BY <1>1

\* kept holds the items at the places P, each place once, in order.
Picked(kept, S, items, P) ==
  /\ kept \in Seq(S) /\ (kept = <<>> <=> P = {})
  /\ \E f \in [1..Len(kept) -> P] :
       /\ \A i, j \in 1..Len(kept) : i < j => f[i] < f[j]
       /\ \A p \in P : \E i \in 1..Len(kept) : f[i] = p
       /\ \A i \in 1..Len(kept) : kept[i] = items[f[i]]

\* PickedAt does.
LEMMA AtIs ==
  ASSUME NEW S, NEW items, NEW P, IsFiniteSet(P), P \subseteq Nat, \A p \in P : items[p] \in S
  PROVE  Picked(PickedAt(items, P), S, items, P)
<1> DEFINE n == Cardinality(P)
           f == CHOOSE f \in [1..n -> P] : \A i, j \in 1..n : i < j => f[i] < f[j]
<1>1. n \in Nat /\ (n = 0 <=> P = {})
  BY FS_CardinalityType, FS_EmptySet
<1>2. f \in [1..n -> P] /\ \A i, j \in 1..n : i < j => f[i] < f[j]
  BY OrderExists
<1>3. PickedAt(items, P) = [i \in 1..n |-> items[f[i]]]
  BY Zenon DEF PickedAt
<1> HIDE DEF f, n
<1>4. \A p \in P : \E i \in 1..n : f[i] = p
  <2>1. \A i, j \in 1..n : f[i] = f[j] => i = j
    <3> SUFFICES ASSUME NEW i \in 1..n, NEW j \in 1..n, f[i] = f[j], i # j PROVE FALSE
      OBVIOUS
    <3>1. f[i] \in P /\ f[j] \in P
      BY <1>2
    <3>2. f[i] \in Nat /\ f[j] \in Nat
      BY <3>1
    <3>3. CASE i < j
      BY <1>2, <3>2, <3>3
    <3>4. CASE j < i
      BY <1>2, <3>2, <3>4
    <3> QED BY <1>1, <3>3, <3>4
  <2>2. IsFiniteSet(1..n) /\ Cardinality(1..n) = n
    BY <1>1, FS_Interval
  <2>3. f \in Injection(1..n, P)
    BY <1>2, <2>1 DEF Injection, IsInjective
  <2>4. f \in Surjection(1..n, P)
    BY <2>2, <2>3, FS_Injection DEF n
  <2> QED BY <2>4 DEF Surjection
<1>5. PickedAt(items, P) \in Seq(S) /\ Len(PickedAt(items, P)) = n
  <2>1. \A i \in 1..n : items[f[i]] \in S
    BY <1>2
  <2>2. [i \in 1..n |-> items[f[i]]] \in [1..n -> S]
    BY <2>1
  <2> QED BY <1>1, <1>3, <2>2
<1>6. \A i \in 1..n : PickedAt(items, P)[i] = items[f[i]]
  BY <1>3
<1> HIDE DEF PickedAt
<1>7. PickedAt(items, P) = <<>> <=> P = {}
  BY <1>1, <1>5, EmptySeq
<1> QED BY <1>2, <1>4, <1>5, <1>6, <1>7 DEF Picked

\* The items of two sequences, one behind the other.
LEMMA PairIs ==
  ASSUME NEW S, NEW x \in Seq(S), NEW y \in Seq(S)
  PROVE  /\ x \o y \in Seq(S) /\ Len(x \o y) = Len(x) + Len(y)
         /\ Len(x) \in Nat /\ Len(y) \in Nat
         /\ \A i \in 1..Len(x) : (x \o y)[i] = x[i]
         /\ \A i \in 1..Len(y) : (x \o y)[Len(x) + i] = y[i]
<1>1. Len(x) \in Nat /\ Len(y) \in Nat
  BY LenProperties
<1>2. x \o y \in Seq(S) /\ Len(x \o y) = Len(x) + Len(y)
  BY ConcatProperties
<1>3. ASSUME NEW i \in 1..Len(x) PROVE (x \o y)[i] = x[i]
  BY <1>1
<1>4. ASSUME NEW i \in 1..Len(y) PROVE (x \o y)[Len(x) + i] = y[i]
  BY <1>1
<1> QED BY <1>1, <1>2, <1>3, <1>4
=============================================================================
