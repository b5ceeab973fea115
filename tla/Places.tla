-------------------------------- MODULE Places --------------------------------
(***************************************************************************)
(* What a loop over a list keeps of it: the items at some places, in their  *)
(* order.                                                                   *)
(***************************************************************************)
EXTENDS Integers, FiniteSets

PickedAt(sequence, places) ==
  LET n == Cardinality(places)
      order == CHOOSE f \in [1..n -> places] : \A i, j \in 1..n : i < j => f[i] < f[j]
  IN  [i \in 1..n |-> sequence[order[i]]]
=============================================================================
