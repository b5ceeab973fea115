---------------------------- MODULE SlotService ----------------------------
(***************************************************************************)
(* What the router promises to its clients: a service with one active slot *)
(* and a bounded number of requests inside.  A request is admitted, waits, *)
(* becomes active while nobody else is, and is answered once; it may leave *)
(* at any moment (deadline, disconnect, refusal); it is turned away only   *)
(* when the service is full.                                               *)
(***************************************************************************)
EXTENDS Naturals, FiniteSets

CONSTANTS Request,    \* the requests clients may send
          Capacity    \* how many may be inside at once, a positive number

VARIABLE stage        \* stage[r]: where request r is

Stage == {"new", "waiting", "active", "answered", "turnedAway"}

Inside == {r \in Request : stage[r] \in {"waiting", "active"}}
SlotFree == \A r \in Request : stage[r] # "active"

Init == stage = [r \in Request |-> "new"]

TurnAway(r) ==
  /\ stage[r] = "new"
  /\ Cardinality(Inside) >= Capacity
  /\ stage' = [stage EXCEPT ![r] = "turnedAway"]

Admit(r) ==
  /\ stage[r] = "new"
  /\ Cardinality(Inside) < Capacity
  /\ \/ stage' = [stage EXCEPT ![r] = "waiting"]
     \/ SlotFree /\ stage' = [stage EXCEPT ![r] = "active"]
     \/ SlotFree /\ stage' = [stage EXCEPT ![r] = "answered"]

Activate(r) ==
  /\ stage[r] = "waiting"
  /\ SlotFree
  /\ stage' = [stage EXCEPT ![r] = "active"]

Answer(r) ==
  /\ stage[r] \in {"waiting", "active"}
  /\ stage' = [stage EXCEPT ![r] = "answered"]

Next == \E r \in Request : TurnAway(r) \/ Admit(r) \/ Activate(r) \/ Answer(r)

Spec == Init /\ [][Next]_stage

=============================================================================
