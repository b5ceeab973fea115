---------------------------- MODULE MCExecution ----------------------------
(***************************************************************************)
(* The instances of Execution that TLC checks: two chat requests and one   *)
(* title request on two aliases, one place in the queue (so that the third *)
(* request can be turned away) and two web rounds.                         *)
(***************************************************************************)
EXTENDS Execution

CONSTANTS c1, c2, t1, plan, build

Requests3 == {c1, c2, t1}
Titles    == {t1}
Aliases   == {plan, build}
Routes    == [r \in Requests3 |-> IF r = c2 THEN plan ELSE build]
=============================================================================
