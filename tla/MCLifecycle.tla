---------------------------- MODULE MCLifecycle ----------------------------
(***************************************************************************)
(* The instances of Lifecycle that TLC checks: two Codex windows, and a    *)
(* doctor beside a self-test.                                              *)
(***************************************************************************)
EXTENDS Lifecycle, TLC

CONSTANTS a, b, d, t

Windows == {a, b}
Tools   == {d, t}
Kinds   == [l \in Launcher |-> IF l = d THEN "doctor"
                               ELSE IF l = t THEN "selftest" ELSE "codex"]
\* Two windows differ in nothing; used by the run that checks no liveness.
Exchange == Permutations(Windows)
=============================================================================
