----------------------------- MODULE MCTaskDelay ----------------------------
(* Instances of TaskDelay for TLC. *)
EXTENDS TaskDelay, TLC

CONSTANTS a, b

Symmetry == Permutations(Tasks \ {Main, Idle})
=============================================================================
