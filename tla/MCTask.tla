------------------------------- MODULE MCTask -------------------------------
(* Instances of Task for TLC. *)
EXTENDS Task, TLC

CONSTANTS a, b

Symmetry == Permutations(Tasks \ {Main, Idle})
=============================================================================
