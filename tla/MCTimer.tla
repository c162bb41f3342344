------------------------------ MODULE MCTimer -------------------------------
(* An instance of Timer for TLC. *)
EXTENDS Timer, TLC

CONSTANTS t1, t2, t3

Symmetry == Permutations(Timers)
=============================================================================
