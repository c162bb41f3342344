----------------------------- MODULE MCFileSys ------------------------------
(* An instance of FileSys for TLC. *)
EXTENDS FileSys, TLC

CONSTANTS a, b, c, f1, f2, f3

Symmetry == Permutations(Tasks) \cup Permutations(Files)
=============================================================================
