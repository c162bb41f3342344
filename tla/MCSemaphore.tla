----------------------------- MODULE MCSemaphore ----------------------------
(* Instances of Semaphore for TLC. *)
EXTENDS Semaphore, TLC

CONSTANTS a, b, c

Symmetry == Permutations(Tasks)
=============================================================================
