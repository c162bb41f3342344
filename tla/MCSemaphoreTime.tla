--------------------------- MODULE MCSemaphoreTime --------------------------
(* Instances of SemaphoreTime for TLC. *)
EXTENDS SemaphoreTime, TLC

CONSTANTS a, b, c
=============================================================================
