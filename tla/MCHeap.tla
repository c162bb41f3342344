------------------------------- MODULE MCHeap -------------------------------
(* An instance of Heap for TLC. *)
EXTENDS Heap

\* Calls a client may make: none, within a paragraph, at and past its end
MCRequests == {0, 16, 17, 48}
=============================================================================
