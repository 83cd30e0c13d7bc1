----------------------------- MODULE MCUserHeap -----------------------------
(* The heap of a user program with a few small pages. *)
EXTENDS UserHeap
=============================================================================
