---------------------------- MODULE MCKernelHeap ----------------------------
(* The kernel heap on a small arena. *)
EXTENDS KernelHeap
=============================================================================
