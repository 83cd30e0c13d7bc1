---------------------------- MODULE MCProcesses ----------------------------
(* Processes on a small heap. *)
EXTENDS Processes, TLC

\* A negative exit code and one that does not fit a byte.
MCExitCodes == {-1, 256}

AllImages == ImageKind

\* kmalloc may return any free address.
Symmetry == Permutations(Proc) \cup Permutations(Dir)
=============================================================================
