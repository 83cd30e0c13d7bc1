-------------------------- MODULE MCAddressSpaces --------------------------
(* Address spaces of two user page tables over a few frames. *)
EXTENDS AddressSpaces, TLC

\* Segments as the linker makes them, of one page and of two, and one in a page
\* of kernel space that is not mapped.
AlignedSegments == {<<6, 2>>, <<8, 3>>, <<14, 2>>}

\* A history is followed as far as the first directory that is made from stale
\* memory: what the run checks says nothing of what comes after.
WhileClean == clean

Symmetry == Permutations(Dir) \cup Permutations(Table)
=============================================================================
