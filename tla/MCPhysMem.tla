----------------------------- MODULE MCPhysMem -----------------------------
(* The physical memory manager on a bitmap of a few bytes, the last of     *)
(* them partial, from memory maps of two and three entries.                *)
EXTENDS MemoryMap

\* Addresses below 8 are those of the boot frames; 3 lies inside one of them.
Entries ==
  {e \in [addr : {0, 3, 8, 12}, len : {4, 5, 8}, type : {1, 2, 3}] : e.addr + e.len <= Word}

\* A small PC: base memory that ends inside a frame, the memory behind it reserved,
\* memory again, and tables and firmware up to the end of the address space.
Computer ==
  <<[addr |-> 0, len |-> 5, type |-> 1], [addr |-> 5, len |-> 1, type |-> 2],
    [addr |-> 6, len |-> 2, type |-> 2], [addr |-> 8, len |-> 4, type |-> 1],
    [addr |-> 12, len |-> 2, type |-> 3], [addr |-> 14, len |-> 2, type |-> 2]>>

SmallMaps == UNION {[1 .. n -> Entries] : n \in {2, 3}} \cup {Computer}

\* A computer whose memory does not fit below 2^32: its second half is mapped
\* behind the address space.
LargeComputer ==
  {<<[addr |-> 0, len |-> 8, type |-> 1], [addr |-> 8, len |-> 4, type |-> 2],
     [addr |-> Word, len |-> 8, type |-> 1]>>}
=============================================================================
