---------------------------- MODULE BufferAllocator ----------------------------
(***************************************************************************)
(* What kmalloc, krealloc and kfree promise their callers, whatever the    *)
(* allocator behind them does: a buffer lies in the memory the allocator   *)
(* manages, and no two buffers in use at one time share a byte.            *)
(***************************************************************************)
EXTENDS Integers

CONSTANTS
  First, End,    \* the allocator's memory is First .. End - 1
  Sizes          \* the sizes callers ask for

VARIABLE live    \* live[p]: the size of the buffer at p, 0 when there is none

Address == First .. End - 1

\* Where buffers are in use.
Buffers == {p \in Address : live[p] > 0}

\* A buffer of size bytes at p lies in memory and overlaps no other buffer.
Room(p, size) ==
  /\ size > 0 /\ p + size <= End
  /\ \A q \in Address : q # p /\ live[q] > 0 =>
       p + size <= q \/ q + live[q] <= p

Init == live = [p \in Address |-> 0]

\* kmalloc, kmalloc_a, kcalloc
Alloc(p, size) ==
  /\ live[p] = 0
  /\ Room(p, size)
  /\ live' = [live EXCEPT ![p] = size]

\* kfree
Free(p) ==
  /\ live[p] > 0
  /\ live' = [live EXCEPT ![p] = 0]

\* krealloc that keeps the buffer where it is
Resize(p, size) ==
  /\ live[p] > 0
  /\ Room(p, size)
  /\ live' = [live EXCEPT ![p] = size]

\* krealloc that moves the buffer from p to q: the old buffer still exists
\* while its contents are copied
Move(p, q, size) ==
  /\ Room(q, size)
  /\ live' = [live EXCEPT ![q] = size, ![p] = 0]

Next ==
  \/ \E p \in Address : Free(p)
  \/ \E p \in Address, size \in Sizes : Alloc(p, size) \/ Resize(p, size)
  \/ \E p \in Buffers, q \in Address \ Buffers, size \in Sizes : Move(p, q, size)

Spec == Init /\ [][Next]_live
================================================================================
