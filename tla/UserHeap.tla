------------------------------- MODULE UserHeap -------------------------------
(***************************************************************************)
(* The heap of a user program (libc/src/stdlib/malloc.c over hmap_alloc,   *)
(* libsys/src/hmap.c).  The block list is that of the kernel heap, and     *)
(* malloc, free and realloc split and merge blocks as kmalloc_heap, kfree  *)
(* and krealloc do, so the operators of KernelHeap are used for them.      *)
(* What differs is where the memory comes from: there is none until the    *)
(* first malloc, and a malloc that finds no block asks the kernel for one  *)
(* page, once, whatever size it was asked for.                             *)
(*                                                                         *)
(* limit is the first address behind the memory the kernel has granted     *)
(* (heap_limit + 1 in the kernel); heap_head is HeapBase once there is     *)
(* memory.  The kernel may refuse a page at any time: other processes      *)
(* compete for frames.                                                     *)
(***************************************************************************)
EXTENDS Integers

CONSTANTS
  HeaderSize,   \* sizeof(heap_block_t)
  PageSize,     \* HEAP_PAGE_SIZE
  HeapBase,     \* where vmm_map_memory puts the first page
  MaxPages,     \* bound: the pages the kernel has for this program
  Sizes         \* the sizes the program asks for

ASSUME UserHeapAssumption ==
  /\ HeaderSize \in Nat \ {0}
  /\ PageSize \in Nat
  /\ PageSize > HeaderSize
  /\ HeapBase \in Nat \ {0}
  /\ MaxPages \in Nat \ {0}
  /\ Sizes \subseteq Nat

HeapSize == MaxPages * PageSize
HeapEnd == HeapBase + HeapSize
Address == HeapBase .. HeapEnd - 1

VARIABLES
  limit,   \* the end of the granted memory
  heap,    \* the block list, as in KernelHeap
  live     \* live[p]: what the program asked for at p, 0 if p is not in use

vars == <<limit, heap, live>>

\* The block operations, over an arena as large as the heap can ever become.
Blocks == INSTANCE KernelHeap WITH
            PlacementBase <- HeapBase, PlacementSize <- 0,
            kheap_enabled <- (limit > HeapBase), placement_free <- 0

NULL == Blocks!NULL

-----------------------------------------------------------------------------
(* heap_increase_size(1), when the kernel grants the page.                 *)

\* Mutant: the page always becomes a block of its own.
GrownAlwaysAppends(h, lim) ==
  LET b == lim
      room == [h EXCEPT !.magic = @ \cup {b},
                        !.size[b] = PageSize - HeaderSize,
                        !.free[b] = TRUE]
  IN IF h.tail = NULL
     THEN [room EXCEPT !.tail = b]
     ELSE [room EXCEPT !.prev[b] = h.tail, !.next[h.tail] = b, !.tail = b]

\* Mutant: the new block is not chained to the old tail.
GrownUnlinked(h, lim) ==
  LET b == lim
      room == [h EXCEPT !.magic = @ \cup {b},
                        !.size[b] = PageSize - HeaderSize,
                        !.free[b] = TRUE]
  IN IF h.tail = NULL
     THEN [room EXCEPT !.tail = b]
     ELSE IF h.free[h.tail]
     THEN [h EXCEPT !.size[h.tail] = @ + PageSize]
     ELSE [room EXCEPT !.prev[b] = h.tail, !.tail = b]

\* The page at lim becomes the first block, is added to a free tail, or
\* becomes a new block behind a tail in use.
Grown(h, lim) ==
  LET b == lim
      room == [h EXCEPT !.magic = @ \cup {b},
                        !.size[b] = PageSize - HeaderSize,
                        !.free[b] = TRUE]
  IN IF h.tail = NULL
     THEN [room EXCEPT !.tail = b]
     ELSE IF h.free[h.tail]
     THEN [h EXCEPT !.size[h.tail] = @ + PageSize]
     ELSE [room EXCEPT !.prev[b] = h.tail, !.next[h.tail] = b, !.tail = b]

\* What heap_increase_size(1) can leave behind: the kernel grants a page
\* right behind the last one, or refuses.
Increased(m) ==
  {[ok |-> FALSE, limit |-> m.limit, heap |-> m.heap]} \cup
  IF m.limit < HeapEnd
  THEN {[ok |-> TRUE, limit |-> m.limit + PageSize, heap |-> Grown(m.heap, m.limit)]}
  ELSE {}

\* heap_is_valid_address
IsValidAddress(h, p) ==
  /\ p >= HeapBase + HeaderSize
  /\ p <= h.tail + HeaderSize
  /\ p - HeaderSize \in h.magic

\* free(p)
Freed(h, p) ==
  IF p # NULL /\ IsValidAddress(h, p) THEN Blocks!Release(h, p - HeaderSize) ELSE h

\* malloc once a block is chosen.
Taken(m, size) ==
  LET best == Blocks!FindBestFit(m.heap, size, FALSE)
  IN IF best = NULL
     THEN [limit |-> m.limit, heap |-> m.heap, ptr |-> NULL]
     ELSE [limit |-> m.limit, heap |-> Blocks!Occupy(m.heap, best, size),
           ptr |-> best + HeaderSize]

\* malloc(size): every outcome [limit, heap, ptr] the kernel's answers allow.
Malloc(m, size) ==
  LET fail(n) == [limit |-> n.limit, heap |-> n.heap, ptr |-> NULL]
      started == IF m.heap.tail = NULL THEN Increased(m) ELSE {[m EXCEPT !.ok = TRUE]}
  IN UNION {
       IF ~s.ok \/ size = 0
       THEN {fail(s)}
       ELSE IF Blocks!FindBestFit(s.heap, size, FALSE) # NULL
       THEN {Taken(s, size)}
       ELSE {IF i.ok THEN Taken(i, size) ELSE fail(i) : i \in Increased(s)}
       : s \in started}

Now == [ok |-> TRUE, limit |-> limit, heap |-> heap]

-----------------------------------------------------------------------------

Init ==
  /\ limit = HeapBase
  /\ heap = Blocks!ZeroHeap
  /\ live = [a \in Address |-> 0]

\* malloc and calloc by the program, whether they succeed or not.
DoMalloc(size) ==
  \E r \in Malloc(Now, size) :
    /\ limit' = r.limit
    /\ heap' = r.heap
    /\ live' = IF r.ptr = NULL THEN live ELSE [live EXCEPT ![r.ptr] = size]

\* free by the owner of p.
DoFree(p) ==
  /\ live[p] > 0
  /\ heap' = Freed(heap, p)
  /\ live' = [live EXCEPT ![p] = 0]
  /\ UNCHANGED limit

\* realloc(p, size) by the owner of p (for p = NULL it is malloc, for size 0
\* it is free): the block is large enough ...
ReallocInPlace(p, size) ==
  /\ live[p] > 0 /\ size > 0
  /\ IsValidAddress(heap, p)
  /\ heap.size[p - HeaderSize] >= size
  /\ live' = [live EXCEPT ![p] = size]
  /\ UNCHANGED <<limit, heap>>

\* Mutant: the old block is given up although malloc failed.
ReallocMoveAlwaysFrees(p, size) ==
  /\ live[p] > 0 /\ size > 0
  /\ IsValidAddress(heap, p)
  /\ heap.size[p - HeaderSize] < size
  /\ \E r \in Malloc(Now, size) :
       /\ limit' = r.limit
       /\ heap' = Freed(r.heap, p)
       /\ live' = IF r.ptr = NULL THEN live
                  ELSE [live EXCEPT ![r.ptr] = size, ![p] = 0]

\* ... or malloc finds another one; when it fails the old block stays with
\* its owner, and a page malloc obtained in vain stays in the heap.
ReallocMove(p, size) ==
  /\ live[p] > 0 /\ size > 0
  /\ IsValidAddress(heap, p)
  /\ heap.size[p - HeaderSize] < size
  /\ \E r \in Malloc(Now, size) :
       /\ limit' = r.limit
       /\ heap' = IF r.ptr = NULL THEN r.heap ELSE Freed(r.heap, p)
       /\ live' = IF r.ptr = NULL THEN live
                  ELSE [live EXCEPT ![r.ptr] = size, ![p] = 0]

Next ==
  \/ \E size \in Sizes : DoMalloc(size)
  \/ \E p \in Address : DoFree(p)
  \/ \E p \in Address, size \in Sizes : ReallocInPlace(p, size) \/ ReallocMove(p, size)

Spec == Init /\ [][Next]_vars
-----------------------------------------------------------------------------
(* Properties.                                                             *)

\* The blocks tile the memory granted so far, are chained both ways in address
\* order up to heap_tail, and no two free blocks are neighbours: a page that
\* heap_increase_size obtains is merged with a free tail, and free merges the
\* rest.  The single-page growth of malloc relies on it to ever serve a request
\* larger than a page.
UserListWellFormed ==
  IF limit = HeapBase
  THEN heap = Blocks!ZeroHeap
  ELSE /\ Blocks!Tiled(heap, limit)
       /\ Blocks!Linked(heap, limit)
       /\ Blocks!Coalesced(heap, limit)

\* When the program has freed everything, all memory it ever obtained is one
\* free block again: nothing is lost in the pages that were added one by one.
UserHeapReusable ==
  (limit > HeapBase /\ \A p \in Address : live[p] = 0) =>
    heap = [Blocks!ZeroHeap EXCEPT
              !.magic = {HeapBase}, !.tail = HeapBase, !.free[HeapBase] = TRUE,
              !.size[HeapBase] = limit - HeapBase - HeaderSize]

\* malloc, calloc, realloc and free implement the allocator of disjoint buffers
\* that kmalloc and kfree implement, while the memory grows under them and the
\* kernel refuses pages.
Allocator == INSTANCE BufferAllocator WITH First <- HeapBase, End <- HeapEnd
ImplementsUserAllocator == Allocator!Spec
================================================================================
