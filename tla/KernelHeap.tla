------------------------------ MODULE KernelHeap ------------------------------
(***************************************************************************)
(* The kernel heap (kernel/src/memory/kheap.c): a best-fit allocator over  *)
(* one contiguous arena, whose blocks carry a header in front of their     *)
(* data and are chained in a doubly linked list, and the bump-pointer      *)
(* placement memory that serves kmalloc until kheap_init has run.          *)
(*                                                                         *)
(* Addresses are natural numbers and NULL is 0, as in the code.  A heap is *)
(* a record of functions on addresses: magic is the set of addresses at    *)
(* which memory holds KHEAP_MAGIC, size, free, prev and next are the other *)
(* fields of the header at an address (all zero where memory holds no      *)
(* header), tail is kheap_tail; kheap_head is HeapBase for good once       *)
(* kheap_init has run.  Data bytes are not modelled: callers are assumed   *)
(* to stay inside the buffers they were given, so that only the allocator  *)
(* writes headers.                                                         *)
(*                                                                         *)
(* live is the callers' view: live[p] is the number of bytes the owner of  *)
(* the pointer p asked for, 0 when nobody owns p.                          *)
(***************************************************************************)
EXTENDS Integers

CONSTANTS
  HeaderSize,      \* sizeof(kheap_block_t)
  PageSize,        \* PAGE_SIZE, the alignment of kmalloc_a
  PlacementBase,   \* address of kheap_placement_memory
  PlacementSize,   \* KHEAP_PLACEMENT_SIZE
  HeapBase,        \* kheap_base, as vmm_map_memory returns it
  HeapSize,        \* KHEAP_HEAP_SIZE
  Sizes            \* the sizes callers ask for

ASSUME KernelHeapAssumption ==
  /\ HeaderSize \in Nat \ {0}
  /\ PageSize \in Nat \ {0}
  /\ PlacementBase \in Nat \ {0}
  /\ PlacementSize \in Nat
  /\ HeapBase \in Nat
  /\ HeapBase >= PlacementBase + PlacementSize
  /\ HeapSize \in Nat
  /\ HeapSize > HeaderSize
  /\ Sizes \subseteq Nat

NULL == 0

HeapEnd == HeapBase + HeapSize
HeapAddress == HeapBase .. HeapEnd - 1
Address == PlacementBase .. HeapEnd - 1

VARIABLES
  kheap_enabled,   \* kheap_enabled
  placement_free,  \* kheap_placement_memory_free_memory
  heap,            \* the block list in the arena
  live             \* the callers' view, see above

vars == <<kheap_enabled, placement_free, heap, live>>

-----------------------------------------------------------------------------
(* Alignment (vmm.h).  PAGE_SIZE is a power of two, so that clearing the   *)
(* low bits is rounding to a multiple.                                     *)

IsAligned(a) == a % PageSize = 0
AlignUp(a) == a + ((PageSize - (a % PageSize)) % PageSize)

-----------------------------------------------------------------------------
(* The two list surgeries of the allocator.                                *)

\* Mutant: the successor keeps its old prev pointer.
SplitKeepsPrev(h, b, n) ==
  [magic |-> h.magic \cup {n},
   size  |-> [h.size EXCEPT ![b] = n - b - HeaderSize, ![n] = h.size[b] - (n - b)],
   free  |-> [h.free EXCEPT ![n] = TRUE],
   prev  |-> [h.prev EXCEPT ![n] = b],
   next  |-> [h.next EXCEPT ![b] = n, ![n] = h.next[b]],
   tail  |-> IF h.next[b] = NULL THEN n ELSE h.tail]

\* Writes a header at n, inside the data of block b: the new block is free
\* and takes what lies behind it, b keeps what lies before it.
Split(h, b, n) ==
  [magic |-> h.magic \cup {n},
   size  |-> [h.size EXCEPT ![b] = n - b - HeaderSize,
                            ![n] = h.size[b] - (n - b)],
   free  |-> [h.free EXCEPT ![n] = TRUE],
   prev  |-> [a \in HeapAddress |-> IF a = n THEN b
                                    ELSE IF a = h.next[b] THEN n
                                    ELSE h.prev[a]],
   next  |-> [h.next EXCEPT ![b] = n, ![n] = h.next[b]],
   tail  |-> IF h.next[b] = NULL THEN n ELSE h.tail]

\* Mutant: the header that disappears is not wiped.
AbsorbKeepsMagic(h, b, t) ==
  LET s == h.size[b] + h.size[t] + HeaderSize
  IN [magic |-> h.magic,
      size  |-> [h.size EXCEPT ![b] = s],
      free  |-> h.free,
      prev  |-> [a \in HeapAddress |-> IF a = h.next[t] THEN b ELSE h.prev[a]],
      next  |-> [h.next EXCEPT ![b] = h.next[t]],
      tail  |-> IF h.next[t] = NULL THEN b ELSE h.tail]

\* Block b swallows the block t that follows it and memset clears the data
\* of the union, the header of t with it.
Absorb(h, b, t) ==
  LET s == h.size[b] + h.size[t] + HeaderSize
      zeroed == b + HeaderSize .. b + HeaderSize + s - 1
  IN [magic |-> h.magic \ zeroed,
      size  |-> [a \in HeapAddress |-> IF a = b THEN s
                                       ELSE IF a \in zeroed THEN 0
                                       ELSE h.size[a]],
      free  |-> [a \in HeapAddress |-> a \notin zeroed /\ h.free[a]],
      prev  |-> [a \in HeapAddress |-> IF a \in zeroed THEN NULL
                                       ELSE IF a = h.next[t] THEN b
                                       ELSE h.prev[a]],
      next  |-> [a \in HeapAddress |-> IF a = b THEN h.next[t]
                                       ELSE IF a \in zeroed THEN NULL
                                       ELSE h.next[a]],
      tail  |-> IF h.next[t] = NULL THEN b ELSE h.tail]

-----------------------------------------------------------------------------
(* kheap_find_best_fit.  The code walks the list from kheap_head and keeps *)
(* the first block of the smallest fitting size.  ListWellFormed below     *)
(* says that the walk meets exactly the headers, in address order, so the  *)
(* block it returns is the lowest of the smallest.                         *)

\* The distance from the data of block b to the first page boundary that
\* leaves room for another header.
AlignPadding(b) == AlignUp(b + 2 * HeaderSize) - (b + HeaderSize)

NeedsPadding(b, align) == align /\ ~IsAligned(b + HeaderSize)

\* Mutant: the room that the padding takes is forgotten.
FitsIgnoringPadding(h, b, size, align) == h.free[b] /\ h.size[b] >= size

Fits(h, b, size, align) ==
  /\ h.free[b]
  /\ h.size[b] >= size
  /\ NeedsPadding(b, align) => h.size[b] >= size + AlignPadding(b)

BestFits(h, size, align) ==
  LET fitting == {b \in h.magic : Fits(h, b, size, align)}
  IN {b \in fitting : \A c \in fitting :
        h.size[b] < h.size[c] \/ (h.size[b] = h.size[c] /\ b <= c)}

FindBestFit(h, size, align) ==
  IF BestFits(h, size, align) = {} THEN NULL
  ELSE CHOOSE b \in BestFits(h, size, align) : TRUE

-----------------------------------------------------------------------------
(* kmalloc_heap: what it returns and the heap it leaves.                   *)

\* Mutant: the block that is handed out stays marked free when it is split.
OccupyKeepsFree(h, b, size) ==
  IF h.size[b] - size > HeaderSize
  THEN Split(h, b, b + size + HeaderSize)
  ELSE [h EXCEPT !.free[b] = FALSE]

\* Takes block b for a buffer of size bytes; the rest becomes a block of
\* its own when it has room for more than a header.
Occupy(h, b, size) ==
  LET taken == [h EXCEPT !.free[b] = FALSE]
  IN IF h.size[b] - size > HeaderSize
     THEN Split(taken, b, b + size + HeaderSize)
     ELSE taken

KMallocHeap(h, size, align) ==
  LET best == FindBestFit(h, size, align)
      data == AlignUp(best + 2 * HeaderSize) - HeaderSize
  IN IF size = 0 \/ best = NULL
     THEN [heap |-> h, ptr |-> NULL]
     ELSE IF ~NeedsPadding(best, align)
     THEN [heap |-> Occupy(h, best, size), ptr |-> best + HeaderSize]
     ELSE IF h.size[best] >= size + AlignPadding(best)
     THEN [heap |-> Occupy(Split(h, best, data), data, size),
           ptr  |-> data + HeaderSize]
     ELSE [heap |-> h, ptr |-> NULL]

-----------------------------------------------------------------------------
(* kfree.                                                                  *)

\* kheap_is_valid_heap_address
IsValidHeapAddress(h, p) ==
  /\ p >= HeapBase + HeaderSize
  /\ p < HeapEnd
  /\ p - HeaderSize \in h.magic

IsFreeBlock(h, b) == b # NULL /\ b \in h.magic /\ h.free[b]

MergeNext(h, b) ==
  IF IsFreeBlock(h, h.next[b]) THEN Absorb(h, b, h.next[b]) ELSE h

\* Mutant: only the next block is merged.
ReleaseForwardOnly(h, b) == MergeNext([h EXCEPT !.free[b] = TRUE], b)

\* Block b becomes free and is merged with a free block before it and then
\* with a free block behind it.
Release(h, b) ==
  LET freed == [h EXCEPT !.free[b] = TRUE]
      before == h.prev[b]
  IN IF IsFreeBlock(freed, before)
     THEN MergeNext(Absorb(freed, before, b), before)
     ELSE MergeNext(freed, b)

KFreeHeap(h, p) ==
  IF p # NULL /\ IsValidHeapAddress(h, p) THEN Release(h, p - HeaderSize) ELSE h

-----------------------------------------------------------------------------
(* The operations.                                                         *)

ZeroHeap ==
  [magic |-> {},
   size  |-> [a \in HeapAddress |-> 0],
   free  |-> [a \in HeapAddress |-> FALSE],
   prev  |-> [a \in HeapAddress |-> NULL],
   next  |-> [a \in HeapAddress |-> NULL],
   tail  |-> NULL]

\* The heap as kheap_init leaves it: one free block.
FreshHeap ==
  [magic |-> {HeapBase},
   size  |-> [ZeroHeap.size EXCEPT ![HeapBase] = HeapSize - HeaderSize],
   free  |-> [ZeroHeap.free EXCEPT ![HeapBase] = TRUE],
   prev  |-> ZeroHeap.prev,
   next  |-> ZeroHeap.next,
   tail  |-> HeapBase]

Init ==
  /\ kheap_enabled = FALSE
  /\ placement_free = PlacementSize
  /\ heap = ZeroHeap
  /\ live = [a \in Address |-> 0]

KHeapInit ==
  /\ ~kheap_enabled
  /\ kheap_enabled' = TRUE
  /\ heap' = FreshHeap
  /\ UNCHANGED <<placement_free, live>>

\* The callers' view after p was handed out for size bytes.
Granted(owned, p, size) == [owned EXCEPT ![p] = size]
Dropped(owned, p) == [owned EXCEPT ![p] = 0]

PlacementHead == PlacementBase + PlacementSize - placement_free

\* kmalloc, kmalloc_a and kcalloc before kheap_init.  A request for no bytes
\* consumes its padding and gives its caller nothing to use.
KMallocPlacement(size, align) ==
  LET addr == IF align THEN AlignUp(PlacementHead) ELSE PlacementHead
      total == size + (addr - PlacementHead)
  IN /\ ~kheap_enabled
     /\ total <= placement_free
     /\ placement_free' = placement_free - total
     /\ live' = IF size = 0 THEN live ELSE Granted(live, addr, size)
     /\ UNCHANGED <<kheap_enabled, heap>>

\* kmalloc, kmalloc_a and kcalloc after kheap_init.  A failing request
\* leaves everything as it was.
KMalloc(size, align) ==
  LET r == KMallocHeap(heap, size, align)
  IN /\ kheap_enabled
     /\ r.ptr # NULL
     /\ heap' = r.heap
     /\ live' = Granted(live, r.ptr, size)
     /\ UNCHANGED <<kheap_enabled, placement_free>>

\* kfree(p) by the owner of p.  A pointer into the placement memory is
\* ignored: its memory is gone for good.
KFree(p) ==
  /\ live[p] > 0
  /\ heap' = IF kheap_enabled THEN KFreeHeap(heap, p) ELSE heap
  /\ live' = Dropped(live, p)
  /\ UNCHANGED <<kheap_enabled, placement_free>>

\* dir_close, dir_open and initfs_unmount free a node's name and then the
\* node; the name is the first member of the node, so this is kfree(p) twice.
KFreeNode(p) ==
  /\ live[p] > 0
  /\ heap' = IF kheap_enabled THEN KFreeHeap(KFreeHeap(heap, p), p) ELSE heap
  /\ live' = Dropped(live, p)
  /\ UNCHANGED <<kheap_enabled, placement_free>>

\* krealloc(p, size) by the owner of p with a size that is not 0 (with size 0
\* it is KFree, with p = NULL it is KMalloc) when p is a pointer into the
\* heap; for any other p krealloc returns NULL and changes nothing.
\* The block may already be large enough ...
KReallocInPlace(p, size) ==
  /\ kheap_enabled /\ live[p] > 0 /\ size > 0
  /\ IsValidHeapAddress(heap, p)
  /\ heap.size[p - HeaderSize] >= size
  /\ live' = Granted(live, p, size)
  /\ UNCHANGED <<kheap_enabled, placement_free, heap>>

\* Mutant: the old block is freed before the new one is found.
KReallocMoveFreesFirst(p, size) ==
  LET r == KMallocHeap(KFreeHeap(heap, p), size, FALSE)
  IN /\ kheap_enabled /\ live[p] > 0 /\ size > 0
     /\ IsValidHeapAddress(heap, p)
     /\ heap.size[p - HeaderSize] < size
     /\ heap' = r.heap
     /\ live' = IF r.ptr = NULL THEN live ELSE Granted(Dropped(live, p), r.ptr, size)
     /\ UNCHANGED <<kheap_enabled, placement_free>>

\* ... or its contents move to a new block and the old one is freed.
KReallocMove(p, size) ==
  LET r == KMallocHeap(heap, size, FALSE)
  IN /\ kheap_enabled /\ live[p] > 0 /\ size > 0
     /\ IsValidHeapAddress(heap, p)
     /\ heap.size[p - HeaderSize] < size
     /\ r.ptr # NULL
     /\ heap' = KFreeHeap(r.heap, p)
     /\ live' = Dropped(Granted(live, r.ptr, size), p)
     /\ UNCHANGED <<kheap_enabled, placement_free>>

Next ==
  \/ KHeapInit
  \/ \E size \in Sizes, align \in BOOLEAN :
       KMallocPlacement(size, align) \/ KMalloc(size, align)
  \/ \E p \in Address : KFree(p) \/ KFreeNode(p)
  \/ \E p \in Address, size \in Sizes :
       KReallocInPlace(p, size) \/ KReallocMove(p, size)

Spec == Init /\ [][Next]_vars
-----------------------------------------------------------------------------
(* Properties.                                                             *)

\* The values the variables take.
HeapType ==
  [magic : SUBSET HeapAddress,
   size  : [HeapAddress -> Nat],
   free  : [HeapAddress -> BOOLEAN],
   prev  : [HeapAddress -> Nat],
   next  : [HeapAddress -> Nat],
   tail  : Nat]

TypeOK ==
  /\ kheap_enabled \in BOOLEAN
  /\ placement_free \in 0 .. PlacementSize
  /\ heap \in HeapType
  /\ live \in [Address -> Nat]

\* The first address behind block b.
EndOf(h, b) == b + HeaderSize + h.size[b]

\* The headers tile the memory up to end without a gap or an overlap.
Tiled(h, end) ==
  /\ HeapBase \in h.magic /\ h.magic \subseteq HeapBase .. end - 1
  /\ \A b \in h.magic : EndOf(h, b) = end \/ EndOf(h, b) \in h.magic
  /\ \A b, c \in h.magic : b < c => EndOf(h, b) <= c

\* next and prev lead from block to block in address order, tail is the last
\* block.
Linked(h, end) ==
  \A b \in h.magic :
    /\ h.next[b] = IF EndOf(h, b) = end THEN NULL ELSE EndOf(h, b)
    /\ h.next[b] # NULL => h.prev[h.next[b]] = b
    /\ h.next[b] = NULL => h.tail = b
    /\ b # HeapBase => h.prev[b] \in h.magic /\ EndOf(h, h.prev[b]) = b
    /\ b = HeapBase => h.prev[b] = NULL

\* No two free blocks are neighbours, so free memory is never fragmented
\* without need.
Coalesced(h, end) ==
  \A b \in h.magic : h.free[b] => EndOf(h, b) = end \/ ~h.free[EndOf(h, b)]

\* After kheap_init, whatever kmalloc, kmalloc_a, krealloc and kfree did, the
\* headers in memory (and only they carry the magic number kfree trusts) tile
\* the arena and the list that kheap_find_best_fit walks visits each of them
\* once, in address order; freed neighbours have been merged.
ListWellFormed ==
  kheap_enabled => Tiled(heap, HeapEnd) /\ Linked(heap, HeapEnd) /\ Coalesced(heap, HeapEnd)

\* owned gives every busy block of heap h to one owner, who asked for no more
\* than it holds, and nothing else in the arena to anybody.
OwnedBy(h, owned) ==
  /\ \A p \in Address : owned[p] > 0 /\ p >= HeapBase =>
       /\ p - HeaderSize \in h.magic
       /\ ~h.free[p - HeaderSize]
       /\ owned[p] <= h.size[p - HeaderSize]
  /\ \A b \in h.magic : ~h.free[b] =>
       /\ b + HeaderSize < HeapEnd
       /\ owned[b + HeaderSize] > 0

\* Every buffer a caller owns in the heap has a block of its own that is not
\* free and holds all its bytes, and every block that is not free is owned:
\* kfree, krealloc and the splits in kmalloc_heap neither lose a block nor
\* take one from its owner.
BlocksMatchOwners == kheap_enabled => OwnedBy(heap, live)

\* Two buffers that are in use at the same time never overlap, whether they
\* come from the placement memory or from the heap.
LiveBuffersDisjoint ==
  \A p, q \in Address :
    live[p] > 0 /\ live[q] > 0 /\ p < q => p + live[p] <= q

\* No header lies inside a buffer that is in use, so that neither a caller
\* overwrites a header nor the allocator a caller's data.
HeadersOutsideBuffers ==
  kheap_enabled =>
    \A p \in Address, b \in heap.magic :
      live[p] > 0 => b + HeaderSize <= p \/ b >= p + live[p]

\* Freeing a node's name and then the node, one address, is freeing it once:
\* the second kfree finds either no magic number or a free block whose
\* neighbours are taken (dir_close, initfs_unmount).
DoubleFreeHarmless ==
  kheap_enabled =>
    \A p \in Address : live[p] > 0 =>
      LET once == KFreeHeap(heap, p) IN KFreeHeap(once, p) = once

\* Once every heap buffer has been freed, the heap is the one block kheap_init made:
\* no sequence of calls loses memory to fragmentation or leaves a stray header.
FreedHeapIsFresh ==
  kheap_enabled /\ (\A p \in Address : p >= HeapBase => live[p] = 0)
    => /\ heap.magic = {HeapBase} /\ heap.tail = HeapBase
       /\ heap.free[HeapBase] /\ heap.size[HeapBase] = HeapSize - HeaderSize
       /\ heap.prev[HeapBase] = NULL /\ heap.next[HeapBase] = NULL

\* The addresses at which block b could hold size bytes on a page boundary
\* with a header in front, and another header for the padding if need be.
AlignedPlaces(h, b, size) ==
  {a \in HeapAddress :
     /\ IsAligned(a)
     /\ a = b + HeaderSize \/ a >= b + 2 * HeaderSize
     /\ a + size <= EndOf(h, b)}

\* kmalloc_a returns page boundaries only, and it fails only when no free
\* block has an aligned place for the request.
AlignedAllocationExact ==
  kheap_enabled =>
    \A size \in Sizes \ {0} :
      LET p == KMallocHeap(heap, size, TRUE).ptr
      IN IF p = NULL
         THEN \A b \in heap.magic :
                heap.free[b] => AlignedPlaces(heap, b, size) = {}
         ELSE IsAligned(p)

\* The heap keeps what BufferAllocator promises: every step of kmalloc, kfree
\* and krealloc is one of its steps or changes nothing a caller sees.
Promise == INSTANCE BufferAllocator WITH First <- PlacementBase, End <- HeapEnd
ImplementsAllocator == Promise!Spec
===============================================================================
