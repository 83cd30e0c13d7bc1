------------------------------ MODULE MemoryMap ------------------------------
(***************************************************************************)
(* pmm_init: from the boot loader's memory map to the bitmap of PhysMem.   *)
(* The entries are sorted and cut where they overlap, in 32 bit            *)
(* arithmetic, and the frames of the available ones are released.  The     *)
(* entries themselves have 64 bits.                                        *)
(***************************************************************************)
EXTENDS PhysMem, Sequences

CONSTANTS
  FrameSize,   \* PMM_FRAME_SIZE
  Maps         \* memory maps: sequences of [addr, len, type]

\* 2^32: the physical address space, whose last address pmm.h leaves out
\* (PMM_PAS_SIZE), so that the last frame is not one of NumFrames; their number,
\* 0xFFFFF, is no multiple of 8, and the last frame has a bit.
Word == FrameSize * (NumFrames + 1)

ASSUME MemoryMapAssumption ==
  /\ FrameSize \in Nat \ {0}
  /\ NumFrames % FramesPerByte # 0
  /\ Maps \subseteq Seq([addr : Nat, len : Nat, type : Nat \ {0}])

Available == 1      \* MULTIBOOT_MEMORY_AVAILABLE; other types are larger

VARIABLES
  map,       \* the boot loader's memory map
  regions    \* pmm_memory_regions: [base, length, type]

mapVars == <<map, regions>>

Wrap(n) == n % Word

-----------------------------------------------------------------------------
(* pmm_fetch_memory_regions                                                *)

Truncated(entry) == [base |-> Wrap(entry.addr), length |-> Wrap(entry.len), type |-> entry.type]

\* pmm_memory_region_compare(r, s) > 0
Behind(r, s) == r.base > s.base \/ (r.base = s.base /\ r.length > s.length)

\* Two nested loops over the nodes of a list: a step for each node i and each node
\* j behind it.
ForPairs(Step(_, _, _), list) ==
  LET n == Len(list)
      inner(l, i) ==
        LET next[j \in 0 .. n] == IF j <= i THEN l ELSE Step(next[j - 1], i, j)
        IN next[n]
      outer[i \in 0 .. n] == IF i = 0 THEN list ELSE inner(outer[i - 1], i)
  IN outer[n]

Exchange(l, i, j) ==
  IF Behind(l[i], l[j]) THEN [l EXCEPT ![i] = l[j], ![j] = l[i]] ELSE l

\* linked_list_sort
Sorted(list) == ForPairs(Exchange, list)

\* Mutant: the region that begins first is cut, whichever type it has.
CutPairFirst(l, i, j) ==
  LET region == l[i]
      next == l[j]
  IN IF Wrap(region.base + region.length) <= next.base THEN l
     ELSE [l EXCEPT ![i].length = next.base - region.base]

\* One overlapping pair: the region with the lower type is cut.  When that is the
\* second one, its new length is negative and wraps around.
CutPair(l, i, j) ==
  LET region == l[i]
      next == l[j]
  IN IF Wrap(region.base + region.length) <= next.base THEN l
     ELSE IF region.type < next.type
     THEN [l EXCEPT ![i].length = next.base - region.base]
     ELSE [l EXCEPT ![j].length = Wrap(Word + region.base - next.base)]

CleanedUp(list) == ForPairs(CutPair, list)

FetchMemoryRegions(m) == CleanedUp(Sorted([i \in DOMAIN m |-> Truncated(m[i])]))

-----------------------------------------------------------------------------
(* pmm_init                                                                *)

AddressToIndex(a) == a \div FrameSize

\* The frames from the first to the last address of a region; none if the last is
\* the smaller one.
FramesOf(r) == AddressToIndex(r.base) .. AddressToIndex(Wrap(Word + r.base + r.length - 1))

AvailableFrames(list) ==
  UNION {FramesOf(list[i]) : i \in {j \in DOMAIN list : list[j].type = Available}}

PmmInit ==
  /\ map \in Maps
  /\ regions = FetchMemoryRegions(map)
  /\ bitmap = Bits \ AvailableFrames(regions)
  /\ used = NumFrames - Cardinality(AvailableFrames(regions))
  /\ booted = FALSE /\ held = {}

MapSpec == PmmInit /\ [][PhysMemNext /\ UNCHANGED mapVars]_<<pmmVars, mapVars>>

-----------------------------------------------------------------------------
(* The maps for which the clean-up is right.                               *)

IsAvailable(entry) == entry.type = Available

Overlap(r, s) == r.addr < s.addr + s.len /\ s.addr < r.addr + r.len

\* An available entry and one that is not.
Contested(r, s) == IsAvailable(r) # IsAvailable(s) /\ Overlap(r, s)

\* Entries lie below 2^32, and those that available and other memory share do not
\* reach it.  An entry begins at the beginning of a frame, but in the frames vmm_init
\* reserves (a PC's base memory ends at 0x9FC00); it may end anywhere.  Of the entries
\* that are not available, one that overlaps an available one overlaps no other of
\* them and does not begin at address 0.  An available entry that begins at address 0
\* overlaps no other available one.
Tame(m) ==
  /\ \A i \in DOMAIN m :
       /\ m[i].len \in 1 .. Word - 1 /\ m[i].addr + m[i].len <= Word
       /\ m[i].addr % FrameSize = 0 \/ AddressToIndex(m[i].addr) \in BootFrames
  /\ \A i, j \in DOMAIN m :
       Contested(m[i], m[j]) =>
         /\ m[i].addr + m[i].len < Word
         /\ IsAvailable(m[i]) \/ m[i].addr > 0
         /\ \A k \in DOMAIN m \ {i, j} :
              ~IsAvailable(m[i]) /\ ~IsAvailable(m[k]) => ~Overlap(m[i], m[k])
  /\ \A i, j \in DOMAIN m :
       i # j /\ IsAvailable(m[i]) /\ IsAvailable(m[j]) /\ Overlap(m[i], m[j]) => m[i].addr > 0

\* Safety: no frame in which the boot loader has reported anything but available
\* memory is available once pmm_init is done, those aside that vmm_init reserves next
\* (pmm_fetch_memory_regions and the loop of pmm_init).
ReservedFramesKept ==
  ~booted =>
    \A i \in DOMAIN map :
      map[i].type # Available =>
        \A f \in Frames :
          f * FrameSize < map[i].addr + map[i].len /\ map[i].addr < (f + 1) * FrameSize
          => f \in bitmap \cup BootFrames

\* Safety: so it is for every tame map, although entries come in any order, overlap,
\* contain one another and are cut with lengths that wrap around.
TameReservedKept == Tame(map) => ReservedFramesKept
===============================================================================
