----------------------------- MODULE AddressSpaces -----------------------------
(***************************************************************************)
(* The virtual memory manager (kernel/src/memory/vmm.c), the paging        *)
(* structures under it (kernel/src/arch/i386/paging.c) and the heap system *)
(* call on top of it (syscall_alloc_heap), after boot: the kernel's own    *)
(* mappings are made while booting and stay.                               *)
(*                                                                         *)
(* A page directory and a page table are memory from kmalloc_a: Dir and    *)
(* Table are the addresses they may get, which are reused, and tables[d]   *)
(* and entry[t] are what that memory holds, in use or not.  An entry whose *)
(* PAGE_FLAG_USED is clear is NoFrame.  Page p of a virtual address space  *)
(* has the addresses p * PageSize .. (p + 1) * PageSize - 1, and the       *)
(* arithmetic on addresses wraps at AddressSize as it does at 2^32.        *)
(*                                                                         *)
(* Everything here runs with interrupts disabled, so that one call is one  *)
(* step.  Which directory is switched to is decided by processes and       *)
(* modelled in Processes; here it may be any.                              *)
(*                                                                         *)
(* Two history variables name what goes wrong in the code itself: clean    *)
(* until a new directory keeps a pointer of the memory it was made from,   *)
(* and wrapped, the directories whose heap was asked to grow past the end  *)
(* of the address space.                                                   *)
(***************************************************************************)
EXTENDS Integers, FiniteSets, Functions

CONSTANTS
  PageSize,     \* PAGE_SIZE
  TableSize,    \* PAGE_TABLE_SIZE
  NumTables,    \* PAGE_DIRECTORY_SIZE
  KernelIndex,  \* index of the first page table of kernel space
  Dir,          \* addresses of page_directory_t
  KernelDir,    \* kernel_page_directory
  Table,        \* addresses of page_table_t in user space
  KernelTable,  \* the page tables of kernel space
  Null,         \* the NULL pointer
  Frame,        \* frames that are available once the kernel has booted
  KernelPages,  \* the pages in kernel space that the kernel has mapped
  Segments,     \* <<p_vaddr, p_memsz>> of the segments programs are made of
  HeapRequests  \* the numbers of pages programs ask alloc_heap for

Index == 0 .. NumTables - 1
Slot == 0 .. TableSize - 1
Page == 0 .. NumTables * TableSize - 1
KernelBase == KernelIndex * TableSize       \* the first page of kernel space
UserPage == 1 .. KernelBase - 1             \* page 0 catches NULL
AddressSize == NumTables * TableSize * PageSize

ASSUME AddressSpacesAssumption ==
  /\ PageSize \in Nat \ {0} /\ TableSize \in Nat \ {0} /\ NumTables \in Nat
  /\ KernelIndex \in Index \ {0}
  /\ KernelDir \notin Dir
  /\ Null \notin Table \cup KernelTable
  /\ Table \cap KernelTable = {}
  /\ Frame \subseteq Nat \ {0}
  /\ KernelPages \subseteq KernelBase .. NumTables * TableSize - 1
  /\ KernelBase \in KernelPages
  /\ \A s \in Segments : s[1] \in PageSize .. AddressSize - 1 /\ s[2] \in Nat
  /\ HeapRequests \subseteq Nat \ {0}

NULL == 0
NoFrame == 0

VARIABLES
  live_dirs,    \* the directories in use, KernelDir apart
  tables,       \* tables[d][i], the virtual address of a page table
  live_tables,  \* the page tables of user space in use
  entry,        \* entry[t][j], the frame an entry of table t names
  free_frames,  \* the frames the physical memory manager can hand out
  current,      \* current_page_directory
  tlb,          \* the <<page, frame>> the CPU may have cached for user space
  heap_base,    \* heap_base of the process that has directory d
  heap_limit,   \* heap_limit of the process that has directory d
  panic,        \* the kernel has halted
  clean,        \* no directory was made with a stale pointer (history)
  wrapped       \* directories whose heap request wrapped around (history)

memVars == <<tables, live_tables, entry, free_frames, tlb>>
heapVars == <<heap_base, heap_limit, wrapped>>
vars == <<live_dirs, memVars, current, heapVars, panic, clean>>

Init ==
  /\ live_dirs = {}
  /\ \E k \in [KernelIndex .. NumTables - 1 -> KernelTable] :
       tables = [d \in Dir \cup {KernelDir} |->
                  [i \in Index |-> IF d = KernelDir /\ i >= KernelIndex THEN k[i] ELSE Null]]
  /\ live_tables = {}
  /\ entry = [t \in Table |-> [j \in Slot |-> NoFrame]]
  /\ free_frames = Frame
  /\ current = KernelDir
  /\ tlb = {}
  /\ heap_base = [d \in Dir |-> NULL]
  /\ heap_limit = [d \in Dir |-> NULL]
  /\ panic = FALSE
  /\ clean = TRUE
  /\ wrapped = {}

-----------------------------------------------------------------------------
(* Paging.                                                                 *)

IndexOf(p) == p \div TableSize
SlotOf(p) == p % TableSize

\* The frame that page tables tb with entries e give user page p, and the one
\* that directory d gives it.
FrameIn(tb, e, p) ==
  LET t == tb[IndexOf(p)] IN IF t \in Table THEN e[t][SlotOf(p)] ELSE NoFrame

FrameOf(d, p) == FrameIn(tables[d], entry, p)

\* paging_is_page_used for the current directory
IsUsed(p) == IF p < KernelBase THEN FrameOf(current, p) # NoFrame ELSE p \in KernelPages

\* The entries after the pages in the domain of g were mapped to the frames
\* g names, through the page tables tb, those of h being new and zeroed.
EntriesMapped(tb, g, h) ==
  [t \in Table |-> [j \in Slot |->
     LET here == {p \in DOMAIN g : tb[IndexOf(p)] = t /\ SlotOf(p) = j}
     IN IF here # {} THEN g[CHOOSE p \in here : TRUE]
        ELSE IF t \in Range(h) THEN NoFrame ELSE entry[t][j]]]

\* The entries e after the pages of P were unmapped.
EntriesUnmapped(e, tb, P) ==
  [t \in Table |-> [j \in Slot |->
     IF \E p \in P : tb[IndexOf(p)] = t /\ SlotOf(p) = j THEN NoFrame ELSE e[t][j]]]

\* The translations of user space that a directory with tables tb offers.
Translations(tb, e) ==
  {<<p, FrameIn(tb, e, p)>> : p \in {q \in UserPage : FrameIn(tb, e, q) # NoFrame}}

-----------------------------------------------------------------------------
(* vmm_map_memory(va, size, NULL, false, ..) in the current directory.  va *)
(* is NULL where the caller leaves the choice of the region to it.         *)

AlignDown(a) == a - (a % PageSize)

\* vmm_find_free_memory for user space: the pages from which on enough pages
\* are unused; it returns the first.
FreeRegions(size) ==
  {p \in UserPage : ~IsUsed(p) /\ \A k \in 0 .. NumTables * TableSize :
     k * PageSize < size => p + k < KernelBase /\ ~IsUsed(p + k)}

FindFree(size) == {p \in FreeRegions(size) : \A q \in FreeRegions(size) : p <= q}

\* Where the region begins: one address, or none if no region is free.
Starts(va, size) ==
  IF va = NULL THEN {p * PageSize : p \in FindFree(size)} ELSE {AlignDown(va)}

\* The pages the loop goes through, up to an end that may wrap around.
RangePages(start, size) ==
  {p \in Page : start <= p * PageSize /\ p * PageSize < (start + size) % AddressSize}

\* The pages that are mapped before the first one that is used already.
Prefix(R) == {p \in R : \A q \in R : q <= p => ~IsUsed(q)}

\* The frames pmm_alloc_frame returns for the pages of P, one after the other.
FirstFrames(P) ==
  {g \in [P -> free_frames] :
     /\ \A p, q \in P : p < q => g[p] < g[q]
     /\ \A p \in P, f \in free_frames \ Range(g) : g[p] < f}

\* The page tables paging_map_page allocates for them.
NewTables(P) ==
  Injection({i \in Index : tables[current][i] = Null /\ \E p \in P : IndexOf(p) = i},
            Table \ live_tables)

WithTables(h) == [i \in Index |-> IF i \in DOMAIN h THEN h[i] ELSE tables[current][i]]

\* Mutant: the frames stay available.
TakeUnmarked(g, h) ==
  /\ tables' = [tables EXCEPT ![current] = WithTables(h)]
  /\ live_tables' = live_tables \cup Range(h)
  /\ UNCHANGED free_frames

\* What mapping takes from the allocators and never gives back.
Take(g, h) ==
  /\ tables' = [tables EXCEPT ![current] = WithTables(h)]
  /\ live_tables' = live_tables \cup Range(h)
  /\ free_frames' = free_frames \ Range(g)

MapMemory(start, size) ==
  LET R == RangePages(start, size)
  IN /\ R \subseteq UserPage
     /\ \A p \in R : ~IsUsed(p)
     /\ \E g \in FirstFrames(R), h \in NewTables(R) :
          /\ Take(g, h)
          /\ entry' = EntriesMapped(WithTables(h), g, h)
          /\ tlb' = tlb \cup {<<p, g[p]>> : p \in R}

\* Mutant: the pages mapped so far stay mapped.
MapMemoryBlockedNoUndo(start, size) ==
  LET R == RangePages(start, size)
      P == Prefix(R)
  IN /\ P \subseteq UserPage
     /\ P # R
     /\ \E g \in FirstFrames(P), h \in NewTables(P) :
          /\ Take(g, h)
          /\ entry' = EntriesMapped(WithTables(h), g, h)
          /\ tlb' = tlb \cup {<<p, g[p]>> : p \in P}

\* Mutant: the pages mapped so far are unmapped but not invalidated.
MapMemoryBlockedNoInvalidate(start, size) ==
  LET R == RangePages(start, size)
      P == Prefix(R)
  IN /\ P \subseteq UserPage
     /\ P # R
     /\ \E g \in FirstFrames(P), h \in NewTables(P) :
          /\ Take(g, h)
          /\ entry' = EntriesUnmapped(EntriesMapped(WithTables(h), g, h), WithTables(h), P)
          /\ tlb' = tlb \cup {<<p, g[p]>> : p \in P}

\* A page of the region is used already: the pages before it are unmapped
\* again and the caller gets NULL.
MapMemoryBlocked(start, size) ==
  LET R == RangePages(start, size)
      P == Prefix(R)
  IN /\ P \subseteq UserPage
     /\ P # R
     /\ \E g \in FirstFrames(P), h \in NewTables(P) :
          /\ Take(g, h)
          /\ entry' = EntriesUnmapped(EntriesMapped(WithTables(h), g, h), WithTables(h), P)
          /\ tlb' = {x \in tlb \cup {<<p, g[p]>> : p \in P} : x[1] \notin P}

\* No region is free, a page to be mapped lies in kernel space, or frames or
\* kernel heap run out.
MapMemoryPanics(va, size) ==
  \/ Starts(va, size) = {}
  \/ \E start \in Starts(va, size) :
       LET P == Prefix(RangePages(start, size))
       IN \/ ~ (P \subseteq UserPage)
          \/ FirstFrames(P) = {}
          \/ NewTables(P) = {}

-----------------------------------------------------------------------------
(* The operations.                                                         *)

Running == ~panic /\ current \in live_dirs

\* elf_load maps a segment of the program.
LoadSegment(s) ==
  /\ Running
  /\ \E start \in Starts(s[1], s[2]) : MapMemory(start, s[2])
  /\ UNCHANGED <<live_dirs, current, heapVars, panic, clean>>

LoadSegmentFails(s) ==
  /\ Running
  /\ \E start \in Starts(s[1], s[2]) : MapMemoryBlocked(start, s[2])
  /\ UNCHANGED <<live_dirs, current, heapVars, panic, clean>>

\* process_create maps the stack, one page anywhere.
MapStack ==
  /\ Running
  /\ \E start \in Starts(NULL, PageSize) : MapMemory(start, PageSize)
  /\ UNCHANGED <<live_dirs, current, heapVars, panic, clean>>

\* syscall_alloc_heap: where the n pages go, and how many bytes they are.
HeapEnd == IF heap_base[current] = NULL THEN NULL
           ELSE (heap_limit[current] + 1) % AddressSize
HeapBytes(n) == (n * PageSize) % AddressSize

AllocHeap(n) ==
  /\ Running
  /\ \E start \in Starts(HeapEnd, HeapBytes(n)) :
       /\ MapMemory(start, HeapBytes(n))
       /\ heap_base' = [heap_base EXCEPT ![current] = IF @ = NULL THEN start ELSE @]
       /\ heap_limit' = [heap_limit EXCEPT ![current] =
                           (start + HeapBytes(n) - 1) % AddressSize]
       /\ wrapped' = wrapped \cup {d \in {current} : start + n * PageSize >= AddressSize}
  /\ UNCHANGED <<live_dirs, current, panic, clean>>

\* Mutant: the limit is moved before the pages are mapped.
AllocHeapFailsMovesLimit(n) ==
  /\ Running
  /\ \E start \in Starts(HeapEnd, HeapBytes(n)) : MapMemoryBlocked(start, HeapBytes(n))
  /\ heap_limit' = [heap_limit EXCEPT ![current] = (@ + HeapBytes(n)) % AddressSize]
  /\ UNCHANGED <<live_dirs, current, heap_base, wrapped, panic, clean>>

AllocHeapFails(n) ==
  /\ Running
  /\ \E start \in Starts(HeapEnd, HeapBytes(n)) : MapMemoryBlocked(start, HeapBytes(n))
  /\ UNCHANGED <<live_dirs, current, heapVars, panic, clean>>

\* vmm_create_address_space: the kernel's page tables are linked, the other
\* pointers are left as kmalloc_a returned them: NULL where the memory was never
\* used or wiped by a merge of heap blocks, those of the directory that was there
\* before where it was not.
CreateSpace(d) ==
  /\ ~panic
  /\ d \in Dir \ live_dirs
  /\ live_dirs' = live_dirs \cup {d}
  /\ \E wiped \in BOOLEAN :
       tables' = [tables EXCEPT ![d] = [i \in Index |->
                    IF tables[KernelDir][i] # Null THEN tables[KernelDir][i]
                    ELSE IF wiped THEN Null ELSE @[i]]]
  /\ heap_base' = [heap_base EXCEPT ![d] = NULL]
  /\ heap_limit' = [heap_limit EXCEPT ![d] = NULL]
  /\ clean' = (clean /\ \A i \in Index : i < KernelIndex => tables'[d][i] = Null)
  /\ wrapped' = wrapped \ {d}
  /\ UNCHANGED <<live_tables, entry, free_frames, tlb, current, panic>>

\* vmm_switch_address_space
Switch(d) ==
  /\ ~panic
  /\ d \in live_dirs \cup {KernelDir}
  /\ current' = d
  /\ tlb' = Translations(tables[d], entry)
  /\ UNCHANGED <<live_dirs, tables, live_tables, entry, free_frames, heapVars, panic, clean>>

\* The page tables that vmm_destroy_address_space frees.
OwnTables(d) ==
  {tables[d][i] : i \in {k \in Index : tables[d][k] \notin {Null, tables[KernelDir][k]}}}

\* Mutant: the page tables are not freed.
DestroySpaceKeepsTables ==
  /\ Running
  /\ entry' = EntriesUnmapped(entry, tables[current], UserPage)
  /\ live_dirs' = live_dirs \ {current}
  /\ current' = KernelDir
  /\ tlb' = Translations(tables[KernelDir], entry')
  /\ UNCHANGED <<tables, live_tables, free_frames, heapVars, panic, clean>>

\* vmm_destroy_address_space, which is only called for the current directory.
\* The frames of its pages are not given back.
DestroySpace ==
  /\ Running
  /\ entry' = EntriesUnmapped(entry, tables[current], UserPage)
  /\ live_tables' = live_tables \ OwnTables(current)
  /\ live_dirs' = live_dirs \ {current}
  /\ current' = KernelDir
  /\ tlb' = Translations(tables[KernelDir], entry')
  /\ UNCHANGED <<tables, free_frames, heapVars, panic, clean>>

\* KPANIC in one of the operations.
Panic ==
  /\ ~panic
  /\ \/ live_dirs = Dir
     \/ /\ current \in live_dirs
        /\ \/ \E s \in Segments : MapMemoryPanics(s[1], s[2])
           \/ MapMemoryPanics(NULL, PageSize)
           \/ \E n \in HeapRequests : MapMemoryPanics(HeapEnd, HeapBytes(n))
  /\ panic' = TRUE
  /\ UNCHANGED <<live_dirs, memVars, current, heapVars, clean>>

Next ==
  \/ \E d \in Dir : CreateSpace(d)
  \/ \E d \in Dir \cup {KernelDir} : Switch(d)
  \/ \E s \in Segments : LoadSegment(s) \/ LoadSegmentFails(s)
  \/ MapStack
  \/ \E n \in HeapRequests : AllocHeap(n) \/ AllocHeapFails(n)
  \/ DestroySpace
  \/ Panic

Spec == Init /\ [][Next]_vars

-----------------------------------------------------------------------------
(* Properties.                                                             *)

TypeOK ==
  /\ live_dirs \subseteq Dir
  /\ tables \in [Dir \cup {KernelDir} -> [Index -> Table \cup KernelTable \cup {Null}]]
  /\ live_tables \subseteq Table
  /\ entry \in [Table -> [Slot -> Frame \cup {NoFrame}]]
  /\ free_frames \subseteq Frame
  /\ current \in live_dirs \cup {KernelDir}
  /\ tlb \subseteq UserPage \X Frame
  /\ heap_base \in [Dir -> Nat]
  /\ heap_limit \in [Dir -> Nat]
  /\ panic \in BOOLEAN
  /\ clean \in BOOLEAN
  /\ wrapped \subseteq Dir

\* As long as every directory was made from wiped memory: every user page table in
\* use belongs to one directory in use, at one index, and no directory in use leads
\* to a page table that was freed; the tables of kernel space are the kernel's own.
TablesOwnedOnce ==
  clean =>
    /\ \A d \in live_dirs, i \in Index :
         IF i >= KernelIndex THEN tables[d][i] = tables[KernelDir][i]
         ELSE tables[d][i] # Null => tables[d][i] \in live_tables
    /\ \A t \in live_tables : \E d \in live_dirs, i \in Index : tables[d][i] = t
    /\ \A d, e \in live_dirs, i, k \in 0 .. KernelIndex - 1 :
         tables[d][i] = tables[e][k] /\ tables[d][i] # Null => d = e /\ i = k

\* Then no frame is mapped at two pages or in two address spaces, and none that is
\* mapped can be handed out again: processes share no memory.
FramesPrivate ==
  clean => \A d \in live_dirs, p \in UserPage : FrameOf(d, p) # NoFrame =>
    /\ FrameOf(d, p) \notin free_frames
    /\ \A e \in live_dirs, q \in UserPage : FrameOf(d, p) = FrameOf(e, q) => d = e /\ p = q

\* Then nothing that the CPU may have cached contradicts the page tables of the
\* current directory: pages are invalidated when they are unmapped, also when a
\* mapping is undone, and a switch or the end of a process drops the rest.
TlbCoherent ==
  clean => \A x \in tlb : current # KernelDir /\ FrameOf(current, x[1]) = x[2]

\* Then the heap of a process is one run of mapped pages from heap_base to
\* heap_limit, however often the program asked for more and was refused; malloc
\* places a block at the new limit in reliance on it.  It is not for a process
\* whose heap was ever asked past the end of the address space: the loop of
\* vmm_map_memory then maps nothing, and the limit moves all the same.
HeapContiguous ==
  clean => \A d \in live_dirs \ wrapped : heap_base[d] # NULL =>
    /\ heap_base[d] % PageSize = 0 /\ (heap_limit[d] + 1) % PageSize = 0
    /\ heap_base[d] <= heap_limit[d]
    /\ \A p \in Page : heap_base[d] <= p * PageSize /\ p * PageSize <= heap_limit[d]
         => p \in UserPage /\ FrameOf(d, p) # NoFrame

\* A mapping that is refused half way leaves every address space as it was, as long
\* as every directory was made from wiped memory.
RefusedMappingUndone ==
  [][clean /\ ((\E s \in Segments : LoadSegmentFails(s)) \/ (\E n \in HeapRequests : AllocHeapFails(n)))
       => \A d \in live_dirs, p \in UserPage : FrameOf(d, p)' = FrameOf(d, p)]_vars

\* What process_terminate says it takes care of: the end of a process tears down
\* its own user space and not some other process'.  It does not hold: a directory
\* made from memory that was not wiped leads to page tables of another process.
EndSparesOthers ==
  [][DestroySpace => \A d \in live_dirs', p \in UserPage :
       FrameOf(d, p) # NoFrame => FrameOf(d, p)' = FrameOf(d, p)]_vars
=============================================================================
