---------------------------- MODULE UserHeapProofs ----------------------------
(***************************************************************************)
(* Proofs about the heap of a user program, for every header and page      *)
(* size, every number of pages and every answer of the kernel.  The block  *)
(* operations are those of the kernel heap, and so are the lemmas about    *)
(* them: they hold for a list that tiles the memory up to any end.  What   *)
(* is new is that the end moves.                                           *)
(***************************************************************************)
EXTENDS UserHeap, WellFoundedInduction, TLAPS

K == INSTANCE KernelHeapProofs WITH
       PlacementBase <- HeapBase, PlacementSize <- 0,
       kheap_enabled <- (limit > HeapBase), placement_free <- 0

\* What the lemmas about the kernel heap assume holds for the program's.
LEMMA Assumption ==
  /\ HeaderSize \in Nat \ {0}
  /\ PageSize \in Nat \ {0}
  /\ HeapBase \in Nat \ {0}
  /\ 0 \in Nat
  /\ HeapBase \in Nat
  /\ HeapBase >= HeapBase + 0
  /\ HeapSize \in Nat
  /\ HeapSize > HeaderSize
  /\ Sizes \subseteq Nat
<1>1. MaxPages * PageSize \in Nat /\ MaxPages * PageSize >= PageSize
  BY UserHeapAssumption
<1>2. QED
  BY <1>1, UserHeapAssumption DEF HeapSize

\* The operators of the two instances are the same.
LEMMA SameList ==
  /\ K!NULL = NULL /\ K!HeapEnd = HeapEnd /\ K!HeapAddress = Address /\ K!Address = Address
  /\ K!ZeroHeap = Blocks!ZeroHeap
  /\ \A h, e : Blocks!Tiled(h, e) = K!Tiled(h, e)
  /\ \A h, e : Blocks!Linked(h, e) = K!Linked(h, e)
  /\ \A h, e : Blocks!Coalesced(h, e) = K!Coalesced(h, e)
<1>1. K!NULL = NULL
  BY DEF K!NULL, NULL, Blocks!NULL
<1>2. K!HeapEnd = HeapEnd /\ K!HeapAddress = Address /\ K!Address = Address /\ Blocks!HeapAddress = Address
  BY DEF K!HeapEnd, HeapEnd, K!HeapAddress, Address, K!Address, Blocks!HeapAddress, Blocks!HeapEnd
<1>3. K!ZeroHeap = Blocks!ZeroHeap
  BY <1>2 DEF K!ZeroHeap, Blocks!ZeroHeap, K!NULL, Blocks!NULL
<1>4. \A h, e : Blocks!Tiled(h, e) = K!Tiled(h, e)
  BY DEF K!Tiled, Blocks!Tiled, K!EndOf, Blocks!EndOf
<1>5. \A h, e : Blocks!Linked(h, e) = K!Linked(h, e)
  BY DEF K!Linked, Blocks!Linked, K!EndOf, Blocks!EndOf, K!NULL, Blocks!NULL
<1>6. \A h, e : Blocks!Coalesced(h, e) = K!Coalesced(h, e)
  BY DEF K!Coalesced, Blocks!Coalesced, K!EndOf, Blocks!EndOf
<1>7. QED
  BY <1>1, <1>2, <1>3, <1>4, <1>5, <1>6

\* The block operations of the model are those the kernel heap's proofs are about.
LEMMA SameOperations ==
  /\ \A h, b, size : Blocks!Occupy(h, b, size) = K!Occupy(h, b, size)
  /\ \A h, b : Blocks!Release(h, b) = K!Release(h, b)
<1>1. K!HeapAddress = Blocks!HeapAddress
  BY DEF K!HeapAddress, Blocks!HeapAddress, K!HeapEnd, Blocks!HeapEnd
<1>2. \A h, b, n : Blocks!Split(h, b, n) = K!Split(h, b, n)
  BY <1>1 DEF Blocks!Split, K!Split, K!NULL, Blocks!NULL
<1>3. \A h, b, t : Blocks!Absorb(h, b, t) = K!Absorb(h, b, t)
  BY <1>1 DEF Blocks!Absorb, K!Absorb, K!NULL, Blocks!NULL
<1>4. \A h, b, size : Blocks!Occupy(h, b, size) = K!Occupy(h, b, size)
  BY <1>2 DEF Blocks!Occupy, K!Occupy
<1>5. \A h, b : Blocks!MergeNext(h, b) = K!MergeNext(h, b)
  BY <1>3 DEF Blocks!MergeNext, K!MergeNext, Blocks!IsFreeBlock, K!IsFreeBlock, K!NULL, Blocks!NULL
<1>6. \A h, b : Blocks!Release(h, b) = K!Release(h, b)
  BY <1>3, <1>5 DEF Blocks!Release, K!Release, Blocks!IsFreeBlock, K!IsFreeBlock, K!NULL, Blocks!NULL
<1>7. QED
  BY <1>4, <1>6

\* malloc chooses a free block that is large enough.
LEMMA BestFitFits ==
  ASSUME NEW h, NEW size, Blocks!FindBestFit(h, size, FALSE) # NULL
  PROVE  LET b == Blocks!FindBestFit(h, size, FALSE)
         IN b \in h.magic /\ h.free[b] /\ h.size[b] >= size
BY DEF Blocks!FindBestFit, Blocks!BestFits, Blocks!Fits, NULL, Blocks!NULL

-----------------------------------------------------------------------------
(* Memory outside the headers.                                             *)

\* Memory that holds no header is zero, as far as a header could tell.
Clean(h) ==
  \A a \in Address \ h.magic :
    h.size[a] = 0 /\ h.free[a] = FALSE /\ h.prev[a] = NULL /\ h.next[a] = NULL

\* Where the pointers of a list lead.
LEMMA PointerFacts ==
  ASSUME NEW e, NEW h, K!WellFormed(h, e), NEW b \in h.magic
  PROVE  /\ h.next[b] = NULL \/ h.next[b] \in h.magic
         /\ h.prev[b] \in h.magic => K!EndOf(h, h.prev[b]) = b /\ h.prev[b] # b
         /\ b \in Nat /\ b \in Address /\ NULL \notin Address
<1>1. /\ b \in Address /\ b \in Nat /\ K!EndOf(h, b) \in Nat
      /\ \A c \in h.magic : c < K!EndOf(h, c) /\ c \in Nat
  BY Assumption, K!ListFacts, SameList
<1>2. NULL = 0 /\ K!NULL = 0 /\ NULL \notin Address /\ HeapBase > 0
  BY Assumption DEF NULL, Blocks!NULL, K!NULL, Address
<1>3. /\ K!EndOf(h, b) = e \/ K!EndOf(h, b) \in h.magic
      /\ h.next[b] = IF K!EndOf(h, b) = e THEN K!NULL ELSE K!EndOf(h, b)
      /\ b # HeapBase => h.prev[b] \in h.magic /\ K!EndOf(h, h.prev[b]) = b
      /\ b = HeapBase => h.prev[b] = K!NULL
  BY DEF K!WellFormed, K!Tiled, K!Linked
<1>4. 0 \notin h.magic
  BY <1>1, Assumption, K!ListFacts, SameList, <1>2
<1>5. QED
  BY <1>1, <1>2, <1>3, <1>4

\* The fields of a heap are functions on its memory.
LEMMA Fields ==
  ASSUME NEW e, NEW h, K!WellFormed(h, e)
  PROVE  /\ h.magic \subseteq Address
         /\ h.size \in [Address -> Nat] /\ h.free \in [Address -> BOOLEAN]
         /\ h.prev \in [Address -> Nat] /\ h.next \in [Address -> Nat]
         /\ h.tail \in Nat /\ h \in K!HeapType
<1>1. h \in K!HeapType /\ K!HeapAddress = Address
  BY SameList DEF K!WellFormed
<1>2. QED
  BY <1>1 DEF K!HeapType

\* A split leaves no header value behind in memory that is not a block.
LEMMA CleanSplit ==
  ASSUME NEW e, NEW h, K!WellFormed(h, e), Clean(h), NEW b \in h.magic, NEW n
  PROVE  Clean(K!Split(h, b, n))
<1> DEFINE g == K!Split(h, b, n)
<1>1. h.next[b] = NULL \/ h.next[b] \in h.magic
  BY PointerFacts
<1>2. NULL \notin Address
  BY PointerFacts
<1>3. /\ g.magic = h.magic \cup {n}
      /\ g.size = [h.size EXCEPT ![b] = n - b - HeaderSize, ![n] = h.size[b] - (n - b)]
      /\ g.free = [h.free EXCEPT ![n] = TRUE]
      /\ g.prev = [a \in Address |-> IF a = n THEN b ELSE IF a = h.next[b] THEN n ELSE h.prev[a]]
      /\ g.next = [h.next EXCEPT ![b] = n, ![n] = h.next[b]]
  BY SameList DEF K!Split
<1> HIDE DEF g
<1>4. ASSUME NEW a \in Address \ g.magic
      PROVE  g.size[a] = 0 /\ g.free[a] = FALSE /\ g.prev[a] = NULL /\ g.next[a] = NULL
  <2>1. a \in Address /\ a \notin h.magic /\ a # n /\ a # b /\ a # h.next[b]
    BY <1>1, <1>2, <1>3
  <2>2. h.size[a] = 0 /\ h.free[a] = FALSE /\ h.prev[a] = NULL /\ h.next[a] = NULL
    BY <2>1 DEF Clean
  <2>3. g.size[a] = h.size[a] /\ g.free[a] = h.free[a] /\ g.next[a] = h.next[a]
    BY <1>3, <2>1, Fields
  <2>4. g.prev[a] = h.prev[a]
    BY <1>3, <2>1
  <2>5. QED
    BY <2>2, <2>3, <2>4
<1>5. QED
  BY <1>4 DEF Clean, g

\* Neither does taking in the next block.
LEMMA CleanAbsorb ==
  ASSUME NEW e, NEW h, K!WellFormed(h, e), Clean(h), NEW b \in h.magic, NEW t \in h.magic
  PROVE  Clean(K!Absorb(h, b, t))
<1> DEFINE g == K!Absorb(h, b, t)
           s == h.size[b] + h.size[t] + HeaderSize
           zeroed == b + HeaderSize .. b + HeaderSize + s - 1
<1>1. /\ h.next[t] = NULL \/ h.next[t] \in h.magic
      /\ b \in Nat /\ NULL \notin Address
  BY PointerFacts
<1>2. b \notin zeroed
  BY <1>1, Assumption
<1>3. /\ g.magic = h.magic \ zeroed
      /\ g.size = [a \in Address |-> IF a = b THEN s ELSE IF a \in zeroed THEN 0 ELSE h.size[a]]
      /\ g.free = [a \in Address |-> a \notin zeroed /\ h.free[a]]
      /\ g.prev = [a \in Address |-> IF a \in zeroed THEN NULL
                                     ELSE IF a = h.next[t] THEN b ELSE h.prev[a]]
      /\ g.next = [a \in Address |-> IF a = b THEN h.next[t]
                                     ELSE IF a \in zeroed THEN NULL ELSE h.next[a]]
  BY SameList DEF K!Absorb
<1> HIDE DEF g, s, zeroed
<1>4. ASSUME NEW a \in Address \ g.magic
      PROVE  g.size[a] = 0 /\ g.free[a] = FALSE /\ g.prev[a] = NULL /\ g.next[a] = NULL
  <2>1. a # b
    BY <1>2, <1>3
  <2>2. CASE a \in zeroed
    BY <2>1, <2>2, <1>3
  <2>3. CASE a \notin zeroed
    <3>1. a \notin h.magic /\ a # h.next[t]
      BY <1>1, <1>3, <2>3
    <3>2. h.size[a] = 0 /\ h.free[a] = FALSE /\ h.prev[a] = NULL /\ h.next[a] = NULL
      BY <3>1 DEF Clean
    <3>3. QED
      BY <1>3, <2>1, <2>3, <3>1, <3>2
  <2>4. QED
    BY <2>2, <2>3
<1>5. QED
  BY <1>4 DEF Clean, g

\* Block b marked free or used.
Marked(h, b, v) == [h EXCEPT !.free[b] = v]

\* Marking a block free or used keeps the list, and the rest of memory zero.
LEMMA MarkKeeps ==
  ASSUME NEW e, NEW h, K!WellFormed(h, e), Clean(h), NEW b \in h.magic, NEW v \in BOOLEAN,
         NEW g, g = Marked(h, b, v)
  PROVE  /\ K!WellFormed(g, e) /\ Clean(g) /\ g.magic = h.magic /\ g.prev = h.prev
         /\ \A a \in h.magic : K!EndOf(g, a) = K!EndOf(h, a)
<1>1. /\ h \in K!HeapType /\ h.magic \subseteq Address /\ K!HeapAddress = Address
      /\ h.free \in [Address -> BOOLEAN]
  BY Fields, SameList
<1>2. /\ g \in K!HeapType
      /\ g.magic = h.magic /\ g.size = h.size /\ g.prev = h.prev
      /\ g.next = h.next /\ g.tail = h.tail /\ g.free = [h.free EXCEPT ![b] = v]
  BY <1>1 DEF K!HeapType, Marked
<1>3. K!WellFormed(g, e) /\ \A a \in h.magic : K!EndOf(g, a) = K!EndOf(h, a)
  BY <1>2, Assumption, K!MarkWellFormed
<1>4. \A a \in Address \ h.magic : g.free[a] = h.free[a]
  BY <1>1, <1>2
<1>5. Clean(g)
  BY <1>2, <1>4 DEF Clean
<1>6. QED
  BY <1>2, <1>3, <1>5

\* Neither does a merge with a free successor.
LEMMA CleanMergeNext ==
  ASSUME NEW e, NEW h, K!WellFormed(h, e), Clean(h), NEW b \in h.magic
  PROVE  Clean(K!MergeNext(h, b))
<1>1. CASE K!IsFreeBlock(h, h.next[b])
  <2>1. h.next[b] \in h.magic
    BY <1>1 DEF K!IsFreeBlock
  <2>2. Clean(K!Absorb(h, b, h.next[b]))
    BY <2>1, CleanAbsorb
  <2>3. QED
    BY <1>1, <2>2 DEF K!MergeNext
<1>2. CASE ~K!IsFreeBlock(h, h.next[b])
  BY <1>2 DEF K!MergeNext
<1>3. QED
  BY <1>1, <1>2

\* malloc's cutting and free's merging leave no stray header.
LEMMA CleanOccupy ==
  ASSUME NEW e, NEW h, K!WellFormed(h, e), Clean(h), NEW b \in h.magic, NEW size
  PROVE  Clean(K!Occupy(h, b, size))
<1>1. PICK taken : taken = [h EXCEPT !.free[b] = FALSE]
  OBVIOUS
<1>2. taken = Marked(h, b, FALSE)
  BY <1>1 DEF Marked
<1>3. K!WellFormed(taken, e) /\ Clean(taken) /\ b \in taken.magic
  BY <1>2, MarkKeeps, ZenonT(30)
<1>4. Clean(K!Split(taken, b, b + size + HeaderSize))
  BY <1>3, CleanSplit
<1>5. QED
  BY <1>1, <1>3, <1>4 DEF K!Occupy

\* Neither does a whole free.
LEMMA CleanRelease ==
  ASSUME NEW e, NEW h, K!WellFormed(h, e), Clean(h), NEW b \in h.magic
  PROVE  Clean(K!Release(h, b))
<1> DEFINE before == h.prev[b]
<1>0. PICK freed : freed = [h EXCEPT !.free[b] = TRUE]
  OBVIOUS
<1>1. /\ K!WellFormed(freed, e) /\ Clean(freed) /\ freed.magic = h.magic
      /\ freed.prev = h.prev /\ \A a \in h.magic : K!EndOf(freed, a) = K!EndOf(h, a)
  <2>1. freed = Marked(h, b, TRUE)
    BY <1>0 DEF Marked
  <2>2. PICK v \in BOOLEAN : v = TRUE
    OBVIOUS
  <2>3. freed = Marked(h, b, v)
    BY <2>1, <2>2
  <2>4. QED
    BY <2>3, MarkKeeps
<1>2. K!Release(h, b) = IF K!IsFreeBlock(freed, before)
                        THEN K!MergeNext(K!Absorb(freed, before, b), before)
                        ELSE K!MergeNext(freed, b)
  BY <1>0 DEF K!Release
<1>3. CASE K!IsFreeBlock(freed, before)
  <2>1. before \in h.magic /\ K!EndOf(freed, before) = b /\ before # b
    BY <1>1, <1>3, PointerFacts DEF K!IsFreeBlock
  <2>2. PICK g : g = K!Absorb(freed, before, b)
    OBVIOUS
  <2>3. Clean(g)
    BY <1>1, <2>1, <2>2, CleanAbsorb
  <2>4. K!WellFormed(g, e) /\ K!AbsorbEffect(freed, before, b, g)
    BY <1>1, <2>1, <2>2, Assumption, K!AbsorbWellFormed
  <2>5. before \in g.magic
    BY <1>1, <2>1, <2>4 DEF K!AbsorbEffect
  <2>6. Clean(K!MergeNext(g, before))
    BY <2>3, <2>4, <2>5, CleanMergeNext
  <2>7. QED
    BY <1>2, <1>3, <2>2, <2>6
<1>4. CASE ~K!IsFreeBlock(freed, before)
  BY <1>1, <1>2, <1>4, CleanMergeNext
<1>5. QED
  BY <1>3, <1>4

-----------------------------------------------------------------------------
(* The last block.                                                         *)

\* Every set of natural numbers that has a member has a least one.
LEMMA LeastNatural ==
  ASSUME NEW T \in SUBSET Nat, T # {}
  PROVE  \E m \in T : \A k \in T : m <= k
<1> DEFINE R == OpToRel(<, Nat)
<1>1. IsWellFoundedOn(R, Nat)
  BY NatLessThanWellFounded
<1>2. \A i, j \in Nat : <<i, j>> \in R <=> i < j
  BY DEF OpToRel
<1> HIDE DEF R
<1>3. PICK x \in T : \A y \in T : ~(<<y, x>> \in R)
  BY <1>1, WFMin
<1>4. ASSUME NEW k \in T PROVE x <= k
  <2>1. ~(k < x)
    BY <1>2, <1>3
  <2>2. QED
    BY <2>1
<1>5. QED
  BY <1>4

\* The block that ends where the granted memory does is heap_tail, and no
\* header lies behind it.
LEMMA LastBlock ==
  ASSUME NEW e, NEW h, K!WellFormed(h, e)
  PROVE  /\ h.tail \in h.magic /\ K!EndOf(h, h.tail) = e
         /\ h.next[h.tail] = NULL /\ h.tail # NULL
         /\ \A b \in h.magic : b <= h.tail
         /\ \A b \in h.magic : b # h.tail => K!EndOf(h, b) # e
<1> DEFINE S == {e - b : b \in h.magic}
<1>1. /\ e \in Nat
      /\ \A b \in h.magic : /\ b \in Address /\ b \in Nat /\ b < e
                            /\ K!EndOf(h, b) \in Nat /\ b < K!EndOf(h, b) /\ K!EndOf(h, b) <= e
  BY Assumption, K!ListFacts, SameList
<1>2. /\ HeapBase \in h.magic
      /\ \A b \in h.magic : K!EndOf(h, b) = e \/ K!EndOf(h, b) \in h.magic
      /\ \A b, c \in h.magic : b < c => K!EndOf(h, b) <= c
      /\ \A b \in h.magic : h.next[b] = IF K!EndOf(h, b) = e THEN K!NULL ELSE K!EndOf(h, b)
      /\ \A b \in h.magic : h.next[b] = K!NULL => h.tail = b
  BY DEF K!WellFormed, K!Tiled, K!Linked
<1>3. S \in SUBSET Nat /\ S # {}
  BY <1>1, <1>2
<1>4. PICK n \in S : \A m \in S : n <= m
  BY <1>3, LeastNatural
<1>5. PICK b \in h.magic : n = e - b
  BY <1>4
<1>6. \A c \in h.magic : c <= b
  BY <1>1, <1>4, <1>5
<1>7. K!EndOf(h, b) = e
  BY <1>1, <1>2, <1>6
<1>8. h.tail = b /\ h.next[b] = NULL
  BY <1>2, <1>7, SameList
<1>9. \A c \in h.magic : c # b => K!EndOf(h, c) # e
  BY <1>1, <1>2, <1>6
<1>10. b # NULL
  BY PointerFacts
<1>11. QED
  BY <1>6, <1>7, <1>8, <1>9, <1>10

-----------------------------------------------------------------------------
(* A page more.                                                            *)

\* What a grown heap keeps and what it gains.
GrowEffect(h, g, e) ==
  /\ K!WellFormed(g, e) /\ K!Coalesced(g, e) /\ Clean(g)
  /\ K!Busy(g) = K!Busy(h)
  /\ \A c \in K!Busy(h) : g.size[c] = h.size[c]

\* The first page becomes one free block.
LEMMA GrownFirst ==
  HeapBase + PageSize <= HeapEnd
    => GrowEffect(Blocks!ZeroHeap, Grown(Blocks!ZeroHeap, HeapBase), HeapBase + PageSize)
<1> SUFFICES ASSUME HeapBase + PageSize <= HeapEnd
             PROVE  GrowEffect(K!ZeroHeap, Grown(K!ZeroHeap, HeapBase), HeapBase + PageSize)
  BY SameList
<1> DEFINE z == K!ZeroHeap
           e == HeapBase + PageSize
<1>1. PICK g : g = Grown(z, HeapBase)
  OBVIOUS
<1>2. /\ HeapBase \in Nat /\ HeapBase > 0 /\ HeaderSize \in Nat /\ HeaderSize > 0
      /\ PageSize \in Nat /\ PageSize > HeaderSize /\ HeapEnd \in Nat
      /\ HeapBase \in Address /\ NULL = 0 /\ K!NULL = 0
  BY Assumption, UserHeapAssumption DEF Address, HeapEnd, NULL, Blocks!NULL, K!NULL
<1>3. /\ z.magic = {} /\ z.tail = 0
      /\ z.size = [a \in Address |-> 0] /\ z.free = [a \in Address |-> FALSE]
      /\ z.prev = [a \in Address |-> 0] /\ z.next = [a \in Address |-> 0]
  BY <1>2, SameList DEF K!ZeroHeap
<1>4. /\ g.magic = {HeapBase} /\ g.tail = HeapBase
      /\ g.size = [z.size EXCEPT ![HeapBase] = PageSize - HeaderSize]
      /\ g.free = [z.free EXCEPT ![HeapBase] = TRUE]
      /\ g.prev = z.prev /\ g.next = z.next
      /\ g = [magic |-> g.magic, size |-> g.size, free |-> g.free, prev |-> g.prev,
              next |-> g.next, tail |-> g.tail]
  BY <1>1, <1>2, <1>3 DEF Grown, K!ZeroHeap
<1>5. g \in K!HeapType
  <2>1. /\ g.magic \in SUBSET Address /\ g.size \in [Address -> Nat]
        /\ g.free \in [Address -> BOOLEAN] /\ g.prev \in [Address -> Nat]
        /\ g.next \in [Address -> Nat] /\ g.tail \in Nat
    <3>1. PageSize - HeaderSize \in Nat
      BY <1>2
    <3>2. z.size \in [Address -> Nat] /\ z.free \in [Address -> BOOLEAN]
      BY <1>3
    <3>3. g.size \in [Address -> Nat]
      BY <3>1, <3>2, <1>4
    <3>4. g.free \in [Address -> BOOLEAN]
      BY <3>2, <1>4
    <3>5. z.prev \in [Address -> Nat] /\ z.next \in [Address -> Nat]
      BY <1>3
    <3>6. g.magic \in SUBSET Address /\ g.tail \in Nat
      BY <1>2, <1>4
    <3>7. QED
      BY <3>3, <3>4, <3>5, <3>6, <1>4
  <2>2. QED
    BY <2>1, <1>4, SameList DEF K!HeapType
<1>6. /\ g.size[HeapBase] = PageSize - HeaderSize /\ g.free[HeapBase] = TRUE
      /\ g.prev[HeapBase] = 0 /\ g.next[HeapBase] = 0
      /\ K!EndOf(g, HeapBase) = e
  BY <1>2, <1>3, <1>4 DEF K!EndOf
<1>7. K!Tiled(g, e) /\ K!Linked(g, e) /\ K!Coalesced(g, e)
  <2>1. \A b \in g.magic : b = HeapBase
    BY <1>4
  <2>2. HeapBase \in HeapBase .. e - 1
    BY <1>2
  <2>3. K!Tiled(g, e)
    BY <1>2, <1>4, <1>6, <2>1, <2>2 DEF K!Tiled
  <2>4. K!Linked(g, e)
    BY <1>2, <1>4, <1>6, <2>1 DEF K!Linked
  <2>5. QED
    BY <1>6, <2>1, <2>3, <2>4 DEF K!Coalesced
<1>8. Clean(g)
  BY <1>2, <1>3, <1>4 DEF Clean
<1>9. K!Busy(g) = {} /\ K!Busy(z) = {}
  <2>1. \A b \in g.magic : g.free[b] = TRUE
    BY <1>4, <1>6
  <2>2. K!Busy(g) = {}
    BY <2>1 DEF K!Busy
  <2>3. QED
    BY <2>2, <1>3 DEF K!Busy
<1>10. K!WellFormed(g, e)
  BY <1>2, <1>5, <1>7, SameList DEF K!WellFormed
<1>11. QED
  BY <1>1, <1>7, <1>8, <1>9, <1>10 DEF GrowEffect

\* Where the list ends and what a page behind it finds.
LEMMA TailFacts ==
  ASSUME NEW lim, NEW h, K!WellFormed(h, lim), Clean(h), lim + PageSize <= HeapEnd
  PROVE  /\ lim \in Nat /\ lim \in Address /\ lim \notin h.magic /\ HeapBase < lim
         /\ h.size[lim] = 0 /\ h.free[lim] = FALSE /\ h.prev[lim] = 0 /\ h.next[lim] = 0
         /\ \A b \in h.magic : b \in Nat /\ b > 0 /\ b < lim /\ h.size[b] \in Nat
         /\ NULL = 0 /\ K!NULL = 0 /\ lim + PageSize \in Nat
         /\ PageSize \in Nat /\ HeaderSize \in Nat /\ PageSize > HeaderSize /\ HeaderSize > 0
<1>1. /\ PageSize \in Nat /\ HeaderSize \in Nat /\ PageSize > HeaderSize /\ HeaderSize > 0
      /\ NULL = 0 /\ K!NULL = 0 /\ HeapBase \in Nat /\ HeapBase > 0
  BY UserHeapAssumption DEF NULL, Blocks!NULL, K!NULL
<1>2. /\ lim \in Nat /\ HeapBase < lim /\ HeapEnd \in Nat
      /\ \A b \in h.magic : b \in Address /\ b \in Nat /\ b < lim
  BY Assumption, K!ListFacts, SameList
<1>3. lim \in Address /\ lim \notin h.magic
  BY <1>1, <1>2 DEF Address
<1>4. h.size[lim] = 0 /\ h.free[lim] = FALSE /\ h.prev[lim] = 0 /\ h.next[lim] = 0
  BY <1>1, <1>3 DEF Clean
<1>5. \A b \in h.magic : b > 0 /\ h.size[b] \in Nat
  <2>1. \A b \in Address : b > 0
    BY <1>1 DEF Address
  <2>2. h.size \in [Address -> Nat]
    BY Fields
  <2>3. QED
    BY <1>2, <2>1, <2>2
<1>6. QED
  BY <1>1, <1>2, <1>3, <1>4, <1>5

\* A page behind a free tail makes the tail larger.
LEMMA GrownTail ==
  ASSUME NEW lim, NEW h, K!WellFormed(h, lim), K!Coalesced(h, lim), Clean(h),
         lim + PageSize <= HeapEnd, h.free[h.tail]
  PROVE  GrowEffect(h, Grown(h, lim), lim + PageSize)
<1> DEFINE t == h.tail
           e == lim + PageSize
<1>1. PICK g : g = Grown(h, lim)
  OBVIOUS
<1>2. /\ lim \in Nat /\ HeapBase < lim
      /\ \A b \in h.magic : b \in Nat /\ b > 0 /\ b < lim /\ h.size[b] \in Nat
      /\ NULL = 0 /\ K!NULL = 0 /\ e \in Nat
      /\ PageSize \in Nat /\ HeaderSize \in Nat /\ PageSize > HeaderSize /\ HeaderSize > 0
  BY TailFacts
<1>3. /\ t \in h.magic /\ K!EndOf(h, t) = lim /\ h.next[t] = 0 /\ t # NULL
      /\ \A b \in h.magic : b # t => K!EndOf(h, b) # lim
      /\ \A b \in h.magic : b <= t
  BY <1>2, LastBlock
<1>4. /\ h.magic \subseteq Address /\ h.size \in [Address -> Nat] /\ h.free \in [Address -> BOOLEAN]
      /\ h.prev \in [Address -> Nat] /\ h.next \in [Address -> Nat] /\ h.tail \in Nat
      /\ h \in K!HeapType
  BY Fields
<1>5. g = [h EXCEPT !.size[t] = @ + PageSize]
  BY <1>1, <1>3 DEF Grown
<1>6. /\ g.magic = h.magic /\ g.free = h.free /\ g.prev = h.prev /\ g.next = h.next
      /\ g.tail = h.tail /\ g.size = [h.size EXCEPT ![t] = h.size[t] + PageSize]
      /\ g \in K!HeapType
  <2>1. h.size[t] + PageSize \in Nat /\ t \in Address
    BY <1>2, <1>3, <1>4
  <2>2. QED
    BY <1>4, <1>5, <2>1, SameList DEF K!HeapType
<1>7. /\ K!EndOf(g, t) = e
      /\ \A b \in h.magic : b # t => g.size[b] = h.size[b] /\ K!EndOf(g, b) = K!EndOf(h, b)
      /\ \A a \in Address : a # t => g.size[a] = h.size[a]
  <2>1. g.size[t] = h.size[t] + PageSize /\ \A a \in Address : a # t => g.size[a] = h.size[a]
    BY <1>3, <1>4, <1>6
  <2>2. QED
    BY <2>1, <1>2, <1>3, <1>4 DEF K!EndOf
<1>8. K!Tiled(g, e)
  <2>1. /\ HeapBase \in h.magic /\ h.magic \subseteq HeapBase .. lim - 1
        /\ \A b \in h.magic : K!EndOf(h, b) = lim \/ K!EndOf(h, b) \in h.magic
        /\ \A b, c \in h.magic : b < c => K!EndOf(h, b) <= c
    BY DEF K!WellFormed, K!Tiled
  <2>2. h.magic \subseteq HeapBase .. e - 1
    BY <1>2, <2>1, Assumption
  <2>3. \A b \in h.magic : K!EndOf(g, b) = e \/ K!EndOf(g, b) \in h.magic
    BY <1>3, <1>7, <2>1
  <2>4. \A b, c \in h.magic : b < c => K!EndOf(g, b) <= c
    <3>1. \A b, c \in h.magic : b < c => b # t
      BY <1>2, <1>3
    <3>2. QED
      BY <3>1, <1>7, <2>1
  <2>5. QED
    BY <1>6, <2>1, <2>2, <2>3, <2>4 DEF K!Tiled
<1>9. K!Linked(g, e)
  <2>1. \A b \in h.magic :
          /\ h.next[b] = IF K!EndOf(h, b) = lim THEN K!NULL ELSE K!EndOf(h, b)
          /\ h.next[b] # K!NULL => h.prev[h.next[b]] = b
          /\ h.next[b] = K!NULL => h.tail = b
          /\ b # HeapBase => h.prev[b] \in h.magic /\ K!EndOf(h, h.prev[b]) = b
          /\ b = HeapBase => h.prev[b] = K!NULL
    BY DEF K!WellFormed, K!Linked
  <2>2. ASSUME NEW b \in h.magic
        PROVE  h.next[b] = IF K!EndOf(g, b) = e THEN K!NULL ELSE K!EndOf(g, b)
    <3>1. CASE b = t
      BY <3>1, <1>2, <1>3, <1>7
    <3>2. CASE b # t
      <4>1. K!EndOf(g, b) = K!EndOf(h, b) /\ K!EndOf(h, b) <= lim /\ K!EndOf(h, b) \in Nat
        BY <3>2, <1>7, Assumption, K!ListFacts
      <4>2. K!EndOf(g, b) # e
        BY <4>1, <1>2
      <4>3. QED
        BY <4>1, <4>2, <2>1, <3>2, <1>3
    <3>3. QED
      BY <3>1, <3>2
  <2>3. ASSUME NEW b \in h.magic, b # HeapBase PROVE K!EndOf(g, h.prev[b]) = b
    <3>1. h.prev[b] \in h.magic /\ K!EndOf(h, h.prev[b]) = b
      BY <2>1, <2>3
    <3>2. h.prev[b] # t
      BY <3>1, <1>2, <1>3
    <3>3. QED
      BY <3>1, <3>2, <1>7
  <2>4. QED
    BY <1>6, <2>1, <2>2, <2>3 DEF K!Linked
<1>10. K!Coalesced(g, e)
  <2>1. ASSUME NEW b \in h.magic, h.free[b] PROVE K!EndOf(g, b) = e \/ ~h.free[K!EndOf(g, b)]
    <3>1. CASE b = t
      BY <3>1, <1>7
    <3>2. CASE b # t
      <4>1. K!EndOf(h, b) = lim \/ ~h.free[K!EndOf(h, b)]
        BY <2>1 DEF K!Coalesced
      <4>2. QED
        BY <4>1, <3>2, <1>3, <1>7
    <3>3. QED
      BY <3>1, <3>2
  <2>2. QED
    BY <1>6, <2>1 DEF K!Coalesced
<1>11. Clean(g)
  <2>1. ASSUME NEW a \in Address \ g.magic
        PROVE  g.size[a] = 0 /\ g.free[a] = FALSE /\ g.prev[a] = NULL /\ g.next[a] = NULL
    <3>1. a \notin h.magic /\ a # t
      BY <1>3, <1>6
    <3>2. h.size[a] = 0 /\ h.free[a] = FALSE /\ h.prev[a] = NULL /\ h.next[a] = NULL
      BY <3>1 DEF Clean
    <3>3. QED
      BY <3>1, <3>2, <1>6, <1>7
  <2>2. QED
    BY <2>1 DEF Clean
<1>12. K!Busy(g) = K!Busy(h) /\ \A c \in K!Busy(h) : g.size[c] = h.size[c]
  BY <1>6, <1>7 DEF K!Busy
<1>13. K!WellFormed(g, e)
  BY <1>2, <1>6, <1>8, <1>9, SameList DEF K!WellFormed
<1>14. QED
  BY <1>1, <1>10, <1>11, <1>12, <1>13 DEF GrowEffect

\* A page behind a tail in use becomes a block of its own.
LEMMA GrownBlock ==
  ASSUME NEW lim, NEW h, K!WellFormed(h, lim), K!Coalesced(h, lim), Clean(h),
         lim + PageSize <= HeapEnd, ~h.free[h.tail]
  PROVE  GrowEffect(h, Grown(h, lim), lim + PageSize)
<1> DEFINE t == h.tail
           e == lim + PageSize
<1>1. PICK g : g = Grown(h, lim)
  OBVIOUS
<1>2. /\ lim \in Nat /\ HeapBase < lim /\ lim \in Address /\ lim \notin h.magic
      /\ h.next[lim] = 0
      /\ \A b \in h.magic : b \in Nat /\ b > 0 /\ b < lim /\ h.size[b] \in Nat
      /\ NULL = 0 /\ K!NULL = 0 /\ e \in Nat
      /\ PageSize \in Nat /\ HeaderSize \in Nat /\ PageSize > HeaderSize /\ HeaderSize > 0
  BY TailFacts
<1>3. /\ t \in h.magic /\ K!EndOf(h, t) = lim /\ h.next[t] = 0 /\ t # NULL
      /\ \A b \in h.magic : b # t => K!EndOf(h, b) # lim
      /\ \A b \in h.magic : b <= t
  BY <1>2, LastBlock
<1>4. /\ h.magic \subseteq Address /\ h.size \in [Address -> Nat] /\ h.free \in [Address -> BOOLEAN]
      /\ h.prev \in [Address -> Nat] /\ h.next \in [Address -> Nat] /\ h.tail \in Nat
      /\ h \in K!HeapType
  BY Fields
<1>5. /\ g.magic = h.magic \cup {lim} /\ g.tail = lim
      /\ g.size = [h.size EXCEPT ![lim] = PageSize - HeaderSize]
      /\ g.free = [h.free EXCEPT ![lim] = TRUE]
      /\ g.prev = [h.prev EXCEPT ![lim] = t]
      /\ g.next = [h.next EXCEPT ![t] = lim]
      /\ g = [magic |-> g.magic, size |-> g.size, free |-> g.free, prev |-> g.prev,
              next |-> g.next, tail |-> g.tail]
  BY <1>1, <1>3, <1>4, SameList DEF Grown, K!HeapType
<1>6. g \in K!HeapType
  <2>1. PageSize - HeaderSize \in Nat
    BY <1>2
  <2>2. g.size \in [Address -> Nat]
    BY <1>4, <1>5, <2>1, ZenonT(30)
  <2>3. g.free \in [Address -> BOOLEAN]
    BY <1>4, <1>5
  <2>4. g.prev \in [Address -> Nat] /\ g.next \in [Address -> Nat]
    <3>1. /\ h.prev \in [Address -> Nat] /\ h.next \in [Address -> Nat]
          /\ g.prev = [h.prev EXCEPT ![lim] = t] /\ g.next = [h.next EXCEPT ![t] = lim]
          /\ t \in Nat /\ lim \in Nat
      BY <1>2, <1>4, <1>5
    <3>2. QED
      BY <3>1
  <2>5. g.magic \in SUBSET Address /\ g.tail \in Nat
    BY <1>2, <1>4, <1>5
  <2>6. QED
    BY <2>2, <2>3, <2>4, <2>5, <1>5, SameList DEF K!HeapType
<1>7. /\ \A a \in Address : a # lim => g.size[a] = h.size[a] /\ g.prev[a] = h.prev[a]
      /\ \A a \in Address : a # t => g.next[a] = h.next[a]
      /\ g.size[lim] = PageSize - HeaderSize /\ g.prev[lim] = t
      /\ g.next[t] = lim /\ g.next[lim] = 0
  BY <1>2, <1>3, <1>4, <1>5
<1>8. /\ \A a \in Address : a # lim => g.free[a] = h.free[a]
      /\ g.free[lim] = TRUE
  BY <1>2, <1>4, <1>5
<1>9. /\ \A b \in h.magic : K!EndOf(g, b) = K!EndOf(h, b)
      /\ K!EndOf(g, lim) = e
  <2>1. \A b \in h.magic : b \in Address /\ b # lim
    BY <1>2, <1>4
  <2>2. QED
    BY <1>2, <1>7, <2>1 DEF K!EndOf
<1>10. \A b \in h.magic : K!EndOf(h, b) \in Nat /\ K!EndOf(h, b) <= lim /\ b # lim /\ b \in Address
  BY <1>2, <1>4, Assumption, K!ListFacts
<1>11. K!Tiled(g, e)
  <2>1. /\ HeapBase \in h.magic /\ h.magic \subseteq HeapBase .. lim - 1
        /\ \A b \in h.magic : K!EndOf(h, b) = lim \/ K!EndOf(h, b) \in h.magic
        /\ \A b, c \in h.magic : b < c => K!EndOf(h, b) <= c
    BY DEF K!WellFormed, K!Tiled
  <2>2. g.magic \subseteq HeapBase .. e - 1 /\ HeapBase \in g.magic
    BY <1>2, <1>5, <2>1, Assumption
  <2>3. \A b \in g.magic : K!EndOf(g, b) = e \/ K!EndOf(g, b) \in g.magic
    BY <1>5, <1>9, <2>1
  <2>4. ASSUME NEW b \in g.magic, NEW c \in g.magic, b < c PROVE K!EndOf(g, b) <= c
    <3>1. b \in h.magic
      BY <1>2, <1>5, <2>4
    <3>2. CASE c \in h.magic
      BY <3>1, <3>2, <2>1, <2>4, <1>9
    <3>3. CASE c = lim
      BY <3>1, <3>3, <1>9, <1>10
    <3>4. QED
      BY <3>2, <3>3, <1>5
  <2>5. QED
    BY <2>2, <2>3, <2>4 DEF K!Tiled
<1>12. K!Linked(g, e)
  <2>1. \A b \in h.magic :
          /\ h.next[b] = IF K!EndOf(h, b) = lim THEN K!NULL ELSE K!EndOf(h, b)
          /\ h.next[b] # K!NULL => h.prev[h.next[b]] = b
          /\ h.next[b] = K!NULL => h.tail = b
          /\ b # HeapBase => h.prev[b] \in h.magic /\ K!EndOf(h, h.prev[b]) = b
          /\ b = HeapBase => h.prev[b] = K!NULL
    BY DEF K!WellFormed, K!Linked
  <2>2. lim # HeapBase /\ lim # t
    BY <1>2, <1>3
  <2>3. ASSUME NEW b \in g.magic
        PROVE  /\ g.next[b] = IF K!EndOf(g, b) = e THEN K!NULL ELSE K!EndOf(g, b)
               /\ g.next[b] # K!NULL => g.prev[g.next[b]] = b
               /\ g.next[b] = K!NULL => g.tail = b
               /\ b # HeapBase => g.prev[b] \in g.magic /\ K!EndOf(g, g.prev[b]) = b
               /\ b = HeapBase => g.prev[b] = K!NULL
    <3>1. CASE b = lim
      BY <3>1, <2>2, <1>2, <1>3, <1>5, <1>7, <1>9
    <3>2. CASE b \in h.magic
      <4>1. b \in Address /\ b # lim /\ K!EndOf(g, b) = K!EndOf(h, b) /\ K!EndOf(g, b) # e
        BY <3>2, <1>2, <1>9, <1>10
      <4>2. /\ b # HeapBase => g.prev[b] \in g.magic /\ K!EndOf(g, g.prev[b]) = b
            /\ b = HeapBase => g.prev[b] = K!NULL
        BY <4>1, <3>2, <2>1, <1>5, <1>7, <1>9
      <4>3. CASE b = t
        <5>1. g.next[b] = lim /\ lim # 0 /\ K!EndOf(g, b) = lim /\ g.prev[lim] = b
          BY <4>1, <4>3, <1>2, <1>3, <1>7
        <5>2. QED
          BY <5>1, <4>1, <4>2, <1>2
      <4>4. CASE b # t
        <5>1. g.next[b] = h.next[b] /\ K!EndOf(h, b) # lim
          BY <4>1, <4>4, <1>3, <1>7, <3>2
        <5>2. h.next[b] = K!EndOf(h, b) /\ h.next[b] # K!NULL
          BY <5>1, <2>1, <3>2, <4>4
        <5>3. h.next[b] \in h.magic /\ h.prev[h.next[b]] = b
          BY <2>1, <3>2, <5>2, <5>1 DEF K!WellFormed, K!Tiled
        <5>4. g.prev[h.next[b]] = b
          BY <5>3, <1>7, <1>10
        <5>5. QED
          BY <5>1, <5>2, <5>4, <4>1, <4>2
      <4>5. QED
        BY <4>3, <4>4
    <3>3. QED
      BY <3>1, <3>2, <1>5
  <2>4. QED
    BY <2>3 DEF K!Linked
<1>13. K!Coalesced(g, e)
  <2>1. ASSUME NEW b \in g.magic, g.free[b] PROVE K!EndOf(g, b) = e \/ ~g.free[K!EndOf(g, b)]
    <3>1. CASE b = lim
      BY <3>1, <1>9
    <3>2. CASE b \in h.magic
      <4>1. b # lim /\ h.free[b] /\ b # t
        BY <3>2, <2>1, <1>8, <1>10
      <4>2. K!EndOf(h, b) # lim /\ ~h.free[K!EndOf(h, b)]
        BY <3>2, <4>1, <1>3 DEF K!Coalesced
      <4>3. K!EndOf(h, b) \in h.magic
        BY <3>2, <4>2 DEF K!WellFormed, K!Tiled
      <4>4. QED
        BY <4>2, <4>3, <3>2, <1>8, <1>9, <1>10
    <3>3. QED
      BY <3>1, <3>2, <1>5
  <2>2. QED
    BY <2>1 DEF K!Coalesced
<1>14. Clean(g)
  <2>1. ASSUME NEW a \in Address \ g.magic
        PROVE  g.size[a] = 0 /\ g.free[a] = FALSE /\ g.prev[a] = NULL /\ g.next[a] = NULL
    <3>1. a \notin h.magic /\ a # t /\ a # lim
      BY <1>3, <1>5
    <3>2. h.size[a] = 0 /\ h.free[a] = FALSE /\ h.prev[a] = NULL /\ h.next[a] = NULL
      BY <3>1 DEF Clean
    <3>3. QED
      BY <3>1, <3>2, <1>7, <1>8
  <2>2. QED
    BY <2>1 DEF Clean
<1>15. K!Busy(g) = K!Busy(h) /\ \A c \in K!Busy(h) : g.size[c] = h.size[c]
  <2>1. \A b \in h.magic : g.free[b] = h.free[b] /\ g.size[b] = h.size[b]
    BY <1>7, <1>8, <1>10
  <2>2. \A b \in g.magic : ~g.free[b] => b \in h.magic
    BY <1>5, <1>8
  <2>3. h.magic \subseteq g.magic
    BY <1>5
  <2>4. QED
    BY <2>1, <2>2, <2>3 DEF K!Busy
<1>16. K!WellFormed(g, e)
  BY <1>2, <1>6, <1>11, <1>12, SameList DEF K!WellFormed
<1>17. QED
  BY <1>1, <1>13, <1>14, <1>15, <1>16 DEF GrowEffect

-----------------------------------------------------------------------------
(* The invariant.                                                          *)

\* The granted memory is a number of pages; a list of blocks tiles it, and its
\* blocks in use are those of the owners.
Sound(lim, h, owned) ==
  /\ \E k \in 0 .. MaxPages : lim = HeapBase + k * PageSize
  /\ owned \in [Address -> Nat]
  /\ lim = HeapBase => h = Blocks!ZeroHeap /\ \A p \in Address : owned[p] = 0
  /\ lim # HeapBase => /\ K!WellFormed(h, lim) /\ K!Coalesced(h, lim)
                       /\ Clean(h) /\ K!OwnedBy(h, owned)

\* Growing changes nothing for the owners.
LEMMA GrowOwned ==
  ASSUME NEW h, NEW g, NEW e, NEW owned, GrowEffect(h, g, e), K!OwnedBy(h, owned)
  PROVE  K!OwnedBy(g, owned)
<1>1. /\ \A b : b \in h.magic /\ ~h.free[b] <=> b \in g.magic /\ ~g.free[b]
      /\ \A b : b \in h.magic /\ ~h.free[b] => g.size[b] = h.size[b]
  BY DEF GrowEffect, K!Busy
<1>2. QED
  BY <1>1 DEF K!OwnedBy

\* A page fits as long as the limit has not reached the end.
LEMMA PageFits ==
  ASSUME NEW lim, lim < HeapEnd, \E k \in 0 .. MaxPages : lim = HeapBase + k * PageSize
  PROVE  /\ \E k \in 0 .. MaxPages : lim + PageSize = HeapBase + k * PageSize
         /\ lim + PageSize <= HeapEnd /\ lim \in Nat /\ lim + PageSize > HeapBase
<1>1. PICK k \in 0 .. MaxPages : lim = HeapBase + k * PageSize
  OBVIOUS
<1>2. /\ k \in Nat /\ MaxPages \in Nat /\ PageSize \in Nat /\ PageSize > 0 /\ HeapBase \in Nat
      /\ HeapEnd = HeapBase + MaxPages * PageSize
  BY UserHeapAssumption DEF HeapEnd, HeapSize
<1>3. k # MaxPages /\ k <= MaxPages
  BY <1>1, <1>2
<1>4. k + 1 <= MaxPages /\ k + 1 \in 0 .. MaxPages
  BY <1>2, <1>3
<1>5. PICK d \in Nat : MaxPages = k + 1 + d
  <2>1. MaxPages - (k + 1) \in Nat /\ MaxPages = k + 1 + (MaxPages - (k + 1))
    BY <1>2, <1>4
  <2>2. QED
    BY <2>1
<1>6. /\ (k + 1) * PageSize = k * PageSize + PageSize
      /\ MaxPages * PageSize = k * PageSize + PageSize + d * PageSize
      /\ k * PageSize \in Nat /\ d * PageSize \in Nat
  BY <1>2, <1>5
<1>7. lim + PageSize = HeapBase + (k + 1) * PageSize
  BY <1>1, <1>2, <1>6
<1>8. QED
  BY <1>1, <1>2, <1>4, <1>6, <1>7

\* heap_increase_size keeps the heap sound, whatever the kernel answers.
LEMMA IncreasedSound ==
  ASSUME NEW m, NEW owned, Sound(m.limit, m.heap, owned), NEW i \in Increased(m)
  PROVE  /\ Sound(i.limit, i.heap, owned)
         /\ i.limit # HeapBase \/ (~i.ok /\ i.limit = m.limit)
<1> DEFINE lim == m.limit
           h == m.heap
<1>1. CASE i.limit = lim /\ i.heap = h /\ i.ok = FALSE
  BY <1>1
<1>2. CASE lim < HeapEnd /\ i.limit = lim + PageSize /\ i.heap = Grown(h, lim)
  <2>1. /\ \E k \in 0 .. MaxPages : i.limit = HeapBase + k * PageSize
        /\ i.limit <= HeapEnd /\ lim \in Nat /\ i.limit > HeapBase /\ HeapBase \in Nat
    BY <1>2, PageFits, Assumption DEF Sound
  <2>2. i.limit # HeapBase
    BY <2>1, <1>2, Assumption
  <2>3. K!OwnedBy(h, owned)
    <3>1. CASE lim = HeapBase
      <4>1. h.magic = {} /\ \A p \in Address : owned[p] = 0
        BY <3>1, SameList DEF Sound, K!ZeroHeap
      <4>2. QED
        BY <4>1, SameList DEF K!OwnedBy
    <3>2. QED
      BY <3>1 DEF Sound
  <2>4. GrowEffect(h, Grown(h, lim), lim + PageSize)
    <3>1. CASE lim = HeapBase
      BY <3>1, <2>1, <1>2, GrownFirst DEF Sound
    <3>2. CASE lim # HeapBase
      <4>1. K!WellFormed(h, lim) /\ K!Coalesced(h, lim) /\ Clean(h) /\ lim + PageSize <= HeapEnd
        BY <3>2, <2>1, <1>2 DEF Sound
      <4>2. CASE h.free[h.tail]
        BY <4>1, <4>2, GrownTail
      <4>3. CASE ~h.free[h.tail]
        BY <4>1, <4>3, GrownBlock
      <4>4. QED
        BY <4>2, <4>3
    <3>3. QED
      BY <3>1, <3>2
  <2>5. K!OwnedBy(Grown(h, lim), owned)
    BY <2>3, <2>4, GrowOwned
  <2>6. QED
    BY <2>1, <2>2, <2>4, <2>5, <1>2 DEF Sound, GrowEffect
<1>3. QED
  BY <1>1, <1>2 DEF Increased

\* What a call of malloc hands out.
Outcome(r, owned, size) ==
  \/ r.ptr = NULL /\ Sound(r.limit, r.heap, owned)
  \/ /\ r.ptr # NULL /\ r.ptr \in Address /\ owned[r.ptr] = 0 /\ size > 0
     /\ Sound(r.limit, r.heap, [owned EXCEPT ![r.ptr] = size])

\* malloc takes memory correctly or fails without harm, growing the heap as it needs.
LEMMA TakenSound ==
  ASSUME NEW m, NEW owned, Sound(m.limit, m.heap, owned), NEW size \in Nat, size > 0
  PROVE  Outcome(Taken(m, size), owned, size)
<1> DEFINE h == m.heap
           lim == m.limit
           r == Taken(m, size)
           best == Blocks!FindBestFit(h, size, FALSE)
<1>1. CASE best = NULL
  <2>1. r.ptr = NULL /\ r.limit = lim /\ r.heap = h
    BY <1>1 DEF Taken
  <2>2. QED
    BY <2>1 DEF Outcome
<1>2. CASE best # NULL
  <2>1. best \in h.magic /\ h.free[best] /\ h.size[best] >= size
    BY <1>2, BestFitFits
  <2>2. r.ptr = best + HeaderSize /\ r.limit = lim /\ r.heap = K!Occupy(h, best, size)
    BY <1>2, SameOperations DEF Taken
  <2> HIDE DEF best, r
  <2>3. lim # HeapBase
    BY <2>1, SameList DEF Sound, K!ZeroHeap
  <2>4. K!WellFormed(h, lim) /\ K!Coalesced(h, lim) /\ Clean(h) /\ K!OwnedBy(h, owned)
    BY <2>3 DEF Sound
  <2>5. K!Takable(h, best, lim)
    BY <2>1, <2>4 DEF K!Takable, K!Coalesced
  <2>6. /\ h.size[best] \in Nat /\ best \in Nat /\ size <= h.size[best]
        /\ owned \in [K!Address -> Nat] /\ HeaderSize \in Nat /\ HeaderSize > 0
    <3>1. h.size \in [Address -> Nat] /\ h.magic \subseteq Address
      BY <2>4, Fields
    <3>2. h.size[best] \in Nat /\ best \in Nat
      <4>1. best \in Address
        BY <2>1, <3>1
      <4>2. h.size[best] \in Nat
        BY <3>1, <4>1
      <4>3. QED
        BY <4>1, <4>2, Assumption DEF Address
    <3>3. owned \in [K!Address -> Nat]
      BY SameList DEF Sound
    <3>4. QED
      BY <3>2, <3>3, <2>1, Assumption
  <2>7. K!AllocEffect(h, r.ptr, size, r.heap, lim)
    BY <2>1, <2>2, <2>4, <2>5, <2>6, Assumption, K!OccupyAllocates
  <2>8. Clean(r.heap)
    BY <2>1, <2>2, <2>4, CleanOccupy
  <2>9. /\ r.ptr \in K!Address /\ owned[r.ptr] = 0
        /\ K!Granted(owned, r.ptr, size) \in [K!Address -> Nat]
        /\ K!OwnedBy(r.heap, K!Granted(owned, r.ptr, size))
    BY <2>4, <2>6, <2>7, Assumption, K!AllocOwned
  <2>10. r.ptr # NULL /\ r.ptr \in Address /\ owned[r.ptr] = 0
    BY <2>9, SameList, Assumption DEF Address, NULL, Blocks!NULL
  <2>11. Sound(r.limit, r.heap, [owned EXCEPT ![r.ptr] = size])
    BY <2>2, <2>3, <2>7, <2>8, <2>9, SameList DEF Sound, K!Granted, K!AllocEffect
  <2>12. QED
    BY <2>10, <2>11 DEF Outcome, r
<1>3. QED
  BY <1>1, <1>2

\* malloc keeps the heap sound; a buffer it hands out was nobody's.
LEMMA MallocSound ==
  ASSUME NEW m, m.ok = TRUE, m = [ok |-> m.ok, limit |-> m.limit, heap |-> m.heap],
         NEW owned, Sound(m.limit, m.heap, owned), NEW size \in Nat, NEW r \in Malloc(m, size)
  PROVE  Outcome(r, owned, size)
<1> DEFINE started == IF m.heap.tail = NULL THEN Increased(m) ELSE {[m EXCEPT !.ok = TRUE]}
           fail(n) == [limit |-> n.limit, heap |-> n.heap, ptr |-> NULL]
<1>1. PICK s \in started :
        r \in IF ~s.ok \/ size = 0 THEN {fail(s)}
              ELSE IF Blocks!FindBestFit(s.heap, size, FALSE) # NULL THEN {Taken(s, size)}
              ELSE {IF i.ok THEN Taken(i, size) ELSE fail(i) : i \in Increased(s)}
  BY DEF Malloc
<1>2. Sound(s.limit, s.heap, owned)
  <2>1. CASE m.heap.tail = NULL
    BY <2>1, IncreasedSound
  <2>2. CASE m.heap.tail # NULL
    <3>1. s.limit = m.limit /\ s.heap = m.heap
      BY <2>2
    <3>2. QED
      BY <3>1
  <2>3. QED
    BY <2>1, <2>2
<1>3. ASSUME NEW n, Sound(n.limit, n.heap, owned) PROVE Outcome(fail(n), owned, size)
  BY <1>3 DEF Outcome
<1> HIDE DEF fail, started
<1>4. CASE ~s.ok \/ size = 0
  BY <1>1, <1>2, <1>3, <1>4
<1>5. CASE s.ok /\ size # 0
  <2>1. size > 0
    BY <1>5
  <2>2. CASE Blocks!FindBestFit(s.heap, size, FALSE) # NULL
    <3>1. r = Taken(s, size)
      BY <1>1, <1>5, <2>2
    <3>2. QED
      BY <3>1, <2>1, <1>2, TakenSound
  <2>3. CASE Blocks!FindBestFit(s.heap, size, FALSE) = NULL
    <3>1. PICK i \in Increased(s) : r = IF i.ok THEN Taken(i, size) ELSE fail(i)
      BY <1>1, <1>5, <2>3
    <3>2. Sound(i.limit, i.heap, owned)
      BY <1>2, IncreasedSound
    <3>3. Outcome(Taken(i, size), owned, size)
      BY <3>2, <2>1, TakenSound
    <3>4. Outcome(fail(i), owned, size)
      BY <3>2, <1>3
    <3>5. QED
      BY <3>1, <3>3, <3>4
  <2>4. QED
    BY <2>2, <2>3
<1>6. QED
  BY <1>4, <1>5

\* free takes the pointer of an owner, and what it leaves is sound.
LEMMA FreedSound ==
  ASSUME NEW lim, NEW h, NEW owned, Sound(lim, h, owned), NEW p \in Address, owned[p] > 0
  PROVE  Sound(lim, Freed(h, p), [owned EXCEPT ![p] = 0])
<1> DEFINE b == p - HeaderSize
<1>1. lim # HeapBase
  BY DEF Sound
<1>2. K!WellFormed(h, lim) /\ K!Coalesced(h, lim) /\ Clean(h) /\ K!OwnedBy(h, owned)
  BY <1>1 DEF Sound
<1>3. /\ p \in Nat /\ p >= HeapBase /\ p # NULL /\ HeapBase \in Nat
      /\ HeaderSize \in Nat /\ HeaderSize > 0
      /\ owned \in [K!Address -> Nat] /\ p \in K!Address
  BY Assumption, SameList DEF Address, NULL, Blocks!NULL, Sound
<1>4. b \in h.magic /\ ~h.free[b]
  BY <1>2, <1>3 DEF K!OwnedBy
<1>5. b <= h.tail /\ h.tail \in Nat /\ b \in Nat /\ b >= HeapBase
  <2>1. b <= h.tail
    BY <1>2, <1>4, LastBlock
  <2>2. h.tail \in Nat /\ h.magic \subseteq Address
    BY <1>2, Fields
  <2>3. QED
    BY <2>1, <2>2, <1>4, Assumption DEF Address
<1>6. IsValidAddress(h, p)
  BY <1>3, <1>4, <1>5 DEF IsValidAddress
<1>7. PICK g : g = K!Release(h, b)
  OBVIOUS
<1>8. Freed(h, p) = g
  BY <1>3, <1>6, <1>7, SameOperations DEF Freed
<1>9. b \in K!Busy(h)
  BY <1>4 DEF K!Busy
<1>10. K!FreeEffect(h, p - HeaderSize, g, lim)
  BY <1>2, <1>7, <1>9, Assumption, K!ReleaseFrees
<1>11. /\ K!Dropped(owned, p) \in [K!Address -> Nat]
       /\ K!OwnedBy(g, K!Dropped(owned, p))
  BY <1>2, <1>3, <1>10, Assumption, K!FreeOwned
<1>12. Clean(g)
  BY <1>2, <1>4, <1>7, CleanRelease
<1>13. QED
  BY <1>1, <1>8, <1>10, <1>11, <1>12, SameList DEF Sound, K!Dropped, K!FreeEffect

\* realloc within the block.
LEMMA ResizeSound ==
  ASSUME NEW lim, NEW h, NEW owned, Sound(lim, h, owned), NEW p \in Address, owned[p] > 0,
         NEW size \in Nat, size > 0, h.size[p - HeaderSize] >= size
  PROVE  Sound(lim, h, [owned EXCEPT ![p] = size])
<1>1. lim # HeapBase
  BY DEF Sound
<1>2. PICK now : now = [owned EXCEPT ![p] = size]
  OBVIOUS
<1>3. /\ owned \in [Address -> Nat] /\ now \in [Address -> Nat] /\ now[p] = size
      /\ \A q \in Address : q # p => now[q] = owned[q]
  BY <1>2 DEF Sound
<1>4. K!WellFormed(h, lim) /\ K!Coalesced(h, lim) /\ Clean(h) /\ K!OwnedBy(h, owned)
  BY <1>1 DEF Sound
<1>5. /\ \A q \in Address : owned[q] > 0 /\ q >= HeapBase =>
           q - HeaderSize \in h.magic /\ ~h.free[q - HeaderSize] /\ owned[q] <= h.size[q - HeaderSize]
      /\ \A b \in h.magic : ~h.free[b] =>
           b + HeaderSize < HeapEnd /\ owned[b + HeaderSize] > 0
  BY <1>4, SameList DEF K!OwnedBy
<1>6. p >= HeapBase /\ HeaderSize \in Nat /\ HeapBase \in Nat
  BY Assumption DEF Address
<1>7. h.size[p - HeaderSize] \in Nat
  <2>1. p - HeaderSize \in h.magic
    BY <1>5, <1>6
  <2>2. h.size \in [Address -> Nat] /\ h.magic \subseteq Address
    BY <1>4, Fields
  <2>3. QED
    BY <2>1, <2>2
<1>8. ASSUME NEW q \in Address, now[q] > 0, q >= HeapBase
      PROVE  q - HeaderSize \in h.magic /\ ~h.free[q - HeaderSize] /\ now[q] <= h.size[q - HeaderSize]
  <2>1. CASE q = p
    <3>1. now[q] <= h.size[q - HeaderSize]
      BY <2>1, <1>3, <1>7
    <3>2. QED
      BY <3>1, <2>1, <1>5, <1>6
  <2>2. CASE q # p
    BY <2>2, <1>3, <1>5, <1>8
  <2>3. QED
    BY <2>1, <2>2
<1>9. ASSUME NEW b \in h.magic, ~h.free[b]
      PROVE  b + HeaderSize < HeapEnd /\ now[b + HeaderSize] > 0
  <2>1. b + HeaderSize < HeapEnd /\ owned[b + HeaderSize] > 0
    BY <1>5, <1>9
  <2>2. b \in Address /\ HeapEnd \in Nat
    BY <1>4, Fields, Assumption DEF HeapEnd
  <2>3. b + HeaderSize \in Address
    BY <2>1, <2>2, <1>6 DEF Address
  <2>4. QED
    BY <2>1, <2>3, <1>3
<1>10. K!OwnedBy(h, now)
  BY <1>8, <1>9, SameList DEF K!OwnedBy
<1>11. QED
  BY <1>1, <1>2, <1>3, <1>4, <1>10 DEF Sound

\* Buffers in use lie in memory and apart from each other.
LEMMA SoundDisjoint ==
  ASSUME NEW lim, NEW h, NEW owned, Sound(lim, h, owned)
  PROVE  /\ \A p \in Address : owned[p] > 0 => p + owned[p] <= HeapEnd
         /\ \A p, q \in Address : owned[p] > 0 /\ owned[q] > 0 /\ p < q => p + owned[p] <= q
<1>1. CASE lim = HeapBase
  BY <1>1 DEF Sound
<1>2. CASE lim # HeapBase
  <2>1. K!WellFormed(h, lim) /\ K!OwnedBy(h, owned) /\ owned \in [K!Address -> Nat]
    BY <1>2, SameList DEF Sound
  <2>2. \A p \in K!Address : p \in Nat /\ p >= HeapBase /\ ~(p < HeapBase) /\ owned[p] \in Nat
    BY <2>1, Assumption, SameList DEF Address
  <2>3. /\ \A p \in K!Address : owned[p] > 0 => p + owned[p] <= lim
        /\ \A p, q \in K!Address : owned[p] > 0 /\ owned[q] > 0 /\ p < q => p + owned[p] <= q
    BY <2>1, <2>2, Assumption, K!OwnedDisjoint
  <2>4. lim <= HeapEnd /\ lim \in Nat /\ HeapEnd \in Nat
    BY <2>1, SameList, Assumption DEF K!WellFormed, HeapEnd
  <2>5. QED
    BY <2>2, <2>3, <2>4, SameList
<1>3. QED
  BY <1>1, <1>2

\* So there is room for the buffer that was handed out last.
LEMMA SoundRoom ==
  ASSUME NEW lim, NEW h, NEW owned \in [Address -> Nat], NEW p \in Address, NEW size \in Nat,
         size > 0, Sound(lim, h, [owned EXCEPT ![p] = size])
  PROVE  /\ p + size <= HeapEnd
         /\ \A q \in Address : q # p /\ owned[q] > 0 => p + size <= q \/ q + owned[q] <= p
<1>1. PICK now : now = [owned EXCEPT ![p] = size]
  OBVIOUS
<1>2. now[p] = size /\ \A q \in Address : q # p => now[q] = owned[q]
  BY <1>1
<1>3. /\ \A q \in Address : now[q] > 0 => q + now[q] <= HeapEnd
      /\ \A q, s \in Address : now[q] > 0 /\ now[s] > 0 /\ q < s => q + now[q] <= s
  BY <1>1, SoundDisjoint
<1>4. \A q \in Address : q \in Nat
  BY Assumption DEF Address
<1>5. QED
  BY <1>2, <1>3, <1>4

-----------------------------------------------------------------------------
(* The theorems.                                                           *)

\* The inductive invariant: the heap is sound for the buffers handed out.
UInv == Sound(limit, heap, live)

\* The invariant holds before the first malloc.
LEMMA InitUInv == Init => UInv
<1> SUFFICES ASSUME Init PROVE UInv
  OBVIOUS
<1>1. 0 \in 0 .. MaxPages /\ limit = HeapBase + 0 * PageSize /\ limit = HeapBase
  BY UserHeapAssumption DEF Init
<1>2. live \in [Address -> Nat] /\ \A p \in Address : live[p] = 0
  BY DEF Init
<1>3. heap = Blocks!ZeroHeap
  BY DEF Init
<1>4. \E k \in 0 .. MaxPages : limit = HeapBase + k * PageSize
  BY <1>1
<1>5. QED
  BY <1>1, <1>2, <1>3, <1>4 DEF UInv, Sound

\* One call of the program: the heap stays sound, and the program sees a step
\* of the allocator.
LEMMA StepUInv == UInv /\ [Next]_vars => UInv' /\ [Allocator!Next]_live
<1> SUFFICES ASSUME UInv, [Next]_vars PROVE UInv' /\ [Allocator!Next]_live
  OBVIOUS
<1>1. /\ Sound(limit, heap, live) /\ live \in [Address -> Nat]
      /\ Allocator!Address = Address /\ Sizes \subseteq Nat
  BY UserHeapAssumption DEF UInv, Sound, Allocator!Address, Address
<1>2. SUFFICES Sound(limit', heap', live') /\ [Allocator!Next]_live
  BY DEF UInv
<1>3. ASSUME NEW size \in Sizes, DoMalloc(size) PROVE Sound(limit', heap', live') /\ [Allocator!Next]_live
  <2>1. PICK r \in Malloc(Now, size) :
          /\ limit' = r.limit /\ heap' = r.heap
          /\ live' = IF r.ptr = NULL THEN live ELSE [live EXCEPT ![r.ptr] = size]
    BY <1>3 DEF DoMalloc
  <2>2. /\ Now.ok = TRUE /\ Now.limit = limit /\ Now.heap = heap
        /\ Now = [ok |-> Now.ok, limit |-> Now.limit, heap |-> Now.heap]
    BY DEF Now
  <2>3. Outcome(r, live, size)
    BY <1>1, <1>3, <2>2, MallocSound
  <2>4. CASE r.ptr = NULL
    <3>1. live' = live /\ Sound(r.limit, r.heap, live)
      BY <2>1, <2>3, <2>4 DEF Outcome
    <3>2. QED
      BY <2>1, <3>1
  <2>5. CASE r.ptr # NULL
    <3>1. /\ r.ptr \in Address /\ live[r.ptr] = 0 /\ size > 0
          /\ live' = [live EXCEPT ![r.ptr] = size] /\ Sound(r.limit, r.heap, live')
      BY <2>1, <2>3, <2>5 DEF Outcome
    <3>2. Sound(limit', heap', live')
      BY <2>1, <3>1
    <3>3. /\ r.ptr + size <= HeapEnd
          /\ \A q \in Address : q # r.ptr /\ live[q] > 0 =>
               r.ptr + size <= q \/ q + live[q] <= r.ptr
      BY <3>1, <1>1, <1>3, SoundRoom
    <3>4. Allocator!Alloc(r.ptr, size)
      BY <3>1, <3>3, <1>1 DEF Allocator!Alloc, Allocator!Room
    <3>5. Allocator!Next
      BY <3>1, <3>4, <1>1, <1>3 DEF Allocator!Next
    <3>6. QED
      BY <3>2, <3>5
  <2>6. QED
    BY <2>4, <2>5
<1>4. ASSUME NEW p \in Address, DoFree(p) PROVE Sound(limit', heap', live') /\ [Allocator!Next]_live
  <2>1. /\ live[p] > 0 /\ limit' = limit /\ heap' = Freed(heap, p)
        /\ live' = [live EXCEPT ![p] = 0]
    BY <1>4 DEF DoFree
  <2>2. Sound(limit', heap', live')
    BY <2>1, <1>1, FreedSound
  <2>3. Allocator!Free(p)
    BY <2>1 DEF Allocator!Free
  <2>4. Allocator!Next
    BY <2>3, <1>1 DEF Allocator!Next
  <2>5. QED
    BY <2>2, <2>4
<1>5. ASSUME NEW p \in Address, NEW size \in Sizes, ReallocInPlace(p, size)
      PROVE  Sound(limit', heap', live') /\ [Allocator!Next]_live
  <2>1. /\ live[p] > 0 /\ size > 0 /\ size \in Nat /\ heap.size[p - HeaderSize] >= size
        /\ limit' = limit /\ heap' = heap /\ live' = [live EXCEPT ![p] = size]
    BY <1>1, <1>5 DEF ReallocInPlace
  <2>2. Sound(limit', heap', live')
    BY <2>1, <1>1, ResizeSound
  <2>3. /\ p + size <= HeapEnd
        /\ \A q \in Address : q # p /\ live[q] > 0 => p + size <= q \/ q + live[q] <= p
    BY <2>1, <2>2, <1>1, SoundRoom
  <2>4. Allocator!Resize(p, size)
    BY <2>1, <2>3, <1>1 DEF Allocator!Resize, Allocator!Room
  <2>5. Allocator!Next
    BY <2>4, <1>1 DEF Allocator!Next
  <2>6. QED
    BY <2>2, <2>5
<1>6. ASSUME NEW p \in Address, NEW size \in Sizes, ReallocMove(p, size)
      PROVE  Sound(limit', heap', live') /\ [Allocator!Next]_live
  <2>1. live[p] > 0 /\ size > 0 /\ size \in Nat
    BY <1>1, <1>6 DEF ReallocMove
  <2>2. PICK r \in Malloc(Now, size) :
          /\ limit' = r.limit
          /\ heap' = IF r.ptr = NULL THEN r.heap ELSE Freed(r.heap, p)
          /\ live' = IF r.ptr = NULL THEN live ELSE [live EXCEPT ![r.ptr] = size, ![p] = 0]
    BY <1>6 DEF ReallocMove
  <2>3. /\ Now.ok = TRUE /\ Now.limit = limit /\ Now.heap = heap
        /\ Now = [ok |-> Now.ok, limit |-> Now.limit, heap |-> Now.heap]
    BY DEF Now
  <2>4. Outcome(r, live, size)
    BY <1>1, <2>1, <2>3, MallocSound
  <2>5. CASE r.ptr = NULL
    <3>1. live' = live /\ heap' = r.heap /\ Sound(r.limit, r.heap, live)
      BY <2>2, <2>4, <2>5 DEF Outcome
    <3>2. QED
      BY <2>2, <3>1
  <2>6. CASE r.ptr # NULL
    <3>1. PICK both : both = [live EXCEPT ![r.ptr] = size]
      OBVIOUS
    <3>2. /\ r.ptr \in Address /\ live[r.ptr] = 0 /\ Sound(r.limit, r.heap, both)
      BY <2>4, <2>6, <3>1 DEF Outcome
    <3>3. r.ptr # p /\ both[p] > 0
      BY <3>1, <3>2, <2>1, <1>1
    <3>4. /\ heap' = Freed(r.heap, p) /\ live' = [both EXCEPT ![p] = 0]
          /\ live' = [live EXCEPT ![r.ptr] = size, ![p] = 0]
      BY <2>2, <2>6, <3>1
    <3>5. Sound(limit', heap', live')
      <4>1. Sound(r.limit, Freed(r.heap, p), [both EXCEPT ![p] = 0])
        BY <3>2, <3>3, FreedSound
      <4>2. limit' = r.limit
        BY <2>2
      <4>3. QED
        BY <4>1, <4>2, <3>4
    <3>6. /\ r.ptr + size <= HeapEnd
          /\ \A q \in Address : q # r.ptr /\ live[q] > 0 =>
               r.ptr + size <= q \/ q + live[q] <= r.ptr
      BY <3>1, <3>2, <2>1, <1>1, SoundRoom
    <3>7. Allocator!Move(p, r.ptr, size)
      BY <3>4, <3>6, <2>1, <1>1 DEF Allocator!Move, Allocator!Room
    <3>8. p \in Allocator!Buffers /\ r.ptr \in Allocator!Address \ Allocator!Buffers
      BY <3>2, <2>1, <1>1 DEF Allocator!Buffers
    <3>9. Allocator!Next
      BY <3>7, <3>8 DEF Allocator!Next
    <3>10. QED
      BY <3>5, <3>9
  <2>7. QED
    BY <2>5, <2>6
<1>7. CASE UNCHANGED vars
  BY <1>1, <1>7 DEF vars
<1>8. QED
  BY <1>3, <1>4, <1>5, <1>6, <1>7 DEF Next

\* The invariant always holds.
LEMMA UserHeapInvariant == Spec => []UInv
<1>1. QED
  BY InitUInv, StepUInv, PTL DEF Spec

\* Whatever malloc, realloc and free did and whenever the kernel refused a page,
\* the blocks of a program's heap tile the memory granted so far, chained both
\* ways up to heap_tail, and no two free blocks are neighbours.
THEOREM UserHeapListWellFormed == Spec => []UserListWellFormed
<1>1. UInv => UserListWellFormed
  BY SameList DEF UInv, Sound, UserListWellFormed, K!WellFormed
<1>2. QED
  BY <1>1, UserHeapInvariant, PTL

\* A program that has freed everything has one free block, of all the pages it
\* ever obtained: nothing is lost where one page was added to another.
THEOREM UserHeapFreedIsWhole == Spec => []UserHeapReusable
<1>1. ASSUME UInv, limit > HeapBase, \A p \in Address : live[p] = 0
      PROVE  heap = [Blocks!ZeroHeap EXCEPT
                       !.magic = {HeapBase}, !.tail = HeapBase, !.free[HeapBase] = TRUE,
                       !.size[HeapBase] = limit - HeapBase - HeaderSize]
  <2> DEFINE z == K!ZeroHeap
  <2>1. HeapBase \in Nat /\ HeaderSize \in Nat /\ HeapEnd \in Nat /\ HeapBase > 0
    BY Assumption DEF HeapEnd
  <2>2. /\ K!WellFormed(heap, limit) /\ K!Coalesced(heap, limit) /\ Clean(heap)
        /\ K!OwnedBy(heap, live)
    BY <1>1, <2>1 DEF UInv, Sound
  <2>3. /\ heap.magic \subseteq Address
        /\ heap.size \in [Address -> Nat] /\ heap.free \in [Address -> BOOLEAN]
        /\ heap.prev \in [Address -> Nat] /\ heap.next \in [Address -> Nat]
        /\ heap \in K!HeapType
    BY <2>2, Fields
  <2>4. ASSUME NEW b \in heap.magic PROVE heap.free[b]
    <3>1. SUFFICES ASSUME ~heap.free[b] PROVE FALSE
      OBVIOUS
    <3>2. b + HeaderSize < HeapEnd /\ live[b + HeaderSize] > 0
      BY <2>2, <3>1, SameList DEF K!OwnedBy
    <3>3. b + HeaderSize \in Address
      BY <2>1, <2>3, <3>2, SMTT(30) DEF Address
    <3>4. QED
      BY <1>1, <3>2, <3>3
  <2>5. HeapBase \in heap.magic /\ heap.prev[HeapBase] = NULL
    BY <2>2, SameList DEF K!WellFormed, K!Tiled, K!Linked
  <2>6. K!EndOf(heap, HeapBase) = limit
    <3>1. \/ K!EndOf(heap, HeapBase) = limit
          \/ /\ K!EndOf(heap, HeapBase) \in heap.magic
             /\ ~heap.free[K!EndOf(heap, HeapBase)]
      BY <2>2, <2>4, <2>5 DEF K!WellFormed, K!Tiled, K!Coalesced
    <3>2. QED
      BY <2>4, <3>1
  <2>7. heap.tail = HeapBase /\ heap.next[HeapBase] = NULL /\ \A b \in heap.magic : b <= HeapBase
    BY <2>2, <2>5, <2>6, LastBlock
  <2>8. heap.magic = {HeapBase}
    BY <2>1, <2>3, <2>5, <2>7 DEF Address
  <2>9. heap.size[HeapBase] = limit - HeapBase - HeaderSize /\ heap.free[HeapBase] = TRUE
    <3>1. heap.size[HeapBase] \in Nat /\ limit \in Nat /\ HeapBase \in Address
      BY <2>2, <2>3, <2>5 DEF K!WellFormed
    <3>2. heap.size[HeapBase] = limit - HeapBase - HeaderSize
      BY <2>1, <2>6, <3>1 DEF K!EndOf
    <3>3. heap.free[HeapBase] = TRUE
      BY <2>3, <2>4, <2>5, <3>1
    <3>4. QED
      BY <3>2, <3>3
  <2>10. \A a \in Address : a # HeapBase =>
           heap.size[a] = 0 /\ heap.free[a] = FALSE /\ heap.prev[a] = NULL /\ heap.next[a] = NULL
    BY <2>2, <2>8 DEF Clean
  <2>11. /\ z.size = [a \in Address |-> 0] /\ z.free = [a \in Address |-> FALSE]
         /\ z.prev = [a \in Address |-> NULL] /\ z.next = [a \in Address |-> NULL]
    BY SameList DEF K!ZeroHeap
  <2>12. heap.size = [z.size EXCEPT ![HeapBase] = limit - HeapBase - HeaderSize]
    BY <2>3, <2>5, <2>9, <2>10, <2>11
  <2>13. heap.free = [z.free EXCEPT ![HeapBase] = TRUE]
    <3>1. PICK f : f = [z.free EXCEPT ![HeapBase] = TRUE]
      OBVIOUS
    <3>2. f \in [Address -> BOOLEAN]
      BY <3>1, <2>11
    <3>3. f[HeapBase] = TRUE /\ \A a \in Address : a # HeapBase => f[a] = FALSE
      BY <3>1, <2>3, <2>5, <2>11
    <3>4. ASSUME NEW a \in Address PROVE heap.free[a] = f[a]
      BY <3>3, <2>9, <2>10
    <3>5. heap.free = f
      BY <3>2, <3>4, <2>3
    <3>6. QED
      BY <3>1, <3>5
  <2>14. heap.prev = z.prev /\ heap.next = z.next
    BY <2>3, <2>5, <2>7, <2>10, <2>11
  <2>15. heap = [magic |-> heap.magic, size |-> heap.size, free |-> heap.free,
                 prev |-> heap.prev, next |-> heap.next, tail |-> heap.tail]
    BY <2>3 DEF K!HeapType
  <2>16. heap = [K!ZeroHeap EXCEPT
                   !.magic = {HeapBase}, !.tail = HeapBase, !.free[HeapBase] = TRUE,
                   !.size[HeapBase] = limit - HeapBase - HeaderSize]
    <3>1. PICK w : w = [z EXCEPT !.magic = {HeapBase}, !.tail = HeapBase,
                                 !.free[HeapBase] = TRUE,
                                 !.size[HeapBase] = limit - HeapBase - HeaderSize]
      OBVIOUS
    <3>2. /\ w = [magic |-> w.magic, size |-> w.size, free |-> w.free, prev |-> w.prev,
                  next |-> w.next, tail |-> w.tail]
          /\ w.magic = {HeapBase} /\ w.tail = HeapBase
          /\ w.free = [z.free EXCEPT ![HeapBase] = TRUE]
          /\ w.size = [z.size EXCEPT ![HeapBase] = limit - HeapBase - HeaderSize]
          /\ w.prev = z.prev /\ w.next = z.next
      BY <3>1 DEF K!ZeroHeap
    <3>3. /\ w.magic = heap.magic /\ w.tail = heap.tail /\ w.free = heap.free
          /\ w.size = heap.size /\ w.prev = heap.prev /\ w.next = heap.next
      BY <3>2, <2>7, <2>8, <2>12, <2>13, <2>14
    <3>4. w = heap
      BY <3>2, <3>3, <2>15
    <3>5. QED
      BY <3>1, <3>4
  <2>17. QED
    BY <2>16, SameList
<1>2. UInv => UserHeapReusable
  BY <1>1 DEF UserHeapReusable
<1>3. QED
  BY <1>2, UserHeapInvariant, PTL

\* malloc, calloc, realloc and free of a user program implement the allocator of
\* disjoint buffers, while its memory grows page by page.
THEOREM UserHeapImplementsAllocator == Spec => ImplementsUserAllocator
<1>1. Init => Allocator!Init
  BY DEF Init, Allocator!Init, Allocator!Address, Address
<1>2. QED
  BY <1>1, StepUInv, UserHeapInvariant, PTL DEF Spec, ImplementsUserAllocator, Allocator!Spec
===============================================================================
