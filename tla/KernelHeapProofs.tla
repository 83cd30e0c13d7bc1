--------------------------- MODULE KernelHeapProofs ---------------------------
(***************************************************************************)
(* Proofs about the kernel heap, for every arena, header and page size.    *)
(***************************************************************************)
EXTENDS KernelHeap, WellFoundedInduction, TLAPS

\* A heap whose headers tile the memory up to e and are linked in address
\* order.  The kernel's heap reaches to the end of its arena at once; that of a
\* user program, whose proofs use these lemmas too, grows.
WellFormed(h, e) == h \in HeapType /\ e \in Nat /\ e <= HeapEnd /\ Tiled(h, e) /\ Linked(h, e)

\* What the type of a heap says of its headers.
LEMMA HeapFacts ==
  ASSUME NEW h \in HeapType
  PROVE  /\ h.magic \subseteq HeapAddress
         /\ \A a \in HeapAddress : a \in Nat /\ a > 0 /\ a < HeapEnd
         /\ \A a \in HeapAddress : h.size[a] \in Nat /\ EndOf(h, a) \in Nat
         /\ \A a \in HeapAddress : h.free[a] \in BOOLEAN
         /\ \A a \in HeapAddress : h.prev[a] \in Nat /\ h.next[a] \in Nat
<1> USE KernelHeapAssumption
<1>1. /\ h.magic \subseteq HeapAddress
      /\ h.size \in [HeapAddress -> Nat]
      /\ h.free \in [HeapAddress -> BOOLEAN]
      /\ h.prev \in [HeapAddress -> Nat]
      /\ h.next \in [HeapAddress -> Nat]
  BY DEF HeapType
<1>2. \A a \in HeapAddress : a \in Nat /\ a > 0 /\ a < HeapEnd
  BY DEF HeapAddress, HeapEnd
<1>3. QED
  BY <1>1, <1>2 DEF EndOf

\* Where the headers of a list are.
LEMMA ListFacts ==
  ASSUME NEW e, NEW h, WellFormed(h, e)
  PROVE  /\ e \in Nat /\ e <= HeapEnd /\ HeapBase < e /\ HeapEnd \in Nat
         /\ \A b \in h.magic : /\ b \in HeapAddress /\ b \in Nat /\ b < e
                               /\ EndOf(h, b) \in Nat /\ b < EndOf(h, b) /\ EndOf(h, b) <= e
<1> USE KernelHeapAssumption
<1>1. /\ e \in Nat /\ e <= HeapEnd /\ HeapBase \in h.magic
      /\ h.magic \subseteq HeapBase .. e - 1
      /\ \A b \in h.magic : EndOf(h, b) = e \/ EndOf(h, b) \in h.magic
  BY DEF WellFormed, Tiled
<1>2. /\ h.magic \subseteq HeapAddress
      /\ \A a \in HeapAddress : a \in Nat /\ h.size[a] \in Nat /\ EndOf(h, a) \in Nat
  BY HeapFacts DEF WellFormed
<1>3. \A b \in h.magic : b \in Nat /\ h.size[b] \in Nat /\ EndOf(h, b) \in Nat
  BY <1>2
<1>4. \A b \in h.magic : b < EndOf(h, b)
  BY <1>3 DEF EndOf
<1>5. \A b \in h.magic : EndOf(h, b) <= e /\ b < e
  BY <1>1, <1>3
<1>6. HeapEnd \in Nat
  BY DEF HeapEnd
<1>7. QED
  BY <1>1, <1>2, <1>3, <1>4, <1>5, <1>6

-----------------------------------------------------------------------------
(* Splitting and absorbing keep a heap well-formed.                        *)

\* What a split of block b at n leaves.
SplitEffect(h, b, n, g) ==
  /\ n \in HeapAddress /\ n \notin h.magic
  /\ g.magic = h.magic \cup {n}
  /\ \A a \in HeapAddress : g.free[a] = IF a = n THEN TRUE ELSE h.free[a]
  /\ g.size[b] = n - b - HeaderSize
  /\ g.size[n] = h.size[b] - (n - b)
  /\ \A a \in HeapAddress : a # b /\ a # n => g.size[a] = h.size[a]

\* Split writes a header into the data of a block and changes no other
\* block's extent.
LEMMA SplitWellFormed ==
  ASSUME NEW e, NEW h, WellFormed(h, e), NEW b \in h.magic, NEW n \in Nat,
         n >= b + HeaderSize, n + HeaderSize <= EndOf(h, b)
  PROVE  WellFormed(Split(h, b, n), e) /\ SplitEffect(h, b, n, Split(h, b, n))
<1> DEFINE g == Split(h, b, n)
<1> USE KernelHeapAssumption
<1>1. /\ h \in HeapType /\ b \in HeapAddress /\ b \in Nat
      /\ h.size[b] \in Nat
      /\ EndOf(h, b) \in Nat /\ EndOf(h, b) <= e
      /\ n \in HeapAddress /\ n # b
  <2>1. h \in HeapType /\ h.magic \subseteq HeapAddress /\ h.size \in [HeapAddress -> Nat]
    BY DEF WellFormed, HeapType
  <2>2. b \in HeapAddress /\ b \in Nat /\ h.size[b] \in Nat /\ EndOf(h, b) \in Nat
    BY <2>1 DEF EndOf, HeapAddress, HeapEnd
  <2>3. EndOf(h, b) <= e
    BY <2>1, <2>2 DEF WellFormed, Tiled, HeapAddress, HeapEnd
  <2>4. e \in Nat /\ e <= HeapEnd
    BY DEF WellFormed
  <2>5. QED
    BY <2>1, <2>2, <2>3, <2>4 DEF HeapAddress, HeapEnd
<1>2. n \notin h.magic
  BY <1>1, SMTT(30) DEF WellFormed, HeapType, Tiled, EndOf, HeapAddress, HeapEnd
<1>3. g \in HeapType
  BY <1>1 DEF Split, HeapType, EndOf, NULL
<1>4. /\ g.magic = h.magic \cup {n}
      /\ \A a \in HeapAddress : a # b /\ a # n => g.size[a] = h.size[a]
      /\ g.size[b] = n - b - HeaderSize /\ g.size[n] = h.size[b] - (n - b)
      /\ EndOf(g, b) = n
      /\ EndOf(g, n) = EndOf(h, b)
      /\ \A a \in HeapAddress : a # b /\ a # n => EndOf(g, a) = EndOf(h, a)
  BY <1>1 DEF Split, HeapType, EndOf
<1>a. \A a \in HeapAddress : g.free[a] = IF a = n THEN TRUE ELSE h.free[a]
  BY <1>1 DEF Split, HeapType
<1>5. /\ \A a \in HeapAddress : g.prev[a] = IF a = n THEN b
                                         ELSE IF a = h.next[b] THEN n
                                         ELSE h.prev[a]
      /\ \A a \in HeapAddress : g.next[a] = IF a = n THEN h.next[b]
                                         ELSE IF a = b THEN n ELSE h.next[a]
      /\ g.tail = IF h.next[b] = NULL THEN n ELSE h.tail
  BY <1>1 DEF Split, HeapType
<1> HIDE DEF g
<1>6. /\ h.magic \subseteq HeapAddress
      /\ \A a \in h.magic : a \in Int /\ EndOf(h, a) \in Int
      /\ \A a \in g.magic : a \in Int /\ EndOf(g, a) \in Int
  <2>1. /\ h.magic \subseteq HeapAddress
        /\ \A a \in HeapAddress : a \in Nat /\ EndOf(h, a) \in Nat
    BY <1>1, HeapFacts
  <2>2. /\ g.magic \subseteq HeapAddress
        /\ \A a \in HeapAddress : EndOf(g, a) \in Nat
    BY <1>3, HeapFacts
  <2>3. QED
    BY <2>1, <2>2
<1>7. Tiled(g, e)
  <2>1. HeapBase \in g.magic
    BY <1>4 DEF WellFormed, Tiled
  <2>2. \A a \in g.magic : EndOf(g, a) = e \/ EndOf(g, a) \in g.magic
    BY <1>4, <1>6 DEF WellFormed, Tiled
  <2>3. \A a, c \in g.magic : a < c => EndOf(g, a) <= c
    BY <1>1, <1>2, <1>4, <1>6 DEF WellFormed, Tiled
  <2>4. g.magic \subseteq HeapBase .. e - 1
    BY <1>1, <1>4 DEF WellFormed, Tiled, HeapAddress
  <2>5. QED
    BY <2>1, <2>2, <2>3, <2>4 DEF Tiled
<1>8. Linked(g, e)
  <2> SUFFICES ASSUME NEW a \in g.magic
               PROVE  /\ g.next[a] = IF EndOf(g, a) = e THEN NULL ELSE EndOf(g, a)
                      /\ g.next[a] # NULL => g.prev[g.next[a]] = a
                      /\ g.next[a] = NULL => g.tail = a
                      /\ a # HeapBase => g.prev[a] \in g.magic /\ EndOf(g, g.prev[a]) = a
                      /\ a = HeapBase => g.prev[a] = NULL
    BY DEF Linked
  <2>1. \A c \in h.magic : EndOf(h, c) <= e
    BY <1>6 DEF WellFormed, Tiled, HeapAddress, HeapEnd
  <2>2. n < e /\ HeapBase > 0 /\ HeapBase < n
    BY <1>1, ListFacts DEF HeapAddress
  <2>3. g.next[a] = IF EndOf(g, a) = e THEN NULL ELSE EndOf(g, a)
    BY <1>1, <1>2, <1>4, <1>6, <1>5, <2>1, <2>2 DEF WellFormed, Linked
  <2>4. g.next[a] # NULL => g.prev[g.next[a]] = a
    BY <1>1, <1>2, <1>4, <1>6, <1>5, <2>1, <2>2 DEF WellFormed, Linked, Tiled, NULL
  <2>5. g.next[a] = NULL => g.tail = a
    BY <1>1, <1>2, <1>4, <1>6, <1>5, <2>1, <2>2 DEF WellFormed, Linked, NULL
  <2>6. a # HeapBase => g.prev[a] \in g.magic /\ EndOf(g, g.prev[a]) = a
    <3>1. CASE a = n
      BY <1>1, <1>4, <1>5, <3>1
    <3>2. CASE a = h.next[b]
      BY <1>1, <1>2, <1>4, <1>6, <1>5, <2>1, <2>2, <3>2 DEF WellFormed, Linked
    <3>3. CASE a # n /\ a # h.next[b] /\ a # HeapBase
      <4>1. a \in h.magic /\ h.prev[a] \in h.magic /\ EndOf(h, h.prev[a]) = a
        BY <1>4, <3>3 DEF WellFormed, Linked
      <4>2. h.prev[a] # b /\ h.prev[a] # n
        BY <1>1, <1>2, <2>1, <3>3, <4>1, <1>6, ListFacts DEF WellFormed, Linked
      <4>3. QED
        BY <1>4, <1>6, <1>5, <3>3, <4>1, <4>2
    <3>4. QED
      BY <3>1, <3>2, <3>3
  <2>7. a = HeapBase => g.prev[a] = NULL
    BY <1>1, <1>2, <1>4, <1>6, <1>5, <2>1, <2>2 DEF WellFormed, Linked, Tiled, NULL
  <2>8. QED
    BY <2>3, <2>4, <2>5, <2>6, <2>7
<1>9. QED
  BY <1>1, <1>2, <1>3, <1>4, <1>a, <1>7, <1>8 DEF WellFormed, SplitEffect, g

\* What is left when block b has swallowed block t.
AbsorbEffect(h, b, t, g) ==
  /\ g.magic = h.magic \ {t}
  /\ EndOf(g, b) = EndOf(h, t)
  /\ \A a \in g.magic : a # b => EndOf(g, a) = EndOf(h, a)
  /\ \A a \in g.magic : g.free[a] = h.free[a]

\* Absorb takes one header out of the list, the one behind block b, and
\* leaves every other block's extent and state alone.
LEMMA AbsorbWellFormed ==
  ASSUME NEW e, NEW h, WellFormed(h, e), NEW b \in h.magic, NEW t \in h.magic,
         t = EndOf(h, b)
  PROVE  WellFormed(Absorb(h, b, t), e) /\ AbsorbEffect(h, b, t, Absorb(h, b, t))
<1> DEFINE g == Absorb(h, b, t)
           s == h.size[b] + h.size[t] + HeaderSize
           zeroed == b + HeaderSize .. b + HeaderSize + s - 1
<1> USE KernelHeapAssumption
<1>1. /\ h \in HeapType
      /\ h.magic \subseteq HeapAddress
      /\ \A a \in HeapAddress : a \in Nat /\ a > 0 /\ a < HeapEnd
      /\ \A a \in HeapAddress : h.size[a] \in Nat /\ EndOf(h, a) \in Nat
      /\ \A a \in HeapAddress : h.prev[a] \in Nat /\ h.next[a] \in Nat
      /\ \A a \in HeapAddress : h.free[a] \in BOOLEAN
  BY HeapFacts DEF WellFormed
<1>2. \A c \in h.magic : EndOf(h, c) <= e
  BY <1>1 DEF WellFormed, Tiled, HeapEnd
<1>3. /\ s \in Nat /\ b < t
      /\ b + HeaderSize + s = EndOf(h, t)
      /\ b \notin zeroed
      /\ \A c \in h.magic : c \in zeroed <=> c = t
  BY <1>1 DEF WellFormed, Tiled, EndOf
<1>4. /\ g.magic = h.magic \ zeroed
      /\ \A a \in HeapAddress : a \notin zeroed =>
           /\ g.size[a] = IF a = b THEN s ELSE h.size[a]
           /\ g.free[a] = h.free[a]
           /\ g.prev[a] = IF a = h.next[t] THEN b ELSE h.prev[a]
           /\ g.next[a] = IF a = b THEN h.next[t] ELSE h.next[a]
      /\ g.tail = IF h.next[t] = NULL THEN b ELSE h.tail
  BY <1>1, <1>3 DEF Absorb
<1>5. g \in HeapType
  <2>1. g.magic \in SUBSET HeapAddress
    BY <1>1, <1>4
  <2>2. g.size \in [HeapAddress -> Nat]
    BY <1>1, <1>3 DEF Absorb
  <2>3. g.free \in [HeapAddress -> BOOLEAN]
    BY <1>1 DEF Absorb
  <2>4. g.prev \in [HeapAddress -> Nat] /\ g.next \in [HeapAddress -> Nat]
    BY <1>1 DEF Absorb, NULL
  <2>5. g.tail \in Nat
    BY <1>1, <1>4 DEF HeapType
  <2>6. g = [magic |-> g.magic, size |-> g.size, free |-> g.free,
             prev |-> g.prev, next |-> g.next, tail |-> g.tail]
    BY DEF Absorb
  <2>7. QED
    BY <2>1, <2>2, <2>3, <2>4, <2>5, <2>6 DEF HeapType
<1> HIDE DEF g, zeroed, s
<1>6. /\ g.magic = h.magic \ {t}
      /\ EndOf(g, b) = EndOf(h, t)
      /\ \A a \in g.magic : a # b => EndOf(g, a) = EndOf(h, a)
      /\ \A a \in g.magic : g.free[a] = h.free[a]
  <2>1. g.magic = h.magic \ {t} /\ b \in g.magic
    BY <1>1, <1>3, <1>4
  <2>2. \A a \in g.magic : a \in HeapAddress /\ a \notin zeroed
    BY <1>1, <1>3, <2>1
  <2>3. \A a \in g.magic : /\ g.size[a] = IF a = b THEN s ELSE h.size[a]
                          /\ g.free[a] = h.free[a]
    BY <1>4, <2>2
  <2>4. QED
    BY <1>3, <2>1, <2>3 DEF EndOf
<1>7. /\ g.magic \subseteq HeapAddress
      /\ \A a \in HeapAddress : EndOf(g, a) \in Nat
  BY <1>5, HeapFacts
<1>8. Tiled(g, e)
  <2>1. HeapBase \in g.magic
    BY <1>1, <1>3, <1>6 DEF WellFormed, Tiled, HeapAddress
  <2>2. \A a \in g.magic : EndOf(g, a) = e \/ EndOf(g, a) \in g.magic
    <3> SUFFICES ASSUME NEW a \in g.magic
                 PROVE  EndOf(g, a) = e \/ EndOf(g, a) \in g.magic
      OBVIOUS
    <3>1. CASE a = b
      BY <1>1, <1>6, <3>1 DEF WellFormed, Tiled, EndOf
    <3>2. CASE a # b
      <4>1. EndOf(h, a) # t
        BY <1>1, <1>3, <1>6, <3>2, SMTT(30) DEF WellFormed, Tiled, EndOf
      <4>2. QED
        BY <1>6, <3>2, <4>1 DEF WellFormed, Tiled
    <3>3. QED
      BY <3>1, <3>2
  <2>3. \A a, c \in g.magic : a < c => EndOf(g, a) <= c
    BY <1>1, <1>3, <1>6, <1>7 DEF WellFormed, Tiled
  <2>4. g.magic \subseteq HeapBase .. e - 1
    BY <1>6 DEF WellFormed, Tiled
  <2>5. QED
    BY <2>1, <2>2, <2>3, <2>4 DEF Tiled
<1>9. Linked(g, e)
  <2> SUFFICES ASSUME NEW a \in g.magic
               PROVE  /\ g.next[a] = IF EndOf(g, a) = e THEN NULL ELSE EndOf(g, a)
                      /\ g.next[a] # NULL => g.prev[g.next[a]] = a
                      /\ g.next[a] = NULL => g.tail = a
                      /\ a # HeapBase => g.prev[a] \in g.magic /\ EndOf(g, g.prev[a]) = a
                      /\ a = HeapBase => g.prev[a] = NULL
    BY DEF Linked
  <2>1. /\ a \in h.magic /\ a # t /\ a \notin zeroed /\ a \in HeapAddress
        /\ \A c \in g.magic : c \in h.magic /\ c # t /\ c \notin zeroed /\ c \in HeapAddress
        /\ HeapEnd \in Nat /\ HeapBase \in Nat /\ HeapBase > 0
    BY <1>1, <1>3, <1>6 DEF HeapEnd
  <2>2. h.next[t] = IF EndOf(h, t) = e THEN NULL ELSE EndOf(h, t)
    BY DEF WellFormed, Linked
  <2>3. g.next[a] = IF EndOf(g, a) = e THEN NULL ELSE EndOf(g, a)
    BY <1>1, <1>4, <1>6, <2>1, <2>2 DEF WellFormed, Linked
  <2>4. EndOf(g, a) = e \/ EndOf(g, a) \in g.magic
    BY <1>8 DEF Tiled
  <2>5. g.next[a] # NULL => g.prev[g.next[a]] = a
    <3> SUFFICES ASSUME g.next[a] # NULL PROVE g.prev[g.next[a]] = a
      OBVIOUS
    <3>1. g.next[a] = EndOf(g, a) /\ g.next[a] \in g.magic
      BY <2>3, <2>4
    <3>2. CASE a = b
      BY <1>4, <2>1, <3>1, <3>2
    <3>3. CASE a # b
      <4>1. g.next[a] = h.next[a] /\ h.prev[h.next[a]] = a
        BY <1>4, <2>1, <3>3 DEF WellFormed, Linked
      <4>2. g.next[a] # h.next[t]
        BY <4>1, <2>1, <2>2 DEF WellFormed, Linked
      <4>3. QED
        BY <1>4, <2>1, <3>1, <4>1, <4>2
    <3>4. QED
      BY <3>2, <3>3
  <2>6. g.next[a] = NULL => g.tail = a
    BY <1>1, <1>2, <1>4, <1>6, <2>1, <2>2, <2>3 DEF WellFormed, Linked, NULL, Tiled
  <2>7. a # HeapBase => g.prev[a] \in g.magic /\ EndOf(g, g.prev[a]) = a
    <3> SUFFICES ASSUME a # HeapBase PROVE g.prev[a] \in g.magic /\ EndOf(g, g.prev[a]) = a
      OBVIOUS
    <3>1. h.prev[a] \in h.magic /\ EndOf(h, h.prev[a]) = a
      BY <2>1 DEF WellFormed, Linked
    <3>2. CASE a = h.next[t]
      BY <1>1, <1>3, <1>4, <1>6, <2>1, <2>2, <3>2 DEF NULL
    <3>3. CASE a # h.next[t]
      <4>1. g.prev[a] = h.prev[a]
        BY <1>4, <2>1, <3>3
      <4>2. h.prev[a] # t /\ h.prev[a] # b
        BY <1>1, <2>1, <2>2, <3>1, <3>3, ListFacts
      <4>3. QED
        BY <1>6, <3>1, <4>1, <4>2
    <3>4. QED
      BY <3>2, <3>3
  <2>8. a = HeapBase => g.prev[a] = NULL
    BY <1>1, <1>3, <1>4, <2>1, <2>2 DEF WellFormed, Linked, NULL, Tiled
  <2>9. QED
    BY <2>3, <2>5, <2>6, <2>7, <2>8
<1>10. QED
  BY <1>5, <1>6, <1>8, <1>9 DEF WellFormed, AbsorbEffect, g

\* Setting free flags touches nothing else.
LEMMA MarkWellFormed ==
  ASSUME NEW e, NEW h, WellFormed(h, e), NEW g \in HeapType,
         g.magic = h.magic, g.size = h.size, g.prev = h.prev, g.next = h.next, g.tail = h.tail
  PROVE  WellFormed(g, e) /\ \A a \in h.magic : EndOf(g, a) = EndOf(h, a)
<1>1. \A a \in h.magic : EndOf(g, a) = EndOf(h, a)
  BY DEF EndOf
<1>2. Tiled(g, e)
  BY <1>1 DEF WellFormed, Tiled
<1>3. Linked(g, e)
  BY <1>1 DEF WellFormed, Linked
<1>4. QED
  BY <1>1, <1>2, <1>3 DEF WellFormed

\* Rounding up never goes down.
LEMMA AlignUpFacts ==
  ASSUME NEW a \in Nat
  PROVE  AlignUp(a) \in Nat /\ AlignUp(a) >= a
BY KernelHeapAssumption DEF AlignUp

\* The blocks in use.
Busy(h) == {b \in h.magic : ~h.free[b]}

\* Block b can be taken without leaving two free neighbours behind: every
\* free block but b and its predecessor has no free successor.
Takable(h, b, e) ==
  /\ EndOf(h, b) = e \/ ~h.free[EndOf(h, b)]
  /\ \A c \in h.magic : c # b /\ h.free[c] /\ EndOf(h, c) # b =>
        EndOf(h, c) = e \/ ~h.free[EndOf(h, c)]

\* Occupy takes exactly block b and cuts it to size.
LEMMA OccupyTakesBlock ==
  ASSUME NEW e, NEW h, WellFormed(h, e), NEW b \in h.magic, NEW size \in Nat,
         size > 0, size <= h.size[b], Takable(h, b, e)
  PROVE  LET g == Occupy(h, b, size)
         IN /\ WellFormed(g, e) /\ Coalesced(g, e)
            /\ h.magic \subseteq g.magic
            /\ Busy(g) = Busy(h) \cup {b}
            /\ g.size[b] \in Nat /\ g.size[b] >= size
            /\ \A c \in h.magic : c # b => g.size[c] = h.size[c]
<1> DEFINE taken == [h EXCEPT !.free[b] = FALSE]
           n == b + size + HeaderSize
           g == Split(taken, b, n)
<1> USE KernelHeapAssumption
<1>1. /\ h \in HeapType
      /\ h.magic \subseteq HeapAddress
      /\ \A a \in HeapAddress : a \in Nat /\ a > 0 /\ a < HeapEnd
      /\ \A a \in HeapAddress : h.size[a] \in Nat /\ EndOf(h, a) \in Nat
      /\ \A a \in HeapAddress : h.free[a] \in BOOLEAN
  BY HeapFacts DEF WellFormed
<1>2. /\ WellFormed(taken, e)
      /\ taken.magic = h.magic /\ taken.size = h.size
      /\ taken.free = [h.free EXCEPT ![b] = FALSE]
      /\ \A a \in h.magic : EndOf(taken, a) = EndOf(h, a)
  <2>1. /\ taken \in HeapType
        /\ taken.magic = h.magic /\ taken.size = h.size /\ taken.prev = h.prev
        /\ taken.next = h.next /\ taken.tail = h.tail
        /\ taken.free = [h.free EXCEPT ![b] = FALSE]
    BY <1>1 DEF HeapType
  <2> HIDE DEF taken
  <2>2. QED
    BY <2>1, MarkWellFormed
<1>3. /\ \A a \in HeapAddress : taken.free[a] = IF a = b THEN FALSE ELSE h.free[a]
      /\ b \in HeapAddress
  BY <1>1, <1>2 DEF HeapType
<1> HIDE DEF taken
<1>4. Coalesced(taken, e)
  <2> SUFFICES ASSUME NEW c \in taken.magic, taken.free[c]
               PROVE  EndOf(taken, c) = e \/ ~taken.free[EndOf(taken, c)]
    BY DEF Coalesced
  <2>1. c \in h.magic /\ c # b /\ h.free[c] /\ EndOf(taken, c) = EndOf(h, c)
    BY <1>1, <1>2, <1>3
  <2>2. EndOf(h, c) = e \/ EndOf(h, c) \in h.magic
    BY <2>1 DEF WellFormed, Tiled
  <2>3. QED
    BY <1>1, <1>3, <2>1, <2>2 DEF Takable
<1>5. Busy(taken) = Busy(h) \cup {b}
  BY <1>1, <1>2, <1>3 DEF Busy
<1>6. CASE ~(h.size[b] - size > HeaderSize)
  BY <1>1, <1>2, <1>3, <1>4, <1>5, <1>6 DEF Occupy, taken
<1>7. CASE h.size[b] - size > HeaderSize
  <2>1. /\ n \in Nat /\ n >= b + HeaderSize /\ n + HeaderSize <= EndOf(taken, b)
        /\ n # b /\ n = b + size + HeaderSize
        /\ b \in taken.magic
    BY <1>1, <1>2, <1>3, <1>7 DEF EndOf
  <2> HIDE DEF n
  <2>2. WellFormed(g, e) /\ SplitEffect(taken, b, n, g)
    BY <1>2, <2>1, SplitWellFormed
  <2> HIDE DEF g
  <2>3. n - b - HeaderSize = size /\ h.size[b] \in Nat
    BY <1>1, <1>3, <2>1
  <2>4. /\ n \in HeapAddress /\ n \notin h.magic
        /\ g.magic = h.magic \cup {n}
        /\ \A a \in HeapAddress : g.free[a] = IF a = n THEN TRUE ELSE taken.free[a]
        /\ g.size[b] = size
        /\ g.size[n] = h.size[b] - (n - b)
        /\ \A a \in HeapAddress : a # b /\ a # n => g.size[a] = h.size[a]
    BY <1>2, <2>2, <2>3 DEF SplitEffect
  <2>5. /\ \A c \in h.magic : c \in HeapAddress /\ c # n
        /\ \A c \in h.magic : c # b => g.size[c] = h.size[c]
        /\ EndOf(g, b) = n /\ EndOf(g, n) = EndOf(h, b)
        /\ \A c \in h.magic : c # b => EndOf(g, c) = EndOf(h, c)
    <3>1. \A c \in h.magic : c \in HeapAddress /\ c # n
      BY <1>1, <2>4
    <3>2. \A c \in h.magic : c # b => g.size[c] = h.size[c]
      BY <2>4, <3>1
    <3>3. EndOf(g, b) = n /\ EndOf(g, n) = EndOf(h, b)
      <4>1. b \in Nat /\ n \in Nat /\ h.size[b] \in Nat /\ n = b + size + HeaderSize
        BY <1>1, <1>3, <2>1
      <4>2. EndOf(g, b) = b + HeaderSize + size
        BY <2>4 DEF EndOf
      <4>3. EndOf(g, n) = n + HeaderSize + (h.size[b] - (n - b))
        BY <2>4 DEF EndOf
      <4>4. EndOf(h, b) = b + HeaderSize + h.size[b]
        BY DEF EndOf
      <4>5. QED
        BY <4>1, <4>2, <4>3, <4>4
    <3>4. QED
      BY <3>1, <3>2, <3>3 DEF EndOf
  <2>6. Busy(g) = Busy(h) \cup {b}
    <3>1. Busy(g) = Busy(taken)
      BY <1>2, <2>4, <2>5 DEF Busy
    <3>2. QED
      BY <1>5, <3>1
  <2>7. Coalesced(g, e)
    <3> SUFFICES ASSUME NEW c \in g.magic, g.free[c]
                 PROVE  EndOf(g, c) = e \/ ~g.free[EndOf(g, c)]
      BY DEF Coalesced
    <3>1. CASE c = n
      <4>1. EndOf(h, b) = e \/ (EndOf(h, b) \in h.magic /\ ~h.free[EndOf(h, b)])
        BY DEF WellFormed, Tiled, Takable
      <4>2. EndOf(h, b) \in h.magic => ~g.free[EndOf(h, b)] \/ h.free[EndOf(h, b)]
        BY <1>3, <2>4, <2>5
      <4>3. QED
        BY <2>5, <3>1, <4>1, <4>2
    <3>2. CASE c # n
      <4>1. c \in h.magic /\ c \in HeapAddress /\ c # b /\ taken.free[c]
        BY <1>3, <2>4, <2>5, <3>2
      <4>2. EndOf(h, c) = e \/ (EndOf(h, c) \in h.magic /\ ~taken.free[EndOf(h, c)])
        BY <1>2, <1>4, <4>1 DEF Coalesced, WellFormed, Tiled
      <4>3. QED
        BY <2>4, <2>5, <4>1, <4>2
    <3>3. QED
      BY <3>1, <3>2
  <2>8. Occupy(h, b, size) = g
    BY <1>7 DEF Occupy, taken, g, n
  <2>9. QED
    BY <1>2, <1>3, <2>2, <2>4, <2>5, <2>6, <2>7, <2>8
<1>8. QED
  BY <1>6, <1>7

-----------------------------------------------------------------------------
(* What kmalloc_heap and kfree do to the heap.                             *)

\* A buffer p of size bytes was taken from heap h, leaving heap g.
AllocEffect(h, p, size, g, e) ==
  /\ WellFormed(g, e) /\ Coalesced(g, e)
  /\ p \in Nat /\ p - HeaderSize \in g.magic
  /\ p - HeaderSize \notin Busy(h)
  /\ Busy(g) = Busy(h) \cup {p - HeaderSize}
  /\ size <= g.size[p - HeaderSize]
  /\ \A c \in Busy(h) : g.size[c] = h.size[c]

\* Taking a free block, cut to size.
LEMMA OccupyAllocates ==
  ASSUME NEW e, NEW h, WellFormed(h, e), NEW b \in h.magic, NEW size \in Nat,
         size > 0, size <= h.size[b], Takable(h, b, e), h.free[b]
  PROVE  AllocEffect(h, b + HeaderSize, size, Occupy(h, b, size), e)
<1> DEFINE g == Occupy(h, b, size)
<1>1. /\ WellFormed(g, e) /\ Coalesced(g, e)
      /\ h.magic \subseteq g.magic
      /\ Busy(g) = Busy(h) \cup {b}
      /\ g.size[b] \in Nat /\ g.size[b] >= size
      /\ \A c \in h.magic : c # b => g.size[c] = h.size[c]
  BY OccupyTakesBlock
<1> HIDE DEF g
<1>2. b \in Nat
  BY HeapFacts DEF WellFormed
<1> DEFINE p == b + HeaderSize
<1>3. p - HeaderSize = b /\ p \in Nat
  BY <1>2, KernelHeapAssumption
<1> HIDE DEF p
<1>4. b \notin Busy(h) /\ Busy(h) \subseteq h.magic /\ b \in g.magic
  BY <1>1 DEF Busy
<1>5. size <= g.size[b] /\ \A c \in Busy(h) : g.size[c] = h.size[c]
  BY <1>1, <1>4
<1>6. AllocEffect(h, p, size, g, e)
  BY <1>1, <1>3, <1>4, <1>5 DEF AllocEffect
<1>7. QED
  BY <1>6 DEF g, p

\* A block that is cut off at a page boundary can be taken: behind it lies
\* what lay behind the free block it came from.
LEMMA SplitTakable ==
  ASSUME NEW e, NEW h, WellFormed(h, e), Coalesced(h, e), NEW b \in h.magic, h.free[b],
         NEW n \in Nat, n >= b + HeaderSize, n + HeaderSize <= EndOf(h, b)
  PROVE  LET g == Split(h, b, n)
         IN /\ Takable(g, n, e) /\ g.free[n] /\ n \in g.magic
            /\ Busy(g) = Busy(h) /\ n \notin h.magic
            /\ g.size[n] = h.size[b] - (n - b)
            /\ \A c \in Busy(h) : g.size[c] = h.size[c]
<1> DEFINE g == Split(h, b, n)
<1>1. WellFormed(g, e) /\ SplitEffect(h, b, n, g)
  BY SplitWellFormed
<1> HIDE DEF g
<1>2. /\ h.magic \subseteq HeapAddress
      /\ \A a \in HeapAddress : a \in Nat /\ a > 0 /\ a < HeapEnd
      /\ \A a \in HeapAddress : h.size[a] \in Nat /\ EndOf(h, a) \in Nat
  BY HeapFacts DEF WellFormed
<1>3. /\ n \in HeapAddress /\ n \notin h.magic
      /\ g.magic = h.magic \cup {n}
      /\ \A a \in HeapAddress : g.free[a] = IF a = n THEN TRUE ELSE h.free[a]
      /\ g.size[b] = n - b - HeaderSize
      /\ g.size[n] = h.size[b] - (n - b)
      /\ \A a \in HeapAddress : a # b /\ a # n => g.size[a] = h.size[a]
  BY <1>1 DEF SplitEffect
<1>4. b \in HeapAddress /\ b \in Nat /\ h.size[b] \in Nat /\ n \in Nat /\ HeaderSize \in Nat /\ n # b
  BY <1>2, <1>3, KernelHeapAssumption
<1>5. EndOf(g, b) = n
  <2>1. EndOf(g, b) = b + HeaderSize + (n - b - HeaderSize)
    BY <1>3 DEF EndOf
  <2>2. QED
    BY <2>1, <1>4
<1>6. EndOf(g, n) = EndOf(h, b)
  <2>1. EndOf(g, n) = n + HeaderSize + (h.size[b] - (n - b))
    BY <1>3 DEF EndOf
  <2>2. EndOf(h, b) = b + HeaderSize + h.size[b]
    BY DEF EndOf
  <2>3. QED
    BY <2>1, <2>2, <1>4
<1>7. \A c \in h.magic : c # b => EndOf(g, c) = EndOf(h, c) /\ g.size[c] = h.size[c]
  BY <1>2, <1>3 DEF EndOf
<1>8. \A c \in h.magic : EndOf(h, c) = e \/ EndOf(h, c) \in h.magic
  BY DEF WellFormed, Tiled
<1>9. \A c \in h.magic : h.free[c] =>
        EndOf(h, c) = e \/ (EndOf(h, c) \in h.magic /\ ~g.free[EndOf(h, c)])
  BY <1>2, <1>3, <1>8 DEF Coalesced
<1>10. Takable(g, n, e)
  <2>1. EndOf(g, n) = e \/ ~g.free[EndOf(g, n)]
    BY <1>6, <1>9
  <2>2. \A c \in g.magic : c # n /\ g.free[c] /\ EndOf(g, c) # n =>
          EndOf(g, c) = e \/ ~g.free[EndOf(g, c)]
    BY <1>2, <1>3, <1>5, <1>7, <1>9
  <2>3. QED
    BY <2>1, <2>2 DEF Takable
<1>11. Busy(g) = Busy(h)
  BY <1>2, <1>3 DEF Busy
<1>12. \A c \in Busy(h) : g.size[c] = h.size[c]
  BY <1>7 DEF Busy
<1>13. QED
  BY <1>3, <1>10, <1>11, <1>12 DEF g

\* kmalloc_heap either changes nothing or takes one block that was not in
\* use, at least as large as the request, and leaves all others alone.
LEMMA KMallocAllocates ==
  ASSUME NEW e, NEW h, WellFormed(h, e), Coalesced(h, e), NEW size \in Nat,
         NEW align \in BOOLEAN, KMallocHeap(h, size, align).ptr # NULL
  PROVE  LET r == KMallocHeap(h, size, align)
         IN AllocEffect(h, r.ptr, size, r.heap, e)
<1> DEFINE best == FindBestFit(h, size, align)
           pad == AlignPadding(best)
           data == AlignUp(best + 2 * HeaderSize) - HeaderSize
           r == KMallocHeap(h, size, align)
<1> USE KernelHeapAssumption
<1>1. /\ size # 0 /\ best # NULL
      /\ \/ /\ ~NeedsPadding(best, align)
            /\ r = [heap |-> Occupy(h, best, size), ptr |-> best + HeaderSize]
         \/ /\ h.size[best] >= size + pad
            /\ r = [heap |-> Occupy(Split(h, best, data), data, size),
                    ptr  |-> data + HeaderSize]
  BY DEF KMallocHeap, NULL
<1>2. best \in h.magic /\ h.free[best] /\ h.size[best] >= size
  BY <1>1 DEF FindBestFit, BestFits, Fits
<1> HIDE DEF best, data, r, pad
<1>3. /\ h.magic \subseteq HeapAddress
      /\ \A a \in HeapAddress : a \in Nat /\ a > 0 /\ a < HeapEnd
      /\ \A a \in HeapAddress : h.size[a] \in Nat /\ EndOf(h, a) \in Nat
  BY HeapFacts DEF WellFormed
<1>4. best \in Nat /\ h.size[best] \in Nat
  BY <1>2, <1>3
<1>5. CASE r = [heap |-> Occupy(h, best, size), ptr |-> best + HeaderSize]
  <2>1. Takable(h, best, e)
    BY <1>2 DEF Takable, Coalesced
  <2>2. AllocEffect(h, best + HeaderSize, size, Occupy(h, best, size), e)
    BY <1>1, <1>2, <1>4, <2>1, OccupyAllocates
  <2>3. QED
    BY <1>5, <2>2 DEF r
<1>6. CASE /\ h.size[best] >= size + pad
           /\ r = [heap |-> Occupy(Split(h, best, data), data, size),
                   ptr  |-> data + HeaderSize]
  <2> DEFINE g == Split(h, best, data)
  <2>1. /\ data \in Nat /\ data >= best + HeaderSize
        /\ pad = data - best
    BY <1>4, AlignUpFacts DEF data, pad, AlignPadding
  <2>2. data + HeaderSize <= EndOf(h, best)
    BY <1>1, <1>4, <1>6, <2>1 DEF EndOf
  <2>3. WellFormed(g, e)
    BY <1>2, <2>1, <2>2, SplitWellFormed
  <2>4. /\ Takable(g, data, e) /\ g.free[data] /\ data \in g.magic
        /\ Busy(g) = Busy(h) /\ data \notin h.magic
        /\ g.size[data] = h.size[best] - (data - best)
        /\ \A c \in Busy(h) : g.size[c] = h.size[c]
    BY <1>2, <2>1, <2>2, SplitTakable
  <2> HIDE DEF g
  <2>5. size <= g.size[data]
    BY <1>4, <1>6, <2>1, <2>4
  <2>6. AllocEffect(g, data + HeaderSize, size, Occupy(g, data, size), e)
    BY <1>1, <2>3, <2>4, <2>5, OccupyAllocates
  <2>7. AllocEffect(h, data + HeaderSize, size, Occupy(g, data, size), e)
    BY <2>4, <2>6 DEF AllocEffect
  <2>8. QED
    BY <1>6, <2>7 DEF r, g
<1>7. QED
  BY <1>1, <1>5, <1>6

\* Block b was given back to heap h, leaving heap g.
FreeEffect(h, b, g, e) ==
  /\ WellFormed(g, e) /\ Coalesced(g, e)
  /\ Busy(g) = Busy(h) \ {b}
  /\ \A c \in Busy(g) : g.size[c] = h.size[c]

\* Only block b may have a free neighbour, and only behind it.
LooseAt(h, b, e) ==
  /\ h.free[b]
  /\ \A c \in h.magic : EndOf(h, c) = b => ~h.free[c]
  /\ \A c \in h.magic : c # b /\ h.free[c] =>
        EndOf(h, c) = e \/ ~h.free[EndOf(h, c)]

\* Merging with the next block then restores the coalesced heap.
LEMMA MergeNextCoalesces ==
  ASSUME NEW e, NEW h, WellFormed(h, e), NEW b \in h.magic, LooseAt(h, b, e)
  PROVE  LET g == MergeNext(h, b)
         IN /\ WellFormed(g, e) /\ Coalesced(g, e)
            /\ Busy(g) = Busy(h)
            /\ \A c \in Busy(g) : g.size[c] = h.size[c]
<1> DEFINE t == h.next[b]
           g == Absorb(h, b, t)
<1> USE KernelHeapAssumption
<1>1. /\ h.magic \subseteq HeapAddress
      /\ \A a \in HeapAddress : a \in Nat /\ a > 0 /\ a < HeapEnd
      /\ \A a \in HeapAddress : h.size[a] \in Nat /\ EndOf(h, a) \in Nat
      /\ \A a \in HeapAddress : h.free[a] \in BOOLEAN
  BY HeapFacts DEF WellFormed
<1>2. /\ t = IF EndOf(h, b) = e THEN NULL ELSE EndOf(h, b)
      /\ \A c \in h.magic : EndOf(h, c) = e \/ EndOf(h, c) \in h.magic
  BY DEF WellFormed, Linked, Tiled
<1>3. CASE ~IsFreeBlock(h, t)
  <2>1. EndOf(h, b) = e \/ ~h.free[EndOf(h, b)]
    BY <1>1, <1>2, <1>3 DEF IsFreeBlock, NULL
  <2>2. Coalesced(h, e)
    BY <2>1 DEF Coalesced, LooseAt
  <2>3. QED
    BY <1>3, <2>2 DEF MergeNext
<1>4. CASE IsFreeBlock(h, t)
  <2>1. t \in h.magic /\ h.free[t] /\ t = EndOf(h, b)
    BY <1>2, <1>4 DEF IsFreeBlock
  <2> HIDE DEF t
  <2>2. /\ WellFormed(g, e)
        /\ g.magic = h.magic \ {t}
        /\ EndOf(g, b) = EndOf(h, t)
        /\ \A a \in g.magic : a # b => EndOf(g, a) = EndOf(h, a)
        /\ \A a \in g.magic : g.free[a] = h.free[a]
    BY <2>1, AbsorbWellFormed DEF AbsorbEffect
  <2> HIDE DEF g
  <2>3. b # t /\ b \in g.magic
    BY <1>1, <2>1, <2>2 DEF EndOf
  <2>4. \A c \in g.magic : c \in h.magic /\ c \in HeapAddress /\ (EndOf(g, c) = e \/ EndOf(g, c) \in g.magic)
    BY <1>1, <2>2 DEF WellFormed, Tiled
  <2>5. Coalesced(g, e)
    <3> SUFFICES ASSUME NEW c \in g.magic, g.free[c], EndOf(g, c) # e
                 PROVE  ~g.free[EndOf(g, c)]
      BY DEF Coalesced
    <3>1. EndOf(g, c) \in g.magic /\ g.free[EndOf(g, c)] = h.free[EndOf(g, c)]
      BY <2>2, <2>4
    <3>2. CASE c = b
      BY <2>1, <2>2, <2>3, <3>1, <3>2 DEF LooseAt
    <3>3. CASE c # b
      BY <2>2, <2>4, <3>1, <3>3 DEF LooseAt
    <3>4. QED
      BY <3>2, <3>3
  <2>6. Busy(g) = Busy(h)
    BY <2>1, <2>2 DEF Busy
  <2>7. \A c \in Busy(g) : g.size[c] = h.size[c]
    <3> SUFFICES ASSUME NEW c \in Busy(g) PROVE g.size[c] = h.size[c]
      OBVIOUS
    <3>1. c \in g.magic /\ c # b /\ c \in HeapAddress
      BY <2>2, <2>4 DEF Busy, LooseAt
    <3>2. EndOf(g, c) = EndOf(h, c)
      BY <2>2, <3>1
    <3>3. c \in Nat /\ g.size[c] \in Nat /\ h.size[c] \in Nat
      BY <1>1, <2>2, <3>1, HeapFacts DEF WellFormed
    <3>4. QED
      BY <3>2, <3>3 DEF EndOf
  <2>8. MergeNext(h, b) = g
    BY <1>4 DEF MergeNext, g, t
  <2>9. QED
    BY <2>2, <2>5, <2>6, <2>7, <2>8
<1>5. QED
  BY <1>3, <1>4

\* kfree gives back the block it is called for and no other.
LEMMA ReleaseFrees ==
  ASSUME NEW e, NEW h, WellFormed(h, e), Coalesced(h, e), NEW b \in Busy(h)
  PROVE  FreeEffect(h, b, Release(h, b), e)
<1> DEFINE freed == [h EXCEPT !.free[b] = TRUE]
           before == h.prev[b]
           g == Absorb(freed, before, b)
<1> USE KernelHeapAssumption
<1>1. /\ h \in HeapType
      /\ h.magic \subseteq HeapAddress
      /\ \A a \in HeapAddress : a \in Nat /\ a > 0 /\ a < HeapEnd
      /\ \A a \in HeapAddress : h.size[a] \in Nat /\ EndOf(h, a) \in Nat
      /\ \A a \in HeapAddress : h.free[a] \in BOOLEAN
  BY HeapFacts DEF WellFormed
<1>2. b \in h.magic /\ ~h.free[b] /\ b \in HeapAddress
  BY <1>1 DEF Busy
<1>3. /\ WellFormed(freed, e)
      /\ freed.magic = h.magic /\ freed.size = h.size
      /\ freed.prev = h.prev
      /\ freed.free = [h.free EXCEPT ![b] = TRUE]
      /\ \A a \in h.magic : EndOf(freed, a) = EndOf(h, a)
  <2>1. /\ freed \in HeapType
        /\ freed.magic = h.magic /\ freed.size = h.size /\ freed.prev = h.prev
        /\ freed.next = h.next /\ freed.tail = h.tail
        /\ freed.free = [h.free EXCEPT ![b] = TRUE]
    BY <1>1 DEF HeapType
  <2> HIDE DEF freed
  <2>2. QED
    BY <2>1, MarkWellFormed
<1>4. \A a \in HeapAddress : freed.free[a] = IF a = b THEN TRUE ELSE h.free[a]
  BY <1>1, <1>2, <1>3 DEF HeapType
<1> HIDE DEF freed
<1>5. /\ \A c \in h.magic : EndOf(h, c) = e \/ EndOf(h, c) \in h.magic
      /\ \A c, d \in h.magic : c < d => EndOf(h, c) <= d
      /\ \A c \in h.magic : c # HeapBase => h.prev[c] \in h.magic /\ EndOf(h, h.prev[c]) = c
      /\ h.prev[HeapBase] = NULL
  BY DEF WellFormed, Linked, Tiled
<1>6. \A c, d \in h.magic : EndOf(h, c) = EndOf(h, d) => c = d
  <2> SUFFICES ASSUME NEW c \in h.magic, NEW d \in h.magic, EndOf(h, c) = EndOf(h, d)
               PROVE  c = d
    OBVIOUS
  <2>1. /\ c \in Nat /\ d \in Nat /\ h.size[c] \in Nat /\ h.size[d] \in Nat
        /\ EndOf(h, c) \in Nat /\ EndOf(h, d) \in Nat
    BY <1>1
  <2>2. EndOf(h, c) > c /\ EndOf(h, d) > d
    BY <2>1 DEF EndOf
  <2>3. QED
    BY <1>5, <2>1, <2>2
<1>7. Busy(freed) = Busy(h) \ {b}
  BY <1>1, <1>2, <1>3, <1>4 DEF Busy
<1>8. \A c \in h.magic : c # b /\ freed.free[c] /\ EndOf(h, c) # b =>
        EndOf(h, c) = e \/ ~freed.free[EndOf(h, c)]
  BY <1>1, <1>4, <1>5 DEF Coalesced
<1>9. CASE ~IsFreeBlock(freed, before)
  <2>1. LooseAt(freed, b, e)
    <3>1. \A c \in h.magic : EndOf(h, c) = b => ~freed.free[c]
      <4> SUFFICES ASSUME NEW c \in h.magic, EndOf(h, c) = b PROVE ~freed.free[c]
        OBVIOUS
      <4>1. c < b /\ b # HeapBase
        BY <1>1, <1>2 DEF EndOf, HeapAddress
      <4>2. c = before /\ before # NULL
        BY <1>1, <1>2, <1>5, <1>6, <4>1 DEF NULL
      <4>3. QED
        BY <1>3, <1>9, <4>2 DEF IsFreeBlock
    <3>2. QED
      BY <1>2, <1>3, <1>4, <1>8, <3>1 DEF LooseAt
  <2>2. LET m == MergeNext(freed, b)
        IN /\ WellFormed(m, e) /\ Coalesced(m, e)
           /\ Busy(m) = Busy(freed)
           /\ \A c \in Busy(m) : m.size[c] = freed.size[c]
    BY <1>2, <1>3, <2>1, MergeNextCoalesces
  <2>3. Release(h, b) = MergeNext(freed, b)
    BY <1>9 DEF Release, freed
  <2>4. QED
    BY <1>3, <1>7, <2>2, <2>3 DEF FreeEffect
<1>10. CASE IsFreeBlock(freed, before)
  <2>1. /\ before \in h.magic /\ before \in HeapAddress /\ freed.free[before]
        /\ EndOf(h, before) = b
    BY <1>1, <1>2, <1>3, <1>5, <1>10 DEF IsFreeBlock
  <2>2. before # b /\ h.free[before]
    <3>1. before \in Nat /\ h.size[before] \in Nat
      BY <1>1, <2>1
    <3>2. before # b
      BY <2>1, <3>1 DEF EndOf
    <3>3. QED
      BY <1>4, <2>1, <3>2
  <2> HIDE DEF before
  <2>3. /\ WellFormed(g, e)
        /\ g.magic = freed.magic \ {b}
        /\ EndOf(g, before) = EndOf(freed, b)
        /\ \A a \in g.magic : a # before => EndOf(g, a) = EndOf(freed, a)
        /\ \A a \in g.magic : g.free[a] = freed.free[a]
    <3>1. before \in freed.magic /\ b \in freed.magic /\ b = EndOf(freed, before)
      BY <1>2, <1>3, <2>1
    <3>2. WellFormed(g, e) /\ AbsorbEffect(freed, before, b, g)
      BY <1>3, <3>1, AbsorbWellFormed
    <3>3. QED
      BY <3>2 DEF AbsorbEffect
  <2> HIDE DEF g
  <2>4. before \in g.magic /\ g.free[before]
    BY <1>3, <2>1, <2>2, <2>3
  <2>5. \A c \in g.magic :
          /\ c \in h.magic /\ c # b /\ c \in HeapAddress
          /\ g.free[c] = h.free[c]
          /\ c # before => EndOf(g, c) = EndOf(h, c)
    BY <1>1, <1>3, <1>4, <2>3
  <2>6. LooseAt(g, before, e)
    <3>1. \A c \in g.magic : EndOf(g, c) = before => ~g.free[c]
      <4> SUFFICES ASSUME NEW c \in g.magic, EndOf(g, c) = before PROVE ~g.free[c]
        OBVIOUS
      <4>1. c # before
        <5>1. EndOf(g, before) = EndOf(h, b) /\ EndOf(h, b) > b /\ b > before
          BY <1>1, <1>2, <1>3, <2>1, <2>3 DEF EndOf
        <5>2. QED
          BY <1>1, <2>1, <5>1
      <4>2. EndOf(h, c) = before
        BY <2>5, <4>1
      <4>3. before # e
        BY <2>1, ListFacts
      <4>4. QED
        BY <2>2, <2>5, <4>2, <4>3 DEF Coalesced
    <3>2. ASSUME NEW c \in g.magic, c # before, g.free[c]
          PROVE  EndOf(g, c) = e \/ ~g.free[EndOf(g, c)]
      <4>1. EndOf(g, c) = EndOf(h, c) /\ h.free[c] /\ c \in h.magic
        BY <2>5, <3>2
      <4>2. EndOf(h, c) # b
        BY <1>6, <2>1, <3>2, <4>1
      <4>3. EndOf(h, c) = e \/ (EndOf(h, c) \in g.magic /\ ~h.free[EndOf(h, c)])
        BY <1>3, <1>5, <2>3, <4>1, <4>2 DEF Coalesced
      <4>4. QED
        BY <2>5, <4>1, <4>3
    <3>3. QED
      BY <2>4, <3>1, <3>2 DEF LooseAt
  <2>7. LET m == MergeNext(g, before)
        IN /\ WellFormed(m, e) /\ Coalesced(m, e)
           /\ Busy(m) = Busy(g)
           /\ \A c \in Busy(m) : m.size[c] = g.size[c]
    BY <2>3, <2>4, <2>6, MergeNextCoalesces
  <2>8. Busy(g) = Busy(freed)
    BY <1>3, <1>4, <1>2, <2>3, <2>5 DEF Busy
  <2>9. \A c \in Busy(g) : g.size[c] = h.size[c]
    <3> SUFFICES ASSUME NEW c \in Busy(g) PROVE g.size[c] = h.size[c]
      OBVIOUS
    <3>1. c \in g.magic /\ c # before /\ c \in HeapAddress
      BY <2>4, <2>5 DEF Busy
    <3>2. EndOf(g, c) = EndOf(h, c)
      BY <2>5, <3>1
    <3>3. c \in Nat /\ g.size[c] \in Nat /\ h.size[c] \in Nat
      BY <1>1, <2>3, <3>1, HeapFacts DEF WellFormed
    <3>4. QED
      BY <3>2, <3>3 DEF EndOf
  <2>10. Release(h, b) = MergeNext(g, before)
    BY <1>10 DEF Release, freed, g, before
  <2>11. QED
    BY <1>7, <2>7, <2>8, <2>9, <2>10 DEF FreeEffect
<1>11. QED
  BY <1>9, <1>10

-----------------------------------------------------------------------------
(* The callers' view.                                                      *)

\* Handing out a fresh block keeps blocks and owners in step.
LEMMA AllocOwned ==
  ASSUME NEW e, NEW h, NEW owned \in [Address -> Nat], WellFormed(h, e), OwnedBy(h, owned),
         NEW p, NEW size \in Nat, size > 0, NEW g, AllocEffect(h, p, size, g, e)
  PROVE  /\ p \in Address /\ p >= HeapBase /\ owned[p] = 0
         /\ Granted(owned, p, size) \in [Address -> Nat]
         /\ OwnedBy(g, Granted(owned, p, size))
<1> DEFINE b == p - HeaderSize
           new == Granted(owned, p, size)
<1> USE KernelHeapAssumption
<1>1. /\ WellFormed(g, e) /\ p \in Nat /\ b \in g.magic
      /\ b \notin Busy(h) /\ Busy(g) = Busy(h) \cup {b} /\ size <= g.size[b]
      /\ \A c \in Busy(h) : g.size[c] = h.size[c]
  BY DEF AllocEffect
<1>2. /\ g.magic \subseteq HeapAddress
      /\ \A a \in HeapAddress : a \in Nat /\ a > 0 /\ a < HeapEnd /\ a >= HeapBase
      /\ \A a \in HeapAddress : g.size[a] \in Nat /\ EndOf(g, a) \in Nat
      /\ \A c \in g.magic : EndOf(g, c) <= e
  BY <1>1, HeapFacts DEF WellFormed, Tiled, HeapAddress, HeapEnd
<1>3. h.magic \subseteq HeapAddress
  BY HeapFacts DEF WellFormed
<1>4. b \in Nat /\ b >= HeapBase /\ p = b + HeaderSize
  BY <1>1, <1>2
<1>5. p \in Address /\ p >= HeapBase
  BY <1>1, <1>2, <1>4, ListFacts, SMTT(30) DEF Address, EndOf
<1>6. owned[p] = 0
  BY <1>1, <1>5 DEF OwnedBy, Busy
<1>7. /\ new \in [Address -> Nat] /\ new[p] = size
      /\ \A q \in Address : q # p => new[q] = owned[q]
  BY <1>5 DEF Granted
<1> HIDE DEF new
<1>8. ASSUME NEW q \in Address, new[q] > 0, q >= HeapBase
      PROVE  /\ q - HeaderSize \in g.magic
             /\ ~g.free[q - HeaderSize]
             /\ new[q] <= g.size[q - HeaderSize]
  <2>1. CASE q = p
    BY <1>1, <1>7, <2>1 DEF Busy
  <2>2. CASE q # p
    <3>1. q - HeaderSize \in Busy(h) /\ owned[q] <= h.size[q - HeaderSize]
      BY <1>7, <1>8, <2>2 DEF OwnedBy, Busy
    <3>2. q - HeaderSize \in Busy(g) /\ g.size[q - HeaderSize] = h.size[q - HeaderSize]
      BY <1>1, <3>1
    <3>3. QED
      BY <1>7, <2>2, <3>1, <3>2 DEF Busy
  <2>3. QED
    BY <2>1, <2>2
<1>9. ASSUME NEW c \in g.magic, ~g.free[c]
      PROVE  c + HeaderSize < HeapEnd /\ new[c + HeaderSize] > 0
  <2>1. CASE c = b
    BY <1>4, <1>5, <1>7, <2>1 DEF Address, HeapEnd
  <2>2. CASE c # b
    <3>1. c \in h.magic /\ ~h.free[c]
      BY <1>1, <1>9, <2>2 DEF Busy
    <3>2. c + HeaderSize < HeapEnd /\ owned[c + HeaderSize] > 0
      BY <3>1 DEF OwnedBy
    <3>3. c \in Nat /\ c >= HeapBase
      BY <1>2
    <3>4. c + HeaderSize \in Address /\ c + HeaderSize # p
      BY <1>4, <2>2, <3>2, <3>3 DEF Address, HeapEnd
    <3>5. QED
      BY <1>7, <3>2, <3>4
  <2>3. QED
    BY <2>1, <2>2
<1>10. OwnedBy(g, new)
  BY <1>8, <1>9 DEF OwnedBy
<1>11. QED
  BY <1>5, <1>6, <1>7, <1>10 DEF new

\* Giving a block back keeps blocks and owners in step.
LEMMA FreeOwned ==
  ASSUME NEW e, NEW h, NEW owned \in [Address -> Nat], WellFormed(h, e), OwnedBy(h, owned),
         NEW p \in Address, p >= HeapBase, owned[p] > 0,
         NEW g, FreeEffect(h, p - HeaderSize, g, e)
  PROVE  /\ Dropped(owned, p) \in [Address -> Nat]
         /\ OwnedBy(g, Dropped(owned, p))
<1> DEFINE b == p - HeaderSize
           new == Dropped(owned, p)
<1> USE KernelHeapAssumption
<1>1. /\ WellFormed(g, e) /\ Busy(g) = Busy(h) \ {b}
      /\ \A c \in Busy(g) : g.size[c] = h.size[c]
  BY DEF FreeEffect
<1>2. /\ g.magic \subseteq HeapAddress
      /\ \A a \in HeapAddress : a \in Nat /\ a > 0 /\ a < HeapEnd /\ a >= HeapBase
  BY <1>1, HeapFacts DEF WellFormed, HeapAddress
<1>3. p \in Nat /\ b \in Int /\ p = b + HeaderSize
  BY DEF Address
<1>4. /\ new \in [Address -> Nat] /\ new[p] = 0
      /\ \A q \in Address : q # p => new[q] = owned[q]
  BY DEF Dropped
<1> HIDE DEF new
<1>5. ASSUME NEW q \in Address, new[q] > 0, q >= HeapBase
      PROVE  /\ q - HeaderSize \in g.magic
             /\ ~g.free[q - HeaderSize]
             /\ new[q] <= g.size[q - HeaderSize]
  <2>1. q # p /\ new[q] = owned[q]
    BY <1>4, <1>5
  <2>2. q - HeaderSize \in Busy(h) /\ owned[q] <= h.size[q - HeaderSize]
    BY <1>5, <2>1 DEF OwnedBy, Busy
  <2>3. q - HeaderSize # b
    BY <1>3, <2>1 DEF Address
  <2>4. q - HeaderSize \in Busy(g) /\ g.size[q - HeaderSize] = h.size[q - HeaderSize]
    BY <1>1, <2>2, <2>3
  <2>5. QED
    BY <2>1, <2>2, <2>4 DEF Busy
<1>6. ASSUME NEW c \in g.magic, ~g.free[c]
      PROVE  c + HeaderSize < HeapEnd /\ new[c + HeaderSize] > 0
  <2>1. c \in h.magic /\ ~h.free[c] /\ c # b
    BY <1>1, <1>6 DEF Busy
  <2>2. c + HeaderSize < HeapEnd /\ owned[c + HeaderSize] > 0
    BY <2>1 DEF OwnedBy
  <2>3. c \in Nat /\ c >= HeapBase
    BY <1>2
  <2>4. c + HeaderSize \in Address /\ c + HeaderSize # p
    BY <1>3, <2>1, <2>2, <2>3, SMTT(30) DEF Address, HeapEnd
  <2>5. QED
    BY <1>4, <2>2, <2>4
<1>7. OwnedBy(g, new)
  BY <1>5, <1>6 DEF OwnedBy
<1>8. QED
  BY <1>4, <1>7 DEF new

\* Freeing a block that is free already changes nothing.
LEMMA ReleaseIdle ==
  ASSUME NEW e, NEW h, WellFormed(h, e), Coalesced(h, e), NEW b \in h.magic, h.free[b]
  PROVE  Release(h, b) = h
<1> USE KernelHeapAssumption
<1>1. /\ h \in HeapType
      /\ h.magic \subseteq HeapAddress
      /\ \A a \in HeapAddress : a \in Nat /\ a > 0 /\ a < HeapEnd
      /\ \A a \in HeapAddress : h.size[a] \in Nat /\ EndOf(h, a) \in Nat
      /\ \A a \in HeapAddress : h.free[a] \in BOOLEAN
  BY HeapFacts DEF WellFormed
<1>2. [h EXCEPT !.free[b] = TRUE] = h
  <2>1. b \in HeapAddress /\ h.free[b] = TRUE
    BY <1>1
  <2>2. [h.free EXCEPT ![b] = TRUE] = h.free
    BY <1>1, <2>1 DEF HeapType
  <2>3. QED
    BY <1>1, <2>2 DEF HeapType
<1>3. ~IsFreeBlock(h, h.prev[b])
  BY <1>1, ListFacts DEF IsFreeBlock, WellFormed, Linked, Coalesced, NULL
<1>4. ~IsFreeBlock(h, h.next[b])
  BY <1>1 DEF IsFreeBlock, WellFormed, Linked, Coalesced, NULL
<1>5. QED
  BY <1>2, <1>3, <1>4 DEF Release, MergeNext

-----------------------------------------------------------------------------
(* The inductive invariant.                                                *)

\* The buffers that came from the placement memory lie below its head, in
\* the order they were handed out.  Before kheap_init all buffers do.
PlacementInv ==
  \A p \in Address : live[p] > 0 /\ (kheap_enabled => p < HeapBase) =>
    /\ p + live[p] <= PlacementHead
    /\ \A q \in Address : live[q] > 0 /\ p < q /\ q < HeapBase => p + live[p] <= q

IInv ==
  /\ TypeOK
  /\ kheap_enabled => WellFormed(heap, HeapEnd) /\ Coalesced(heap, HeapEnd) /\ OwnedBy(heap, live)
  /\ PlacementInv

\* kfree of a live pointer: a placement pointer is ignored, a heap pointer
\* gives its block back.
LEMMA KFreeHeapFrees ==
  ASSUME NEW h, NEW owned \in [Address -> Nat], WellFormed(h, HeapEnd), Coalesced(h, HeapEnd),
         OwnedBy(h, owned), NEW p \in Address, owned[p] > 0
  PROVE  /\ p >= HeapBase => /\ p - HeaderSize \in Busy(h)
                             /\ KFreeHeap(h, p) = Release(h, p - HeaderSize)
                             /\ FreeEffect(h, p - HeaderSize, KFreeHeap(h, p), HeapEnd)
         /\ p < HeapBase => KFreeHeap(h, p) = h
         /\ WellFormed(KFreeHeap(h, p), HeapEnd) /\ Coalesced(KFreeHeap(h, p), HeapEnd)
         /\ OwnedBy(KFreeHeap(h, p), Dropped(owned, p))
         /\ KFreeHeap(KFreeHeap(h, p), p) = KFreeHeap(h, p)
<1> USE KernelHeapAssumption
<1>1. p \in Nat /\ p < HeapEnd /\ HeapBase \in Nat
  BY DEF Address, HeapEnd
<1>2. CASE p < HeapBase
  <2>1. \A g : KFreeHeap(g, p) = g
    BY <1>1, <1>2 DEF KFreeHeap, IsValidHeapAddress
  <2>2. /\ Dropped(owned, p)[p] = 0
        /\ \A q \in Address : q # p => Dropped(owned, p)[q] = owned[q]
    BY DEF Dropped
  <2>3. \A c \in h.magic : c \in Nat /\ c >= HeapBase
    BY HeapFacts DEF WellFormed, HeapAddress
  <2>4. OwnedBy(h, Dropped(owned, p))
    <3> DEFINE new == Dropped(owned, p)
    <3> HIDE DEF new
    <3>1. \A q \in Address : q >= HeapBase => new[q] = owned[q]
      BY <1>1, <1>2, <2>2 DEF Address, new
    <3>2. ASSUME NEW c \in h.magic, ~h.free[c]
          PROVE  c + HeaderSize < HeapEnd /\ new[c + HeaderSize] > 0
      <4>1. c + HeaderSize < HeapEnd /\ owned[c + HeaderSize] > 0
        BY <3>2 DEF OwnedBy
      <4>2. c + HeaderSize \in Address /\ c + HeaderSize >= HeapBase
        BY <2>3, <4>1 DEF Address, HeapEnd
      <4>3. QED
        BY <3>1, <4>1, <4>2
    <3>3. OwnedBy(h, new)
      BY <3>1, <3>2 DEF OwnedBy
    <3>4. QED
      BY <3>3 DEF new
  <2>5. QED
    BY <1>1, <1>2, <2>1, <2>4
<1>3. CASE p >= HeapBase
  <2> DEFINE b == p - HeaderSize
             g == KFreeHeap(h, p)
  <2>1. b \in Busy(h) /\ b \in h.magic /\ b >= HeapBase /\ p >= HeapBase + HeaderSize
    BY <1>1, <1>3, HeapFacts DEF OwnedBy, Busy, WellFormed, HeapAddress
  <2>2. g = Release(h, b)
    BY <1>1, <2>1 DEF KFreeHeap, IsValidHeapAddress, NULL
  <2>3. FreeEffect(h, b, g, HeapEnd)
    BY <2>1, <2>2, ReleaseFrees
  <2>4. WellFormed(g, HeapEnd) /\ Coalesced(g, HeapEnd) /\ b \notin Busy(g)
    BY <2>3 DEF FreeEffect
  <2>5. OwnedBy(g, Dropped(owned, p))
    BY <1>3, <2>3, FreeOwned
  <2> HIDE DEF g
  <2>6. KFreeHeap(g, p) = g
    <3>1. CASE b \notin g.magic
      BY <3>1 DEF KFreeHeap, IsValidHeapAddress
    <3>2. CASE b \in g.magic
      <4>1. Release(g, b) = g
        BY <2>4, <3>2, ReleaseIdle DEF Busy
      <4>2. QED
        BY <4>1 DEF KFreeHeap
    <3>3. QED
      BY <3>1, <3>2
  <2>7. QED
    BY <1>1, <1>3, <2>1, <2>2, <2>3, <2>4, <2>5, <2>6 DEF g
<1>4. QED
  BY <1>1, <1>2, <1>3

\* kheap_init makes a well-formed heap in which nobody owns anything.
LEMMA FreshHeapWellFormed ==
  /\ WellFormed(FreshHeap, HeapEnd) /\ Coalesced(FreshHeap, HeapEnd)
  /\ FreshHeap.magic = {HeapBase} /\ FreshHeap.free[HeapBase]
<1> USE KernelHeapAssumption
<1>1. HeapBase \in HeapAddress /\ HeapBase \in Nat /\ HeapBase > 0 /\ HeapEnd \in Nat
  BY DEF HeapAddress, HeapEnd
<1>2. /\ FreshHeap.magic = {HeapBase}
      /\ FreshHeap.size = [ZeroHeap.size EXCEPT ![HeapBase] = HeapSize - HeaderSize]
      /\ FreshHeap.free = [ZeroHeap.free EXCEPT ![HeapBase] = TRUE]
      /\ FreshHeap.prev = ZeroHeap.prev
      /\ FreshHeap.next = ZeroHeap.next
      /\ FreshHeap.tail = HeapBase
  BY DEF FreshHeap
<1>3. FreshHeap \in HeapType
  <2>1. /\ ZeroHeap.size \in [HeapAddress -> Nat]
        /\ ZeroHeap.free \in [HeapAddress -> BOOLEAN]
        /\ ZeroHeap.prev \in [HeapAddress -> Nat]
        /\ ZeroHeap.next \in [HeapAddress -> Nat]
    BY DEF ZeroHeap, NULL
  <2>2. HeapSize - HeaderSize \in Nat
    OBVIOUS
  <2>3. /\ FreshHeap.magic \in SUBSET HeapAddress
        /\ FreshHeap.size \in [HeapAddress -> Nat]
        /\ FreshHeap.free \in [HeapAddress -> BOOLEAN]
        /\ FreshHeap.prev \in [HeapAddress -> Nat]
        /\ FreshHeap.next \in [HeapAddress -> Nat]
        /\ FreshHeap.tail \in Nat
    BY <1>1, <1>2, <2>1, <2>2
  <2>4. QED
    BY <2>3 DEF FreshHeap, HeapType
<1>4. /\ FreshHeap.size[HeapBase] = HeapSize - HeaderSize
      /\ FreshHeap.free[HeapBase] = TRUE
      /\ FreshHeap.prev[HeapBase] = NULL /\ FreshHeap.next[HeapBase] = NULL
  BY <1>1, <1>2 DEF ZeroHeap
<1>5. EndOf(FreshHeap, HeapBase) = HeapEnd
  BY <1>1, <1>4 DEF EndOf, HeapEnd
<1>6. Tiled(FreshHeap, HeapEnd)
  BY <1>1, <1>2, <1>5 DEF Tiled, HeapEnd
<1>7. Linked(FreshHeap, HeapEnd)
  BY <1>1, <1>2, <1>4, <1>5 DEF Linked, NULL
<1>8. Coalesced(FreshHeap, HeapEnd)
  BY <1>2, <1>5 DEF Coalesced
<1>9. QED
  BY <1>1, <1>2, <1>3, <1>4, <1>6, <1>7, <1>8 DEF WellFormed

\* The invariant holds at boot.
LEMMA InitIInv == Init => IInv
<1> USE KernelHeapAssumption
<1> SUFFICES ASSUME Init PROVE IInv
  OBVIOUS
<1>1. ZeroHeap \in HeapType
  BY DEF ZeroHeap, HeapType, NULL
<1>2. TypeOK
  <2>1. live \in [Address -> Nat]
    BY DEF Init
  <2>2. PlacementSize \in 0 .. PlacementSize
    OBVIOUS
  <2>3. QED
    BY <1>1, <2>1, <2>2 DEF Init, TypeOK
<1>3. PlacementInv
  BY DEF Init, PlacementInv
<1>4. QED
  BY <1>2, <1>3 DEF IInv, Init

\* Dropping a buffer keeps the order of the placement buffers.
LEMMA DropKeepsPlacement ==
  ASSUME TypeOK, PlacementInv, NEW p \in Address,
         live' = Dropped(live, p), UNCHANGED <<kheap_enabled, placement_free>>
  PROVE  PlacementInv' /\ live' \in [Address -> Nat]
<1>1. /\ live' \in [Address -> Nat] /\ live'[p] = 0
      /\ \A q \in Address : q # p => live'[q] = live[q]
  BY DEF Dropped, TypeOK
<1>2. PlacementHead' = PlacementHead
  BY DEF PlacementHead
<1>3. QED
  BY <1>1, <1>2 DEF PlacementInv

\* Handing out a buffer in the arena does too.
LEMMA GrantKeepsPlacement ==
  ASSUME TypeOK, PlacementInv, kheap_enabled, NEW p \in Address, p >= HeapBase,
         NEW size \in Nat, live' = Granted(live, p, size),
         UNCHANGED <<kheap_enabled, placement_free>>
  PROVE  PlacementInv' /\ live' \in [Address -> Nat]
<1>1. /\ live' \in [Address -> Nat]
      /\ \A q \in Address : q # p => live'[q] = live[q]
  BY DEF Granted, TypeOK
<1>2. PlacementHead' = PlacementHead
  BY DEF PlacementHead
<1>3. p \in Nat /\ HeapBase \in Nat
  BY KernelHeapAssumption DEF Address
<1>4. \A q \in Address : q < HeapBase => live'[q] = live[q]
  BY <1>1, <1>3
<1>5. QED
  BY <1>1, <1>2, <1>4 DEF PlacementInv

\* Every operation of the heap preserves the invariant.
LEMMA NextIInv == IInv /\ [Next]_vars => IInv'
<1> USE KernelHeapAssumption
<1> SUFFICES ASSUME IInv, [Next]_vars PROVE IInv'
  OBVIOUS
<1>1. /\ TypeOK /\ PlacementInv
      /\ live \in [Address -> Nat] /\ placement_free \in Nat
      /\ placement_free <= PlacementSize /\ heap \in HeapType
      /\ kheap_enabled \in BOOLEAN
      /\ PlacementHead \in Nat /\ PlacementHead <= HeapBase
      /\ PlacementBase <= PlacementHead
  BY DEF IInv, TypeOK, PlacementHead
<1>2. kheap_enabled => WellFormed(heap, HeapEnd) /\ Coalesced(heap, HeapEnd) /\ OwnedBy(heap, live)
  BY DEF IInv
<1>3. CASE KHeapInit
  <2>1. WellFormed(FreshHeap, HeapEnd) /\ Coalesced(FreshHeap, HeapEnd) /\ FreshHeap \in HeapType
        /\ FreshHeap.magic = {HeapBase} /\ FreshHeap.free[HeapBase]
    BY FreshHeapWellFormed DEF WellFormed
  <2>2. /\ ~kheap_enabled /\ kheap_enabled' = TRUE /\ heap' = FreshHeap
        /\ live' = live /\ placement_free' = placement_free /\ PlacementHead' = PlacementHead
    BY <1>3 DEF KHeapInit, PlacementHead
  <2>3. \A p \in Address : live[p] > 0 => p < HeapBase
    BY <1>1, <2>2 DEF PlacementInv, Address
  <2>4. OwnedBy(FreshHeap, live)
    BY <1>1, <2>1, <2>3 DEF OwnedBy, Address
  <2>5. PlacementInv'
    BY <1>1, <2>2, <2>3 DEF PlacementInv
  <2>6. TypeOK'
    BY <1>1, <2>1, <2>2 DEF TypeOK
  <2>7. QED
    BY <2>1, <2>2, <2>4, <2>5, <2>6 DEF IInv
<1>4. ASSUME NEW size \in Sizes, NEW align \in BOOLEAN, KMallocPlacement(size, align)
      PROVE  IInv'
  <2> DEFINE addr == IF align THEN AlignUp(PlacementHead) ELSE PlacementHead
             total == size + (addr - PlacementHead)
  <2>1. size \in Nat /\ addr \in Nat /\ addr >= PlacementHead /\ total \in Nat
        /\ addr - PlacementHead \in Nat
    BY <1>1, AlignUpFacts
  <2>2. /\ ~kheap_enabled /\ total <= placement_free
        /\ placement_free' = placement_free - total
        /\ live' = IF size = 0 THEN live ELSE Granted(live, addr, size)
        /\ kheap_enabled' = kheap_enabled /\ heap' = heap
    BY <1>4 DEF KMallocPlacement
  <2> HIDE DEF addr
  <2>3. /\ placement_free' \in 0 .. PlacementSize
        /\ PlacementHead' = addr + size /\ addr + size <= PlacementBase + PlacementSize
    BY <1>1, <2>1, <2>2 DEF PlacementHead
  <2>4. size > 0 => addr \in Address
    BY <1>1, <2>1, <2>3 DEF Address, HeapEnd
  <2>5. live' \in [Address -> Nat]
    BY <1>1, <2>1, <2>2, <2>4 DEF Granted
  <2>6. \A p \in Address : live'[p] = IF p = addr /\ size > 0 THEN size ELSE live[p]
    BY <1>1, <2>1, <2>2, <2>4 DEF Granted
  <2>7. \A p \in Address : p \in Nat /\ live[p] \in Nat
                           /\ (live[p] > 0 => p + live[p] <= PlacementHead)
    BY <1>1, <2>2 DEF PlacementInv, Address
  <2>8. PlacementInv'
    <3> SUFFICES ASSUME NEW p \in Address, live'[p] > 0
                 PROVE  /\ p + live'[p] <= PlacementHead'
                        /\ \A q \in Address : live'[q] > 0 /\ p < q /\ q < HeapBase
                             => p + live'[p] <= q
      BY DEF PlacementInv
    <3>1. CASE p = addr /\ size > 0
      BY <1>1, <2>1, <2>3, <2>6, <2>7, <3>1
    <3>2. CASE ~(p = addr /\ size > 0)
      <4>1. live'[p] = live[p] /\ live[p] > 0
        BY <2>6, <3>2
      <4>2. p + live[p] <= PlacementHead
        BY <2>7, <4>1
      <4>3. \A q \in Address : live[q] > 0 /\ p < q /\ q < HeapBase => p + live[p] <= q
        BY <1>1, <2>2, <4>1 DEF PlacementInv
      <4>4. QED
        BY <1>1, <2>1, <2>3, <2>6, <2>7, <4>1, <4>2, <4>3
    <3>3. QED
      BY <3>1, <3>2
  <2>9. TypeOK'
    BY <1>1, <2>2, <2>3, <2>5 DEF TypeOK
  <2>10. QED
    BY <2>2, <2>8, <2>9 DEF IInv
<1>5. ASSUME NEW size \in Sizes, NEW align \in BOOLEAN, KMalloc(size, align)
      PROVE  IInv'
  <2> DEFINE r == KMallocHeap(heap, size, align)
  <2>1. /\ kheap_enabled /\ r.ptr # NULL /\ heap' = r.heap
        /\ live' = Granted(live, r.ptr, size)
        /\ UNCHANGED <<kheap_enabled, placement_free>>
    BY <1>5 DEF KMalloc
  <2>2. size \in Nat /\ size > 0
    BY <2>1 DEF KMallocHeap
  <2>3. AllocEffect(heap, r.ptr, size, r.heap, HeapEnd)
    BY <1>2, <2>1, <2>2, KMallocAllocates
  <2> HIDE DEF r
  <2>4. /\ r.ptr \in Address /\ r.ptr >= HeapBase
        /\ OwnedBy(r.heap, Granted(live, r.ptr, size))
    BY <1>1, <1>2, <2>1, <2>2, <2>3, AllocOwned
  <2>5. PlacementInv' /\ live' \in [Address -> Nat]
    BY <1>1, <2>1, <2>2, <2>4, GrantKeepsPlacement
  <2>6. WellFormed(r.heap, HeapEnd) /\ Coalesced(r.heap, HeapEnd) /\ r.heap \in HeapType
    BY <2>3 DEF AllocEffect, WellFormed
  <2>7. TypeOK'
    BY <1>1, <2>1, <2>5, <2>6 DEF TypeOK
  <2>8. QED
    BY <2>1, <2>4, <2>5, <2>6, <2>7 DEF IInv
<1>6. ASSUME NEW p \in Address, KFree(p) \/ KFreeNode(p)
      PROVE  IInv'
  <2>1. /\ live[p] > 0 /\ live' = Dropped(live, p)
        /\ UNCHANGED <<kheap_enabled, placement_free>>
    BY <1>6 DEF KFree, KFreeNode
  <2>2. PlacementInv' /\ live' \in [Address -> Nat]
    BY <1>1, <2>1, DropKeepsPlacement
  <2>3. CASE ~kheap_enabled
    BY <1>1, <1>6, <2>1, <2>2, <2>3 DEF KFree, KFreeNode, TypeOK, IInv
  <2>4. CASE kheap_enabled
    <3>1. LET g == KFreeHeap(heap, p)
          IN /\ WellFormed(g, HeapEnd) /\ Coalesced(g, HeapEnd) /\ OwnedBy(g, Dropped(live, p))
             /\ KFreeHeap(g, p) = g
      BY <1>1, <1>2, <2>1, <2>4, KFreeHeapFrees
    <3>2. heap' = KFreeHeap(heap, p)
      BY <1>6, <2>4, <3>1 DEF KFree, KFreeNode
    <3>3. TypeOK'
      BY <1>1, <2>1, <2>2, <3>1, <3>2 DEF TypeOK, WellFormed
    <3>4. QED
      BY <2>1, <2>2, <3>1, <3>2, <3>3 DEF IInv
  <2>5. QED
    BY <2>3, <2>4
<1>7. ASSUME NEW p \in Address, NEW size \in Sizes, KReallocInPlace(p, size)
      PROVE  IInv'
  <2>1. /\ kheap_enabled /\ live[p] > 0 /\ size \in Nat /\ size > 0
        /\ IsValidHeapAddress(heap, p)
        /\ heap.size[p - HeaderSize] >= size
        /\ live' = Granted(live, p, size)
        /\ UNCHANGED <<kheap_enabled, placement_free, heap>>
    BY <1>7 DEF KReallocInPlace
  <2>2. p \in Nat /\ p >= HeapBase
    BY <2>1 DEF IsValidHeapAddress, Address
  <2>3. PlacementInv' /\ live' \in [Address -> Nat]
    BY <1>1, <2>1, <2>2, GrantKeepsPlacement
  <2>4. \A q \in Address : live'[q] = IF q = p THEN size ELSE live[q]
    BY <1>1, <2>1 DEF Granted
  <2>5. \A b \in heap.magic : b \in Nat /\ b >= HeapBase
    BY <1>2, <2>1, HeapFacts DEF WellFormed, HeapAddress
  <2>6. OwnedBy(heap, live')
    <3>1. ASSUME NEW q \in Address, live'[q] > 0, q >= HeapBase
          PROVE  /\ q - HeaderSize \in heap.magic
                 /\ ~heap.free[q - HeaderSize]
                 /\ live'[q] <= heap.size[q - HeaderSize]
      <4>1. live[q] > 0
        BY <2>1, <2>4, <3>1
      <4>2. heap.size[p - HeaderSize] \in Nat
        BY <1>2, <2>1, HeapFacts DEF WellFormed, IsValidHeapAddress
      <4>3. QED
        BY <1>2, <2>1, <2>4, <3>1, <4>1, <4>2 DEF OwnedBy
    <3>2. ASSUME NEW b \in heap.magic, ~heap.free[b]
          PROVE  b + HeaderSize < HeapEnd /\ live'[b + HeaderSize] > 0
      <4>1. b + HeaderSize < HeapEnd /\ live[b + HeaderSize] > 0
        BY <1>2, <2>1, <3>2 DEF OwnedBy
      <4>2. b + HeaderSize \in Address
        BY <2>5, <4>1 DEF Address, HeapEnd
      <4>3. QED
        BY <2>1, <2>4, <4>1, <4>2
    <3>3. QED
      BY <3>1, <3>2 DEF OwnedBy
  <2>7. TypeOK'
    BY <1>1, <2>1, <2>3 DEF TypeOK
  <2>8. QED
    BY <1>2, <2>1, <2>3, <2>6, <2>7 DEF IInv
<1>8. ASSUME NEW p \in Address, NEW size \in Sizes, KReallocMove(p, size)
      PROVE  IInv'
  <2> DEFINE r == KMallocHeap(heap, size, FALSE)
             mid == Granted(live, r.ptr, size)
  <2>1. /\ kheap_enabled /\ live[p] > 0 /\ size \in Nat /\ size > 0
        /\ IsValidHeapAddress(heap, p) /\ r.ptr # NULL
        /\ heap' = KFreeHeap(r.heap, p)
        /\ live' = Dropped(mid, p)
        /\ UNCHANGED <<kheap_enabled, placement_free>>
    BY <1>8 DEF KReallocMove
  <2>2. p \in Nat /\ p >= HeapBase
    BY <2>1 DEF IsValidHeapAddress, Address
  <2>3. AllocEffect(heap, r.ptr, size, r.heap, HeapEnd)
    BY <1>2, <2>1, KMallocAllocates
  <2> HIDE DEF r
  <2>4. /\ r.ptr \in Address /\ r.ptr >= HeapBase /\ live[r.ptr] = 0
        /\ mid \in [Address -> Nat]
        /\ OwnedBy(r.heap, mid)
    BY <1>1, <1>2, <2>1, <2>3, AllocOwned
  <2>5. WellFormed(r.heap, HeapEnd) /\ Coalesced(r.heap, HeapEnd)
    BY <2>3 DEF AllocEffect
  <2>6. mid[p] > 0 /\ \A q \in Address : q # r.ptr => mid[q] = live[q]
    BY <1>1, <2>1, <2>4 DEF Granted
  <2> HIDE DEF mid
  <2>7. /\ WellFormed(heap', HeapEnd) /\ Coalesced(heap', HeapEnd)
        /\ OwnedBy(heap', Dropped(mid, p))
    BY <2>1, <2>4, <2>5, <2>6, KFreeHeapFrees
  <2>8. live' \in [Address -> Nat]
    BY <2>1, <2>4 DEF Dropped
  <2>9. \A q \in Address : q < HeapBase => live'[q] = live[q]
    BY <2>1, <2>2, <2>4, <2>6 DEF Dropped, Address
  <2>10. PlacementHead' = PlacementHead
    BY <2>1 DEF PlacementHead
  <2>11. PlacementInv'
    BY <1>1, <2>1, <2>9, <2>10 DEF PlacementInv
  <2>12. TypeOK'
    BY <1>1, <2>1, <2>7, <2>8 DEF TypeOK, WellFormed
  <2>13. QED
    BY <2>1, <2>7, <2>11, <2>12 DEF IInv
<1>9. CASE UNCHANGED vars
  <2>1. /\ kheap_enabled' = kheap_enabled /\ placement_free' = placement_free
        /\ heap' = heap /\ live' = live
    BY <1>9 DEF vars
  <2>2. TypeOK' /\ PlacementInv'
    BY <1>1, <2>1 DEF TypeOK, PlacementInv, PlacementHead
  <2>3. QED
    BY <1>2, <2>1, <2>2 DEF IInv
<1>10. QED
  BY <1>3, <1>4, <1>5, <1>6, <1>7, <1>8, <1>9 DEF Next

-----------------------------------------------------------------------------
(* The theorems.                                                           *)

\* Buffers that lie in blocks of their own, or in order in the placement
\* memory, do not overlap.
LEMMA OwnedDisjoint ==
  ASSUME NEW e, NEW h, WellFormed(h, e), NEW owned \in [Address -> Nat], OwnedBy(h, owned),
         \A p \in Address : owned[p] > 0 /\ p < HeapBase => p + owned[p] <= HeapBase,
         \A p, q \in Address : owned[p] > 0 /\ owned[q] > 0 /\ p < q /\ q < HeapBase
                                 => p + owned[p] <= q
  PROVE  /\ \A p \in Address : owned[p] > 0 => p + owned[p] <= e
         /\ \A p, q \in Address : owned[p] > 0 /\ owned[q] > 0 /\ p < q
                                    => p + owned[p] <= q
         /\ \A p \in Address, b \in h.magic :
              owned[p] > 0 => b + HeaderSize <= p \/ b >= p + owned[p]
<1> USE KernelHeapAssumption
<1>1. /\ h.magic \subseteq HeapAddress
      /\ \A a \in HeapAddress : a \in Nat /\ a >= HeapBase /\ a < HeapEnd
      /\ \A a \in HeapAddress : h.size[a] \in Nat /\ EndOf(h, a) \in Nat
      /\ \A b \in h.magic : EndOf(h, b) <= e
      /\ \A b, c \in h.magic : b < c => EndOf(h, b) <= c
  BY HeapFacts DEF WellFormed, Tiled, HeapAddress, HeapEnd
<1>2. /\ e \in Nat /\ HeapBase <= e
      /\ \A p \in Address : p \in Nat /\ owned[p] \in Nat
  BY ListFacts DEF Address
<1>3. ASSUME NEW p \in Address, owned[p] > 0, p >= HeapBase
      PROVE  /\ p - HeaderSize \in h.magic /\ p - HeaderSize \in HeapAddress
             /\ p + owned[p] <= EndOf(h, p - HeaderSize)
  <2>1. p - HeaderSize \in h.magic /\ owned[p] <= h.size[p - HeaderSize]
    BY <1>3 DEF OwnedBy
  <2>2. p - HeaderSize \in HeapAddress /\ h.size[p - HeaderSize] \in Nat
    BY <1>1, <2>1
  <2>3. EndOf(h, p - HeaderSize) = p + h.size[p - HeaderSize]
    BY <1>2, <2>2 DEF EndOf
  <2>4. QED
    BY <1>2, <2>1, <2>2, <2>3
<1>4. \A p \in Address : owned[p] > 0 => p + owned[p] <= e
  <2> SUFFICES ASSUME NEW p \in Address, owned[p] > 0 PROVE p + owned[p] <= e
    OBVIOUS
  <2>1. CASE p < HeapBase
    BY <1>2, <2>1
  <2>2. CASE p >= HeapBase
    <3>1. /\ p - HeaderSize \in h.magic /\ p - HeaderSize \in HeapAddress
          /\ p + owned[p] <= EndOf(h, p - HeaderSize)
      BY <1>3, <2>2
    <3>2. EndOf(h, p - HeaderSize) \in Nat /\ EndOf(h, p - HeaderSize) <= e
      BY <1>1, <3>1
    <3>3. QED
      BY <1>2, <3>1, <3>2
  <2>3. QED
    BY <1>2, <2>1, <2>2
<1>5. \A p, q \in Address : owned[p] > 0 /\ owned[q] > 0 /\ p < q => p + owned[p] <= q
  <2> SUFFICES ASSUME NEW p \in Address, NEW q \in Address,
                      owned[p] > 0, owned[q] > 0, p < q
               PROVE  p + owned[p] <= q
    OBVIOUS
  <2>1. CASE p < HeapBase
    BY <1>2, <2>1
  <2>2. CASE p >= HeapBase
    <3>1. q >= HeapBase
      BY <1>2, <2>2
    <3>2. /\ p - HeaderSize \in h.magic /\ q - HeaderSize \in h.magic
          /\ p - HeaderSize \in HeapAddress
          /\ p + owned[p] <= EndOf(h, p - HeaderSize)
      BY <1>3, <2>2, <3>1
    <3>3. EndOf(h, p - HeaderSize) <= q - HeaderSize /\ EndOf(h, p - HeaderSize) \in Nat
      BY <1>1, <1>2, <3>2
    <3>4. QED
      BY <1>2, <3>2, <3>3
  <2>3. QED
    BY <1>2, <2>1, <2>2
<1>6. ASSUME NEW p \in Address, NEW b \in h.magic, owned[p] > 0
      PROVE  b + HeaderSize <= p \/ b >= p + owned[p]
  <2>1. b \in Nat /\ b >= HeapBase
    BY <1>1
  <2>2. CASE p < HeapBase
    BY <1>2, <1>6, <2>1, <2>2
  <2>3. CASE p >= HeapBase
    <3>1. /\ p - HeaderSize \in h.magic /\ p - HeaderSize \in HeapAddress
          /\ p + owned[p] <= EndOf(h, p - HeaderSize)
      BY <1>3, <1>6, <2>3
    <3>2. CASE b > p - HeaderSize
      <4>1. EndOf(h, p - HeaderSize) <= b /\ EndOf(h, p - HeaderSize) \in Nat
        BY <1>1, <1>2, <3>1, <3>2
      <4>2. QED
        BY <1>2, <2>1, <3>1, <4>1
    <3>3. CASE b <= p - HeaderSize
      BY <1>2, <2>1, <3>3
    <3>4. QED
      BY <1>2, <2>1, <3>2, <3>3
  <2>4. QED
    BY <1>2, <2>2, <2>3
<1>7. QED
  BY <1>4, <1>5, <1>6

\* What the invariant says of the callers' buffers.
LEMMA InvDisjoint ==
  ASSUME IInv
  PROVE  /\ \A p \in Address : live[p] > 0 => p + live[p] <= HeapEnd
         /\ LiveBuffersDisjoint
         /\ HeadersOutsideBuffers
<1> USE KernelHeapAssumption
<1>1. /\ live \in [Address -> Nat] /\ PlacementInv /\ kheap_enabled \in BOOLEAN
      /\ PlacementHead \in Nat /\ PlacementHead <= HeapBase
  BY DEF IInv, TypeOK, PlacementHead
<1>2. \A p \in Address : p \in Nat /\ live[p] \in Nat /\ HeapBase <= HeapEnd
  BY <1>1 DEF Address, HeapEnd
<1>3. CASE ~kheap_enabled
  <2>1. \A p \in Address : live[p] > 0 => p + live[p] <= PlacementHead /\ p < HeapBase
    BY <1>1, <1>2, <1>3 DEF PlacementInv
  <2>2. \A p, q \in Address : live[p] > 0 /\ live[q] > 0 /\ p < q => p + live[p] <= q
    BY <1>1, <1>3, <2>1 DEF PlacementInv
  <2>3. \A p \in Address : live[p] > 0 => p + live[p] <= HeapEnd
    BY <1>1, <1>2, <2>1 DEF HeapEnd
  <2>4. QED
    BY <1>3, <2>2, <2>3 DEF LiveBuffersDisjoint, HeadersOutsideBuffers
<1>4. CASE kheap_enabled
  <2>1. WellFormed(heap, HeapEnd) /\ OwnedBy(heap, live)
    BY <1>4 DEF IInv
  <2>2. \A p \in Address : live[p] > 0 /\ p < HeapBase => p + live[p] <= HeapBase
    BY <1>1, <1>2 DEF PlacementInv
  <2>3. \A p, q \in Address : live[p] > 0 /\ live[q] > 0 /\ p < q /\ q < HeapBase
                                => p + live[p] <= q
    BY <1>1, <1>2 DEF PlacementInv
  <2>4. QED
    BY <1>1, <2>1, <2>2, <2>3, OwnedDisjoint DEF LiveBuffersDisjoint, HeadersOutsideBuffers
<1>5. QED
  BY <1>1, <1>3, <1>4

\* The invariant holds throughout.
THEOREM HeapInvariant == Spec => []IInv
<1>1. QED
  BY InitIInv, NextIInv, PTL DEF Spec

\* The variables of kheap.c keep their types.
THEOREM HeapTypeCorrect == Spec => []TypeOK
<1>1. IInv => TypeOK
  BY DEF IInv
<1>2. QED
  BY <1>1, HeapInvariant, PTL

\* The block list of the kernel heap stays a gapless, coalesced, address-
\* ordered doubly linked list through every kmalloc, kfree and krealloc.
THEOREM HeapListWellFormed == Spec => []ListWellFormed
<1>1. IInv => ListWellFormed
  BY DEF IInv, ListWellFormed, WellFormed
<1>2. QED
  BY <1>1, HeapInvariant, PTL

\* Blocks in use and owned buffers correspond one to one.
THEOREM HeapBlocksMatchOwners == Spec => []BlocksMatchOwners
<1>1. IInv => BlocksMatchOwners
  BY DEF IInv, BlocksMatchOwners
<1>2. QED
  BY <1>1, HeapInvariant, PTL

\* No two buffers in use overlap, and no header lies in one.
THEOREM HeapBuffersDisjoint == Spec => [](LiveBuffersDisjoint /\ HeadersOutsideBuffers)
<1>1. IInv => LiveBuffersDisjoint /\ HeadersOutsideBuffers
  BY InvDisjoint
<1>2. QED
  BY <1>1, HeapInvariant, PTL

\* A second kfree right after the first one changes nothing.
THEOREM HeapDoubleFreeHarmless == Spec => []DoubleFreeHarmless
<1>1. IInv => DoubleFreeHarmless
  <2> SUFFICES ASSUME IInv, kheap_enabled, NEW p \in Address, live[p] > 0
               PROVE  KFreeHeap(KFreeHeap(heap, p), p) = KFreeHeap(heap, p)
    BY DEF DoubleFreeHarmless
  <2>1. /\ WellFormed(heap, HeapEnd) /\ Coalesced(heap, HeapEnd) /\ OwnedBy(heap, live)
        /\ live \in [Address -> Nat]
    BY DEF IInv, TypeOK
  <2>2. QED
    BY <2>1, KFreeHeapFrees
<1>2. QED
  BY <1>1, HeapInvariant, PTL

\* A heap nobody owns a part of is the single block kheap_init made.
THEOREM HeapFreedIsFresh == Spec => []FreedHeapIsFresh
<1> USE KernelHeapAssumption
<1>1. IInv => FreedHeapIsFresh
  <2> SUFFICES ASSUME IInv, kheap_enabled,
                      \A p \in Address : p >= HeapBase => live[p] = 0
               PROVE  /\ heap.magic = {HeapBase} /\ heap.tail = HeapBase
                      /\ heap.free[HeapBase] /\ heap.size[HeapBase] = HeapSize - HeaderSize
                      /\ heap.prev[HeapBase] = NULL /\ heap.next[HeapBase] = NULL
    BY DEF FreedHeapIsFresh
  <2>1. WellFormed(heap, HeapEnd) /\ Coalesced(heap, HeapEnd) /\ OwnedBy(heap, live) /\ heap \in HeapType
    BY DEF IInv, TypeOK
  <2>2. /\ heap.magic \subseteq HeapAddress
        /\ \A a \in HeapAddress : a \in Nat /\ a >= HeapBase /\ a < HeapEnd
        /\ \A a \in HeapAddress : heap.size[a] \in Nat /\ EndOf(heap, a) \in Nat
    BY <2>1, HeapFacts DEF HeapAddress
  <2>3. \A b \in heap.magic : heap.free[b]
    <3> SUFFICES ASSUME NEW b \in heap.magic, ~heap.free[b] PROVE FALSE
      OBVIOUS
    <3>1. b + HeaderSize < HeapEnd /\ live[b + HeaderSize] > 0
      BY <2>1 DEF OwnedBy
    <3>2. b + HeaderSize \in Address /\ b + HeaderSize >= HeapBase
      BY <2>2, <3>1 DEF Address, HeapEnd
    <3>3. QED
      BY <3>1, <3>2
  <2>4. HeapBase \in heap.magic /\ EndOf(heap, HeapBase) = HeapEnd
    BY <2>1, <2>3 DEF WellFormed, Tiled, Coalesced
  <2>5. heap.magic = {HeapBase}
    <3> SUFFICES ASSUME NEW b \in heap.magic, b # HeapBase PROVE FALSE
      BY <2>4
    <3>1. b \in Nat /\ b > HeapBase /\ b < HeapEnd
      BY <2>2
    <3>2. EndOf(heap, HeapBase) <= b
      BY <2>1, <2>4, <3>1 DEF WellFormed, Tiled
    <3>3. QED
      BY <2>4, <3>1, <3>2 DEF HeapEnd
  <2>6. heap.size[HeapBase] = HeapSize - HeaderSize
    BY <2>2, <2>4 DEF EndOf, HeapEnd
  <2>7. heap.next[HeapBase] = NULL /\ heap.prev[HeapBase] = NULL /\ heap.tail = HeapBase
    BY <2>1, <2>4 DEF WellFormed, Linked
  <2>8. QED
    BY <2>3, <2>4, <2>5, <2>6, <2>7
<1>2. QED
  BY <1>1, HeapInvariant, PTL

\* Every step of the kernel heap is a step of the abstract allocator.
LEMMA StepPromise == IInv /\ IInv' /\ [Next]_vars => [Promise!Next]_live
<1> USE KernelHeapAssumption
<1> SUFFICES ASSUME IInv, IInv', [Next]_vars PROVE [Promise!Next]_live
  OBVIOUS
<1>1. /\ live \in [Address -> Nat] /\ live' \in [Address -> Nat]
      /\ kheap_enabled => WellFormed(heap, HeapEnd) /\ Coalesced(heap, HeapEnd) /\ OwnedBy(heap, live)
      /\ Promise!Address = Address
  BY DEF IInv, TypeOK, Promise!Address, Address
<1>2. /\ \A p \in Address : live'[p] > 0 => p + live'[p] <= HeapEnd
      /\ \A p, q \in Address : live'[p] > 0 /\ live'[q] > 0 /\ p < q => p + live'[p] <= q
  <2>1. (IInv => /\ \A p \in Address : live[p] > 0 => p + live[p] <= HeapEnd
                 /\ LiveBuffersDisjoint)'
    BY InvDisjoint, PTL
  <2>2. QED
    BY <2>1 DEF LiveBuffersDisjoint
<1>3. \A p \in Address : p \in Nat /\ live[p] \in Nat /\ live'[p] \in Nat
  BY <1>1 DEF Address
<1>4. ASSUME NEW p \in Address, NEW size \in Nat, size > 0,
             live' = [live EXCEPT ![p] = size]
      PROVE  Promise!Room(p, size)
  <2>1. live'[p] = size /\ \A q \in Address : q # p => live'[q] = live[q]
    BY <1>1, <1>4
  <2>2. p + size <= HeapEnd
    BY <1>2, <1>4, <2>1
  <2>3. \A q \in Address : q # p /\ live[q] > 0 => p + size <= q \/ q + live[q] <= p
    BY <1>2, <1>3, <1>4, <2>1
  <2>4. QED
    BY <1>1, <1>4, <2>2, <2>3 DEF Promise!Room
<1>5. CASE KHeapInit
  BY <1>5 DEF KHeapInit
<1>6. ASSUME NEW p \in Address, NEW size \in Sizes, size > 0,
             live' = Granted(live, p, size)
      PROVE  [Promise!Next]_live
  <2>1. Promise!Room(p, size) /\ live' = [live EXCEPT ![p] = size]
    BY <1>4, <1>6 DEF Granted
  <2>2. CASE live[p] = 0
    BY <1>1, <2>1, <2>2 DEF Promise!Next, Promise!Alloc
  <2>3. CASE live[p] > 0
    BY <1>1, <2>1, <2>3 DEF Promise!Next, Promise!Resize
  <2>4. QED
    BY <1>3, <2>2, <2>3
<1>7. ASSUME NEW size \in Sizes, NEW align \in BOOLEAN, KMallocPlacement(size, align)
      PROVE  [Promise!Next]_live
  <2> DEFINE addr == IF align THEN AlignUp(PlacementHead) ELSE PlacementHead
             total == size + (addr - PlacementHead)
  <2>1. /\ total <= placement_free /\ size \in Nat
        /\ live' = IF size = 0 THEN live ELSE Granted(live, addr, size)
    BY <1>7 DEF KMallocPlacement
  <2>2. /\ PlacementHead \in Nat /\ PlacementHead >= PlacementBase
        /\ placement_free \in Nat
        /\ PlacementHead + placement_free <= HeapBase
    BY DEF IInv, TypeOK, PlacementHead
  <2>3. addr \in Nat /\ addr >= PlacementHead
    BY <2>2, AlignUpFacts
  <2> HIDE DEF addr
  <2>4. size > 0 => addr \in Address
    BY <2>1, <2>2, <2>3 DEF Address, HeapEnd
  <2>5. CASE size = 0
    BY <2>1, <2>5
  <2>6. CASE size > 0
    BY <1>6, <2>1, <2>4, <2>6
  <2>7. QED
    BY <2>1, <2>5, <2>6
<1>8. ASSUME NEW size \in Sizes, NEW align \in BOOLEAN, KMalloc(size, align)
      PROVE  [Promise!Next]_live
  <2> DEFINE r == KMallocHeap(heap, size, align)
  <2>1. /\ kheap_enabled /\ r.ptr # NULL /\ size \in Nat
        /\ live' = Granted(live, r.ptr, size)
    BY <1>8 DEF KMalloc
  <2>2. size > 0
    BY <2>1 DEF KMallocHeap
  <2>3. AllocEffect(heap, r.ptr, size, r.heap, HeapEnd)
    BY <1>1, <2>1, <2>2, KMallocAllocates
  <2> HIDE DEF r
  <2>4. r.ptr \in Address
    BY <1>1, <2>1, <2>2, <2>3, AllocOwned
  <2>5. QED
    BY <1>6, <2>1, <2>2, <2>4
<1>9. ASSUME NEW p \in Address, KFree(p) \/ KFreeNode(p)
      PROVE  [Promise!Next]_live
  <2>1. live[p] > 0 /\ live' = [live EXCEPT ![p] = 0]
    BY <1>9 DEF KFree, KFreeNode, Dropped
  <2>2. QED
    BY <1>1, <2>1 DEF Promise!Next, Promise!Free
<1>10. ASSUME NEW p \in Address, NEW size \in Sizes, KReallocInPlace(p, size)
       PROVE  [Promise!Next]_live
  <2>1. size \in Nat /\ size > 0 /\ live' = Granted(live, p, size)
    BY <1>10 DEF KReallocInPlace
  <2>2. QED
    BY <1>6, <2>1
<1>11. ASSUME NEW p \in Address, NEW size \in Sizes, KReallocMove(p, size)
       PROVE  [Promise!Next]_live
  <2> DEFINE r == KMallocHeap(heap, size, FALSE)
             q == r.ptr
             mid == Granted(live, q, size)
  <2>1. /\ kheap_enabled /\ live[p] > 0 /\ size \in Nat /\ size > 0 /\ q # NULL
        /\ live' = Dropped(mid, p)
    BY <1>11 DEF KReallocMove
  <2>2. AllocEffect(heap, q, size, r.heap, HeapEnd)
    BY <1>1, <2>1, KMallocAllocates
  <2> HIDE DEF r, q
  <2>3. /\ q \in Address /\ q >= HeapBase /\ live[q] = 0
        /\ mid \in [Address -> Nat] /\ OwnedBy(r.heap, mid) /\ WellFormed(r.heap, HeapEnd)
    BY <1>1, <2>1, <2>2, AllocOwned DEF AllocEffect
  <2>4. mid[q] = size /\ \A a \in Address : a # q => mid[a] = live[a]
    BY <1>1, <2>3 DEF Granted
  <2>5. /\ \A a \in Address : live[a] > 0 /\ a < HeapBase => a + live[a] <= HeapBase
        /\ \A a, c \in Address : live[a] > 0 /\ live[c] > 0 /\ a < c /\ c < HeapBase
                                   => a + live[a] <= c
    <3>1. PlacementInv /\ PlacementHead \in Nat /\ PlacementHead <= HeapBase
      BY DEF IInv, TypeOK, PlacementHead
    <3>2. QED
      BY <1>3, <3>1 DEF PlacementInv
  <2>6. q \in Nat /\ \A a \in Address : a < HeapBase => a # q
    BY <1>3, <2>3
  <2>7. /\ \A a \in Address : mid[a] > 0 /\ a < HeapBase => a + mid[a] <= HeapBase
        /\ \A a, c \in Address : mid[a] > 0 /\ mid[c] > 0 /\ a < c /\ c < HeapBase
                                   => a + mid[a] <= c
    <3>1. \A a \in Address : a < HeapBase => mid[a] = live[a]
      BY <2>4, <2>6
    <3>2. \A a, c \in Address : a < c /\ c < HeapBase => a < HeapBase
      BY <1>3
    <3>3. QED
      BY <2>5, <3>1, <3>2
  <2> HIDE DEF mid
  <2>8. /\ \A a \in Address : mid[a] > 0 => a + mid[a] <= HeapEnd
        /\ \A a, c \in Address : mid[a] > 0 /\ mid[c] > 0 /\ a < c => a + mid[a] <= c
    BY <2>3, <2>7, OwnedDisjoint
  <2>9. Promise!Room(q, size)
    <3>1. q + size <= HeapEnd
      BY <2>1, <2>3, <2>4, <2>8
    <3>2. \A a \in Address : a # q /\ live[a] > 0 => q + size <= a \/ a + live[a] <= q
      BY <1>3, <2>1, <2>3, <2>4, <2>6, <2>8
    <3>3. QED
      BY <1>1, <2>1, <3>1, <3>2 DEF Promise!Room
  <2>10. live' = [live EXCEPT ![q] = size, ![p] = 0]
    BY <2>1 DEF Dropped, Granted, mid
  <2>11. Promise!Move(p, q, size)
    BY <2>9, <2>10 DEF Promise!Move
  <2>12. p \in Promise!Buffers /\ q \in Promise!Address \ Promise!Buffers
    BY <1>1, <2>1, <2>3 DEF Promise!Buffers
  <2>13. QED
    BY <2>11, <2>12 DEF Promise!Next
<1>12. CASE UNCHANGED vars
  BY <1>12 DEF vars
<1>13. QED
  BY <1>5, <1>7, <1>8, <1>9, <1>10, <1>11, <1>12 DEF Next

\* The kernel heap implements the abstract allocator: its callers cannot tell
\* the best-fit list from an allocator that picks any free place.
THEOREM HeapImplementsAllocator == Spec => ImplementsAllocator
<1>1. Init => Promise!Init
  BY DEF Init, Promise!Init, Promise!Address, Address
<1>2. QED
  BY <1>1, StepPromise, HeapInvariant, PTL DEF Spec, ImplementsAllocator, Promise!Spec

-----------------------------------------------------------------------------
(* The search for a block, and alignment.                                  *)

\* Every set of natural numbers that has a member has a least one.
LEMMA LeastNatural ==
  ASSUME NEW T \in SUBSET Nat, T # {}
  PROVE  \E m \in T : \A k \in T : m <= k
<1> DEFINE R == OpToRel(<, Nat)
<1>1. IsWellFoundedOn(R, Nat)
  BY NatLessThanWellFounded
<1>2. \A i, j \in Nat : <<i, j>> \in R <=> i < j
  BY DEF OpToRel
<1> HIDE DEF R
<1>3. PICK x \in T : \A y \in T : ~(<<y, x>> \in R)
  BY <1>1, WFMin
<1>4. ASSUME NEW k \in T PROVE x <= k
  <2>1. ~(k < x)
    BY <1>2, <1>3
  <2>2. QED
    BY <2>1
<1>5. QED
  BY <1>4

\* If a block fits, one fits best.
LEMMA BestFitExists ==
  ASSUME NEW h \in HeapType, NEW size, NEW align, NEW b \in h.magic, Fits(h, b, size, align)
  PROVE  BestFits(h, size, align) # {}
<1> DEFINE fitting == {c \in h.magic : Fits(h, c, size, align)}
           sizes == {h.size[c] : c \in fitting}
<1>1. \A c \in h.magic : c \in Nat /\ h.size[c] \in Nat
  BY HeapFacts, KernelHeapAssumption
<1>2. sizes \in SUBSET Nat /\ sizes # {}
  BY <1>1
<1>3. PICK s \in sizes : \A r \in sizes : s <= r
  <2> HIDE DEF sizes
  <2>1. QED
    BY <1>2, LeastNatural
<1> DEFINE smallest == {c \in fitting : h.size[c] = s}
<1>4. smallest \in SUBSET Nat /\ smallest # {}
  BY <1>1, <1>3
<1>5. PICK m \in smallest : \A c \in smallest : m <= c
  <2> HIDE DEF smallest
  <2>1. QED
    BY <1>4, LeastNatural
<1>6. \A c \in fitting : s <= h.size[c] /\ h.size[c] \in Nat /\ s \in Nat
  BY <1>1, <1>2, <1>3
<1>7. ASSUME NEW c \in fitting PROVE h.size[m] < h.size[c] \/ (h.size[m] = h.size[c] /\ m <= c)
  BY <1>5, <1>6
<1>8. QED
  BY <1>5, <1>7 DEF BestFits

\* Rounding up gives the first multiple of a page.
LEMMA AlignUpLeast ==
  ASSUME NEW x \in Nat
  PROVE  /\ IsAligned(AlignUp(x))
         /\ \A a \in Nat : IsAligned(a) /\ a >= x => AlignUp(x) <= a
<1>1. PICK P \in Nat \ {0} : P = PageSize
  BY KernelHeapAssumption
<1>2. PICK q \in Nat, r \in 0 .. P - 1 : x = P * q + r /\ r = x % P
  <2>1. x = P * (x \div P) + (x % P) /\ x % P \in 0 .. P - 1 /\ x \div P \in Nat
    OBVIOUS
  <2>2. QED
    BY <2>1
<1>3. AlignUp(x) = x + ((P - r) % P)
  BY <1>1, <1>2 DEF AlignUp
<1>4. (P - r) % P = IF r = 0 THEN 0 ELSE P - r
  OBVIOUS
<1>5. P * (q + 1) = P * q + P /\ P * q \in Nat
  OBVIOUS
<1>6. PICK k \in Nat : AlignUp(x) = P * k /\ (k = q \/ k = q + 1) /\ (k = q => r = 0)
  <2>1. CASE r = 0
    BY <2>1, <1>2, <1>3, <1>4, <1>5
  <2>2. CASE r # 0
    <3>1. AlignUp(x) = P * q + P
      BY <2>2, <1>2, <1>3, <1>4, <1>5
    <3>2. QED
      BY <3>1, <1>5
  <2>3. QED
    BY <2>1, <2>2
<1>7. IsAligned(AlignUp(x))
  <2>1. (P * k) % P = 0
    OBVIOUS
  <2>2. QED
    BY <2>1, <1>1, <1>6 DEF IsAligned
<1>8. ASSUME NEW a \in Nat, IsAligned(a), a >= x PROVE AlignUp(x) <= a
  <2>1. PICK j \in Nat : a = P * j
    <3>1. a = P * (a \div P) + (a % P) /\ a \div P \in Nat
      OBVIOUS
    <3>2. a % P = 0
      BY <1>1, <1>8 DEF IsAligned
    <3>3. P * (a \div P) \in Nat
      BY <3>1
    <3>4. PICK j \in Nat : j = a \div P
      BY <3>1
    <3>5. a = P * j
      BY <3>1, <3>2, <3>3, <3>4
    <3>6. QED
      BY <3>5
  <2>2. CASE k = q
    BY <2>2, <1>2, <1>5, <1>6, <1>8
  <2>3. CASE k # q /\ j >= q + 1
    <3>1. PICK d \in Nat : j = q + 1 + d
      <4>1. j - (q + 1) \in Nat /\ j = q + 1 + (j - (q + 1))
        BY <2>3
      <4>2. QED
        BY <4>1
    <3>2. P * (q + 1 + d) = P * (q + 1) + P * d /\ P * d \in Nat /\ P * (q + 1) \in Nat
      OBVIOUS
    <3>3. a = P * (q + 1) + P * d
      BY <2>1, <3>1, <3>2
    <3>4. AlignUp(x) = P * (q + 1)
      BY <1>6, <2>3
    <3>5. QED
      BY <3>2, <3>3, <3>4
  <2>4. CASE j < q + 1 /\ k # q
    <3>1. PICK d \in Nat : q = j + d
      <4>1. q - j \in Nat /\ q = j + (q - j)
        BY <2>4
      <4>2. QED
        BY <4>1
    <3>2. P * (j + d) = P * j + P * d /\ P * d \in Nat /\ P * j \in Nat
      OBVIOUS
    <3>3. x = a + P * d + r
      BY <1>2, <2>1, <3>1, <3>2
    <3>4. r # 0
      <4>1. CASE r = 0
        <5>1. (P - r) % P = 0
          BY <4>1, <1>4
        <5>2. AlignUp(x) = x /\ x = P * q
          BY <4>1, <5>1, <1>2, <1>3, <1>5
        <5>3. P * k = P * q + P
          BY <1>5, <1>6, <2>4
        <5>4. QED
          BY <5>2, <5>3, <1>5, <1>6
      <4>2. QED
        BY <4>1
    <3>5. FALSE
      BY <3>2, <3>3, <3>4, <1>8
    <3>6. QED
      BY <3>5
  <2>5. QED
    BY <2>2, <2>3, <2>4
<1>9. QED
  BY <1>7, <1>8

\* A block that has an aligned place for a request fits it.
LEMMA AlignedPlaceFits ==
  ASSUME NEW h \in HeapType, NEW b \in h.magic, h.free[b], NEW size \in Nat,
         NEW a \in AlignedPlaces(h, b, size)
  PROVE  Fits(h, b, size, TRUE)
<1> USE KernelHeapAssumption
<1>1. /\ b \in Nat /\ h.size[b] \in Nat /\ HeaderSize \in Nat /\ HeaderSize > 0
  BY HeapFacts
<1>2. a \in Nat /\ a + size <= b + HeaderSize + h.size[b]
  <2>1. a \in HeapAddress /\ a + size <= EndOf(h, b)
    BY DEF AlignedPlaces
  <2>2. QED
    BY <2>1 DEF EndOf, HeapAddress
<1>3. IsAligned(a) /\ (a = b + HeaderSize \/ a >= b + 2 * HeaderSize)
  BY DEF AlignedPlaces
<1>4. h.size[b] >= size
  BY <1>1, <1>2, <1>3
<1>5. ASSUME NeedsPadding(b, TRUE) PROVE h.size[b] >= size + AlignPadding(b)
  <2>1. a # b + HeaderSize
    BY <1>3, <1>5 DEF NeedsPadding
  <2>2. PICK x \in Nat : x = b + 2 * HeaderSize
    BY <1>1
  <2>3. AlignUp(x) <= a /\ AlignUp(x) \in Nat
    BY <1>2, <1>3, <2>1, <2>2, AlignUpLeast, AlignUpFacts
  <2>4. AlignPadding(b) = AlignUp(x) - (b + HeaderSize)
    BY <2>2 DEF AlignPadding
  <2>5. QED
    BY <1>1, <1>2, <2>3, <2>4
<1>6. QED
  BY <1>4, <1>5 DEF Fits

\* kmalloc_a hands out page boundaries, and turns down a request only if no free
\* block has an aligned place for it: the best-fit search neither overlooks a
\* block whose padding fits nor takes one whose padding does not.
THEOREM HeapAlignedAllocation == Spec => []AlignedAllocationExact
<1> USE KernelHeapAssumption
<1>1. ASSUME IInv, kheap_enabled, NEW size \in Sizes \ {0}
      PROVE  LET p == KMallocHeap(heap, size, TRUE).ptr
             IN IF p = NULL
                THEN \A b \in heap.magic : heap.free[b] => AlignedPlaces(heap, b, size) = {}
                ELSE IsAligned(p)
  <2> DEFINE best == FindBestFit(heap, size, TRUE)
             r == KMallocHeap(heap, size, TRUE)
             data == AlignUp(best + 2 * HeaderSize) - HeaderSize
  <2>1. heap \in HeapType /\ size \in Nat /\ size # 0
    BY <1>1 DEF IInv, TypeOK
  <2>2. /\ NULL = 0 /\ HeaderSize \in Nat /\ HeaderSize > 0
        /\ \A b \in heap.magic : b \in Nat /\ b # NULL
    BY <2>1, HeapFacts DEF NULL
  <2>3. CASE BestFits(heap, size, TRUE) = {}
    <3>1. best = NULL
      BY <2>3 DEF FindBestFit
    <3>2. r.ptr = NULL
      BY <3>1 DEF KMallocHeap
    <3>3. ASSUME NEW b \in heap.magic, heap.free[b], NEW a \in AlignedPlaces(heap, b, size)
          PROVE  FALSE
      BY <3>3, <2>1, <2>3, AlignedPlaceFits, BestFitExists
    <3>4. QED
      BY <3>2, <3>3
  <2>4. CASE BestFits(heap, size, TRUE) # {}
    <3>1. best \in BestFits(heap, size, TRUE)
      BY <2>4 DEF FindBestFit
    <3>2. best \in heap.magic /\ Fits(heap, best, size, TRUE)
      BY <3>1 DEF BestFits
    <3>3. best \in Nat /\ best # NULL
      BY <3>2, <2>2
    <3> HIDE DEF best
    <3>4. CASE ~NeedsPadding(best, TRUE)
      <4>1. r.ptr = best + HeaderSize
        BY <2>1, <3>3, <3>4 DEF KMallocHeap, best
      <4>2. best + HeaderSize # NULL /\ IsAligned(best + HeaderSize)
        BY <2>2, <3>3, <3>4 DEF NeedsPadding
      <4>3. QED
        BY <4>1, <4>2
    <3>5. CASE NeedsPadding(best, TRUE)
      <4>1. heap.size[best] >= size + AlignPadding(best)
        BY <3>2, <3>5 DEF Fits
      <4>2. r.ptr = data + HeaderSize
        BY <2>1, <3>3, <3>5, <4>1 DEF KMallocHeap, best
      <4>3. PICK x \in Nat : x = best + 2 * HeaderSize
        BY <2>2, <3>3
      <4>4. AlignUp(x) \in Nat /\ AlignUp(x) >= x /\ IsAligned(AlignUp(x))
        BY AlignUpFacts, AlignUpLeast
      <4>5. r.ptr = AlignUp(x)
        <5>1. r.ptr = (AlignUp(x) - HeaderSize) + HeaderSize
          BY <4>2, <4>3
        <5> HIDE DEF r, data
        <5>2. QED
          BY <2>2, <4>4, <5>1
      <4>6. AlignUp(x) # NULL
        BY <2>2, <3>3, <4>3, <4>4
      <4>7. QED
        BY <4>4, <4>5, <4>6
    <3>6. QED
      BY <3>4, <3>5
  <2>5. QED
    BY <2>3, <2>4
<1>2. IInv => AlignedAllocationExact
  BY <1>1 DEF AlignedAllocationExact
<1>3. QED
  BY <1>2, HeapInvariant, PTL
===============================================================================
