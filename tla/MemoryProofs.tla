---------------------------- MODULE MemoryProofs ----------------------------
(***************************************************************************)
(* What the memory managers keep: the bitmap of page frames for every      *)
(* number of frames, pmm_init for every list of regions, and the address   *)
(* spaces for every page size, table size, number of directories, frames,  *)
(* segments and requests.  (The two components share no state; what they   *)
(* do to one frame is modelled in AddressSpaces.)                          *)
(***************************************************************************)
EXTENDS AddressSpaces, MemoryMap, FiniteSetTheorems, WellFoundedInduction, TLAPS


-----------------------------------------------------------------------------
(* The bitmap of page frames.                                              *)

\* The bits of the bitmap and its frames are finite sets of numbers, and every
\* frame has a bit.
LEMMA BitsFacts ==
  /\ IsFiniteSet(Bits) /\ IsFiniteSet(Frames) /\ IsFiniteSet(BootFrames)
  /\ Cardinality(Frames) = NumFrames
  /\ Frames \subseteq Bits
  /\ BootFrames \subseteq Frames /\ 0 \in BootFrames
<1> USE PhysMemAssumption
<1>1. BitmapSize \in Nat /\ BitmapSize * FramesPerByte \in Nat /\ NumFrames <= BitmapSize * FramesPerByte
  <2>1. ASSUME NEW a \in Nat, NEW b \in Nat \ {0}
        PROVE  /\ a \div b \in Nat /\ (a \div b) * b \in Nat
               /\ a - b < (a \div b) * b
    OBVIOUS
  <2>2. NumFrames + FramesPerByte - 1 \in Nat
    OBVIOUS
  <2>3. QED
    BY <2>1, <2>2 DEF BitmapSize
<1>2. Frames \subseteq Bits
  BY <1>1 DEF Frames, Bits
<1>3. IsFiniteSet(Bits) /\ IsFiniteSet(Frames)
  BY <1>1, FS_Interval DEF Bits, Frames
<1>4. Cardinality(Frames) = NumFrames
  <2>1. Cardinality(0 .. NumFrames - 1) = IF 0 > NumFrames - 1 THEN 0 ELSE NumFrames - 1 - 0 + 1
    BY FS_Interval
  <2>2. QED
    BY <2>1 DEF Frames
<1>5. 0 \in 0 .. FramesPerByte * FramesPerByte - 1
  <2>1. FramesPerByte * FramesPerByte >= FramesPerByte
    OBVIOUS
  <2>2. QED
    BY <2>1
<1>6. BootFrames \subseteq Frames /\ 0 \in BootFrames
  BY <1>5 DEF Frames
<1>7. QED
  BY <1>2, <1>3, <1>4, <1>6, FS_Subset

\* A frame that the scan finds is a frame, not a bit behind the last one.
LEMMA FindableAreFrames == FindableFrames \subseteq Frames
<1> USE PhysMemAssumption
<1> SUFFICES ASSUME NEW f \in FindableFrames PROVE f \in Frames
  OBVIOUS
<1>1. f \in Nat /\ f \div FramesPerByte <= (NumFrames \div FramesPerByte) - 1
  BY DEF FindableFrames, ScannedBytes, ByteOf, Bits
<1>2. ASSUME NEW a \in Nat, NEW b \in Nat \ {0}
      PROVE  a \div b \in Nat /\ (a \div b) * b <= a /\ a < (a \div b) * b + b
  OBVIOUS
<1>3. ASSUME NEW a \in Nat, NEW c \in Nat, NEW b \in Nat \ {0}, a <= c - 1
      PROVE  a * b + b <= c * b
  <2>1. (c - a) * b >= b
    BY <1>3
  <2>2. QED
    BY <1>3, <2>1
<1>4. f < NumFrames
  <2> DEFINE a == f \div FramesPerByte
             c == NumFrames \div FramesPerByte
  <2>1. a \in Nat /\ c \in Nat /\ f < a * FramesPerByte + FramesPerByte
        /\ c * FramesPerByte <= NumFrames /\ a <= c - 1
    BY <1>1, <1>2
  <2> HIDE DEF a, c
  <2>2. a * FramesPerByte + FramesPerByte <= c * FramesPerByte
    BY <1>3, <2>1
  <2>3. a * FramesPerByte \in Nat /\ c * FramesPerByte \in Nat
    BY <2>1
  <2>4. QED
    BY <1>1, <2>1, <2>2, <2>3
<1>5. QED
  BY <1>1, <1>4 DEF Frames

\* The inductive invariant.
PhysMemInv ==
  /\ PhysMemTypeOK
  /\ CounterExact
  /\ HeldFramesMarked
  /\ BootFramesKept
  /\ booted \/ held = {}

\* A counter that is exact is in range once the boot frames are marked: there are no
\* fewer of them than bits behind the last frame.
LEMMA CounterInRange ==
  ASSUME NEW b, b \subseteq Bits, BootFrames \subseteq b,
         NEW u \in Int, NumFrames - u = Cardinality(Bits \ b)
  PROVE  u \in 0 .. NumFrames
<1> USE PhysMemAssumption
<1> DEFINE D == 0 .. FramesPerByte * FramesPerByte - 1
           size == BitmapSize * FramesPerByte
<1>1. size \in Nat /\ size < NumFrames + FramesPerByte
  <2>1. ASSUME NEW x \in Nat, NEW y \in Nat \ {0}
        PROVE  (x \div y) * y \in Nat /\ (x \div y) * y <= x
    OBVIOUS
  <2>2. NumFrames + FramesPerByte - 1 \in Nat
    OBVIOUS
  <2>3. QED
    BY <2>1, <2>2 DEF BitmapSize
<1>2. FramesPerByte * FramesPerByte \in Nat /\ FramesPerByte * FramesPerByte >= FramesPerByte
  OBVIOUS
<1>3. IsFiniteSet(Bits) /\ Cardinality(Bits) <= size
  <2> HIDE DEF size
  <2>1. Bits = 0 .. size - 1
    BY DEF Bits, size
  <2>2. /\ IsFiniteSet(0 .. size - 1)
        /\ Cardinality(0 .. size - 1) = IF 0 > size - 1 THEN 0 ELSE size - 1 - 0 + 1
    BY <1>1, FS_Interval
  <2>3. QED
    BY <1>1, <2>1, <2>2
<1>4. IsFiniteSet(D) /\ Cardinality(D) = FramesPerByte * FramesPerByte
  <2> DEFINE q == FramesPerByte * FramesPerByte
  <2>1. q \in Nat /\ q > 0
    BY <1>2
  <2>2. D = 0 .. q - 1
    OBVIOUS
  <2> HIDE DEF q, D
  <2>3. /\ IsFiniteSet(0 .. q - 1)
        /\ Cardinality(0 .. q - 1) = IF 0 > q - 1 THEN 0 ELSE q - 1 - 0 + 1
    BY <2>1, FS_Interval
  <2>4. Cardinality(D) = q
    BY <2>1, <2>2, <2>3
  <2>5. QED
    BY <2>2, <2>3, <2>4 DEF q
<1>5. D \subseteq BootFrames
  OBVIOUS
<1> HIDE DEF D, size
<1>6. Bits \cap D = D /\ Bits \ b \subseteq Bits \ D
  BY <1>5
<1>7. IsFiniteSet(Bits \ D) /\ Cardinality(Bits \ D) = Cardinality(Bits) - Cardinality(D)
  BY <1>3, <1>4, <1>6, FS_Difference, ZenonT(30)
<1>8. Cardinality(Bits \ b) <= Cardinality(Bits \ D) /\ IsFiniteSet(Bits \ b)
  BY <1>6, <1>7, FS_Subset
<1>9. /\ Cardinality(Bits \ b) \in Nat /\ Cardinality(Bits \ D) \in Nat
      /\ Cardinality(Bits) \in Nat /\ Cardinality(D) \in Nat
  BY <1>3, <1>4, <1>7, <1>8, FS_CardinalityType
<1>10. Cardinality(Bits \ b) <= NumFrames
  BY <1>1, <1>2, <1>3, <1>4, <1>7, <1>8, <1>9
<1>11. QED
  BY <1>9, <1>10

\* Marking frames keeps the counter exact.
LEMMA SetFramesExact ==
  ASSUME PhysMemTypeOK, CounterExact, NEW F, F \subseteq Bits, SetFrames(F)
  PROVE  /\ bitmap' \subseteq Bits
         /\ NumFrames - used' = Cardinality(Bits \ bitmap') /\ used' \in Int
<1> USE PhysMemAssumption
<1> DEFINE clear == Bits \ bitmap
<1>1. /\ bitmap' = bitmap \cup F
      /\ used' = used + Cardinality(F \ bitmap)
      /\ used \in Int /\ NumFrames - used = Cardinality(clear)
  BY DEF SetFrames, PhysMemTypeOK, CounterExact
<1>2. IsFiniteSet(clear) /\ F \ bitmap \subseteq clear
  BY BitsFacts, FS_Subset
<1>3. /\ IsFiniteSet(F \ bitmap) /\ clear \cap (F \ bitmap) = F \ bitmap
      /\ Bits \ bitmap' = clear \ (F \ bitmap)
  BY <1>1, <1>2, FS_Subset
<1>4. Cardinality(clear \ (F \ bitmap)) = Cardinality(clear) - Cardinality(F \ bitmap)
  BY <1>2, <1>3, FS_Difference, ZenonT(30)
<1>5. Cardinality(clear) \in Nat /\ Cardinality(F \ bitmap) \in Nat
  BY <1>2, <1>3, FS_CardinalityType
<1>6. bitmap' \subseteq Bits
  BY <1>1 DEF PhysMemTypeOK
<1> HIDE DEF clear
<1>7. NumFrames - used' = Cardinality(Bits \ bitmap')
  <2>1. Cardinality(Bits \ bitmap') = Cardinality(clear \ (F \ bitmap))
    BY <1>3, Zenon
  <2>2. QED
    BY <1>1, <1>4, <1>5, <2>1
<1>8. used' \in Int
  BY <1>1, <1>5
<1>9. QED
  BY <1>6, <1>7, <1>8

\* So does clearing them.
LEMMA UnsetFramesExact ==
  ASSUME PhysMemTypeOK, CounterExact, NEW F, F \subseteq Frames, UnsetFrames(F)
  PROVE  /\ bitmap' \subseteq Bits
         /\ NumFrames - used' = Cardinality(Bits \ bitmap') /\ used' \in Int
<1> USE PhysMemAssumption
<1> DEFINE clear == Bits \ bitmap
           more == F \cap bitmap
<1>1. /\ bitmap' = bitmap \ F
      /\ used' = used - Cardinality(more)
      /\ used \in Int /\ NumFrames - used = Cardinality(clear)
  BY DEF UnsetFrames, PhysMemTypeOK, CounterExact
<1>2. IsFiniteSet(clear) /\ IsFiniteSet(more) /\ more \subseteq Bits
  BY BitsFacts, FS_Subset
<1>3. Bits \ bitmap' = clear \cup more /\ clear \cap more = {}
  BY <1>1, <1>2, BitsFacts
<1>4. Cardinality(clear \cup more) = Cardinality(clear) + Cardinality(more) - Cardinality(clear \cap more)
  BY <1>2, FS_Union
<1>5. Cardinality(clear) \in Nat /\ Cardinality(more) \in Nat /\ Cardinality({}) = 0
  BY <1>2, FS_CardinalityType, FS_EmptySet
<1>6. bitmap' \subseteq Bits
  BY <1>1, <1>3 DEF PhysMemTypeOK
<1> HIDE DEF clear, more
<1>7. NumFrames - used' = Cardinality(Bits \ bitmap')
  <2>1. /\ Cardinality(Bits \ bitmap') = Cardinality(clear \cup more)
        /\ Cardinality(clear \cap more) = Cardinality({})
    BY <1>3, Zenon
  <2>2. QED
    BY <1>1, <1>4, <1>5, <2>1
<1>8. used' \in Int
  BY <1>1, <1>5
<1>9. QED
  BY <1>6, <1>7, <1>8

\* A step after which the counter is exact and the boot frames are marked.
LEMMA ExactInv ==
  ASSUME bitmap' \subseteq Bits, NumFrames - used' = Cardinality(Bits \ bitmap'), used' \in Int,
         booted' \in BOOLEAN, held' \subseteq Frames \cap bitmap',
         BootFramesKept', booted' \/ held' = {}
  PROVE  PhysMemInv'
<1>1. booted' => used' \in 0 .. NumFrames
  BY CounterInRange DEF BootFramesKept
<1>2. QED
  BY <1>1 DEF PhysMemInv, PhysMemTypeOK, CounterExact, HeldFramesMarked

\* The invariant holds for every set of available frames.
LEMMA InitPhysMemInv == PhysMemInit => PhysMemInv
<1> SUFFICES ASSUME PhysMemInit PROVE PhysMemInv
  OBVIOUS
<1>1. PICK available \in SUBSET Bits :
        bitmap = Bits \ available /\ used = NumFrames - Cardinality(available)
  BY DEF PhysMemInit
<1>2. bitmap \subseteq Bits /\ Bits \ bitmap = available
  BY <1>1, BitsFacts
<1>3. Cardinality(available) \in Nat
  BY BitsFacts, FS_Subset, FS_CardinalityType
<1>4. CounterExact /\ used \in Int
  <2>1. Cardinality(Bits \ bitmap) = Cardinality(available)
    BY <1>2, Zenon
  <2>2. QED
    BY <1>1, <1>3, <2>1, PhysMemAssumption DEF CounterExact
<1>5. QED
  BY <1>2, <1>4 DEF PhysMemInit, PhysMemInv, PhysMemTypeOK, HeldFramesMarked, BootFramesKept

\* Every call of the frame allocator keeps the invariant.
LEMMA NextPhysMemInv == PhysMemInv /\ [PhysMemNext]_pmmVars => PhysMemInv'
<1> SUFFICES ASSUME PhysMemInv, [PhysMemNext]_pmmVars PROVE PhysMemInv'
  OBVIOUS
<1>1. PhysMemTypeOK /\ CounterExact
  BY DEF PhysMemInv
<1>2. CASE VmmInit
  <2>1. SetFrames(BootFrames) /\ booted' = TRUE /\ held' = held /\ ~booted
    BY <1>2 DEF VmmInit
  <2>2. BootFrames \subseteq Bits
    BY BitsFacts
  <2>3. /\ bitmap' \subseteq Bits
        /\ NumFrames - used' = Cardinality(Bits \ bitmap') /\ used' \in Int
    BY <1>1, <2>1, <2>2, SetFramesExact
  <2>4. held = {}
    BY <2>1 DEF PhysMemInv
  <2>5. held' \subseteq Frames \cap bitmap' /\ BootFramesKept' /\ (booted' \/ held' = {})
    BY <2>1, <2>3, <2>4
       DEF PhysMemInv, PhysMemTypeOK, HeldFramesMarked, BootFramesKept, SetFrames
  <2>6. QED
    BY <2>1, <2>3, <2>5, ExactInv DEF PhysMemInv, PhysMemTypeOK
<1>3. ASSUME NEW f \in Bits, AllocFrame(f)
      PROVE  PhysMemInv'
  <2>1. /\ SetFrames({f}) /\ booted /\ booted' = booted /\ f \in FindableFrames
        /\ held' = IF f = NullFrame THEN held ELSE held \cup {f}
    BY <1>3 DEF AllocFrame, IsFirstFree
  <2>2. f \in Frames /\ f \notin bitmap
    BY <2>1, FindableAreFrames DEF FindableFrames
  <2>3. /\ bitmap' \subseteq Bits
        /\ NumFrames - used' = Cardinality(Bits \ bitmap') /\ used' \in Int
    <3>1. {f} \subseteq Bits
      OBVIOUS
    <3>2. QED
      BY <1>1, <2>1, <3>1, SetFramesExact
  <2>4. f \notin BootFrames
    BY <2>1, <2>2 DEF PhysMemInv, BootFramesKept
  <2>5. held' \subseteq Frames \cap bitmap' /\ BootFramesKept' /\ (booted' \/ held' = {})
    BY <2>1, <2>2, <2>3, <2>4
       DEF PhysMemInv, PhysMemTypeOK, HeldFramesMarked, BootFramesKept, SetFrames
  <2>6. QED
    BY <2>1, <2>3, <2>5, ExactInv DEF PhysMemInv, PhysMemTypeOK
<1>4. ASSUME NEW F \in SUBSET held, FreeFrames(F)
      PROVE  PhysMemInv'
  <2>1. UnsetFrames(F) /\ booted /\ booted' = booted /\ held' = held \ F
    BY <1>4 DEF FreeFrames
  <2>2. F \subseteq Frames
    BY <1>1 DEF PhysMemTypeOK
  <2>3. /\ bitmap' \subseteq Bits
        /\ NumFrames - used' = Cardinality(Bits \ bitmap') /\ used' \in Int
    BY <1>1, <2>1, <2>2, UnsetFramesExact
  <2>4. held' \subseteq Frames \cap bitmap' /\ BootFramesKept' /\ (booted' \/ held' = {})
    BY <2>1, <2>3
       DEF PhysMemInv, PhysMemTypeOK, HeldFramesMarked, BootFramesKept, UnsetFrames
  <2>5. QED
    BY <2>1, <2>3, <2>4, ExactInv DEF PhysMemInv, PhysMemTypeOK
<1>5. ASSUME NEW f \in Frames, MarkReserved(f)
      PROVE  PhysMemInv'
  <2>1. SetFrames({f}) /\ booted' = booted /\ held' = held
    BY <1>5 DEF MarkReserved
  <2>2. {f} \subseteq Bits
    BY BitsFacts
  <2>3. /\ bitmap' \subseteq Bits
        /\ NumFrames - used' = Cardinality(Bits \ bitmap') /\ used' \in Int
    BY <1>1, <2>1, <2>2, SetFramesExact
  <2>4. held' \subseteq Frames \cap bitmap' /\ BootFramesKept' /\ (booted' \/ held' = {})
    BY <2>1, <2>3
       DEF PhysMemInv, PhysMemTypeOK, HeldFramesMarked, BootFramesKept, SetFrames
  <2>5. QED
    BY <2>1, <2>3, <2>4, ExactInv DEF PhysMemInv, PhysMemTypeOK
<1>6. ASSUME NEW f \in Frames, MarkAvailable(f)
      PROVE  PhysMemInv'
  <2>1. UnsetFrames({f}) /\ booted' = booted /\ held' = held /\ f \notin held \cup BootFrames
    BY <1>6 DEF MarkAvailable
  <2>2. {f} \subseteq Frames
    OBVIOUS
  <2>3. /\ bitmap' \subseteq Bits
        /\ NumFrames - used' = Cardinality(Bits \ bitmap') /\ used' \in Int
    BY <1>1, <2>1, <2>2, UnsetFramesExact
  <2>4. held' \subseteq Frames \cap bitmap' /\ BootFramesKept' /\ (booted' \/ held' = {})
    BY <2>1, <2>3
       DEF PhysMemInv, PhysMemTypeOK, HeldFramesMarked, BootFramesKept, UnsetFrames
  <2>5. QED
    BY <2>1, <2>3, <2>4, ExactInv DEF PhysMemInv, PhysMemTypeOK
<1>7. CASE UNCHANGED pmmVars
  BY <1>7 DEF pmmVars, PhysMemInv, PhysMemTypeOK, CounterExact, HeldFramesMarked, BootFramesKept
<1>8. QED
  BY <1>2, <1>3, <1>4, <1>5, <1>6, <1>7 DEF PhysMemNext

\* The counter that pmm_alloc_frame trusts equals the number of set bits
\* among the frames after any sequence of operations (pmm_set_frame and
\* pmm_unset_frame test the bit before they count).
THEOREM FrameCounterExact == PhysMemSpec => [](PhysMemTypeOK /\ CounterExact)
<1>1. PhysMemInv => PhysMemTypeOK /\ CounterExact
  BY DEF PhysMemInv
<1>2. QED
  BY <1>1, InitPhysMemInv, NextPhysMemInv, PTL DEF PhysMemSpec

\* No frame is handed out while somebody holds it, and the frames of the kernel
\* and of real mode memory never are.
THEOREM FramesHeldOnce == PhysMemSpec => [](HeldFramesMarked /\ BootFramesKept)
<1>1. PhysMemInv => HeldFramesMarked /\ BootFramesKept
  BY DEF PhysMemInv
<1>2. QED
  BY <1>1, InitPhysMemInv, NextPhysMemInv, PTL DEF PhysMemSpec

\* pmm_alloc_frame's shortcut on the counter never hides a free frame.
THEOREM AllocationNeverSpuriouslyFails == PhysMemSpec => []NoSpuriousFailure
<1>1. PhysMemInv => NoSpuriousFailure
  <2> SUFFICES ASSUME PhysMemInv, FindableFrames # {} PROVE used < NumFrames
    BY DEF NoSpuriousFailure
  <2>1. PICK f \in FindableFrames : TRUE
    OBVIOUS
  <2>2. f \in Bits \ bitmap
    BY <2>1 DEF FindableFrames
  <2>3. IsFiniteSet(Bits \ bitmap)
    BY BitsFacts, FS_Subset
  <2>4. Cardinality(Bits \ bitmap) \in Nat /\ Cardinality(Bits \ bitmap) # 0
    BY <2>2, <2>3, FS_CardinalityType, FS_EmptySet
  <2>5. QED
    BY <2>4, PhysMemAssumption DEF PhysMemInv, PhysMemTypeOK, CounterExact
<1>2. QED
  BY <1>1, InitPhysMemInv, NextPhysMemInv, PTL DEF PhysMemSpec

-----------------------------------------------------------------------------
(* pmm_init: sorting and cutting the regions of the memory map.            *)

\* Every set of natural numbers but the empty one has a least element.
LEMMA LeastNatural ==
  ASSUME NEW T \in SUBSET Nat, T # {}
  PROVE  \E m \in T : \A k \in T : m <= k
<1> DEFINE R == OpToRel(<, Nat)
<1>1. IsWellFoundedOn(R, Nat)
  BY NatLessThanWellFounded
<1>2. \A i, j \in Nat : <<i, j>> \in R <=> i < j
  BY DEF OpToRel
<1> HIDE DEF R
<1>3. PICK x \in T : \A y \in T : ~(<<y, x>> \in R)
  BY <1>1, WFMin
<1>4. ASSUME NEW k \in T PROVE x <= k
  <2>1. ~(k < x)
    BY <1>2, <1>3
  <2>2. QED
    BY <2>1
<1>5. QED
  BY <1>4

\* Induction up to n over a set of numbers.
LEMMA UpTo ==
  ASSUME NEW n \in Nat, NEW T, 0 \in T, \A k \in 1 .. n : k - 1 \in T => k \in T
  PROVE  \A k \in 0 .. n : k \in T
<1> DEFINE U == {k \in Nat : k <= n /\ k \notin T}
<1>1. SUFFICES ASSUME U # {} PROVE FALSE
  OBVIOUS
<1>2. PICK m \in U : \A k \in U : m <= k
  <2>1. U \in SUBSET Nat
    OBVIOUS
  <2> HIDE DEF U
  <2>2. QED
    BY <1>1, <2>1, LeastNatural
<1>3. m \in Nat /\ m <= n /\ m \notin T /\ m # 0
  OBVIOUS
<1>4. m \in 1 .. n /\ m - 1 \in Nat /\ m - 1 <= n
  BY <1>3
<1>5. m - 1 \in T
  BY <1>4, <1>2
<1>6. QED
  BY <1>3, <1>4, <1>5

\* A function on 0 .. n that begins with a and goes on by the steps g.
Steps(w, a, n, g) == w = [k \in 0 .. n |-> IF k = 0 THEN a ELSE g[k][w[k - 1]]]

\* There is one, whatever the steps, and its values stay in the set of the steps.
LEMMA StepsExist ==
  ASSUME NEW X, NEW a \in X, NEW n \in Nat, NEW g \in [1 .. n -> [X -> X]]
  PROVE  /\ \E w : Steps(w, a, n, g)
         /\ \A w : Steps(w, a, n, g) => w \in [0 .. n -> X]
<1> DEFINE Has(m) == \E w \in [0 .. m -> X] : Steps(w, a, m, g)
           T == {m \in 0 .. n : Has(m)}
<1> HIDE DEF Has
<1>1. 0 \in T
  <2> DEFINE w == [k \in 0 .. 0 |-> a]
  <2>1. w \in [0 .. 0 -> X] /\ Steps(w, a, 0, g)
    BY DEF Steps
  <2>2. QED
    BY <2>1 DEF Has
<1>2. ASSUME NEW m \in 1 .. n, m - 1 \in T PROVE m \in T
  <2>1. PICK w \in [0 .. m - 1 -> X] : Steps(w, a, m - 1, g)
    BY <1>2 DEF Has
  <2> DEFINE u == [k \in 0 .. m |-> IF k = m THEN g[m][w[m - 1]] ELSE w[k]]
  <2>2. g[m] \in [X -> X] /\ w[m - 1] \in X
    OBVIOUS
  <2>3. u \in [0 .. m -> X]
    BY <2>2
  <2>4. ASSUME NEW k \in 0 .. m PROVE u[k] = IF k = 0 THEN a ELSE g[k][u[k - 1]]
    <3>1. CASE k = m
      BY <3>1
    <3>2. CASE k # m
      <4>1. k \in 0 .. m - 1 /\ (k # 0 => k - 1 \in 0 .. m - 1 /\ k - 1 # m)
        BY <3>2
      <4>2. w[k] = IF k = 0 THEN a ELSE g[k][w[k - 1]]
        BY <2>1, <4>1 DEF Steps
      <4>3. QED
        BY <3>2, <4>1, <4>2
    <3>3. QED
      BY <3>1, <3>2
  <2>5. u = [k \in 0 .. m |-> u[k]]
    OBVIOUS
  <2> HIDE DEF u
  <2>6. Steps(u, a, m, g)
    BY <2>4, <2>5 DEF Steps
  <2>7. QED
    BY <2>3, <2>6 DEF Has
<1>3. Has(n)
  <2>1. \A k \in 0 .. n : k \in T
    <3> HIDE DEF T
    <3>1. QED
      BY <1>1, <1>2, UpTo
  <2>2. QED
    BY <2>1
<1>4. ASSUME NEW w, Steps(w, a, n, g) PROVE w \in [0 .. n -> X]
  <2> DEFINE V == {k \in 0 .. n : w[k] \in X}
  <2>1. /\ w = [k \in 0 .. n |-> w[k]]
        /\ \A k \in 0 .. n : w[k] = IF k = 0 THEN a ELSE g[k][w[k - 1]]
    BY <1>4 DEF Steps
  <2>2. 0 \in V
    BY <2>1
  <2>3. ASSUME NEW k \in 1 .. n, k - 1 \in V PROVE k \in V
    <3>1. k \in 0 .. n /\ k # 0 /\ g[k] \in [X -> X] /\ w[k - 1] \in X
      BY <2>3
    <3>2. w[k] = g[k][w[k - 1]]
      BY <3>1, <2>1
    <3>3. QED
      BY <3>1, <3>2
  <2>4. \A k \in 0 .. n : k \in V
    <3> HIDE DEF V
    <3>1. QED
      BY <2>2, <2>3, UpTo
  <2>5. \A k \in 0 .. n : w[k] \in X
    BY <2>4
  <2>6. QED
    BY <2>1, <2>5
<1>5. QED
  BY <1>3, <1>4 DEF Has

-----------------------------------------------------------------------------
(* Loops over the pairs of a list.                                         *)

\* r comes from a by two nested loops with the steps g.
IsLoop(r, X, a, n, g) ==
  \E out \in [0 .. n -> X] :
    /\ out[0] = a /\ out[n] = r
    /\ \A i \in 1 .. n :
         \E next \in [0 .. n -> X] :
           /\ next[n] = out[i]
           /\ \A j \in 0 .. n :
                next[j] = IF j <= i THEN out[i - 1] ELSE g[i][j][next[j - 1]]

\* The steps keep an invariant: I[i] holds after the i-th inner loop, J[i][j] in it
\* after the step of j.
Keeps(X, n, g, I, J) ==
  /\ \A i \in 1 .. n : I[i - 1] \subseteq J[i][i] /\ J[i][n] \subseteq I[i]
  /\ \A i \in 1 .. n : \A j \in i + 1 .. n : \A l \in X \cap J[i][j - 1] :
       g[i][j][l] \in J[i][j]

\* What holds at the beginning and is kept by the steps holds at the end.
LEMMA LoopInvariant ==
  ASSUME NEW X, NEW n \in Nat, NEW a, NEW g, NEW r, IsLoop(r, X, a, n, g),
         NEW I, NEW J, a \in I[0], Keeps(X, n, g, I, J)
  PROVE  r \in I[n]
<1> USE DEF Keeps
<1>1. PICK out \in [0 .. n -> X] :
        /\ out[0] = a /\ out[n] = r
        /\ \A i \in 1 .. n :
             \E next \in [0 .. n -> X] :
               /\ next[n] = out[i]
               /\ \A j \in 0 .. n :
                    next[j] = IF j <= i THEN out[i - 1] ELSE g[i][j][next[j - 1]]
  BY DEF IsLoop
<1> DEFINE T == {i \in 0 .. n : out[i] \in I[i]}
<1>2. 0 \in T
  BY <1>1
<1>3. ASSUME NEW i \in 1 .. n, i - 1 \in T PROVE i \in T
  <2>1. out[i - 1] \in J[i][i]
    BY <1>3
  <2>2. PICK next \in [0 .. n -> X] :
          /\ next[n] = out[i]
          /\ \A j \in 0 .. n :
               next[j] = IF j <= i THEN out[i - 1] ELSE g[i][j][next[j - 1]]
    BY <1>1
  <2> DEFINE U == {j \in 0 .. n : j >= i => next[j] \in J[i][j]}
  <2>3. 0 \in U
    OBVIOUS
  <2>4. ASSUME NEW j \in 1 .. n, j - 1 \in U PROVE j \in U
    <3>1. CASE j < i
      BY <3>1
    <3>2. CASE j = i
      BY <3>2, <2>1, <2>2
    <3>3. CASE j > i
      <4>1. j - 1 >= i /\ j - 1 \in 0 .. n /\ j \in i + 1 .. n
        BY <3>3
      <4>2. next[j - 1] \in X \cap J[i][j - 1]
        BY <4>1, <2>4
      <4>3. next[j] = g[i][j][next[j - 1]]
        BY <2>2, <3>3
      <4>4. QED
        BY <4>1, <4>2, <4>3
    <3>4. QED
      BY <3>1, <3>2, <3>3
  <2>5. \A j \in 0 .. n : j \in U
    <3> HIDE DEF U
    <3>1. QED
      BY <2>3, <2>4, UpTo
  <2>6. next[n] \in J[i][n]
    BY <2>5
  <2>7. QED
    BY <2>2, <2>6
<1>4. \A i \in 0 .. n : i \in T
  <2> HIDE DEF T
  <2>1. QED
    BY <1>2, <1>3, UpTo
<1>5. QED
  BY <1>1, <1>4

Region == [base : Nat, length : Int, type : Nat]
RegionLists(n) == [1 .. n -> Region]

\* The steps stay among the lists of regions.
LEMMA ExchangeType ==
  ASSUME NEW n \in Nat, NEW l \in RegionLists(n), NEW i \in 1 .. n, NEW j \in 1 .. n
  PROVE  Exchange(l, i, j) \in RegionLists(n)
BY DEF Exchange, RegionLists

LEMMA WordFacts == Word \in Nat /\ Word > 0 /\ \A a \in Int : Wrap(a) \in 0 .. Word - 1
<1>1. Word \in Nat /\ Word > 0
  <2>1. FrameSize \in Nat /\ FrameSize > 0 /\ NumFrames + 1 \in Nat /\ NumFrames + 1 > 0
    BY PhysMemAssumption, MemoryMapAssumption
  <2>2. \A a, b \in Nat : a > 0 /\ b > 0 => a * b \in Nat /\ a * b > 0
    OBVIOUS
  <2>3. QED
    BY <2>1, <2>2 DEF Word
<1>2. ASSUME NEW a \in Int PROVE Wrap(a) \in 0 .. Word - 1
  BY <1>1 DEF Wrap
<1>3. QED
  BY <1>1, <1>2

LEMMA CutPairType ==
  ASSUME NEW n \in Nat, NEW l \in RegionLists(n), NEW i \in 1 .. n, NEW j \in 1 .. n
  PROVE  CutPair(l, i, j) \in RegionLists(n)
<1>1. l[i].base \in Nat /\ l[j].base \in Nat /\ l[i] \in Region /\ l[j] \in Region
  BY DEF RegionLists, Region
<1>2. l[j].base - l[i].base \in Int /\ Wrap(Word + l[i].base - l[j].base) \in Int
  <2>1. Word + l[i].base - l[j].base \in Int
    BY <1>1, WordFacts
  <2>2. QED
    BY <1>1, <2>1, WordFacts
<1>3. \A x \in Int : /\ [l EXCEPT ![i].length = x] \in RegionLists(n)
                     /\ [l EXCEPT ![j].length = x] \in RegionLists(n)
  BY <1>1 DEF RegionLists, Region
<1>4. QED
  BY <1>2, <1>3 DEF CutPair

\* linked_list_sort is such a loop.
LEMMA SortedLoop ==
  ASSUME NEW n \in Nat, NEW a \in RegionLists(n)
  PROVE  IsLoop(Sorted(a), RegionLists(n), a, n,
                [i \in 1 .. n |-> [j \in 1 .. n |-> [l \in RegionLists(n) |-> Exchange(l, i, j)]]])
<1> DEFINE X == RegionLists(n)
           g == [i \in 1 .. n |-> [j \in 1 .. n |-> [l \in X |-> Exchange(l, i, j)]]]
           IsInner(f, l, i) == f = [j \in 0 .. n |-> IF j <= i THEN l ELSE Exchange(f[j - 1], i, j)]
           inner(l, i) == (CHOOSE f : IsInner(f, l, i))[n]
           IsOuter(f) == f = [i \in 0 .. n |-> IF i = 0 THEN a ELSE inner(f[i - 1], i)]
           outer == CHOOSE f : IsOuter(f)
<1>1. Len(a) = n
  BY DEF RegionLists
<1>2. Sorted(a) = outer[n]
  BY <1>1 DEF Sorted, ForPairs
<1>3. ASSUME NEW l \in X, NEW i \in 1 .. n
      PROVE  /\ inner(l, i) \in X
             /\ \E next \in [0 .. n -> X] :
                  /\ next[n] = inner(l, i)
                  /\ \A j \in 0 .. n : next[j] = IF j <= i THEN l ELSE g[i][j][next[j - 1]]
  <2> DEFINE h == [j \in 1 .. n |-> [x \in X |-> IF j <= i THEN l ELSE Exchange(x, i, j)]]
  <2>1. h \in [1 .. n -> [X -> X]]
    BY ExchangeType
  <2>2. /\ \E w : Steps(w, l, n, h)
        /\ \A w : Steps(w, l, n, h) => w \in [0 .. n -> X]
    <3> HIDE DEF X, h
    <3>1. QED
      BY <2>1, StepsExist
  <2>3. PICK w \in [0 .. n -> X] : Steps(w, l, n, h)
    BY <2>2
  <2>4. ASSUME NEW j \in 0 .. n PROVE w[j] = IF j <= i THEN l ELSE Exchange(w[j - 1], i, j)
    <3>1. w[j] = IF j = 0 THEN l ELSE h[j][w[j - 1]]
      BY <2>3 DEF Steps
    <3>2. j # 0 => j \in 1 .. n /\ w[j - 1] \in X
      OBVIOUS
    <3>3. QED
      BY <3>1, <3>2
  <2>5. IsInner(w, l, i)
    <3>1. w = [j \in 0 .. n |-> w[j]]
      OBVIOUS
    <3>2. QED
      BY <2>4, <3>1
  <2> DEFINE f == CHOOSE f : IsInner(f, l, i)
  <2>6. IsInner(f, l, i)
    BY <2>5
  <2> HIDE DEF f
  <2>7. f = [j \in 0 .. n |-> f[j]] /\ \A j \in 0 .. n : f[j] = IF j <= i THEN l ELSE Exchange(f[j - 1], i, j)
    BY <2>6
  <2> DEFINE T == {j \in 0 .. n : f[j] \in X}
  <2>8. 0 \in T
    <3>1. 0 \in 0 .. n /\ 0 <= i
      OBVIOUS
    <3>2. QED
      BY <3>1, <2>7
  <2>9. ASSUME NEW j \in 1 .. n, j - 1 \in T PROVE j \in T
    <3>1. j \in 0 .. n /\ f[j - 1] \in X
      BY <2>9
    <3>2. Exchange(f[j - 1], i, j) \in X
      BY <3>1, ExchangeType
    <3>3. QED
      BY <3>1, <3>2, <2>7
  <2>10. \A j \in 0 .. n : j \in T
    <3> HIDE DEF T
    <3>1. QED
      BY <2>8, <2>9, UpTo
  <2>11. f \in [0 .. n -> X]
    BY <2>7, <2>10
  <2>12. ASSUME NEW j \in 0 .. n PROVE f[j] = IF j <= i THEN l ELSE g[i][j][f[j - 1]]
    <3>1. CASE j <= i
      BY <3>1, <2>7
    <3>2. CASE ~(j <= i)
      <4>1. j \in 1 .. n /\ j - 1 \in 0 .. n
        BY <3>2
      <4>2. f[j - 1] \in X
        BY <4>1, <2>11
      <4>3. g[i][j][f[j - 1]] = Exchange(f[j - 1], i, j)
        BY <4>1, <4>2
      <4>4. QED
        BY <3>2, <4>3, <2>7
    <3>3. QED
      BY <3>1, <3>2
  <2>13. inner(l, i) = f[n]
    BY DEF f
  <2> HIDE DEF inner, g
  <2>14. QED
    BY <2>11, <2>12, <2>13
<1> HIDE DEF inner
<1> DEFINE k == [i \in 1 .. n |-> [l \in X |-> inner(l, i)]]
<1>4. k \in [1 .. n -> [X -> X]] /\ a \in X
  BY <1>3
<1>5. /\ \E w : Steps(w, a, n, k)
      /\ \A w : Steps(w, a, n, k) => w \in [0 .. n -> X]
  <2> HIDE DEF X, k
  <2>1. QED
    BY <1>4, StepsExist
<1>6. PICK w \in [0 .. n -> X] : Steps(w, a, n, k)
  BY <1>5
<1>7. ASSUME NEW i \in 0 .. n PROVE w[i] = IF i = 0 THEN a ELSE inner(w[i - 1], i)
  <2>1. w[i] = IF i = 0 THEN a ELSE k[i][w[i - 1]]
    BY <1>6 DEF Steps
  <2>2. i # 0 => i \in 1 .. n /\ w[i - 1] \in X
    OBVIOUS
  <2>3. QED
    BY <2>1, <2>2
<1>8. IsOuter(w)
  <2>1. w = [i \in 0 .. n |-> w[i]]
    OBVIOUS
  <2>2. QED
    BY <1>7, <2>1
<1>9. IsOuter(outer)
  BY <1>8
<1> HIDE DEF outer
<1>10. outer = [i \in 0 .. n |-> outer[i]] /\ \A i \in 0 .. n : outer[i] = IF i = 0 THEN a ELSE inner(outer[i - 1], i)
  BY <1>9
<1> DEFINE T == {i \in 0 .. n : outer[i] \in X}
<1>11. 0 \in T
  BY <1>4, <1>10
<1>12. ASSUME NEW i \in 1 .. n, i - 1 \in T PROVE i \in T
  <2>1. i \in 0 .. n /\ outer[i - 1] \in X
    BY <1>12
  <2>2. inner(outer[i - 1], i) \in X
    <3> HIDE DEF X
    <3>1. QED
      BY <2>1, <1>3
  <2>3. QED
    BY <2>1, <2>2, <1>10
<1>13. \A i \in 0 .. n : i \in T
  <2> HIDE DEF T
  <2>1. QED
    BY <1>11, <1>12, UpTo
<1>14. outer \in [0 .. n -> X]
  BY <1>10, <1>13
<1>15. ASSUME NEW i \in 1 .. n
      PROVE  \E next \in [0 .. n -> X] :
               /\ next[n] = outer[i]
               /\ \A j \in 0 .. n : next[j] = IF j <= i THEN outer[i - 1] ELSE g[i][j][next[j - 1]]
  <2>1. i \in 0 .. n /\ i - 1 \in 0 .. n /\ i # 0
    OBVIOUS
  <2>2. outer[i - 1] \in X /\ outer[i] = inner(outer[i - 1], i)
    BY <2>1, <1>10, <1>14
  <2> HIDE DEF X, g
  <2>3. \E next \in [0 .. n -> X] :
          /\ next[n] = inner(outer[i - 1], i)
          /\ \A j \in 0 .. n : next[j] = IF j <= i THEN outer[i - 1] ELSE g[i][j][next[j - 1]]
    BY <2>2, <1>3, Zenon
  <2>4. QED
    BY <2>2, <2>3, Zenon
<1> HIDE DEF g
<1>16. IsLoop(outer[n], X, a, n, g)
  <2> HIDE DEF X
  <2>1. outer[0] = a
    <3>1. 0 \in 0 .. n
      OBVIOUS
    <3>2. QED
      BY ONLY <1>10, <3>1
  <2>2. QED
    BY <1>14, <1>15, <2>1 DEF IsLoop
<1>17. QED
  BY <1>2, <1>16 DEF g

\* So is the clean-up of pmm_fetch_memory_regions.
LEMMA CleanedUpLoop ==
  ASSUME NEW n \in Nat, NEW a \in RegionLists(n)
  PROVE  IsLoop(CleanedUp(a), RegionLists(n), a, n,
                [i \in 1 .. n |-> [j \in 1 .. n |-> [l \in RegionLists(n) |-> CutPair(l, i, j)]]])
<1> DEFINE X == RegionLists(n)
           g == [i \in 1 .. n |-> [j \in 1 .. n |-> [l \in X |-> CutPair(l, i, j)]]]
           IsInner(f, l, i) == f = [j \in 0 .. n |-> IF j <= i THEN l ELSE CutPair(f[j - 1], i, j)]
           inner(l, i) == (CHOOSE f : IsInner(f, l, i))[n]
           IsOuter(f) == f = [i \in 0 .. n |-> IF i = 0 THEN a ELSE inner(f[i - 1], i)]
           outer == CHOOSE f : IsOuter(f)
<1>1. Len(a) = n
  BY DEF RegionLists
<1>2. CleanedUp(a) = outer[n]
  BY <1>1 DEF CleanedUp, ForPairs
<1>3. ASSUME NEW l \in X, NEW i \in 1 .. n
      PROVE  /\ inner(l, i) \in X
             /\ \E next \in [0 .. n -> X] :
                  /\ next[n] = inner(l, i)
                  /\ \A j \in 0 .. n : next[j] = IF j <= i THEN l ELSE g[i][j][next[j - 1]]
  <2> DEFINE h == [j \in 1 .. n |-> [x \in X |-> IF j <= i THEN l ELSE CutPair(x, i, j)]]
  <2>1. h \in [1 .. n -> [X -> X]]
    BY CutPairType
  <2>2. /\ \E w : Steps(w, l, n, h)
        /\ \A w : Steps(w, l, n, h) => w \in [0 .. n -> X]
    <3> HIDE DEF X, h
    <3>1. QED
      BY <2>1, StepsExist
  <2>3. PICK w \in [0 .. n -> X] : Steps(w, l, n, h)
    BY <2>2
  <2>4. ASSUME NEW j \in 0 .. n PROVE w[j] = IF j <= i THEN l ELSE CutPair(w[j - 1], i, j)
    <3>1. w[j] = IF j = 0 THEN l ELSE h[j][w[j - 1]]
      BY <2>3 DEF Steps
    <3>2. j # 0 => j \in 1 .. n /\ w[j - 1] \in X
      OBVIOUS
    <3>3. QED
      BY <3>1, <3>2
  <2>5. IsInner(w, l, i)
    <3>1. w = [j \in 0 .. n |-> w[j]]
      OBVIOUS
    <3>2. QED
      BY <2>4, <3>1
  <2> DEFINE f == CHOOSE f : IsInner(f, l, i)
  <2>6. IsInner(f, l, i)
    BY <2>5
  <2> HIDE DEF f
  <2>7. f = [j \in 0 .. n |-> f[j]] /\ \A j \in 0 .. n : f[j] = IF j <= i THEN l ELSE CutPair(f[j - 1], i, j)
    BY <2>6
  <2> DEFINE T == {j \in 0 .. n : f[j] \in X}
  <2>8. 0 \in T
    <3>1. 0 \in 0 .. n /\ 0 <= i
      OBVIOUS
    <3>2. QED
      BY <3>1, <2>7
  <2>9. ASSUME NEW j \in 1 .. n, j - 1 \in T PROVE j \in T
    <3>1. j \in 0 .. n /\ f[j - 1] \in X
      BY <2>9
    <3>2. CutPair(f[j - 1], i, j) \in X
      BY <3>1, CutPairType
    <3>3. QED
      BY <3>1, <3>2, <2>7
  <2>10. \A j \in 0 .. n : j \in T
    <3> HIDE DEF T
    <3>1. QED
      BY <2>8, <2>9, UpTo
  <2>11. f \in [0 .. n -> X]
    BY <2>7, <2>10
  <2>12. ASSUME NEW j \in 0 .. n PROVE f[j] = IF j <= i THEN l ELSE g[i][j][f[j - 1]]
    <3>1. CASE j <= i
      BY <3>1, <2>7
    <3>2. CASE ~(j <= i)
      <4>1. j \in 1 .. n /\ j - 1 \in 0 .. n
        BY <3>2
      <4>2. f[j - 1] \in X
        BY <4>1, <2>11
      <4>3. g[i][j][f[j - 1]] = CutPair(f[j - 1], i, j)
        BY <4>1, <4>2
      <4>4. QED
        BY <3>2, <4>3, <2>7
    <3>3. QED
      BY <3>1, <3>2
  <2>13. inner(l, i) = f[n]
    BY DEF f
  <2> HIDE DEF inner, g
  <2>14. QED
    BY <2>11, <2>12, <2>13
<1> HIDE DEF inner
<1> DEFINE k == [i \in 1 .. n |-> [l \in X |-> inner(l, i)]]
<1>4. k \in [1 .. n -> [X -> X]] /\ a \in X
  BY <1>3
<1>5. /\ \E w : Steps(w, a, n, k)
      /\ \A w : Steps(w, a, n, k) => w \in [0 .. n -> X]
  <2> HIDE DEF X, k
  <2>1. QED
    BY <1>4, StepsExist
<1>6. PICK w \in [0 .. n -> X] : Steps(w, a, n, k)
  BY <1>5
<1>7. ASSUME NEW i \in 0 .. n PROVE w[i] = IF i = 0 THEN a ELSE inner(w[i - 1], i)
  <2>1. w[i] = IF i = 0 THEN a ELSE k[i][w[i - 1]]
    BY <1>6 DEF Steps
  <2>2. i # 0 => i \in 1 .. n /\ w[i - 1] \in X
    OBVIOUS
  <2>3. QED
    BY <2>1, <2>2
<1>8. IsOuter(w)
  <2>1. w = [i \in 0 .. n |-> w[i]]
    OBVIOUS
  <2>2. QED
    BY <1>7, <2>1
<1>9. IsOuter(outer)
  BY <1>8
<1> HIDE DEF outer
<1>10. outer = [i \in 0 .. n |-> outer[i]] /\ \A i \in 0 .. n : outer[i] = IF i = 0 THEN a ELSE inner(outer[i - 1], i)
  BY <1>9
<1> DEFINE T == {i \in 0 .. n : outer[i] \in X}
<1>11. 0 \in T
  BY <1>4, <1>10
<1>12. ASSUME NEW i \in 1 .. n, i - 1 \in T PROVE i \in T
  <2>1. i \in 0 .. n /\ outer[i - 1] \in X
    BY <1>12
  <2>2. inner(outer[i - 1], i) \in X
    <3> HIDE DEF X
    <3>1. QED
      BY <2>1, <1>3
  <2>3. QED
    BY <2>1, <2>2, <1>10
<1>13. \A i \in 0 .. n : i \in T
  <2> HIDE DEF T
  <2>1. QED
    BY <1>11, <1>12, UpTo
<1>14. outer \in [0 .. n -> X]
  BY <1>10, <1>13
<1>15. ASSUME NEW i \in 1 .. n
      PROVE  \E next \in [0 .. n -> X] :
               /\ next[n] = outer[i]
               /\ \A j \in 0 .. n : next[j] = IF j <= i THEN outer[i - 1] ELSE g[i][j][next[j - 1]]
  <2>1. i \in 0 .. n /\ i - 1 \in 0 .. n /\ i # 0
    OBVIOUS
  <2>2. outer[i - 1] \in X /\ outer[i] = inner(outer[i - 1], i)
    BY <2>1, <1>10, <1>14
  <2> HIDE DEF X, g
  <2>3. \E next \in [0 .. n -> X] :
          /\ next[n] = inner(outer[i - 1], i)
          /\ \A j \in 0 .. n : next[j] = IF j <= i THEN outer[i - 1] ELSE g[i][j][next[j - 1]]
    BY <2>2, <1>3, Zenon
  <2>4. QED
    BY <2>2, <2>3, Zenon
<1> HIDE DEF g
<1>16. IsLoop(outer[n], X, a, n, g)
  <2> HIDE DEF X
  <2>1. outer[0] = a
    <3>1. 0 \in 0 .. n
      OBVIOUS
    <3>2. QED
      BY ONLY <1>10, <3>1
  <2>2. QED
    BY <1>14, <1>15, <2>1 DEF IsLoop
<1>17. QED
  BY <1>2, <1>16 DEF g
-----------------------------------------------------------------------------
(* The sort.                                                               *)

\* l holds the regions of a, each once.
Rearranged(l, a, n) ==
  \E p \in [1 .. n -> 1 .. n] :
    /\ \A x, y \in 1 .. n : p[x] = p[y] => x = y
    /\ \A y \in 1 .. n : \E x \in 1 .. n : p[x] = y
    /\ \A x \in 1 .. n : l[x] = a[p[x]]

\* What one step does to the list.
LEMMA ExchangeSteps ==
  ASSUME NEW n \in Nat, NEW l \in RegionLists(n), NEW i \in 1 .. n, NEW j \in i + 1 .. n,
         NEW m, m = Exchange(l, i, j)
  PROVE  /\ \/ m[i] = l[i] /\ m[j] = l[j]
            \/ m[i] = l[j] /\ m[j] = l[i]
         /\ \A k \in 1 .. n : k # i /\ k # j => m[k] = l[k]
         /\ m[i].base <= m[j].base /\ m[i].base <= l[i].base
<1>1. j \in 1 .. n /\ i # j
  OBVIOUS
<1>2. l[i] \in Region /\ l[j] \in Region
  BY <1>1 DEF RegionLists
<1>3. l[i].base \in Nat /\ l[j].base \in Nat
  BY <1>2 DEF Region
<1>4. CASE Behind(l[i], l[j])
  <2>1. m = [l EXCEPT ![i] = l[j], ![j] = l[i]]
    BY <1>4 DEF Exchange
  <2>2. m[i] = l[j] /\ m[j] = l[i] /\ \A k \in 1 .. n : k # i /\ k # j => m[k] = l[k]
    BY <1>1, <2>1 DEF RegionLists
  <2>3. l[j].base <= l[i].base
    BY <1>3, <1>4 DEF Behind
  <2>4. QED
    BY <1>3, <2>2, <2>3
<1>5. CASE ~Behind(l[i], l[j])
  <2>1. m = l
    BY <1>5 DEF Exchange
  <2>2. l[i].base <= l[j].base
    BY <1>3, <1>5 DEF Behind
  <2>3. QED
    BY <1>3, <2>1, <2>2
<1>6. QED
  BY <1>4, <1>5

\* A step loses no region and doubles none.
LEMMA ExchangeRearranges ==
  ASSUME NEW n \in Nat, NEW l \in RegionLists(n), NEW i \in 1 .. n, NEW j \in i + 1 .. n,
         NEW a, Rearranged(l, a, n)
  PROVE  Rearranged(Exchange(l, i, j), a, n)
<1> DEFINE m == Exchange(l, i, j)
<1>1. /\ \/ m[i] = l[i] /\ m[j] = l[j]
         \/ m[i] = l[j] /\ m[j] = l[i]
      /\ \A k \in 1 .. n : k # i /\ k # j => m[k] = l[k]
  BY ExchangeSteps
<1>2. j \in 1 .. n /\ i # j
  OBVIOUS
<1>3. PICK p \in [1 .. n -> 1 .. n] :
        /\ \A x, y \in 1 .. n : p[x] = p[y] => x = y
        /\ \A y \in 1 .. n : \E x \in 1 .. n : p[x] = y
        /\ \A x \in 1 .. n : l[x] = a[p[x]]
  BY DEF Rearranged
<1> HIDE DEF m
<1>4. CASE m[i] = l[i] /\ m[j] = l[j]
  <2>1. \A x \in 1 .. n : m[x] = a[p[x]]
    BY <1>1, <1>3, <1>4
  <2>2. Rearranged(m, a, n)
    BY <1>3, <2>1 DEF Rearranged
  <2>3. QED
    BY <2>2 DEF m
<1>5. CASE m[i] = l[j] /\ m[j] = l[i]
  <2> DEFINE q == [x \in 1 .. n |-> IF x = i THEN p[j] ELSE IF x = j THEN p[i] ELSE p[x]]
  <2>1. q \in [1 .. n -> 1 .. n]
    BY <1>2
  <2>2. \A x, y \in 1 .. n : q[x] = q[y] => x = y
    BY <1>2, <1>3
  <2>3. ASSUME NEW y \in 1 .. n PROVE \E x \in 1 .. n : q[x] = y
    <3>1. PICK x \in 1 .. n : p[x] = y
      BY <1>3
    <3>2. q[i] = p[j] /\ q[j] = p[i] /\ (x # i /\ x # j => q[x] = p[x])
      BY <1>2
    <3>3. QED
      BY <1>2, <3>1, <3>2
  <2>4. \A x \in 1 .. n : m[x] = a[q[x]]
    BY <1>1, <1>2, <1>3, <1>5
  <2> HIDE DEF q
  <2>5. Rearranged(m, a, n)
    BY <2>1, <2>2, <2>3, <2>4 DEF Rearranged
  <2>6. QED
    BY <2>5 DEF m
<1>6. QED
  BY <1>1, <1>4, <1>5

\* The regions up to i stand in order before all others.
InOrderUpTo(l, n, i) == \A x \in 1 .. i : \A y \in x + 1 .. n : l[x].base <= l[y].base

\* linked_list_sort on the regions of a memory map: the regions it was given, in the
\* order of their addresses.
LEMMA SortedSorts ==
  ASSUME NEW n \in Nat, NEW a \in RegionLists(n)
  PROVE  /\ Sorted(a) \in RegionLists(n)
         /\ Rearranged(Sorted(a), a, n)
         /\ InOrderUpTo(Sorted(a), n, n)
<1> DEFINE X == RegionLists(n)
           g == [i \in 1 .. n |-> [j \in 1 .. n |-> [l \in X |-> Exchange(l, i, j)]]]
           I == [i \in 0 .. n |-> {l \in X : Rearranged(l, a, n) /\ InOrderUpTo(l, n, i)}]
           J == [i \in 1 .. n |-> [j \in 0 .. n |->
                  {l \in I[i - 1] : \A y \in i + 1 .. j : l[i].base <= l[y].base}]]
<1>1. IsLoop(Sorted(a), X, a, n, g)
  BY SortedLoop
<1>2. a \in I[0]
  <2>1. Rearranged(a, a, n)
    <3> DEFINE p == [x \in 1 .. n |-> x]
    <3>1. /\ p \in [1 .. n -> 1 .. n]
          /\ \A x, y \in 1 .. n : p[x] = p[y] => x = y
          /\ \A y \in 1 .. n : \E x \in 1 .. n : p[x] = y
          /\ \A x \in 1 .. n : a[x] = a[p[x]]
      OBVIOUS
    <3> HIDE DEF p
    <3>2. QED
      BY <3>1 DEF Rearranged
  <2>2. InOrderUpTo(a, n, 0) /\ 0 \in 0 .. n
    BY DEF InOrderUpTo
  <2>3. QED
    BY <2>1, <2>2
<1>3. ASSUME NEW i \in 1 .. n PROVE I[i - 1] \subseteq J[i][i] /\ J[i][n] \subseteq I[i]
  <2>1. i - 1 \in 0 .. n /\ i \in 0 .. n /\ n \in 0 .. n
    OBVIOUS
  <2>2. I[i - 1] \subseteq J[i][i]
    BY <2>1
  <2>3. ASSUME NEW l \in J[i][n] PROVE l \in I[i]
    <3>1. l \in X /\ Rearranged(l, a, n) /\ InOrderUpTo(l, n, i - 1)
      BY <2>1
    <3>2. \A y \in i + 1 .. n : l[i].base <= l[y].base
      BY <2>1
    <3>3. InOrderUpTo(l, n, i)
      <4>1. ASSUME NEW x \in 1 .. i, NEW y \in x + 1 .. n PROVE l[x].base <= l[y].base
        <5>1. CASE x = i
          BY <5>1, <3>2
        <5>2. CASE x # i
          BY <5>2, <3>1 DEF InOrderUpTo
        <5>3. QED
          BY <5>1, <5>2
      <4>2. QED
        BY <4>1 DEF InOrderUpTo
    <3>4. QED
      BY <2>1, <3>1, <3>3
  <2> HIDE DEF I, J
  <2>4. QED
    BY <2>2, <2>3
<1>4. ASSUME NEW i \in 1 .. n, NEW j \in i + 1 .. n, NEW l \in X \cap J[i][j - 1]
      PROVE  g[i][j][l] \in J[i][j]
  <2> DEFINE m == Exchange(l, i, j)
  <2>1. /\ i - 1 \in 0 .. n /\ j \in 1 .. n /\ j \in 0 .. n /\ j - 1 \in 0 .. n /\ l \in X
        /\ g[i][j][l] = m
    OBVIOUS
  <2>2. /\ Rearranged(l, a, n) /\ InOrderUpTo(l, n, i - 1)
        /\ \A y \in i + 1 .. j - 1 : l[i].base <= l[y].base
    BY <2>1
  <2>3. m \in X /\ Rearranged(m, a, n)
    BY <2>1, <2>2, ExchangeType, ExchangeRearranges
  <2>4. /\ \/ m[i] = l[i] /\ m[j] = l[j]
           \/ m[i] = l[j] /\ m[j] = l[i]
        /\ \A k \in 1 .. n : k # i /\ k # j => m[k] = l[k]
        /\ m[i].base <= m[j].base /\ m[i].base <= l[i].base
    BY <2>1, ExchangeSteps
  <2> HIDE DEF m
  <2>5. \A k \in 1 .. n : l[k].base \in Nat /\ m[k].base \in Nat
    BY <2>1, <2>3 DEF RegionLists, Region
  <2>6. InOrderUpTo(m, n, i - 1)
    <3>1. ASSUME NEW x \in 1 .. i - 1, NEW y \in x + 1 .. n PROVE m[x].base <= m[y].base
      <4>1. x \in 1 .. n /\ y \in 1 .. n /\ x # i /\ x # j /\ i \in x + 1 .. n /\ j \in x + 1 .. n
        OBVIOUS
      <4>2. \A z \in x + 1 .. n : l[x].base <= l[z].base
        BY <2>2 DEF InOrderUpTo
      <4>3. m[x] = l[x] /\ m[y] \in {l[y], l[i], l[j]}
        BY <2>4, <4>1
      <4>4. QED
        BY <4>1, <4>2, <4>3
    <3>2. QED
      BY <3>1 DEF InOrderUpTo
  <2>7. ASSUME NEW y \in i + 1 .. j PROVE m[i].base <= m[y].base
    <3>1. CASE y = j
      BY <3>1, <2>4
    <3>2. CASE y # j
      <4>1. y \in i + 1 .. j - 1 /\ y \in 1 .. n /\ y # i
        BY <3>2
      <4>2. m[y] = l[y] /\ l[i].base <= l[y].base
        BY <4>1, <3>2, <2>2, <2>4
      <4>3. QED
        BY <4>1, <4>2, <2>4, <2>5
    <3>3. QED
      BY <3>1, <3>2
  <2>8. m \in J[i][j]
    BY <2>1, <2>3, <2>6, <2>7
  <2>9. QED
    BY <2>1, <2>8
<1>5. Sorted(a) \in I[n]
  <2> HIDE DEF X, g, I, J
  <2>1. \A i \in 1 .. n : I[i - 1] \subseteq J[i][i] /\ J[i][n] \subseteq I[i]
    BY <1>3
  <2>2. \A i \in 1 .. n : \A j \in i + 1 .. n : \A l \in X \cap J[i][j - 1] :
          g[i][j][l] \in J[i][j]
    BY <1>4
  <2>3. Keeps(X, n, g, I, J)
    BY <2>1, <2>2 DEF Keeps
  <2>4. n \in Nat
    OBVIOUS
  <2>5. QED
    BY ONLY <1>1, <1>2, <2>3, <2>4, LoopInvariant
<1>6. n \in 0 .. n
  OBVIOUS
<1>7. QED
  BY <1>5, <1>6
-----------------------------------------------------------------------------
(* The clean-up of a sorted list.                                          *)

EndOf(k, x) == k[x].base + k[x].length

Meets(k, x, y) == k[x].base < EndOf(k, y) /\ k[y].base < EndOf(k, x)

\* An available region and one that is not.
Disputed(k, x, y) == IsAvailable(k[x]) # IsAvailable(k[y]) /\ Meets(k, x, y)

\* What Tame says of a map, of the sorted list.
TameList(k, n) ==
  /\ k \in RegionLists(n)
  /\ \A x \in 1 .. n :
       /\ k[x].length > 0 /\ EndOf(k, x) <= Word /\ k[x].type >= Available
       /\ k[x].base % FrameSize = 0 \/ AddressToIndex(k[x].base) \in BootFrames
  /\ \A x, y \in 1 .. n :
       Disputed(k, x, y) => EndOf(k, x) < Word /\ (IsAvailable(k[x]) \/ k[x].base > 0)
  /\ \A x, y, z \in 1 .. n :
       Disputed(k, x, y) /\ ~IsAvailable(k[x]) /\ ~IsAvailable(k[z]) /\ z # x => ~Meets(k, x, z)
  /\ \A x, y \in 1 .. n :
       x # y /\ IsAvailable(k[x]) /\ IsAvailable(k[y]) /\ Meets(k, x, y) => k[x].base > 0
  /\ \A x, y \in 1 .. n : x < y => k[x].base <= k[y].base

\* In l, the region x ends at e: a part of it is left, or its length has wrapped around.
EndsAt(l, k, x, e) ==
  l[x].length = IF k[x].base < e THEN e - k[x].base ELSE Wrap(Word + e - k[x].base)

\* Where the code takes it to end.
LastEnd(l, x) == Wrap(l[x].base + l[x].length)

\* l is k with some regions cut: none grows, the available ones end behind address 0,
\* and of the others those that overlap an available one are as they were.
CutFrom(l, k, n) ==
  \A x \in 1 .. n :
    /\ l[x].base = k[x].base /\ l[x].type = k[x].type
    /\ \E e \in 0 .. EndOf(k, x) : (IsAvailable(k[x]) => e > 0) /\ EndsAt(l, k, x, e)
    /\ ~IsAvailable(k[x]) /\ (\E y \in 1 .. n : Disputed(k, x, y)) => l[x].length = k[x].length

\* x, which is available, has lost to y what y has of it.
Settled(l, k, x, y) ==
  IsAvailable(k[x]) /\ ~IsAvailable(k[y]) /\ Meets(k, x, y)
  => LastEnd(l, x) <= IF x < y THEN k[y].base ELSE k[x].base

\* Arithmetic modulo the address space.
LEMMA WrapSmall == ASSUME NEW a \in Nat, a < Word PROVE Wrap(a) = a /\ Wrap(Word + a) = a
<1> DEFINE w == Word
<1>1. w \in Nat /\ w > 0
  BY WordFacts
<1> HIDE DEF w
<1>2. a < w => a % w = a /\ (w + a) % w = a
  BY <1>1
<1>3. QED
  BY <1>2 DEF w, Wrap

\* A length that has wrapped around leads back to where the other region begins.
LEMMA WrapBack ==
  ASSUME NEW a \in Nat, NEW b \in Nat, b <= a, a < Word
  PROVE  /\ Wrap(Word + b - a) \in Nat
         /\ Wrap(a + Wrap(Word + b - a)) = b
         /\ b > 0 => Wrap(Word + a + Wrap(Word + b - a) - 1) = b - 1
<1>1. Word \in Nat /\ Word > 0
  BY WordFacts
<1>2. CASE a = b
  <2>1. Wrap(Word + b - a) = 0
    <3>1. Word + b - a = Word + 0 /\ 0 < Word
      BY <1>1, <1>2
    <3>2. QED
      BY <3>1, WrapSmall
  <2>2. Wrap(a + 0) = b
    <3>1. a + 0 = b
      BY <1>2
    <3>2. QED
      BY <3>1, <1>2, WrapSmall
  <2>3. b > 0 => Wrap(Word + a + 0 - 1) = b - 1
    <3>1. b > 0 => Word + a + 0 - 1 = Word + (b - 1) /\ b - 1 \in Nat /\ b - 1 < Word
      BY <1>1, <1>2
    <3>2. QED
      BY <3>1, WrapSmall
  <2>4. QED
    BY <2>1, <2>2, <2>3
<1>3. CASE b < a
  <2>1. Wrap(Word + b - a) = Word + b - a
    <3>1. Word + b - a \in Nat /\ Word + b - a < Word
      BY <1>1, <1>3
    <3>2. QED
      BY <3>1, WrapSmall
  <2>2. Wrap(a + (Word + b - a)) = b
    <3>1. a + (Word + b - a) = Word + b /\ b < Word
      BY <1>1
    <3>2. QED
      BY <3>1, WrapSmall
  <2>3. b > 0 => Wrap(Word + a + (Word + b - a) - 1) = b - 1
    <3>1. ASSUME b > 0 PROVE Wrap(Word + a + (Word + b - a) - 1) = b - 1
      <4> DEFINE w == Word
                 c == b - 1
      <4>1. w \in Nat /\ c \in Nat /\ c < w
        BY <1>1, <3>1
      <4>2. Word + a + (Word + b - a) - 1 = w + w + c
        BY <1>1
      <4> HIDE DEF w, c
      <4>3. (w + w + c) % w = c
        BY <4>1
      <4>4. QED
        BY <4>2, <4>3 DEF w, c, Wrap
    <3>2. QED
      BY <3>1
  <2>4. QED
    BY <1>1, <2>1, <2>2, <2>3
<1>4. QED
  BY <1>2, <1>3

\* A region that ends at e.
LEMMA EndsThere ==
  ASSUME NEW k, NEW l, NEW x, NEW e \in Nat, k[x].base \in Nat, k[x].base < Word, e <= Word,
         l[x].base = k[x].base, EndsAt(l, k, x, e)
  PROVE  /\ l[x].length \in Nat
         /\ e < Word => LastEnd(l, x) = e
         /\ e = Word => LastEnd(l, x) = 0
         /\ e > 0 => Wrap(Word + l[x].base + l[x].length - 1) = e - 1
<1> DEFINE b == k[x].base
           d == l[x].length
<1>1. Word \in Nat /\ Word > 0
  BY WordFacts
<1>2. CASE b < e
  <2>1. d = e - b
    BY <1>2 DEF EndsAt
  <2> HIDE DEF d, b
  <2>2. b \in Nat
    BY DEF b
  <2>3. d \in Nat /\ b + d = e /\ Word + b + d - 1 = Word + (e - 1) /\ e - 1 \in Nat /\ e - 1 < Word
    BY <1>1, <1>2, <2>1, <2>2
  <2>4. Wrap(Word + b + d - 1) = e - 1
    BY <2>3, WrapSmall
  <2>5. e < Word => Wrap(b + d) = e
    BY <2>3, WrapSmall
  <2>6. e = Word => Wrap(b + d) = 0
    <3>1. Word = Word + 0 /\ 0 < Word
      BY <1>1
    <3>2. Wrap(Word + 0) = 0
      BY <3>1, WrapSmall
    <3>3. QED
      BY <2>3, <3>1, <3>2
  <2>7. QED
    BY <2>3, <2>4, <2>5, <2>6 DEF b, d, LastEnd
<1>3. CASE ~(b < e)
  <2>1. d = Wrap(Word + e - b) /\ e <= b
    BY <1>3 DEF EndsAt
  <2>2. d \in Nat /\ Wrap(b + d) = e /\ (e > 0 => Wrap(Word + b + d - 1) = e - 1)
    BY <2>1, WrapBack
  <2>3. e < Word
    BY <1>1, <2>1
  <2>4. QED
    BY <2>2, <2>3 DEF LastEnd
<1>4. QED
  BY <1>2, <1>3

\* What the parts of a tame list are.
LEMMA TameParts ==
  ASSUME NEW n \in Nat, NEW k, TameList(k, n), NEW x \in 1 .. n
  PROVE  /\ k[x] \in Region /\ k[x].base \in Nat /\ k[x].length \in Nat /\ k[x].type \in Nat
         /\ k[x].length > 0 /\ k[x].type >= 1
         /\ EndOf(k, x) \in Nat /\ EndOf(k, x) <= Word /\ k[x].base < EndOf(k, x) /\ k[x].base < Word
<1>1. k[x] \in Region
  BY DEF TameList, RegionLists
<1>2. k[x].base \in Nat /\ k[x].length \in Int /\ k[x].type \in Nat
  BY <1>1 DEF Region
<1>3. k[x].length > 0 /\ EndOf(k, x) <= Word /\ k[x].type >= 1
  BY DEF TameList, Available
<1> DEFINE b == k[x].base
           d == k[x].length
<1>4. EndOf(k, x) = b + d
  BY DEF EndOf
<1> HIDE DEF b, d
<1>5. b \in Nat /\ d \in Int /\ d > 0
  BY <1>2, <1>3 DEF b, d
<1>6. d \in Nat /\ b + d \in Nat /\ b < b + d
  BY <1>5
<1>7. Word \in Nat
  BY WordFacts
<1>8. b < Word
  BY <1>3, <1>4, <1>5, <1>6, <1>7
<1>9. QED
  BY <1>1, <1>2, <1>3, <1>4, <1>6, <1>8 DEF b, d

\* What one step of the clean-up does to the list.
LEMMA CutPairCuts ==
  ASSUME NEW n \in Nat, NEW k, TameList(k, n), NEW l \in RegionLists(n), CutFrom(l, k, n),
         NEW i \in 1 .. n, NEW j \in i + 1 .. n, NEW m, m = CutPair(l, i, j)
  PROVE  /\ CutFrom(m, k, n)
         /\ \A x \in 1 .. n : LastEnd(m, x) <= LastEnd(l, x) \/ LastEnd(m, x) <= k[x].base
         /\ Settled(m, k, i, j) /\ Settled(m, k, j, i)
<1> DEFINE bi == k[i].base
           bj == k[j].base
           end == LastEnd(l, i)
<1>1. j \in 1 .. n /\ i < j /\ j # i
  OBVIOUS
<1>2. /\ bi \in Nat /\ bj \in Nat /\ bi < Word /\ bj < Word
      /\ EndOf(k, i) \in Nat /\ EndOf(k, j) \in Nat /\ bi < EndOf(k, i) /\ bj < EndOf(k, j)
      /\ EndOf(k, i) <= Word /\ EndOf(k, j) <= Word
      /\ k[i].type \in Nat /\ k[j].type \in Nat /\ k[i].type >= 1 /\ k[j].type >= 1
      /\ k[i].length \in Nat /\ k[j].length \in Nat
  BY <1>1, TameParts
<1>3. bi <= bj
  BY <1>1 DEF TameList
<1>4. /\ l[i].base = bi /\ l[j].base = bj /\ l[i].type = k[i].type /\ l[j].type = k[j].type
  BY <1>1 DEF CutFrom
<1>5. Word \in Nat
  BY WordFacts
<1>6. m \in RegionLists(n)
  BY <1>1, CutPairType
<1>7. \A x \in 1 .. n : l[x] \in Region /\ LastEnd(l, x) \in Nat
  <2>1. TAKE x \in 1 .. n
  <2>2. l[x] \in Region
    BY DEF RegionLists
  <2>3. l[x].base + l[x].length \in Int
    BY <2>2 DEF Region
  <2>4. QED
    BY <2>2, <2>3, WordFacts DEF LastEnd
<1>8. IsAvailable(k[i]) <=> k[i].type = 1
  BY DEF IsAvailable, Available
<1>9. IsAvailable(k[j]) <=> k[j].type = 1
  BY DEF IsAvailable, Available
<1> HIDE DEF bi, bj, end
<1>10. CASE end <= bj
  <2>1. m = l
    BY <1>4, <1>10 DEF CutPair, LastEnd, end
  <2>2. Settled(l, k, i, j)
    BY <1>1, <1>10 DEF Settled, end, bj
  <2>3. Settled(l, k, j, i)
    <3>1. SUFFICES ASSUME IsAvailable(k[j]), ~IsAvailable(k[i]), Meets(k, j, i) PROVE FALSE
      BY DEF Settled
    <3>2. Disputed(k, i, j)
      BY <3>1 DEF Disputed, Meets
    <3>3. l[i].length = k[i].length
      BY <1>1, <3>1, <3>2 DEF CutFrom
    <3>4. l[i].base + l[i].length = EndOf(k, i)
      BY <1>4, <3>3 DEF EndOf, bi
    <3>5. EndOf(k, i) < Word
      BY <1>1, <3>2 DEF TameList
    <3>6. end = EndOf(k, i)
      BY <1>2, <3>4, <3>5, WrapSmall DEF end, LastEnd
    <3>7. bj < EndOf(k, i)
      BY <3>1 DEF Meets, bj
    <3>8. QED
      BY <1>2, <1>10, <3>6, <3>7
  <2>4. QED
    BY <1>7, <2>1, <2>2, <2>3
<1>11. CASE bj < end
  <2>1. PICK e \in 0 .. EndOf(k, i) : EndsAt(l, k, i, e)
    BY DEF CutFrom
  <2>2. e \in Nat /\ e <= Word
    BY <1>2, <1>5, <2>1
  <2>3. (e < Word => end = e) /\ (e = Word => end = 0)
    BY <1>2, <1>4, <2>1, <2>2, EndsThere DEF bi, end
  <2>4. end = e
    BY <1>2, <1>5, <1>11, <2>2, <2>3
  <2>5. bj < EndOf(k, i) /\ bi < EndOf(k, j)
    BY <1>2, <1>3, <1>11, <2>1, <2>4
  <2>6. Meets(k, i, j) /\ Meets(k, j, i)
    BY <2>5 DEF Meets, bi, bj
  <2>7. ~(Wrap(l[i].base + l[i].length) <= l[j].base)
    <3>1. Wrap(l[i].base + l[i].length) = e /\ l[j].base = bj
      BY <1>4, <2>4 DEF end, LastEnd
    <3>2. QED
      BY <1>2, <1>11, <2>2, <2>4, <3>1
\* The region i is cut.
  <2>8. CASE k[i].type < k[j].type
    <3>1. m = [l EXCEPT ![i].length = bj - bi]
      BY <1>1, <1>4, <2>7, <2>8 DEF CutPair
    <3>2. /\ \A x \in 1 .. n : x # i => m[x] = l[x]
          /\ m[i].base = bi /\ m[i].type = k[i].type /\ m[i].length = bj - bi
      BY <1>4, <1>7, <3>1 DEF RegionLists, Region
    <3>3. ~IsAvailable(k[j])
      BY <1>2, <1>9, <2>8
    <3>4. EndsAt(m, k, i, bj)
      <4>1. CASE bi < bj
        BY <3>2, <4>1 DEF EndsAt, bi
      <4>2. CASE ~(bi < bj)
        <5>1. bj - bi = 0 /\ Word + bj - bi = Word + 0 /\ 0 < Word
          BY <1>2, <1>3, <1>5, <4>2
        <5>2. Wrap(Word + bj - bi) = 0
          BY <5>1, WrapSmall
        <5>3. QED
          BY <3>2, <4>2, <5>1, <5>2 DEF EndsAt, bi
      <4>3. QED
        BY <4>1, <4>2
    <3>5. LastEnd(m, i) = bj
      BY <1>2, <1>5, <3>2, <3>4, EndsThere DEF bi
    <3>6. IsAvailable(k[i]) => bj > 0
      <4>1. SUFFICES ASSUME IsAvailable(k[i]) PROVE bj > 0
        OBVIOUS
      <4>2. Disputed(k, j, i)
        BY <2>6, <3>3, <4>1 DEF Disputed
      <4>3. QED
        BY <1>1, <3>3, <4>2 DEF TameList, bj
    <3>7. ~(~IsAvailable(k[i]) /\ \E y \in 1 .. n : Disputed(k, i, y))
      BY <1>1, <2>6, <3>3 DEF TameList
    <3>8. bj \in 0 .. EndOf(k, i)
      BY <1>2, <2>5
    <3>9. CutFrom(m, k, n)
      <4>1. ASSUME NEW x \in 1 .. n, x # i
            PROVE  /\ m[x].base = k[x].base /\ m[x].type = k[x].type
                   /\ \E d \in 0 .. EndOf(k, x) : (IsAvailable(k[x]) => d > 0) /\ EndsAt(m, k, x, d)
                   /\ ~IsAvailable(k[x]) /\ (\E y \in 1 .. n : Disputed(k, x, y))
                      => m[x].length = k[x].length
        BY <3>2, <4>1 DEF CutFrom, EndsAt
      <4>2. /\ m[i].base = k[i].base /\ m[i].type = k[i].type
            /\ \E d \in 0 .. EndOf(k, i) : (IsAvailable(k[i]) => d > 0) /\ EndsAt(m, k, i, d)
        BY <3>2, <3>4, <3>6, <3>8 DEF bi
      <4>3. QED
        BY <3>7, <4>1, <4>2 DEF CutFrom
    <3>10. ASSUME NEW x \in 1 .. n PROVE LastEnd(m, x) <= LastEnd(l, x)
      <4>1. CASE x = i
        BY <1>2, <1>11, <2>2, <2>4, <3>5, <4>1 DEF end
      <4>2. CASE x # i
        BY <1>7, <3>2, <4>2 DEF LastEnd
      <4>3. QED
        BY <4>1, <4>2
    <3>11. Settled(m, k, i, j) /\ Settled(m, k, j, i)
      BY <1>1, <1>2, <3>3, <3>5 DEF Settled, bj
    <3>12. QED
      BY <3>9, <3>10, <3>11
\* The region j is cut.
  <2>9. CASE ~(k[i].type < k[j].type)
    <3>1. m = [l EXCEPT ![j].length = Wrap(Word + bi - bj)]
      BY <1>1, <1>4, <2>7, <2>9 DEF CutPair
    <3>2. /\ \A x \in 1 .. n : x # j => m[x] = l[x]
          /\ m[j].base = bj /\ m[j].type = k[j].type /\ m[j].length = Wrap(Word + bi - bj)
      BY <1>1, <1>4, <1>7, <3>1 DEF RegionLists, Region
    <3>3. ~IsAvailable(k[j]) => ~IsAvailable(k[i])
      BY <1>2, <1>8, <1>9, <2>9
    <3>4. EndsAt(m, k, j, bi)
      BY <1>2, <1>3, <3>2 DEF EndsAt, bj
    <3>5. LastEnd(m, j) = bi
      BY <1>1, <1>2, <1>5, <3>2, <3>4, EndsThere DEF bj
    <3>6. IsAvailable(k[j]) => bi > 0
      <4>1. SUFFICES ASSUME IsAvailable(k[j]) PROVE bi > 0
        OBVIOUS
      <4>2. CASE IsAvailable(k[i])
        BY <1>1, <2>6, <4>1, <4>2 DEF TameList, bi
      <4>3. CASE ~IsAvailable(k[i])
        <5>1. Disputed(k, i, j)
          BY <2>6, <4>1, <4>3 DEF Disputed
        <5>2. QED
          BY <1>1, <4>3, <5>1 DEF TameList, bi
      <4>4. QED
        BY <4>2, <4>3
    <3>7. ~(~IsAvailable(k[j]) /\ \E y \in 1 .. n : Disputed(k, j, y))
      BY <1>1, <2>6, <3>3 DEF TameList
    <3>8. bi \in 0 .. EndOf(k, j)
      BY <1>2, <2>5
    <3>9. CutFrom(m, k, n)
      <4>1. ASSUME NEW x \in 1 .. n, x # j
            PROVE  /\ m[x].base = k[x].base /\ m[x].type = k[x].type
                   /\ \E d \in 0 .. EndOf(k, x) : (IsAvailable(k[x]) => d > 0) /\ EndsAt(m, k, x, d)
                   /\ ~IsAvailable(k[x]) /\ (\E y \in 1 .. n : Disputed(k, x, y))
                      => m[x].length = k[x].length
        BY <3>2, <4>1 DEF CutFrom, EndsAt
      <4>2. /\ m[j].base = k[j].base /\ m[j].type = k[j].type
            /\ \E d \in 0 .. EndOf(k, j) : (IsAvailable(k[j]) => d > 0) /\ EndsAt(m, k, j, d)
        BY <3>2, <3>4, <3>6, <3>8 DEF bj
      <4>3. QED
        BY <1>1, <3>7, <4>1, <4>2 DEF CutFrom
    <3>10. ASSUME NEW x \in 1 .. n PROVE LastEnd(m, x) <= LastEnd(l, x) \/ LastEnd(m, x) <= k[x].base
      <4>1. CASE x = j
        BY <1>3, <3>5, <4>1 DEF bj
      <4>2. CASE x # j
        BY <1>7, <3>2, <4>2 DEF LastEnd
      <4>3. QED
        BY <4>1, <4>2
    <3>11. Settled(m, k, i, j) /\ Settled(m, k, j, i)
      <4>1. Settled(m, k, i, j)
        BY <3>3 DEF Settled
      <4>2. Settled(m, k, j, i)
        BY <1>1, <1>3, <3>5 DEF Settled, bj
      <4>3. QED
        BY <4>1, <4>2
    <3>12. QED
      BY <3>9, <3>10, <3>11
  <2>10. QED
    BY <2>8, <2>9
<1>12. end \in Nat
  BY <1>7 DEF end
<1>13. QED
  BY <1>2, <1>10, <1>11, <1>12

\* A pair stays settled while others are looked at.
LEMMA CutPairKeeps ==
  ASSUME NEW n \in Nat, NEW k, TameList(k, n), NEW l \in RegionLists(n), CutFrom(l, k, n),
         NEW i \in 1 .. n, NEW j \in i + 1 .. n, NEW m, m = CutPair(l, i, j)
  PROVE  \A x, y \in 1 .. n : Settled(l, k, x, y) => Settled(m, k, x, y)
<1>1. TAKE x, y \in 1 .. n
<1>2. LastEnd(m, x) <= LastEnd(l, x) \/ LastEnd(m, x) <= k[x].base
  BY CutPairCuts
<1>3. SUFFICES ASSUME LastEnd(l, x) <= IF x < y THEN k[y].base ELSE k[x].base
               PROVE  LastEnd(m, x) <= IF x < y THEN k[y].base ELSE k[x].base
  BY DEF Settled
<1>4. LastEnd(l, x) \in Int /\ LastEnd(m, x) \in Int
  <2>1. ASSUME NEW q \in RegionLists(n) PROVE LastEnd(q, x) \in Int
    <3>1. q[x] \in Region
      BY DEF RegionLists
    <3>2. q[x].base + q[x].length \in Int
      BY <3>1 DEF Region
    <3>3. QED
      BY <3>2, WordFacts DEF LastEnd
  <2>2. j \in 1 .. n
    OBVIOUS
  <2>3. m \in RegionLists(n)
    BY <2>2, CutPairType
  <2>4. QED
    BY <2>1, <2>3
<1>5. k[x].base \in Nat /\ k[y].base \in Nat
  BY TameParts
<1>6. x < y => k[x].base <= k[y].base
  BY DEF TameList
<1>7. QED
  BY <1>2, <1>3, <1>4, <1>5, <1>6

BothSettled(l, k, x, y) == Settled(l, k, x, y) /\ Settled(l, k, y, x)

\* Before the clean-up nothing is cut.
LEMMA CutFromItself ==
  ASSUME NEW n \in Nat, NEW k, TameList(k, n)
  PROVE  CutFrom(k, k, n)
<1>1. ASSUME NEW x \in 1 .. n
      PROVE  EndOf(k, x) \in 0 .. EndOf(k, x) /\ EndOf(k, x) > 0 /\ EndsAt(k, k, x, EndOf(k, x))
  <2>1. /\ EndOf(k, x) \in Nat /\ k[x].base < EndOf(k, x)
        /\ k[x].base \in Nat /\ k[x].length \in Nat
    BY TameParts
  <2>2. k[x].length = EndOf(k, x) - k[x].base
    BY <2>1 DEF EndOf
  <2>3. QED
    BY <2>1, <2>2 DEF EndsAt
<1>2. QED
  BY <1>1 DEF CutFrom

\* The clean-up looks at every pair.
LEMMA CleanedUpSettles ==
  ASSUME NEW n \in Nat, NEW k, TameList(k, n)
  PROVE  /\ CleanedUp(k) \in RegionLists(n)
         /\ CutFrom(CleanedUp(k), k, n)
         /\ \A x \in 1 .. n : \A y \in x + 1 .. n : BothSettled(CleanedUp(k), k, x, y)
<1> DEFINE X == RegionLists(n)
           g == [i \in 1 .. n |-> [j \in 1 .. n |-> [l \in X |-> CutPair(l, i, j)]]]
           I == [i \in 0 .. n |->
                  {l \in X : /\ CutFrom(l, k, n)
                             /\ \A x \in 1 .. i : \A y \in x + 1 .. n : BothSettled(l, k, x, y)}]
           J == [i \in 1 .. n |-> [j \in 0 .. n |->
                  {l \in I[i - 1] : \A y \in i + 1 .. j : BothSettled(l, k, i, y)}]]
<1>1. k \in X /\ IsLoop(CleanedUp(k), X, k, n, g)
  BY CleanedUpLoop DEF TameList
<1>2. k \in I[0]
  BY <1>1, CutFromItself
<1>3. ASSUME NEW i \in 1 .. n PROVE I[i - 1] \subseteq J[i][i] /\ J[i][n] \subseteq I[i]
  <2>1. i - 1 \in 0 .. n /\ i \in 0 .. n /\ n \in 0 .. n
    OBVIOUS
  <2>2. I[i - 1] \subseteq J[i][i]
    BY <2>1
  <2>3. ASSUME NEW l \in J[i][n] PROVE l \in I[i]
    <3>1. /\ l \in X /\ CutFrom(l, k, n)
          /\ \A x \in 1 .. i - 1 : \A y \in x + 1 .. n : BothSettled(l, k, x, y)
          /\ \A y \in i + 1 .. n : BothSettled(l, k, i, y)
      BY <2>1
    <3>2. \A x \in 1 .. i : x = i \/ x \in 1 .. i - 1
      OBVIOUS
    <3>3. \A x \in 1 .. i : \A y \in x + 1 .. n : BothSettled(l, k, x, y)
      BY <3>1, <3>2
    <3>4. QED
      BY <2>1, <3>1, <3>3
  <2> HIDE DEF I, J
  <2>4. QED
    BY <2>2, <2>3
<1>4. ASSUME NEW i \in 1 .. n, NEW j \in i + 1 .. n, NEW l \in X \cap J[i][j - 1]
      PROVE  g[i][j][l] \in J[i][j]
  <2> DEFINE m == CutPair(l, i, j)
  <2>1. /\ i - 1 \in 0 .. n /\ j \in 1 .. n /\ j \in 0 .. n /\ j - 1 \in 0 .. n /\ l \in X
        /\ g[i][j][l] = m
    OBVIOUS
  <2>2. /\ CutFrom(l, k, n)
        /\ \A x \in 1 .. i - 1 : \A y \in x + 1 .. n : BothSettled(l, k, x, y)
        /\ \A y \in i + 1 .. j - 1 : BothSettled(l, k, i, y)
    BY <2>1
  <2>3. m \in X
    BY <2>1, CutPairType
  <2>4. /\ CutFrom(m, k, n)
        /\ \A x, y \in 1 .. n : BothSettled(l, k, x, y) => BothSettled(m, k, x, y)
    BY <2>1, <2>2, CutPairCuts, CutPairKeeps DEF BothSettled
  <2>5. BothSettled(m, k, i, j)
    BY <2>1, <2>2, CutPairCuts DEF BothSettled
  <2> HIDE DEF m
  <2>6. \A x \in 1 .. i - 1 : \A y \in x + 1 .. n : BothSettled(m, k, x, y)
    <3>1. \A x \in 1 .. i - 1 : x \in 1 .. n /\ \A y \in x + 1 .. n : y \in 1 .. n
      OBVIOUS
    <3>2. QED
      BY <3>1, <2>2, <2>4
  <2>7. \A y \in i + 1 .. j : BothSettled(m, k, i, y)
    <3>1. \A y \in i + 1 .. j : y \in 1 .. n /\ (y = j \/ y \in i + 1 .. j - 1)
      OBVIOUS
    <3>2. QED
      BY <3>1, <2>2, <2>4, <2>5
  <2>8. m \in J[i][j]
    BY <2>1, <2>3, <2>4, <2>6, <2>7
  <2>9. QED
    BY <2>1, <2>8
<1>5. CleanedUp(k) \in I[n]
  <2> HIDE DEF X, g, I, J
  <2>1. \A i \in 1 .. n : I[i - 1] \subseteq J[i][i] /\ J[i][n] \subseteq I[i]
    BY <1>3
  <2>2. \A i \in 1 .. n : \A j \in i + 1 .. n : \A l \in X \cap J[i][j - 1] :
          g[i][j][l] \in J[i][j]
    BY <1>4
  <2>3. Keeps(X, n, g, I, J)
    BY <2>1, <2>2 DEF Keeps
  <2>4. n \in Nat
    OBVIOUS
  <2>5. QED
    BY ONLY <1>1, <1>2, <2>3, <2>4, LoopInvariant
<1>6. n \in 0 .. n
  OBVIOUS
<1>7. QED
  BY <1>5, <1>6

-----------------------------------------------------------------------------
(* The frames of the available regions.                                    *)

\* The frame of an address.
LEMMA FrameDivision ==
  ASSUME NEW a \in Nat, NEW f \in Nat
  PROVE  /\ FrameSize \in Nat /\ f * FrameSize \in Nat /\ (f + 1) * FrameSize \in Nat
         /\ AddressToIndex(a) \in Nat
         /\ AddressToIndex(a) <= f => a < (f + 1) * FrameSize
         /\ f <= AddressToIndex(a) => f * FrameSize <= a
         /\ f * FrameSize < a /\ a < (f + 1) * FrameSize => AddressToIndex(a) = f /\ a % FrameSize # 0
<1> DEFINE s == FrameSize
<1>1. s \in Nat /\ s > 0
  BY MemoryMapAssumption
<1> HIDE DEF s
<1> DEFINE q == a \div s
<1>2. q \in Nat /\ q * s <= a /\ a < q * s + s /\ a % s = a - s * q
  BY <1>1, Z3
<1> HIDE DEF q
<1>3. f * s \in Nat /\ q * s \in Nat /\ (f + 1) * s = f * s + s /\ s * q = q * s
  BY <1>1, <1>2
<1>4. q <= f => q * s <= f * s
  <2>1. q <= f => (f - q) * s >= 0 /\ (f - q) * s = f * s - q * s
    BY <1>1, <1>2
  <2>2. QED
    BY <1>3, <2>1
<1>5. f <= q => f * s <= q * s
  <2>1. f <= q => (q - f) * s >= 0 /\ (q - f) * s = q * s - f * s
    BY <1>1, <1>2
  <2>2. QED
    BY <1>3, <2>1
<1>6. q < f => q * s + s <= f * s
  <2>1. q < f => (f - q - 1) * s >= 0 /\ (f - q - 1) * s = f * s - q * s - s
    BY <1>1, <1>2
  <2>2. QED
    BY <1>1, <1>3, <2>1
<1>7. f < q => f * s + s <= q * s
  <2>1. f < q => (q - f - 1) * s >= 0 /\ (q - f - 1) * s = q * s - f * s - s
    BY <1>1, <1>2
  <2>2. QED
    BY <1>1, <1>3, <2>1
<1>8. f * s < a /\ a < f * s + s => q = f
  BY <1>1, <1>2, <1>3, <1>6, <1>7
<1>9. f * s < a /\ a < f * s + s => a % s # 0
  <2>1. SUFFICES ASSUME f * s < a, a < f * s + s, a % s = 0 PROVE FALSE
    OBVIOUS
  <2>2. q = f
    BY <1>8, <2>1
  <2>3. a - q * s = 0
    BY <1>2, <1>3, <2>1
  <2>4. QED
    BY <1>3, <2>1, <2>2, <2>3
<1>10. QED
  BY <1>1, <1>2, <1>3, <1>4, <1>5, <1>8, <1>9 DEF s, q, AddressToIndex

\* A frame that an available region, cut or not, shares with another one is a boot frame.
LEMMA AvailableApart ==
  ASSUME NEW n \in Nat, NEW k, TameList(k, n),
         NEW a \in 1 .. n, IsAvailable(k[a]), NEW b \in 1 .. n, ~IsAvailable(k[b]),
         NEW f \in Nat, f \in FramesOf(CleanedUp(k)[a]),
         f * FrameSize < EndOf(k, b), k[b].base < (f + 1) * FrameSize
  PROVE  f \in BootFrames
<1> DEFINE l == CleanedUp(k)
           low == f * FrameSize
           high == (f + 1) * FrameSize
<1>1. /\ CutFrom(l, k, n)
      /\ \A x \in 1 .. n : \A y \in x + 1 .. n : BothSettled(l, k, x, y)
  BY CleanedUpSettles
<1> HIDE DEF l
<1>2. SUFFICES ASSUME f \notin BootFrames PROVE FALSE
  OBVIOUS
<1>3. /\ k[a].base \in Nat /\ k[a].base < Word /\ EndOf(k, a) \in Nat /\ EndOf(k, a) <= Word
      /\ k[b].base \in Nat /\ EndOf(k, b) \in Nat
  BY TameParts
<1>4. low \in Nat /\ high \in Nat
  BY FrameDivision
<1>5. PICK e \in 0 .. EndOf(k, a) : e > 0 /\ EndsAt(l, k, a, e)
  BY <1>1 DEF CutFrom
<1>6. l[a].base = k[a].base
  BY <1>1 DEF CutFrom
<1>7. e \in Nat /\ e <= Word /\ e - 1 \in Nat
  BY <1>3, <1>5, WordFacts
<1>8. Wrap(Word + l[a].base + l[a].length - 1) = e - 1
  BY <1>3, <1>5, <1>6, <1>7, EndsThere
<1>9. AddressToIndex(k[a].base) <= f /\ f <= AddressToIndex(e - 1)
  <2>1. f \in AddressToIndex(k[a].base) .. AddressToIndex(e - 1)
    BY <1>6, <1>8 DEF FramesOf, l
  <2>2. AddressToIndex(k[a].base) \in Nat /\ AddressToIndex(e - 1) \in Nat
    BY <1>3, <1>7, FrameDivision
  <2>3. QED
    BY <2>1, <2>2
<1>10. k[a].base < high /\ low <= e - 1
  BY <1>3, <1>7, <1>9, FrameDivision
<1>11. ASSUME NEW x \in 1 .. n, k[x].base < high PROVE k[x].base <= low
  <2>1. k[x].base \in Nat
    BY TameParts
  <2>2. SUFFICES ASSUME low < k[x].base PROVE FALSE
    BY <1>4, <2>1
  <2>3. AddressToIndex(k[x].base) = f /\ k[x].base % FrameSize # 0
    BY <1>11, <2>1, <2>2, FrameDivision
  <2>4. QED
    BY <1>2, <2>3 DEF TameList
<1>12. k[a].base <= low /\ k[b].base <= low
  BY <1>10, <1>11
<1>13. low < e /\ e <= EndOf(k, a) /\ low < EndOf(k, b)
  BY <1>3, <1>4, <1>5, <1>7, <1>10
<1> HIDE DEF low, high
<1>14. Meets(k, a, b)
  BY <1>3, <1>4, <1>7, <1>12, <1>13 DEF Meets
<1>15. Disputed(k, a, b) /\ a # b
  BY <1>14 DEF Disputed
<1>16. e < Word
  <2>1. EndOf(k, a) < Word
    BY <1>15 DEF TameList
  <2>2. QED
    BY <1>3, <1>7, <1>13, <2>1, WordFacts
<1>17. LastEnd(l, a) = e
  BY <1>3, <1>5, <1>6, <1>7, <1>16, EndsThere
<1>18. Settled(l, k, a, b)
  BY <1>1, <1>15 DEF BothSettled
<1>19. e <= IF a < b THEN k[b].base ELSE k[a].base
  BY <1>14, <1>17, <1>18 DEF Settled
<1>20. QED
  BY <1>3, <1>4, <1>7, <1>12, <1>13, <1>19

-----------------------------------------------------------------------------
(* From the boot loader's map to the sorted list.                          *)

\* Every entry of the map m stands in the list k as it is.
HasEntries(k, m, n) ==
  \A i \in 1 .. n : \E x \in 1 .. n :
    k[x].base = m[i].addr /\ k[x].length = m[i].len /\ k[x].type = m[i].type

\* The entries of a map, whichever they are, become regions.
LEMMA FetchedRegions ==
  ASSUME NEW m \in Maps, NEW n, n = Len(m), NEW a, a = [i \in DOMAIN m |-> Truncated(m[i])]
  PROVE  /\ n \in Nat /\ DOMAIN m = 1 .. n
         /\ \A i \in 1 .. n : m[i].addr \in Nat /\ m[i].len \in Nat /\ m[i].type \in Nat \ {0}
         /\ a \in RegionLists(n) /\ Sorted(a) \in RegionLists(n)
         /\ CleanedUp(Sorted(a)) \in RegionLists(n)
<1> DEFINE E == [addr : Nat, len : Nat, type : Nat \ {0}]
<1>1. m \in Seq(E)
  BY MemoryMapAssumption
<1>2. n \in Nat /\ DOMAIN m = 1 .. n
  BY <1>1
<1>3. \A i \in 1 .. n : m[i].addr \in Nat /\ m[i].len \in Nat /\ m[i].type \in Nat \ {0}
  <2>1. TAKE i \in 1 .. n
  <2> HIDE DEF E
  <2>2. m[i] \in E
    BY <1>1, <1>2
  <2>3. QED
    BY <2>2 DEF E
<1>4. \A i \in 1 .. n : Truncated(m[i]) \in Region
  <2>1. TAKE i \in 1 .. n
  <2>2. m[i].addr \in Int /\ m[i].len \in Int /\ m[i].type \in Nat
    BY <1>3
  <2>3. Wrap(m[i].addr) \in 0 .. Word - 1 /\ Wrap(m[i].len) \in 0 .. Word - 1
    BY ONLY <2>2, WordFacts
  <2>4. \A b, d \in 0 .. Word - 1 : b \in Nat /\ d \in Int
    BY WordFacts
  <2>5. QED
    BY <2>2, <2>3, <2>4 DEF Truncated, Region
<1>5. a \in RegionLists(n)
  BY <1>2, <1>4 DEF RegionLists
<1>6. Sorted(a) \in RegionLists(n)
  BY <1>2, <1>5, SortedSorts
<1>7. CleanedUp(Sorted(a)) \in RegionLists(n)
  BY <1>2, <1>6, CleanedUpLoop DEF IsLoop
<1>8. QED
  BY <1>2, <1>3, <1>5, <1>6, <1>7

\* In a tame map no address is truncated and every entry stands once in the sorted
\* list.
LEMMA TameSorted ==
  ASSUME NEW m \in Maps, Tame(m), NEW n, n = Len(m),
         NEW a, a = [i \in DOMAIN m |-> Truncated(m[i])], NEW k, k = Sorted(a)
  PROVE  TameList(k, n) /\ HasEntries(k, m, n)
<1>1. n \in Nat /\ DOMAIN m = 1 .. n
  BY FetchedRegions
<1>2. \A i \in 1 .. n : m[i].addr \in Nat /\ m[i].len \in Nat /\ m[i].type \in Nat \ {0}
  BY FetchedRegions
<1>3. a \in RegionLists(n)
  BY FetchedRegions
<1>4. \A i \in 1 .. n :
        /\ m[i].len \in 1 .. Word - 1 /\ m[i].addr + m[i].len <= Word
        /\ m[i].addr % FrameSize = 0 \/ AddressToIndex(m[i].addr) \in BootFrames
  BY <1>1 DEF Tame
<1>5. \A i \in 1 .. n : a[i] = [base |-> m[i].addr, length |-> m[i].len, type |-> m[i].type]
  <2>1. TAKE i \in 1 .. n
  <2>2. m[i].addr < Word /\ m[i].len < Word
    <3>1. m[i].addr \in Nat /\ m[i].len \in Nat /\ m[i].addr + m[i].len <= Word /\ m[i].len \in 1 .. Word - 1
      BY <1>2, <1>4
    <3>2. QED
      BY ONLY <3>1, WordFacts
  <2>3. Wrap(m[i].addr) = m[i].addr /\ Wrap(m[i].len) = m[i].len
    BY <1>2, <2>2, WrapSmall
  <2>4. QED
    BY <1>1, <2>3 DEF Truncated
<1>6. k \in RegionLists(n) /\ Rearranged(k, a, n) /\ InOrderUpTo(k, n, n)
  BY <1>1, <1>3, SortedSorts
<1>7. PICK p \in [1 .. n -> 1 .. n] :
        /\ \A x, y \in 1 .. n : p[x] = p[y] => x = y
        /\ \A y \in 1 .. n : \E x \in 1 .. n : p[x] = y
        /\ \A x \in 1 .. n : k[x] = a[p[x]]
  BY <1>6 DEF Rearranged
<1>8. \A x \in 1 .. n : /\ p[x] \in 1 .. n
                        /\ k[x].base = m[p[x]].addr /\ k[x].length = m[p[x]].len
                        /\ k[x].type = m[p[x]].type
  <2>1. TAKE x \in 1 .. n
  <2>2. p[x] \in 1 .. n /\ k[x] = a[p[x]]
    BY <1>7
  <2>3. a[p[x]] = [base |-> m[p[x]].addr, length |-> m[p[x]].len, type |-> m[p[x]].type]
    BY <1>5, <2>2
  <2>4. QED
    BY <2>2, <2>3
<1>9. \A x \in 1 .. n : EndOf(k, x) = m[p[x]].addr + m[p[x]].len
  BY <1>8 DEF EndOf
<1>10. \A x \in 1 .. n : IsAvailable(k[x]) <=> IsAvailable(m[p[x]])
  BY <1>8 DEF IsAvailable
<1>11. \A x, y \in 1 .. n : Meets(k, x, y) <=> Overlap(m[p[x]], m[p[y]])
  BY <1>8, <1>9 DEF Meets, Overlap
<1>12. \A x, y \in 1 .. n : Disputed(k, x, y) <=> Contested(m[p[x]], m[p[y]])
  BY <1>8, <1>11 DEF Disputed, Contested, IsAvailable
<1>13. \A x \in 1 .. n :
         /\ k[x].length > 0 /\ EndOf(k, x) <= Word /\ k[x].type >= Available
         /\ k[x].base % FrameSize = 0 \/ AddressToIndex(k[x].base) \in BootFrames
  <2>1. TAKE x \in 1 .. n
  <2>2. /\ p[x] \in 1 .. n
        /\ k[x].base = m[p[x]].addr /\ k[x].length = m[p[x]].len /\ k[x].type = m[p[x]].type
    BY <1>8
  <2>3. k[x].type \in Nat \ {0}
    BY <1>2, <2>2
  <2>4. k[x].type >= Available
    BY <2>3 DEF Available
  <2>5. k[x].length > 0
    <3>1. m[p[x]].len \in 1 .. Word - 1
      BY <1>4, <2>2
    <3>2. QED
      BY <2>2, <3>1
  <2>6. EndOf(k, x) <= Word
    BY <1>4, <1>9, <2>2
  <2>7. k[x].base % FrameSize = 0 \/ AddressToIndex(k[x].base) \in BootFrames
    BY <1>4, <2>2
  <2>8. QED
    BY <2>4, <2>5, <2>6, <2>7
<1>14. ASSUME NEW x \in 1 .. n, NEW y \in 1 .. n, Disputed(k, x, y)
       PROVE  EndOf(k, x) < Word /\ (IsAvailable(k[x]) \/ k[x].base > 0)
  <2>1. p[x] \in 1 .. n /\ p[y] \in 1 .. n /\ Contested(m[p[x]], m[p[y]])
    BY <1>8, <1>12, <1>14
  <2>2. m[p[x]].addr + m[p[x]].len < Word /\ (IsAvailable(m[p[x]]) \/ m[p[x]].addr > 0)
    BY <1>1, <2>1 DEF Tame
  <2>3. QED
    BY <1>8, <1>9, <1>10, <2>2
<1>15. ASSUME NEW x \in 1 .. n, NEW y \in 1 .. n, NEW z \in 1 .. n,
              Disputed(k, x, y), ~IsAvailable(k[x]), ~IsAvailable(k[z]), z # x
       PROVE  ~Meets(k, x, z)
  <2>1. p[x] \in 1 .. n /\ p[y] \in 1 .. n /\ p[z] \in 1 .. n /\ Contested(m[p[x]], m[p[y]])
    BY <1>8, <1>12, <1>15
  <2>2. ~IsAvailable(m[p[x]]) /\ ~IsAvailable(m[p[z]]) /\ p[z] # p[x]
    BY <1>7, <1>10, <1>15
  <2>3. p[z] # p[y]
    BY <2>1, <2>2 DEF Contested, IsAvailable
  <2>4. ~Overlap(m[p[x]], m[p[z]])
    BY <1>1, <2>1, <2>2, <2>3 DEF Tame
  <2>5. QED
    BY <1>11, <2>4
<1>16. ASSUME NEW x \in 1 .. n, NEW y \in 1 .. n,
              x # y, IsAvailable(k[x]), IsAvailable(k[y]), Meets(k, x, y)
       PROVE  k[x].base > 0
  <2>1. /\ p[x] \in 1 .. n /\ p[y] \in 1 .. n /\ p[x] # p[y]
        /\ IsAvailable(m[p[x]]) /\ IsAvailable(m[p[y]]) /\ Overlap(m[p[x]], m[p[y]])
    BY <1>7, <1>8, <1>10, <1>11, <1>16
  <2>2. m[p[x]].addr > 0
    BY <1>1, <2>1 DEF Tame
  <2>3. QED
    BY <1>8, <2>2
<1>17. ASSUME NEW x \in 1 .. n, NEW y \in 1 .. n, x < y PROVE k[x].base <= k[y].base
  <2>1. y \in x + 1 .. n
    BY <1>17, <1>1
  <2>2. QED
    BY <2>1, <1>6 DEF InOrderUpTo
<1>18. TameList(k, n)
  BY <1>6, <1>13, <1>14, <1>15, <1>16, <1>17 DEF TameList
<1>19. \A i \in 1 .. n : \E x \in 1 .. n :
         k[x].base = m[i].addr /\ k[x].length = m[i].len /\ k[x].type = m[i].type
  <2>1. TAKE i \in 1 .. n
  <2>2. PICK x \in 1 .. n : p[x] = i
    BY <1>7
  <2>3. k[x].base = m[i].addr /\ k[x].length = m[i].len /\ k[x].type = m[i].type
    BY <1>8, <2>2
  <2>4. QED
    BY <2>3
<1>20. QED
  BY <1>18, <1>19 DEF HasEntries

\* The last frame, which is none of NumFrames, has a bit.
LEMMA LastFrameHasBit == \A f \in Nat : f <= NumFrames => f \in Bits
<1> DEFINE q == BitmapSize
           s == FramesPerByte
<1>1. s \in Nat /\ s > 0 /\ NumFrames \in Nat /\ NumFrames % s # 0
  BY PhysMemAssumption, MemoryMapAssumption
<1>2. q = (NumFrames + s - 1) \div s
  BY DEF BitmapSize
<1> HIDE DEF q, s
<1>3. NumFrames + s - 1 \in Nat
  BY <1>1
<1>4. ASSUME NEW x \in Nat, NEW y \in Nat \ {0}
      PROVE  x \div y \in Nat /\ x < (x \div y) * y + y /\ (x \div y) * y \in Nat
  OBVIOUS
<1>5. q \in Nat /\ q * s \in Nat /\ NumFrames - 1 < q * s
  BY <1>1, <1>2, <1>3, <1>4
<1>6. q * s # NumFrames
  <2>1. ASSUME NEW x \in Nat, NEW y \in Nat \ {0} PROVE (x * y) % y = 0
    <3>1. \A z \in Nat, d \in Nat \ {0} : z % d = z - d * (z \div d)
      BY Z3
    <3>2. (x * y) \div y = x /\ x * y \in Nat
      BY Z3
    <3>3. QED
      BY <3>1, <3>2, Z3
  <2>2. QED
    BY <1>1, <1>5, <2>1
<1>7. NumFrames < q * s
  BY <1>1, <1>5, <1>6
<1>8. Bits = 0 .. q * s - 1
  BY DEF Bits, q, s
<1>9. QED
  BY <1>1, <1>5, <1>7, <1>8

\* pmm_init leaves the bit of every frame set in which a tame map has anything but
\* available memory, the boot frames aside.
LEMMA PmmInitReserves == PmmInit => TameReservedKept
<1> SUFFICES ASSUME PmmInit, Tame(map) PROVE ReservedFramesKept
  BY DEF TameReservedKept
<1> DEFINE n == Len(map)
           a == [i \in DOMAIN map |-> Truncated(map[i])]
           k == Sorted(a)
<1>1. map \in Maps /\ regions = CleanedUp(k) /\ bitmap = Bits \ AvailableFrames(regions)
  BY DEF PmmInit, FetchMemoryRegions
<1>2. /\ n \in Nat /\ DOMAIN map = 1 .. n /\ regions \in RegionLists(n)
      /\ TameList(k, n) /\ HasEntries(k, map, n)
  <2>1. /\ map \in Maps /\ Tame(map) /\ n = Len(map) /\ k = Sorted(a)
        /\ a = [i \in DOMAIN map |-> Truncated(map[i])]
    BY <1>1
  <2> HIDE DEF n, a, k
  <2>2. TameList(k, n) /\ HasEntries(k, map, n)
    BY ONLY <2>1, TameSorted
  <2>3. n \in Nat /\ DOMAIN map = 1 .. n /\ CleanedUp(k) \in RegionLists(n)
    BY ONLY <2>1, FetchedRegions
  <2>4. QED
    BY <1>1, <2>2, <2>3
<1> HIDE DEF k
<1>3. CutFrom(regions, k, n)
  BY <1>1, <1>2, CleanedUpSettles
<1>4. ASSUME NEW i \in DOMAIN map, map[i].type # Available, NEW f \in Frames,
             f * FrameSize < map[i].addr + map[i].len, map[i].addr < (f + 1) * FrameSize
      PROVE  f \in bitmap \cup BootFrames
  <2>1. PICK b \in 1 .. n :
          k[b].base = map[i].addr /\ k[b].length = map[i].len /\ k[b].type = map[i].type
    BY <1>2, <1>4 DEF HasEntries
  <2>2. SUFFICES ASSUME f \in AvailableFrames(regions) PROVE f \in BootFrames
    BY <1>1, BitsFacts
  <2>3. PICK j \in DOMAIN regions : regions[j].type = Available /\ f \in FramesOf(regions[j])
    BY <2>2 DEF AvailableFrames
  <2>4. j \in 1 .. n /\ IsAvailable(k[j])
    BY <1>2, <1>3, <2>3 DEF RegionLists, CutFrom, IsAvailable
  <2>5. f \in Nat
    BY PhysMemAssumption DEF Frames
  <2>6. f \in FramesOf(CleanedUp(k)[j])
    BY <1>1, <2>3
  <2>7. /\ ~IsAvailable(k[b])
        /\ f * FrameSize < EndOf(k, b) /\ k[b].base < (f + 1) * FrameSize
    BY <1>4, <2>1 DEF IsAvailable, EndOf
  <2> HIDE DEF n
  <2>8. QED
    BY ONLY <1>2, <2>1, <2>4, <2>5, <2>6, <2>7, AvailableApart
<1>5. QED
  BY <1>4 DEF ReservedFramesKept

\* Whatever the order of its entries and however they overlap, as long as the map is
\* tame: when pmm_init has released the available regions, no frame is free in which
\* the boot loader has reported something else, the boot frames aside
\* (pmm_fetch_memory_regions sorts and cuts the entries in 32 bit arithmetic).
THEOREM ReservedFramesStay == MapSpec => []TameReservedKept
<1>1. PmmInit => TameReservedKept
  BY PmmInitReserves
<1>2. TameReservedKept /\ [PhysMemNext /\ UNCHANGED mapVars]_<<pmmVars, mapVars>> => TameReservedKept'
  <2>1. SUFFICES ASSUME TameReservedKept, [PhysMemNext /\ UNCHANGED mapVars]_<<pmmVars, mapVars>>
                 PROVE  TameReservedKept'
    OBVIOUS
  <2>2. CASE UNCHANGED <<pmmVars, mapVars>>
    BY <2>1, <2>2 DEF TameReservedKept, ReservedFramesKept, Tame, pmmVars, mapVars
  <2>3. CASE PhysMemNext
    <3>1. booted'
      <4>1. VmmInit => booted'
        BY DEF VmmInit
      <4>2. \A f : (AllocFrame(f) \/ FreeFrames(f) \/ MarkReserved(f) \/ MarkAvailable(f)) => booted'
        BY DEF AllocFrame, FreeFrames, MarkReserved, MarkAvailable
      <4>3. QED
        BY <2>3, <4>1, <4>2 DEF PhysMemNext
    <3>2. QED
      BY <3>1 DEF TameReservedKept, ReservedFramesKept
  <2>4. QED
    BY <2>1, <2>2, <2>3
<1>3. QED
  BY <1>1, <1>2, PTL DEF MapSpec

\* For every map, pmm_init leaves an initial state of the manager: every frame it
\* releases has a bit.
LEMMA PmmInitRefines == PmmInit => PhysMemInit
<1> SUFFICES ASSUME PmmInit PROVE PhysMemInit
  OBVIOUS
<1> DEFINE n == Len(map)
           a == [i \in DOMAIN map |-> Truncated(map[i])]
<1>1. map \in Maps /\ regions = CleanedUp(Sorted(a))
  BY DEF PmmInit, FetchMemoryRegions
<1>2. regions \in RegionLists(n)
  <2>1. map \in Maps /\ n = Len(map) /\ a = [i \in DOMAIN map |-> Truncated(map[i])]
    BY <1>1
  <2> HIDE DEF n, a
  <2>2. CleanedUp(Sorted(a)) \in RegionLists(n)
    BY ONLY <2>1, FetchedRegions
  <2>3. QED
    BY <1>1, <2>2
<1> HIDE DEF n, a
<1>3. ASSUME NEW f \in AvailableFrames(regions) PROVE f \in Bits
  <2>1. PICK j \in DOMAIN regions : f \in FramesOf(regions[j])
    BY DEF AvailableFrames
  <2>2. regions[j] \in Region
    BY <1>2, <2>1 DEF RegionLists
  <2> DEFINE r == regions[j]
             last == Wrap(Word + r.base + r.length - 1)
  <2>3. r.base \in Nat /\ r.length \in Int
    BY <2>2 DEF Region
  <2>4. last \in Nat /\ last < FrameSize * (NumFrames + 1)
    <3>1. Word + r.base + r.length - 1 \in Int
      BY <2>3, WordFacts
    <3>2. last \in 0 .. Word - 1
      BY <3>1, WordFacts
    <3>3. QED
      BY <3>2, WordFacts DEF Word
  <2>5. f \in AddressToIndex(r.base) .. AddressToIndex(last)
    BY <2>1 DEF FramesOf
  <2> HIDE DEF r, last
  <2>6. AddressToIndex(r.base) \in Nat /\ AddressToIndex(last) \in Nat
    BY <2>3, <2>4, FrameDivision, 0 \in Nat
  <2>7. f \in Nat /\ f <= AddressToIndex(last)
    BY <2>5, <2>6
  <2>8. f * FrameSize < FrameSize * (NumFrames + 1) /\ FrameSize \in Nat /\ FrameSize > 0
        /\ NumFrames \in Nat
    BY <2>4, <2>7, FrameDivision, MemoryMapAssumption, PhysMemAssumption
  <2>9. f <= NumFrames
    <3>1. SUFFICES ASSUME f >= NumFrames + 1 PROVE FALSE
      BY <2>7, <2>8
    <3>2. (f - (NumFrames + 1)) * FrameSize >= 0
      BY <2>7, <2>8, <3>1
    <3>3. /\ (f - (NumFrames + 1)) * FrameSize = f * FrameSize - FrameSize * (NumFrames + 1)
          /\ f * FrameSize \in Int /\ FrameSize * (NumFrames + 1) \in Int
      BY <2>7, <2>8
    <3>4. QED
      BY <2>8, <3>2, <3>3
  <2>10. QED
    BY <2>7, <2>9, LastFrameHasBit
<1>4. AvailableFrames(regions) \in SUBSET Bits
  BY <1>3
<1>5. QED
  BY <1>4 DEF PmmInit, PhysMemInit

\* Whatever the map, the manager that starts with pmm_init, from the boot loader's
\* entries, is the manager the other theorems are about.
THEOREM MapImplementsPhysMem == MapSpec => PhysMemSpec
<1>1. PmmInit => PhysMemInit
  BY PmmInitRefines
<1>2. [PhysMemNext /\ UNCHANGED mapVars]_<<pmmVars, mapVars>> => [PhysMemNext]_pmmVars
  BY DEF pmmVars, mapVars
<1>3. QED
  BY <1>1, <1>2, PTL DEF MapSpec, PhysMemSpec

\* So, whatever map the machine was started with, the counter is the number of bits
\* that are set, no frame is given to two callers, the kernel's frames are never handed
\* out, and an allocation that could succeed does.
THEOREM MapFramesKept ==
  MapSpec => /\ [](CounterExact /\ HeldFramesMarked /\ BootFramesKept)
             /\ []NoSpuriousFailure
<1>1. MapSpec => PhysMemSpec
  BY MapImplementsPhysMem
<1>2. PhysMemSpec => [](PhysMemTypeOK /\ CounterExact) /\ [](HeldFramesMarked /\ BootFramesKept) /\ []NoSpuriousFailure
  BY FrameCounterExact, FramesHeldOnce, AllocationNeverSpuriouslyFails
<1>3. QED
  BY <1>1, <1>2, PTL

-----------------------------------------------------------------------------
(* Address spaces.                                                         *)

\* A user page lies in a table of user space, and its index and slot make it up.
LEMMA PageParts ==
  ASSUME NEW p \in UserPage
  PROVE  /\ IndexOf(p) \in 0 .. KernelIndex - 1
         /\ SlotOf(p) \in Slot
         /\ p = IndexOf(p) * TableSize + SlotOf(p)
<1> USE AddressSpacesAssumption DEF Index, UserPage, KernelBase
<1>1. p = IndexOf(p) * TableSize + SlotOf(p)
  BY DEF IndexOf, SlotOf
<1>2. SlotOf(p) \in Slot
  BY DEF SlotOf, Slot
<1>3. IndexOf(p) \in Nat
  BY DEF IndexOf
<1>4. IndexOf(p) < KernelIndex
  BY <1>1, <1>2, <1>3 DEF Slot
<1>5. QED
  BY <1>1, <1>2, <1>3, <1>4

\* A page is known by its index and its slot.
LEMMA OnePage ==
  ASSUME NEW p \in UserPage, NEW q \in UserPage, IndexOf(p) = IndexOf(q), SlotOf(p) = SlotOf(q)
  PROVE  p = q
<1>1. p = IndexOf(p) * TableSize + SlotOf(p) /\ q = IndexOf(q) * TableSize + SlotOf(q)
  BY PageParts
<1>2. QED
  BY <1>1

-----------------------------------------------------------------------------
(* The inductive invariant.                                                *)

KernelTablesFixed ==
  \A i \in Index : IF i >= KernelIndex THEN tables[KernelDir][i] \in KernelTable
                   ELSE tables[KernelDir][i] = Null

\* An entry of a page table in use names a frame that no other entry names and
\* that is not available.
EntriesPrivateIn(lt, e, ff) ==
  \A t \in lt, j \in Slot : e[t][j] # NoFrame =>
    /\ e[t][j] \notin ff
    /\ \A u \in lt, k \in Slot : e[t][j] = e[u][k] => t = u /\ j = k

EntriesPrivate == EntriesPrivateIn(live_tables, entry, free_frames)

IInv ==
  /\ clean
  /\ TypeOK
  /\ KernelTablesFixed
  /\ TablesOwnedOnce
  /\ EntriesPrivate
  /\ TlbCoherent

-----------------------------------------------------------------------------
(* Mapping.                                                                *)

\* The page tables that mapping adds to the current directory.
LEMMA TakeFacts ==
  ASSUME IInv, Running, NEW P, P \subseteq UserPage,
         NEW g \in FirstFrames(P), NEW h \in NewTables(P), Take(g, h), UNCHANGED <<live_dirs, clean>>
  PROVE  /\ Range(h) \subseteq Table \ live_tables
         /\ IsInjective(h)
         /\ DOMAIN h \subseteq 0 .. KernelIndex - 1
         /\ \A i \in DOMAIN h : tables[current][i] = Null
         /\ \A p \in P : WithTables(h)[IndexOf(p)] \in live_tables'
         /\ \A i \in Index : WithTables(h)[i] = IF i \in DOMAIN h THEN h[i] ELSE tables[current][i]
         /\ tables' \in [Dir \cup {KernelDir} -> [Index -> Table \cup KernelTable \cup {Null}]]
         /\ \A d \in live_dirs \cup {KernelDir} :
              tables'[d] = IF d = current THEN WithTables(h) ELSE tables[d]
         /\ live_tables' = live_tables \cup Range(h)
         /\ live_tables' \subseteq Table
         /\ free_frames' = free_frames \ Range(g)
         /\ g \in [P -> free_frames]
         /\ \A p, q \in P : g[p] = g[q] => p = q
<1> USE AddressSpacesAssumption
<1>1. h \in [DOMAIN h -> Table \ live_tables] /\ IsInjective(h)
  BY DEF NewTables, Injection
<1>2. DOMAIN h = {i \in Index : tables[current][i] = Null /\ \E p \in P : IndexOf(p) = i}
  BY DEF NewTables, Injection
<1>3. Range(h) \subseteq Table \ live_tables
  BY <1>1 DEF Range
<1>4. \A p \in P : IndexOf(p) \in 0 .. KernelIndex - 1
  BY PageParts
<1>5. DOMAIN h \subseteq 0 .. KernelIndex - 1 /\ \A i \in DOMAIN h : tables[current][i] = Null
  BY <1>2, <1>4
<1>6. 0 .. KernelIndex - 1 \subseteq Index
  BY DEF Index
<1>7. \A i \in Index : WithTables(h)[i] = IF i \in DOMAIN h THEN h[i] ELSE tables[current][i]
  BY DEF WithTables
<1>8. live_tables' = live_tables \cup Range(h) /\ free_frames' = free_frames \ Range(g)
  BY DEF Take
<1>9. ASSUME NEW p \in P PROVE WithTables(h)[IndexOf(p)] \in live_tables'
  <2>1. IndexOf(p) \in Index /\ IndexOf(p) < KernelIndex
    BY <1>4, <1>6 DEF Index
  <2>2. CASE IndexOf(p) \in DOMAIN h
    BY <2>1, <2>2, <1>7, <1>8 DEF Range
  <2>3. CASE IndexOf(p) \notin DOMAIN h
    <3>1. tables[current][IndexOf(p)] # Null
      BY <2>1, <2>3, <1>2
    <3>2. tables[current][IndexOf(p)] \in live_tables
      BY <3>1, <2>1 DEF IInv, TablesOwnedOnce, Running, Index
    <3>3. QED
      BY <3>2, <2>1, <2>3, <1>7, <1>8
  <2>4. QED
    BY <2>2, <2>3
<1>10. current \in Dir /\ current \in live_dirs
  BY DEF IInv, TypeOK, Running
<1>11. WithTables(h) \in [Index -> Table \cup KernelTable \cup {Null}]
  BY <1>1, <1>10 DEF WithTables, IInv, TypeOK
<1>12. tables' = [tables EXCEPT ![current] = WithTables(h)]
  BY DEF Take
<1>13. tables' \in [Dir \cup {KernelDir} -> [Index -> Table \cup KernelTable \cup {Null}]]
  BY <1>10, <1>11, <1>12 DEF IInv, TypeOK
<1>14. \A d \in live_dirs \cup {KernelDir} :
         tables'[d] = IF d = current THEN WithTables(h) ELSE tables[d]
  BY <1>10, <1>12 DEF IInv, TypeOK
<1>15. g \in [P -> free_frames] /\ \A p, q \in P : p < q => g[p] < g[q]
  BY DEF FirstFrames
<1>16. ASSUME NEW p \in P, NEW q \in P, g[p] = g[q] PROVE p = q
  <2>1. p \in Int /\ q \in Int
    BY DEF UserPage, KernelBase, Index
  <2>2. g[p] \in free_frames /\ free_frames \subseteq Frame
    BY <1>15 DEF IInv, TypeOK
  <2>3. g[p] \in Nat
    BY <2>2
  <2>4. ~ (g[p] < g[q]) /\ ~ (g[q] < g[p])
    BY <2>3, <1>16
  <2>5. ~ (p < q) /\ ~ (q < p)
    BY <2>4, <1>15
  <2>6. QED
    BY <2>1, <2>5
<1>17. live_tables' \subseteq Table
  BY <1>3, <1>8 DEF IInv, TypeOK
<1>18. QED
  BY <1>1, <1>3, <1>5, <1>7, <1>8, <1>9, <1>13, <1>14, <1>15, <1>16, <1>17

\* It leaves every page table with one owner.
LEMMA TakeKeepsTables ==
  ASSUME IInv, Running, NEW P, P \subseteq UserPage,
         NEW g \in FirstFrames(P), NEW h \in NewTables(P), Take(g, h), UNCHANGED <<live_dirs, clean>>
  PROVE  KernelTablesFixed' /\ TablesOwnedOnce'
<1> USE AddressSpacesAssumption
<1>1. current \in live_dirs /\ current # KernelDir
  BY DEF Running, IInv, TypeOK
<1>2. tables'[KernelDir] = tables[KernelDir]
  BY <1>1, TakeFacts
<1>3. \A d \in live_dirs, i \in Index :
        tables'[d][i] = IF d = current /\ i \in DOMAIN h THEN h[i] ELSE tables[d][i]
  BY <1>1, TakeFacts
<1>4. KernelTablesFixed'
  BY <1>2 DEF KernelTablesFixed, IInv
<1>5. ASSUME NEW d \in live_dirs, NEW i \in Index
      PROVE  IF i >= KernelIndex THEN tables'[d][i] = tables'[KernelDir][i]
             ELSE tables'[d][i] # Null => tables'[d][i] \in live_tables'
  <2>1. IF i >= KernelIndex THEN tables[d][i] = tables[KernelDir][i]
        ELSE tables[d][i] # Null => tables[d][i] \in live_tables
    BY DEF IInv, TablesOwnedOnce
  <2>2. live_tables' = live_tables \cup Range(h) /\ DOMAIN h \subseteq 0 .. KernelIndex - 1
    BY TakeFacts
  <2>3. CASE d = current /\ i \in DOMAIN h
    <3>1. tables'[d][i] \in Range(h)
      BY <1>3, <2>3 DEF Range
    <3>2. ~ (i >= KernelIndex)
      BY <2>2, <2>3 DEF Index
    <3>3. QED
      BY <2>2, <3>1, <3>2
  <2>4. CASE ~ (d = current /\ i \in DOMAIN h)
    BY <1>2, <1>3, <2>1, <2>2, <2>4
  <2>5. QED
    BY <2>3, <2>4
<1>6. ASSUME NEW t \in live_tables' PROVE \E d \in live_dirs, i \in Index : tables'[d][i] = t
  <2>1. CASE t \in live_tables
    <3>1. PICK d \in live_dirs, i \in Index : tables[d][i] = t
      BY <2>1 DEF IInv, TablesOwnedOnce
    <3>2. t # Null
      BY <2>1 DEF IInv, TypeOK
    <3>3. ~ (d = current /\ i \in DOMAIN h)
      BY <3>1, <3>2, TakeFacts
    <3>4. QED
      BY <1>3, <3>1, <3>3
  <2>2. CASE t \in Range(h)
    <3>1. PICK i \in DOMAIN h : h[i] = t
      BY <2>2 DEF Range
    <3>2. i \in Index
      BY TakeFacts DEF Index
    <3>3. QED
      BY <1>1, <1>3, <3>1, <3>2
  <2>3. QED
    BY <2>1, <2>2, TakeFacts
<1>7. ASSUME NEW d \in live_dirs, NEW e \in live_dirs,
             NEW i \in 0 .. KernelIndex - 1, NEW k \in 0 .. KernelIndex - 1,
             tables'[d][i] = tables'[e][k], tables'[d][i] # Null
      PROVE  d = e /\ i = k
  <2>1. i \in Index /\ k \in Index /\ ~ (i >= KernelIndex) /\ ~ (k >= KernelIndex)
    BY DEF Index
  <2>2. Range(h) \cap live_tables = {} /\ IsInjective(h)
    BY TakeFacts
  <2>3. tables[d][i] # Null => tables[d][i] \in live_tables
    BY <2>1 DEF IInv, TablesOwnedOnce
  <2>4. tables[e][k] # Null => tables[e][k] \in live_tables
    BY <2>1 DEF IInv, TablesOwnedOnce
  <2>5. CASE d = current /\ i \in DOMAIN h
    <3>1. tables'[d][i] = h[i] /\ h[i] \in Range(h)
      BY <1>3, <2>1, <2>5 DEF Range
    <3>2. e = current /\ k \in DOMAIN h
      BY <1>3, <1>7, <2>1, <2>2, <2>4, <3>1
    <3>3. h[i] = h[k]
      BY <1>3, <1>7, <2>1, <3>1, <3>2
    <3>4. QED
      BY <2>2, <2>5, <3>2, <3>3 DEF IsInjective
  <2>6. CASE ~ (d = current /\ i \in DOMAIN h)
    <3>1. tables'[d][i] = tables[d][i] /\ tables[d][i] \in live_tables
      BY <1>3, <1>7, <2>1, <2>3, <2>6
    <3>2. ~ (e = current /\ k \in DOMAIN h)
      <4>1. e = current /\ k \in DOMAIN h => tables'[e][k] \in Range(h)
        BY <1>3, <2>1 DEF Range
      <4>2. QED
        BY <1>7, <2>2, <3>1, <4>1
    <3>3. tables[d][i] = tables[e][k] /\ tables[d][i] # Null
      BY <1>3, <1>7, <2>1, <3>1, <3>2
    <3>4. QED
      BY <3>3 DEF IInv, TablesOwnedOnce
  <2>7. QED
    BY <2>5, <2>6
<1>8. TablesOwnedOnce'
  BY <1>5, <1>6, <1>7 DEF TablesOwnedOnce
<1>9. QED
  BY <1>4, <1>8

\* What the entries are once the pages of P are mapped: theirs name the new
\* frames, all others are as they were.
LEMMA MappedEntries ==
  ASSUME IInv, Running, NEW P, P \subseteq UserPage, \A p \in P : ~IsUsed(p),
         NEW g \in FirstFrames(P), NEW h \in NewTables(P), Take(g, h), UNCHANGED <<live_dirs, clean>>,
         NEW e, e = EntriesMapped(WithTables(h), g, h)
  PROVE  /\ e \in [Table -> [Slot -> Frame \cup {NoFrame}]]
         /\ \A t \in live_tables', j \in Slot :
              \/ \E p \in P : WithTables(h)[IndexOf(p)] = t /\ SlotOf(p) = j /\ e[t][j] = g[p]
              \/ /\ \A p \in P : ~ (WithTables(h)[IndexOf(p)] = t /\ SlotOf(p) = j)
                 /\ e[t][j] = IF t \in live_tables THEN entry[t][j] ELSE NoFrame
<1> USE AddressSpacesAssumption
<1>1. DOMAIN g = P /\ g \in [P -> free_frames] /\ free_frames \subseteq Frame
  BY TakeFacts DEF IInv, TypeOK
<1> DEFINE here(t, j) == {p \in P : WithTables(h)[IndexOf(p)] = t /\ SlotOf(p) = j}
<1>2. e = [t \in Table |-> [j \in Slot |->
             IF here(t, j) # {} THEN g[CHOOSE p \in here(t, j) : TRUE]
             ELSE IF t \in Range(h) THEN NoFrame ELSE entry[t][j]]]
  BY <1>1 DEF EntriesMapped
<1>3. ASSUME NEW t \in Table, NEW j \in Slot
      PROVE  \/ \E p \in here(t, j) : e[t][j] = g[p]
             \/ here(t, j) = {} /\ e[t][j] = IF t \in Range(h) THEN NoFrame ELSE entry[t][j]
  BY <1>2
<1>4. ASSUME NEW t \in Table, NEW j \in Slot PROVE e[t][j] \in Frame \cup {NoFrame}
  <2>1. entry[t][j] \in Frame \cup {NoFrame}
    BY DEF IInv, TypeOK
  <2>2. \A p \in here(t, j) : g[p] \in Frame
    BY <1>1
  <2>3. QED
    BY <1>3, <2>1, <2>2
<1>5. e \in [Table -> [Slot -> Frame \cup {NoFrame}]]
  BY <1>2, <1>4
<1>6. live_tables' = live_tables \cup Range(h) /\ Range(h) \subseteq Table \ live_tables /\ live_tables' \subseteq Table
  BY TakeFacts
<1>7. QED
  BY <1>3, <1>5, <1>6

\* Mapping gives no entry a frame that another one has, and changes the frame
\* of no page but those it maps.
LEMMA MappedFrames ==
  ASSUME IInv, Running, NEW P, P \subseteq UserPage, \A p \in P : ~IsUsed(p),
         NEW g \in FirstFrames(P), NEW h \in NewTables(P), Take(g, h), UNCHANGED <<live_dirs, clean>>,
         NEW e, e = EntriesMapped(WithTables(h), g, h)
  PROVE  /\ EntriesPrivateIn(live_tables', e, free_frames')
         /\ \A p \in P : FrameIn(tables'[current], e, p) = g[p]
         /\ \A d \in live_dirs, p \in UserPage :
              d # current \/ p \notin P => FrameIn(tables'[d], e, p) = FrameOf(d, p)
<1> USE AddressSpacesAssumption
<1> DEFINE tb == WithTables(h)
           At(t, j, p) == tb[IndexOf(p)] = t /\ SlotOf(p) = j
<1>1. \A t \in live_tables', j \in Slot :
        \/ \E p \in P : At(t, j, p) /\ e[t][j] = g[p]
        \/ /\ \A p \in P : ~At(t, j, p)
           /\ e[t][j] = IF t \in live_tables THEN entry[t][j] ELSE NoFrame
  BY MappedEntries
<1>2. \A p \in P : tb[IndexOf(p)] \in live_tables' /\ SlotOf(p) \in Slot /\ p \in UserPage
  BY TakeFacts, PageParts
<1>3. current \in live_dirs /\ tables'[current] = tb
  BY TakeFacts DEF Running
<1>4. ASSUME NEW p \in UserPage, NEW q \in UserPage, NEW d \in live_dirs, NEW c \in live_dirs,
             tables'[d][IndexOf(p)] = tables'[c][IndexOf(q)], tables'[d][IndexOf(p)] # Null,
             SlotOf(p) = SlotOf(q)
      PROVE  d = c /\ p = q
  <2>1. IndexOf(p) \in 0 .. KernelIndex - 1 /\ IndexOf(q) \in 0 .. KernelIndex - 1
    BY PageParts
  <2>2. d = c /\ IndexOf(p) = IndexOf(q)
    BY <1>4, <2>1, TakeKeepsTables DEF TablesOwnedOnce, IInv
  <2>3. QED
    BY <1>4, <2>2, OnePage
<1>5. live_tables' \subseteq Table /\ Null \notin live_tables'
  BY TakeFacts
<1>6. ASSUME NEW t \in live_tables', NEW j \in Slot, NEW p \in P, NEW q \in P, At(t, j, p), At(t, j, q)
      PROVE  p = q
  BY <1>2, <1>3, <1>4, <1>5, <1>6
<1>7. g \in [P -> free_frames] /\ free_frames' = free_frames \ Range(g) /\ \A p, q \in P : g[p] = g[q] => p = q
  BY TakeFacts
<1>8. \A p \in P : g[p] \in Range(g) /\ g[p] \in free_frames
  BY <1>7 DEF Range
<1>9. ASSUME NEW t \in live_tables', NEW j \in Slot, e[t][j] # NoFrame,
             \A p \in P : ~At(t, j, p)
      PROVE  t \in live_tables /\ e[t][j] = entry[t][j] /\ e[t][j] \notin free_frames
  BY <1>1, <1>9 DEF IInv, EntriesPrivate, EntriesPrivateIn
<1>10. ASSUME NEW t \in live_tables', NEW j \in Slot, e[t][j] # NoFrame
       PROVE  /\ e[t][j] \notin free_frames'
              /\ \A u \in live_tables', k \in Slot : e[t][j] = e[u][k] => t = u /\ j = k
  <2>1. CASE \A p \in P : ~At(t, j, p)
    <3>1. t \in live_tables /\ e[t][j] = entry[t][j] /\ e[t][j] \notin free_frames
      BY <1>9, <1>10, <2>1
    <3>2. ASSUME NEW u \in live_tables', NEW k \in Slot, e[t][j] = e[u][k] PROVE t = u /\ j = k
      <4>1. \A p \in P : ~At(u, k, p)
        <5>1. ASSUME NEW p \in P, At(u, k, p) PROVE FALSE
          <6>1. PICK q \in P : e[u][k] = g[q]
            BY <1>1, <5>1
          <6>2. QED
            BY <1>8, <3>1, <3>2, <6>1
        <5>2. QED
          BY <5>1
      <4>2. u \in live_tables /\ e[u][k] = entry[u][k]
        BY <1>9, <1>10, <3>2, <4>1
      <4>3. entry[t][j] # NoFrame /\ entry[t][j] = entry[u][k]
        BY <1>10, <3>1, <3>2, <4>2
      <4>4. EntriesPrivateIn(live_tables, entry, free_frames)
        BY DEF IInv, EntriesPrivate
      <4>5. QED
        BY <3>1, <4>2, <4>3, <4>4 DEF EntriesPrivateIn
    <3>3. QED
      BY <1>7, <3>1, <3>2
  <2>2. CASE \E p \in P : At(t, j, p)
    <3>1. PICK p \in P : At(t, j, p) /\ e[t][j] = g[p]
      BY <1>1, <2>2
    <3>2. ASSUME NEW u \in live_tables', NEW k \in Slot, e[t][j] = e[u][k] PROVE t = u /\ j = k
      <4>1. ~ \A q \in P : ~At(u, k, q)
        <5>1. e[u][k] # NoFrame /\ e[u][k] \in free_frames
          BY <1>8, <1>10, <3>1, <3>2
        <5>2. QED
          BY <1>9, <5>1
      <4>2. PICK q \in P : At(u, k, q) /\ e[u][k] = g[q]
        BY <1>1, <4>1
      <4>3. p = q
        BY <1>7, <3>1, <3>2, <4>2
      <4>4. QED
        BY <3>1, <4>2, <4>3
    <3>3. QED
      BY <1>7, <1>8, <3>1, <3>2
  <2>3. QED
    BY <2>1, <2>2
<1>11. EntriesPrivateIn(live_tables', e, free_frames')
  BY <1>10 DEF EntriesPrivateIn
<1>12. ASSUME NEW p \in P PROVE FrameIn(tables'[current], e, p) = g[p]
  <2>1. tb[IndexOf(p)] \in live_tables' /\ SlotOf(p) \in Slot /\ At(tb[IndexOf(p)], SlotOf(p), p)
    BY <1>2
  <2>2. PICK q \in P : At(tb[IndexOf(p)], SlotOf(p), q) /\ e[tb[IndexOf(p)]][SlotOf(p)] = g[q]
    BY <1>1, <2>1
  <2>3. p = q
    BY <1>6, <2>1, <2>2
  <2>4. QED
    BY <1>3, <1>5, <2>1, <2>2, <2>3 DEF FrameIn
<1>13. ASSUME NEW d \in live_dirs, NEW p \in UserPage, d # current \/ p \notin P
       PROVE  FrameIn(tables'[d], e, p) = FrameOf(d, p)
  <2> DEFINE t == tables'[d][IndexOf(p)]
  <2>1. IndexOf(p) \in 0 .. KernelIndex - 1 /\ IndexOf(p) \in Index /\ SlotOf(p) \in Slot
    BY PageParts DEF Index
  <2>2. t # Null => t \in live_tables'
    BY <2>1, TakeKeepsTables DEF TablesOwnedOnce, IInv, Index
  <2>3. tables[d][IndexOf(p)] # Null => tables[d][IndexOf(p)] \in live_tables
    BY <2>1 DEF IInv, TablesOwnedOnce, Index
  <2>4. t = tables[d][IndexOf(p)] \/ (t \in Range(h) /\ tables[d][IndexOf(p)] = Null)
    BY <1>3, <2>1, TakeFacts DEF Range
  <2>5. CASE t = Null
    BY <2>4, <2>5, TakeFacts DEF FrameIn, FrameOf
  <2>6. CASE t # Null
    <3>1. \A q \in P : ~At(t, SlotOf(p), q)
      BY <1>2, <1>3, <1>4, <1>13, <2>6
    <3>2. e[t][SlotOf(p)] = IF t \in live_tables THEN entry[t][SlotOf(p)] ELSE NoFrame
      BY <1>1, <2>1, <2>2, <2>6, <3>1
    <3>3. t \in Table /\ Range(h) \cap live_tables = {}
      BY <1>5, <2>2, <2>6, TakeFacts
    <3>4. QED
      BY <2>3, <2>4, <2>6, <3>2, <3>3 DEF FrameIn, FrameOf
  <2>7. QED
    BY <2>5, <2>6
<1>14. QED
  BY <1>11, <1>12, <1>13

\* Unmapping keeps entries private ...
LEMMA UnmappedEntries ==
  ASSUME NEW lt, lt \subseteq Table, NEW ff, NEW tb, NEW Q,
         NEW e \in [Table -> [Slot -> Frame \cup {NoFrame}]], EntriesPrivateIn(lt, e, ff)
  PROVE  /\ EntriesUnmapped(e, tb, Q) \in [Table -> [Slot -> Frame \cup {NoFrame}]]
         /\ EntriesPrivateIn(lt, EntriesUnmapped(e, tb, Q), ff)
<1> DEFINE u == EntriesUnmapped(e, tb, Q)
<1>1. u \in [Table -> [Slot -> Frame \cup {NoFrame}]]
  BY DEF EntriesUnmapped
<1>2. \A t \in Table, j \in Slot : u[t][j] = e[t][j] \/ u[t][j] = NoFrame
  BY DEF EntriesUnmapped
<1> HIDE DEF u
<1>3. ASSUME NEW t \in lt, NEW j \in Slot, u[t][j] # NoFrame
      PROVE  /\ u[t][j] \notin ff
             /\ \A v \in lt, k \in Slot : u[t][j] = u[v][k] => t = v /\ j = k
  <2>1. u[t][j] = e[t][j]
    BY <1>2, <1>3
  <2>2. u[t][j] \notin ff
    BY <1>3, <2>1 DEF EntriesPrivateIn
  <2>3. ASSUME NEW v \in lt, NEW k \in Slot, u[t][j] = u[v][k] PROVE t = v /\ j = k
    <3>1. u[v][k] = e[v][k]
      BY <1>2, <1>3, <2>3
    <3>2. e[t][j] # NoFrame /\ e[t][j] = e[v][k]
      BY <1>3, <2>1, <2>3, <3>1
    <3>3. QED
      BY <3>2 DEF EntriesPrivateIn
  <2>4. QED
    BY <2>2, <2>3
<1>4. EntriesPrivateIn(lt, u, ff)
  BY <1>3 DEF EntriesPrivateIn
<1>5. QED
  BY <1>1, <1>4 DEF u

\* ... and after mapping and unmapping the pages of P every page has the frame
\* it had.
LEMMA UndoneFrames ==
  ASSUME IInv, Running, NEW P, P \subseteq UserPage, \A p \in P : ~IsUsed(p),
         NEW g \in FirstFrames(P), NEW h \in NewTables(P), Take(g, h), UNCHANGED <<live_dirs, clean>>,
         NEW e, e = EntriesMapped(WithTables(h), g, h),
         NEW u, u = EntriesUnmapped(e, WithTables(h), P)
  PROVE  /\ u \in [Table -> [Slot -> Frame \cup {NoFrame}]]
         /\ EntriesPrivateIn(live_tables', u, free_frames')
         /\ \A d \in live_dirs, p \in UserPage : FrameIn(tables'[d], u, p) = FrameOf(d, p)
<1> USE AddressSpacesAssumption
<1>1. e \in [Table -> [Slot -> Frame \cup {NoFrame}]] /\ EntriesPrivateIn(live_tables', e, free_frames')
  BY MappedEntries, MappedFrames
<1>2. live_tables' \subseteq Table /\ Null \notin Table
  BY TakeFacts
<1>3. u \in [Table -> [Slot -> Frame \cup {NoFrame}]] /\ EntriesPrivateIn(live_tables', u, free_frames')
  BY <1>1, <1>2, UnmappedEntries
<1>4. \A t \in Table, j \in Slot :
        u[t][j] = IF \E q \in P : WithTables(h)[IndexOf(q)] = t /\ SlotOf(q) = j
                  THEN NoFrame ELSE e[t][j]
  BY DEF EntriesUnmapped
<1>5. current \in live_dirs /\ tables'[current] = WithTables(h)
  BY TakeFacts DEF Running
<1>6. ASSUME NEW d \in live_dirs, NEW p \in UserPage
      PROVE  FrameIn(tables'[d], u, p) = FrameOf(d, p)
  <2> DEFINE t == tables'[d][IndexOf(p)]
  <2>1. SlotOf(p) \in Slot
    BY PageParts
  <2>2. CASE d = current /\ p \in P
    <3>1. t \in Table
      BY <1>2, <1>5, <2>2, TakeFacts
    <3>2. u[t][SlotOf(p)] = NoFrame
      BY <1>4, <1>5, <2>1, <2>2, <3>1
    <3>3. FrameOf(current, p) = NoFrame
      <4>1. p < KernelBase
        BY <2>2 DEF UserPage, KernelBase, Index
      <4>2. QED
        BY <2>2, <4>1 DEF IsUsed
    <3>4. QED
      BY <2>2, <3>1, <3>2, <3>3 DEF FrameIn
  <2>3. CASE ~ (d = current /\ p \in P)
    <3>1. FrameIn(tables'[d], e, p) = FrameOf(d, p)
      BY <2>3, MappedFrames
    <3>2. CASE t \in Table
      <4>1. ASSUME NEW q \in P, WithTables(h)[IndexOf(q)] = t, SlotOf(q) = SlotOf(p) PROVE FALSE
        <5>1. \A a, c \in live_dirs, i, k \in 0 .. KernelIndex - 1 :
                tables'[a][i] = tables'[c][k] /\ tables'[a][i] # Null => a = c /\ i = k
          BY TakeKeepsTables DEF TablesOwnedOnce, IInv
        <5>2. tables'[d][IndexOf(p)] = tables'[current][IndexOf(q)] /\ tables'[d][IndexOf(p)] # Null
          BY <1>2, <1>5, <3>2, <4>1
        <5>3. q \in UserPage
          OBVIOUS
        <5>4. SlotOf(p) = SlotOf(q)
          BY <4>1
        <5>5. IndexOf(p) \in 0 .. KernelIndex - 1 /\ IndexOf(q) \in 0 .. KernelIndex - 1
          BY <5>3, PageParts
        <5>6. d = current /\ IndexOf(p) = IndexOf(q)
          BY <1>5, <5>1, <5>2, <5>5
        <5>7. p = q
          BY <5>3, <5>4, <5>6, OnePage
        <5>8. QED
          BY <2>3, <5>6, <5>7
      <4>2. u[t][SlotOf(p)] = e[t][SlotOf(p)]
        BY <1>4, <2>1, <3>2, <4>1
      <4>3. QED
        BY <3>1, <3>2, <4>2 DEF FrameIn
    <3>3. CASE t \notin Table
      BY <3>1, <3>3 DEF FrameIn
    <3>4. QED
      BY <3>2, <3>3
  <2>4. QED
    BY <2>2, <2>3
<1>7. QED
  BY <1>3, <1>6

-----------------------------------------------------------------------------
(* The steps.                                                              *)

\* The part of the invariant that mapping could disturb.
MemInv ==
  /\ tables \in [Dir \cup {KernelDir} -> [Index -> Table \cup KernelTable \cup {Null}]]
  /\ live_tables \subseteq Table
  /\ entry \in [Table -> [Slot -> Frame \cup {NoFrame}]]
  /\ free_frames \subseteq Frame
  /\ tlb \subseteq UserPage \X Frame
  /\ KernelTablesFixed
  /\ TablesOwnedOnce
  /\ EntriesPrivate
  /\ TlbCoherent

\* What the CPU has cached concerns pages that are used.
LEMMA CachedIsUsed ==
  ASSUME IInv, NEW x \in tlb
  PROVE  x[1] \in UserPage /\ x[2] \in Frame /\ IsUsed(x[1]) /\ FrameOf(current, x[1]) = x[2]
<1> USE AddressSpacesAssumption
<1>1. x[1] \in UserPage /\ x[2] \in Frame
  BY DEF IInv, TypeOK
<1>2. FrameOf(current, x[1]) = x[2]
  BY DEF IInv, TlbCoherent
<1>3. x[2] # NoFrame
  BY <1>1 DEF NoFrame
<1>4. x[1] < KernelBase
  BY <1>1 DEF UserPage, KernelBase, Index
<1>5. QED
  BY <1>1, <1>2, <1>3, <1>4 DEF IsUsed

\* vmm_map_memory, where it succeeds, keeps the invariant.
LEMMA MapStep ==
  ASSUME IInv, Running, NEW start, NEW size, MapMemory(start, size), UNCHANGED <<live_dirs, current, clean>>
  PROVE  MemInv'
<1> USE AddressSpacesAssumption
<1> DEFINE P == RangePages(start, size)
<1>1. P \subseteq UserPage /\ \A p \in P : ~IsUsed(p)
  BY DEF MapMemory
<1>2. PICK g \in FirstFrames(P), h \in NewTables(P) :
        /\ Take(g, h)
        /\ entry' = EntriesMapped(WithTables(h), g, h)
        /\ tlb' = tlb \cup {<<p, g[p]>> : p \in P}
  BY DEF MapMemory
<1> HIDE DEF P
<1>3. UNCHANGED <<live_dirs, clean>>
  OBVIOUS
<1>4. /\ tables' \in [Dir \cup {KernelDir} -> [Index -> Table \cup KernelTable \cup {Null}]]
      /\ live_tables' \subseteq Table
      /\ free_frames' = free_frames \ Range(g)
      /\ g \in [P -> free_frames]
  BY <1>1, <1>2, <1>3, TakeFacts
<1>5. KernelTablesFixed' /\ TablesOwnedOnce'
  BY <1>1, <1>2, <1>3, TakeKeepsTables
<1>6. entry' \in [Table -> [Slot -> Frame \cup {NoFrame}]]
  BY <1>1, <1>2, <1>3, MappedEntries
<1>7. /\ EntriesPrivateIn(live_tables', entry', free_frames')
      /\ \A p \in P : FrameIn(tables'[current], entry', p) = g[p]
      /\ \A d \in live_dirs, p \in UserPage :
           d # current \/ p \notin P => FrameIn(tables'[d], entry', p) = FrameOf(d, p)
  BY <1>1, <1>2, <1>3, MappedFrames
<1>8. EntriesPrivate'
  BY <1>7 DEF EntriesPrivate, EntriesPrivateIn
<1>9. free_frames' \subseteq Frame /\ \A p \in P : g[p] \in Frame
  BY <1>4 DEF IInv, TypeOK
<1>10. tlb' \subseteq UserPage \X Frame
  BY <1>1, <1>2, <1>9 DEF IInv, TypeOK
<1>11. ASSUME NEW x \in tlb' PROVE current' # KernelDir /\ FrameOf(current, x[1])' = x[2]
  <2>1. current' = current /\ current \in live_dirs /\ current # KernelDir
    BY DEF Running, IInv, TypeOK
  <2>2. CASE x \in tlb
    <3>1. x[1] \in UserPage /\ IsUsed(x[1]) /\ FrameOf(current, x[1]) = x[2]
      BY <2>2, CachedIsUsed
    <3>2. x[1] \notin P
      BY <1>1, <3>1
    <3>3. FrameIn(tables'[current], entry', x[1]) = x[2]
      BY <1>7, <2>1, <3>1, <3>2
    <3>4. QED
      BY <2>1, <3>3 DEF FrameOf, FrameIn
  <2>3. CASE x \in {<<p, g[p]>> : p \in P}
    <3>1. PICK p \in P : x = <<p, g[p]>>
      BY <2>3
    <3>2. FrameIn(tables'[current], entry', x[1]) = x[2]
      BY <1>7, <3>1
    <3>3. QED
      BY <2>1, <3>2 DEF FrameOf, FrameIn
  <2>4. QED
    BY <1>2, <2>2, <2>3
<1>12. TlbCoherent'
  BY <1>11 DEF TlbCoherent
<1>13. QED
  BY <1>4, <1>5, <1>6, <1>8, <1>9, <1>10, <1>12 DEF MemInv

\* A refused mapping also leaves every page the frame it had.
LEMMA BlockedStep ==
  ASSUME IInv, Running, NEW start, NEW size, MapMemoryBlocked(start, size),
         UNCHANGED <<live_dirs, current, clean>>
  PROVE  /\ MemInv'
         /\ \A d \in live_dirs, p \in UserPage : FrameOf(d, p)' = FrameOf(d, p)
<1> USE AddressSpacesAssumption
<1> DEFINE P == Prefix(RangePages(start, size))
<1>1. P \subseteq UserPage
  BY DEF MapMemoryBlocked
<1>2. \A p \in P : ~IsUsed(p)
  <2>1. ASSUME NEW p \in P PROVE p <= p
    BY <1>1 DEF UserPage, KernelBase, Index
  <2>2. QED
    BY <2>1 DEF Prefix
<1>3. PICK g \in FirstFrames(P), h \in NewTables(P) :
        /\ Take(g, h)
        /\ entry' = EntriesUnmapped(EntriesMapped(WithTables(h), g, h), WithTables(h), P)
        /\ tlb' = {x \in tlb \cup {<<p, g[p]>> : p \in P} : x[1] \notin P}
  BY DEF MapMemoryBlocked
<1> HIDE DEF P
<1>4. UNCHANGED <<live_dirs, clean>>
  OBVIOUS
<1>5. /\ tables' \in [Dir \cup {KernelDir} -> [Index -> Table \cup KernelTable \cup {Null}]]
      /\ live_tables' \subseteq Table
      /\ free_frames' = free_frames \ Range(g)
  BY <1>1, <1>3, <1>4, TakeFacts
<1>6. KernelTablesFixed' /\ TablesOwnedOnce'
  BY <1>1, <1>3, <1>4, TakeKeepsTables
<1>7. /\ entry' \in [Table -> [Slot -> Frame \cup {NoFrame}]]
      /\ EntriesPrivateIn(live_tables', entry', free_frames')
      /\ \A d \in live_dirs, p \in UserPage : FrameIn(tables'[d], entry', p) = FrameOf(d, p)
  BY <1>1, <1>2, <1>3, <1>4, UndoneFrames
<1>8. EntriesPrivate'
  BY <1>7 DEF EntriesPrivate, EntriesPrivateIn
<1>9. free_frames' \subseteq Frame
  BY <1>5 DEF IInv, TypeOK
<1>10. tlb' \subseteq tlb
  <2>1. ASSUME NEW x \in tlb' PROVE x \in tlb
    <3>1. x[1] \notin P
      BY <1>3
    <3>2. ASSUME NEW p \in P, x = <<p, g[p]>> PROVE FALSE
      BY <3>1, <3>2
    <3>3. QED
      BY <1>3, <3>2
  <2>2. QED
    BY <2>1
<1>11. \A d \in live_dirs, p \in UserPage : FrameOf(d, p)' = FrameOf(d, p)
  BY <1>7 DEF FrameOf, FrameIn
<1>12. ASSUME NEW x \in tlb' PROVE current' # KernelDir /\ FrameOf(current, x[1])' = x[2]
  <2>1. current' = current /\ current \in live_dirs /\ current # KernelDir
    BY DEF Running, IInv, TypeOK
  <2>2. x[1] \in UserPage /\ FrameOf(current, x[1]) = x[2]
    BY <1>10, CachedIsUsed
  <2>3. FrameIn(tables'[current], entry', x[1]) = x[2]
    BY <1>7, <2>1, <2>2
  <2>4. QED
    BY <2>1, <2>3 DEF FrameOf, FrameIn
<1>13. TlbCoherent'
  BY <1>12 DEF TlbCoherent
<1>14. tlb' \subseteq UserPage \X Frame
  BY <1>10 DEF IInv, TypeOK
<1>15. QED
  BY <1>5, <1>6, <1>7, <1>8, <1>9, <1>11, <1>13, <1>14 DEF MemInv

\* The kernel's directory maps no user page, and neither does one made of its
\* tables.
LEMMA KernelHasNoUserPages ==
  ASSUME IInv, NEW p \in UserPage, NEW e
  PROVE  tables[KernelDir][IndexOf(p)] = Null /\ FrameIn(tables[KernelDir], e, p) = NoFrame
<1> USE AddressSpacesAssumption
<1>1. IndexOf(p) \in Index /\ ~ (IndexOf(p) >= KernelIndex)
  BY PageParts DEF Index
<1>2. tables[KernelDir][IndexOf(p)] = Null
  BY <1>1 DEF IInv, KernelTablesFixed
<1>3. QED
  BY <1>2 DEF FrameIn

\* vmm_create_address_space, given wiped memory, makes a directory with nothing in
\* user space.
LEMMA CreateStep ==
  ASSUME IInv, clean', NEW d \in Dir, CreateSpace(d)
  PROVE  MemInv' /\ current' \in live_dirs' \cup {KernelDir}
<1> USE AddressSpacesAssumption
<1>1. d \notin live_dirs /\ live_dirs' = live_dirs \cup {d} /\ current' = current
      /\ UNCHANGED <<live_tables, entry, free_frames, tlb>>
  BY DEF CreateSpace
<1>2. PICK wiped \in BOOLEAN :
        tables' = [tables EXCEPT ![d] = [i \in Index |->
                     IF tables[KernelDir][i] # Null THEN tables[KernelDir][i]
                     ELSE IF wiped THEN Null ELSE @[i]]]
  BY DEF CreateSpace
<1>3. tables \in [Dir \cup {KernelDir} -> [Index -> Table \cup KernelTable \cup {Null}]]
  BY DEF IInv, TypeOK
<1>4. tables' \in [Dir \cup {KernelDir} -> [Index -> Table \cup KernelTable \cup {Null}]]
  BY <1>2, <1>3
<1>5. \A i \in Index : tables'[d][i] = tables[KernelDir][i]
  <2>1. \A i \in Index : i < KernelIndex => tables'[d][i] = Null
    BY DEF CreateSpace
  <2>2. ASSUME NEW i \in Index PROVE tables'[d][i] = tables[KernelDir][i]
    <3>1. CASE i >= KernelIndex
      BY <3>1, <1>2, <1>3 DEF IInv, KernelTablesFixed
    <3>2. CASE ~ (i >= KernelIndex)
      BY <3>2, <2>1 DEF IInv, KernelTablesFixed, Index
    <3>3. QED
      BY <3>1, <3>2
  <2>3. QED
    BY <2>2
<1>6. \A c \in (Dir \cup {KernelDir}) \ {d} : tables'[c] = tables[c]
  BY <1>2, <1>3
<1>7. tables'[KernelDir] = tables[KernelDir]
  BY <1>6
<1>8. KernelTablesFixed'
  BY <1>7 DEF KernelTablesFixed, IInv
<1>9. \A i \in 0 .. KernelIndex - 1 : i \in Index /\ tables'[d][i] = Null
  BY <1>5 DEF IInv, KernelTablesFixed, Index
<1>10. live_dirs \subseteq (Dir \cup {KernelDir}) \ {d} /\ Null \notin live_tables
  BY <1>1 DEF IInv, TypeOK
<1>11. ASSUME NEW c \in live_dirs', NEW i \in Index
       PROVE  IF i >= KernelIndex THEN tables'[c][i] = tables'[KernelDir][i]
              ELSE tables'[c][i] # Null => tables'[c][i] \in live_tables'
  <2>1. CASE c = d
    <3>1. ~ (i >= KernelIndex) => i \in 0 .. KernelIndex - 1
      BY DEF Index
    <3>2. QED
      BY <1>5, <1>7, <1>9, <2>1, <3>1
  <2>2. CASE c \in live_dirs
    <3>1. tables'[c] = tables[c]
      BY <1>6, <1>10, <2>2
    <3>2. QED
      BY <1>1, <1>7, <2>2, <3>1 DEF IInv, TablesOwnedOnce
  <2>3. QED
    BY <1>1, <2>1, <2>2
<1>12. ASSUME NEW t \in live_tables' PROVE \E c \in live_dirs', i \in Index : tables'[c][i] = t
  <2>1. PICK c \in live_dirs, i \in Index : tables[c][i] = t
    BY <1>1 DEF IInv, TablesOwnedOnce
  <2>2. tables'[c][i] = t /\ c \in live_dirs'
    BY <1>1, <1>6, <1>10, <2>1
  <2>3. QED
    BY <2>2
<1>13. ASSUME NEW a \in live_dirs', NEW c \in live_dirs',
              NEW i \in 0 .. KernelIndex - 1, NEW k \in 0 .. KernelIndex - 1,
              tables'[a][i] = tables'[c][k], tables'[a][i] # Null
       PROVE  a = c /\ i = k
  <2>1. a # d /\ c # d
    BY <1>9, <1>13
  <2>2. a \in live_dirs /\ c \in live_dirs
    BY <1>1, <2>1
  <2>3. tables[a][i] = tables[c][k] /\ tables[a][i] # Null
    BY <1>6, <1>10, <1>13, <2>2
  <2>4. QED
    BY <2>2, <2>3 DEF IInv, TablesOwnedOnce
<1>14. TablesOwnedOnce'
  BY <1>11, <1>12, <1>13 DEF TablesOwnedOnce
<1>15. EntriesPrivate'
  BY <1>1 DEF IInv, EntriesPrivate, EntriesPrivateIn
<1>16. current \in (Dir \cup {KernelDir}) \ {d} /\ current' \in live_dirs' \cup {KernelDir}
  BY <1>1, <1>10 DEF IInv, TypeOK
<1>17. tables'[current] = tables[current]
  BY <1>6, <1>16
<1>18. TlbCoherent'
  BY <1>1, <1>17 DEF IInv, TlbCoherent, FrameOf, FrameIn
<1>19. QED
  BY <1>1, <1>4, <1>8, <1>14, <1>15, <1>16, <1>18 DEF MemInv, IInv, TypeOK

\* vmm_switch_address_space makes the CPU see the new directory's pages only.
LEMMA SwitchStep ==
  ASSUME IInv, NEW d \in Dir \cup {KernelDir}, Switch(d)
  PROVE  MemInv' /\ current' \in live_dirs' \cup {KernelDir}
<1> USE AddressSpacesAssumption
<1>1. UNCHANGED <<live_dirs, tables, live_tables, entry, free_frames>>
      /\ current' = d /\ d \in live_dirs \cup {KernelDir} /\ tlb' = Translations(tables[d], entry)
  BY DEF Switch
<1>2. KernelTablesFixed' /\ TablesOwnedOnce' /\ EntriesPrivate'
  BY <1>1 DEF IInv, KernelTablesFixed, TablesOwnedOnce, EntriesPrivate, EntriesPrivateIn
<1>3. ASSUME NEW x \in tlb'
      PROVE  x \in UserPage \X Frame /\ current' # KernelDir /\ FrameOf(current, x[1])' = x[2]
  <2>1. PICK p \in UserPage : FrameIn(tables[d], entry, p) # NoFrame /\ x = <<p, FrameIn(tables[d], entry, p)>>
    BY <1>1 DEF Translations
  <2>2. d # KernelDir
    BY <2>1, KernelHasNoUserPages
  <2>3. FrameIn(tables[d], entry, p) \in Frame
    <3>1. tables[d][IndexOf(p)] \in Table /\ SlotOf(p) \in Slot
      BY <2>1, PageParts DEF FrameIn
    <3>2. entry[tables[d][IndexOf(p)]][SlotOf(p)] \in Frame \cup {NoFrame}
      BY <3>1 DEF IInv, TypeOK
    <3>3. QED
      BY <2>1, <3>1, <3>2 DEF FrameIn
  <2>4. FrameOf(current, x[1])' = FrameIn(tables[d], entry, x[1])
    BY <1>1 DEF FrameOf, FrameIn
  <2>5. QED
    BY <1>1, <2>1, <2>2, <2>3, <2>4
<1>4. TlbCoherent' /\ tlb' \subseteq UserPage \X Frame
  BY <1>3 DEF TlbCoherent
<1>5. QED
  BY <1>1, <1>2, <1>4 DEF MemInv, IInv, TypeOK

\* vmm_destroy_address_space frees the page tables of its directory and no others.
LEMMA DestroyStep ==
  ASSUME IInv, DestroySpace
  PROVE  MemInv' /\ current' \in live_dirs' \cup {KernelDir} /\ live_dirs' \subseteq Dir
<1> USE AddressSpacesAssumption
<1>1. /\ current \in live_dirs
      /\ entry' = EntriesUnmapped(entry, tables[current], UserPage)
      /\ live_tables' = live_tables \ OwnTables(current)
      /\ live_dirs' = live_dirs \ {current}
      /\ current' = KernelDir
      /\ tlb' = Translations(tables[KernelDir], entry')
      /\ tables' = tables /\ free_frames' = free_frames
  BY DEF DestroySpace, Running
<1>2. live_tables \subseteq Table /\ EntriesPrivateIn(live_tables, entry, free_frames)
      /\ entry \in [Table -> [Slot -> Frame \cup {NoFrame}]]
  BY DEF IInv, TypeOK, EntriesPrivate
<1>3. entry' \in [Table -> [Slot -> Frame \cup {NoFrame}]] /\ EntriesPrivateIn(live_tables, entry', free_frames)
  BY <1>1, <1>2, UnmappedEntries
<1>4. EntriesPrivate'
  BY <1>1, <1>3 DEF EntriesPrivate, EntriesPrivateIn
<1>5. tlb' = {}
  BY <1>1, KernelHasNoUserPages DEF Translations
<1>6. KernelTablesFixed'
  BY <1>1 DEF IInv, KernelTablesFixed
<1>7. ASSUME NEW d \in live_dirs', NEW i \in Index
      PROVE  IF i >= KernelIndex THEN tables'[d][i] = tables'[KernelDir][i]
             ELSE tables'[d][i] # Null => tables'[d][i] \in live_tables'
  <2>1. d \in live_dirs /\ d # current
    BY <1>1
  <2>2. CASE i >= KernelIndex
    BY <1>1, <2>1, <2>2 DEF IInv, TablesOwnedOnce
  <2>3. CASE ~ (i >= KernelIndex) /\ tables[d][i] # Null
    <3>1. tables[d][i] \in live_tables
      BY <2>1, <2>3 DEF IInv, TablesOwnedOnce
    <3>2. ASSUME tables[d][i] \in OwnTables(current) PROVE FALSE
      <4>1. PICK k \in Index : tables[d][i] = tables[current][k] /\ tables[current][k] # tables[KernelDir][k]
        BY <3>2 DEF OwnTables
      <4>2. ~ (k >= KernelIndex)
        BY <1>1, <4>1 DEF IInv, TablesOwnedOnce
      <4>3. i \in 0 .. KernelIndex - 1 /\ k \in 0 .. KernelIndex - 1
        BY <2>3, <4>2 DEF Index
      <4>4. QED
        BY <1>1, <2>1, <2>3, <4>1, <4>3 DEF IInv, TablesOwnedOnce
    <3>3. QED
      BY <1>1, <2>3, <3>1, <3>2
  <2>4. QED
    BY <1>1, <2>2, <2>3
<1>8. ASSUME NEW t \in live_tables' PROVE \E d \in live_dirs', i \in Index : tables'[d][i] = t
  <2>1. t \in live_tables /\ t \notin OwnTables(current) /\ t \in Table
    BY <1>1, <1>2
  <2>2. PICK d \in live_dirs, i \in Index : tables[d][i] = t
    BY <2>1 DEF IInv, TablesOwnedOnce
  <2>3. tables[KernelDir][i] \notin Table /\ t # Null
    BY <2>1 DEF IInv, KernelTablesFixed
  <2>4. d # current
    BY <2>1, <2>2, <2>3 DEF OwnTables
  <2>5. QED
    BY <1>1, <2>2, <2>4
<1>9. \A a, c \in live_dirs', i, k \in 0 .. KernelIndex - 1 :
        tables'[a][i] = tables'[c][k] /\ tables'[a][i] # Null => a = c /\ i = k
  BY <1>1 DEF IInv, TablesOwnedOnce
<1>10. TablesOwnedOnce'
  BY <1>7, <1>8, <1>9 DEF TablesOwnedOnce
<1>11. TlbCoherent' /\ tlb' \subseteq UserPage \X Frame
  BY <1>5 DEF TlbCoherent
<1>12. QED
  BY <1>1, <1>3, <1>4, <1>6, <1>10, <1>11 DEF MemInv, IInv, TypeOK

\* Addresses stay natural numbers.
LEMMA HeapAddresses ==
  ASSUME IInv, Running, NEW n \in HeapRequests, NEW start \in Starts(HeapEnd, HeapBytes(n))
  PROVE  start \in Nat /\ (start + HeapBytes(n) - 1) % AddressSize \in Nat
<1> USE AddressSpacesAssumption
<1>1. AddressSize \in Nat \ {0}
  BY DEF AddressSize, Index
<1>2. current \in Dir /\ heap_limit[current] \in Nat
  BY DEF Running, IInv, TypeOK
<1>3. \A a \in Int : a % AddressSize \in Nat
  BY <1>1
<1>4. HeapEnd \in Nat
  BY <1>2, <1>3 DEF HeapEnd, NULL
<1>5. HeapBytes(n) \in Nat
  BY <1>3 DEF HeapBytes
<1>6. start \in Nat
  <2>1. CASE HeapEnd = NULL
    <3>1. PICK p \in UserPage : start = p * PageSize
      BY <2>1 DEF Starts, FindFree, FreeRegions
    <3>2. p \in Nat
      BY DEF UserPage, KernelBase, Index
    <3>3. QED
      BY <3>1, <3>2
  <2>2. CASE HeapEnd # NULL
    <3>1. start = HeapEnd - (HeapEnd % PageSize)
      BY <2>2 DEF Starts, AlignDown
    <3>2. HeapEnd % PageSize \in 0 .. HeapEnd
      BY <1>4
    <3>3. QED
      BY <1>4, <3>1, <3>2
  <2>3. QED
    BY <2>1, <2>2
<1>7. start + HeapBytes(n) - 1 \in Int
  BY <1>5, <1>6
<1>8. QED
  BY <1>3, <1>6, <1>7

\* The invariant holds when the kernel has booted ...
LEMMA InitIInv == Init => IInv
<1> USE AddressSpacesAssumption
<1> SUFFICES ASSUME Init PROVE IInv
  OBVIOUS
<1>1. PICK k \in [KernelIndex .. NumTables - 1 -> KernelTable] :
        tables = [d \in Dir \cup {KernelDir} |->
                   [i \in Index |-> IF d = KernelDir /\ i >= KernelIndex THEN k[i] ELSE Null]]
  BY DEF Init
<1>2. \A i \in Index : i >= KernelIndex => k[i] \in KernelTable
  BY DEF Index
<1>3. tables \in [Dir \cup {KernelDir} -> [Index -> Table \cup KernelTable \cup {Null}]]
  BY <1>1, <1>2
<1>4. KernelTablesFixed
  BY <1>1, <1>2 DEF KernelTablesFixed
<1>5. TypeOK
  BY <1>3 DEF Init, TypeOK, NULL
<1>6. TablesOwnedOnce /\ EntriesPrivate /\ TlbCoherent
  BY DEF Init, TablesOwnedOnce, EntriesPrivate, EntriesPrivateIn, TlbCoherent
<1>7. QED
  BY <1>4, <1>5, <1>6 DEF IInv, Init

\* ... and every operation keeps it as long as new directories are wiped.
LEMMA NextIInv == ASSUME IInv, [Next]_vars, clean' PROVE IInv'
<1> USE AddressSpacesAssumption
<1> DEFINE Rest == /\ live_dirs' \subseteq Dir
                   /\ current' \in live_dirs' \cup {KernelDir}
                   /\ heap_base' \in [Dir -> Nat]
                   /\ heap_limit' \in [Dir -> Nat]
                   /\ panic' \in BOOLEAN
                   /\ wrapped' \subseteq Dir
<1>1. MemInv' /\ Rest => IInv'
  BY DEF MemInv, IInv, TypeOK
<1>2. /\ live_dirs \subseteq Dir /\ current \in live_dirs \cup {KernelDir}
      /\ heap_base \in [Dir -> Nat] /\ heap_limit \in [Dir -> Nat] /\ panic \in BOOLEAN
      /\ wrapped \subseteq Dir
  BY DEF IInv, TypeOK
<1>3. ASSUME NEW d \in Dir, CreateSpace(d) PROVE IInv'
  <2>1. MemInv' /\ current' \in live_dirs' \cup {KernelDir}
    BY <1>3, CreateStep
  <2>2. heap_base' \in [Dir -> Nat] /\ heap_limit' \in [Dir -> Nat]
    BY <1>2, <1>3 DEF CreateSpace, NULL
  <2>3. live_dirs' \subseteq Dir /\ panic' \in BOOLEAN /\ wrapped' \subseteq Dir
    BY <1>2, <1>3 DEF CreateSpace
  <2>4. QED
    BY <1>1, <2>1, <2>2, <2>3
<1>4. ASSUME NEW d \in Dir \cup {KernelDir}, Switch(d) PROVE IInv'
  BY <1>1, <1>2, <1>4, SwitchStep DEF Switch, heapVars
<1>5. ASSUME NEW s \in Segments, LoadSegment(s) PROVE IInv'
  <2>1. MemInv'
    BY <1>5, MapStep DEF LoadSegment
  <2>2. QED
    BY <1>1, <1>2, <1>5, <2>1 DEF LoadSegment, heapVars
<1>6. ASSUME NEW s \in Segments, LoadSegmentFails(s) PROVE IInv'
  <2>1. MemInv'
    BY <1>6, BlockedStep DEF LoadSegmentFails
  <2>2. QED
    BY <1>1, <1>2, <1>6, <2>1 DEF LoadSegmentFails, heapVars
<1>7. CASE MapStack
  <2>1. MemInv'
    BY <1>7, MapStep DEF MapStack
  <2>2. QED
    BY <1>1, <1>2, <1>7, <2>1 DEF MapStack, heapVars
<1>8. ASSUME NEW n \in HeapRequests, AllocHeap(n) PROVE IInv'
  <2>1. PICK start \in Starts(HeapEnd, HeapBytes(n)) :
          /\ MapMemory(start, HeapBytes(n))
          /\ heap_base' = [heap_base EXCEPT ![current] = IF @ = NULL THEN start ELSE @]
          /\ heap_limit' = [heap_limit EXCEPT ![current] = (start + HeapBytes(n) - 1) % AddressSize]
          /\ wrapped' \subseteq wrapped \cup {current}
    BY <1>8 DEF AllocHeap
  <2>2. Running /\ UNCHANGED <<live_dirs, current, panic, clean>>
    BY <1>8 DEF AllocHeap
  <2>3. MemInv'
    BY <2>1, <2>2, MapStep
  <2>4. start \in Nat /\ (start + HeapBytes(n) - 1) % AddressSize \in Nat
    BY <2>2, HeapAddresses
  <2>5. heap_base' \in [Dir -> Nat] /\ heap_limit' \in [Dir -> Nat]
    BY <1>2, <2>1, <2>4
  <2>6. wrapped' \subseteq Dir
    BY <1>2, <2>1, <2>2, AddressSpacesAssumption DEF Running
  <2>7. QED
    BY <1>1, <1>2, <2>2, <2>3, <2>5, <2>6
<1>9. ASSUME NEW n \in HeapRequests, AllocHeapFails(n) PROVE IInv'
  <2>1. MemInv'
    BY <1>9, BlockedStep DEF AllocHeapFails
  <2>2. QED
    BY <1>1, <1>2, <1>9, <2>1 DEF AllocHeapFails, heapVars
<1>10. CASE DestroySpace
  <2>1. MemInv' /\ current' \in live_dirs' \cup {KernelDir} /\ live_dirs' \subseteq Dir
    BY <1>10, DestroyStep
  <2>2. QED
    BY <1>1, <1>2, <1>10, <2>1 DEF DestroySpace, heapVars
<1>11. CASE Panic
  BY <1>11 DEF Panic, memVars, heapVars, IInv, TypeOK, KernelTablesFixed, TablesOwnedOnce,
       EntriesPrivate, EntriesPrivateIn, TlbCoherent, FrameOf, FrameIn
<1>12. CASE UNCHANGED vars
  BY <1>12 DEF vars, memVars, heapVars, IInv, TypeOK, KernelTablesFixed, TablesOwnedOnce,
       EntriesPrivate, EntriesPrivateIn, TlbCoherent, FrameOf, FrameIn
<1>13. QED
  BY <1>3, <1>4, <1>5, <1>6, <1>7, <1>8, <1>9, <1>10, <1>11, <1>12 DEF Next

-----------------------------------------------------------------------------
(* The theorems.  The history of a kernel is clean until kmalloc_a returns  *)
(* memory for a new directory that still holds pointers; the invariant is   *)
(* one of clean histories, and nothing else is assumed.                     *)

\* A history that is clean has always been.
LEMMA CleanBefore == ASSUME [Next]_vars, clean' PROVE clean
<1>1. clean' = clean \/ \E d \in Dir : CreateSpace(d)
  BY DEF Next, Switch, LoadSegment, LoadSegmentFails, MapStack, AllocHeap, AllocHeapFails,
     DestroySpace, Panic, vars
<1>2. QED
  BY <1>1 DEF CreateSpace

\* IInv is an invariant of vmm.c, paging.c and syscall_alloc_heap.
THEOREM SpacesInvariant == Spec => [](clean => IInv)
<1>1. Init => (clean => IInv)
  BY InitIInv
<1>2. ASSUME clean => IInv, [Next]_vars PROVE (clean => IInv)'
  BY <1>2, NextIInv, CleanBefore
<1>3. QED
  BY <1>1, <1>2, PTL DEF Spec

\* Page tables in use have one owner after any sequence of mappings, refusals,
\* switches and ends that found memory for directories wiped.
THEOREM SpacesTablesOwned == Spec => []TablesOwnedOnce /\ [](clean => TypeOK)
<1>1. (clean => IInv) => TablesOwnedOnce /\ (clean => TypeOK)
  BY DEF IInv, TablesOwnedOnce
<1>2. QED
  BY <1>1, SpacesInvariant, PTL

\* Then no translation that the CPU may have cached contradicts the page tables, also
\* after a mapping was undone or the last user of a page table has ended.
THEOREM SpacesTlbCoherent == Spec => []TlbCoherent
<1>1. (clean => IInv) => TlbCoherent
  BY DEF IInv, TlbCoherent
<1>2. QED
  BY <1>1, SpacesInvariant, PTL

\* Then no two processes, and no two pages of one, ever share a frame.
THEOREM SpacesFramesPrivate == Spec => []FramesPrivate
<1> USE AddressSpacesAssumption
<1>1. ASSUME IInv, NEW d \in live_dirs, NEW p \in UserPage, FrameOf(d, p) # NoFrame
      PROVE  /\ tables[d][IndexOf(p)] \in live_tables
             /\ FrameOf(d, p) = entry[tables[d][IndexOf(p)]][SlotOf(p)]
             /\ IndexOf(p) \in 0 .. KernelIndex - 1 /\ SlotOf(p) \in Slot
  <2>1. IndexOf(p) \in 0 .. KernelIndex - 1 /\ SlotOf(p) \in Slot
        /\ IndexOf(p) \in Index /\ ~ (IndexOf(p) >= KernelIndex)
    BY PageParts DEF Index
  <2>2. tables[d][IndexOf(p)] \in Table /\ FrameOf(d, p) = entry[tables[d][IndexOf(p)]][SlotOf(p)]
    BY <1>1 DEF FrameOf, FrameIn
  <2>3. tables[d][IndexOf(p)] \in live_tables
    BY <1>1, <2>1, <2>2 DEF IInv, TablesOwnedOnce
  <2>4. QED
    BY <2>1, <2>2, <2>3
<1>2. (clean => IInv) => FramesPrivate
  <2> SUFFICES ASSUME IInv, NEW d \in live_dirs, NEW p \in UserPage, FrameOf(d, p) # NoFrame
               PROVE  /\ FrameOf(d, p) \notin free_frames
                      /\ \A e \in live_dirs, q \in UserPage : FrameOf(d, p) = FrameOf(e, q) => d = e /\ p = q
    BY DEF FramesPrivate
  <2>1. EntriesPrivateIn(live_tables, entry, free_frames)
    BY DEF IInv, EntriesPrivate
  <2>2. FrameOf(d, p) \notin free_frames
    BY <1>1, <2>1 DEF EntriesPrivateIn
  <2>3. ASSUME NEW e \in live_dirs, NEW q \in UserPage, FrameOf(d, p) = FrameOf(e, q)
        PROVE  d = e /\ p = q
    <3>1. /\ tables[d][IndexOf(p)] \in live_tables
          /\ FrameOf(d, p) = entry[tables[d][IndexOf(p)]][SlotOf(p)]
          /\ IndexOf(p) \in 0 .. KernelIndex - 1 /\ SlotOf(p) \in Slot
      BY <1>1
    <3>2. /\ tables[e][IndexOf(q)] \in live_tables
          /\ FrameOf(e, q) = entry[tables[e][IndexOf(q)]][SlotOf(q)]
          /\ IndexOf(q) \in 0 .. KernelIndex - 1 /\ SlotOf(q) \in Slot
      BY <1>1, <2>3
    <3>3. tables[d][IndexOf(p)] = tables[e][IndexOf(q)] /\ SlotOf(p) = SlotOf(q)
      <4>1. \A t, u \in live_tables, j, k \in Slot :
              entry[t][j] # NoFrame /\ entry[t][j] = entry[u][k] => t = u /\ j = k
        BY <2>1 DEF EntriesPrivateIn
      <4>2. entry[tables[d][IndexOf(p)]][SlotOf(p)] # NoFrame
            /\ entry[tables[d][IndexOf(p)]][SlotOf(p)] = entry[tables[e][IndexOf(q)]][SlotOf(q)]
        BY <2>3, <3>1, <3>2
      <4>3. QED
        BY <3>1, <3>2, <4>1, <4>2
    <3>4. tables[d][IndexOf(p)] # Null
      BY <3>1 DEF IInv, TypeOK
    <3>5. d = e /\ IndexOf(p) = IndexOf(q)
      BY <3>1, <3>2, <3>3, <3>4 DEF IInv, TablesOwnedOnce
    <3>6. QED
      BY <3>3, <3>5, OnePage
  <2>4. QED
    BY <2>2, <2>3
<1>3. QED
  BY <1>2, SpacesInvariant, PTL

\* vmm_map_memory that returns NULL has changed no mapping, as long as no directory
\* was made from stale memory.
THEOREM SpacesRefusalUndone == Spec => RefusedMappingUndone
<1>1. ASSUME IInv, NEW s \in Segments, LoadSegmentFails(s)
      PROVE  \A d \in live_dirs, p \in UserPage : FrameOf(d, p)' = FrameOf(d, p)
  BY <1>1, BlockedStep DEF LoadSegmentFails
<1>2. ASSUME IInv, NEW n \in HeapRequests, AllocHeapFails(n)
      PROVE  \A d \in live_dirs, p \in UserPage : FrameOf(d, p)' = FrameOf(d, p)
  BY <1>2, BlockedStep DEF AllocHeapFails
<1>3. ASSUME IInv
      PROVE  (\E s \in Segments : LoadSegmentFails(s)) \/ (\E n \in HeapRequests : AllocHeapFails(n))
               => \A d \in live_dirs, p \in UserPage : FrameOf(d, p)' = FrameOf(d, p)
  BY <1>1, <1>2, <1>3
<1>4. (clean => IInv) => [clean /\ ((\E s \in Segments : LoadSegmentFails(s)) \/ (\E n \in HeapRequests : AllocHeapFails(n)))
                 => \A d \in live_dirs, p \in UserPage : FrameOf(d, p)' = FrameOf(d, p)]_vars
  BY <1>3
<1>5. QED
  BY <1>4, SpacesInvariant, PTL DEF RefusedMappingUndone

-----------------------------------------------------------------------------
(* The heap of a process.                                                  *)

\* The heap is the pages from b to e - 1.
HeapIs(d, b, e) ==
  /\ b < e
  /\ heap_base[d] = b * PageSize
  /\ heap_limit[d] + 1 = e * PageSize
  /\ \A p \in b .. e - 1 : FrameOf(d, p) # NoFrame

\* Every address space with a heap has it on one run of pages, unless the heap was
\* asked past the end of the address space.
HeapRuns ==
  \A d \in live_dirs \ wrapped : heap_base[d] # NULL => \E b, e \in 1 .. KernelBase : HeapIs(d, b, e)

\* Multiples of the page size.
LEMMA Multiples ==
  ASSUME NEW m \in Nat \ {0}, NEW a \in Nat, NEW b \in Nat
  PROVE  /\ a * m \in Nat
         /\ a < b <=> a * m < b * m
         /\ a <= b <=> a * m <= b * m
         /\ (a + b) * m = a * m + b * m
<1>1. a * m \in Nat /\ (a + b) * m = a * m + b * m
  OBVIOUS
<1>2. ASSUME NEW x \in Nat, NEW y \in Nat, x < y PROVE x * m < y * m
  <2>1. PICK k \in Nat : y = x + 1 + k
    <3>1. y - x - 1 \in Nat /\ y = x + 1 + (y - x - 1)
      BY <1>2
    <3>2. QED
      BY <3>1
  <2>2. y * m = x * m + m + k * m
    BY <2>1
  <2>3. k * m \in Nat /\ x * m \in Nat
    OBVIOUS
  <2>4. QED
    BY <2>2, <2>3
<1>3. b * m \in Nat
  OBVIOUS
<1>4. a < b \/ a = b \/ b < a
  OBVIOUS
<1>5. QED
  BY <1>1, <1>2, <1>3, <1>4

\* A multiple of m leaves no remainder.
LEMMA MultipleMod ==
  ASSUME NEW m \in Nat \ {0}, NEW a \in Nat
  PROVE  (a * m) % m = 0
<1> DEFINE x == a * m
           q == x \div m
           r == x % m
<1>1. x \in Nat
  OBVIOUS
<1>2. q \in Nat /\ r \in 0 .. m - 1 /\ x = q * m + r
  BY <1>1
<1> HIDE DEF q, r
<1>3. ~(a < q)
  BY <1>2, Multiples
<1>4. ASSUME q < a PROVE FALSE
  <2>1. (q + 1) * m <= a * m
    BY <1>2, <1>4, Multiples
  <2>2. (q + 1) * m = q * m + m
    BY <1>2
  <2>3. q * m \in Nat
    BY <1>2
  <2> HIDE DEF x
  <2>4. QED
    BY <2>1, <2>2, <2>3, <1>2 DEF x
<1>5. a = q
  BY <1>2, <1>3, <1>4
<1>6. x = x + r
  BY <1>2, <1>5
<1>7. r = 0
  BY <1>1, <1>2, <1>6
<1>8. QED
  BY <1>7 DEF r

\* A number below m is its own remainder.
LEMMA SmallMod ==
  ASSUME NEW m \in Nat \ {0}, NEW a \in 0 .. m - 1
  PROVE  a % m = a
OBVIOUS

\* A page that is mapped in an address space stays mapped as long as the space is
\* in use.
LEMMA MapKeepsPages ==
  ASSUME IInv, Running, NEW start, NEW size, MapMemory(start, size), UNCHANGED <<live_dirs, current, clean>>
  PROVE  /\ \A d \in live_dirs, p \in UserPage :
              FrameOf(d, p) # NoFrame => FrameOf(d, p)' # NoFrame
         /\ \A p \in RangePages(start, size) : p \in UserPage /\ FrameOf(current, p)' # NoFrame
<1> USE AddressSpacesAssumption
<1> DEFINE P == RangePages(start, size)
<1>1. P \subseteq UserPage /\ \A p \in P : ~IsUsed(p)
  BY DEF MapMemory
<1>2. PICK g \in FirstFrames(P), h \in NewTables(P) :
        /\ Take(g, h)
        /\ entry' = EntriesMapped(WithTables(h), g, h)
  BY DEF MapMemory
<1> HIDE DEF P
<1>3. UNCHANGED <<live_dirs, clean>>
  OBVIOUS
<1>4. g \in [P -> free_frames]
  BY <1>1, <1>2, <1>3, TakeFacts
<1>5. /\ \A p \in P : FrameIn(tables'[current], entry', p) = g[p]
      /\ \A d \in live_dirs, p \in UserPage :
           d # current \/ p \notin P => FrameIn(tables'[d], entry', p) = FrameOf(d, p)
  BY <1>1, <1>2, <1>3, MappedFrames
<1>6. \A p \in P : g[p] # NoFrame
  BY <1>4 DEF IInv, TypeOK, NoFrame
<1>7. \A p \in P : FrameOf(current, p)' # NoFrame
  BY <1>5, <1>6 DEF FrameOf, FrameIn
<1>8. ASSUME NEW d \in live_dirs, NEW p \in UserPage, FrameOf(d, p) # NoFrame
      PROVE  FrameOf(d, p)' # NoFrame
  <2>1. d # current \/ p \notin P
    <3>1. p < KernelBase
      BY DEF UserPage, KernelBase, Index
    <3>2. QED
      BY <1>1, <1>8, <3>1 DEF IsUsed
  <2>2. FrameIn(tables'[d], entry', p) = FrameOf(d, p)
    BY <1>5, <2>1
  <2>3. QED
    BY <1>8, <2>2 DEF FrameOf, FrameIn
<1>9. QED
  BY <1>1, <1>7, <1>8 DEF P

\* Destroying one address space leaves the pages of every other mapped.
LEMMA DestroyKeepsPages ==
  ASSUME IInv, DestroySpace, NEW d \in live_dirs', NEW p \in UserPage, FrameOf(d, p) # NoFrame
  PROVE  d \in live_dirs /\ FrameOf(d, p)' # NoFrame
<1> USE AddressSpacesAssumption
<1>1. /\ current \in live_dirs /\ d \in live_dirs /\ d # current
      /\ entry' = EntriesUnmapped(entry, tables[current], UserPage)
      /\ tables' = tables
  BY DEF DestroySpace, Running
<1> DEFINE t == tables[d][IndexOf(p)]
<1>2. t \in Table /\ entry[t][SlotOf(p)] # NoFrame /\ t # Null
  BY DEF FrameOf, FrameIn
<1>3. IndexOf(p) \in 0 .. KernelIndex - 1 /\ SlotOf(p) \in Slot
  BY PageParts
<1>4. \A q \in UserPage : tables[current][IndexOf(q)] # t
  <2>1. ASSUME NEW q \in UserPage, tables[current][IndexOf(q)] = t PROVE FALSE
    <3>1. IndexOf(q) \in 0 .. KernelIndex - 1
      BY PageParts
    <3>2. QED
      BY <2>1, <3>1, <1>1, <1>2, <1>3 DEF IInv, TablesOwnedOnce
  <2>2. QED
    BY <2>1
<1>5. entry'[t][SlotOf(p)] = entry[t][SlotOf(p)]
  BY <1>1, <1>2, <1>3, <1>4 DEF EntriesUnmapped
<1>6. QED
  BY <1>1, <1>2, <1>5 DEF FrameOf, FrameIn

\* Heaps are kept by steps that keep pages and the bounds of heaps.
LEMMA HeapsKept ==
  ASSUME IInv, HeapRuns,
         \A d \in live_dirs' \ wrapped' : heap_base'[d] # NULL =>
           d \in live_dirs \ wrapped /\ heap_base'[d] = heap_base[d] /\ heap_limit'[d] = heap_limit[d],
         \A d \in live_dirs', p \in UserPage :
           d \in live_dirs /\ FrameOf(d, p) # NoFrame => FrameOf(d, p)' # NoFrame
  PROVE  HeapRuns'
<1>1. ASSUME NEW d \in live_dirs' \ wrapped', heap_base'[d] # NULL
      PROVE  \E b, e \in 1 .. KernelBase : HeapIs(d, b, e)'
  <2>1. PICK b \in 1 .. KernelBase, e \in 1 .. KernelBase : HeapIs(d, b, e)
    BY <1>1 DEF HeapRuns
  <2>2. \A p \in b .. e - 1 : p \in UserPage
    BY AddressSpacesAssumption DEF UserPage, KernelBase, Index
  <2>3. HeapIs(d, b, e)'
    BY <1>1, <2>1, <2>2 DEF HeapIs
  <2>4. QED
    BY <2>3
<1>2. QED
  BY <1>1 DEF HeapRuns

\* syscall_alloc_heap adds the pages right behind the heap.
LEMMA HeapGrows ==
  ASSUME IInv, HeapRuns, NEW n \in HeapRequests, AllocHeap(n), current \notin wrapped'
  PROVE  \E b, e \in 1 .. KernelBase : HeapIs(current, b, e)'
<1> USE AddressSpacesAssumption
<1> DEFINE size == HeapBytes(n)
<1>1. PICK start \in Starts(HeapEnd, size) :
        /\ MapMemory(start, size)
        /\ heap_base' = [heap_base EXCEPT ![current] = IF @ = NULL THEN start ELSE @]
        /\ heap_limit' = [heap_limit EXCEPT ![current] = (start + size - 1) % AddressSize]
        /\ wrapped' = wrapped \cup {d \in {current} : start + n * PageSize >= AddressSize}
  BY DEF AllocHeap
<1>2. /\ Running /\ UNCHANGED <<live_dirs, current, clean>> /\ current \in live_dirs /\ current \in Dir
      /\ heap_base \in [Dir -> Nat] /\ heap_limit \in [Dir -> Nat] /\ live_dirs \subseteq Dir
  BY DEF AllocHeap, Running, IInv, TypeOK
<1> DEFINE N == NumTables * TableSize
<1>3. /\ N \in Nat /\ KernelBase \in Nat /\ KernelBase > 0 /\ KernelBase < N
      /\ AddressSize = N * PageSize /\ AddressSize \in Nat \ {0}
  <2>1. KernelIndex * TableSize < NumTables * TableSize
    BY Multiples DEF Index
  <2>2. QED
    BY <2>1 DEF AddressSize, Index, KernelBase
<1>4. /\ n \in Nat \ {0} /\ start \in Nat
      /\ current \notin wrapped /\ start + n * PageSize < AddressSize
  <2>1. start \in Nat
    BY <1>2, HeapAddresses
  <2>2. n * PageSize \in Nat /\ n \in Nat \ {0}
    OBVIOUS
  <2>3. current \notin wrapped /\ ~ (start + n * PageSize >= AddressSize)
    BY <1>1
  <2>4. QED
    BY <2>1, <2>2, <2>3, <1>3
<1> HIDE DEF N
<1>5. size = n * PageSize
  <2>1. n * PageSize \in 0 .. AddressSize - 1
    BY <1>3, <1>4
  <2>2. QED
    BY <2>1, <1>3, SmallMod DEF HeapBytes
<1>6. \E s \in 1 .. KernelBase, b \in 1 .. KernelBase :
        /\ start = s * PageSize /\ b <= s
        /\ (IF heap_base[current] = NULL THEN start ELSE heap_base[current]) = b * PageSize
        /\ \A p \in b .. s - 1 : FrameOf(current, p) # NoFrame
  <2>1. CASE heap_base[current] = NULL
    <3>1. HeapEnd = NULL
      BY <2>1 DEF HeapEnd
    <3>2. PICK p \in UserPage : start = p * PageSize
      BY <3>1, <1>1 DEF Starts, FindFree, FreeRegions
    <3>3. p \in 1 .. KernelBase /\ \A q \in p .. p - 1 : FALSE
      BY <1>3 DEF UserPage
    <3>4. QED
      BY <2>1, <3>2, <3>3
  <2>2. CASE heap_base[current] # NULL
    <3>1. PICK b \in 1 .. KernelBase, e \in 1 .. KernelBase : HeapIs(current, b, e)
      BY <2>2, <1>2, <1>4 DEF HeapRuns
    <3>2. /\ b < e /\ heap_base[current] = b * PageSize /\ heap_limit[current] + 1 = e * PageSize
          /\ \A p \in b .. e - 1 : FrameOf(current, p) # NoFrame
      BY <3>1 DEF HeapIs
    <3>3. e \in Nat /\ 0 < e /\ e < N
      BY <1>3, <1>4
    <3>4. e * PageSize \in 0 .. AddressSize - 1 /\ 0 * PageSize < e * PageSize
      BY <3>3, <1>3, Multiples
    <3>5. (e * PageSize) % AddressSize = e * PageSize /\ (e * PageSize) % PageSize = 0
      BY <3>3, <3>4, <1>3, SmallMod, MultipleMod
    <3>6. HeapEnd = e * PageSize
      BY <2>2, <3>2, <3>5 DEF HeapEnd
    <3>7. HeapEnd # NULL
      BY <3>4, <3>6 DEF NULL
    <3>8. start = HeapEnd - (HeapEnd % PageSize)
      BY <3>7, <1>1 DEF Starts, AlignDown
    <3>9. start = e * PageSize
      BY <3>4, <3>5, <3>6, <3>8
    <3>10. QED
      BY <2>2, <3>2, <3>9
  <2>3. QED
    BY <2>1, <2>2
<1>7. PICK s \in 1 .. KernelBase, b \in 1 .. KernelBase :
        /\ start = s * PageSize /\ b <= s
        /\ (IF heap_base[current] = NULL THEN start ELSE heap_base[current]) = b * PageSize
        /\ \A p \in b .. s - 1 : FrameOf(current, p) # NoFrame
  BY <1>6
<1> DEFINE e == s + n
<1>8. /\ s \in Nat /\ e \in Nat /\ e < N /\ s < e
      /\ start + size = e * PageSize /\ e * PageSize \in 1 .. AddressSize - 1
  <2>1. s \in Nat /\ e \in Nat /\ s < e /\ 0 < e
    BY <1>3, <1>4
  <2>2. start + size = e * PageSize
    BY <2>1, <1>4, <1>5, <1>7, Multiples
  <2> HIDE DEF e, size
  <2>3. e * PageSize \in Nat /\ e * PageSize < N * PageSize
    BY <2>1, <2>2, <1>3, <1>4, <1>5
  <2>4. e < N /\ 0 * PageSize < e * PageSize
    BY <2>1, <2>3, <1>3, Multiples
  <2>5. QED
    BY <2>1, <2>2, <2>3, <2>4, <1>3
<1> HIDE DEF e, size
<1>9. /\ (start + size) % AddressSize = e * PageSize
      /\ (start + size - 1) % AddressSize = e * PageSize - 1
  <2> DEFINE x == e * PageSize
  <2>1. x \in 1 .. AddressSize - 1 /\ start + size = x
    BY <1>8
  <2> HIDE DEF x
  <2>2. x \in 0 .. AddressSize - 1 /\ x - 1 \in 0 .. AddressSize - 1
    BY <2>1, <1>3
  <2>3. x % AddressSize = x /\ (x - 1) % AddressSize = x - 1
    BY <2>2, <1>3, SmallMod
  <2>4. start \in Nat /\ size \in Nat
    BY <1>4, <1>5, <1>7, <1>8, Multiples
  <2>5. start + size - 1 = x - 1
    BY <2>1, <2>4
  <2>6. QED
    BY <2>1, <2>5, <2>3, Zenon DEF x
<1>10. \A p \in s .. e - 1 : p \in RangePages(start, size)
  <2>1. ASSUME NEW p \in s .. e - 1 PROVE p \in RangePages(start, size)
    <3>1. p \in Nat /\ p \in Page /\ s <= p /\ p < e
      BY <1>8, <1>3 DEF Page, N
    <3>2. s * PageSize <= p * PageSize /\ p * PageSize < e * PageSize
      BY <3>1, <1>8, Multiples
    <3>3. QED
      BY <3>1, <3>2, <1>7, <1>9 DEF RangePages
  <2>2. QED
    BY <2>1
<1>11. /\ \A d \in live_dirs, p \in UserPage :
            FrameOf(d, p) # NoFrame => FrameOf(d, p)' # NoFrame
       /\ \A p \in RangePages(start, size) : p \in UserPage /\ FrameOf(current, p)' # NoFrame
  BY <1>1, <1>2, MapKeepsPages
<1>12. e \in 1 .. KernelBase
  <2>1. e - 1 \in UserPage
    BY <1>8, <1>10, <1>11
  <2>2. QED
    BY <2>1, <1>3, <1>8 DEF UserPage
<1>13. \A p \in b .. e - 1 : FrameOf(current, p)' # NoFrame
  <2>1. ASSUME NEW p \in b .. e - 1 PROVE FrameOf(current, p)' # NoFrame
    <3>1. CASE p \in s .. e - 1
      BY <3>1, <1>10, <1>11
    <3>2. CASE p \notin s .. e - 1
      <4>1. p \in b .. s - 1 /\ p \in UserPage
        BY <3>2, <1>3, <1>7, <1>8 DEF UserPage
      <4>2. QED
        BY <4>1, <1>2, <1>7, <1>11
    <3>3. QED
      BY <3>1, <3>2
  <2>2. QED
    BY <2>1
<1>14. HeapIs(current, b, e)'
  <2>1. heap_base'[current] = b * PageSize /\ heap_limit'[current] = e * PageSize - 1
    BY <1>1, <1>2, <1>7, <1>9
  <2>2. heap_limit'[current] + 1 = e * PageSize /\ b < e
    BY <2>1, <1>7, <1>8
  <2>3. current' = current
    BY <1>2
  <2>4. QED
    BY <2>1, <2>2, <2>3, <1>13 DEF HeapIs, FrameOf, FrameIn
<1>15. QED
  BY <1>12, <1>14

LEMMA AllocHeapStep ==
  ASSUME IInv, HeapRuns, NEW n \in HeapRequests, AllocHeap(n)
  PROVE  HeapRuns'
<1> USE AddressSpacesAssumption
<1>1. PICK start \in Starts(HeapEnd, HeapBytes(n)) :
        /\ MapMemory(start, HeapBytes(n))
        /\ heap_base' = [heap_base EXCEPT ![current] = IF @ = NULL THEN start ELSE @]
        /\ heap_limit' = [heap_limit EXCEPT ![current] = (start + HeapBytes(n) - 1) % AddressSize]
        /\ wrapped \subseteq wrapped'
  BY DEF AllocHeap
<1>2. /\ Running /\ UNCHANGED <<live_dirs, current, clean>> /\ current \in Dir
      /\ heap_base \in [Dir -> Nat] /\ heap_limit \in [Dir -> Nat] /\ live_dirs \subseteq Dir
  BY DEF AllocHeap, Running, IInv, TypeOK
<1>3. \A d \in live_dirs, p \in UserPage : FrameOf(d, p) # NoFrame => FrameOf(d, p)' # NoFrame
  BY <1>1, <1>2, MapKeepsPages
<1>4. ASSUME NEW d \in live_dirs' \ wrapped', heap_base'[d] # NULL
      PROVE  \E a, f \in 1 .. KernelBase : HeapIs(d, a, f)'
  <2>1. CASE d = current
    <3>1. PICK a \in 1 .. KernelBase, f \in 1 .. KernelBase : HeapIs(current, a, f)'
      BY <2>1, <1>4, HeapGrows
    <3>2. HeapIs(d, a, f)'
      BY <2>1, <3>1, <1>2 DEF HeapIs, FrameOf, FrameIn
    <3>3. QED
      BY <3>2
  <2>2. CASE d # current
    <3>1. /\ d \in live_dirs \ wrapped
          /\ heap_base'[d] = heap_base[d] /\ heap_limit'[d] = heap_limit[d]
      BY <2>2, <1>1, <1>2
    <3>2. PICK a \in 1 .. KernelBase, f \in 1 .. KernelBase : HeapIs(d, a, f)
      BY <3>1, <1>4 DEF HeapRuns
    <3>3. \A p \in a .. f - 1 : p \in UserPage
      BY DEF UserPage, KernelBase, Index
    <3>4. HeapIs(d, a, f)'
      BY <3>1, <3>2, <3>3, <1>3 DEF HeapIs
    <3>5. QED
      BY <3>4
  <2>3. QED
    BY <2>1, <2>2
<1>5. QED
  BY <1>4 DEF HeapRuns

\* No step of the virtual memory manager breaks a heap into pieces.
LEMMA NextHeapRuns ==
  ASSUME IInv, HeapRuns, [Next]_vars, clean'
  PROVE  HeapRuns'
<1> USE AddressSpacesAssumption
<1> DEFINE Bounds == \A d \in live_dirs' \ wrapped' : heap_base'[d] # NULL =>
             d \in live_dirs \ wrapped /\ heap_base'[d] = heap_base[d] /\ heap_limit'[d] = heap_limit[d]
           Pages == \A d \in live_dirs', p \in UserPage :
             d \in live_dirs /\ FrameOf(d, p) # NoFrame => FrameOf(d, p)' # NoFrame
<1>1. ASSUME Bounds, Pages PROVE HeapRuns'
  BY <1>1, HeapsKept
<1>2. ASSUME NEW c \in Dir, CreateSpace(c) PROVE HeapRuns'
  <2>1. Bounds
    BY <1>2 DEF CreateSpace, IInv, TypeOK
  <2>2. Pages
    BY <1>2 DEF CreateSpace, FrameOf, FrameIn, IInv, TypeOK
  <2>3. QED
    BY <1>1, <2>1, <2>2
<1>3. ASSUME NEW c \in Dir \cup {KernelDir}, Switch(c) PROVE HeapRuns'
  BY <1>1, <1>3 DEF Switch, heapVars, FrameOf, FrameIn
<1>4. ASSUME NEW start, NEW size, Running, MapMemory(start, size),
             UNCHANGED <<live_dirs, current, heapVars, clean>>
      PROVE  HeapRuns'
  BY <1>1, <1>4, MapKeepsPages DEF heapVars
<1>5. ASSUME NEW start, NEW size, Running, MapMemoryBlocked(start, size),
             UNCHANGED <<live_dirs, current, heapVars, clean>>
      PROVE  HeapRuns'
  BY <1>1, <1>5, BlockedStep DEF heapVars
<1>6. CASE MapStack
  BY <1>4, <1>6 DEF MapStack
<1>7. ASSUME NEW s \in Segments, LoadSegment(s) \/ LoadSegmentFails(s) PROVE HeapRuns'
  BY <1>4, <1>5, <1>7 DEF LoadSegment, LoadSegmentFails
<1>8. ASSUME NEW n \in HeapRequests, AllocHeap(n) \/ AllocHeapFails(n) PROVE HeapRuns'
  BY <1>5, <1>8, AllocHeapStep DEF AllocHeapFails
<1>9. CASE DestroySpace
  BY <1>1, <1>9, DestroyKeepsPages DEF DestroySpace, heapVars
<1>10. CASE Panic \/ UNCHANGED vars
  BY <1>1, <1>10 DEF Panic, vars, memVars, heapVars, FrameOf, FrameIn
<1>11. QED
  BY <1>2, <1>3, <1>6, <1>7, <1>8, <1>9, <1>10 DEF Next

\* The heap of a process is one run of mapped user pages, whatever
\* syscall_alloc_heap was asked for and refused, until it was asked past the end of
\* the address space.
THEOREM SpacesHeapContiguous == Spec => []HeapContiguous
<1> USE AddressSpacesAssumption
<1>1. Init => HeapRuns
  BY DEF Init, HeapRuns
<1>2. ASSUME clean => IInv, clean => HeapRuns, [Next]_vars PROVE (clean => HeapRuns)'
  BY <1>2, NextHeapRuns, CleanBefore
<1>3. ASSUME IInv, HeapRuns PROVE HeapContiguous
  <2>1. ASSUME NEW d \in live_dirs \ wrapped, heap_base[d] # NULL
        PROVE  /\ heap_base[d] % PageSize = 0 /\ (heap_limit[d] + 1) % PageSize = 0
               /\ heap_base[d] <= heap_limit[d]
               /\ \A p \in Page : heap_base[d] <= p * PageSize /\ p * PageSize <= heap_limit[d]
                    => p \in UserPage /\ FrameOf(d, p) # NoFrame
    <3>1. PICK b \in 1 .. KernelBase, e \in 1 .. KernelBase : HeapIs(d, b, e)
      BY <1>3, <2>1 DEF HeapRuns
    <3>2. KernelBase \in Nat /\ b \in Nat /\ e \in Nat /\ heap_limit[d] \in Nat
      BY <1>3 DEF KernelBase, Index, IInv, TypeOK
    <3>3. /\ b < e /\ heap_base[d] = b * PageSize /\ heap_limit[d] + 1 = e * PageSize
          /\ \A p \in b .. e - 1 : FrameOf(d, p) # NoFrame
      BY <3>1 DEF HeapIs
    <3>4. heap_base[d] % PageSize = 0 /\ (heap_limit[d] + 1) % PageSize = 0
      BY <3>2, <3>3, MultipleMod
    <3>5. b * PageSize < e * PageSize /\ b * PageSize \in Nat
      BY <3>2, <3>3, Multiples
    <3>6. heap_base[d] <= heap_limit[d]
      BY <3>2, <3>3, <3>5
    <3>7. ASSUME NEW p \in Page, heap_base[d] <= p * PageSize, p * PageSize <= heap_limit[d]
          PROVE  p \in UserPage /\ FrameOf(d, p) # NoFrame
      <4>1. p \in Nat /\ p * PageSize \in Nat
        BY DEF Page, Index
      <4>2. b * PageSize <= p * PageSize /\ p * PageSize < e * PageSize
        BY <3>2, <3>3, <3>7, <4>1
      <4>3. b <= p /\ p < e
        BY <3>2, <4>1, <4>2, Multiples
      <4>4. QED
        BY <3>2, <3>3, <4>1, <4>3 DEF UserPage
    <3>8. QED
      BY <3>4, <3>6, <3>7
  <2>2. QED
    BY <2>1 DEF HeapContiguous
<1>4. ASSUME clean => IInv, clean => HeapRuns PROVE HeapContiguous
  BY <1>3, <1>4 DEF HeapContiguous
<1>5. QED
  BY <1>1, <1>2, <1>4, SpacesInvariant, PTL DEF Spec
=============================================================================
