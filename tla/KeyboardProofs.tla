---------------------------- MODULE KeyboardProofs ----------------------------
(***************************************************************************)
(* The way of a byte from the keyboard to the program that reads it, for   *)
(* every capacity of the ring, every layout and every set of keys.  The    *)
(* ring buffer is a queue: what a call does to the indices and the flag    *)
(* is, on the elements, Append and Tail.  The listener and the read system *)
(* call on top of it implement BoundedQueue.                               *)
(*                                                                         *)
(* That Ctrl is never left on is about the scan codes under way.  What the *)
(* controller holds and what is on the wire is, in this order, a sequence  *)
(* of whole keys; the handler takes from its front a key, or of a key what *)
(* has arrived, and every press of Ctrl in it has its release behind it.   *)
(***************************************************************************)
EXTENDS Keyboard, WellFoundedInduction, FiniteSetTheorems, SequenceTheorems, TLAPS

\* What the calls keep: the ring is full only where head has met tail.
WellFormed(r, E) == r \in Rings(E) /\ (r.full => r.head = r.tail)

\* Around the end of the slots once.
LEMMA Around ==
  ASSUME NEW a \in 0 .. 2 * Capacity - 1
  PROVE  a % Capacity = IF a < Capacity THEN a ELSE a - Capacity
<1> USE CapacityAssumption
<1>1. ASSUME NEW n \in Nat, n < Capacity
      PROVE  n % Capacity = n
  BY <1>1
<1>2. ASSUME NEW n \in Nat, n >= Capacity, n < 2 * Capacity
      PROVE  n % Capacity = n - Capacity
  BY <1>2
<1> QED
  BY <1>1, <1>2

\* The types of the fields, and the size in terms of the indices.
LEMMA RingFacts ==
  ASSUME NEW E, NEW r, WellFormed(r, E)
  PROVE  /\ r.slots \in [Position -> E] /\ r.head \in Position /\ r.tail \in Position
         /\ r.full \in BOOLEAN
         /\ r.full => r.head = r.tail
         /\ Size(r) \in 0 .. Capacity
         /\ IsEmpty(r) <=> Size(r) = 0
         /\ r.full <=> Size(r) = Capacity
         /\ r.head = (r.tail + Size(r)) % Capacity
<1>1. /\ r.slots \in [Position -> E] /\ r.head \in Position /\ r.tail \in Position
      /\ r.full \in BOOLEAN /\ (r.full => r.head = r.tail)
  BY DEF WellFormed, Rings
<1>2. /\ Size(r) \in 0 .. Capacity
      /\ IsEmpty(r) <=> Size(r) = 0
      /\ r.full <=> Size(r) = Capacity
  BY <1>1, CapacityAssumption DEF Size, IsEmpty, Position
<1> DEFINE a == r.tail + Size(r)
<1>3. a \in 0 .. 2 * Capacity - 1
  BY <1>1, <1>2, CapacityAssumption DEF Position
<1> HIDE DEF a
<1>4. a % Capacity = IF a < Capacity THEN a ELSE a - Capacity
  BY <1>3, Around
<1>5. r.head = IF a < Capacity THEN a ELSE a - Capacity
  BY <1>1, CapacityAssumption DEF Size, Position, a
<1> QED
  BY <1>1, <1>2, <1>4, <1>5 DEF a

\* The next position.
LEMMA NextPosition ==
  ASSUME NEW p \in Position
  PROVE  /\ (p + 1) % Capacity \in Position
         /\ (p + 1) % Capacity = IF p + 1 = Capacity THEN 0 ELSE p + 1
<1> DEFINE a == p + 1
<1>1. a \in 0 .. 2 * Capacity - 1
  BY CapacityAssumption DEF Position
<1> HIDE DEF a
<1>2. a % Capacity = IF a < Capacity THEN a ELSE a - Capacity
  BY <1>1, Around
<1> QED
  BY <1>2, CapacityAssumption DEF Position, a

\* circular_buffer_enqueue keeps the ring well formed; a ring with room grows by
\* one, a full one keeps its size and gives up its oldest element.
LEMMA EnqueueRing ==
  ASSUME NEW E, NEW r, WellFormed(r, E), NEW e \in E
  PROVE  /\ WellFormed(Enqueue(r, e), E)
         /\ ~r.full => Size(Enqueue(r, e)) = Size(r) + 1 /\ Enqueue(r, e).tail = r.tail
         /\ r.full => /\ Size(Enqueue(r, e)) = Capacity
                      /\ Enqueue(r, e).tail = (r.tail + 1) % Capacity
<1> DEFINE next == (r.head + 1) % Capacity
           tail == IF r.full THEN (r.tail + 1) % Capacity ELSE r.tail
           slots == [r.slots EXCEPT ![r.head] = e]
           u == [slots |-> slots, head |-> next, tail |-> tail, full |-> next = tail]
<1>1. Enqueue(r, e) = u
  BY DEF Enqueue
<1>2. /\ next \in Position /\ tail \in Position /\ slots \in [Position -> E]
      /\ next = IF r.head + 1 = Capacity THEN 0 ELSE r.head + 1
      /\ r.full => tail = next
      /\ ~r.full => tail = r.tail
  BY RingFacts, NextPosition
<1>3. /\ r.head \in Position /\ r.tail \in Position /\ r.full \in BOOLEAN
      /\ ~r.full => Size(r) = IF r.head >= r.tail THEN r.head - r.tail
                              ELSE Capacity + r.head - r.tail
  BY RingFacts DEF Size
<1>4. r.full => tail = (r.tail + 1) % Capacity
  OBVIOUS
<1> HIDE DEF next, tail, slots
<1>5. u \in Rings(E) /\ u.head = next /\ u.tail = tail /\ (u.full <=> next = tail)
  BY <1>2 DEF Rings
<1> HIDE DEF u
<1>6. WellFormed(u, E)
  BY <1>5 DEF WellFormed
<1>7. Size(u) = IF next = tail THEN Capacity
                ELSE IF next >= tail THEN next - tail ELSE Capacity + next - tail
  BY <1>5 DEF Size
<1>8. ASSUME ~r.full
      PROVE  Size(u) = Size(r) + 1
  <2>1. /\ tail = r.tail
        /\ Size(r) = IF r.head >= r.tail THEN r.head - r.tail ELSE Capacity + r.head - r.tail
    BY <1>2, <1>3, <1>8
  <2> QED
    <3>1. /\ r.head \in Nat /\ r.tail \in Nat /\ next \in Nat /\ Capacity \in Nat
          /\ r.head < Capacity /\ r.tail < Capacity /\ next < Capacity
      BY <1>2, <1>3, CapacityAssumption DEF Position
    <3>2. QED
      BY ONLY <1>2, <1>3, <1>7, <1>8, <2>1, <3>1
<1>9. r.full => Size(u) = Capacity
  BY <1>2, <1>7
<1> QED
  BY <1>1, <1>2, <1>4, <1>5, <1>6, <1>8, <1>9

\* circular_buffer_dequeue keeps the ring well formed and drops one element.
LEMMA DequeueRing ==
  ASSUME NEW E, NEW r, WellFormed(r, E), ~IsEmpty(r)
  PROVE  /\ WellFormed(Dequeue(r), E)
         /\ Size(Dequeue(r)) = Size(r) - 1
         /\ Dequeue(r).tail = (r.tail + 1) % Capacity
         /\ Dequeue(r).slots = r.slots
<1> DEFINE next == (r.tail + 1) % Capacity
           u == [r EXCEPT !.tail = next, !.full = FALSE]
<1>1. Dequeue(r) = u
  BY DEF Dequeue
<1>2. next \in Position /\ next = IF r.tail + 1 = Capacity THEN 0 ELSE r.tail + 1
  BY RingFacts, NextPosition
<1> HIDE DEF next
<1>3. /\ r.head \in Position /\ r.tail \in Position /\ r.full \in BOOLEAN
      /\ r.full => r.head = r.tail
      /\ ~r.full => r.head # r.tail
  BY RingFacts DEF IsEmpty
<1>4. u \in Rings(E) /\ u.head = r.head /\ u.tail = next /\ ~u.full /\ u.slots = r.slots
  BY <1>2 DEF Rings, WellFormed
<1> HIDE DEF u
<1>5. Size(u) = IF r.head >= next THEN r.head - next ELSE Capacity + r.head - next
  BY <1>4 DEF Size
<1>6. Size(u) = Size(r) - 1
  BY <1>2, <1>3, <1>5, CapacityAssumption DEF Size, Position
<1> QED
  BY <1>1, <1>4, <1>6 DEF WellFormed, next

-----------------------------------------------------------------------------
(* The elements.                                                           *)

\* The position i behind p.
LEMMA PositionBehind ==
  ASSUME NEW p \in Position, NEW i \in 0 .. Capacity
  PROVE  /\ (p + i) % Capacity \in Position
         /\ (p + i) % Capacity = IF p + i < Capacity THEN p + i ELSE p + i - Capacity
<1> DEFINE a == p + i
<1>1. a \in 0 .. 2 * Capacity - 1
  BY CapacityAssumption DEF Position
<1> HIDE DEF a
<1>2. a % Capacity = IF a < Capacity THEN a ELSE a - Capacity
  BY <1>1, Around
<1> QED
  BY <1>2, CapacityAssumption DEF Position, a

\* Different elements are at different positions.
LEMMA PositionsDiffer ==
  ASSUME NEW p \in Position, NEW i \in 0 .. Capacity - 1, NEW j \in 0 .. Capacity,
         i < j, j - i < Capacity
  PROVE  (p + i) % Capacity # (p + j) % Capacity
<1>1. i \in 0 .. Capacity
  BY CapacityAssumption
<1>2. (p + i) % Capacity = IF p + i < Capacity THEN p + i ELSE p + i - Capacity
  BY <1>1, PositionBehind
<1>3. (p + j) % Capacity = IF p + j < Capacity THEN p + j ELSE p + j - Capacity
  BY PositionBehind
<1> DEFINE a == (p + i) % Capacity
           b == (p + j) % Capacity
<1>4. /\ a = IF p + i < Capacity THEN p + i ELSE p + i - Capacity
      /\ b = IF p + j < Capacity THEN p + j ELSE p + j - Capacity
  BY <1>2, <1>3
<1> HIDE DEF a, b
<1>5. a # b
  BY <1>4, CapacityAssumption DEF Position
<1> QED
  BY <1>5 DEF a, b

\* The element i behind the oldest, after that was dropped, was the one behind.
LEMMA PositionShifts ==
  ASSUME NEW p \in Position, NEW i \in 0 .. Capacity - 1
  PROVE  (((p + 1) % Capacity) + i) % Capacity = (p + (i + 1)) % Capacity
<1> DEFINE q == (p + 1) % Capacity
<1>1. q \in Position /\ q = IF p + 1 = Capacity THEN 0 ELSE p + 1
  BY NextPosition
<1> HIDE DEF q
<1>2. i \in 0 .. Capacity /\ i + 1 \in 0 .. Capacity
  BY CapacityAssumption
<1>3. (q + i) % Capacity = IF q + i < Capacity THEN q + i ELSE q + i - Capacity
  BY <1>1, <1>2, PositionBehind
<1> DEFINE k == i + 1
<1> HIDE DEF k
<1>4. (p + k) % Capacity = IF p + k < Capacity THEN p + k ELSE p + k - Capacity
  BY <1>2, PositionBehind DEF k
<1> DEFINE a == (q + i) % Capacity
           b == (p + k) % Capacity
<1>5. /\ a = IF q + i < Capacity THEN q + i ELSE q + i - Capacity
      /\ b = IF p + k < Capacity THEN p + k ELSE p + k - Capacity
  BY <1>3, <1>4
<1> HIDE DEF a, b
<1>6. a = b
  BY <1>1, <1>5, CapacityAssumption DEF Position, k
<1> QED
  BY <1>6 DEF a, b, q, k

\* The elements are a sequence no longer than the capacity.
LEMMA ContentsSeq ==
  ASSUME NEW E, NEW r, WellFormed(r, E)
  PROVE  /\ Contents(r) \in Seq(E)
         /\ Len(Contents(r)) = Size(r)
         /\ \A i \in 1 .. Size(r) : Contents(r)[i] = r.slots[(r.tail + (i - 1)) % Capacity]
<1>1. Size(r) \in Nat /\ Size(r) <= Capacity
  BY RingFacts, CapacityAssumption
<1>2. ASSUME NEW i \in 1 .. Size(r)
      PROVE  Get(r, i - 1) \in E
  <2> DEFINE k == i - 1
  <2>1. k \in 0 .. Capacity
    BY <1>1, CapacityAssumption
  <2> HIDE DEF k
  <2>2. r.tail \in Position /\ r.slots \in [Position -> E]
    BY RingFacts
  <2>3. (r.tail + k) % Capacity \in Position
    BY <2>1, <2>2, PositionBehind
  <2> QED
    BY <2>2, <2>3 DEF Get, k
<1>3. Contents(r) \in [1 .. Size(r) -> E]
  BY <1>2 DEF Contents
<1>4. Contents(r) \in Seq(E) /\ Len(Contents(r)) = Size(r)
  BY <1>1, <1>3
<1> QED
  BY <1>4 DEF Contents, Get

\* What circular_buffer_enqueue leaves in the slots: the new element where head
\* was, everything else as before.
LEMMA EnqueueSlots ==
  ASSUME NEW E, NEW r, WellFormed(r, E), NEW e \in E, NEW p \in Position
  PROVE  Enqueue(r, e).slots[p] = IF p = r.head THEN e ELSE r.slots[p]
<1>1. r.slots \in [Position -> E] /\ r.head \in Position
  BY RingFacts
<1>2. Enqueue(r, e).slots = [r.slots EXCEPT ![r.head] = e]
  BY DEF Enqueue
<1> QED
  BY <1>1, <1>2

\* circular_buffer_enqueue appends to the elements, of a full ring to those
\* without the oldest.
LEMMA EnqueueAppends ==
  ASSUME NEW E, NEW r, WellFormed(r, E), NEW e \in E
  PROVE  Contents(Enqueue(r, e)) = IF Size(r) < Capacity THEN Append(Contents(r), e)
                                   ELSE Append(Tail(Contents(r)), e)
<1> DEFINE u == Enqueue(r, e)
           c == Contents(r)
           d == Contents(u)
           n == Size(r)
<1>1. /\ c \in Seq(E) /\ Len(c) = n
      /\ \A i \in 1 .. n : c[i] = r.slots[(r.tail + (i - 1)) % Capacity]
  BY ContentsSeq
<1>2. WellFormed(u, E)
  BY EnqueueRing
<1>3. /\ d \in Seq(E) /\ Len(d) = Size(u)
      /\ \A i \in 1 .. Size(u) : d[i] = u.slots[(u.tail + (i - 1)) % Capacity]
  BY <1>2, ContentsSeq
<1>4. /\ n \in 0 .. Capacity /\ (r.full <=> n = Capacity) /\ r.tail \in Position
      /\ r.head = (r.tail + n) % Capacity
  BY RingFacts
<1>5. CASE n < Capacity
  <2>1. Size(u) = n + 1 /\ u.tail = r.tail
    BY <1>4, <1>5, EnqueueRing
  <2>2. ASSUME NEW i \in 1 .. n
        PROVE  d[i] = c[i]
    <3> DEFINE k == i - 1
               p == (r.tail + k) % Capacity
    <3>1. k \in 0 .. Capacity - 1 /\ k < n /\ n - k < Capacity /\ k \in 0 .. Capacity
      <4>1. n \in 0 .. Capacity /\ n < Capacity
        BY <1>4, <1>5
      <4> HIDE DEF n
      <4> QED
        BY <4>1, CapacityAssumption
    <3>2. i \in 1 .. Size(u)
      BY <2>1, <1>4
    <3>3. d[i] = u.slots[p] /\ c[i] = r.slots[p]
      BY <1>1, <1>3, <2>1, <3>2
    <3> HIDE DEF k
    <3>4. p \in Position
      BY <1>4, <3>1, PositionBehind
    <3>5. p # r.head
      BY <1>4, <3>1, PositionsDiffer
    <3> HIDE DEF p
    <3> QED
      BY <3>3, <3>4, <3>5, EnqueueSlots
  <2>3. d[n + 1] = e
    <3>1. n + 1 \in 1 .. Size(u) /\ (n + 1) - 1 = n
      BY <2>1, <1>4
    <3>2. d[n + 1] = u.slots[(r.tail + n) % Capacity]
      BY <1>3, <2>1, <3>1
    <3>3. r.head \in Position
      BY RingFacts
    <3> QED
      BY <1>4, <3>2, <3>3, EnqueueSlots
  <2> HIDE DEF c, d, u, n
  <2>4. d = Append(c, e)
    <3>1. Append(c, e) \in Seq(E) /\ Len(Append(c, e)) = n + 1
      BY <1>1
    <3>2. ASSUME NEW i \in 1 .. n + 1
          PROVE  d[i] = Append(c, e)[i]
      BY <1>1, <1>4, <2>2, <2>3
    <3> QED
      BY <1>3, <1>4, <2>1, <3>1, <3>2
  <2> QED
    BY <1>5, <2>4 DEF c, d, u, n
<1>6. CASE n = Capacity
  <2> DEFINE t == Tail(c)
  <2>1. Size(u) = Capacity /\ u.tail = (r.tail + 1) % Capacity /\ r.full
    BY <1>4, <1>6, EnqueueRing
  <2>2. ASSUME NEW i \in 1 .. Capacity
        PROVE  d[i] = u.slots[(r.tail + i) % Capacity]
    <3> DEFINE k == i - 1
    <3>1. k \in 0 .. Capacity - 1 /\ k + 1 = i
      BY CapacityAssumption
    <3>2. d[i] = u.slots[(((r.tail + 1) % Capacity) + k) % Capacity]
      BY <1>3, <2>1
    <3> HIDE DEF k
    <3> QED
      BY <1>4, <3>1, <3>2, PositionShifts
  <2>3. ASSUME NEW i \in 1 .. Capacity - 1
        PROVE  d[i] = c[i + 1]
    <3> DEFINE p == (r.tail + i) % Capacity
    <3>1. /\ i \in 0 .. Capacity - 1 /\ i \in 0 .. Capacity /\ i \in 1 .. Capacity
          /\ i < Capacity /\ Capacity - i < Capacity
          /\ i + 1 \in 1 .. n /\ (i + 1) - 1 = i /\ Capacity \in 0 .. Capacity
      BY <1>6, CapacityAssumption
    <3>2. d[i] = u.slots[p]
      BY <2>2, <3>1
    <3>3. c[i + 1] = r.slots[p]
      BY <1>1, <3>1
    <3>4. p \in Position
      BY <1>4, <3>1, PositionBehind
    <3>5. p # r.head
      BY <1>4, <1>6, <3>1, PositionsDiffer
    <3> HIDE DEF p
    <3> QED
      BY <3>2, <3>3, <3>4, <3>5, EnqueueSlots
  <2>4. d[Capacity] = e
    <3>1. Capacity \in 1 .. Capacity
      BY CapacityAssumption
    <3>2. d[Capacity] = u.slots[r.head]
      BY <1>4, <1>6, <2>2, <3>1
    <3>3. r.head \in Position
      BY RingFacts
    <3> QED
      BY <3>2, <3>3, EnqueueSlots
  <2> HIDE DEF c, d, u, n
  <2>5. t \in Seq(E) /\ Len(t) = Capacity - 1 /\ \A i \in 1 .. Capacity - 1 : t[i] = c[i + 1]
    BY <1>1, <1>6, CapacityAssumption
  <2> HIDE DEF t
  <2>6. Append(t, e) \in Seq(E) /\ Len(Append(t, e)) = Capacity
    BY <2>5, CapacityAssumption
  <2>7. ASSUME NEW i \in 1 .. Capacity
        PROVE  d[i] = Append(t, e)[i]
    <3>1. CASE i = Capacity
      BY <2>4, <2>5, <3>1, CapacityAssumption
    <3>2. CASE i \in 1 .. Capacity - 1
      BY <2>3, <2>5, <3>2, CapacityAssumption
    <3>3. i = Capacity \/ i \in 1 .. Capacity - 1
      BY CapacityAssumption
    <3> QED
      BY <3>1, <3>2, <3>3
  <2>8. d = Append(t, e)
    BY <1>3, <2>1, <2>6, <2>7, CapacityAssumption
  <2> QED
    BY <1>6, <2>8, CapacityAssumption DEF c, d, u, n, t
<1> QED
  BY <1>4, <1>5, <1>6, CapacityAssumption

\* circular_buffer_dequeue takes the oldest element, the first of the elements,
\* and leaves the others in their order.
LEMMA DequeueTails ==
  ASSUME NEW E, NEW r, WellFormed(r, E), ~IsEmpty(r)
  PROVE  Contents(Dequeue(r)) = Tail(Contents(r)) /\ Get(r, 0) = Head(Contents(r))
<1> DEFINE u == Dequeue(r)
           c == Contents(r)
           d == Contents(u)
           n == Size(r)
           t == Tail(c)
<1>1. /\ c \in Seq(E) /\ Len(c) = n
      /\ \A i \in 1 .. n : c[i] = r.slots[(r.tail + (i - 1)) % Capacity]
  BY ContentsSeq
<1>2. /\ WellFormed(u, E) /\ Size(u) = n - 1 /\ u.tail = (r.tail + 1) % Capacity
      /\ u.slots = r.slots
  BY DequeueRing
<1>3. /\ d \in Seq(E) /\ Len(d) = Size(u)
      /\ \A i \in 1 .. Size(u) : d[i] = u.slots[(u.tail + (i - 1)) % Capacity]
  BY <1>2, ContentsSeq
<1>4. n \in 1 .. Capacity /\ r.tail \in Position
  BY RingFacts, CapacityAssumption
<1>5. Get(r, 0) = Head(c)
  <2>1. 1 \in 1 .. n /\ 1 - 1 = 0
    BY <1>4
  <2>2. c[1] = r.slots[(r.tail + 0) % Capacity]
    BY <1>1, <2>1
  <2> HIDE DEF c, n
  <2>3. Head(c) = c[1]
    BY <1>1, <1>4
  <2> QED
    BY <2>2, <2>3 DEF Get
<1>6. ASSUME NEW i \in 1 .. n - 1
      PROVE  d[i] = c[i + 1]
  <2> DEFINE k == i - 1
  <2>1. k \in 0 .. Capacity - 1 /\ k + 1 = i /\ i + 1 \in 1 .. n /\ (i + 1) - 1 = i
    BY <1>4, CapacityAssumption
  <2>2. d[i] = r.slots[(((r.tail + 1) % Capacity) + k) % Capacity]
    BY <1>2, <1>3
  <2>3. c[i + 1] = r.slots[(r.tail + i) % Capacity]
    BY <1>1, <2>1
  <2> HIDE DEF k
  <2> QED
    BY <1>4, <2>1, <2>2, <2>3, PositionShifts
<1> HIDE DEF c, d, u, n
<1>7. t \in Seq(E) /\ Len(t) = n - 1 /\ \A i \in 1 .. n - 1 : t[i] = c[i + 1]
  BY <1>1, <1>4, CapacityAssumption
<1> HIDE DEF t
<1>8. d = t
  BY <1>2, <1>3, <1>4, <1>6, <1>7
<1> QED
  BY <1>5, <1>8 DEF c, d, u, n, t

\* The ring of any capacity is a queue that drops its oldest element when it is
\* full: a call keeps the ring well formed, adding appends, taking returns and
\* removes the first.
THEOREM RingIsQueue ==
  ASSUME NEW E, NEW r, WellFormed(r, E), NEW e \in E
  PROVE  /\ Contents(r) \in Seq(E) /\ Len(Contents(r)) <= Capacity
         /\ WellFormed(Enqueue(r, e), E)
         /\ Contents(Enqueue(r, e)) = IF Len(Contents(r)) < Capacity
                                      THEN Append(Contents(r), e)
                                      ELSE Append(Tail(Contents(r)), e)
         /\ IsEmpty(r) <=> Contents(r) = <<>>
         /\ ~IsEmpty(r) => /\ WellFormed(Dequeue(r), E)
                           /\ Contents(Dequeue(r)) = Tail(Contents(r))
                           /\ Get(r, 0) = Head(Contents(r))
<1>1. Contents(r) \in Seq(E) /\ Len(Contents(r)) = Size(r)
  BY ContentsSeq
<1>2. Size(r) \in 0 .. Capacity /\ (IsEmpty(r) <=> Size(r) = 0)
  BY RingFacts
<1>3. IsEmpty(r) <=> Contents(r) = <<>>
  BY <1>1, <1>2
<1>4. Len(Contents(r)) <= Capacity
  BY <1>1, <1>2, CapacityAssumption
<1>5. /\ WellFormed(Enqueue(r, e), E)
      /\ Contents(Enqueue(r, e)) = IF Size(r) < Capacity THEN Append(Contents(r), e)
                                   ELSE Append(Tail(Contents(r)), e)
  BY EnqueueRing, EnqueueAppends
<1>6. ~IsEmpty(r) => /\ WellFormed(Dequeue(r), E)
                     /\ Contents(Dequeue(r)) = Tail(Contents(r))
                     /\ Get(r, 0) = Head(Contents(r))
  BY DequeueRing, DequeueTails
<1> QED
  BY <1>1, <1>3, <1>4, <1>5, <1>6

-----------------------------------------------------------------------------
(* Many elements at once.                                                  *)

\* Every set of natural numbers but the empty one has a least element.
LEMMA LeastNatural ==
  ASSUME NEW T \in SUBSET Nat, T # {}
  PROVE  \E m \in T : \A k \in T : m <= k
<1> DEFINE R == OpToRel(<, Nat)
<1>1. IsWellFoundedOn(R, Nat)
  BY NatLessThanWellFounded
<1>2. \A i, j \in Nat : <<i, j>> \in R <=> i < j
  BY DEF OpToRel
<1> HIDE DEF R
<1>3. PICK x \in T : \A y \in T : ~(<<y, x>> \in R)
  BY <1>1, WFMin
<1>4. ASSUME NEW k \in T PROVE x <= k
  <2>1. ~(k < x)
    BY <1>2, <1>3
  <2>2. QED
    BY <2>1
<1>5. QED
  BY <1>4

\* A function that goes from a in n steps, the k-th of which is g[k].
StepsBy(w, X, a, n, g) ==
  /\ w \in [0 .. n -> X] /\ w[0] = a
  /\ \A k \in 1 .. n : w[k] = g[k][w[k - 1]]

\* Such a function exists, whatever the steps.
LEMMA StepsExist ==
  ASSUME NEW X, NEW a \in X, NEW n \in Nat, NEW g \in [1 .. n -> [X -> X]]
  PROVE  \E w : StepsBy(w, X, a, n, g)
<1> DEFINE Goes(w, m) == w[0] = a /\ \A k \in 1 .. m : w[k] = g[k][w[k - 1]]
           Has(m) == \E w \in [0 .. m -> X] : Goes(w, m)
           T == {m \in Nat : m <= n /\ ~Has(m)}
<1> HIDE DEF Has
<1>1. SUFFICES ASSUME T # {} PROVE FALSE
  <2>1. T = {} => Has(n)
    OBVIOUS
  <2>2. QED
    BY <2>1 DEF Has, StepsBy
<1>2. PICK m \in T : \A k \in T : m <= k
  <2>1. T \in SUBSET Nat
    OBVIOUS
  <2> HIDE DEF T
  <2>2. QED
    BY <1>1, <2>1, LeastNatural
<1>3. CASE m = 0
  <2> DEFINE w == [k \in 0 .. 0 |-> a]
  <2>1. w \in [0 .. 0 -> X] /\ Goes(w, 0)
    OBVIOUS
  <2>2. Has(0)
    BY <2>1 DEF Has
  <2>3. QED
    BY <2>2, <1>3
<1>4. CASE m # 0
  <2>1. m - 1 \in Nat /\ m \in Nat /\ m <= n /\ m \in 1 .. n
    BY <1>4
  <2>2. PICK w \in [0 .. m - 1 -> X] : Goes(w, m - 1)
    <3>1. Has(m - 1)
      BY <2>1, <1>2
    <3>2. QED
      BY <3>1 DEF Has
  <2> DEFINE u == [k \in 0 .. m |-> IF k = m THEN g[m][w[m - 1]] ELSE w[k]]
  <2>3. g[m] \in [X -> X] /\ w[m - 1] \in X
    BY <2>1
  <2>4. u \in [0 .. m -> X]
    BY <2>1, <2>3
  <2>5. Goes(u, m)
    <3>1. u[0] = a
      BY <2>1, <2>2, <1>4
    <3>2. ASSUME NEW k \in 1 .. m PROVE u[k] = g[k][u[k - 1]]
      <4>1. k - 1 \in 0 .. m - 1 /\ k \in 0 .. m /\ k - 1 # m
        BY <2>1
      <4>2. u[k - 1] = w[k - 1]
        BY <4>1
      <4>3. CASE k = m
        BY <4>2, <4>3, <2>1
      <4>4. CASE k # m
        <5>1. k \in 1 .. m - 1 /\ u[k] = w[k]
          BY <4>4, <2>1
        <5>2. QED
          BY <5>1, <4>2, <2>2
      <4>5. QED
        BY <4>3, <4>4
    <3>3. QED
      BY <3>1, <3>2
  <2>6. Has(m)
    BY <2>4, <2>5 DEF Has
  <2>7. QED
    BY <2>1, <2>6
<1>5. QED
  BY <1>3, <1>4

\* The latest elements after one more was added.
LEMMA LatestAppend ==
  ASSUME NEW E, NEW q \in Seq(E), NEW e \in E
  PROVE  Queue!Latest(Append(q, e)) = IF Len(Queue!Latest(q)) < Capacity
                                      THEN Append(Queue!Latest(q), e)
                                      ELSE Append(Tail(Queue!Latest(q)), e)
<1> USE CapacityAssumption
<1> DEFINE l == Len(q)
           p == Append(q, e)
<1>1. l \in Nat /\ p \in Seq(E) /\ Len(p) = l + 1 /\ p[l + 1] = e /\ \A i \in 1 .. l : p[i] = q[i]
  OBVIOUS
<1>2. CASE l < Capacity
  <2>1. Queue!Latest(q) = q /\ Queue!Latest(p) = p
    BY <1>1, <1>2 DEF Queue!Latest
  <2>2. QED
    BY <2>1, <1>2
<1>3. CASE l >= Capacity
  <2> DEFINE t == SubSeq(q, l - Capacity + 1, l)
             u == SubSeq(p, (l + 1) - Capacity + 1, l + 1)
  <2>1. t \in Seq(E) /\ Len(t) = Capacity /\ \A i \in 1 .. Capacity : t[i] = q[l - Capacity + i]
    BY <1>1, <1>3
  <2>2. Queue!Latest(q) = t
    <3>1. CASE l = Capacity
      BY <2>1, <3>1 DEF Queue!Latest
    <3>2. CASE l # Capacity
      BY <1>1, <1>3, <3>2 DEF Queue!Latest
    <3>3. QED
      BY <3>1, <3>2
  <2>3. Queue!Latest(p) = u
    <3>1. ~(Len(p) <= Capacity) /\ Len(p) = l + 1
      BY <1>1, <1>3
    <3> HIDE DEF p, l
    <3>2. Queue!Latest(p) = SubSeq(p, Len(p) - Capacity + 1, Len(p))
      BY ONLY <3>1 DEF Queue!Latest
    <3>3. QED
      BY ONLY <3>1, <3>2
  <2>4. u \in Seq(E) /\ Len(u) = Capacity /\ \A i \in 1 .. Capacity : u[i] = p[(l + 1) - Capacity + i]
    BY <1>1, <1>3
  <2> HIDE DEF t, u, p, l
  <2>5. /\ Tail(t) \in Seq(E) /\ Len(Tail(t)) = Capacity - 1
        /\ \A i \in 1 .. Capacity - 1 : Tail(t)[i] = t[i + 1]
    BY <2>1
  <2> DEFINE v == Append(Tail(t), e)
  <2>6. /\ v \in Seq(E) /\ Len(v) = Capacity /\ v[Capacity] = e
        /\ \A i \in 1 .. Capacity - 1 : v[i] = t[i + 1]
    BY <2>5
  <2> HIDE DEF v
  <2>7. ASSUME NEW i \in 1 .. Capacity PROVE u[i] = v[i]
    <3>1. CASE i = Capacity
      <4>1. (l + 1) - Capacity + i = l + 1
        BY <3>1, <1>1
      <4>2. QED
        BY <3>1, <4>1, <2>4, <2>6, <1>1
    <3>2. CASE i # Capacity
      <4>1. i \in 1 .. Capacity - 1 /\ i + 1 \in 1 .. Capacity
        BY <3>2
      <4>2. (l + 1) - Capacity + i = l - Capacity + (i + 1) /\ l - Capacity + (i + 1) \in 1 .. l
        BY <4>1, <1>1, <1>3
      <4>3. u[i] = q[l - Capacity + (i + 1)]
        BY <4>2, <2>4, <1>1
      <4>4. t[i + 1] = q[l - Capacity + (i + 1)]
        BY <4>1, <2>1
      <4>5. QED
        BY <4>1, <4>3, <4>4, <2>6
    <3>3. QED
      BY <3>1, <3>2
  <2>8. u = v
    BY <2>4, <2>6, <2>7
  <2>9. QED
    BY <2>1, <2>2, <2>3, <2>8 DEF v, p
<1>4. QED
  BY <1>1, <1>2, <1>3

\* Bytes that are added one by one, however many: the ring keeps the latest.
LEMMA EnqueueAllFacts ==
  ASSUME NEW E, NEW r, WellFormed(r, E), NEW s \in Seq(E)
  PROVE  /\ WellFormed(EnqueueAll(r, s), E)
         /\ Contents(EnqueueAll(r, s)) = Queue!Latest(Contents(r) \o s)
<1> DEFINE n == Len(s)
           c == Contents(r)
           IsAfter(w) == w = [k \in 0 .. n |-> IF k = 0 THEN r ELSE Enqueue(w[k - 1], s[k])]
           after == CHOOSE w : IsAfter(w)
<1>1. n \in Nat /\ \A k \in 1 .. n : s[k] \in E
  OBVIOUS
<1>2. EnqueueAll(r, s) = after[n]
  BY DEF EnqueueAll
<1>3. \E w : IsAfter(w)
  <2> DEFINE X == {u \in Rings(E) : WellFormed(u, E)}
             g == [k \in 1 .. n |-> [u \in X |-> Enqueue(u, s[k])]]
  <2>1. r \in X
    BY DEF WellFormed
  <2>2. ASSUME NEW k \in 1 .. n, NEW u \in X PROVE Enqueue(u, s[k]) \in X
    <3>1. WellFormed(Enqueue(u, s[k]), E)
      BY <1>1, EnqueueRing
    <3>2. QED
      BY <3>1 DEF WellFormed
  <2>3. g \in [1 .. n -> [X -> X]]
    BY <2>2
  <2>4. PICK w \in [0 .. n -> X] : w[0] = r /\ \A k \in 1 .. n : w[k] = g[k][w[k - 1]]
    <3>1. n \in Nat
      BY <1>1
    <3> HIDE DEF X, g, n
    <3>2. PICK w : StepsBy(w, X, r, n, g)
      BY ONLY <2>1, <2>3, <3>1, StepsExist
    <3>3. QED
      BY ONLY <3>2, Zenon DEF StepsBy
  <2>5. ASSUME NEW k \in 0 .. n PROVE w[k] = IF k = 0 THEN r ELSE Enqueue(w[k - 1], s[k])
    <3>1. CASE k = 0
      BY <3>1, <2>4
    <3>2. CASE k # 0
      <4>1. k \in 1 .. n /\ k - 1 \in 0 .. n
        BY <3>2, <1>1
      <4>2. w[k - 1] \in X /\ w[k] = g[k][w[k - 1]]
        BY <4>1, <2>4
      <4>3. QED
        BY <3>2, <4>1, <4>2
    <3>3. QED
      BY <3>1, <3>2
  <2>6. IsAfter(w)
    BY <2>4, <2>5
  <2>7. QED
    BY <2>6
<1>4. IsAfter(after)
  BY <1>3
<1>5. \A k \in 0 .. n : after[k] = IF k = 0 THEN r ELSE Enqueue(after[k - 1], s[k])
  BY <1>4
<1> HIDE DEF after
<1>6. c \in Seq(E) /\ Len(c) <= Capacity /\ Len(c) \in Nat
  BY ContentsSeq, RingFacts, CapacityAssumption
<1> DEFINE upTo(k) == c \o SubSeq(s, 1, k)
           Good(k) == WellFormed(after[k], E) /\ Contents(after[k]) = Queue!Latest(upTo(k))
           T == {k \in Nat : k <= n /\ ~Good(k)}
<1>7. T = {}
  <2>1. SUFFICES ASSUME T # {} PROVE FALSE
    OBVIOUS
  <2>2. PICK m \in T : \A k \in T : m <= k
    <3>1. T \in SUBSET Nat
      OBVIOUS
    <3> HIDE DEF T
    <3>2. QED
      BY <2>1, <3>1, LeastNatural
  <2>3. CASE m = 0
    <3>1. after[0] = r /\ SubSeq(s, 1, 0) = <<>>
      BY <1>1, <1>5
    <3>2. upTo(0) = c
      BY <3>1, <1>6
    <3>3. Queue!Latest(c) = c
      BY <1>6 DEF Queue!Latest
    <3>4. Good(0)
      BY <3>1, <3>2, <3>3
    <3>5. QED
      BY <2>3, <3>4
  <2>4. CASE m # 0
    <3> DEFINE k == m - 1
               q == upTo(k)
    <3>1. k \in Nat /\ k <= n /\ m <= n /\ m \in 1 .. n /\ m \in 0 .. n
      BY <2>4
    <3>2. WellFormed(after[k], E) /\ Contents(after[k]) = Queue!Latest(q)
      BY <2>2, <3>1
    <3>3. after[m] = Enqueue(after[k], s[m]) /\ s[m] \in E
      BY <1>1, <1>5, <2>4, <3>1
    <3>4. q \in Seq(E) /\ upTo(m) = Append(q, s[m])
      <4>1. SubSeq(s, 1, k) \in Seq(E) /\ SubSeq(s, 1, m) = Append(SubSeq(s, 1, k), s[m])
        BY <3>1, <1>1
      <4>2. q \in Seq(E)
        BY <4>1, <1>6
      <4> DEFINE p == SubSeq(s, 1, k)
      <4>3. c \o Append(p, s[m]) = Append(c \o p, s[m])
        <5> HIDE DEF p, c
        <5>1. QED
          BY <4>1, <3>3, <1>6 DEF p
      <4>4. QED
        BY <4>1, <4>2, <4>3
    <3> HIDE DEF q, k
    <3>5. /\ WellFormed(after[m], E)
          /\ Contents(after[m]) = IF Size(after[k]) < Capacity
                                  THEN Append(Contents(after[k]), s[m])
                                  ELSE Append(Tail(Contents(after[k])), s[m])
      BY <3>2, <3>3, EnqueueRing, EnqueueAppends
    <3>6. Size(after[k]) = Len(Queue!Latest(q))
      BY <3>2, ContentsSeq
    <3>7. Contents(after[m]) = Queue!Latest(Append(q, s[m]))
      BY <3>2, <3>3, <3>4, <3>5, <3>6, LatestAppend
    <3>8. Good(m)
      BY <3>4, <3>5, <3>7
    <3>9. QED
      BY <3>8
  <2>5. QED
    BY <2>3, <2>4
<1>8. Good(n)
  BY <1>1, <1>7
<1>9. upTo(n) = c \o s
  BY <1>1
<1>10. QED
  BY <1>2, <1>8, <1>9

\* Bytes that are taken one by one: the ring keeps the others in their order.
LEMMA DequeueAllFacts ==
  ASSUME NEW E, NEW r, WellFormed(r, E), NEW n \in 0 .. Size(r)
  PROVE  /\ WellFormed(DequeueAll(r, n), E)
         /\ Contents(DequeueAll(r, n)) = SubSeq(Contents(r), n + 1, Len(Contents(r)))
<1> DEFINE c == Contents(r)
           IsAfter(w) == w = [k \in 0 .. n |-> IF k = 0 THEN r ELSE Dequeue(w[k - 1])]
           after == CHOOSE w : IsAfter(w)
<1>1. Size(r) \in Nat /\ n \in Nat /\ n <= Size(r)
  BY RingFacts, CapacityAssumption
<1>2. DequeueAll(r, n) = after[n]
  BY DEF DequeueAll
<1>3. \E w : IsAfter(w)
  <2> DEFINE X == {u \in Rings(E) : WellFormed(u, E)}
             d == [u \in X |-> Dequeue(u)]
             g == [k \in 1 .. n |-> d]
  <2>1. r \in X
    BY DEF WellFormed
  <2>2. ASSUME NEW u \in X PROVE Dequeue(u) \in X
    <3>1. CASE IsEmpty(u)
      BY <3>1 DEF Dequeue
    <3>2. CASE ~IsEmpty(u)
      <4>1. WellFormed(Dequeue(u), E)
        BY <3>2, DequeueRing
      <4>2. QED
        BY <4>1 DEF WellFormed
    <3>3. QED
      BY <3>1, <3>2
  <2>3. d \in [X -> X]
    BY <2>2
  <2>4. g \in [1 .. n -> [X -> X]]
    BY <2>3
  <2>5. PICK w \in [0 .. n -> X] : w[0] = r /\ \A k \in 1 .. n : w[k] = g[k][w[k - 1]]
    <3> HIDE DEF X, g
    <3>1. n \in Nat
      BY <1>1
    <3>2. PICK w : StepsBy(w, X, r, n, g)
      BY ONLY <2>1, <2>4, <3>1, StepsExist
    <3>3. QED
      BY ONLY <3>2, Zenon DEF StepsBy
  <2>6. ASSUME NEW k \in 0 .. n PROVE w[k] = IF k = 0 THEN r ELSE Dequeue(w[k - 1])
    <3>1. CASE k = 0
      BY <3>1, <2>5
    <3>2. CASE k # 0
      <4>1. k \in 1 .. n /\ k - 1 \in 0 .. n
        BY <3>2, <1>1
      <4>2. w[k - 1] \in X /\ w[k] = g[k][w[k - 1]]
        BY <4>1, <2>5
      <4>3. QED
        BY <3>2, <4>1, <4>2
    <3>3. QED
      BY <3>1, <3>2
  <2>7. IsAfter(w)
    BY <2>5, <2>6
  <2>8. QED
    BY <2>7
<1>4. IsAfter(after)
  BY <1>3
<1>5. \A k \in 0 .. n : after[k] = IF k = 0 THEN r ELSE Dequeue(after[k - 1])
  BY <1>4
<1> HIDE DEF after
<1>6. c \in Seq(E) /\ Len(c) = Size(r)
  BY ContentsSeq
<1> DEFINE rest(k) == SubSeq(c, k + 1, Len(c))
           Good(k) == WellFormed(after[k], E) /\ Contents(after[k]) = rest(k)
           T == {k \in Nat : k <= n /\ ~Good(k)}
<1>7. T = {}
  <2>1. SUFFICES ASSUME T # {} PROVE FALSE
    OBVIOUS
  <2>2. PICK m \in T : \A k \in T : m <= k
    <3>1. T \in SUBSET Nat
      OBVIOUS
    <3> HIDE DEF T
    <3>2. QED
      BY <2>1, <3>1, LeastNatural
  <2>3. CASE m = 0
    <3>1. after[0] = r
      BY <1>1, <1>5
    <3>2. rest(0) = c
      <4> HIDE DEF c
      <4>1. QED
        BY <1>6
    <3>3. Good(0)
      BY <3>1, <3>2
    <3>4. QED
      BY <2>3, <3>3
  <2>4. CASE m # 0
    <3> DEFINE k == m - 1
               q == rest(k)
    <3>1. k \in Nat /\ k <= n /\ m <= n /\ m \in 0 .. n /\ m = k + 1 /\ k < Size(r)
      BY <2>4, <1>1
    <3>2. WellFormed(after[k], E) /\ Contents(after[k]) = q
      BY <2>2, <3>1
    <3>3. after[m] = Dequeue(after[k])
      BY <1>5, <2>4, <3>1
    <3>4. q \in Seq(E) /\ q # <<>> /\ rest(m) = Tail(q)
      <4> HIDE DEF c, k
      <4>1. q \in Seq(E) /\ Len(q) = Len(c) - k /\ \A i \in 1 .. Len(c) - k : q[i] = c[k + i]
        BY <3>1, <1>6, <1>1
      <4>2. /\ rest(m) \in Seq(E) /\ Len(rest(m)) = Len(c) - m
            /\ \A i \in 1 .. Len(c) - m : rest(m)[i] = c[m + i]
        BY <3>1, <1>6, <1>1
      <4> DEFINE z == rest(m)
      <4> HIDE DEF q, z
      <4>3. Len(q) > 0 /\ q # <<>>
        BY <4>1, <3>1, <1>6, <1>1
      <4>4. /\ Tail(q) \in Seq(E) /\ Len(Tail(q)) = Len(c) - m
            /\ \A i \in 1 .. Len(c) - m : Tail(q)[i] = q[i + 1]
        BY <4>1, <4>3, <3>1, <1>6, <1>1
      <4>5. ASSUME NEW i \in 1 .. Len(c) - m PROVE z[i] = Tail(q)[i]
        <5>1. i + 1 \in 1 .. Len(c) - k /\ k + (i + 1) = m + i
          BY <3>1, <1>6, <1>1
        <5>2. q[i + 1] = c[m + i]
          BY <5>1, <4>1
        <5>3. QED
          BY <5>2, <4>2, <4>4 DEF z
      <4>6. z = Tail(q)
        <5>1. z \in Seq(E) /\ Len(z) = Len(c) - m
          BY ONLY <4>2 DEF z
        <5>2. Len(z) = Len(Tail(q)) /\ \A i \in 1 .. Len(z) : z[i] = Tail(q)[i]
          BY ONLY <4>4, <4>5, <5>1
        <5>3. QED
          BY ONLY <4>4, <5>1, <5>2, SeqEqual
      <4>7. QED
        BY <4>1, <4>3, <4>6 DEF z
    <3> HIDE DEF q, k
    <3>5. ~IsEmpty(after[k])
      BY <3>2, <3>4, RingFacts, ContentsSeq
    <3>6. WellFormed(after[m], E) /\ Contents(after[m]) = Tail(q)
      BY <3>2, <3>3, <3>5, DequeueRing, DequeueTails
    <3>7. Good(m)
      BY <3>4, <3>6
    <3>8. QED
      BY <3>7
  <2>5. QED
    BY <2>3, <2>4
<1>8. Good(n)
  BY <1>1, <1>7
<1>9. QED
  BY <1>2, <1>8

-----------------------------------------------------------------------------
(* The terminal's ring.                                                    *)

\* What the ring can hold.
Byte == Char \cup {NoChar, "ESC", "[", "A", "B", "C", "D"}

\* What a key can add: its character, or the sequence of an arrow.
Typed == {<<ch>> : ch \in Char} \cup {ArrowBytes(a) : a \in Arrows}

\* The types of the input ring and of the two history variables.
InputOK == WellFormed(input, Byte) /\ last \in Byte /\ lost \in BOOLEAN

\* The ring after tty_create is empty.
LEMMA NewRingEmpty ==
  ASSUME Init
  PROVE  InputOK /\ Contents(input) = <<>>
<1> DEFINE blank == [i \in Position |-> NoChar]
<1>1. /\ blank \in [Position -> Byte] /\ 0 \in Position
      /\ input = [slots |-> blank, head |-> 0, tail |-> 0, full |-> FALSE]
  BY CapacityAssumption DEF Init, NewRing, Byte, Position
<1> HIDE DEF blank
<1>2. input \in Rings(Byte) /\ ~input.full /\ input.head = 0 /\ input.tail = 0
  BY <1>1 DEF Rings
<1>3. WellFormed(input, Byte)
  BY <1>2 DEF WellFormed
<1>4. Size(input) = 0
  BY <1>2 DEF Size
<1>5. Contents(input) \in Seq(Byte) /\ Len(Contents(input)) = 0
  BY <1>3, <1>4, ContentsSeq
<1>6. Contents(input) = <<>>
  BY <1>5
<1>7. QED
  BY <1>3, <1>6 DEF InputOK, Init, Byte

\* An event that reaches the listener changes the modifiers, or adds the bytes of
\* one key.
LEMMA ListenAdds ==
  ASSUME NEW event, Listen(event)
  PROVE  UNCHANGED <<input, got, last, lost>> \/ \E s \in Typed : Arrive(s)
<1> DEFINE k == event.keycode
           Quiet == UNCHANGED <<input, got, last, lost>>
<1>1. CASE Release(k) \/ PressShift(k) \/ PressCtrl(k) \/ PressCapsLock(k) \/ PressCtrlC(k)
  BY <1>1 DEF Release, PressShift, PressCtrl, PressCapsLock, PressCtrlC, inputVars
<1>2. CASE PressArrow(k)
  BY <1>2 DEF PressArrow, Typed
<1>3. CASE PressKey(k)
  <2> DEFINE ch == KeycodeToChar(k)
  <2>1. CASE ch = NoChar
    BY <1>3, <2>1 DEF PressKey, inputVars
  <2>2. CASE ch # NoChar
    <3>1. ch \in Char
      BY <2>2 DEF KeycodeToChar, Char
    <3>2. Arrive(<<ch>>)
      BY <1>3, <2>2 DEF PressKey
    <3>3. <<ch>> \in Typed
      BY <3>1 DEF Typed
    <3>4. QED
      BY <3>2, <3>3
  <2>3. QED
    BY <2>1, <2>2
<1>4. QED
  BY <1>1, <1>2, <1>3 DEF Listen

\* A step of the system leaves the terminal's bytes alone, adds those of a key,
\* or is a read.
LEMMA NextCases ==
  ASSUME [Next]_vars
  PROVE  \/ UNCHANGED <<input, got, last, lost>>
         \/ \E s \in Typed : Arrive(s)
         \/ \E n \in 0 .. MaxRead : Read(n)
<1>1. CASE InterruptHandler
  <2> DEFINE event == Decode(port)
  <2>1. Listen(event) \/ UNCHANGED inputVars
    BY <1>1 DEF InterruptHandler
  <2> HIDE DEF event
  <2>2. QED
    BY <2>1, ListenAdds DEF inputVars
<1>2. CASE RegisterListener \/ (\E k \in Key : KeyDown(k) \/ KeyUp(k)) \/ Receive
  <2>1. UNCHANGED inputVars
    BY <1>2 DEF RegisterListener, KeyDown, KeyUp, Receive
  <2>2. QED
    BY <2>1 DEF inputVars
<1>3. CASE UNCHANGED vars
  BY <1>3 DEF vars, inputVars
<1>4. QED
  BY <1>1, <1>2, <1>3 DEF Next

\* The bytes of a key.
LEMMA TypedBytes ==
  ASSUME NEW s \in Typed
  PROVE  s \in Seq(Byte) /\ Len(s) \in {1, 3}
<1>1. ASSUME NEW ch \in Char, s = <<ch>>
      PROVE  s \in Seq(Byte) /\ Len(s) = 1
  BY <1>1 DEF Byte
<1>2. ASSUME NEW a \in Arrows, s = ArrowBytes(a)
      PROVE  s \in Seq(Byte) /\ Len(s) = 3
  <2>1. FinalByte[a] \in {"A", "B", "C", "D"}
    BY DEF Arrows, FinalByte
  <2>2. QED
    BY <1>2, <2>1 DEF ArrowBytes, Byte
<1>3. QED
  BY <1>1, <1>2 DEF Typed

\* How many bytes a read takes: never more than it asks for or than there are,
\* and none behind a negative one.
LEMMA TakenByFacts ==
  ASSUME InputOK, NEW n \in Nat
  PROVE  /\ TakenBy(n) \in 0 .. Len(Contents(input)) /\ TakenBy(n) <= n
         /\ \A i \in 1 .. TakenBy(n) - 1 : Contents(input)[i] \notin Negative
<1> DEFINE c == Contents(input)
           stops == {i \in 1 .. Len(c) : c[i] \in Negative} \cup {n, Len(c)}
<1>1. c \in Seq(Byte) /\ Len(c) \in Nat
  BY ContentsSeq DEF InputOK
<1>2. stops \in SUBSET Nat /\ n \in stops /\ Len(c) \in stops
  BY <1>1
<1>3. \A i \in 1 .. Len(c) : c[i] \in Negative => i \in stops
  OBVIOUS
<1>4. TakenBy(n) = CHOOSE i \in stops : \A j \in stops : i <= j
  BY DEF TakenBy
<1> HIDE DEF stops, c
<1>5. \E i \in stops : \A j \in stops : i <= j
  BY <1>2, LeastNatural
<1>6. TakenBy(n) \in stops /\ \A j \in stops : TakenBy(n) <= j
  BY <1>4, <1>5
<1>7. TakenBy(n) \in Nat /\ TakenBy(n) <= Len(c) /\ TakenBy(n) <= n
  BY <1>2, <1>6
<1>8. \A i \in 1 .. TakenBy(n) - 1 : c[i] \notin Negative
  BY <1>1, <1>3, <1>6, <1>7
<1>9. QED
  BY <1>1, <1>7, <1>8 DEF c

\* What a key's bytes do to the ring.
LEMMA ArriveFacts ==
  ASSUME InputOK, NEW s \in Typed, Arrive(s)
  PROVE  InputOK' /\ Contents(input)' = Queue!Latest(Contents(input) \o s)
<1>1. s \in Seq(Byte)
  BY TypedBytes
<1>2. WellFormed(input, Byte)
  BY DEF InputOK
<1>3. PICK r : r = EnqueueAll(input, s)
  OBVIOUS
<1>4. WellFormed(r, Byte) /\ Contents(r) = Queue!Latest(Contents(input) \o s)
  BY <1>1, <1>2, <1>3, EnqueueAllFacts
<1>5. input' = r /\ last' = last /\ lost' \in BOOLEAN
  BY <1>3 DEF Arrive, modifiers
<1>6. Contents(input)' = Contents(r)
  BY <1>5 DEF Contents, Size, Get
<1>7. WellFormed(input, Byte)'
  BY <1>4, <1>5 DEF WellFormed, Rings, Position, Byte, Char
<1>8. QED
  BY <1>4, <1>5, <1>6, <1>7 DEF InputOK, Byte, Char

\* What a read does to the ring.
LEMMA ReadFacts ==
  ASSUME InputOK, NEW n \in Nat, Read(n)
  PROVE  /\ InputOK'
         /\ Contents(input)' = SubSeq(Contents(input), TakenBy(n) + 1, Len(Contents(input)))
<1> DEFINE c == Contents(input)
           k == TakenBy(n)
<1>1. WellFormed(input, Byte)
  BY DEF InputOK
<1>2. c \in Seq(Byte) /\ Len(c) = Size(input) /\ k \in 0 .. Len(c)
  BY <1>1, ContentsSeq, TakenByFacts
<1>3. PICK r : r = DequeueAll(input, k)
  OBVIOUS
<1>4. WellFormed(r, Byte) /\ Contents(r) = SubSeq(c, k + 1, Len(c))
  BY <1>1, <1>2, <1>3, DequeueAllFacts
<1>5. input' = r /\ lost' = lost /\ last' = IF k > 0 THEN c[k] ELSE last
  BY <1>3 DEF Read
<1>6. last' \in Byte
  <2> HIDE DEF c, k
  <2>1. QED
    BY <1>2, <1>5 DEF InputOK
<1>7. Contents(input)' = Contents(r)
  BY <1>5 DEF Contents, Size, Get
<1>8. WellFormed(input, Byte)'
  BY <1>4, <1>5 DEF WellFormed, Rings, Position, Byte, Char
<1>9. QED
  BY <1>4, <1>5, <1>6, <1>7, <1>8 DEF InputOK, Byte, Char

\* The ring keeps its indices and its flag consistent.
LEMMA InputInvariant == Spec => []InputOK
<1>1. KeyboardInit => InputOK
  BY NewRingEmpty DEF KeyboardInit
<1>2. InputOK /\ [Next]_vars => InputOK'
  <2> SUFFICES ASSUME InputOK, [Next]_vars PROVE InputOK'
    OBVIOUS
  <2>1. CASE UNCHANGED <<input, got, last, lost>>
    BY <2>1 DEF InputOK, WellFormed, Rings, Position, Byte, Char
  <2>2. ASSUME NEW s \in Typed, Arrive(s) PROVE InputOK'
    BY <2>2, ArriveFacts
  <2>3. ASSUME NEW n \in 0 .. MaxRead, Read(n) PROVE InputOK'
    BY <2>3, ReadFacts, TerminalInputAssumption
  <2>4. QED
    BY <2>1, <2>2, <2>3, NextCases
<1>3. QED
  BY <1>1, <1>2, PTL DEF Spec

\* The ring, the listener and the read system call implement the bounded queue, for
\* every capacity, layout and size of read: each key appends its bytes, of which
\* only the oldest are lost when the ring is full, and a read returns and removes
\* the oldest bytes, up to a negative character, which it takes and drops.
THEOREM InputImplementsQueue == Spec => ImplementsQueue
<1>1. KeyboardInit => Queue!Init
  BY NewRingEmpty DEF KeyboardInit, Init, Queue!Init
<1>2. InputOK /\ [Next]_vars => [Queue!Next]_<<Contents(input), got>>
  <2> SUFFICES ASSUME InputOK, [Next]_vars
               PROVE  [Queue!Next]_<<Contents(input), got>>
    OBVIOUS
  <2>1. CASE UNCHANGED <<input, got, last, lost>>
    BY <2>1 DEF Contents, Size, Get
  <2>2. ASSUME NEW s \in Typed, Arrive(s)
        PROVE  Queue!Next
    <3>1. Contents(input)' = Queue!Latest(Contents(input) \o s) /\ got' = got
      BY <2>2, ArriveFacts DEF Arrive
    <3>2. Queue!Put(s)
      BY <3>1 DEF Queue!Put
    <3>3. QED
      BY <3>2 DEF Queue!Next, Typed
  <2>3. ASSUME NEW n \in 0 .. MaxRead, Read(n)
        PROVE  Queue!Next
    <3> DEFINE c == Contents(input)
               k == TakenBy(n)
    <3>1. n \in Nat
      BY TerminalInputAssumption
    <3>2. k \in 0 .. Len(c) /\ \A i \in 1 .. k - 1 : c[i] \notin Negative
      BY <3>1, TakenByFacts
    <3>3. c' = SubSeq(c, k + 1, Len(c))
      BY <2>3, <3>1, ReadFacts
    <3>4. got' = IF k > 0 /\ c[k] \in Negative THEN SubSeq(c, 1, k - 1) ELSE SubSeq(c, 1, k)
      BY <2>3 DEF Read
    <3>5. Len(c) \in Nat
      BY ContentsSeq DEF InputOK
    <3> HIDE DEF k
    <3>6. CASE k > 0 /\ c[k] \in Negative
      <4>1. k - 1 \in 0 .. Len(c) /\ k - 1 < Len(c) /\ (k - 1) + 1 = k
        BY <3>2, <3>5, <3>6
      <4>2. Queue!TakeRefused(k - 1)
        BY <4>1, <3>2, <3>3, <3>4, <3>6 DEF Queue!TakeRefused, Queue!Remove
      <4>3. QED
        BY <4>1, <4>2 DEF Queue!Next
    <3>7. CASE ~(k > 0 /\ c[k] \in Negative)
      <4>1. \A i \in 1 .. k : c[i] \notin Negative
        BY <3>2, <3>5, <3>7
      <4>2. Queue!Take(k)
        BY <4>1, <3>2, <3>3, <3>4, <3>5, <3>7 DEF Queue!Take, Queue!Remove
      <4>3. QED
        BY <3>2, <4>2 DEF Queue!Next
    <3>8. QED
      BY <3>6, <3>7
  <2>4. QED
    BY <2>1, <2>2, <2>3, NextCases
<1>3. QED
  BY <1>1, <1>2, InputInvariant, PTL DEF Spec, ImplementsQueue, Queue!Spec

-----------------------------------------------------------------------------
(* The sequences of the arrow keys.                                        *)

\* In c a bracket follows every ESC and only an ESC; so c ends with neither half
\* of a sequence open.
Paired(c) ==
  /\ \A i \in 2 .. Len(c) : c[i] = "[" <=> c[i - 1] = "ESC"
  /\ c[Len(c)] # "ESC"

\* What waits, behind the byte that was read last.
Waiting == <<last>> \o Contents(input)

\* The bytes of a key, behind bytes that are paired, leave them so.
LEMMA PairedGrows ==
  ASSUME NEW c \in Seq(Byte), Len(c) > 0, Paired(c), NEW s \in Typed
  PROVE  Paired(c \o s)
<1> DEFINE d == c \o s
           l == Len(c)
<1>1. l \in Nat /\ l > 0
  OBVIOUS
<1>2. s \in Seq(Byte)
  BY TypedBytes
<1>3. /\ d \in Seq(Byte) /\ Len(d) = l + Len(s)
      /\ \A i \in 1 .. l : d[i] = c[i]
      /\ \A i \in 1 .. Len(s) : d[l + i] = s[i]
  BY <1>2
<1>4. /\ \A i \in 2 .. l : c[i] = "[" <=> c[i - 1] = "ESC"
      /\ c[l] # "ESC"
  BY DEF Paired
<1> HIDE DEF d, l
<1>5. ASSUME NEW i \in 2 .. l
      PROVE  d[i] = "[" <=> d[i - 1] = "ESC"
  <2>1. i \in 1 .. l /\ i - 1 \in 1 .. l
    BY <1>1
  <2>2. QED
    BY <2>1, <1>3, <1>4
<1>6. d[l] # "ESC"
  BY <1>1, <1>3, <1>4
<1>7. ASSUME NEW ch \in Char, s = <<ch>>
      PROVE  Paired(d)
  <2>1. ch # "[" /\ ch # "ESC"
    BY TerminalInputAssumption DEF Char
  <2>2. Len(s) = 1 /\ s[1] = ch
    BY <1>7
  <2>3. Len(d) = l + 1 /\ d[l + 1] = ch
    BY <2>2, <1>3
  <2>4. ASSUME NEW i \in 2 .. l + 1
        PROVE  d[i] = "[" <=> d[i - 1] = "ESC"
    <3>1. CASE i \in 2 .. l
      BY <3>1, <1>5
    <3>2. CASE i = l + 1
      BY <3>2, <2>1, <2>3, <1>6, <1>1
    <3>3. QED
      BY <3>1, <3>2, <1>1
  <2>5. QED
    BY <2>1, <2>3, <2>4 DEF Paired
<1>8. ASSUME NEW a \in Arrows, s = ArrowBytes(a)
      PROVE  Paired(d)
  <2> DEFINE f == FinalByte[a]
  <2>1. f \in {"A", "B", "C", "D"}
    BY DEF Arrows, FinalByte
  <2> HIDE DEF f
  <2>2. Len(s) = 3 /\ s[1] = "ESC" /\ s[2] = "[" /\ s[3] = f
    BY <1>8 DEF ArrowBytes, f
  <2>3. Len(d) = l + 3 /\ d[l + 1] = "ESC" /\ d[l + 2] = "[" /\ d[l + 3] = f
    BY <2>2, <1>3
  <2>4. ASSUME NEW i \in 2 .. l + 3
        PROVE  d[i] = "[" <=> d[i - 1] = "ESC"
    <3>1. CASE i \in 2 .. l
      BY <3>1, <1>5
    <3>2. CASE i = l + 1
      BY <3>2, <2>3, <1>6, <1>1
    <3>3. CASE i = l + 2
      <4>1. i - 1 = l + 1
        BY <3>3, <1>1
      <4>2. QED
        BY <3>3, <4>1, <2>3
    <3>4. CASE i = l + 3
      <4>1. i - 1 = l + 2
        BY <3>4, <1>1
      <4>2. QED
        BY <3>4, <4>1, <2>1, <2>3
    <3>5. QED
      BY <3>1, <3>2, <3>3, <3>4, <1>1
  <2>5. QED
    BY <2>1, <2>3, <2>4 DEF Paired
<1>9. QED
  BY <1>7, <1>8 DEF Typed, d

\* What is left of paired bytes when the oldest are gone.
LEMMA PairedShrinks ==
  ASSUME NEW c \in Seq(Byte), Paired(c), NEW k \in 1 .. Len(c)
  PROVE  Paired(SubSeq(c, k, Len(c)))
<1> DEFINE l == Len(c)
           d == SubSeq(c, k, l)
<1>1. l \in Nat /\ k \in 1 .. l
  OBVIOUS
<1>2. d \in Seq(Byte) /\ Len(d) = l - k + 1 /\ \A i \in 1 .. l - k + 1 : d[i] = c[k + i - 1]
  OBVIOUS
<1>3. /\ \A i \in 2 .. l : c[i] = "[" <=> c[i - 1] = "ESC"
      /\ c[l] # "ESC"
  BY DEF Paired
<1> HIDE DEF d, l
<1>4. ASSUME NEW i \in 2 .. Len(d)
      PROVE  d[i] = "[" <=> d[i - 1] = "ESC"
  <2> DEFINE j == k + i - 1
  <2>1. /\ i \in 1 .. l - k + 1 /\ i - 1 \in 1 .. l - k + 1
        /\ j \in 2 .. l /\ k + (i - 1) - 1 = j - 1
    BY <1>1, <1>2
  <2>2. d[i] = c[j] /\ d[i - 1] = c[j - 1]
    BY <2>1, <1>2
  <2>3. QED
    BY <2>1, <2>2, <1>3
<1>5. d[Len(d)] = c[l]
  <2>1. Len(d) \in 1 .. l - k + 1 /\ k + Len(d) - 1 = l
    BY <1>1, <1>2
  <2>2. QED
    BY <2>1, <1>2
<1>6. QED
  BY <1>3, <1>4, <1>5 DEF Paired, d, l

\* The inductive invariant: ArrowsArriveWhole, and the latest byte is no ESC, so
\* that whatever comes next opens no sequence in the middle of another.
ArrowsPaired == ~lost => Paired(Waiting)

\* What waits is the last byte read, followed by the contents of the ring.
LEMMA WaitingSeq ==
  ASSUME InputOK
  PROVE  /\ Waiting \in Seq(Byte) /\ Len(Waiting) = Len(Contents(input)) + 1
         /\ Contents(input) \in Seq(Byte) /\ Waiting[1] = last
         /\ \A i \in 1 .. Len(Contents(input)) : Waiting[i + 1] = Contents(input)[i]
<1> DEFINE c == Contents(input)
           w == <<last>> \o c
<1>1. c \in Seq(Byte) /\ last \in Byte
  BY ContentsSeq DEF InputOK
<1> HIDE DEF c
<1>2. /\ w \in Seq(Byte) /\ Len(w) = Len(c) + 1 /\ w[1] = last
      /\ \A i \in 1 .. Len(c) : w[i + 1] = c[i]
  BY <1>1
<1>3. QED
  BY <1>1, <1>2 DEF Waiting, c

\* Bytes of a key that arrive keep the arrow sequences in what waits whole.
LEMMA ArrivePaired ==
  ASSUME InputOK, ArrowsPaired, NEW s \in Typed, Arrive(s), ~lost'
  PROVE  Paired(Waiting)'
<1> DEFINE c == Contents(input)
<1>1. s \in Seq(Byte) /\ Len(s) \in Nat
  BY TypedBytes
<1>2. c \in Seq(Byte) /\ last \in Byte /\ Len(c) = Size(input) /\ Size(input) \in Nat
  BY ContentsSeq, RingFacts, CapacityAssumption DEF InputOK
<1>3. ~lost /\ Size(input) + Len(s) <= Capacity /\ last' = last
  <2> DEFINE full == Size(input) + Len(s) > Capacity
  <2>1. lost' = (lost \/ full) /\ last' = last
    BY DEF Arrive
  <2> HIDE DEF full
  <2>2. ~lost /\ ~full
    BY <2>1, Zenon
  <2>3. QED
    BY <1>1, <1>2, <2>1, <2>2, CapacityAssumption DEF full
<1>4. c' = Queue!Latest(c \o s)
  BY ArriveFacts
<1>5. Queue!Latest(c \o s) = c \o s
  <2> HIDE DEF c
  <2>1. Len(c \o s) <= Capacity
    BY <1>1, <1>2, <1>3
  <2>2. QED
    BY <2>1 DEF Queue!Latest
<1>6. Waiting' = Waiting \o s
  <2>1. Waiting' = <<last>> \o (c \o s)
    BY <1>3, <1>4, <1>5 DEF Waiting
  <2>2. <<last>> \o (c \o s) = (<<last>> \o c) \o s
    <3> HIDE DEF c
    <3>1. QED
      BY <1>1, <1>2
  <2>3. QED
    BY <2>1, <2>2 DEF Waiting
<1>7. Paired(Waiting \o s)
  BY <1>3, WaitingSeq, PairedGrows DEF ArrowsPaired
<1>8. PICK w : w = Waiting \o s
  OBVIOUS
<1>9. QED
  BY <1>6, <1>7, <1>8 DEF Paired

\* A read keeps the arrow sequences in what waits whole, wherever it stops.
LEMMA ReadPaired ==
  ASSUME InputOK, ArrowsPaired, NEW n \in Nat, Read(n), ~lost'
  PROVE  Paired(Waiting)'
<1> DEFINE c == Contents(input)
           k == TakenBy(n)
           l == Len(c)
           w == Waiting
<1>1. k \in 0 .. l
  BY TakenByFacts
<1>2. /\ w \in Seq(Byte) /\ Len(w) = l + 1 /\ c \in Seq(Byte) /\ w[1] = last
      /\ \A i \in 1 .. l : w[i + 1] = c[i]
  BY WaitingSeq
<1>3. c' = SubSeq(c, k + 1, l)
  BY ReadFacts
<1>4. last' = (IF k > 0 THEN c[k] ELSE last) /\ lost' = lost
  BY DEF Read
<1>5. Paired(w)
  BY <1>4 DEF ArrowsPaired
<1> DEFINE v == SubSeq(w, k + 1, l + 1)
           t == SubSeq(c, k + 1, l)
           u == <<last'>> \o t
<1>6. w' = u
  BY <1>3 DEF Waiting
<1>7. u = v
  <2> HIDE DEF c, k, l, w
  <2>1. l \in Nat
    BY <1>2 DEF l
  <2>2. v \in Seq(Byte) /\ Len(v) = l + 1 - k /\ \A i \in 1 .. l + 1 - k : v[i] = w[k + i]
    BY <1>1, <1>2, <2>1
  <2>3. t \in Seq(Byte) /\ Len(t) = l - k /\ \A i \in 1 .. l - k : t[i] = c[k + i]
    BY <1>1, <1>2, <2>1 DEF l
  <2>4. last' = w[k + 1]
    BY <1>1, <1>2, <1>4, <2>1
  <2>5. last' \in Byte
    BY <1>1, <1>2, <2>1, <2>4
  <2> HIDE DEF v, t
  <2>6. /\ u \in Seq(Byte) /\ Len(u) = l + 1 - k /\ u[1] = last'
        /\ \A i \in 1 .. l - k : u[i + 1] = t[i]
    BY <2>3, <2>5, <1>1, <2>1
  <2> HIDE DEF u
  <2>7. ASSUME NEW i \in 1 .. l + 1 - k PROVE u[i] = v[i]
    <3>1. CASE i = 1
      BY <3>1, <2>2, <2>4, <2>6, <1>1, <2>1
    <3>2. CASE i # 1
      <4>1. i - 1 \in 1 .. l - k /\ (i - 1) + 1 = i /\ k + (i - 1) \in 1 .. l /\ (k + (i - 1)) + 1 = k + i
        BY <3>2, <1>1, <2>1
      <4>2. u[i] = t[i - 1]
        BY <4>1, <2>6
      <4>3. t[i - 1] = c[k + (i - 1)]
        BY <4>1, <2>3
      <4>4. c[k + (i - 1)] = w[k + i]
        BY <4>1, <1>2
      <4>5. QED
        BY <4>2, <4>3, <4>4, <2>2
    <3>3. QED
      BY <3>1, <3>2
  <2>8. QED
    BY <2>2, <2>6, <2>7
<1>8. Paired(v)
  <2> HIDE DEF c, k, w
  <2>1. k + 1 \in 1 .. Len(w) /\ Len(w) = l + 1
    BY <1>1, <1>2
  <2>2. QED
    BY <2>1, <1>2, <1>5, PairedShrinks
<1>9. Waiting' = v
  BY <1>6, <1>7
<1> HIDE DEF v
<1>10. QED
  BY <1>8, <1>9 DEF Paired

\* As long as no byte was overwritten, the bytes of an arrow key reach programs
\* together and in order, for every capacity, layout, negative characters
\* included, and every way to cut the input into reads.
THEOREM ArrowKeysWhole == Spec => []ArrowsArriveWhole
<1>1. KeyboardInit => ArrowsPaired
  <2> SUFFICES ASSUME KeyboardInit PROVE Paired(Waiting)
    BY DEF ArrowsPaired
  <2>1. Contents(input) = <<>> /\ last = "none"
    BY NewRingEmpty DEF KeyboardInit, Init, NoChar
  <2>2. Waiting = <<"none">>
    BY <2>1 DEF Waiting
  <2>3. QED
    BY <2>2 DEF Paired
<1>2. InputOK /\ ArrowsPaired /\ [Next]_vars => ArrowsPaired'
  <2> SUFFICES ASSUME InputOK, ArrowsPaired, [Next]_vars PROVE ArrowsPaired'
    OBVIOUS
  <2>1. CASE UNCHANGED <<input, got, last, lost>>
    <3>1. Waiting' = Waiting /\ lost' = lost
      BY <2>1 DEF Waiting, Contents, Size, Get
    <3>2. QED
      BY <3>1 DEF ArrowsPaired, Paired
  <2>2. ASSUME NEW s \in Typed, Arrive(s) PROVE ArrowsPaired'
    BY <2>2, ArrivePaired DEF ArrowsPaired
  <2>3. ASSUME NEW n \in 0 .. MaxRead, Read(n) PROVE ArrowsPaired'
    BY <2>3, ReadPaired, TerminalInputAssumption DEF ArrowsPaired
  <2>4. QED
    BY <2>1, <2>2, <2>3, NextCases
<1>3. ArrowsPaired => ArrowsArriveWhole
  BY DEF ArrowsPaired, ArrowsArriveWhole, Paired, Waiting
<1>4. QED
  BY <1>1, <1>2, <1>3, InputInvariant, PTL DEF Spec

-----------------------------------------------------------------------------
(* The scan codes under way.                                               *)

\* A code on the wire, and whether the next one comes with it.
Scan == [code : Nat, joined : BOOLEAN]

\* The codes in the controller and on the wire, the next one first.
Codes(w) == [i \in 1 .. Len(w) |-> w[i].code]
Joint(p, w) == p \o Codes(w)
Coming == Joint(port, wire)

\* The six codes of the Pause key stand in s from i on.
PauseAt(s, i) == i >= 1 /\ i + 5 <= Len(s) /\ \A j \in 0 .. 5 : s[i + j] = Pause[j + 1]

\* Every 0xE1 belongs to a whole Pause.
PausesWhole(s) == \A i \in 1 .. Len(s) : s[i] = 225 => PauseAt(s, i) \/ PauseAt(s, i - 3)

\* What may follow 0xE0, and what must follow the beginning of Print Screen.
SecondCode == {29, 157, 72, 200, 42, 55, 183, 170}

\* Every 0xE0 is followed by the rest of the codes of a key the handler knows.
PrefixesFollowed(s) ==
  \A i \in 1 .. Len(s) : s[i] = 224 =>
    /\ i + 1 <= Len(s) /\ s[i + 1] \in SecondCode
    /\ s[i + 1] = 42 => i + 3 <= Len(s) /\ s[i + 2] = 224 /\ s[i + 3] = 55
    /\ s[i + 1] = 183 => i + 3 <= Len(s) /\ s[i + 2] = 224 /\ s[i + 3] = 170

\* The codes of whole keys, one after the other.
WholeKeys(s) == s \in Seq(Nat) /\ PausesWhole(s) /\ PrefixesFollowed(s)

\* The codes that press and release Ctrl; those within a Pause do not.
At(s, c) == {i \in 1 .. Len(s) : s[i] = c /\ (i > 1 => s[i - 1] # 225)}
Presses(s) == At(s, 29)
Releases(s) == At(s, 157)

\* Every press of a Ctrl key has a release behind it.
Answered(s) == \A p \in Presses(s) : \E r \in Releases(s) : r > p

\* The last code on the wire w does not wait for another.
EndsAlone(w) == w # <<>> => ~w[Len(w)].joined

\* Unless a Ctrl key is down, the release of every press is on its way, and so is
\* that of Ctrl if it is on.
Settled(s, down, on) == down \cap Controls = {} => Answered(s) /\ (on => Releases(s) # {})

\* The inductive invariant behind CtrlReleased.
CtrlInv ==
  /\ port \in Seq(Nat) /\ wire \in Seq(Scan)
  /\ ctrl \in BOOLEAN /\ (ctrl => listening)
  /\ WholeKeys(Coming)
  /\ EndsAlone(wire)
  /\ Settled(Coming, held, ctrl)

\* The codes of a Pause.
LEMMA PauseCodes ==
  ASSUME NEW s, NEW i \in Int, PauseAt(s, i)
  PROVE  /\ i >= 1 /\ i + 5 <= Len(s)
         /\ s[i] = 225 /\ s[i + 1] = 29 /\ s[i + 2] = 69
         /\ s[i + 3] = 225 /\ s[i + 4] = 157 /\ s[i + 5] = 197
<1>1. \A j \in 0 .. 5 : s[i + j] = Pause[j + 1]
  BY DEF PauseAt
<1>2. /\ s[i + 0] = Pause[1] /\ s[i + 1] = Pause[2] /\ s[i + 2] = Pause[3]
      /\ s[i + 3] = Pause[4] /\ s[i + 4] = Pause[5] /\ s[i + 5] = Pause[6]
  BY <1>1
<1>3. i + 0 = i
  OBVIOUS
<1>4. QED
  BY <1>2, <1>3 DEF PauseAt, Pause

\* A Pause is where its codes are.
LEMMA PauseMoves ==
  ASSUME NEW s, NEW d, NEW i \in Int, NEW k \in Int, PauseAt(s, i),
         k >= 1, k + 5 <= Len(d), \A j \in 0 .. 5 : d[k + j] = s[i + j]
  PROVE  PauseAt(d, k)
BY DEF PauseAt

\* Whole keys behind whole keys.  No Pause begins in one part and ends in the
\* other, and no code of one part is taken for a part of a Pause of the other.
LEMMA KeysBehindKeys ==
  ASSUME NEW s, NEW c, WholeKeys(s), WholeKeys(c)
  PROVE  /\ WholeKeys(s \o c)
         /\ \A i \in 1 .. Len(s \o c) : PauseAt(s \o c, i) =>
              PauseAt(s, i) \/ (i > Len(s) /\ PauseAt(c, i - Len(s)))
         /\ \A x : At(s \o c, x) = At(s, x) \cup {i + Len(s) : i \in At(c, x)}
<1>0. PICK d, m, n : d = s \o c /\ m = Len(s) /\ n = Len(c)
  OBVIOUS
<1>1. /\ s \in Seq(Nat) /\ c \in Seq(Nat) /\ d \in Seq(Nat)
      /\ m \in Nat /\ n \in Nat /\ Len(d) = m + n
      /\ \A i \in 1 .. m : d[i] = s[i]
      /\ \A i \in 1 .. n : d[m + i] = c[i]
  BY <1>0 DEF WholeKeys
<1>2. /\ m \in Nat /\ n \in Nat /\ Len(s) = m /\ Len(c) = n /\ Len(d) = m + n
      /\ \A i \in 1 .. m : d[i] = s[i]
      /\ \A i \in 1 .. n : d[m + i] = c[i]
  BY <1>1, <1>0
<1>3. /\ \A i \in 1 .. m : s[i] = 225 => PauseAt(s, i) \/ PauseAt(s, i - 3)
      /\ \A i \in 1 .. n : c[i] = 225 => PauseAt(c, i) \/ PauseAt(c, i - 3)
  BY <1>0 DEF WholeKeys, PausesWhole
<1>4. \A i \in 1 .. m + n : i > m => i - m \in 1 .. n /\ d[i] = c[i - m]
  <2> SUFFICES ASSUME NEW i \in 1 .. m + n, i > m PROVE i - m \in 1 .. n /\ d[i] = c[i - m]
    OBVIOUS
  <2>1. i - m \in 1 .. n /\ m + (i - m) = i
    BY <1>2
  <2>2. QED
    BY <1>2, <2>1
<1>5. \A i \in Int : PauseAt(s, i) => PauseAt(d, i)
  <2> SUFFICES ASSUME NEW i \in Int, PauseAt(s, i) PROVE PauseAt(d, i)
    OBVIOUS
  <2>1. i >= 1 /\ i + 5 <= m
    BY <1>2, PauseCodes
  <2>2. \A j \in 0 .. 5 : i + j \in 1 .. m
    BY <1>2, <2>1
  <2>3. i + 5 <= Len(d) /\ \A j \in 0 .. 5 : d[i + j] = s[i + j]
    BY <1>2, <2>1, <2>2
  <2>4. QED
    BY <2>1, <2>3, PauseMoves
<1>6. \A i \in Int : PauseAt(c, i) => PauseAt(d, m + i)
  <2> SUFFICES ASSUME NEW i \in Int, PauseAt(c, i) PROVE PauseAt(d, m + i)
    OBVIOUS
  <2>1. i >= 1 /\ i + 5 <= n
    BY <1>2, PauseCodes
  <2>2. \A j \in 0 .. 5 : i + j \in 1 .. n /\ (m + i) + j = m + (i + j)
    BY <1>2, <2>1
  <2>3. \A j \in 0 .. 5 : d[(m + i) + j] = c[i + j]
    BY <1>2, <2>2
  <2>4. m + i \in Int /\ m + i >= 1 /\ (m + i) + 5 <= Len(d)
    BY <1>2, <2>1
  <2>5. QED
    BY <2>3, <2>4, PauseMoves
<1>7. PausesWhole(d)
  <2> SUFFICES ASSUME NEW i \in 1 .. Len(d), d[i] = 225 PROVE PauseAt(d, i) \/ PauseAt(d, i - 3)
    BY DEF PausesWhole
  <2>1. CASE i <= m
    <3>1. PauseAt(s, i) \/ PauseAt(s, i - 3)
      BY <2>1, <1>2, <1>3
    <3>2. QED
      BY <3>1, <1>5, <1>2
  <2>2. CASE i > m
    <3>1. PauseAt(c, i - m) \/ PauseAt(c, (i - m) - 3)
      BY <2>2, <1>2, <1>3, <1>4
    <3>2. PauseAt(d, m + (i - m)) \/ PauseAt(d, m + ((i - m) - 3))
      BY <3>1, <1>6, <1>2
    <3>3. m + (i - m) = i /\ m + ((i - m) - 3) = i - 3
      BY <1>2
    <3>4. QED
      BY <3>2, <3>3
  <2>3. QED
    BY <2>1, <2>2, <1>2
<1>8. PrefixesFollowed(d)
  <2> SUFFICES ASSUME NEW i \in 1 .. Len(d), d[i] = 224
               PROVE  /\ i + 1 <= Len(d) /\ d[i + 1] \in SecondCode
                      /\ d[i + 1] = 42 => i + 3 <= Len(d) /\ d[i + 2] = 224 /\ d[i + 3] = 55
                      /\ d[i + 1] = 183 => i + 3 <= Len(d) /\ d[i + 2] = 224 /\ d[i + 3] = 170
    BY DEF PrefixesFollowed
  <2>1. CASE i <= m
    <3>1. /\ i + 1 <= m /\ s[i + 1] \in SecondCode
          /\ s[i + 1] = 42 => i + 3 <= m /\ s[i + 2] = 224 /\ s[i + 3] = 55
          /\ s[i + 1] = 183 => i + 3 <= m /\ s[i + 2] = 224 /\ s[i + 3] = 170
      <4>1. i \in 1 .. Len(s) /\ s[i] = 224
        BY <2>1, <1>2
      <4>2. QED
        BY <4>1, <1>2 DEF WholeKeys, PrefixesFollowed
    <3>2. \A j \in 1 .. 3 : i + j <= m => d[i + j] = s[i + j]
      <4> SUFFICES ASSUME NEW j \in 1 .. 3, i + j <= m PROVE d[i + j] = s[i + j]
        OBVIOUS
      <4>1. i + j \in 1 .. m
        BY <1>2
      <4>2. QED
        BY <4>1, <1>2
    <3>3. d[i + 1] = s[i + 1]
      BY <3>1, <3>2
    <3>4. i + 3 <= m => d[i + 2] = s[i + 2] /\ d[i + 3] = s[i + 3]
      BY <3>2, <1>2
    <3>5. i + 1 <= Len(d) /\ (i + 3 <= m => i + 3 <= Len(d))
      BY <3>1, <1>2
    <3>6. QED
      BY <3>1, <3>3, <3>4, <3>5
  <2>2. CASE i > m
    <3>1. PICK k : k = i - m
      OBVIOUS
    <3>2. k \in 1 .. n /\ c[k] = 224
      BY <3>1, <2>2, <1>2, <1>4
    <3>3. /\ k + 1 <= n /\ c[k + 1] \in SecondCode
          /\ c[k + 1] = 42 => k + 3 <= n /\ c[k + 2] = 224 /\ c[k + 3] = 55
          /\ c[k + 1] = 183 => k + 3 <= n /\ c[k + 2] = 224 /\ c[k + 3] = 170
      BY <3>2, <1>2 DEF WholeKeys, PrefixesFollowed
    <3>4. \A j \in 1 .. 3 : k + j <= n => d[i + j] = c[k + j]
      <4> SUFFICES ASSUME NEW j \in 1 .. 3, k + j <= n PROVE d[i + j] = c[k + j]
        OBVIOUS
      <4>1. k + j \in 1 .. n /\ m + (k + j) = i + j
        BY <3>1, <3>2, <1>2, <2>2
      <4>2. QED
        BY <4>1, <1>2
    <3>5. d[i + 1] = c[k + 1]
      BY <3>3, <3>4
    <3>6. k + 3 <= n => d[i + 2] = c[k + 2] /\ d[i + 3] = c[k + 3]
      BY <3>2, <3>4, <1>2
    <3>7. i + 1 <= Len(d) /\ (k + 3 <= n => i + 3 <= Len(d))
      BY <3>1, <3>2, <3>3, <1>2
    <3>8. QED
      BY <3>3, <3>5, <3>6, <3>7
  <2>3. QED
    BY <2>1, <2>2, <1>2
<1>9. ASSUME NEW i \in 1 .. Len(d), PauseAt(d, i)
      PROVE  PauseAt(s, i) \/ (i > m /\ PauseAt(c, i - m))
  <2>1. CASE i <= m
    <3>1. i \in 1 .. m /\ d[i] = 225
      BY <2>1, <1>2, <1>9, PauseCodes
    <3>4. s[i] = 225
      BY <3>1, <1>2
    <3>2. ~PauseAt(s, i - 3)
      <4> SUFFICES ASSUME PauseAt(s, i - 3) PROVE FALSE
        OBVIOUS
      <4>1. i - 3 \in Int /\ (i - 3) + 4 = i + 1
        BY <1>2
      <4>2. (i - 3) + 5 <= Len(s) /\ s[(i - 3) + 4] = 157
        BY <4>1, PauseCodes
      <4>3. i + 1 \in 1 .. m /\ s[i + 1] = 157
        BY <4>1, <4>2, <1>2
      <4>4. d[i + 1] = 157
        BY <4>3, <1>2
      <4>5. d[i + 1] = 29
        BY <1>9, <1>2, PauseCodes
      <4>6. QED
        BY <4>4, <4>5
    <3>3. QED
      BY <3>1, <3>2, <3>4, <1>3
  <2>2. CASE i > m
    <3>1. PICK k : k = i - m
      OBVIOUS
    <3>2. i \in Int /\ i + 5 <= Len(d)
      BY <1>2, <1>9, PauseCodes
    <3>3. k \in Int /\ k >= 1 /\ k + 5 <= Len(c)
      BY <3>1, <3>2, <2>2, <1>2
    <3>4. \A j \in 0 .. 5 : c[k + j] = d[i + j]
      <4> SUFFICES ASSUME NEW j \in 0 .. 5 PROVE d[i + j] = c[k + j]
        OBVIOUS
      <4>1. k + j \in 1 .. n /\ m + (k + j) = i + j
        BY <3>1, <3>2, <3>3, <1>2
      <4>2. QED
        BY <4>1, <1>2
    <3>5. PauseAt(c, k)
      BY <3>2, <3>3, <3>4, <1>9, PauseMoves
    <3>6. QED
      BY <3>1, <3>5, <2>2
  <2>3. QED
    BY <2>1, <2>2, <1>2
<1>10. ASSUME NEW x PROVE At(d, x) = At(s, x) \cup {i + m : i \in At(c, x)}
  <2>1. m > 0 => s[m] # 225
    <3> SUFFICES ASSUME m > 0, s[m] = 225 PROVE FALSE
      OBVIOUS
    <3>1. m \in 1 .. m /\ m \in Int /\ m - 3 \in Int
      BY <1>2
    <3>2. PauseAt(s, m) \/ PauseAt(s, m - 3)
      BY <3>1, <1>3
    <3>3. m + 5 <= m \/ (m - 3) + 5 <= m
      BY <3>1, <3>2, <1>2, PauseCodes
    <3>4. QED
      BY <3>3, <1>2
  <2>2. ASSUME NEW i \in 1 .. m PROVE i \in At(d, x) <=> i \in At(s, x)
    <3>1. i > 1 => i - 1 \in 1 .. m
      BY <1>2
    <3>2. d[i] = s[i] /\ (i > 1 => d[i - 1] = s[i - 1]) /\ i \in 1 .. m + n
      BY <3>1, <1>2
    <3>3. QED
      BY <3>2, <1>2 DEF At
  <2>3. ASSUME NEW i \in 1 .. n PROVE m + i \in At(d, x) <=> i \in At(c, x)
    <3>1. m + i \in 1 .. Len(d) /\ d[m + i] = c[i]
      BY <1>2
    <3>2. i > 1 => d[(m + i) - 1] = c[i - 1]
      <4> SUFFICES ASSUME i > 1 PROVE d[(m + i) - 1] = c[i - 1]
        OBVIOUS
      <4>1. i - 1 \in 1 .. n /\ (m + i) - 1 = m + (i - 1)
        BY <1>2
      <4>2. QED
        BY <4>1, <1>2
    <3>3. i = 1 /\ m + i > 1 => d[(m + i) - 1] # 225
      <4> SUFFICES ASSUME i = 1, m + i > 1 PROVE d[(m + i) - 1] # 225
        OBVIOUS
      <4>1. (m + i) - 1 = m /\ m > 0 /\ m \in 1 .. m
        BY <1>2
      <4>2. QED
        BY <4>1, <2>1, <1>2
    <3>4. i > 1 => m + i > 1
      BY <1>2
    <3>5. i \in At(c, x) <=> c[i] = x /\ (i > 1 => c[i - 1] # 225)
      BY <1>2 DEF At
    <3>6. m + i \in At(d, x) <=> d[m + i] = x /\ (m + i > 1 => d[(m + i) - 1] # 225)
      BY <3>1 DEF At
    <3>7. i > 1 \/ i = 1
      BY <1>2
    <3>8. QED
      BY <3>1, <3>2, <3>3, <3>4, <3>5, <3>6, <3>7
  <2>4. At(s, x) \subseteq 1 .. m /\ At(c, x) \subseteq 1 .. n /\ At(d, x) \subseteq 1 .. m + n
    BY <1>2 DEF At
  <2>5. ASSUME NEW i \in At(d, x) PROVE i \in At(s, x) \cup {k + m : k \in At(c, x)}
    <3>1. i \in 1 .. m + n
      BY <2>4
    <3>2. CASE i <= m
      BY <3>1, <3>2, <2>2, <1>2
    <3>3. CASE i > m
      <4>1. i - m \in 1 .. n /\ m + (i - m) = i /\ (i - m) + m = i
        BY <3>1, <3>3, <1>2
      <4>2. i - m \in At(c, x)
        BY <4>1, <2>3
      <4>3. QED
        BY <4>1, <4>2
    <3>4. QED
      BY <3>1, <3>2, <3>3, <1>2
  <2>6. ASSUME NEW k \in At(c, x) PROVE k + m \in At(d, x)
    <3>1. k \in 1 .. n /\ k + m = m + k
      BY <2>4, <1>2
    <3>2. QED
      BY <3>1, <2>3
  <2>7. QED
    BY <2>2, <2>4, <2>5, <2>6
<1>11. QED
  BY <1>1, <1>0, <1>7, <1>8, <1>9, <1>10 DEF WholeKeys

\* What is left of a sequence behind its first n elements.
LEMMA Dropped ==
  ASSUME NEW S, NEW s \in Seq(S), NEW n \in 0 .. Len(s)
  PROVE  /\ SubSeq(s, n + 1, Len(s)) \in Seq(S)
         /\ Len(SubSeq(s, n + 1, Len(s))) = Len(s) - n
         /\ \A i \in 1 .. Len(s) - n : SubSeq(s, n + 1, Len(s))[i] = s[n + i]
<1>1. Len(s) \in Nat /\ \A i \in 1 .. Len(s) - n : (n + 1) + i - 1 = n + i
  OBVIOUS
<1>2. QED
  BY <1>1

\* Codes are taken from the front, of which none is part of a Pause, or all of
\* one: what is left is whole keys, and the codes that work Ctrl are the same.
LEMMA KeysAfterKeys ==
  ASSUME NEW s, WholeKeys(s), NEW n \in 1 .. Len(s),
         \/ \A i \in 1 .. n : s[i] # 225
         \/ n = 6 /\ PauseAt(s, 1)
  PROVE  /\ WholeKeys(SubSeq(s, n + 1, Len(s)))
         /\ \A i \in 1 .. Len(s) - n :
              PauseAt(SubSeq(s, n + 1, Len(s)), i) => PauseAt(s, n + i)
         /\ \A x : At(SubSeq(s, n + 1, Len(s)), x) = {i - n : i \in {j \in At(s, x) : j > n}}
<1>0. PICK d, m : d = SubSeq(s, n + 1, Len(s)) /\ m = Len(s)
  OBVIOUS
<1>1. /\ d \in Seq(Nat) /\ m \in Nat /\ n \in 1 .. m /\ Len(s) = m /\ Len(d) = m - n
      /\ \A i \in 1 .. m - n : d[i] = s[n + i]
  <2>1. s \in Seq(Nat) /\ m \in Nat /\ n \in 1 .. m
    BY <1>0 DEF WholeKeys
  <2>2. s \in Seq(Nat) /\ n \in 0 .. Len(s)
    BY <1>0, <2>1
  <2>3. /\ SubSeq(s, n + 1, Len(s)) \in Seq(Nat)
        /\ Len(SubSeq(s, n + 1, Len(s))) = Len(s) - n
        /\ \A i \in 1 .. Len(s) - n : SubSeq(s, n + 1, Len(s))[i] = s[n + i]
    BY ONLY <2>2, Dropped
  <2>4. QED
    BY ONLY <1>0, <2>1, <2>3
<1>2. /\ m \in Nat /\ n \in 1 .. m /\ Len(s) = m /\ Len(d) = m - n
      /\ \A i \in 1 .. m - n : d[i] = s[n + i]
  BY <1>1
<1>3. \A i \in 1 .. m : s[i] = 225 => PauseAt(s, i) \/ PauseAt(s, i - 3)
  BY <1>0 DEF WholeKeys, PausesWhole
<1>4. ASSUME NEW i \in 1 .. m - n PROVE PauseAt(s, n + i) <=> PauseAt(d, i)
  <2>1. \A j \in 0 .. 5 : i + j <= m - n => d[i + j] = s[(n + i) + j]
    <3> SUFFICES ASSUME NEW j \in 0 .. 5, i + j <= m - n PROVE d[i + j] = s[(n + i) + j]
      OBVIOUS
    <3>1. i + j \in 1 .. m - n /\ n + (i + j) = (n + i) + j
      BY <1>2
    <3>2. QED
      BY <3>1, <1>2
  <2>2. /\ i + 0 = i /\ (n + i) + 0 = n + i /\ n + i >= 1 /\ i >= 1
        /\ i + 5 <= m - n <=> (n + i) + 5 <= m
        /\ i + 5 <= m - n => \A j \in 0 .. 5 : i + j <= m - n
    BY <1>2
  <2>3. ASSUME i + 5 <= m - n PROVE \A j \in 0 .. 5 : d[i + j] = s[(n + i) + j]
    BY <2>1, <2>2, <2>3
  <2>4. n + i \in Int /\ i \in Int
    BY <1>2
  <2>5. CASE PauseAt(s, n + i)
    <3>1. i + 5 <= m - n
      BY <2>2, <2>4, <2>5, <1>2, PauseCodes
    <3>2. i + 5 <= Len(d)
      BY <3>1, <1>2
    <3>3. QED
      BY <3>1, <3>2, <2>2, <2>3, <2>4, <2>5, PauseMoves
  <2>6. CASE PauseAt(d, i)
    <3>1. i + 5 <= m - n
      BY <2>4, <2>6, <1>2, PauseCodes
    <3>2. (n + i) + 5 <= Len(s)
      BY <3>1, <2>2, <1>2
    <3>3. \A j \in 0 .. 5 : s[(n + i) + j] = d[i + j]
      BY <3>1, <2>3
    <3>4. QED
      BY <3>2, <3>3, <2>2, <2>4, <2>6, PauseMoves
  <2>7. QED
    BY <2>5, <2>6
<1>5. ASSUME NEW i \in 1 .. n, PauseAt(s, i) PROVE i + 5 <= n
  <2>1. s[i] = 225
    BY <1>5, PauseCodes
  <2>2. CASE n = 6 /\ PauseAt(s, 1)
    <3>1. /\ s[1 + 1] = 29 /\ s[1 + 2] = 69 /\ s[1 + 4] = 157 /\ s[1 + 5] = 197
      BY <2>2, PauseCodes
    <3>2. s[i + 1] = 29
      BY <1>5, PauseCodes
    <3>3. i \in {1, 2, 3, 4, 5, 6}
      BY <2>2
    <3>4. i # 4
      BY <3>1, <3>2
    <3>5. QED
      BY <3>1, <3>3, <3>4, <2>1, <2>2
  <2>3. QED
    BY <2>1, <2>2
<1>6. s[n] # 225
  <2>1. CASE n = 6 /\ PauseAt(s, 1)
    <3>1. s[1 + 5] = 197
      BY <2>1, PauseCodes
    <3>2. QED
      BY <2>1, <3>1
  <2>2. QED
    BY <2>1, <1>2
<1>7. PausesWhole(d)
  <2> SUFFICES ASSUME NEW i \in 1 .. m - n, d[i] = 225 PROVE PauseAt(d, i) \/ PauseAt(d, i - 3)
    BY <1>2 DEF PausesWhole
  <2>1. n + i \in 1 .. m /\ s[n + i] = 225
    BY <1>2
  <2>2. CASE PauseAt(s, n + i)
    BY <2>2, <1>4
  <2>3. CASE PauseAt(s, (n + i) - 3)
    <3>1. CASE (n + i) - 3 <= n
      <4>1. (n + i) - 3 \in 1 .. n
        <5>1. (n + i) - 3 \in Int
          BY <1>2
        <5>2. (n + i) - 3 >= 1
          BY <5>1, <2>3, PauseCodes
        <5>3. QED
          BY <5>1, <5>2, <3>1, <1>2
      <4>2. ((n + i) - 3) + 5 <= n
        BY <4>1, <2>3, <1>5
      <4>3. QED
        BY <4>2, <1>2
    <3>2. CASE (n + i) - 3 > n
      <4>1. i - 3 \in 1 .. m - n /\ n + (i - 3) = (n + i) - 3
        BY <3>2, <1>2
      <4>2. QED
        BY <4>1, <2>3, <1>4
    <3>3. QED
      BY <3>1, <3>2, <1>2
  <2>4. QED
    BY <2>1, <2>2, <2>3, <1>3
<1>8. PrefixesFollowed(d)
  <2> SUFFICES ASSUME NEW i \in 1 .. m - n, d[i] = 224
               PROVE  /\ i + 1 <= m - n /\ d[i + 1] \in SecondCode
                      /\ d[i + 1] = 42 => i + 3 <= m - n /\ d[i + 2] = 224 /\ d[i + 3] = 55
                      /\ d[i + 1] = 183 => i + 3 <= m - n /\ d[i + 2] = 224 /\ d[i + 3] = 170
    BY <1>2 DEF PrefixesFollowed
  <2>1. PICK k : k = n + i
    OBVIOUS
  <2>2. k \in 1 .. m /\ s[k] = 224
    BY <2>1, <1>2
  <2>3. /\ k + 1 <= m /\ s[k + 1] \in SecondCode
        /\ s[k + 1] = 42 => k + 3 <= m /\ s[k + 2] = 224 /\ s[k + 3] = 55
        /\ s[k + 1] = 183 => k + 3 <= m /\ s[k + 2] = 224 /\ s[k + 3] = 170
    BY <2>2, <1>2 DEF WholeKeys, PrefixesFollowed
  <2>4. \A j \in 1 .. 3 : i + j <= m - n => d[i + j] = s[k + j]
    <3> SUFFICES ASSUME NEW j \in 1 .. 3, i + j <= m - n PROVE d[i + j] = s[k + j]
      OBVIOUS
    <3>1. i + j \in 1 .. m - n /\ n + (i + j) = k + j
      BY <2>1, <1>2
    <3>2. QED
      BY <3>1, <1>2
  <2>5. i + 1 <= m - n /\ (k + 3 <= m => i + 3 <= m - n /\ i + 2 <= m - n)
    BY <2>1, <2>3, <1>2
  <2>6. d[i + 1] = s[k + 1]
    BY <2>4, <2>5
  <2>7. k + 3 <= m => d[i + 2] = s[k + 2] /\ d[i + 3] = s[k + 3]
    BY <2>4, <2>5
  <2>8. i + 1 <= m - n /\ d[i + 1] \in SecondCode
    BY ONLY <2>3, <2>5, <2>6
  <2>9. d[i + 1] = 42 => i + 3 <= m - n /\ d[i + 2] = 224 /\ d[i + 3] = 55
    BY ONLY <2>3, <2>5, <2>6, <2>7
  <2>10. d[i + 1] = 183 => i + 3 <= m - n /\ d[i + 2] = 224 /\ d[i + 3] = 170
    BY ONLY <2>3, <2>5, <2>6, <2>7
  <2>11. QED
    BY ONLY <2>8, <2>9, <2>10
<1>9. ASSUME NEW x PROVE At(d, x) = {i - n : i \in {j \in At(s, x) : j > n}}
  <2>1. ASSUME NEW i \in 1 .. m - n PROVE i \in At(d, x) <=> n + i \in At(s, x)
    <3>1. n + i \in 1 .. m /\ d[i] = s[n + i] /\ n + i > 1
      BY <1>2
    <3>2. i > 1 => d[i - 1] = s[(n + i) - 1]
      <4> SUFFICES ASSUME i > 1 PROVE d[i - 1] = s[(n + i) - 1]
        OBVIOUS
      <4>1. i - 1 \in 1 .. m - n /\ (n + i) - 1 = n + (i - 1)
        BY <1>2
      <4>2. QED
        BY <4>1, <1>2
    <3>3. i = 1 => (n + i) - 1 = n
      BY <1>2
    <3>4. i \in At(d, x) <=> d[i] = x /\ (i > 1 => d[i - 1] # 225)
      BY <1>2 DEF At
    <3>5. n + i \in At(s, x) <=> s[n + i] = x /\ s[(n + i) - 1] # 225
      BY <3>1, <1>2 DEF At
    <3>6. i > 1 \/ i = 1
      BY <1>2
    <3>7. QED
      BY <3>1, <3>2, <3>3, <3>4, <3>5, <3>6, <1>6
  <2>2. At(d, x) \subseteq 1 .. m - n /\ At(s, x) \subseteq 1 .. m
    BY <1>2 DEF At
  <2>3. ASSUME NEW i \in At(d, x) PROVE i \in {k - n : k \in {j \in At(s, x) : j > n}}
    <3>1. n + i \in At(s, x)
      BY <2>1, <2>2
    <3>2. n + i > n /\ (n + i) - n = i
      BY <2>2, <1>2
    <3>3. QED
      BY <3>1, <3>2
  <2>4. ASSUME NEW k \in At(s, x), k > n PROVE k - n \in At(d, x)
    <3>1. k - n \in 1 .. m - n /\ n + (k - n) = k
      BY <2>2, <2>4, <1>2
    <3>2. QED
      BY <3>1, <2>1
  <2>5. QED
    BY <2>3, <2>4
<1>10. QED
  BY <1>1, <1>0, <1>4, <1>7, <1>8, <1>9 DEF WholeKeys

-----------------------------------------------------------------------------
(* What the keys send.                                                     *)

\* The codes c of a key contain no Pause.
Plain(c) == WholeKeys(c) /\ \A i \in 1 .. Len(c) : c[i] # 225

\* The codes of a key other than Pause contain no Pause.
LEMMA PlainNoPause ==
  ASSUME NEW c, Plain(c)
  PROVE  \A i \in 1 .. Len(c) : ~PauseAt(c, i)
<1> SUFFICES ASSUME NEW i \in 1 .. Len(c), PauseAt(c, i) PROVE FALSE
  OBVIOUS
<1>1. i \in Int /\ c[i] = 225
  BY PauseCodes
<1>2. QED
  BY <1>1 DEF Plain

\* A key with one code, and one with a prefix.
LEMMA OneCode ==
  ASSUME NEW a \in Nat, a # 224, a # 225
  PROVE  Plain(<<a>>) /\ \A x : At(<<a>>, x) = IF a = x THEN {1} ELSE {}
<1>1. PICK c : c = <<a>>
  OBVIOUS
<1>2. c \in Seq(Nat) /\ Len(c) = 1 /\ c[1] = a /\ \A i \in 1 .. 1 : i = 1
  BY <1>1
<1>3. Plain(c)
  BY <1>2 DEF Plain, WholeKeys, PausesWhole, PrefixesFollowed
<1>4. ASSUME NEW x PROVE At(c, x) = IF a = x THEN {1} ELSE {}
  BY <1>2 DEF At
<1>5. QED
  BY <1>1, <1>3, <1>4

\* 0xE0 and a second code are one whole key, a press or release if the second code is.
LEMMA PrefixedCode ==
  ASSUME NEW a \in SecondCode, a # 42, a # 183
  PROVE  Plain(<<224, a>>) /\ \A x : x # 224 => At(<<224, a>>, x) = IF a = x THEN {2} ELSE {}
<1>1. PICK c : c = <<224, a>>
  OBVIOUS
<1>2. a \in Nat /\ a # 224 /\ a # 225
  BY DEF SecondCode
<1>3. c \in Seq(Nat) /\ Len(c) = 2 /\ c[1] = 224 /\ c[2] = a /\ \A i \in 1 .. 2 : i = 1 \/ i = 2
  BY <1>1, <1>2
<1>4. PrefixesFollowed(c)
  BY <1>2, <1>3 DEF PrefixesFollowed
<1>5. Plain(c)
  BY <1>2, <1>3, <1>4 DEF Plain, WholeKeys, PausesWhole
<1>6. ASSUME NEW x, x # 224 PROVE At(c, x) = IF a = x THEN {2} ELSE {}
  <2>1. At(c, x) \subseteq {1, 2} /\ 1 \notin At(c, x)
    BY <1>3, <1>6 DEF At
  <2>2. 2 \in At(c, x) <=> a = x
    BY <1>3 DEF At
  <2>3. QED
    BY <2>1, <2>2
<1>7. QED
  BY <1>1, <1>5, <1>6

\* The four codes of Print Screen, down and up.
LEMMA PrintScreenCodes ==
  ASSUME NEW a \in {42, 183}, NEW b \in {55, 170}, (a = 42) <=> (b = 55)
  PROVE  Plain(<<224, a, 224, b>>) /\ \A x \in {29, 157} : At(<<224, a, 224, b>>, x) = {}
<1>1. PICK c : c = <<224, a, 224, b>>
  OBVIOUS
<1>2. /\ c \in Seq(Nat) /\ Len(c) = 4 /\ c[1] = 224 /\ c[2] = a /\ c[3] = 224 /\ c[4] = b
      /\ \A i \in 1 .. 4 : i = 1 \/ i = 2 \/ i = 3 \/ i = 4
  BY <1>1
<1>3. PrefixesFollowed(c)
  <2> SUFFICES ASSUME NEW i \in 1 .. 4, c[i] = 224
               PROVE  /\ i + 1 <= 4 /\ c[i + 1] \in SecondCode
                      /\ c[i + 1] = 42 => i + 3 <= 4 /\ c[i + 2] = 224 /\ c[i + 3] = 55
                      /\ c[i + 1] = 183 => i + 3 <= 4 /\ c[i + 2] = 224 /\ c[i + 3] = 170
    BY <1>2 DEF PrefixesFollowed
  <2>1. i = 1 \/ i = 3
    BY <1>2
  <2>2. a \in SecondCode /\ b \in SecondCode /\ b # 42 /\ b # 183
    BY DEF SecondCode
  <2>3. CASE i = 1
    BY <2>2, <2>3, <1>2
  <2>4. CASE i = 3
    BY <2>2, <2>4, <1>2
  <2>5. QED
    BY <2>1, <2>3, <2>4
<1>4. Plain(c)
  BY <1>2, <1>3 DEF Plain, WholeKeys, PausesWhole
<1>5. \A x \in {29, 157} : At(c, x) = {}
  BY <1>2 DEF At
<1>6. QED
  BY <1>1, <1>4, <1>5

\* The first codes of a sequence, as SubSeq takes them.
LEMMA CodesTaken ==
  ASSUME NEW q \in Seq(Nat), NEW l \in Nat, l <= Len(q)
  PROVE  /\ SubSeq(q, 1, l) \in Seq(Nat) /\ Len(SubSeq(q, 1, l)) = l
         /\ \A i \in 1 .. l : SubSeq(q, 1, l)[i] = q[i]
OBVIOUS

\* The codes of Pause are one whole key, whose Ctrl codes count as neither press nor release.
LEMMA PauseWhole ==
  /\ WholeKeys(Pause) /\ Len(Pause) = 6
  /\ \A i \in 1 .. 6 : PauseAt(Pause, i) => i = 1
  /\ \A x \in {29, 157} : At(Pause, x) = {}
<1>1. PICK c : c = Pause
  OBVIOUS
<1>2. /\ c \in Seq(Nat) /\ Len(c) = 6 /\ c[1] = 225 /\ c[2] = 29 /\ c[3] = 69 /\ c[4] = 225
      /\ c[5] = 157 /\ c[6] = 197
      /\ \A i \in 1 .. 6 : i = 1 \/ i = 2 \/ i = 3 \/ i = 4 \/ i = 5 \/ i = 6
  BY <1>1 DEF Pause
<1>3. PauseAt(c, 1)
  <2>1. \A j \in 0 .. 5 : 1 + j = j + 1
    OBVIOUS
  <2>2. QED
    BY <1>1, <1>2, <2>1 DEF PauseAt
<1>4. PausesWhole(c)
  <2>1. ASSUME NEW i \in 1 .. 6, c[i] = 225 PROVE i = 1 \/ i - 3 = 1
    BY <1>2, <2>1
  <2>2. QED
    BY <1>2, <1>3, <2>1 DEF PausesWhole
<1>5. PrefixesFollowed(c)
  BY <1>2 DEF PrefixesFollowed
<1>6. \A i \in 1 .. 6 : PauseAt(c, i) => i = 1
  <2> SUFFICES ASSUME NEW i \in 1 .. 6, PauseAt(c, i) PROVE i = 1
    OBVIOUS
  <2>1. i \in Int
    OBVIOUS
  <2>2. i + 5 <= Len(c)
    BY <2>1, PauseCodes
  <2>3. QED
    BY <2>1, <2>2, <1>2
<1>7. \A x \in {29, 157} : At(c, x) = {}
  BY <1>2 DEF At
<1>8. QED
  BY <1>1, <1>2, <1>4, <1>5, <1>6, <1>7 DEF WholeKeys

\* Whatever key goes down or up sends a whole key, of which only Pause contains a
\* Pause; of Ctrl the codes end with the press or the release, of the others none
\* works Ctrl.
LEMMA SentWhole ==
  ASSUME NEW k \in KnownKeys, NEW c \in {Make(k), Break(k)}
  PROVE  /\ WholeKeys(c)
         /\ \A i \in 1 .. Len(c) : PauseAt(c, i) => k = "PAUSE" /\ i = 1 /\ Len(c) = 6
         /\ k \notin Controls => Presses(c) = {} /\ Releases(c) = {}
         /\ k \in Controls /\ c = Break(k) => Presses(c) = {} /\ Releases(c) = {Len(c)}
<1>1. CASE k = "LEFT_CONTROL"
  <2>1. Make(k) = <<29>> /\ Break(k) = <<157>>
    BY <1>1 DEF Make, Break
  <2>2. Plain(Make(k)) /\ Plain(Break(k)) /\ At(<<157>>, 29) = {} /\ At(<<157>>, 157) = {1}
    BY <2>1, OneCode
  <2>3. k \in Controls /\ Len(<<157>>) = 1
    BY <1>1 DEF Controls
  <2>4. Plain(c)
    BY <2>2
  <2>5. c = Break(k) => Presses(c) = {} /\ Releases(c) = {Len(c)}
    BY <2>1, <2>2, <2>3 DEF Presses, Releases
  <2>6. QED
    BY <2>3, <2>4, <2>5, PlainNoPause DEF Plain
<1>2. CASE k = "RIGHT_CONTROL"
  <2>1. Make(k) = <<224, 29>> /\ Break(k) = <<224, 157>>
    BY <1>2 DEF Make, Break
  <2>2. Plain(Make(k)) /\ Plain(Break(k)) /\ At(<<224, 157>>, 29) = {} /\ At(<<224, 157>>, 157) = {2}
    BY <2>1, PrefixedCode DEF SecondCode
  <2>3. k \in Controls /\ Len(<<224, 157>>) = 2
    BY <1>2 DEF Controls
  <2>4. Plain(c)
    BY <2>2
  <2>5. c = Break(k) => Presses(c) = {} /\ Releases(c) = {Len(c)}
    BY <2>1, <2>2, <2>3 DEF Presses, Releases
  <2>6. QED
    BY <2>3, <2>4, <2>5, PlainNoPause DEF Plain
<1>3. CASE k \in {"LEFT_SHIFT", "C", "MINUS", "CAPS_LOCK"}
  <2>1. \E a \in Nat : c = <<a>> /\ a # 224 /\ a # 225 /\ a # 29 /\ a # 157
    BY <1>3 DEF Make, Break
  <2>2. k \notin Controls
    BY <1>3 DEF Controls
  <2>3. QED
    BY <2>1, <2>2, OneCode, PlainNoPause DEF Plain, Presses, Releases
<1>4. CASE k = "UP"
  <2>1. Make(k) = <<224, 72>> /\ Break(k) = <<224, 200>>
    BY <1>4 DEF Make, Break
  <2>2. PICK a \in SecondCode : c = <<224, a>> /\ a # 42 /\ a # 183 /\ a # 29 /\ a # 157
    BY <2>1 DEF SecondCode
  <2>3. k \notin Controls
    BY <1>4 DEF Controls
  <2>4. Plain(c)
    BY <2>2, PrefixedCode
  <2>5. At(c, 29) = {} /\ At(c, 157) = {}
    BY <2>2, PrefixedCode
  <2>6. QED
    BY <2>3, <2>4, <2>5, PlainNoPause DEF Plain, Presses, Releases
<1>5. CASE k = "PRINT_SCREEN"
  <2>1. Make(k) = <<224, 42, 224, 55>> /\ Break(k) = <<224, 183, 224, 170>>
    BY <1>5 DEF Make, Break, PrintScreen, PrintScreenUp
  <2>2. PICK a \in {42, 183}, b \in {55, 170} : ((a = 42) <=> (b = 55)) /\ c = <<224, a, 224, b>>
    BY <2>1
  <2>3. k \notin Controls
    BY <1>5 DEF Controls
  <2>4. Plain(c)
    BY <2>2, PrintScreenCodes
  <2>5. At(c, 29) = {} /\ At(c, 157) = {}
    BY <2>2, PrintScreenCodes
  <2>6. QED
    BY <2>3, <2>4, <2>5, PlainNoPause DEF Plain, Presses, Releases
<1>6. CASE k = "PAUSE"
  <2>1. c = Pause \/ c = <<>>
    BY <1>6 DEF Make, Break
  <2>2. k \notin Controls
    BY <1>6 DEF Controls
  <2>3. CASE c = Pause
    BY <2>2, <2>3, <1>6, PauseWhole DEF Presses, Releases
  <2>4. CASE c = <<>>
    <3>1. c \in Seq(Nat) /\ Len(c) = 0 /\ 1 .. Len(c) = {}
      BY <2>4
    <3>2. QED
      BY <3>1, <2>2 DEF WholeKeys, PausesWhole, PrefixesFollowed, Presses, Releases, At
  <2>5. QED
    BY <2>1, <2>3, <2>4
<1>7. QED
  BY <1>1, <1>2, <1>3, <1>4, <1>5, <1>6 DEF KnownKeys

-----------------------------------------------------------------------------
(* What the handler makes of it.                                           *)

\* Codes that fit a fixed sequence, as far as they are there: all of them are
\* taken, and the event is passed on if none is missing.
LEMMA FollowFits ==
  ASSUME NEW codes \in Seq(Nat), NEW sequence \in Seq(Nat), NEW event,
         \A i \in 1 .. Len(sequence) : i <= Len(codes) => codes[i] = sequence[i]
  PROVE  Follow(codes, sequence, event) =
           IF Len(sequence) <= Len(codes) THEN event ELSE Nothing(Len(codes))
<1>1. PICK l, n : l = Len(codes) /\ n = Len(sequence)
  OBVIOUS
<1>2. l \in Nat /\ n \in Nat
  BY <1>1
<1>3. PICK k : k = IF n <= l THEN n ELSE l
  OBVIOUS
<1>4. k \in Nat /\ k <= n /\ k <= l /\ \A i \in 1 .. n : i <= l <=> i <= k
  BY <1>2, <1>3
<1> DEFINE fits == {i \in 1 .. Len(sequence) : i <= Len(codes) /\ SubSeq(codes, 1, i) = SubSeq(sequence, 1, i)}
<1>5. ASSUME NEW i \in 1 .. k PROVE SubSeq(codes, 1, i) = SubSeq(sequence, 1, i)
  <2>1. i \in 1 .. l /\ i \in 1 .. n /\ \A j \in 1 .. i : j \in 1 .. n /\ j <= l
    BY <1>2, <1>4
  <2>2. \A j \in 1 .. i : codes[j] = sequence[j]
    BY <2>1, <1>1
  <2>3. \A j \in 1 .. i : (1 + j) - 1 = j /\ i - 1 + 1 = i
    OBVIOUS
  <2>4. /\ SubSeq(codes, 1, i) = [j \in 1 .. i |-> codes[j]]
        /\ SubSeq(sequence, 1, i) = [j \in 1 .. i |-> sequence[j]]
    BY <2>1, <2>3, <1>1
  <2>5. QED
    BY <2>2, <2>4
<1>6. fits = 1 .. k
  <2>1. ASSUME NEW i \in fits PROVE i \in 1 .. k
    BY <1>1, <1>2, <1>4
  <2>2. ASSUME NEW i \in 1 .. k PROVE i \in fits
    <3>1. i \in 1 .. n /\ i <= l
      BY <1>2, <1>4
    <3>2. QED
      BY <3>1, <1>1, <1>5
  <2>3. QED
    BY <2>1, <2>2
<1> HIDE DEF fits
<1>7. Cardinality(fits) = k
  <2>1. Cardinality(1 .. k) = IF 1 > k THEN 0 ELSE k - 1 + 1
    BY <1>4, FS_Interval
  <2>2. Cardinality(1 .. k) = k
    BY <2>1, <1>4
  <2>3. QED
    BY <2>2, <1>6
<1>8. Follow(codes, sequence, event) = IF k = n THEN event ELSE Nothing(IF k < l THEN k + 1 ELSE k)
  <2>1. Follow(codes, sequence, event) =
          IF Cardinality(fits) = Len(sequence) THEN event
          ELSE Nothing(IF Cardinality(fits) < Len(codes) THEN Cardinality(fits) + 1 ELSE Cardinality(fits))
    BY DEF Follow, fits
  <2>2. QED
    BY <2>1, <1>1, <1>7
<1>9. QED
  BY <1>1, <1>2, <1>3, <1>8

\* Code c is no prefix.
Alone(c) == c \in Nat /\ c # 224 /\ c # 225

\* Code c taken as a key of its own.
SingleKey(e, c) ==
  /\ e.used = 1
  /\ c \notin {29, 157} => e.keycode \notin Controls
  /\ c = 29 => e.keycode \in Controls /\ e.pressed = TRUE
  /\ c = 157 => e.keycode \in Controls /\ e.pressed = FALSE

\* A code that is no prefix is a key of its own; two of them are Ctrl.
LEMMA DecodeSingle ==
  ASSUME NEW codes, Alone(codes[1])
  PROVE  SingleKey(Decode(codes), codes[1])
<1>1. PICK c : c = codes[1]
  OBVIOUS
<1>2. c \in Nat /\ c # 224 /\ c # 225
  BY <1>1 DEF Alone
<1>3. \A a \in 0 .. 88 : StandardKeycodes[a] \in Controls <=> a = 29
  BY DEF StandardKeycodes, Controls, NoKey
<1>4. NoKey \notin Controls
  BY DEF NoKey, Controls
<1> DEFINE down == Event(1, StandardKeycodes[c], TRUE)
           up == Event(1, StandardKeycodes[c - 128], FALSE)
           pause == Follow(codes, Pause, Event(6, "PAUSE", TRUE))
           extended == DecodeExtended(codes)
           none == Nothing(1)
<1>5. Decode(codes) = CASE c \in 0 .. 88 -> down
                        [] c \in 128 .. 216 -> up
                        [] c = PausePrefix -> pause
                        [] c = Prefix -> extended
                        [] OTHER -> none
  BY ONLY <1>1, Zenon DEF Decode
<1> HIDE DEF down, up, pause, extended, none
<1>6. CASE c \in 0 .. 88
  <2>1. Decode(codes) = Event(1, StandardKeycodes[c], TRUE)
    <3>1. c \notin 128 .. 216 /\ c # PausePrefix /\ c # Prefix
      BY <1>6 DEF Prefix, PausePrefix
    <3>2. Decode(codes) = down
      BY ONLY <3>1, <1>5, <1>6
    <3>3. QED
      BY <3>2 DEF down
  <2>2. Decode(codes).used = 1 /\ Decode(codes).keycode = StandardKeycodes[c] /\ Decode(codes).pressed = TRUE
    BY <2>1 DEF Event
  <2>3. QED
    BY <2>2, <1>1, <1>3, <1>6 DEF SingleKey
<1>7. CASE c \in 128 .. 216
  <2>1. c - 128 \in 0 .. 88 /\ ~(c \in 0 .. 88) /\ (c - 128 = 29 <=> c = 157)
    BY <1>7
  <2>2. Decode(codes) = Event(1, StandardKeycodes[c - 128], FALSE)
    <3>1. c \notin 0 .. 88 /\ c # PausePrefix /\ c # Prefix
      BY <1>7 DEF Prefix, PausePrefix
    <3>2. Decode(codes) = up
      BY ONLY <3>1, <1>5, <1>7
    <3>3. QED
      BY <3>2 DEF up
  <2>3. Decode(codes).used = 1 /\ Decode(codes).keycode = StandardKeycodes[c - 128] /\ Decode(codes).pressed = FALSE
    BY <2>2 DEF Event
  <2>4. QED
    BY <2>1, <2>3, <1>1, <1>3, <1>7 DEF SingleKey
<1>8. CASE ~(c \in 0 .. 88) /\ ~(c \in 128 .. 216)
  <2>1. Decode(codes) = Nothing(1)
    <3>1. c # PausePrefix /\ c # Prefix
      BY <1>2 DEF Prefix, PausePrefix
    <3>2. Decode(codes) = none
      BY ONLY <3>1, <1>5, <1>8
    <3>3. QED
      BY <3>2 DEF none
  <2>2. Decode(codes).used = 1 /\ Decode(codes).keycode = NoKey
    BY <2>1 DEF Nothing
  <2>3. c # 29 /\ c # 157
    BY <1>8
  <2>4. QED
    BY <2>2, <2>3, <1>1, <1>4 DEF SingleKey
<1>9. QED
  BY <1>6, <1>7, <1>8

\* A prefix and what is there of the codes behind it.
Prefixed(codes) ==
  /\ codes \in Seq(Nat) /\ Len(codes) >= 1 /\ codes[1] = 224
  /\ Len(codes) >= 2 =>
       /\ codes[2] \in SecondCode
       /\ codes[2] = 42 => (Len(codes) >= 3 => codes[3] = 224) /\ (Len(codes) >= 4 => codes[4] = 55)
       /\ codes[2] = 183 => (Len(codes) >= 3 => codes[3] = 224) /\ (Len(codes) >= 4 => codes[4] = 170)

\* The second code has arrived; it is c, of a press.
Down(codes, c) ==
  /\ c = codes[2] /\ Len(codes) >= 2 /\ ~(Len(codes) < 2)
  /\ c \in 0 .. 109 \ {42} /\ c # 42 /\ c # 183 /\ c \notin 128 .. 237

\* Behind 0xE0 a code below 128 other than 42 is a press.
LEMMA ExtendedDown ==
  ASSUME NEW codes, NEW c, Down(codes, c)
  PROVE  DecodeExtended(codes) = Event(2, ExtendedKeycodes[c], TRUE)
<1> DEFINE u == Nothing(1)
           v == Follow(codes, PrintScreen, Event(4, "PRINT_SCREEN", TRUE))
           w == Follow(codes, PrintScreenUp, Event(4, "PRINT_SCREEN", FALSE))
           x == Event(2, ExtendedKeycodes[c], TRUE)
           y == Event(2, ExtendedKeycodes[c - 128], FALSE)
           z == Nothing(2)
<1>1. DecodeExtended(codes) =
        CASE Len(codes) < 2 -> u
          [] Len(codes) >= 2 /\ c = 42 -> v
          [] Len(codes) >= 2 /\ c = 183 -> w
          [] Len(codes) >= 2 /\ c \in 0 .. 109 \ {42} -> x
          [] Len(codes) >= 2 /\ c \in 128 .. 237 \ {183} -> y
          [] OTHER -> z
  <2>1. c = codes[2]
    BY DEF Down
  <2>2. QED
    BY ONLY <2>1, Zenon DEF DecodeExtended
<1> HIDE DEF u, v, w, x, y, z
<1>2. /\ Len(codes) >= 2 /\ ~(Len(codes) < 2)
      /\ c \in 0 .. 109 \ {42} /\ c # 42 /\ c # 183 /\ c \notin 128 .. 237
  BY DEF Down
<1>3. DecodeExtended(codes) = x
  BY ONLY <1>1, <1>2
<1>4. QED
  BY ONLY <1>3 DEF x

\* The second code has arrived; it is c, of a release.
Up(codes, c) ==
  /\ c = codes[2] /\ Len(codes) >= 2 /\ ~(Len(codes) < 2)
  /\ c \in 128 .. 237 \ {183} /\ c # 42 /\ c # 183 /\ c \notin 0 .. 109

\* Behind 0xE0 a code from 128 on other than 183 is a release.
LEMMA ExtendedUp ==
  ASSUME NEW codes, NEW c, Up(codes, c)
  PROVE  DecodeExtended(codes) = Event(2, ExtendedKeycodes[c - 128], FALSE)
<1> DEFINE u == Nothing(1)
           v == Follow(codes, PrintScreen, Event(4, "PRINT_SCREEN", TRUE))
           w == Follow(codes, PrintScreenUp, Event(4, "PRINT_SCREEN", FALSE))
           x == Event(2, ExtendedKeycodes[c], TRUE)
           y == Event(2, ExtendedKeycodes[c - 128], FALSE)
           z == Nothing(2)
<1>1. DecodeExtended(codes) =
        CASE Len(codes) < 2 -> u
          [] Len(codes) >= 2 /\ c = 42 -> v
          [] Len(codes) >= 2 /\ c = 183 -> w
          [] Len(codes) >= 2 /\ c \in 0 .. 109 \ {42} -> x
          [] Len(codes) >= 2 /\ c \in 128 .. 237 \ {183} -> y
          [] OTHER -> z
  <2>1. c = codes[2]
    BY DEF Up
  <2>2. QED
    BY ONLY <2>1, Zenon DEF DecodeExtended
<1> HIDE DEF u, v, w, x, y, z
<1>2. /\ Len(codes) >= 2 /\ ~(Len(codes) < 2)
      /\ c \in 128 .. 237 \ {183} /\ c # 42 /\ c # 183 /\ c \notin 0 .. 109
  BY DEF Up
<1>3. DecodeExtended(codes) = y
  BY ONLY <1>1, <1>2
<1>4. QED
  BY ONLY <1>3 DEF y

\* A prefix, whether its second code has arrived or not.
LEMMA DecodePrefixed ==
  ASSUME NEW codes, Prefixed(codes), NEW e, e = Decode(codes)
  PROVE  /\ e.used \in 1 .. Len(codes)
         /\ e.keycode \notin Controls => \A i \in 1 .. e.used : codes[i] \notin {29, 157, 225}
         /\ e.keycode \in Controls => e.used = 2 /\ codes[2] = IF e.pressed THEN 29 ELSE 157
         /\ e.pressed \in BOOLEAN
<1> DEFINE Others == {224, 72, 200, 42, 55, 183, 170}
<1>1. e = DecodeExtended(codes)
  <2>1. /\ codes[1] \notin 0 .. 88 /\ codes[1] \notin 128 .. 216
        /\ codes[1] # PausePrefix /\ codes[1] = Prefix
    BY DEF Prefixed, Prefix, PausePrefix
  <2>2. QED
    BY <2>1 DEF Decode
<1>2. NoKey \notin Controls /\ "PRINT_SCREEN" \notin Controls
  BY DEF NoKey, Controls
<1>3. codes \in Seq(Nat) /\ Len(codes) \in Nat /\ Len(codes) >= 1 /\ codes[1] = 224
  BY DEF Prefixed
<1> HIDE DEF Others
<1>4. CASE Len(codes) < 2
  <2>1. e = Nothing(1)
    <3>1. ~(Len(codes) >= 2)
      BY <1>3, <1>4
    <3>2. QED
      BY <3>1, <1>1, <1>4 DEF DecodeExtended
  <2>2. e.used = 1 /\ e.keycode = NoKey /\ e.pressed = FALSE
    BY <2>1 DEF Nothing
  <2>3. e.used \in 1 .. Len(codes) /\ \A i \in 1 .. e.used : i = 1
    BY <2>2, <1>3
  <2>4. codes[1] \notin {29, 157, 225}
    BY <1>3
  <2>5. QED
    BY <2>2, <2>3, <2>4, <1>2
<1>5. CASE Len(codes) >= 2 /\ codes[2] = 42
  <2>1. e = Follow(codes, PrintScreen, Event(4, "PRINT_SCREEN", TRUE))
    BY <1>1, <1>3, <1>5 DEF DecodeExtended
  <2>2. /\ PrintScreen \in Seq(Nat) /\ Len(PrintScreen) = 4
        /\ \A i \in 1 .. 4 : i <= Len(codes) => codes[i] = PrintScreen[i]
        /\ \A i \in 1 .. 4 : PrintScreen[i] \in Others
    BY <1>3, <1>5 DEF PrintScreen, Others, Prefixed
  <2>3. e = IF 4 <= Len(codes) THEN Event(4, "PRINT_SCREEN", TRUE) ELSE Nothing(Len(codes))
    <3>1. \A i \in 1 .. Len(PrintScreen) : i <= Len(codes) => codes[i] = PrintScreen[i]
      BY <2>2
    <3>2. PICK v : v = Event(4, "PRINT_SCREEN", TRUE)
      OBVIOUS
    <3>3. codes \in Seq(Nat) /\ PrintScreen \in Seq(Nat)
      BY <2>2, <1>3
    <3>4. Follow(codes, PrintScreen, v) = IF Len(PrintScreen) <= Len(codes) THEN v ELSE Nothing(Len(codes))
      BY ONLY <3>1, <3>3, FollowFits
    <3>5. QED
      BY <2>1, <2>2, <3>2, <3>4
  <2>4. /\ e.used = IF 4 <= Len(codes) THEN 4 ELSE Len(codes)
        /\ e.keycode \in {NoKey, "PRINT_SCREEN"} /\ e.pressed \in BOOLEAN
    BY <2>3 DEF Event, Nothing
  <2>5. e.used \in 1 .. Len(codes) /\ e.used <= 4
    BY <2>4, <1>3
  <2>6. ASSUME NEW i \in 1 .. e.used PROVE codes[i] \notin {29, 157, 225}
    <3>1. i \in 1 .. 4 /\ i <= Len(codes)
      BY <2>5, <1>3
    <3>2. codes[i] \in Others
      BY <3>1, <2>2
    <3>3. QED
      BY <3>2 DEF Others
  <2>7. e.keycode \notin Controls
    BY <2>4, <1>2
  <2>8. QED
    BY <2>4, <2>5, <2>6, <2>7
<1>6. CASE Len(codes) >= 2 /\ codes[2] = 183
  <2>1. e = Follow(codes, PrintScreenUp, Event(4, "PRINT_SCREEN", FALSE))
    BY <1>1, <1>3, <1>6 DEF DecodeExtended
  <2>2. /\ PrintScreenUp \in Seq(Nat) /\ Len(PrintScreenUp) = 4
        /\ \A i \in 1 .. 4 : i <= Len(codes) => codes[i] = PrintScreenUp[i]
        /\ \A i \in 1 .. 4 : PrintScreenUp[i] \in Others
    BY <1>3, <1>6 DEF PrintScreenUp, Others, Prefixed
  <2>3. e = IF 4 <= Len(codes) THEN Event(4, "PRINT_SCREEN", FALSE) ELSE Nothing(Len(codes))
    <3>1. \A i \in 1 .. Len(PrintScreenUp) : i <= Len(codes) => codes[i] = PrintScreenUp[i]
      BY <2>2
    <3>2. PICK v : v = Event(4, "PRINT_SCREEN", FALSE)
      OBVIOUS
    <3>3. codes \in Seq(Nat) /\ PrintScreenUp \in Seq(Nat)
      BY <2>2, <1>3
    <3>4. Follow(codes, PrintScreenUp, v) = IF Len(PrintScreenUp) <= Len(codes) THEN v ELSE Nothing(Len(codes))
      BY ONLY <3>1, <3>3, FollowFits
    <3>5. QED
      BY <2>1, <2>2, <3>2, <3>4
  <2>4. /\ e.used = IF 4 <= Len(codes) THEN 4 ELSE Len(codes)
        /\ e.keycode \in {NoKey, "PRINT_SCREEN"} /\ e.pressed \in BOOLEAN
    BY <2>3 DEF Event, Nothing
  <2>5. e.used \in 1 .. Len(codes) /\ e.used <= 4
    BY <2>4, <1>3
  <2>6. ASSUME NEW i \in 1 .. e.used PROVE codes[i] \notin {29, 157, 225}
    <3>1. i \in 1 .. 4 /\ i <= Len(codes)
      BY <2>5, <1>3
    <3>2. codes[i] \in Others
      BY <3>1, <2>2
    <3>3. QED
      BY <3>2 DEF Others
  <2>7. e.keycode \notin Controls
    BY <2>4, <1>2
  <2>8. QED
    BY <2>4, <2>5, <2>6, <2>7
<1>7. CASE Len(codes) >= 2 /\ codes[2] \in {29, 72, 55}
  <2>1. PICK c : c = codes[2]
    OBVIOUS
  <2>2. c \in 0 .. 109 \ {42} /\ c # 42 /\ c # 183 /\ c \notin 128 .. 237 /\ ~(Len(codes) < 2)
    <3>1. c = 29 \/ c = 72 \/ c = 55
      BY <1>7, <2>1
    <3>2. c \in 0 .. 109 \ {42} /\ c # 42 /\ c # 183 /\ c \notin 128 .. 237
      BY <3>1
    <3>3. ~(Len(codes) < 2)
      BY <1>3, <1>7
    <3>4. QED
      BY <3>2, <3>3
  <2>3. e = Event(2, ExtendedKeycodes[c], TRUE)
    <3>1. DecodeExtended(codes) = Event(2, ExtendedKeycodes[c], TRUE)
      <4>1. Down(codes, c)
        BY <1>7, <2>1, <2>2 DEF Down
      <4>2. QED
        BY ONLY <4>1, ExtendedDown
    <3>2. QED
      BY ONLY <1>1, <3>1
  <2>4. ExtendedKeycodes[29] \in Controls /\ ExtendedKeycodes[72] \notin Controls /\ ExtendedKeycodes[55] \notin Controls
    BY DEF ExtendedKeycodes, Controls, NoKey
  <2>5. e.used = 2 /\ e.keycode = ExtendedKeycodes[c] /\ e.pressed = TRUE
    BY <2>3 DEF Event
  <2>6. \A i \in 1 .. 2 : i = 1 \/ i = 2
    OBVIOUS
  <2>7. c = 29 \/ c = 72 \/ c = 55
    BY <1>7, <2>1
  <2>8. e.keycode \in Controls <=> c = 29
    BY <2>4, <2>5, <2>7
  <2>9. c # 29 => \A i \in 1 .. 2 : codes[i] \notin {29, 157, 225}
    BY <2>1, <2>6, <2>7, <1>3
  <2>10. 2 \in 1 .. Len(codes)
    BY <1>3, <1>7
  <2>11. QED
    BY <2>1, <2>5, <2>8, <2>9, <2>10
<1>8. CASE Len(codes) >= 2 /\ codes[2] \in {157, 200, 170}
  <2>1. PICK c : c = codes[2]
    OBVIOUS
  <2>2. c \in 128 .. 237 \ {183} /\ c # 42 /\ c # 183 /\ c \notin 0 .. 109 /\ ~(Len(codes) < 2)
    <3>1. c = 157 \/ c = 200 \/ c = 170
      BY <1>8, <2>1
    <3>2. c \in 128 .. 237 \ {183} /\ c # 42 /\ c # 183 /\ c \notin 0 .. 109
      BY <3>1
    <3>3. ~(Len(codes) < 2)
      BY <1>3, <1>8
    <3>4. QED
      BY <3>2, <3>3
  <2>3. e = Event(2, ExtendedKeycodes[c - 128], FALSE)
    <3>1. DecodeExtended(codes) = Event(2, ExtendedKeycodes[c - 128], FALSE)
      <4>1. Up(codes, c)
        BY <1>8, <2>1, <2>2 DEF Up
      <4>2. QED
        BY ONLY <4>1, ExtendedUp
    <3>2. QED
      BY ONLY <1>1, <3>1
  <2>4. ExtendedKeycodes[29] \in Controls /\ ExtendedKeycodes[72] \notin Controls /\ ExtendedKeycodes[42] \notin Controls
    BY DEF ExtendedKeycodes, Controls, NoKey
  <2>5. e.used = 2 /\ e.keycode = ExtendedKeycodes[c - 128] /\ e.pressed = FALSE
    BY <2>3 DEF Event
  <2>6. \A i \in 1 .. 2 : i = 1 \/ i = 2
    OBVIOUS
  <2>7. c = 157 \/ c = 200 \/ c = 170
    BY <1>8, <2>1
  <2>8. e.keycode \in Controls <=> c = 157
    <3>1. CASE c = 157
      BY <3>1, <2>4, <2>5
    <3>2. CASE c = 200
      BY <3>2, <2>4, <2>5
    <3>3. CASE c = 170
      BY <3>3, <2>4, <2>5
    <3>4. QED
      BY <3>1, <3>2, <3>3, <2>7
  <2>9. c # 157 => \A i \in 1 .. 2 : codes[i] \notin {29, 157, 225}
    BY <2>1, <2>6, <2>7, <1>3
  <2>10. 2 \in 1 .. Len(codes)
    BY <1>3, <1>8
  <2>11. QED
    BY <2>1, <2>5, <2>8, <2>9, <2>10
<1>9. Len(codes) >= 2 => codes[2] \in SecondCode
  BY DEF Prefixed
<1>10. QED
  BY <1>3, <1>4, <1>5, <1>6, <1>7, <1>8, <1>9 DEF SecondCode

\* A whole Pause.
LEMMA DecodePause ==
  ASSUME NEW codes \in Seq(Nat), PauseAt(codes, 1)
  PROVE  Decode(codes).used = 6 /\ Decode(codes).keycode \notin Controls
<1>1. /\ Len(codes) \in Nat /\ Len(codes) >= 6
      /\ codes[1] = 225
      /\ \A i \in 1 .. 6 : codes[i] = Pause[i]
  <2>1. 1 + 5 <= Len(codes) /\ codes[1] = 225
    BY PauseCodes
  <2>2. ASSUME NEW i \in 1 .. 6 PROVE codes[i] = Pause[i]
    <3>1. i - 1 \in 0 .. 5 /\ 1 + (i - 1) = i /\ (i - 1) + 1 = i
      OBVIOUS
    <3>2. QED
      BY <3>1 DEF PauseAt
  <2>3. QED
    BY <2>1, <2>2
<1>2. Decode(codes) = Follow(codes, Pause, Event(6, "PAUSE", TRUE))
  <2>1. /\ codes[1] \notin 0 .. 88 /\ codes[1] \notin 128 .. 216
        /\ codes[1] = PausePrefix /\ codes[1] # Prefix
    BY <1>1 DEF Prefix, PausePrefix
  <2>2. QED
    BY <2>1 DEF Decode
<1>3. Pause \in Seq(Nat) /\ Len(Pause) = 6
  BY PauseWhole DEF WholeKeys
<1>4. Decode(codes) = Event(6, "PAUSE", TRUE)
  <2>1. \A i \in 1 .. Len(Pause) : i <= Len(codes) => codes[i] = Pause[i]
    BY <1>1, <1>3
  <2>2. Follow(codes, Pause, Event(6, "PAUSE", TRUE)) =
          IF Len(Pause) <= Len(codes) THEN Event(6, "PAUSE", TRUE) ELSE Nothing(Len(codes))
    BY <1>3, <2>1, FollowFits
  <2>3. QED
    BY <1>1, <1>2, <1>3, <2>2
<1>5. QED
  BY <1>4 DEF Event, Controls

\* The codes that are in the controller, in front of those that come.
Front(codes, s) ==
  /\ codes \in Seq(Nat) /\ Len(codes) >= 1 /\ Len(codes) <= Len(s)
  /\ \A i \in 1 .. Len(codes) : codes[i] = s[i]

\* The event e stands for the codes that it takes: they are no part of a Pause or
\* all of one, and e works Ctrl exactly if one of them does.
Handled(e, l, s) ==
  /\ e.used \in 1 .. l
  /\ (\A i \in 1 .. e.used : s[i] # 225) \/ (e.used = 6 /\ PauseAt(s, 1))
  /\ \/ /\ e.keycode \notin Controls
        /\ \A i \in 1 .. e.used : i \notin Presses(s) /\ i \notin Releases(s)
     \/ e.keycode \in Controls /\ e.pressed = TRUE /\ e.used \in Presses(s)
     \/ e.keycode \in Controls /\ e.pressed = FALSE

\* One call of the handler takes one key, or the codes of one that are there.
LEMMA DecodeHead ==
  ASSUME NEW codes, NEW s, Front(codes, s), NEW e, e = Decode(codes),
         WholeKeys(s), PauseAt(s, 1) => 6 <= Len(codes)
  PROVE  Handled(e, Len(codes), s)
<1>1. PICK l : l = Len(codes)
  OBVIOUS
<1>2. /\ l \in Nat /\ l >= 1 /\ s \in Seq(Nat) /\ Len(s) \in Nat /\ l <= Len(s)
      /\ \A i \in 1 .. l : codes[i] = s[i]
  BY <1>1 DEF Front, WholeKeys
<1>3. e = Decode(codes)
  OBVIOUS
<1>4. CASE codes[1] \notin {224, 225}
  <2>1. codes[1] \in Nat /\ s[1] = codes[1] /\ s[1] \in Nat /\ 1 \in 1 .. Len(s)
    BY <1>1, <1>2
  <2>2. /\ e.used = 1
        /\ codes[1] \notin {29, 157} => e.keycode \notin Controls
        /\ codes[1] = 29 => e.keycode \in Controls /\ e.pressed = TRUE
        /\ codes[1] = 157 => e.keycode \in Controls /\ e.pressed = FALSE
    <3>1. Alone(codes[1])
      BY <1>4, <2>1 DEF Alone
    <3>2. SingleKey(Decode(codes), codes[1])
      BY ONLY <3>1, DecodeSingle
    <3>3. SingleKey(e, codes[1])
      BY ONLY <3>2, <1>3
    <3>4. QED
      BY ONLY <3>3 DEF SingleKey
  <2>3. e.used \in 1 .. l /\ \A i \in 1 .. e.used : i = 1
    BY <2>2, <1>2
  <2>4. (1 \in Presses(s) <=> s[1] = 29) /\ (1 \in Releases(s) <=> s[1] = 157)
    BY <2>1 DEF Presses, Releases, At
  <2>5. QED
    BY <2>1, <2>2, <2>3, <2>4, <1>1, <1>3, <1>4 DEF Handled
<1>5. CASE codes[1] = 224
  <2>1. s[1] = 224 /\ 1 \in 1 .. Len(s)
    BY <1>2, <1>5
  <2>2. /\ s[2] \in SecondCode
        /\ s[2] = 42 => s[3] = 224 /\ s[4] = 55
        /\ s[2] = 183 => s[3] = 224 /\ s[4] = 170
    <3>1. /\ s[1 + 1] \in SecondCode
          /\ s[1 + 1] = 42 => s[1 + 2] = 224 /\ s[1 + 3] = 55
          /\ s[1 + 1] = 183 => s[1 + 2] = 224 /\ s[1 + 3] = 170
      BY <2>1 DEF WholeKeys, PrefixesFollowed
    <3>2. QED
      BY <3>1
  <2>3. /\ l >= 2 => codes[2] = s[2]
        /\ l >= 3 => codes[3] = s[3]
        /\ l >= 4 => codes[4] = s[4]
    BY <1>2
  <2>4. /\ e.used \in 1 .. l
        /\ e.keycode \notin Controls => \A i \in 1 .. e.used : codes[i] \notin {29, 157, 225}
        /\ e.keycode \in Controls => e.used = 2 /\ codes[2] = IF e.pressed THEN 29 ELSE 157
        /\ e.pressed \in BOOLEAN
    <3>1. Prefixed(codes)
      <4>1. codes \in Seq(Nat) /\ Len(codes) = l
        BY <1>1 DEF Front
      <4>2. l >= 2 =>
              /\ codes[2] \in SecondCode
              /\ codes[2] = 42 => (l >= 3 => codes[3] = 224) /\ (l >= 4 => codes[4] = 55)
              /\ codes[2] = 183 => (l >= 3 => codes[3] = 224) /\ (l >= 4 => codes[4] = 170)
        BY <2>2, <2>3
      <4>3. QED
        BY <4>1, <4>2, <1>2, <1>5 DEF Prefixed
    <3>2. QED
      BY <3>1, <1>1, DecodePrefixed
  <2>5. \A i \in 1 .. e.used : s[i] = codes[i] /\ i \in 1 .. Len(s)
    BY <2>4, <1>2
  <2>6. CASE e.keycode \notin Controls
    <3>1. \A i \in 1 .. e.used : s[i] # 225 /\ s[i] # 29 /\ s[i] # 157
      BY <2>4, <2>5, <2>6
    <3>2. \A i \in 1 .. e.used : i \notin Presses(s) /\ i \notin Releases(s)
      BY <3>1 DEF Presses, Releases, At
    <3>3. QED
      BY <3>1, <3>2, <2>4, <2>6, <1>1, <1>3 DEF Handled
  <2>7. CASE e.keycode \in Controls
    <3>1. e.used = 2 /\ l >= 2 /\ s[2] = IF e.pressed THEN 29 ELSE 157
      BY <2>3, <2>4, <2>7, <1>2
    <3>2. \A i \in 1 .. e.used : s[i] # 225
      <4>1. \A i \in 1 .. 2 : i = 1 \/ i = 2
        OBVIOUS
      <4>2. s[2] # 225
        BY <3>1
      <4>3. QED
        BY <4>1, <4>2, <3>1, <2>1
    <3>3. e.pressed = TRUE => 2 \in Presses(s)
      BY <3>1, <2>1, <1>2 DEF Presses, At
    <3>4. QED
      BY <3>1, <3>2, <3>3, <2>4, <2>7, <1>1, <1>3 DEF Handled
  <2>8. QED
    BY <2>6, <2>7
<1>6. CASE codes[1] = 225
  <2>1. s[1] = 225 /\ 1 \in 1 .. Len(s)
    BY <1>2, <1>6
  <2>2. PauseAt(s, 1) \/ PauseAt(s, 1 - 3)
    BY <2>1, <1>1 DEF WholeKeys, PausesWhole
  <2>3. ~PauseAt(s, 1 - 3)
    BY DEF PauseAt
  <2>4. PauseAt(s, 1) /\ 6 <= l
    BY <2>2, <2>3, <1>1
  <2>5. PauseAt(codes, 1)
    <3>1. \A j \in 0 .. 5 : 1 + j \in 1 .. l
      BY <2>4, <1>2
    <3>2. \A j \in 0 .. 5 : codes[1 + j] = s[1 + j]
      BY <3>1, <1>2
    <3>3. 1 + 5 <= Len(codes)
      BY <2>4, <1>1, <1>2
    <3>4. QED
      BY <3>2, <3>3, <2>4, PauseMoves
  <2>6. e.used = 6 /\ e.keycode \notin Controls
    <3>1. codes \in Seq(Nat)
      BY DEF Front
    <3>2. QED
      BY <2>5, <3>1, DecodePause
  <2>7. /\ s[1] = 225 /\ s[2] = 29 /\ s[3] = 69 /\ s[4] = 225 /\ s[5] = 157 /\ s[6] = 197
    <3>1. /\ s[1] = 225 /\ s[1 + 1] = 29 /\ s[1 + 2] = 69
          /\ s[1 + 3] = 225 /\ s[1 + 4] = 157 /\ s[1 + 5] = 197
      BY <2>4, PauseCodes
    <3>2. QED
      BY <3>1
  <2>8. \A i \in 1 .. 6 : i \notin Presses(s) /\ i \notin Releases(s)
    <3> SUFFICES ASSUME NEW i \in 1 .. 6 PROVE i \notin Presses(s) /\ i \notin Releases(s)
      OBVIOUS
    <3>1. i \in {1, 2, 3, 4, 5, 6}
      OBVIOUS
    <3>2. 2 \notin Presses(s) /\ 5 \notin Releases(s)
      BY <2>7 DEF Presses, Releases, At
    <3>3. i # 2 => i \notin Presses(s)
      BY <3>1, <2>7 DEF Presses, At
    <3>4. i # 5 => i \notin Releases(s)
      BY <3>1, <2>7 DEF Releases, At
    <3>5. QED
      BY <3>2, <3>3, <3>4
  <2>9. QED
    BY <2>4, <2>6, <2>8, <1>1, <1>2, <1>3 DEF Handled
<1>7. QED
  BY <1>4, <1>5, <1>6

-----------------------------------------------------------------------------
(* Codes that move.                                                        *)

\* Codes forgets which codes are joined and nothing else.
LEMMA CodesFacts ==
  ASSUME NEW w \in Seq(Scan)
  PROVE  Codes(w) \in Seq(Nat) /\ Len(Codes(w)) = Len(w) /\ \A i \in 1 .. Len(w) : Codes(w)[i] = w[i].code
<1>1. \A i \in 1 .. Len(w) : w[i].code \in Nat
  <2>1. \A i \in 1 .. Len(w) : w[i] \in Scan
    BY ElementOfSeq
  <2>2. \A x \in Scan : x.code \in Nat
    BY DEF Scan
  <2>3. QED
    BY <2>1, <2>2
<1>2. QED
  BY <1>1 DEF Codes

\* The codes that are coming: first those of the controller, then those on the wire.
LEMMA JointFacts ==
  ASSUME NEW p \in Seq(Nat), NEW w \in Seq(Scan)
  PROVE  /\ Len(p) \in Nat /\ Len(w) \in Nat
         /\ Joint(p, w) \in Seq(Nat) /\ Len(Joint(p, w)) = Len(p) + Len(w)
         /\ \A i \in 1 .. Len(p) : Joint(p, w)[i] = p[i]
         /\ \A i \in 1 .. Len(w) : Joint(p, w)[Len(p) + i] = w[i].code
<1>1. PICK c : c = Codes(w)
  OBVIOUS
<1>2. c \in Seq(Nat) /\ Len(c) = Len(w) /\ \A i \in 1 .. Len(w) : c[i] = w[i].code
  BY <1>1, CodesFacts
<1>3. /\ p \o c \in Seq(Nat) /\ Len(p \o c) = Len(p) + Len(c)
      /\ \A i \in 1 .. Len(p) : (p \o c)[i] = p[i]
      /\ \A i \in 1 .. Len(c) : (p \o c)[Len(p) + i] = c[i]
  <2>1. p \in Seq(Nat) /\ c \in Seq(Nat)
    BY <1>2
  <2>2. QED
    BY ONLY <2>1
<1>4. Len(p) \in Nat /\ Len(w) \in Nat
  OBVIOUS
<1>5. QED
  BY <1>1, <1>2, <1>3, <1>4 DEF Joint

\* A key adds its codes behind the others.
LEMMA JointGrows ==
  ASSUME NEW p \in Seq(Nat), NEW w \in Seq(Scan), NEW v \in Seq(Scan)
  PROVE  w \o v \in Seq(Scan) /\ Joint(p, w \o v) = Joint(p, w) \o Codes(v)
<1>1. PICK u, s, c, d : u = w \o v /\ s = Joint(p, w) /\ c = Codes(v) /\ d = Joint(p, u)
  OBVIOUS
<1>2. PICK l, m, n : l = Len(p) /\ m = Len(w) /\ n = Len(v)
  OBVIOUS
<1>3. l \in Nat /\ m \in Nat /\ n \in Nat
  BY <1>2
<1>4. /\ u \in Seq(Scan) /\ Len(u) = m + n
      /\ \A i \in 1 .. m : u[i] = w[i]
      /\ \A i \in 1 .. n : u[m + i] = v[i]
  BY <1>1, <1>2
<1>5. /\ s \in Seq(Nat) /\ Len(s) = l + m
      /\ \A i \in 1 .. l : s[i] = p[i]
      /\ \A i \in 1 .. m : s[l + i] = w[i].code
  BY <1>1, <1>2, JointFacts
<1>6. /\ d \in Seq(Nat) /\ Len(d) = l + (m + n)
      /\ \A i \in 1 .. l : d[i] = p[i]
      /\ \A i \in 1 .. m + n : d[l + i] = u[i].code
  <2>1. /\ d \in Seq(Nat) /\ Len(d) = Len(p) + Len(u)
        /\ \A i \in 1 .. Len(p) : d[i] = p[i]
        /\ \A i \in 1 .. Len(u) : d[Len(p) + i] = u[i].code
    BY <1>1, <1>4, JointFacts
  <2>2. QED
    BY <2>1, <1>2, <1>4
<1>7. c \in Seq(Nat) /\ Len(c) = n /\ \A i \in 1 .. n : c[i] = v[i].code
  BY <1>1, <1>2, CodesFacts
<1>8. PICK q : q = s \o c
  OBVIOUS
<1>9. /\ q \in Seq(Nat) /\ Len(q) = Len(s) + Len(c)
      /\ \A i \in 1 .. Len(s) : q[i] = s[i]
      /\ \A i \in 1 .. Len(c) : q[Len(s) + i] = c[i]
  <2>1. s \in Seq(Nat) /\ c \in Seq(Nat)
    BY <1>5, <1>7
  <2>2. QED
    BY ONLY <2>1, <1>8
<1>10. ASSUME NEW i \in 1 .. l + (m + n) PROVE d[i] = q[i]
  <2>1. CASE i <= l
    <3>1. i \in 1 .. l /\ i \in 1 .. Len(s)
      BY <2>1, <1>3, <1>5
    <3>2. QED
      BY <3>1, <1>5, <1>6, <1>9
  <2>2. CASE i > l /\ i <= l + m
    <3>1. i - l \in 1 .. m /\ i - l \in 1 .. m + n /\ l + (i - l) = i /\ i \in 1 .. Len(s)
      BY <2>2, <1>3, <1>5
    <3>2. d[i] = u[i - l].code /\ s[i] = w[i - l].code /\ u[i - l] = w[i - l]
      BY <3>1, <1>4, <1>5, <1>6
    <3>3. QED
      BY <3>1, <3>2, <1>9
  <2>3. CASE i > l + m
    <3>1. PICK k : k = i - (l + m)
      OBVIOUS
    <3>2. k \in 1 .. n /\ m + k \in 1 .. m + n /\ l + (m + k) = i /\ (l + m) + k = i
      BY <2>3, <3>1, <1>3
    <3>3. d[i] = u[m + k].code /\ u[m + k] = v[k] /\ c[k] = v[k].code
      BY <3>2, <1>4, <1>6, <1>7
    <3>4. q[i] = c[k]
      BY <3>2, <1>5, <1>7, <1>9
    <3>5. QED
      BY <3>3, <3>4
  <2>4. QED
    BY <2>1, <2>2, <2>3, <1>3
<1>11. Len(q) = l + (m + n)
  BY <1>3, <1>5, <1>7, <1>9
<1>12. d = q
  BY <1>6, <1>9, <1>10, <1>11, SeqEqual
<1>13. QED
  BY <1>1, <1>4, <1>8, <1>12

\* The controller takes codes from the wire.
FirstCodes(w, n) == [i \in 1 .. n |-> w[i].code]

\* The first n codes of the wire w have moved to the controller's p, giving a and v.
Moved(p, w, n, a, v) ==
  /\ a \in Seq(Nat) /\ Len(a) = Len(p) + n
  /\ v \in Seq(Scan) /\ Len(v) = Len(w) - n /\ \A i \in 1 .. Len(w) - n : v[i] = w[n + i]
  /\ Joint(a, v) = Joint(p, w)

\* Moving codes from the wire to the controller leaves what is coming as it was.
LEMMA JointMoves ==
  ASSUME NEW p \in Seq(Nat), NEW w \in Seq(Scan), NEW n \in 1 .. Len(w),
         NEW a, a = p \o FirstCodes(w, n), NEW v, v = SubSeq(w, n + 1, Len(w))
  PROVE  Moved(p, w, n, a, v)
<1>1. PICK l, m : l = Len(p) /\ m = Len(w)
  OBVIOUS
<1>2. l \in Nat /\ m \in Nat /\ n \in 1 .. m /\ n \in Nat
  BY <1>1
<1>3. PICK c : c = FirstCodes(w, n)
  OBVIOUS
<1>4. c \in Seq(Nat) /\ Len(c) = n /\ \A i \in 1 .. n : c[i] = w[i].code
  <2>1. \A i \in 1 .. n : w[i].code \in Nat
    <3>1. \A i \in 1 .. n : i \in 1 .. m
      BY <1>2
    <3>2. QED
      BY <3>1, <1>1, CodesFacts DEF Codes
  <2>2. QED
    BY <2>1, <1>2, <1>3 DEF FirstCodes
<1>5. /\ a \in Seq(Nat) /\ Len(a) = l + n
      /\ \A i \in 1 .. l : a[i] = p[i]
      /\ \A i \in 1 .. n : a[l + i] = c[i]
  <2>1. a = p \o c /\ p \in Seq(Nat) /\ c \in Seq(Nat) /\ l = Len(p) /\ n = Len(c)
    BY <1>1, <1>3, <1>4
  <2>2. QED
    BY ONLY <2>1
<1>6. v \in Seq(Scan) /\ Len(v) = m - n /\ \A i \in 1 .. m - n : v[i] = w[n + i]
  <2>1. \A i \in 1 .. m - n : (n + 1) + i - 1 = n + i
    BY <1>2
  <2>2. QED
    BY <2>1, <1>1, <1>2
<1>7. PICK s, d : s = Joint(p, w) /\ d = Joint(a, v)
  OBVIOUS
<1>8. /\ s \in Seq(Nat) /\ Len(s) = l + m
      /\ \A i \in 1 .. l : s[i] = p[i]
      /\ \A i \in 1 .. m : s[l + i] = w[i].code
  BY <1>1, <1>7, JointFacts
<1>9. /\ d \in Seq(Nat) /\ Len(d) = (l + n) + (m - n)
      /\ \A i \in 1 .. l + n : d[i] = a[i]
      /\ \A i \in 1 .. m - n : d[(l + n) + i] = v[i].code
  <2>1. /\ d \in Seq(Nat) /\ Len(d) = Len(a) + Len(v)
        /\ \A i \in 1 .. Len(a) : d[i] = a[i]
        /\ \A i \in 1 .. Len(v) : d[Len(a) + i] = v[i].code
    BY <1>5, <1>6, <1>7, JointFacts
  <2>2. QED
    BY <2>1, <1>5, <1>6
<1>10. ASSUME NEW i \in 1 .. l + m PROVE d[i] = s[i]
  <2>1. CASE i <= l
    <3>1. i \in 1 .. l /\ i \in 1 .. l + n
      BY <2>1, <1>2
    <3>2. QED
      BY <3>1, <1>5, <1>8, <1>9
  <2>2. CASE i > l /\ i <= l + n
    <3>1. i - l \in 1 .. n /\ i - l \in 1 .. m /\ l + (i - l) = i /\ i \in 1 .. l + n
      BY <2>2, <1>2
    <3>2. d[i] = a[i] /\ a[i] = c[i - l] /\ c[i - l] = w[i - l].code /\ s[i] = w[i - l].code
      <4>1. d[i] = a[i]
        BY <3>1, <1>9
      <4>2. a[i] = c[i - l] /\ s[i] = w[i - l].code
        BY <3>1, <1>5, <1>8
      <4>3. QED
        BY <3>1, <4>1, <4>2, <1>4
    <3>3. QED
      BY <3>2
  <2>3. CASE i > l + n
    <3>1. PICK k : k = i - (l + n)
      OBVIOUS
    <3>2. k \in 1 .. m - n /\ n + k \in 1 .. m /\ l + (n + k) = i /\ (l + n) + k = i
      BY <2>3, <3>1, <1>2
    <3>3. d[i] = v[k].code /\ v[k] = w[n + k] /\ s[i] = w[n + k].code
      BY <3>2, <1>6, <1>8, <1>9
    <3>4. QED
      BY <3>3
  <2>4. QED
    BY <2>1, <2>2, <2>3, <1>2
<1>11. Len(d) = l + m
  BY <1>2, <1>9
<1>12. d = s
  BY <1>8, <1>9, <1>10, <1>11, SeqEqual
<1>13. QED
  BY <1>1, <1>5, <1>6, <1>7, <1>12 DEF Moved

\* The handler takes codes from the controller.
LEMMA JointDrops ==
  ASSUME NEW p \in Seq(Nat), NEW w \in Seq(Scan), NEW n \in 1 .. Len(p),
         NEW a, a = SubSeq(p, n + 1, Len(p))
  PROVE  /\ a \in Seq(Nat) /\ Len(a) = Len(p) - n
         /\ Joint(a, w) = SubSeq(Joint(p, w), n + 1, Len(Joint(p, w)))
<1>1. PICK l, m : l = Len(p) /\ m = Len(w)
  OBVIOUS
<1>2. l \in Nat /\ m \in Nat /\ n \in 1 .. l /\ n \in Nat
  BY <1>1
<1>3. a \in Seq(Nat) /\ Len(a) = l - n /\ \A i \in 1 .. l - n : a[i] = p[n + i]
  <2>1. p \in Seq(Nat) /\ n \in 0 .. Len(p)
    BY <1>1, <1>2
  <2>2. /\ SubSeq(p, n + 1, Len(p)) \in Seq(Nat)
        /\ Len(SubSeq(p, n + 1, Len(p))) = Len(p) - n
        /\ \A i \in 1 .. Len(p) - n : SubSeq(p, n + 1, Len(p))[i] = p[n + i]
    BY ONLY <2>1, Dropped
  <2>3. QED
    BY ONLY <1>1, <2>2, a = SubSeq(p, n + 1, Len(p))
<1>4. PICK s, d : s = Joint(p, w) /\ d = Joint(a, w)
  OBVIOUS
<1>5. /\ s \in Seq(Nat) /\ Len(s) = l + m
      /\ \A i \in 1 .. l : s[i] = p[i]
      /\ \A i \in 1 .. m : s[l + i] = w[i].code
  BY <1>1, <1>4, JointFacts
<1>6. /\ d \in Seq(Nat) /\ Len(d) = (l - n) + m
      /\ \A i \in 1 .. l - n : d[i] = a[i]
      /\ \A i \in 1 .. m : d[(l - n) + i] = w[i].code
  <2>1. /\ d \in Seq(Nat) /\ Len(d) = Len(a) + Len(w)
        /\ \A i \in 1 .. Len(a) : d[i] = a[i]
        /\ \A i \in 1 .. Len(w) : d[Len(a) + i] = w[i].code
    BY <1>3, <1>4, JointFacts
  <2>2. QED
    BY <2>1, <1>1, <1>3
<1>7. PICK q : q = SubSeq(s, n + 1, Len(s))
  OBVIOUS
<1>8. q \in Seq(Nat) /\ Len(q) = (l + m) - n /\ \A i \in 1 .. (l + m) - n : q[i] = s[n + i]
  <2>1. n \in 0 .. Len(s)
    BY <1>2, <1>5
  <2>2. q \in Seq(Nat) /\ Len(q) = Len(s) - n /\ \A i \in 1 .. Len(s) - n : q[i] = s[n + i]
    BY <2>1, <1>5, <1>7, Dropped
  <2>3. QED
    BY <2>2, <1>5
<1>9. ASSUME NEW i \in 1 .. (l + m) - n PROVE d[i] = q[i]
  <2>1. CASE i <= l - n
    <3>1. i \in 1 .. l - n /\ n + i \in 1 .. l
      BY <2>1, <1>2
    <3>2. QED
      BY <3>1, <1>3, <1>5, <1>6, <1>8
  <2>2. CASE i > l - n
    <3>1. PICK k : k = i - (l - n)
      OBVIOUS
    <3>2. k \in 1 .. m /\ (l - n) + k = i /\ l + k = n + i
      BY <2>2, <3>1, <1>2
    <3>3. d[i] = w[k].code /\ s[n + i] = w[k].code
      BY <3>2, <1>5, <1>6
    <3>4. QED
      BY <3>3, <1>8
  <2>3. QED
    BY <2>1, <2>2, <1>2
<1>10. Len(d) = (l + m) - n
  BY <1>2, <1>6
<1>11. d = q
  BY <1>6, <1>8, <1>9, <1>10, SeqEqual
<1>12. QED
  BY <1>1, <1>3, <1>4, <1>7, <1>11

\* The wire ends so when the codes of a key are added,
LEMMA EndsGrows ==
  ASSUME NEW w \in Seq(Scan), NEW v \in Seq(Scan), EndsAlone(w), EndsAlone(v)
  PROVE  EndsAlone(w \o v)
<1>1. PICK u, m, n : u = w \o v /\ m = Len(w) /\ n = Len(v)
  OBVIOUS
<1>2. /\ m \in Nat /\ n \in Nat /\ Len(u) = m + n
      /\ \A i \in 1 .. n : u[m + i] = v[i]
  <2>1. w \in Seq(Scan) /\ v \in Seq(Scan)
    OBVIOUS
  <2>2. QED
    BY ONLY <2>1, <1>1
<1>3. CASE n > 0
  <2>1. n \in 1 .. n /\ u[m + n] = v[n] /\ v # <<>>
    BY <1>3, <1>1, <1>2
  <2>2. QED
    BY <2>1, <1>1, <1>2 DEF EndsAlone
<1>4. CASE n = 0
  <2>1. u = w
    BY <1>4, <1>1
  <2>2. QED
    BY <2>1, <1>1
<1>5. QED
  BY <1>2, <1>3, <1>4

\* and when codes leave it.
LEMMA EndsMoves ==
  ASSUME NEW w \in Seq(Scan), EndsAlone(w), NEW n \in 1 .. Len(w),
         NEW v, Len(v) = Len(w) - n, \A i \in 1 .. Len(w) - n : v[i] = w[n + i],
         v # <<>> => Len(v) > 0
  PROVE  EndsAlone(v)
<1>1. PICK m : m = Len(w)
  OBVIOUS
<1>2. m \in Nat /\ n \in 1 .. m /\ n \in Nat /\ Len(v) = m - n
  BY <1>1
<1> SUFFICES ASSUME v # <<>> PROVE ~v[Len(v)].joined
  BY DEF EndsAlone
<1>3. m - n \in 1 .. m - n /\ n + (m - n) = m /\ m > 0
  BY <1>2
<1>4. v[m - n] = w[m]
  BY <1>3, <1>1
<1>5. w # <<>>
  BY <1>3, <1>1
<1>6. QED
  BY <1>4, <1>5, <1>1, <1>2 DEF EndsAlone

-----------------------------------------------------------------------------
(* The steps.                                                              *)

\* The codes of a key are joined unless the key may be late.
LEMMA SentFacts ==
  ASSUME NEW k, NEW c \in Seq(Nat)
  PROVE  /\ Sent(k, c) \in Seq(Scan) /\ Len(Sent(k, c)) = Len(c) /\ Codes(Sent(k, c)) = c
         /\ \A i \in 1 .. Len(c) : Sent(k, c)[i].joined = (i < Len(c) /\ k \notin Late)
<1>1. PICK v, n : v = Sent(k, c) /\ n = Len(c)
  OBVIOUS
<1>2. n \in Nat /\ DOMAIN c = 1 .. n /\ \A i \in 1 .. n : c[i] \in Nat
  BY <1>1
<1>3. v = [i \in 1 .. n |-> [code |-> c[i], joined |-> i < n /\ k \notin Late]]
  BY <1>1, <1>2 DEF Sent
<1>4. \A i \in 1 .. n : v[i] \in Scan /\ v[i].code = c[i] /\ v[i].joined = (i < n /\ k \notin Late)
  BY <1>2, <1>3 DEF Scan
<1>5. v \in Seq(Scan) /\ Len(v) = n
  BY <1>2, <1>3, <1>4
<1>6. Codes(v) \in Seq(Nat) /\ Len(Codes(v)) = n /\ \A i \in 1 .. n : Codes(v)[i] = c[i]
  BY <1>4, <1>5, CodesFacts
<1>7. Codes(v) = c
  BY <1>1, <1>6, SeqEqual
<1>8. QED
  BY <1>1, <1>4, <1>5, <1>7

\* The codes that a key sends join those that come.
LEMMA KeySends ==
  ASSUME NEW k \in Key, NEW c \in {Make(k), Break(k)},
         port \in Seq(Nat), wire \in Seq(Scan), WholeKeys(Coming), EndsAlone(wire),
         wire' = wire \o Sent(k, c), port' = port
  PROVE  /\ wire' \in Seq(Scan) /\ Coming' = Coming \o c /\ WholeKeys(Coming')
         /\ EndsAlone(wire')
         /\ \A x : At(Coming', x) = At(Coming, x) \cup {i + Len(Coming) : i \in At(c, x)}
<1>1. k \in KnownKeys
  BY KeyboardAssumption
<1>2. WholeKeys(c)
  BY <1>1, SentWhole
<1>3. c \in Seq(Nat)
  BY <1>2 DEF WholeKeys
<1>4. PICK v : v = Sent(k, c)
  OBVIOUS
<1>5. /\ v \in Seq(Scan) /\ Len(v) = Len(c) /\ Codes(v) = c
      /\ \A i \in 1 .. Len(c) : v[i].joined = (i < Len(c) /\ k \notin Late)
  BY <1>3, <1>4, SentFacts
<1>6. wire \o v \in Seq(Scan) /\ Joint(port, wire \o v) = Joint(port, wire) \o c
  BY <1>5, JointGrows
<1>7. Coming' = Coming \o c
  BY <1>4, <1>6 DEF Coming
<1>8. EndsAlone(v)
  <2> SUFFICES ASSUME v # <<>> PROVE ~v[Len(v)].joined
    BY DEF EndsAlone
  <2>1. Len(c) \in Nat
    BY <1>3
  <2>2. Len(c) \in 1 .. Len(c) /\ ~(Len(c) < Len(c))
    BY <2>1, <1>5
  <2>3. QED
    BY <2>2, <1>5
<1>9. EndsAlone(wire \o v)
  BY <1>5, <1>8, EndsGrows
<1>10. WholeKeys(Coming \o c) /\ \A x : At(Coming \o c, x) = At(Coming, x) \cup {i + Len(Coming) : i \in At(c, x)}
  BY <1>2, KeysBehindKeys
<1>11. QED
  BY <1>4, <1>6, <1>7, <1>9, <1>10

\* What the listener does to ctrl.
LEMMA ListenCtrl ==
  ASSUME NEW event, Listen(event), ctrl \in BOOLEAN
  PROVE  /\ event.keycode \notin Controls => ctrl' = ctrl
         /\ event.keycode \in Controls /\ event.pressed = TRUE => ctrl' = TRUE
         /\ event.keycode \in Controls /\ event.pressed = FALSE => ctrl' = FALSE
<1>1. PICK k : k = event.keycode
  OBVIOUS
<1>2. CASE ~event.pressed /\ Release(k)
  <2>1. ctrl' = (ctrl /\ k \notin Controls)
    BY <1>2 DEF Release
  <2>2. QED
    BY <2>1, <1>1, <1>2
<1>3. CASE event.pressed /\ PressCtrl(k)
  BY <1>1, <1>3 DEF PressCtrl
<1>4. CASE event.pressed /\ (PressShift(k) \/ PressCapsLock(k))
  <2>1. k \notin Controls
    BY <1>4 DEF PressShift, PressCapsLock, Shifts, Controls
  <2>2. ctrl' = ctrl
    BY <1>4 DEF PressShift, PressCapsLock
  <2>3. QED
    BY <2>1, <2>2, <1>1
<1>5. CASE event.pressed /\ (PressCtrlC(k) \/ PressArrow(k) \/ PressKey(k))
  <2>1. k \notin Controls
    BY <1>5 DEF PressCtrlC, PressArrow, PressKey, Arrows, Controls
  <2>2. ctrl' = ctrl
    BY <1>5 DEF PressCtrlC, PressArrow, PressKey, Arrive, inputVars, modifiers
  <2>3. QED
    BY <2>1, <2>2, <1>1
<1>6. QED
  BY <1>1, <1>2, <1>3, <1>4, <1>5 DEF Listen

\* The invariant holds when the driver is installed.
LEMMA CtrlInit == KeyboardInit => CtrlInv
<1> SUFFICES ASSUME KeyboardInit PROVE CtrlInv
  OBVIOUS
<1>1. port = <<>> /\ wire = <<>> /\ ctrl = FALSE
  BY DEF KeyboardInit, Init
<1>2. port \in Seq(Nat) /\ wire \in Seq(Scan) /\ Len(port) = 0 /\ Len(wire) = 0
  BY <1>1
<1>3. PICK s : s = Coming
  OBVIOUS
<1>4. s \in Seq(Nat) /\ Len(s) = 0 /\ 1 .. Len(s) = {}
  <2>1. s \in Seq(Nat) /\ Len(s) = 0 + 0
    BY <1>2, <1>3, JointFacts DEF Coming
  <2>2. QED
    BY <2>1
<1>5. WholeKeys(s) /\ Presses(s) = {}
  BY <1>4 DEF WholeKeys, PausesWhole, PrefixesFollowed, Presses, At
<1>6. EndsAlone(wire)
  BY <1>1 DEF EndsAlone
<1>7. Settled(s, held, ctrl)
  BY <1>1, <1>5 DEF Settled, Answered
<1>8. QED
  BY <1>1, <1>2, <1>3, <1>5, <1>6, <1>7 DEF CtrlInv

\* A key that goes down keeps the invariant.
LEMMA CtrlKeyDown ==
  ASSUME CtrlInv, NEW k \in Key, KeyDown(k)
  PROVE  CtrlInv'
<1>1. PICK c : c = Make(k)
  OBVIOUS
<1>2. /\ wire' = wire \o Sent(k, c) /\ port' = port /\ held' = held \cup {k}
      /\ ctrl' = ctrl /\ listening' = listening
  BY <1>1 DEF KeyDown, inputVars
<1>3. /\ wire' \in Seq(Scan) /\ WholeKeys(Coming')
      /\ EndsAlone(wire')
      /\ \A x : At(Coming', x) = At(Coming, x) \cup {i + Len(Coming) : i \in At(c, x)}
  BY <1>1, <1>2, KeySends DEF CtrlInv
<1>4. CASE k \in Controls
  <2>1. held' \cap Controls # {}
    BY <1>2, <1>4
  <2>2. QED
    BY <2>1, <1>2, <1>3 DEF CtrlInv, Settled
<1>5. CASE k \notin Controls
  <2>1. At(c, 29) = {} /\ At(c, 157) = {}
    BY <1>1, <1>5, SentWhole, KeyboardAssumption DEF Presses, Releases
  <2>2. Presses(Coming') = Presses(Coming) /\ Releases(Coming') = Releases(Coming)
    <3>1. \A x : At(c, x) = {} => At(Coming', x) = At(Coming, x)
      BY <1>3
    <3>2. QED
      BY <2>1, <3>1 DEF Presses, Releases
  <2>3. held' \cap Controls = held \cap Controls
    BY <1>2, <1>5
  <2>4. Settled(Coming', held', ctrl')
    BY <2>2, <2>3, <1>2 DEF CtrlInv, Settled, Answered
  <2>5. QED
    BY <2>4, <1>2, <1>3 DEF CtrlInv
<1>6. QED
  BY <1>4, <1>5

\* A key that comes up keeps the invariant: the release of Ctrl answers its press.
LEMMA CtrlKeyUp ==
  ASSUME CtrlInv, NEW k \in Key, KeyUp(k)
  PROVE  CtrlInv'
<1>1. PICK c : c = Break(k)
  OBVIOUS
<1>2. /\ wire' = wire \o Sent(k, c) /\ port' = port /\ held' = held \ {k}
      /\ ctrl' = ctrl /\ listening' = listening
  BY <1>1 DEF KeyUp, inputVars
<1>3. /\ wire' \in Seq(Scan) /\ WholeKeys(Coming')
      /\ EndsAlone(wire')
      /\ \A x : At(Coming', x) = At(Coming, x) \cup {i + Len(Coming) : i \in At(c, x)}
  BY <1>1, <1>2, KeySends DEF CtrlInv
<1>4. CASE k \in Controls
  <2>1. At(c, 29) = {} /\ At(c, 157) = {Len(c)} /\ WholeKeys(c)
    BY <1>1, <1>4, SentWhole, KeyboardAssumption DEF Presses, Releases
  <2>2. Presses(Coming') = Presses(Coming)
    <3>1. \A x : At(c, x) = {} => At(Coming', x) = At(Coming, x)
      BY <1>3
    <3>2. QED
      BY <2>1, <3>1 DEF Presses
  <2>3. Len(c) + Len(Coming) \in Releases(Coming')
    <3>1. \A x : \A i \in At(c, x) : i + Len(Coming) \in At(Coming', x)
      BY <1>3
    <3>2. QED
      BY <2>1, <3>1 DEF Releases
  <2>4. Len(c) \in Nat /\ Len(c) >= 1 /\ Len(Coming) \in Nat
    <3>1. c \in Seq(Nat) /\ Coming \in Seq(Nat)
      BY <2>1 DEF WholeKeys, CtrlInv
    <3>2. Len(c) \in 1 .. Len(c)
      BY <2>1 DEF At
    <3>3. QED
      BY <3>1, <3>2
  <2>5. ASSUME NEW p \in Presses(Coming') PROVE Len(c) + Len(Coming) > p
    <3>1. p \in 1 .. Len(Coming)
      BY <2>2, <2>5 DEF Presses, At
    <3>2. QED
      BY <3>1, <2>4
  <2>6. Settled(Coming', held', ctrl')
    BY <2>3, <2>5 DEF Settled, Answered
  <2>7. QED
    BY <2>6, <1>2, <1>3 DEF CtrlInv
<1>5. CASE k \notin Controls
  <2>1. At(c, 29) = {} /\ At(c, 157) = {}
    BY <1>1, <1>5, SentWhole, KeyboardAssumption DEF Presses, Releases
  <2>2. Presses(Coming') = Presses(Coming) /\ Releases(Coming') = Releases(Coming)
    <3>1. \A x : At(c, x) = {} => At(Coming', x) = At(Coming, x)
      BY <1>3
    <3>2. QED
      BY <2>1, <3>1 DEF Presses, Releases
  <2>3. held' \cap Controls = held \cap Controls
    BY <1>2, <1>5
  <2>4. Settled(Coming', held', ctrl')
    BY <2>2, <2>3, <1>2 DEF CtrlInv, Settled, Answered
  <2>5. QED
    BY <2>4, <1>2, <1>3 DEF CtrlInv
<1>6. QED
  BY <1>4, <1>5

\* The codes that the controller takes are there: the wire ends with one that is
\* not joined.
LEMMA CtrlReceive ==
  ASSUME CtrlInv, Receive
  PROVE  CtrlInv'
<1> DEFINE Ends(i) == ~wire[i].joined /\ \A j \in 1 .. i - 1 : wire[j].joined
           n == CHOOSE i \in DOMAIN wire : Ends(i)
<1>1. /\ port' = port \o [i \in 1 .. n |-> wire[i].code]
      /\ wire' = SubSeq(wire, n + 1, Len(wire))
      /\ ctrl' = ctrl /\ listening' = listening /\ held' = held
  BY DEF Receive, inputVars
<1>2. /\ port \in Seq(Nat) /\ wire \in Seq(Scan) /\ wire # <<>>
      /\ DOMAIN wire = 1 .. Len(wire) /\ Len(wire) \in Nat /\ Len(wire) > 0 /\ Len(port) \in Nat
  BY DEF CtrlInv, Receive
<1>3. \E i \in DOMAIN wire : Ends(i)
  <2> DEFINE T == {i \in 1 .. Len(wire) : ~wire[i].joined}
  <2>1. Len(wire) \in T
    BY <1>2 DEF CtrlInv, EndsAlone
  <2>2. T \in SUBSET Nat
    BY <1>2
  <2>3. PICK m \in T : \A i \in T : m <= i
    BY <2>1, <2>2, LeastNatural
  <2>4. ASSUME NEW j \in 1 .. m - 1 PROVE wire[j].joined
    <3>1. m \in 1 .. Len(wire)
      BY <2>3
    <3>2. j \in 1 .. Len(wire) /\ ~(m <= j)
      BY <3>1, <1>2
    <3>3. QED
      BY <3>2, <2>3
  <2>5. QED
    BY <2>3, <2>4, <1>2
<1>4. n \in 1 .. Len(wire) /\ ~wire[n].joined
  <2> HIDE DEF Ends
  <2>1. n \in DOMAIN wire /\ Ends(n)
    BY <1>3
  <2> HIDE DEF n
  <2>2. QED
    BY <2>1, <1>2 DEF Ends
<1> HIDE DEF n
<1>5. /\ port' \in Seq(Nat) /\ Len(port') = Len(port) + n
      /\ wire' \in Seq(Scan) /\ Len(wire') = Len(wire) - n
      /\ \A i \in 1 .. Len(wire) - n : wire'[i] = wire[n + i]
      /\ Joint(port', wire') = Joint(port, wire)
  <2>1. PICK a, v, p, w : a = port' /\ v = wire' /\ p = port /\ w = wire
    OBVIOUS
  <2>2. /\ a = p \o FirstCodes(w, n) /\ v = SubSeq(w, n + 1, Len(w))
        /\ p \in Seq(Nat) /\ w \in Seq(Scan) /\ n \in 1 .. Len(w)
    BY <2>1, <1>1, <1>2, <1>4 DEF FirstCodes
  <2>3. Moved(p, w, n, a, v)
    BY ONLY <2>2, JointMoves
  <2>4. QED
    BY <2>1, <2>3 DEF Moved
<1>6. Coming' = Coming
  BY <1>5 DEF Coming
<1>7. wire' # <<>> => Len(wire') > 0
  BY <1>5
<1>8. EndsAlone(wire')
  <2>1. PICK v : v = wire'
    OBVIOUS
  <2>2. /\ Len(v) = Len(wire) - n /\ (v # <<>> => Len(v) > 0)
        /\ \A i \in 1 .. Len(wire) - n : v[i] = wire[n + i]
    BY <2>1, <1>5, <1>7
  <2>3. EndsAlone(v)
    BY <2>2, <1>2, <1>4, EndsMoves DEF CtrlInv
  <2>4. QED
    BY <2>1, <2>3
<1>9. QED
  BY <1>1, <1>5, <1>6, <1>8 DEF CtrlInv

\* The handler takes the codes of a key.  If they press Ctrl, the release is behind
\* them, unless the key is down.
LEMMA CtrlInterrupt ==
  ASSUME CtrlInv, InterruptHandler, ~hasty'
  PROVE  CtrlInv'
<1>1. PICK e : e = Decode(port)
  OBVIOUS
<1>2. PICK s, u : s = Coming /\ u = e.used
  OBVIOUS
<1>3. /\ port \in Seq(Nat) /\ wire \in Seq(Scan) /\ Len(port) \in Nat /\ Len(port) >= 1
      /\ ctrl \in BOOLEAN /\ (ctrl => listening)
      /\ WholeKeys(s) /\ EndsAlone(wire) /\ Settled(s, held, ctrl)
  BY <1>2 DEF CtrlInv, InterruptHandler
<1>4. /\ port' = SubSeq(port, u + 1, Len(port))
      /\ wire' = wire /\ held' = held /\ listening' = listening
      /\ IF e.keycode # NoKey /\ listening THEN Listen(e) ELSE UNCHANGED inputVars
  BY <1>1, <1>2 DEF InterruptHandler
<1>5. /\ s \in Seq(Nat) /\ Len(s) = Len(port) + Len(wire) /\ Len(wire) \in Nat
      /\ \A i \in 1 .. Len(port) : s[i] = port[i]
  BY <1>2, <1>3, JointFacts DEF Coming
<1>6. Front(port, s)
  BY <1>3, <1>5 DEF Front
<1>7. PauseAt(s, 1) => 6 <= Len(port)
  <2> SUFFICES ASSUME PauseAt(s, 1), Len(port) < 6 PROVE FALSE
    BY <1>3
  <2>1. Pause \in Seq(Nat) /\ Len(Pause) = 6
    BY PauseWhole DEF WholeKeys
  <2>2. ASSUME NEW i \in 1 .. Len(port) PROVE port[i] = Pause[i]
    <3>1. i - 1 \in 0 .. 5 /\ 1 + (i - 1) = i /\ (i - 1) + 1 = i
      BY <1>3
    <3>2. s[i] = Pause[i]
      BY <3>1 DEF PauseAt
    <3>3. QED
      BY <3>2, <1>5
  <2>3. PICK t : t = SubSeq(Pause, 1, Len(port))
    OBVIOUS
  <2>4. t \in Seq(Nat) /\ Len(t) = Len(port) /\ \A i \in 1 .. Len(port) : t[i] = Pause[i]
    <3>1. PICK l : l = Len(port)
      OBVIOUS
    <3>2. l \in Nat /\ l >= 1 /\ l < 6
      BY <3>1, <1>3
    <3>3. PICK q : q = Pause
      OBVIOUS
    <3>4. q \in Seq(Nat) /\ Len(q) = 6 /\ t = SubSeq(q, 1, l)
      BY <3>1, <3>3, <2>1, <2>3
    <3>5. t \in Seq(Nat) /\ Len(t) = l /\ \A i \in 1 .. l : t[i] = q[i]
      <4>1. q \in Seq(Nat) /\ l \in Nat /\ l <= Len(q)
        BY <3>2, <3>4
      <4>2. /\ SubSeq(q, 1, l) \in Seq(Nat) /\ Len(SubSeq(q, 1, l)) = l
            /\ \A i \in 1 .. l : SubSeq(q, 1, l)[i] = q[i]
        BY ONLY <4>1, CodesTaken
      <4>3. PICK r : r = SubSeq(q, 1, l)
        OBVIOUS
      <4>4. r \in Seq(Nat) /\ Len(r) = l /\ \A i \in 1 .. l : r[i] = q[i]
        BY ONLY <4>2, <4>3
      <4>5. t = r
        BY <3>4, <4>3
      <4>6. QED
        BY ONLY <4>4, <4>5
    <3>6. QED
      BY <3>1, <3>3, <3>5
  <2>5. port = t
    BY <2>2, <2>4, <1>3, SeqEqual
  <2>6. ReadsOn(port)
    BY <2>1, <2>3, <2>5 DEF ReadsOn
  <2>7. hasty'
    BY <2>6 DEF InterruptHandler
  <2>8. QED
    BY <2>7
<1>8. /\ u \in 1 .. Len(port)
      /\ (\A i \in 1 .. u : s[i] # 225) \/ (u = 6 /\ PauseAt(s, 1))
      /\ \/ /\ e.keycode \notin Controls
            /\ \A i \in 1 .. u : i \notin Presses(s) /\ i \notin Releases(s)
         \/ e.keycode \in Controls /\ e.pressed = TRUE /\ u \in Presses(s)
         \/ e.keycode \in Controls /\ e.pressed = FALSE
  <2>1. Handled(e, Len(port), s)
    BY <1>1, <1>3, <1>6, <1>7, DecodeHead
  <2>2. QED
    BY <2>1, <1>2 DEF Handled
<1>9. PICK d : d = SubSeq(s, u + 1, Len(s))
  OBVIOUS
<1>10. u \in 1 .. Len(s) /\ u \in 0 .. Len(s)
  BY <1>3, <1>5, <1>8
<1>11. /\ WholeKeys(d)
       /\ \A i \in 1 .. Len(s) - u : PauseAt(d, i) => PauseAt(s, u + i)
       /\ \A x : At(d, x) = {i - u : i \in {j \in At(s, x) : j > u}}
  BY <1>3, <1>8, <1>9, <1>10, KeysAfterKeys
<1>12. port' \in Seq(Nat) /\ Len(port') = Len(port) - u /\ Coming' = d
  <2>1. /\ port' \in Seq(Nat) /\ Len(port') = Len(port) - u
        /\ Joint(port', wire) = SubSeq(Joint(port, wire), u + 1, Len(Joint(port, wire)))
    BY <1>3, <1>4, <1>8, JointDrops
  <2>2. QED
    BY <2>1, <1>2, <1>4, <1>9 DEF Coming
<1>13. Answered(s) => Answered(d)
  <2> SUFFICES ASSUME Answered(s), NEW p \in Presses(d) PROVE \E r \in Releases(d) : r > p
    BY DEF Answered
  <2>1. PICK i \in Presses(s) : i > u /\ p = i - u
    BY <1>11 DEF Presses
  <2>2. PICK r \in Releases(s) : r > i
    BY DEF Answered
  <2>3. i \in Int /\ r \in Int /\ u \in Int
    BY <1>5, <1>8 DEF Presses, Releases, At
  <2>4. r > u /\ r - u > p
    BY <2>1, <2>2, <2>3
  <2>5. r - u \in Releases(d)
    BY <2>4, <1>11 DEF Releases
  <2>6. QED
    BY <2>4, <2>5
<1>14. ASSUME NEW r \in Releases(s), r > u PROVE Releases(d) # {}
  <2>1. r - u \in Releases(d)
    BY <1>11, <1>14 DEF Releases
  <2>2. QED
    BY <2>1
<1>15. ctrl' \in BOOLEAN /\ (ctrl' => listening')
  <2>1. CASE e.keycode # NoKey /\ listening
    <3>1. Listen(e)
      BY <2>1, <1>4
    <3>2. ctrl' \in {ctrl, TRUE, FALSE}
      BY <3>1, <1>3, <1>8, ListenCtrl
    <3>3. QED
      BY <3>2, <2>1, <1>3, <1>4
  <2>2. CASE ~(e.keycode # NoKey /\ listening)
    <3>1. ctrl' = ctrl
      BY <2>2, <1>4 DEF inputVars
    <3>2. QED
      BY <3>1, <1>3, <1>4
  <2>3. QED
    BY <2>1, <2>2
<1>16. ASSUME held \cap Controls = {}, ctrl' PROVE Releases(d) # {}
  <2>1. Answered(s) /\ (ctrl => Releases(s) # {})
    BY <1>3, <1>16 DEF Settled
  <2>2. listening
    BY <1>4, <1>15, <1>16
  <2>3. CASE e.keycode \notin Controls
    <3>1. ctrl' = ctrl
      <4>1. CASE e.keycode # NoKey
        BY <4>1, <2>2, <2>3, <1>3, <1>4, ListenCtrl
      <4>2. CASE e.keycode = NoKey
        BY <4>2, <1>4 DEF inputVars
      <4>3. QED
        BY <4>1, <4>2
    <3>2. PICK r \in Releases(s) : TRUE
      BY <3>1, <2>1, <1>16
    <3>3. r \notin 1 .. u /\ r \in 1 .. Len(s)
      BY <2>3, <3>2, <1>8 DEF Releases, At
    <3>4. r > u
      BY <3>3, <1>10
    <3>5. QED
      BY <3>4, <1>14
  <2>4. CASE e.keycode \in Controls
    <3>1. e.keycode # NoKey
      BY <2>4 DEF NoKey, Controls
    <3>2. Listen(e)
      BY <3>1, <2>2, <1>4
    <3>3. e.pressed # FALSE
      BY <3>2, <2>4, <1>3, <1>16, ListenCtrl
    <3>4. u \in Presses(s)
      BY <3>3, <2>4, <1>8
    <3>5. PICK r \in Releases(s) : r > u
      BY <3>4, <2>1 DEF Answered
    <3>6. QED
      BY <3>5, <1>14
  <2>5. QED
    BY <2>3, <2>4
<1>17. Settled(d, held, ctrl')
  BY <1>3, <1>13, <1>16 DEF Settled
<1>18. QED
  BY <1>3, <1>4, <1>11, <1>12, <1>15, <1>17 DEF CtrlInv

\* Every step of keyboard, controller, handler and reader keeps the invariant, until
\* the handler is hasty.
LEMMA CtrlStep ==
  ASSUME CtrlInv, [Next]_vars, ~hasty'
  PROVE  CtrlInv'
<1>1. ASSUME UNCHANGED <<port, wire, held, ctrl>>, listening' = listening \/ listening' = TRUE
      PROVE  CtrlInv'
  <2>1. Coming' = Coming /\ port' = port /\ wire' = wire /\ held' = held /\ ctrl' = ctrl
    BY <1>1 DEF Coming
  <2>2. ctrl' \in BOOLEAN /\ (ctrl' => listening')
    BY <1>1, <2>1 DEF CtrlInv
  <2>3. QED
    BY <2>1, <2>2 DEF CtrlInv
<1>2. CASE RegisterListener
  BY <1>1, <1>2 DEF RegisterListener, inputVars
<1>3. CASE \E n \in 0 .. MaxRead : Read(n) /\ UNCHANGED keyboardVars
  BY <1>1, <1>3 DEF Read, modifiers, keyboardVars
<1>4. CASE UNCHANGED vars
  BY <1>1, <1>4 DEF vars, inputVars, keyboardVars
<1>5. CASE \E k \in Key : KeyDown(k) \/ KeyUp(k)
  BY <1>5, CtrlKeyDown, CtrlKeyUp
<1>6. CASE Receive
  BY <1>6, CtrlReceive
<1>7. CASE InterruptHandler
  BY <1>7, CtrlInterrupt
<1>8. QED
  BY <1>2, <1>3, <1>4, <1>5, <1>6, <1>7 DEF Next

\* Once hasty, the handler remains so.
LEMMA HastyStays ==
  ASSUME hasty \in BOOLEAN, [Next]_vars
  PROVE  hasty' \in BOOLEAN /\ (~hasty' => ~hasty)
<1>1. CASE InterruptHandler
  BY <1>1 DEF InterruptHandler, ReadsOn
<1>2. CASE UNCHANGED hasty
  BY <1>2
<1>3. QED
  BY <1>1, <1>2 DEF Next, RegisterListener, KeyDown, KeyUp, Receive, keyboardVars, vars

\* No key leaves Ctrl on: whatever keys go down and up in whatever order, and
\* whichever codes come late, once every key is up and every code was handled Ctrl
\* is off, as long as the handler has read no code of Pause that was not there.
THEOREM CtrlNeverSticks == Spec => []CtrlReleased
<1> DEFINE Inv == hasty \in BOOLEAN /\ (~hasty => CtrlInv)
<1>1. Inv => CtrlReleased
  <2> SUFFICES ASSUME CtrlInv, held = {}, wire = <<>>, port = <<>> PROVE ~ctrl
    BY DEF CtrlReleased
  <2>1. port \in Seq(Nat) /\ wire \in Seq(Scan) /\ Len(port) = 0 /\ Len(wire) = 0
    BY DEF CtrlInv
  <2>2. Len(Coming) = 0 + 0
    BY <2>1, JointFacts DEF Coming
  <2>3. Releases(Coming) = {}
    BY <2>2 DEF Releases, At
  <2>4. QED
    BY <2>3 DEF CtrlInv, Settled
<1>2. KeyboardInit => Inv
  BY CtrlInit DEF KeyboardInit
<1>3. Inv /\ [Next]_vars => Inv'
  BY CtrlStep, HastyStays
<1>4. QED
  BY <1>1, <1>2, <1>3, PTL DEF Spec
===============================================================================
