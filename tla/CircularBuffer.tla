---------------------------- MODULE CircularBuffer ----------------------------
(***************************************************************************)
(* The ring buffer of kernel/include/util/circular_buffer.h: a record of   *)
(* the slots and of the indices head, where the next element goes, and     *)
(* tail, where the oldest is; when the two are equal full tells a full     *)
(* ring from an empty one.  A full ring takes another element in place of  *)
(* its oldest.                                                             *)
(***************************************************************************)
EXTENDS Integers, Sequences

CONSTANT Capacity   \* TTY_BUFFER_SIZE for the terminal's rings

ASSUME CapacityAssumption == Capacity \in Nat \ {0}

Position == 0 .. Capacity - 1

Rings(Element) ==
  [slots : [Position -> Element], head : Position, tail : Position, full : BOOLEAN]

\* circular_buffer_create; the slots are memory from kmalloc.
NewRing(slots) == [slots |-> slots, head |-> 0, tail |-> 0, full |-> FALSE]

IsEmpty(r) == r.tail = r.head /\ ~r.full

Size(r) ==
  IF r.full THEN Capacity
  ELSE IF r.head >= r.tail THEN r.head - r.tail
  ELSE Capacity + r.head - r.tail

Enqueue(r, e) ==
  LET next == (r.head + 1) % Capacity
      tail == IF r.full THEN (r.tail + 1) % Capacity ELSE r.tail
  IN [slots |-> [r.slots EXCEPT ![r.head] = e], head |-> next, tail |-> tail,
      full |-> next = tail]

\* Mutant: a ring that was full stays so.
DequeueKeepsFull(r) ==
  IF IsEmpty(r) THEN r ELSE [r EXCEPT !.tail = (@ + 1) % Capacity]

Dequeue(r) ==
  IF IsEmpty(r) THEN r ELSE [r EXCEPT !.tail = (@ + 1) % Capacity, !.full = FALSE]

\* circular_buffer_get(r, i), for an i below the size.
Get(r, i) == r.slots[(r.tail + i) % Capacity]

\* The elements, the oldest first.
Contents(r) == [i \in 1 .. Size(r) |-> Get(r, i - 1)]
===============================================================================
