----------------------------- MODULE BoundedQueue -----------------------------
(***************************************************************************)
(* What the input of a terminal promises: bytes come out in the order they *)
(* went in, and of those that are not taken the last Capacity are kept.    *)
(* A byte of Refused is never handed over: it is removed by the take that  *)
(* comes to it, which ends there.                                          *)
(***************************************************************************)
EXTENDS Integers, Sequences

CONSTANTS
  Capacity,  \* how many bytes are kept
  Inputs,    \* the sequences of bytes that are put in at once
  Refused    \* the bytes that are not handed over

VARIABLES
  queue,     \* the bytes that wait, the oldest first
  got        \* the bytes that were taken last

Latest(s) == IF Len(s) <= Capacity THEN s ELSE SubSeq(s, Len(s) - Capacity + 1, Len(s))

Init == queue = <<>> /\ got = <<>>

Put(s) == queue' = Latest(queue \o s) /\ UNCHANGED got

\* The first n bytes are handed over, and the first k are gone.
Remove(n, k) ==
  /\ \A i \in 1 .. n : queue[i] \notin Refused
  /\ got' = SubSeq(queue, 1, n)
  /\ queue' = SubSeq(queue, k + 1, Len(queue))

Take(n) == n <= Len(queue) /\ Remove(n, n)
TakeRefused(n) == n < Len(queue) /\ queue[n + 1] \in Refused /\ Remove(n, n + 1)

Next ==
  \/ \E s \in Inputs : Put(s)
  \/ \E n \in 0 .. Len(queue) : Take(n) \/ TakeRefused(n)

Spec == Init /\ [][Next]_<<queue, got>>
===============================================================================
