---------------------------- MODULE TerminalInput ----------------------------
(***************************************************************************)
(* The input half of the terminal: tty_keyboard_listener, which the        *)
(* keyboard's interrupt calls for every key that goes down or up, and the  *)
(* read system call on standard input, which takes bytes from the ring.    *)
(* Both run with interrupts disabled: each is one step, in any order.  The *)
(* module Keyboard adds the driver that calls the listener.                *)
(*                                                                         *)
(* Layout[k] is the pair of characters of a key; NoChar stands for '\0'.   *)
(* The characters of Negative are those beyond ASCII, whose value is       *)
(* negative where char is signed, as it is here.                           *)
(***************************************************************************)
EXTENDS CircularBuffer

CONSTANTS
  Layout,     \* [normal, shifted] of the keys in tty->layout
  Negative,   \* characters with a negative value
  MaxRead     \* bound: the largest size programs read with

NoChar == "none"
Arrows == {"UP", "DOWN", "RIGHT", "LEFT"}
FinalByte == [UP |-> "A", DOWN |-> "B", RIGHT |-> "C", LEFT |-> "D"]

Char == {Layout[k].normal : k \in DOMAIN Layout} \cup {Layout[k].shifted : k \in DOMAIN Layout}
ASSUME TerminalInputAssumption ==
  /\ \A k \in DOMAIN Layout :
       k \notin Arrows /\ {"[", "ESC"} \cap {Layout[k].normal, Layout[k].shifted} = {}
  /\ Negative \subseteq Char \ {NoChar}
  /\ MaxRead \in Nat

VARIABLES
  input,   \* tty->input
  shift,   \* shift of tty_keyboard_listener
  ctrl,    \* ctrl of tty_keyboard_listener
  got,     \* the bytes the last read returned
  last,    \* the byte that left the ring last, NoChar before the first
  lost     \* a byte was overwritten before it was read

modifiers == <<shift, ctrl>>
inputVars == <<input, shift, ctrl, got, last, lost>>

Init ==
  /\ input = NewRing([i \in Position |-> NoChar])
  /\ shift = FALSE /\ ctrl = FALSE
  /\ got = <<>> /\ last = NoChar /\ lost = FALSE

-----------------------------------------------------------------------------
(* tty_keyboard_listener                                                   *)

Shifts == {"LEFT_SHIFT", "RIGHT_SHIFT"}
Controls == {"LEFT_CONTROL", "RIGHT_CONTROL"}

Release(k) ==
  /\ shift' = (shift /\ k \notin Shifts)
  /\ ctrl' = (ctrl /\ k \notin Controls)
  /\ UNCHANGED <<input, got, last, lost>>

PressShift(k) == k \in Shifts /\ shift' = TRUE /\ UNCHANGED <<input, ctrl, got, last, lost>>
PressCtrl(k) == k \in Controls /\ ctrl' = TRUE /\ UNCHANGED <<input, shift, got, last, lost>>
PressCapsLock(k) == k = "CAPS_LOCK" /\ shift' = ~shift /\ UNCHANGED <<input, ctrl, got, last, lost>>

\* The ring after the bytes of s were added one by one.
EnqueueAll(r, s) ==
  LET after[n \in 0 .. Len(s)] == IF n = 0 THEN r ELSE Enqueue(after[n - 1], s[n])
  IN after[Len(s)]

Arrive(s) ==
  /\ input' = EnqueueAll(input, s)
  /\ lost' = (lost \/ Size(input) + Len(s) > Capacity)
  /\ UNCHANGED <<modifiers, got, last>>

\* Mutant: the bracket of the sequence is forgotten.
ArrowBytesBare(a) == <<"ESC", FinalByte[a]>>

ArrowBytes(a) == <<"ESC", "[", FinalByte[a]>>

PressArrow(k) == k \in Arrows /\ Arrive(ArrowBytes(k))

\* Ctrl+C is swallowed; that it ends a process is the business of Processes.
PressCtrlC(k) == ctrl /\ k = "C" /\ UNCHANGED inputVars

\* tty_keycode_to_char: a key that is not in the layout has no character.
KeycodeToChar(k) ==
  IF k \notin DOMAIN Layout THEN NoChar
  ELSE IF shift THEN Layout[k].shifted ELSE Layout[k].normal

\* Any other key.
PressKey(k) ==
  /\ k \notin Shifts \cup Controls \cup Arrows \cup {"CAPS_LOCK"}
  /\ ~(ctrl /\ k = "C")
  /\ IF KeycodeToChar(k) = NoChar THEN UNCHANGED inputVars ELSE Arrive(<<KeycodeToChar(k)>>)

Listen(event) ==
  \/ ~event.pressed /\ Release(event.keycode)
  \/ /\ event.pressed
     /\ LET k == event.keycode
        IN PressShift(k) \/ PressCtrl(k) \/ PressCapsLock(k) \/ PressCtrlC(k) \/ PressArrow(k) \/ PressKey(k)

-----------------------------------------------------------------------------
(* syscall_read with file descriptor 0.                                    *)

\* The bytes tty_getchar takes from the ring: n of them, or fewer when the ring
\* runs empty, or when one is negative, at which the loop stops.
TakenBy(n) ==
  LET c == Contents(input)
      stops == {i \in 1 .. Len(c) : c[i] \in Negative} \cup {n, Len(c)}
  IN CHOOSE i \in stops : \A j \in stops : i <= j

\* The ring after n bytes were taken.
DequeueAll(r, n) ==
  LET after[k \in 0 .. n] == IF k = 0 THEN r ELSE Dequeue(after[k - 1])
  IN after[n]

\* The byte at which the loop stops is not returned.
Read(n) ==
  LET k == TakenBy(n)
      c == Contents(input)
  IN /\ input' = DequeueAll(input, k)
     /\ got' = IF k > 0 /\ c[k] \in Negative THEN SubSeq(c, 1, k - 1) ELSE SubSeq(c, 1, k)
     /\ last' = IF k > 0 THEN c[k] ELSE last
     /\ UNCHANGED <<modifiers, lost>>

-----------------------------------------------------------------------------
(* Properties.                                                             *)

\* The ring, with its two indices and its flag, keeps what BoundedQueue promises:
\* whatever keys and reads in whatever order, a program gets the bytes of the
\* keys in their order, and only the oldest are lost when nobody reads.  The
\* characters beyond ASCII, which the one layout of the kernel has, are lost to any
\* program: the read that comes to one takes it and returns what was before it.
Queue == INSTANCE BoundedQueue WITH
  queue <- Contents(input),
  Inputs <- {<<ch>> : ch \in Char} \cup {ArrowBytes(a) : a \in Arrows},
  Refused <- Negative
ImplementsQueue == Queue!Spec

\* As long as nothing was overwritten, the bytes of an arrow key arrive together
\* and in order, whatever else is typed and wherever reads end: in the bytes that
\* wait, a bracket follows every ESC and only an ESC, also across a read.
ArrowsArriveWhole ==
  ~lost =>
    LET c == <<last>> \o Contents(input)
    IN \A i \in 2 .. Len(c) : c[i] = "[" <=> c[i - 1] = "ESC"
===============================================================================
