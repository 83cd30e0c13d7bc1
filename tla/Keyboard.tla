------------------------------- MODULE Keyboard -------------------------------
(***************************************************************************)
(* The PS/2 keyboard driver (drivers/input/ps2/keyboard.c) in front of the *)
(* terminal's listener (TerminalInput).  The keyboard sends one or more    *)
(* scan codes for a key that goes down or up; the controller takes them    *)
(* from the wire and raises an interrupt; the handler reads as many as it  *)
(* believes to belong to the key.  A byte may still be on the wire while   *)
(* the handler reads: then the port returns the byte it returned before.   *)
(*                                                                         *)
(* The history variable hasty remembers that the handler read on within    *)
(* the codes of Pause before they had arrived; nothing in it waits.        *)
(***************************************************************************)
EXTENDS TerminalInput, FiniteSets

CONSTANTS
  Key,        \* the keys in use
  Late,       \* those whose scan codes may reach the controller one by one
  MaxStrokes, \* bound: how often keys go down or up
  MaxCodes    \* bound: a key acts only while no more codes are on their way

\* The keys whose scan codes this module knows.
KnownKeys == {"LEFT_CONTROL", "RIGHT_CONTROL", "LEFT_SHIFT", "C", "MINUS", "CAPS_LOCK", "UP",
              "PAUSE", "PRINT_SCREEN"}

ASSUME KeyboardAssumption ==
  /\ Key \subseteq KnownKeys /\ Late \subseteq Key
  /\ MaxStrokes \in Nat /\ MaxCodes \in Nat

VARIABLES
  listening,   \* ps2_keyboard_listener # NULL
  held,        \* the keys that are down
  strokes,     \* how often keys went down or up
  wire,        \* scan codes on their way, each [code, joined]: joined codes
               \* arrive together with the one behind them
  port,        \* scan codes in the controller
  hasty        \* the handler read a code of Pause that was not there (history)

keyboardVars == <<listening, held, strokes, wire, port, hasty>>
vars == <<inputVars, keyboardVars>>

-----------------------------------------------------------------------------
(* What the keyboard sends, scan code set 1.                               *)

Prefix == 224         \* 0xE0
PausePrefix == 225    \* 0xE1

Pause == <<225, 29, 69, 225, 157, 197>>
PrintScreen == <<224, 42, 224, 55>>
PrintScreenUp == <<224, 183, 224, 170>>

Make(k) ==
  CASE k = "LEFT_CONTROL" -> <<29>>
    [] k = "RIGHT_CONTROL" -> <<224, 29>>
    [] k = "LEFT_SHIFT" -> <<42>>
    [] k = "C" -> <<46>>
    [] k = "MINUS" -> <<12>>
    [] k = "CAPS_LOCK" -> <<58>>
    [] k = "UP" -> <<224, 72>>
    [] k = "PAUSE" -> Pause
    [] k = "PRINT_SCREEN" -> PrintScreen

\* A key that goes up sends the code with the highest bit set; Pause nothing.
Break(k) ==
  CASE k = "PAUSE" -> <<>>
    [] k = "PRINT_SCREEN" -> PrintScreenUp
    [] OTHER -> [Make(k) EXCEPT ![Len(Make(k))] = @ + 128]

Sent(k, codes) ==
  [i \in DOMAIN codes |-> [code |-> codes[i], joined |-> i < Len(codes) /\ k \notin Late]]

-----------------------------------------------------------------------------
(* The tables.  "other" stands for the keys that the model does not press; *)
(* none of them is in the layout or has a meaning to the listener.         *)

NoKey == "none"

StandardKeycodes ==
  [c \in 0 .. 88 |->
     CASE c = 29 -> "LEFT_CONTROL"
       [] c = 42 -> "LEFT_SHIFT"
       [] c = 46 -> "C"
       [] c = 12 -> "MINUS"
       [] c = 58 -> "CAPS_LOCK"
       [] c \in {0, 84, 85, 86} -> NoKey
       [] OTHER -> "other"]

ExtendedKeycodes ==
  [c \in 0 .. 109 |->
     CASE c = 29 -> "RIGHT_CONTROL"
       [] c = 72 -> "UP"
       [] c \in {16, 25, 28, 32, 33, 34, 36, 46, 48, 50, 53, 56, 71, 73, 75, 77, 79,
                 80, 81, 82, 83, 91, 92, 93, 94, 95, 99} \cup 101 .. 109 -> "other"
       [] OTHER -> NoKey]

-----------------------------------------------------------------------------
(* ps2_keyboard_interrupt_handler, as a function of what the controller    *)
(* holds: how many codes it takes, and the event it passes on.             *)

Nothing(n) == [used |-> n, keycode |-> NoKey, pressed |-> FALSE]
Event(n, k, pressed) == [used |-> n, keycode |-> k, pressed |-> pressed]

\* A fixed sequence is read code by code up to the first that does not fit.
Follow(codes, sequence, event) ==
  LET fits == {n \in 1 .. Len(sequence) : n <= Len(codes) /\ SubSeq(codes, 1, n) = SubSeq(sequence, 1, n)}
      m == Cardinality(fits)
  IN IF m = Len(sequence) THEN event ELSE Nothing(IF m < Len(codes) THEN m + 1 ELSE m)

\* Mutant: a released extended key is looked up with the wrong bound.
DecodeExtendedShort(codes) ==
  LET c == codes[2]
  IN CASE Len(codes) < 2 -> Nothing(1)
       [] Len(codes) >= 2 /\ c = 42 -> Follow(codes, PrintScreen, Event(4, "PRINT_SCREEN", TRUE))
       [] Len(codes) >= 2 /\ c = 183 -> Follow(codes, PrintScreenUp, Event(4, "PRINT_SCREEN", FALSE))
       [] Len(codes) >= 2 /\ c \in 0 .. 109 \ {42} -> Event(2, ExtendedKeycodes[c], TRUE)
       [] Len(codes) >= 2 /\ c \in 128 .. 156 -> Event(2, ExtendedKeycodes[c - 128], FALSE)
       [] OTHER -> Nothing(2)

\* Behind 0xE0: the handler asks whether the second code is there.
DecodeExtended(codes) ==
  LET c == codes[2]
  IN CASE Len(codes) < 2 -> Nothing(1)
       [] Len(codes) >= 2 /\ c = 42 -> Follow(codes, PrintScreen, Event(4, "PRINT_SCREEN", TRUE))
       [] Len(codes) >= 2 /\ c = 183 -> Follow(codes, PrintScreenUp, Event(4, "PRINT_SCREEN", FALSE))
       [] Len(codes) >= 2 /\ c \in 0 .. 109 \ {42} -> Event(2, ExtendedKeycodes[c], TRUE)
       [] Len(codes) >= 2 /\ c \in 128 .. 237 \ {183} -> Event(2, ExtendedKeycodes[c - 128], FALSE)
       [] OTHER -> Nothing(2)

Decode(codes) ==
  LET c == codes[1]
  IN CASE c \in 0 .. 88 -> Event(1, StandardKeycodes[c], TRUE)
       [] c \in 128 .. 216 -> Event(1, StandardKeycodes[c - 128], FALSE)
       [] c = PausePrefix -> Follow(codes, Pause, Event(6, "PAUSE", TRUE))
       [] c = Prefix -> DecodeExtended(codes)
       [] OTHER -> Nothing(1)

-----------------------------------------------------------------------------

KeyboardInit ==
  /\ Init
  /\ listening = FALSE /\ held = {} /\ strokes = 0 /\ wire = <<>> /\ port = <<>>
  /\ hasty = FALSE

\* tty_create, ps2_keyboard_register_listener
RegisterListener ==
  /\ ~listening /\ listening' = TRUE
  /\ UNCHANGED <<inputVars, held, strokes, wire, port, hasty>>

\* A key goes down, or stays down and repeats.
KeyDown(k) ==
  /\ strokes < MaxStrokes /\ strokes' = strokes + 1
  /\ Len(wire) + Len(port) <= MaxCodes
  /\ k = "PAUSE" => k \notin held
  /\ held' = held \cup {k}
  /\ wire' = wire \o Sent(k, Make(k))
  /\ UNCHANGED <<inputVars, listening, port, hasty>>

KeyUp(k) ==
  /\ k \in held
  /\ strokes < MaxStrokes /\ strokes' = strokes + 1
  /\ Len(wire) + Len(port) <= MaxCodes
  /\ held' = held \ {k}
  /\ wire' = wire \o Sent(k, Break(k))
  /\ UNCHANGED <<inputVars, listening, port, hasty>>

\* The controller takes the next code, and those joined to it.
Receive ==
  /\ wire # <<>>
  /\ LET n == CHOOSE i \in DOMAIN wire : ~wire[i].joined /\ \A j \in 1 .. i - 1 : wire[j].joined
     IN /\ port' = port \o [i \in 1 .. n |-> wire[i].code]
        /\ wire' = SubSeq(wire, n + 1, Len(wire))
  /\ UNCHANGED <<inputVars, listening, held, strokes, hasty>>

\* The codes of Pause have begun and the next is missing: the handler does not ask
\* whether it is there.
ReadsOn(codes) == Len(codes) < Len(Pause) /\ codes = SubSeq(Pause, 1, Len(codes))

\* The interrupt for a code in the controller.  One whose code an earlier call
\* has taken finds nothing and returns.
InterruptHandler ==
  /\ port # <<>>
  /\ LET event == Decode(port)
     IN /\ port' = SubSeq(port, event.used + 1, Len(port))
        /\ IF event.keycode # NoKey /\ listening THEN Listen(event) ELSE UNCHANGED inputVars
  /\ hasty' = (hasty \/ ReadsOn(port))
  /\ UNCHANGED <<listening, held, strokes, wire>>

Next ==
  \/ RegisterListener
  \/ \E k \in Key : KeyDown(k) \/ KeyUp(k)
  \/ Receive
  \/ InterruptHandler
  \/ \E n \in 0 .. MaxRead : Read(n) /\ UNCHANGED keyboardVars

Spec == KeyboardInit /\ [][Next]_vars

-----------------------------------------------------------------------------
(* Properties.                                                             *)

\* No key sticks: once every key is up and its codes were handled, Ctrl is off,
\* so that the next C is a letter and does not end a program.  Any code may be
\* late; a 0xE0 that is handled before its second code arrives turns the right key
\* into the left one, and each press must still find its release
\* (ps2_keyboard_interrupt_handler and the modifiers of tty_keyboard_listener).
\* Once the handler was hasty with Pause nothing is promised: the rest of its codes
\* press Ctrl, and the release is lost with the second 0xE1.
CtrlReleased ==
  held = {} /\ wire = <<>> /\ port = <<>> /\ ~hasty => ~ctrl
===============================================================================
