------------------------------- MODULE Screen -------------------------------
(***************************************************************************)
(* The output half of the terminal (kernel/src/io/tty.c): the parser for   *)
(* escape sequences, the cursor, and the text mode of the VGA driver       *)
(* (drivers/video/vga/tm) that it draws with.                              *)
(*                                                                         *)
(* tty_putchar puts a byte into the output ring and tty_flush takes it out *)
(* again and renders it, all within one call: between calls the ring is    *)
(* empty, so that one byte is one step.                                    *)
(*                                                                         *)
(* A byte is a string: "NL", "CR", "BS", "TAB" and "ESC" for the control   *)
(* characters, the character itself for any other.  A terminal is a record *)
(* of the fields of tty_t that matter here and of the cells of the screen, *)
(* numbered row by row from 0.  Colours are left out.                      *)
(***************************************************************************)
EXTENDS Integers, Sequences

CONSTANTS
  Rows,        \* tty->rows
  Columns,     \* tty->columns, 80
  TabWidth,    \* 8
  MaxParams,   \* TTY_ANSI_MAX_PARAMS
  WordSize,    \* 2^32, the range of uint32_t
  Byte,        \* the bytes programs write
  Shown,       \* the characters that are told apart on the screen
  Garbage      \* what ansi_params may hold before it is first written

Digits == <<"0", "1", "2", "3", "4", "5", "6", "7", "8", "9">>
Control == {"NL", "CR", "BS", "TAB", "ESC"}
Blank == " "

\* What a cell shows of a character.
Look(ch) == IF ch \in Shown THEN ch ELSE "?"

ASSUME ScreenAssumption ==
  /\ Rows \in Nat \ {0} /\ Columns \in Nat \ {0} /\ TabWidth \in Nat \ {0}
  /\ MaxParams \in Nat \ {0}
  /\ WordSize \in Nat \ {0} /\ Columns < WordSize /\ Rows < WordSize /\ 2 < WordSize
  /\ Garbage \subseteq 0 .. WordSize - 1

Cell == 0 .. Rows * Columns - 1
Word == 0 .. WordSize - 1

VARIABLE tty

-----------------------------------------------------------------------------
(* The VGA text mode driver.                                               *)

\* vga_tm_write, which refuses a cell that is not on the screen.
TmWrite(cells, cell, ch) == [c \in Cell |-> IF c = cell THEN ch ELSE cells[c]]

\* vga_tm_scroll, in a mode of 80 columns.
TmScroll(cells) ==
  [c \in Cell |-> IF c + Columns \in Cell THEN cells[c + Columns] ELSE Blank]

-----------------------------------------------------------------------------
(* tty_render_char                                                         *)

CursorCell(t) == t.y * Columns + t.x

\* The cursor after byte ch, before it is brought back to the screen.
Advance(t, ch) ==
  CASE ch = "NL"  -> [t EXCEPT !.x = 0, !.y = @ + 1]
    [] ch = "CR"  -> [t EXCEPT !.x = 0]
    [] ch = "BS"  -> LET back == IF t.x > 0 THEN t.x - 1 ELSE 0
                     IN [t EXCEPT !.x = back,
                                  !.cells = TmWrite(@, t.y * Columns + back, Blank)]
    [] ch = "TAB" -> [t EXCEPT !.x = @ + TabWidth - (@ % TabWidth)]
    [] OTHER      -> [t EXCEPT !.x = @ + 1, !.cells = TmWrite(@, CursorCell(t), Look(ch))]

Wrap(t) == IF t.x >= Columns THEN [t EXCEPT !.x = 0, !.y = @ + 1] ELSE t

\* Mutant: the screen scrolls one row too late.
ScrollLate(t) ==
  IF t.y > Rows THEN [t EXCEPT !.y = @ - 1, !.cells = TmScroll(@)] ELSE t

Scroll(t) ==
  IF t.y >= Rows THEN [t EXCEPT !.y = @ - 1, !.cells = TmScroll(@)] ELSE t

RenderChar(t, ch) == Scroll(Wrap(Advance(t, ch)))

-----------------------------------------------------------------------------
(* tty_csi_dispatch: the command that ends an escape sequence.             *)

OneBased(n) == IF n = 0 THEN 1 ELSE n
AtMost(n, max) == IF n > max THEN max ELSE n

\* tty_clear
Clear(t) == [t EXCEPT !.x = 0, !.y = 0, !.cells = [c \in Cell |-> Blank]]

MoveTo(t) ==
  [t EXCEPT !.y = AtMost(OneBased(t.params[0]), Rows) - 1,
            !.x = AtMost(IF t.param_count > 1 THEN OneBased(t.params[1]) ELSE 1, Columns) - 1]

EraseToEnd(t) ==
  [t EXCEPT !.cells = [c \in Cell |->
     IF c >= CursorCell(t) /\ c < (t.y + 1) * Columns THEN Blank ELSE @[c]]]

\* The sum is computed in 32 bits.
Forward(t) ==
  [t EXCEPT !.x = AtMost((@ + OneBased(t.params[0])) % WordSize, Columns - 1)]

Back(t) ==
  LET amount == OneBased(t.params[0])
  IN [t EXCEPT !.x = IF amount > @ THEN 0 ELSE @ - amount]

Dispatch(t, command) ==
  CASE command = "J" /\ t.params[0] = 2 -> Clear(t)
    [] command \in {"H", "f"}           -> MoveTo(t)
    [] command = "K" /\ t.params[0] = 0 -> EraseToEnd(t)
    [] command = "C"                    -> Forward(t)
    [] command = "D"                    -> Back(t)
    [] OTHER                            -> t

-----------------------------------------------------------------------------
(* tty_render: the parser.                                                 *)

IsDigit(ch) == \E i \in 1 .. 10 : Digits[i] = ch
DigitValue(ch) == (CHOOSE i \in 1 .. 10 : Digits[i] = ch) - 1

\* Commits the number read so far, if there is room for it.
Commit(t) ==
  IF t.param_count < MaxParams
  THEN [t EXCEPT !.params[t.param_count] = t.current, !.param_count = @ + 1]
  ELSE t

\* Mutant: anything else is dropped while the parser waits for the bracket.
RenderEscWaits(t, ch) ==
  IF ch = "[" THEN [t EXCEPT !.ansi_state = "CSI", !.param_count = 0, !.current = 0]
  ELSE t

RenderEsc(t, ch) ==
  IF ch = "[" THEN [t EXCEPT !.ansi_state = "CSI", !.param_count = 0, !.current = 0]
  ELSE [t EXCEPT !.ansi_state = "NORMAL"]

\* Mutant: the pending number is not committed before the command.
RenderCsiUncommitted(t, ch) ==
  IF IsDigit(ch) THEN [t EXCEPT !.current = (@ * 10 + DigitValue(ch)) % WordSize]
  ELSE IF ch = ";" THEN [Commit(t) EXCEPT !.current = 0]
  ELSE [Dispatch(t, ch) EXCEPT !.ansi_state = "NORMAL"]

RenderCsi(t, ch) ==
  IF IsDigit(ch) THEN [t EXCEPT !.current = (@ * 10 + DigitValue(ch)) % WordSize]
  ELSE IF ch = ";" THEN [Commit(t) EXCEPT !.current = 0]
  ELSE [Dispatch(Commit(t), ch) EXCEPT !.ansi_state = "NORMAL"]

Render(t, ch) ==
  CASE t.ansi_state = "ESC" -> RenderEsc(t, ch)
    [] t.ansi_state = "CSI" -> RenderCsi(t, ch)
    [] t.ansi_state = "NORMAL" /\ ch = "ESC" -> [t EXCEPT !.ansi_state = "ESC"]
    [] OTHER -> RenderChar(t, ch)

\* tty_puts
Puts(t, s) ==
  LET after[n \in 0 .. Len(s)] == IF n = 0 THEN t ELSE Render(after[n - 1], s[n])
  IN after[Len(s)]

-----------------------------------------------------------------------------
(* tty_create and tty_putchar.                                             *)

\* A new terminal on an empty screen, its parameters not initialized.
NewTty(params) ==
  [x |-> 0, y |-> 0, ansi_state |-> "NORMAL", params |-> params, param_count |-> 0,
   current |-> 0, cells |-> [c \in Cell |-> Blank]]

Init == \E params \in [0 .. MaxParams - 1 -> Garbage] : tty = NewTty(params)

Putchar(ch) == tty' = Render(tty, ch)

Next == \E ch \in Byte : Putchar(ch)

Spec == Init /\ [][Next]_tty

-----------------------------------------------------------------------------
(* Properties.                                                             *)

TypeOK ==
  tty \in [x : Nat, y : Nat, ansi_state : {"NORMAL", "ESC", "CSI"},
           params : [0 .. MaxParams - 1 -> Word], param_count : 0 .. MaxParams,
           current : Word, cells : [Cell -> Shown \cup {"?", Blank}]]

\* Whatever bytes a program writes, whole escape sequences or parts of them,
\* with numbers that are too large or wrap around, the cursor stays on the
\* screen: no cell outside it is ever written, and the cursor moves and erases
\* of tty_csi_dispatch, which do not check, start from a cell of the screen.
CursorOnScreen == tty.x < Columns /\ tty.y < Rows

\* A sequence that gives no parameters, or all of them, does the same whatever
\* sequences came before it: it never acts on a number that an earlier sequence
\* left in ansi_params, or that was there before the first.  And no sequence,
\* however many numbers it has, writes behind the end of ansi_params.
ParametersFresh ==
  /\ tty.param_count <= MaxParams
  /\ tty.ansi_state = "NORMAL" =>
      LET home  == Puts(tty, <<"ESC", "[", "H">>)
          clear == Puts(tty, <<"ESC", "[", "2", "J">>)
          erase == Puts(tty, <<"CR", "ESC", "[", "K">>)
      IN /\ home.x = 0 /\ home.y = 0
         /\ \A c \in Cell : clear.cells[c] = Blank
         /\ \A i \in 0 .. Columns - 1 : erase.cells[tty.y * Columns + i] = Blank

\* Ctrl+C may end a program that has written half of an escape sequence.  The
\* "^C\n" that tty_keyboard_listener prints then ends that sequence too: the
\* prompt that the shell prints next begins a line and is not swallowed.
InterruptStartsLine ==
  LET after == Puts(tty, <<"^", "C", "NL">>)
  IN after.ansi_state = "NORMAL" /\ after.x = 0
=============================================================================
