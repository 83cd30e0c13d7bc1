------------------------------ MODULE LineEditor ------------------------------
(***************************************************************************)
(* The shell's line input (userland/shell/src/main.c: shell_read_line,     *)
(* shell_redraw, shell_history_add) on the terminal of Screen.             *)
(*                                                                         *)
(* A key is what getchar delivers for it, three bytes for an arrow.  The   *)
(* editor handles a key completely, its output included, before it waits   *)
(* for the next, so that a key is one step; what the keyboard adds to the  *)
(* input ring in the meantime is the business of TerminalInput.  The line  *)
(* is buffer[0 .. length - 1], length its length, history the first        *)
(* history_count entries of the array.                                     *)
(*                                                                         *)
(* "Assumes the input stays on a single row": nothing ensures it, a line   *)
(* of SHELL_LINE_MAX characters takes four rows, and neither does anything *)
(* keep a command from ending in the middle of a row.  Both happen in the  *)
(* model, and the history variable one_row says since when they have not.  *)
(***************************************************************************)
EXTENDS Screen

CONSTANTS
  Prompt,      \* "> "
  Keys,        \* the characters that are inserted into the line, TAB included
  LineMax,     \* SHELL_LINE_MAX, the size of the buffer
  HistoryMax,  \* SHELL_HISTORY_MAX
  Outputs      \* what a command may print

ASSUME LineEditorAssumption ==
  /\ LineMax \in Nat \ {0} /\ HistoryMax \in Nat \ {0}
  /\ Len(Prompt) < Columns /\ LineMax <= WordSize

VARIABLES
  line,     \* buffer
  cursor,   \* cursor
  nav,      \* nav: the entry of the history shown, Len(history) for none
  history,  \* history
  entered,  \* the last line entered that was not empty
  one_row   \* the prompt began an empty row and no line since was too long

editVars == <<line, cursor, nav, history, entered, one_row>>
editorVars == <<tty, editVars>>

-----------------------------------------------------------------------------
(* Output.                                                                 *)

\* printf("%d", n)
Decimal(n) ==
  LET text[k \in 0 .. n] == IF k < 10 THEN <<Digits[k + 1]>>
                            ELSE Append(text[k \div 10], Digits[(k % 10) + 1])
  IN text[n]

\* shell_redraw
Redraw(t, l, c) ==
  LET shown == Puts(t, <<"CR">> \o Prompt \o l \o <<"ESC", "[", "K">>)
  IN IF c < Len(l) THEN Puts(shown, <<"ESC", "[">> \o Decimal(Len(l) - c) \o <<"D">>)
     ELSE shown

-----------------------------------------------------------------------------
(* What the editor relies on.                                              *)

\* The line stands behind the prompt on one row, one cell for a character.
OnOneRow(l) == Len(Prompt) + Len(l) < Columns /\ \A i \in 1 .. Len(l) : l[i] \notin Control

\* The parser is at rest, the cursor begins a row, and nothing stands behind it.
EmptyRow(t) ==
  /\ t.ansi_state = "NORMAL" /\ t.x = 0
  /\ \A c \in Cell : c >= CursorCell(t) => t.cells[c] = Blank

\* Lines of text.
Lines(s) ==
  /\ Len(s) \in Nat \ {0} /\ s[Len(s)] = "NL"
  /\ \A i \in 1 .. Len(s) : s[i] \notin {"ESC", "CR", "BS"}

\* What an ordinary command prints: nothing, a cleared screen, or whole lines.
Tidy(s) ==
  s = <<>> \/ s = <<"ESC", "[", "2", "J", "ESC", "[", "H">> \/ Lines(s)

-----------------------------------------------------------------------------
(* The keys of shell_read_line.                                            *)

\* The line with ch inserted at the cursor, and without the character before
\* the cursor.
Inserted(l, c, ch) == SubSeq(l, 1, c) \o <<ch>> \o SubSeq(l, c + 1, Len(l))
Deleted(l, c) == SubSeq(l, 1, c - 1) \o SubSeq(l, c + 1, Len(l))

\* Mutant: a character is only echoed, wherever it was inserted.
EchoOnly(t, l, c, ch) == Puts(t, <<ch>>)

\* The terminal after ch was inserted: it is echoed at the end of the line, a
\* line that changed before its end is redrawn.
Echo(t, l, c, ch) ==
  IF c = Len(l) THEN Puts(t, <<ch>>) ELSE Redraw(t, Inserted(l, c, ch), c + 1)

Insert(ch) ==
  /\ Len(line) + 1 < LineMax
  /\ line' = Inserted(line, cursor, ch)
  /\ cursor' = cursor + 1
  /\ tty' = Echo(tty, line, cursor, ch)
  /\ one_row' = (one_row /\ OnOneRow(line'))
  /\ UNCHANGED <<nav, history, entered>>

Backspace ==
  /\ cursor > 0
  /\ line' = Deleted(line, cursor)
  /\ cursor' = cursor - 1
  /\ tty' = Redraw(tty, line', cursor')
  /\ one_row' = (one_row /\ OnOneRow(line'))
  /\ UNCHANGED <<nav, history, entered>>

\* The line becomes entry n of the history, or empty behind the last.
Recall(n) ==
  /\ nav' = n
  /\ line' = IF n < Len(history) THEN history[n + 1] ELSE <<>>
  /\ cursor' = Len(line')
  /\ tty' = Redraw(tty, line', cursor')
  /\ one_row' = (one_row /\ OnOneRow(line'))
  /\ UNCHANGED <<history, entered>>

Up == nav > 0 /\ Recall(nav - 1)
Down == nav < Len(history) /\ Recall(nav + 1)

Right ==
  /\ cursor < Len(line)
  /\ cursor' = cursor + 1
  /\ tty' = Puts(tty, <<"ESC", "[", "C">>)
  /\ UNCHANGED <<line, nav, history, entered, one_row>>

Left ==
  /\ cursor > 0
  /\ cursor' = cursor - 1
  /\ tty' = Puts(tty, <<"ESC", "[", "D">>)
  /\ UNCHANGED <<line, nav, history, entered, one_row>>

\* Mutant: a full history takes no more lines.
WithLineIfRoom(h, l) ==
  IF l = <<>> \/ (Len(h) > 0 /\ h[Len(h)] = l) \/ Len(h) = HistoryMax THEN h
  ELSE Append(h, l)

\* shell_history_add
WithLine(h, l) ==
  IF l = <<>> \/ (Len(h) > 0 /\ h[Len(h)] = l) THEN h
  ELSE Append(IF Len(h) = HistoryMax THEN Tail(h) ELSE h, l)

\* Enter: the line goes to the history, the command runs and prints output, and
\* main calls shell_read_line anew.  An ordinary command keeps an empty row for
\* the prompt; another one, or one after a line that was too long, may leave one.
Enter(output) ==
  /\ history' = WithLine(history, line)
  /\ entered' = IF line = <<>> THEN entered ELSE line
  /\ line' = <<>> /\ cursor' = 0 /\ nav' = Len(history')
  /\ LET left == Puts(Puts(tty, <<"NL">>), output)
     IN /\ tty' = Puts(left, Prompt)
        /\ one_row' = ((one_row /\ Tidy(output)) \/ EmptyRow(left))

\* The shell prints its banner and the first prompt on a new terminal.
EditorInit ==
  /\ \E params \in [0 .. MaxParams - 1 -> Garbage], banner \in Outputs :
       /\ tty = Puts(Puts(NewTty(params), banner), Prompt)
       /\ one_row = (Tidy(banner) \/ EmptyRow(Puts(NewTty(params), banner)))
  /\ line = <<>> /\ cursor = 0 /\ nav = 0 /\ history = <<>> /\ entered = <<>>

EditorNext ==
  \/ \E ch \in Keys : Insert(ch)
  \/ Backspace
  \/ Up \/ Down \/ Left \/ Right
  \/ \E output \in Outputs : Enter(output)

EditorSpec == EditorInit /\ [][EditorNext]_editorVars

-----------------------------------------------------------------------------
(* Properties.                                                             *)

\* What the cells of the terminal's row show, from its beginning.
RowText(t) == [i \in 1 .. Columns |-> t.cells[t.y * Columns + i - 1]]

\* While the shell waits for a key, the row of the cursor shows the prompt, the
\* line and nothing behind it, and the terminal's cursor stands where the next
\* character is inserted, after any keys: the editor moves the cursor by relative
\* sequences only and never reads it back.  That is so from the first prompt on
\* that begins an empty row, over any number of ordinary commands, until a line
\* does not fit its row or a command leaves the cursor elsewhere.
LineShown ==
  one_row =>
    /\ tty.x = Len(Prompt) + cursor
    /\ \A i \in 1 .. Columns :
         RowText(tty)[i] = IF i <= Len(Prompt) THEN Look(Prompt[i])
                           ELSE IF i <= Len(Prompt) + Len(line) THEN Look(line[i - Len(Prompt)])
                           ELSE Blank

\* The last line entered that was not empty is what the first Up recalls, also
\* when the history or the line is full or the line repeats the last entry; no two entries
\* in a row are the same, and none is empty.
LastLineRecalled ==
  /\ entered # <<>> => Len(history) > 0 /\ history[Len(history)] = entered
  /\ \A i \in 1 .. Len(history) : history[i] # <<>>
  /\ \A i \in 1 .. Len(history) - 1 : history[i] # history[i + 1]
===============================================================================
