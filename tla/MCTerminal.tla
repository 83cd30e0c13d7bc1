---------------------------- MODULE MCTerminal ----------------------------
(* A terminal of two rows and four columns, with tab stops that do not divide a *)
(* row and numbers that wrap around behind the last column.  Either a program   *)
(* that never ends writes whatever bytes it likes, or the shell reads lines     *)
(* of up to three characters, the longest of which does not fit its row, and    *)
(* runs commands that end.                                                      *)
EXTENDS LineEditor

VARIABLE owner   \* who has the terminal

Bytes == {"x", "NL", "CR", "BS", "TAB", "ESC", "[", ";", "2", "4",
          "J", "H", "K", "C", "D"}

MCPrompt == <<">">>

\* Nothing, a line, a cleared screen, a row that is not ended, and a sequence
\* that Ctrl+C cuts off.
MCOutputs ==
  {<<>>, <<"x", "NL">>, <<"ESC", "[", "2", "J", "ESC", "[", "H">>, <<"x">>,
   <<"ESC", "[", "2", "^", "C", "NL">>}

TerminalInit ==
  \/ /\ owner = "program" /\ Init
     /\ line = <<>> /\ cursor = 0 /\ nav = 0 /\ history = <<>> /\ entered = <<>>
     /\ one_row = FALSE
  \/ owner = "shell" /\ EditorInit

TerminalNext ==
  \/ owner = "program" /\ Next /\ UNCHANGED <<editVars, owner>>
  \/ owner = "shell" /\ EditorNext /\ UNCHANGED owner

TerminalSpec == TerminalInit /\ [][TerminalNext]_<<editorVars, owner>>
=============================================================================
