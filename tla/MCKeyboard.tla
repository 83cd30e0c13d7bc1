------------------------------ MODULE MCKeyboard ------------------------------
(* Two keys of the German layout, one with a character beyond ASCII, an      *)
(* arrow, modifiers of both tables and the keys with long sequences; any     *)
(* code may come late.                                                       *)
EXTENDS Keyboard

GermanLayout == [C |-> [normal |-> "c", shifted |-> "C"],
                 MINUS |-> [normal |-> "sharp s", shifted |-> "?"]]
===============================================================================
