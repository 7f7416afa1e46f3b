------------------------------ MODULE MCTerminal ------------------------------
(***************************************************************************)
(* A terminal small enough for TLC: lines of two characters, two rows of   *)
(* history, a screen of a few cells.  A capital letter is identified with  *)
(* the small one: the handler treats the two alike everywhere.             *)
(***************************************************************************)
EXTENDS Terminal

SameCase == [k \in CharKeys |-> k]

\* The newline of the last message and the prompt, which has one cell here.
EndOfBoot == <<"newline", "cell">>
===============================================================================
