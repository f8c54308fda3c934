------------------------------- MODULE MCSession -------------------------------
(***************************************************************************)
(* Session with two files, one of them with two frames and a path in       *)
(* ASCII, one slot, and three starts of the program.                       *)
(***************************************************************************)
EXTENDS Session

CONSTANTS f, g
TwoFiles == {f, g}
OneForeign == {g}
Frames == [file \in TwoFiles |-> IF file = f THEN 1 ELSE 0]
OneSlot == {1}
=============================================================================
