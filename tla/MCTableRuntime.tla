--------------------------- MODULE MCTableRuntime ---------------------------
(* Instance of TableRuntime for TLC: two reveal windows per hand that ask for
   the same number of tokens, as those of the turn and the river do. *)
EXTENDS TableRuntime

TwoStreets == <<1, 1>>
=============================================================================
