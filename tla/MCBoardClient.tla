--------------------------- MODULE MCBoardClient ---------------------------
(* An instance of BoardClient for TLC: a title, which can also be edited on  *)
(* the board, and a description.                                             *)
EXTENDS BoardClient

CONSTANTS title, description, old, mine, hers

MCInitial == [f \in Field |-> old]
=============================================================================
