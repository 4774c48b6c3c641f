--------------------------- MODULE MCBoardColumns ---------------------------
(* An instance of BoardColumns for TLC: a reorder by the user of the page,   *)
(* and one by a colleague.                                                   *)
EXTENDS BoardColumns

CONSTANTS move1, move2

=============================================================================
