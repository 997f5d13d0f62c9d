--------------------------- MODULE MCRowIncrement ---------------------------
(***************************************************************************)
(* RowIncrement with the model values its run gives to the constants.      *)
(***************************************************************************)
EXTENDS RowIncrement

CONSTANTS p1, a, b

MCNoValue == -1
=============================================================================
