----------------------------- MODULE MCRowStore -----------------------------
(***************************************************************************)
(* RowStore with the model values its runs give to the constants.          *)
(***************************************************************************)
EXTENDS RowStore

CONSTANTS p1, p2, a, b
=============================================================================
