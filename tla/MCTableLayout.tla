--------------------------- MODULE MCTableLayout ---------------------------
(***************************************************************************)
(* TableFile with small words: a 16-bit word of 40, a 32-bit word of 128   *)
(* and limits in the proportions of the real ones.                         *)
(***************************************************************************)
EXTENDS TableFile

MCZero == [kind |-> "zero", part |-> 0, val |-> 0]
=============================================================================
