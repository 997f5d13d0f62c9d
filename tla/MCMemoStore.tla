---------------------------- MODULE MCMemoStore ----------------------------
(***************************************************************************)
(* MemoStore on a small file: a header of 4 units and blocks of 2 units. A *)
(* short memo takes one block, a long one two.                             *)
(***************************************************************************)
EXTENDS MemoStore

CONSTANTS p1, p2, f1, short, long

MCSize == [m \in Memos |-> IF m = short THEN 1 ELSE 3]
=============================================================================
