---------------------------- MODULE MCNavigation ----------------------------
(***************************************************************************)
(* Navigation over tables of up to three rows, with a word of 5 so that    *)
(* the row pointer wraps around.                                           *)
(***************************************************************************)
EXTENDS Navigation

\* What the loops tell apart: Search finds the value in every row that converts,
\* and none in the row that does not.
MCContents ==
    {[state |-> s, match |-> TRUE] : s \in {"active", "deleted", "unwritten"}}
        \cup {[state |-> "invalid", match |-> FALSE]}

MCOffsets == {-1, 2}
=============================================================================
