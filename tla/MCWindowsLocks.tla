--------------------------- MODULE MCWindowsLocks ---------------------------
(***************************************************************************)
(* WindowsLocks for two programs on a small table.                         *)
(***************************************************************************)
EXTENDS WindowsLocks

CONSTANTS p1, p2
=============================================================================
