---------------------------- MODULE MCLifecycle ----------------------------
(***************************************************************************)
(* Lifecycle with a container that lists up to two tables, in any order    *)
(* and with a blank row.  No table is listed twice.                        *)
(***************************************************************************)
EXTENDS Lifecycle

CONSTANTS dbc, orders, items, other, blank

MCLists == {<<>>, <<orders>>, <<items, blank, orders>>, <<orders, items>>}
=============================================================================
