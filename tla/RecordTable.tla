---------------------------- MODULE RecordTable ----------------------------
(***************************************************************************)
(* What a dBase table does for a client that is alone on it and holds one  *)
(* Row at a time.  A Row knows the number it has in the table and whether  *)
(* it was fetched from there; the call decides which row of the table is   *)
(* changed and to what.  A Row that was fetched is replaced.  A new Row is *)
(* appended; written once more, it is replaced and a row that was never    *)
(* written (Blank) is counted behind it, as long as it is the last one;    *)
(* and when it is not, the row behind it is overwritten.  An append that   *)
(* fails, or that a restart cuts short, may leave a Blank.                 *)
(***************************************************************************)
EXTENDS Naturals, Sequences

CONSTANTS
    Values,     \* what a row can hold, the deletion mark included
    Blank,      \* a row that is counted and was never written
    RowLimit    \* the most rows a table may count

VARIABLES
    rows,       \* the table as the client sees it
    pointer,    \* how many rows lie before the one to be fetched
    held,       \* the Row the client holds
    asked,      \* the call it is in
    result      \* what the last write returned to it

tableVars == <<rows, pointer, held, asked, result>>

NoRow == [number |-> 0, fetched |-> FALSE, val |-> Blank]
NewRow(v) == [number |-> Len(rows) + 1, fetched |-> FALSE, val |-> v]
FetchedRow(i, v) == [number |-> i, fetched |-> TRUE, val |-> v]

Init ==
    /\ rows \in Seq(Values) /\ Len(rows) <= RowLimit
    /\ pointer = 0
    /\ held = NoRow \/ \E i \in 1..Len(rows), v \in Values : held = FetchedRow(i, v)
    /\ asked = "nothing"
    /\ result = "none"

-----------------------------------------------------------------------------
(* The client *)

Make(v) == held' = NewRow(v) /\ asked' = "nothing"
Add(v) == held' = NewRow(v) /\ asked' = "write"
Write(v) == held # NoRow /\ held' = [held EXCEPT !.val = v] /\ asked' = "write"
FromMap(v) == held' = NewRow(v) /\ asked' = "map"
Fetch == pointer < Len(rows) /\ asked' = "fetch" /\ UNCHANGED held

Ask ==
    /\ asked = "nothing"
    /\ Fetch \/ \E v \in Values : Make(v) \/ Add(v) \/ Write(v) \/ FromMap(v)
    /\ UNCHANGED <<rows, pointer, result>>

GoTo(i) ==
    /\ asked = "nothing"
    /\ pointer' = IF i > Len(rows) THEN Len(rows) ELSE i
    /\ UNCHANGED <<rows, held, asked, result>>

-----------------------------------------------------------------------------
(* The table *)

AppendRow ==
    /\ ~held.fetched /\ held.number = Len(rows) + 1 /\ Len(rows) < RowLimit
    /\ rows' = Append(rows, held.val)

ReplaceRow ==
    /\ held.fetched
    /\ rows' = [rows EXCEPT ![held.number] = held.val]

\* The last row is a row that was added: written again it is counted again.
RewriteLastRow ==
    /\ ~held.fetched /\ held.number = Len(rows) /\ Len(rows) < RowLimit
    /\ rows' = Append([rows EXCEPT ![held.number] = held.val], Blank)

\* A row that was added and is no more the last: the one behind it is written.
RewriteEarlierRow ==
    /\ ~held.fetched /\ held.number < Len(rows)
    /\ rows' = [rows EXCEPT ![held.number + 1] = held.val]

Store ==
    /\ asked = "write"
    /\ AppendRow \/ ReplaceRow \/ RewriteLastRow \/ RewriteEarlierRow
    /\ asked' = "nothing" /\ result' = "ok"
    /\ UNCHANGED <<pointer, held>>

\* The row is counted before it is written.
Counts == asked = "write" /\ ~held.fetched /\ held.number >= Len(rows)
CountBlank == Counts /\ Len(rows) < RowLimit /\ rows' = Append(rows, Blank)

\* A write that fails leaves the table alone, or with one more blank row.
StoreFails ==
    /\ asked = "write"
    /\ rows' = rows \/ CountBlank
    /\ asked' = "nothing" /\ result' = "error"
    /\ UNCHANGED <<pointer, held>>

\* The row at the pointer is fetched; a blank one is none.
Fetched ==
    /\ asked = "fetch" /\ rows[pointer + 1] # Blank
    /\ held' = FetchedRow(pointer + 1, rows[pointer + 1])
    /\ asked' = "nothing"
    /\ UNCHANGED <<rows, pointer, result>>

\* A row is made from a map, or none is; a fetch may fail.
Return ==
    /\ \/ asked = "fetch" /\ UNCHANGED held
       \/ asked = "map" /\ (UNCHANGED held \/ held' = NoRow)
    /\ asked' = "nothing"
    /\ UNCHANGED <<rows, pointer, result>>

\* The program dies and opens the file again: it may find the blank row of
\* the write it was in, and blank rows at the end may be gone.
Reopen ==
    /\ \/ CountBlank
       \/ \E k \in 0..Len(rows) :
             /\ \A i \in k+1..Len(rows) : rows[i] = Blank
             /\ rows' = SubSeq(rows, 1, k)
    /\ pointer' = 0 /\ held' = NoRow /\ asked' = "nothing" /\ result' = "none"

Next ==
    \/ Ask \/ \E i \in 0..RowLimit : GoTo(i)
    \/ Store \/ StoreFails \/ Fetched \/ Return
    \/ Reopen

Spec == Init /\ [][Next]_tableVars
=============================================================================
