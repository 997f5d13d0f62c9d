----------------------------- MODULE Navigation -----------------------------
(***************************************************************************)
(* The row pointer of an open table and the calls that move it: GoTo,      *)
(* Skip, Next, the loop of Rows and the scan of Search, used by one        *)
(* goroutine while another appends rows.  Both seek on the same handle, so *)
(* that a Seek of the one may come between the Seek of the other and its   *)
(* Read or Write.  A Read that is displaced comes back with what another   *)
(* place of the file holds, and a Write that is displaced lands there.     *)
(* Any call may fail.  The pointer is a uint32; rows are numbered from 0.  *)
(***************************************************************************)
EXTENDS Integers, Sequences, SequencesExt

CONSTANTS
    RowLimit,       \* bound: rows of the table
    Contents,       \* what a row may hold: its state, and whether the value
                    \* that Search looks for occurs in its field
    Offsets,        \* what Skip is called with
    Word32          \* 2^32

ASSUME ContentsAssumption ==
    Contents \subseteq [state : {"active", "deleted", "invalid", "unwritten"}, match : BOOLEAN]

ASSUME BoundsAssumption ==
    RowLimit \in Nat /\ Offsets \subseteq Int /\ Word32 \in Nat /\ RowLimit < Word32

VARIABLES
    rows,           \* the rows of the table; Len(rows) is header.RowsCount
    rowPointer,     \* file.table.rowPointer
    offset,         \* who moved the offset of the handle last
    pc,             \* the loop the goroutine is in, and what it has sought
    skipInvalid, skipDeleted,   \* the arguments of Rows while it runs
    at,             \* the loop counter of Search
    returned,       \* the rows a loop has collected, by the position they carry
    appender,       \* where the other goroutine is in WriteRow
    start,          \* history: the pointer when Rows began
    missed,         \* history: the rows the loop could not read
    displaced,      \* history: the rows for which it was given other bytes
    astray          \* history: a displaced write fell into the loop

loop == <<pc, skipInvalid, skipDeleted, at, start, missed, displaced, returned>>
vars == <<rows, rowPointer, offset, loop, appender, astray>>
options == <<skipInvalid, skipDeleted>>

\* BytesToRow refuses an invalid row: no delete flag, or a field that does not
\* convert.  An unwritten row is counted and not stored.
Unwritten == {r \in Contents : r.state = "unwritten"}
RowStates == Contents \ Unwritten

RowsCount == Len(rows)
RowAt(i) == rows[i + 1]
IsStored(i) == RowAt(i).state # "unwritten"

\* The file ends with the last row that was stored; an unwritten row before it
\* reads as zeros, which BytesToRow refuses.
InFile(i) == \E j \in i..RowsCount-1 : IsStored(j)
Converts(i) == RowAt(i).state \in {"active", "deleted"}

EOF == rowPointer >= RowsCount

\* In Search a row is looked into and, when it holds the value, fetched.
InRowsLoop == pc \in {"rows", "rowsRead"}
Fetching == pc \in {"fetch", "fetchRead"}
InSearchLoop == pc \in {"search", "searchRead"} \/ Fetching

TypeOK ==
    /\ rows \in Seq(Contents) /\ RowsCount <= RowLimit
    /\ rowPointer \in 0..Word32-1
    /\ offset \in {"loop", "append"}
    /\ pc = "idle" \/ InRowsLoop \/ InSearchLoop
    /\ skipInvalid \in BOOLEAN /\ skipDeleted \in BOOLEAN
    /\ at \in 0..RowLimit
    /\ start \in 0..Word32-1
    /\ missed \subseteq 0..RowLimit-1 /\ displaced \subseteq 0..RowLimit-1
    /\ returned \in Seq(0..RowLimit-1)
    /\ appender \in {"none", "counted", "header", "written", "row"}
    /\ astray \in BOOLEAN

Init ==
    /\ rows \in BoundedSeq(RowStates, RowLimit)
    /\ rowPointer = 0
    /\ offset = "loop"
    /\ pc = "idle"
    /\ skipInvalid = FALSE /\ skipDeleted = FALSE
    /\ at = 0 /\ start = 0 /\ missed = {} /\ displaced = {}
    /\ returned = <<>>
    /\ appender = "none"
    /\ astray = FALSE

-----------------------------------------------------------------------------

GoTo(i) ==
    /\ pc = "idle"
    /\ rowPointer' = IF i > RowsCount THEN RowsCount ELSE i
    /\ UNCHANGED <<rows, offset, loop, appender, astray>>

\* Mutant: the sum is kept as it is, without the conversion to uint32.
Unconverted(by) == rowPointer + by

\* The clamped pointers Skip assigns first are overwritten: what stays is the
\* sum, converted to uint32.
Skipped(by) == (rowPointer + by) % Word32

Skip(by) ==
    /\ pc = "idle"
    /\ rowPointer' = Skipped(by)
    /\ UNCHANGED <<rows, offset, loop, appender, astray>>

\* Next moves on whether there was a row to read or not; what it reads is not
\* followed, but its Seek moves the offset.
NextRow ==
    /\ pc = "idle"
    /\ rowPointer' = Skipped(1)
    /\ offset' \in {offset} \cup (IF EOF THEN {} ELSE {"loop"})
    /\ UNCHANGED <<rows, loop, appender, astray>>

\* The history of a loop starts anew, but for an append that is under way.
LoopBegins ==
    /\ pc = "idle"
    /\ astray' = (astray /\ appender # "none")
    /\ at' = 0 /\ missed' = {} /\ displaced' = {}
    /\ returned' = <<>>
    /\ UNCHANGED <<rows, rowPointer, offset, appender>>

BeginRows(invalid, deleted) ==
    /\ LoopBegins
    /\ pc' = "rows"
    /\ skipInvalid' = invalid /\ skipDeleted' = deleted
    /\ start' = rowPointer

\* Mutant: deleted rows are kept whatever the caller asked for.
KeepsDeleted(i) == Converts(i)

KeepsRow(i) == Converts(i) /\ (skipDeleted => RowAt(i).state # "deleted")

\* Mutant: an invalid row is skipped before the pointer moves past it.
StuckAtInvalid == IF Converts(rowPointer) THEN Skipped(1) ELSE rowPointer

PointerAfterNext == Skipped(1)

\* One turn of Rows is a call of Next: ReadRow seeks to the row ...
RowsSeek ==
    /\ pc = "rows" /\ ~EOF
    /\ pc' = "rowsRead"
    /\ offset' = "loop"
    /\ UNCHANGED <<rows, rowPointer, options, at, start, missed, displaced, returned,
                   appender, astray>>

\* ... and reads it, BytesToRow gives it the position of the pointer, and Rows
\* keeps it or not.
RowsRead ==
    /\ pc = "rowsRead" /\ pc' = "rows"
    /\ \/ /\ offset = "loop" /\ Converts(rowPointer)
          /\ returned' = IF KeepsRow(rowPointer) THEN Append(returned, rowPointer) ELSE returned
          /\ UNCHANGED displaced
       \/ /\ offset # "loop"
          /\ returned' \in {returned, Append(returned, rowPointer)}
          /\ displaced' = displaced \cup {rowPointer}
    /\ offset' = "loop"
    /\ rowPointer' = PointerAfterNext
    /\ UNCHANGED <<rows, options, at, start, missed, appender, astray>>

\* Mutant: the loop goes on after every error.
GoesOnAlways == TRUE

GoesOn == skipInvalid

\* A Read that fails has moved the offset or not.
FailsAfterSeek(sought) == offset' \in {offset} \cup (IF sought THEN {"loop"} ELSE {})

LoopForgotten ==
    /\ pc' = "idle"
    /\ skipInvalid' = FALSE /\ skipDeleted' = FALSE
    /\ at' = 0 /\ start' = 0 /\ missed' = {} /\ displaced' = {}
    /\ returned' = <<>>

\* Next returns an error when it cannot seek or read, or when the bytes do not
\* convert.  Rows goes on, or drops the rows collected so far and ends.
RowsError ==
    /\ pc = "rowsRead" \/ (pc = "rows" /\ ~EOF)
    /\ FailsAfterSeek(pc = "rowsRead")
    /\ rowPointer' = PointerAfterNext
    /\ \/ GoesOn /\ pc' = "rows" /\ missed' = missed \cup {rowPointer}
          /\ UNCHANGED <<options, at, start, displaced, returned>>
       \/ ~GoesOn /\ LoopForgotten
    /\ UNCHANGED <<rows, appender, astray>>

RowsReturns ==
    /\ pc = "rows" /\ EOF
    /\ LoopForgotten
    /\ UNCHANGED <<rows, rowPointer, offset, appender, astray>>

BeginSearch ==
    /\ LoopBegins
    /\ pc' = "search"
    /\ UNCHANGED <<options, start>>

\* Mutant: the scan ends one row early.
SearchEndsEarly == at + 1 >= RowsCount

SearchEnds == at >= RowsCount

\* Search seeks to the field of a row, and File.Row to a row it has found.
SearchSeek ==
    /\ \/ pc = "search" /\ ~SearchEnds /\ pc' = "searchRead"
       \/ pc = "fetch" /\ pc' = "fetchRead"
    /\ offset' = "loop"
    /\ UNCHANGED <<rows, rowPointer, options, at, start, missed, displaced, returned,
                   appender, astray>>

\* The field is read: a row that holds the value is gone to.
SearchRead ==
    /\ pc = "searchRead"
    /\ \E match \in BOOLEAN :
        /\ \/ /\ offset = "loop" /\ InFile(at) /\ match = RowAt(at).match
              /\ UNCHANGED displaced
           \/ /\ offset # "loop"
              /\ displaced' = displaced \cup {at}
        /\ pc' = IF match THEN "fetch" ELSE "search"
        /\ rowPointer' = IF match THEN at ELSE rowPointer
        /\ at' = IF match THEN at ELSE at + 1
    /\ offset' = "loop"
    /\ UNCHANGED <<rows, options, start, missed, returned, appender, astray>>

\* The row is read, deleted or not; one that does not convert is left out.
FetchRead ==
    /\ pc = "fetchRead" /\ pc' = "search"
    /\ \/ /\ offset = "loop"
          /\ returned' = IF Converts(at) THEN Append(returned, at) ELSE returned
          /\ UNCHANGED displaced
       \/ /\ offset # "loop"
          /\ returned' \in {returned, Append(returned, at)}
          /\ displaced' = displaced \cup {at}
    /\ offset' = "loop"
    /\ at' = at + 1
    /\ UNCHANGED <<rows, rowPointer, options, start, missed, appender, astray>>

\* Search cannot seek to the field or read it, or File.Row to the row: the row
\* is left out without an error.
SearchMisses ==
    /\ pc = "searchRead" \/ Fetching \/ (pc = "search" /\ ~SearchEnds)
    /\ pc' = "search"
    /\ FailsAfterSeek(pc \in {"searchRead", "fetchRead"})
    /\ missed' = missed \cup {at}
    /\ at' = at + 1
    /\ UNCHANGED <<rows, rowPointer, options, start, displaced, returned, appender, astray>>

SearchReturns ==
    /\ pc = "search" /\ SearchEnds
    /\ LoopForgotten
    /\ UNCHANGED <<rows, rowPointer, offset, appender, astray>>

-----------------------------------------------------------------------------
(* The other goroutine's WriteRow, which holds dbaseMutex throughout *)

CountRow(r) ==
    /\ appender = "none" /\ appender' = "counted"
    /\ RowsCount < RowLimit
    /\ rows' = Append(rows, r)
    /\ UNCHANGED <<rowPointer, offset, loop, astray>>

\* WriteHeader seeks to the header, WriteRow to the place of the row.
AppendSeek ==
    /\ \/ appender = "counted" /\ appender' = "header"
       \/ appender = "written" /\ appender' = "row"
    /\ offset' = "append"
    /\ UNCHANGED <<rows, rowPointer, loop, astray>>

HeaderWrite ==
    /\ appender = "header" /\ appender' = "written"
    /\ offset = "append"
    /\ UNCHANGED <<rows, rowPointer, offset, loop, astray>>

\* When WriteRow fails before this the row stays counted and unwritten.
StoreRow(r) ==
    /\ appender = "row" /\ appender' = "none"
    /\ offset = "append"
    /\ rows' = [rows EXCEPT ![RowsCount] = r]
    /\ UNCHANGED <<rowPointer, offset, loop, astray>>

\* The header or the row is written where the loop left the offset, in part or
\* all of it: whatever rows it falls on may be any bytes now.
WriteAstray ==
    /\ \/ appender = "header" /\ appender' \in {"written", "none"}
       \/ appender = "row" /\ appender' = "none"
    /\ offset = "loop" /\ offset' = "append"
    /\ rows' \in {s \in [DOMAIN rows -> Contents] :
                     \A i \in DOMAIN rows : s[i] = rows[i] \/ s[i] \in RowStates}
    /\ astray' = TRUE
    /\ UNCHANGED <<rowPointer, loop>>

AppendFails ==
    /\ appender # "none" /\ appender' = "none"
    /\ UNCHANGED <<rows, rowPointer, offset, loop, astray>>

-----------------------------------------------------------------------------

Turn ==
    \/ RowsSeek \/ RowsRead \/ RowsError \/ RowsReturns
    \/ SearchSeek \/ SearchRead \/ FetchRead \/ SearchMisses \/ SearchReturns

Appends ==
    \/ \E r \in Unwritten : CountRow(r)
    \/ AppendSeek
    \/ HeaderWrite
    \/ \E r \in RowStates : StoreRow(r)
    \/ WriteAstray
    \/ AppendFails

Next ==
    \/ \E i \in 0..RowLimit+1 : GoTo(i)
    \/ \E by \in Offsets : Skip(by)
    \/ NextRow
    \/ \E invalid, deleted \in BOOLEAN : BeginRows(invalid, deleted)
    \/ BeginSearch
    \/ Turn
    \/ Appends

Spec == Init /\ [][Next]_vars

\* A goroutine that is in a loop keeps running.
FairSpec == Spec /\ WF_vars(Turn)

-----------------------------------------------------------------------------
(* Properties *)

WasRead(i) == i \notin missed \cup displaced
IsWanted(i) == WasRead(i) /\ Converts(i) /\ (skipDeleted => RowAt(i).state = "active")
Wanted(from, to) == {i \in from..to-1 : IsWanted(i)}
IsHit(i) == WasRead(i) /\ Converts(i) /\ RowAt(i).match
Hits(to) == {i \in 0..to-1 : IsHit(i)}

\* The loop returns rows by ascending position, each once, and none it could
\* not read.  Unless a displaced write has changed rows under it, they are the
\* rows due, and of the others none but those it was given other bytes for.
Collects(due, from, to) ==
    /\ \A j, k \in DOMAIN returned : j < k => returned[j] < returned[k]
    /\ ToSet(returned) \subseteq (from..to-1) \ missed
    /\ ~astray => /\ due \subseteq ToSet(returned)
                  /\ ToSet(returned) \subseteq due \cup displaced

\* While Rows runs it has collected the rows it should keep between the pointer
\* it began at and the pointer now, in order and each once, although rows are
\* appended meanwhile; a row whose read failed is missing only when the caller
\* asked to skip it, and only a displaced read costs or adds a row in silence.
RowsCollectsInOrder ==
    InRowsLoop =>
        /\ rowPointer >= start
        /\ Collects(Wanted(start, rowPointer), start, rowPointer)
        /\ ~skipInvalid => missed = {}

\* When Rows returns rows it has gone over every row the table has by then.
\* Without skipInvalid each of them was stored and did convert, unless its read
\* was displaced: a row that is counted but not yet written is never left out
\* silently.
RowsReachesTheEnd ==
    [][ RowsReturns /\ start <= RowsCount =>
            /\ Collects(Wanted(start, RowsCount), start, RowsCount)
            /\ ~skipInvalid /\ ~astray =>
                    \A i \in start..RowsCount-1 : i \in displaced \/ Converts(i) ]_vars

\* Search returns the rows that hold the value, in order and each once, but for
\* those whose read failed or was displaced.
SearchFindsAll ==
    [][ SearchReturns => Collects(Hits(RowsCount), 0, RowsCount) ]_vars

\* Rows and Search return, although the table grows while they run.
EveryLoopReturns == pc # "idle" ~> pc = "idle"

\* The pointer is on a row or just behind the last one.
PointerStaysInTable == rowPointer <= RowsCount
=============================================================================
