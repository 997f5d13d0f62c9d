---------------------------- MODULE RowIncrement ----------------------------
(***************************************************************************)
(* RowStore with the autoincrement column: Increment, which RowFromMap     *)
(* calls, gives the row the column's Next value, raises Next in memory and *)
(* writes the columns.  OpenTable takes Next from the file again, so what  *)
(* keeps a value from being given twice is the order of these writes.      *)
(*                                                                         *)
(* Increment reads and raises Next without a mutex.  Here that is one      *)
(* step: the module is about one goroutine, its failures and its restarts. *)
(***************************************************************************)
EXTENDS RowStore

CONSTANTS
    Step,       \* Column.Step
    NoValue,    \* a row that was made by NewRow has no autoincrement value
    MaxNext     \* bound: the largest Next

ASSUME StepAssumption ==
    /\ Step \in Nat \ {0} /\ MaxNext \in Nat /\ NoValue \notin Nat
    /\ Cardinality(Procs) = 1

VARIABLES
    next,       \* Column.Next in memory
    diskNext,   \* Next in the column descriptor of the file
    value,      \* the autoincrement field of the row each goroutine holds
    stored      \* the autoincrement field of the row in each slot

incrementVars == <<next, diskNext, value, stored>>
allVars == <<vars, incrementVars>>

Slots == 0..RowLimit

IncrementInit ==
    /\ Init
    /\ next = StartRows * Step
    /\ diskNext = next
    /\ stored = [s \in Slots |-> IF s < StartRows THEN s * Step ELSE NoValue]
    /\ value = [p \in Procs |->
                  IF row[p].from = "stored" THEN stored[row[p].pos] ELSE NoValue]

-----------------------------------------------------------------------------
\* NewRow leaves every field empty.
MakeEmptyRow(p, v) ==
    /\ MakeRow(p, v)
    /\ value' = [value EXCEPT ![p] = NoValue]
    /\ UNCHANGED <<next, diskNext, stored>>

\* Row.Add of a new row, of a row from a map or of any row once more.
AddHeldRow(p, v) ==
    /\ AddRow(p, v)
    /\ value' = value \/ value' = [value EXCEPT ![p] = NoValue]
    /\ UNCHANGED <<next, diskNext, stored>>

\* RowFromMap up to WriteColumns.
RowFromMap(p, v) ==
    /\ next + Step <= MaxNext
    /\ MapRow(p, v)
    /\ value' = [value EXCEPT ![p] = next]
    /\ next' = next + Step
    /\ UNCHANGED <<diskNext, stored>>

IncrementWritten(p) ==
    /\ ColumnsWrite(p)
    /\ diskNext' = next
    /\ UNCHANGED <<next, value, stored>>

\* WriteColumns writes the descriptors and then their end: it can fail before
\* and after Next is in the file.  Next stays raised in memory.
CallFails(p) ==
    /\ FetchFails(p)
    /\ diskNext' \in IF pc[p] = "columnsWrite" THEN {diskNext, next} ELSE {diskNext}
    /\ value' = IF row'[p].from = "none" THEN [value EXCEPT ![p] = NoValue] ELSE value
    /\ UNCHANGED <<next, stored>>

StoreValue(p) ==
    /\ RowWrite(p)
    /\ stored' = [stored EXCEPT ![target[p].slot] = value[p]]
    /\ UNCHANGED <<next, diskNext, value>>

FetchValue(p) ==
    /\ ReadTransfer(p)
    /\ value' = IF AtOffset.kind = "row"
                THEN [value EXCEPT ![p] = stored[target[p].slot]] ELSE value
    /\ UNCHANGED <<next, diskNext, stored>>

\* Mutant: the opened table counts on from its rows.
NextOfRows == DiskCount * Step

NextOnOpen == diskNext

ReopenColumns ==
    /\ Restart
    /\ next' = NextOnOpen
    /\ value' = [p \in Procs |-> NoValue]
    /\ UNCHANGED <<diskNext, stored>>

\* What a goroutine does to the row it holds without touching Next.
OtherSteps(p) ==
    /\ \/ \E v \in Values : WriteRow(p, v)
       \/ \E i \in 0..RowLimit : GoTo(p, i)
       \/ ReadSeek(p)
       \/ BeginWrite(p) \/ RefuseWrite(p) \/ ConversionFails(p)
       \/ HeaderSeek(p) \/ HeaderWrite(p) \/ RowSeek(p) \/ WriteFails(p)
       \/ ColumnsSeek(p)
    /\ UNCHANGED incrementVars

IncrementNext ==
    \/ \E p \in Procs :
          \/ \E v \in Values :
                MakeEmptyRow(p, v) \/ AddHeldRow(p, v) \/ RowFromMap(p, v)
          \/ IncrementWritten(p) \/ CallFails(p)
          \/ StoreValue(p) \/ FetchValue(p) \/ OtherSteps(p)
    \/ ReopenColumns

IncrementSpec == IncrementInit /\ [][IncrementNext]_allVars

-----------------------------------------------------------------------------
\* No value that Increment will give, in this program or after a restart, is
\* in a row of the file or in one the client can still store: a row leaves
\* RowFromMap only when the raised Next is in the file.
ValuesAreFresh ==
    LET held == {value[p] : p \in {q \in Procs : pc[q] \in {"idle", "begin"} \cup InWrite
                                                  /\ row[q].from # "none"}}
    IN  \A v \in ({stored[s] : s \in Slots} \cup held) \ {NoValue} :
            v < next /\ v < diskNext
=============================================================================
