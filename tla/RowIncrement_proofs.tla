------------------------- MODULE RowIncrement_proofs -------------------------
(***************************************************************************)
(* The autoincrement column of a table that one goroutine uses, for any    *)
(* step and any number of rows, failures and restarts: no value is given   *)
(* twice, and what RowStore_proofs proves of the table holds with it.      *)
(***************************************************************************)
EXTENDS RowIncrement, RowStore_proofs

-----------------------------------------------------------------------------

\* RowFromMap has raised Next in memory and not yet in the file.
InColumns == {"columnsSeek", "columnsWrite"}

IncrementTypes ==
    /\ next \in Nat /\ diskNext \in Nat
    /\ value \in [Procs -> Nat \cup {NoValue}]
    /\ stored \in [Slots -> Nat \cup {NoValue}]

\* Who is inside a call without the mutex may make such calls, and a fetch reads
\* a slot of the table.
FetchesInSlots ==
    \A p \in Procs : /\ pc[p] \in Unguarded => p \in Unlocked
                     /\ pc[p] = "rowRead" => target[p].slot \in Slots

\* A value is below Next in memory, and unless the goroutine is still inside
\* RowFromMap also below the one in the file; a goroutine without a row has none.
StoredFresh ==
    \A s \in Slots : stored[s] # NoValue => stored[s] < next /\ stored[s] < diskNext

HeldFresh ==
    \A p \in Procs : value[p] # NoValue =>
        /\ row[p].from # "none"
        /\ value[p] < next
        /\ pc[p] \notin InColumns => value[p] < diskNext

FreshInv == TypeInv /\ IncrementTypes /\ FetchesInSlots /\ StoredFresh /\ HeldFresh

LEMMA InitFresh == IncrementInit => FreshInv
<1> SUFFICES ASSUME IncrementInit PROVE FreshInv
  OBVIOUS
<1> USE StepAssumption, RowsAssumption DEF IncrementInit, Slots
<1>1. TypeInv
  BY InitTypes
<1>2. \A n \in Nat : n * Step \in Nat
  OBVIOUS
<1>3. StartRows \in Nat /\ next = StartRows * Step /\ diskNext = next /\ next \in Nat
  BY <1>2
<1>4. \A s \in Nat : s < StartRows => s * Step < StartRows * Step
  <2> SUFFICES ASSUME NEW s \in Nat, s < StartRows PROVE s * Step < StartRows * Step
    OBVIOUS
  <2>1. StartRows * Step = s * Step + Step + (StartRows - s - 1) * Step
    BY <1>3
  <2>2. s * Step \in Nat /\ (StartRows - s - 1) * Step \in Nat
    BY <1>2, <1>3
  <2> QED
    BY <2>1, <2>2
<1>5. \A s \in Slots : IF s < StartRows THEN stored[s] = s * Step /\ stored[s] \in Nat /\ stored[s] < next
                       ELSE stored[s] = NoValue
  BY <1>2, <1>3, <1>4
<1>6. stored \in [Slots -> Nat \cup {NoValue}]
  BY <1>2
<1>7. ASSUME NEW p \in Procs
      PROVE  IF row[p].from = "stored" THEN value[p] \in Nat /\ value[p] < next
             ELSE value[p] = NoValue
  <2>1. row[p].from = "stored" => value[p] = stored[row[p].pos]
    OBVIOUS
  <2>2. row[p].from = "stored" => row[p].pos \in 0..StartRows-1
    BY DEF Init
  <2> QED
    BY <1>3, <1>5, <2>1, <2>2
<1>8. value \in [Procs -> Nat \cup {NoValue}]
  BY <1>7
<1>9. FetchesInSlots
  BY DEF Init, FetchesInSlots, Unguarded
<1>10. StoredFresh /\ HeldFresh
  BY <1>3, <1>5, <1>7 DEF StoredFresh, HeldFresh
<1> QED
  BY <1>1, <1>3, <1>6, <1>8, <1>9, <1>10 DEF FreshInv, IncrementTypes

\* Every step of the table with its column is a step of the table.
LEMMA TableMovesToo == FreshInv /\ [IncrementNext]_allVars => [Next]_vars
<1> SUFFICES ASSUME FreshInv, [IncrementNext]_allVars PROVE [Next]_vars
  OBVIOUS
<1>1. ASSUME NEW p \in Procs, NEW v \in Values,
             MakeEmptyRow(p, v) \/ AddHeldRow(p, v) \/ RowFromMap(p, v)
      PROVE  Next
  <2>1. StoreCall(p) \/ (p \in Unlocked /\ FetchCall(p))
    BY <1>1 DEF MakeEmptyRow, AddHeldRow, RowFromMap, StoreCall, FetchCall, MapRow
  <2> QED
    BY <2>1 DEF Next
<1>2. ASSUME NEW p \in Procs,
             IncrementWritten(p) \/ CallFails(p) \/ StoreValue(p) \/ FetchValue(p)
      PROVE  Next
  <2>1. CASE StoreValue(p)
    BY <2>1 DEF StoreValue, StoreStep, Next
  <2>2. CASE IncrementWritten(p) \/ CallFails(p) \/ FetchValue(p)
    <3>1. FetchStep(p) \/ FetchFails(p)
      BY <2>2 DEF IncrementWritten, CallFails, FetchValue, FetchStep
    <3>2. p \in Unlocked
      BY <3>1 DEF FetchStep, FetchFails, ReadTransfer, ColumnsSeek, ColumnsWrite, Goto,
                  FreshInv, FetchesInSlots, Unguarded
    <3> QED
      BY <3>1, <3>2 DEF Next
  <2> QED
    BY <1>2, <2>1, <2>2
<1>3. ASSUME NEW p \in Procs, OtherSteps(p) PROVE Next
  <2>1. CASE ColumnsSeek(p)
    <3>1. p \in Unlocked
      BY <2>1 DEF ColumnsSeek, Goto, FreshInv, FetchesInSlots, Unguarded
    <3> QED
      BY <2>1, <3>1 DEF FetchStep, Next
  <2>2. CASE ReadSeek(p) \/ \E i \in 0..RowLimit : GoTo(p, i)
    <3>1. p \in Unlocked
      BY <2>2 DEF ReadSeek, GoTo
    <3> QED
      BY <2>2, <3>1 DEF FetchCall, Next
  <2>3. StoreCall(p) \/ StoreStep(p) \/ WriteFails(p) \/ ColumnsSeek(p)
        \/ ReadSeek(p) \/ \E i \in 0..RowLimit : GoTo(p, i)
    BY <1>3 DEF OtherSteps, StoreCall, StoreStep
  <2> QED
    BY <2>1, <2>2, <2>3 DEF Next
<1>4. CASE ReopenColumns
  BY <1>4 DEF ReopenColumns, Next
<1>5. CASE UNCHANGED allVars
  BY <1>5 DEF allVars
<1> QED
  BY <1>1, <1>2, <1>3, <1>4, <1>5 DEF IncrementNext

LEMMA FreshStep == FreshInv /\ [IncrementNext]_allVars => FreshInv'
<1> SUFFICES ASSUME FreshInv, [IncrementNext]_allVars PROVE FreshInv'
  OBVIOUS
<1> USE StepAssumption, RowsAssumption DEF FreshInv
<1>1. TypeInv' /\ TypeOK /\ TypeOK'
  BY TableMovesToo, TypeInvStep DEF TypeInv
<1> USE <1>1 DEF TypeOK, IncrementTypes
<1>2. ASSUME NEW p \in Procs, NEW v \in Values, MakeEmptyRow(p, v) \/ AddHeldRow(p, v)
      PROVE  FreshInv'
  <2>1. /\ UNCHANGED <<next, diskNext, stored, target>> /\ pc[p] = "idle"
        /\ pc'[p] \in {"idle", "begin"} /\ \A q \in Procs \ {p} : pc'[q] = pc[q] /\ row'[q] = row[q]
        /\ row'[p].from = "new"
    BY <1>2 DEF MakeEmptyRow, AddHeldRow, MakeRow, AddRow, NewRow, Goto
  <2>2. /\ value' \in [Procs -> Nat \cup {NoValue}]
        /\ \A q \in Procs : value'[q] \in {value[q], NoValue}
    BY <1>2 DEF MakeEmptyRow, AddHeldRow
  <2>3. FetchesInSlots' /\ StoredFresh'
    BY <2>1 DEF FetchesInSlots, Unguarded, StoredFresh
  <2>4. HeldFresh'
    BY <2>1, <2>2 DEF HeldFresh, InColumns
  <2> QED
    BY <2>1, <2>2, <2>3, <2>4
<1>3. ASSUME NEW p \in Procs, NEW v \in Values, RowFromMap(p, v) PROVE FreshInv'
  <2>1. /\ UNCHANGED <<diskNext, stored, target>> /\ next' = next + Step
        /\ pc'[p] = "columnsSeek" /\ \A q \in Procs \ {p} : pc'[q] = pc[q] /\ row'[q] = row[q]
        /\ row'[p].from = "new" /\ p \in Unlocked /\ value' = [value EXCEPT ![p] = next]
    BY <1>3 DEF RowFromMap, MapRow, NewRow, Goto
  <2>2. next' \in Nat /\ next < next'
    BY <2>1
  <2>3. FetchesInSlots' /\ StoredFresh'
    BY <2>1, <2>2 DEF FetchesInSlots, Unguarded, StoredFresh
  <2>4. HeldFresh'
    BY <2>1, <2>2 DEF HeldFresh, InColumns
  <2> QED
    BY <2>1, <2>2, <2>3, <2>4
<1>4. ASSUME NEW p \in Procs, IncrementWritten(p) PROVE FreshInv'
  <2>1. /\ UNCHANGED <<next, stored, value, row, target>> /\ diskNext' = next
        /\ pc'[p] = "idle" /\ \A q \in Procs \ {p} : pc'[q] = pc[q]
    BY <1>4 DEF IncrementWritten, ColumnsWrite, Goto
  <2>2. FetchesInSlots' /\ StoredFresh' /\ HeldFresh'
    BY <2>1 DEF FetchesInSlots, Unguarded, StoredFresh, HeldFresh
  <2> QED
    BY <2>1, <2>2
<1>5. ASSUME NEW p \in Procs, CallFails(p) PROVE FreshInv'
  <2>1. /\ UNCHANGED <<next, stored, target>> /\ diskNext' \in {diskNext, next}
        /\ pc[p] \in Unguarded
        /\ pc'[p] = "idle" /\ \A q \in Procs \ {p} : pc'[q] = pc[q] /\ row'[q] = row[q]
    BY <1>5 DEF CallFails, FetchFails, Unguarded
  <2>2. IF pc[p] = "rowRead" THEN row' = row ELSE row'[p].from = "none"
    BY <1>5 DEF CallFails, FetchFails, RowRecords
  <2>3. value' = IF row'[p].from = "none" THEN [value EXCEPT ![p] = NoValue] ELSE value
    BY <1>5 DEF CallFails
  <2>4. FetchesInSlots' /\ StoredFresh'
    BY <2>1 DEF FetchesInSlots, Unguarded, StoredFresh
  <2>5. HeldFresh'
    BY <2>1, <2>2, <2>3 DEF HeldFresh, InColumns
  <2> QED
    BY <2>1, <2>3, <2>4, <2>5
<1>6. ASSUME NEW p \in Procs, StoreValue(p) PROVE FreshInv'
  <2>1. /\ UNCHANGED <<next, diskNext, value, row, target>>
        /\ pc[p] = "rowWrite" /\ pc'[p] = "idle" /\ \A q \in Procs \ {p} : pc'[q] = pc[q]
        /\ stored' = [stored EXCEPT ![target[p].slot] = value[p]]
    BY <1>6 DEF StoreValue, RowWrite, Goto
  <2>2. FetchesInSlots' /\ StoredFresh' /\ HeldFresh'
    BY <2>1 DEF FetchesInSlots, Unguarded, StoredFresh, HeldFresh, InColumns
  <2> QED
    BY <2>1, <2>2
<1>7. ASSUME NEW p \in Procs, FetchValue(p) PROVE FreshInv'
  <2>1. /\ UNCHANGED <<next, diskNext, stored, target>>
        /\ pc[p] = "rowRead" /\ pc'[p] = "idle"
        /\ \A q \in Procs \ {p} : pc'[q] = pc[q] /\ row'[q] = row[q]
    BY <1>7 DEF FetchValue, ReadTransfer, Goto
  <2>2. \/ row' = row /\ value' = value
        \/ /\ row'[p].from = "stored" /\ target[p].slot \in Slots
           /\ value' = [value EXCEPT ![p] = stored[target[p].slot]]
    BY <1>7, <2>1 DEF FetchValue, ReadTransfer, FetchesInSlots
  <2>3. FetchesInSlots' /\ StoredFresh'
    BY <2>1 DEF FetchesInSlots, Unguarded, StoredFresh
  <2>4. HeldFresh'
    BY <2>1, <2>2 DEF HeldFresh, StoredFresh, InColumns
  <2> QED
    BY <2>1, <2>2, <2>3, <2>4
<1>8. ASSUME NEW p \in Procs, OtherSteps(p) PROVE FreshInv'
  <2> USE <1>8 DEF OtherSteps, WriteRow, GoTo, ReadSeek, BeginWrite, RefuseWrite,
          ConversionFails, HeaderSeek, HeaderWrite, RowSeek, WriteFails, ColumnsSeek, Goto
  <2>1. UNCHANGED incrementVars
    OBVIOUS
  <2>2. \A q \in Procs \ {p} : pc'[q] = pc[q] /\ target'[q] = target[q] /\ row'[q] = row[q]
    OBVIOUS
  <2>3. row[p].from # "none" => row'[p].from # "none"
    BY DEF RowRecords
  <2>4. /\ pc[p] \in InColumns => pc'[p] \in InColumns
        /\ pc'[p] \in InColumns => pc[p] = "columnsSeek"
    BY DEF InColumns, InWrite
  <2>5. pc'[p] = "rowRead" => p \in Unlocked /\ target'[p].slot \in Slots
    BY DEF Slots, InWrite
  <2>6. FetchesInSlots'
    BY <2>2, <2>4, <2>5 DEF FetchesInSlots, Unguarded, InColumns
  <2>7. StoredFresh' /\ HeldFresh'
    BY <2>1, <2>2, <2>3, <2>4 DEF incrementVars, StoredFresh, HeldFresh
  <2> QED
    BY <2>1, <2>6, <2>7 DEF incrementVars
<1>9. CASE ReopenColumns
  <2>1. /\ UNCHANGED <<diskNext, stored>> /\ next' = diskNext
        /\ value' = [p \in Procs |-> NoValue] /\ \A p \in Procs : pc'[p] = "idle"
    BY <1>9 DEF ReopenColumns, NextOnOpen, Restart
  <2> QED
    BY <2>1 DEF FetchesInSlots, Unguarded, StoredFresh, HeldFresh
<1>10. CASE UNCHANGED allVars
  BY <1>10 DEF allVars, vars, incrementVars, FetchesInSlots, StoredFresh, HeldFresh
<1> QED
  BY <1>2, <1>3, <1>4, <1>5, <1>6, <1>7, <1>8, <1>9, <1>10 DEF IncrementNext

LEMMA FreshInvariant == IncrementSpec => []FreshInv
BY InitFresh, FreshStep, PTL DEF IncrementSpec

\* No value that Increment will give, now or after a restart, is in a row of the
\* file or in one the client can still store.
THEOREM NoValueTwice == IncrementSpec => []ValuesAreFresh
<1>1. FreshInv => ValuesAreFresh
  BY DEF FreshInv, StoredFresh, HeldFresh, ValuesAreFresh, InColumns, InWrite
<1> QED
  BY <1>1, FreshInvariant, PTL

\* The table with its column is a table: what holds of Spec holds of it.
THEOREM ColumnChangesNothing == IncrementSpec => Spec
<1>1. IncrementInit => Init
  BY DEF IncrementInit
<1> QED
  BY <1>1, TableMovesToo, FreshInvariant, PTL DEF IncrementSpec, Spec

LEMMA OneGoroutine == \E one : Procs = {one}
BY StepAssumption, ProcsAssumption, FS_Singleton

\* A table with an autoincrement column implements the abstract table.
THEOREM IncrementIsATable == IncrementSpec => ImplementsTable
<1>1. PICK one : Procs = {one}
  BY OneGoroutine
<1>2. Spec => ImplementsTable
  BY <1>1, FileIsATable
<1> QED
  BY <1>2, ColumnChangesNothing
=============================================================================
