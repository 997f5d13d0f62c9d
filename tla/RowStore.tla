------------------------------ MODULE RowStore ------------------------------
(***************************************************************************)
(* One open table (File, UnixIO) shared by goroutines: the row count in    *)
(* memory, the file with its single seek offset, dbaseMutex, and the steps *)
(* of the calls that store and fetch rows.  A Seek and the Write or Read   *)
(* that follows it are separate steps, because another goroutine can move  *)
(* the offset of the shared *os.File between them.                         *)
(*                                                                         *)
(* The file is a row of places: the header, the column descriptors, then   *)
(* one place for each row.  A transfer (Write or Read) touches the place   *)
(* at the offset and leaves the offset just behind it.                     *)
(***************************************************************************)
EXTENDS Integers, FiniteSets

CONSTANTS
    Procs,      \* the goroutines that use the file
    Unlocked,   \* those that also fetch rows or build them from maps: none of
                \* these calls takes dbaseMutex
    Free,       \* dbaseMutex held by nobody
    Values,     \* what a row can hold, the deletion mark included
    Blank,      \* a row that is counted and was never written
    RowLimit,   \* rows that fit MaxRecordsPerTable and MaxTableFileSize
    StartRows,  \* rows in the file when it is opened
    Rewrites,   \* may a Row that was appended be written again?
    IOFaults,   \* may a system call fail?
    Restarts    \* may the program die and reopen the file?

ASSUME ProcsAssumption ==
    IsFiniteSet(Procs) /\ Unlocked \subseteq Procs /\ Free \notin Procs
ASSUME RowsAssumption ==
    RowLimit \in Nat /\ StartRows \in 0..RowLimit /\ Blank \notin Values
ASSUME SwitchAssumption ==
    Rewrites \in BOOLEAN /\ IOFaults \in BOOLEAN /\ Restarts \in BOOLEAN

VARIABLES
    rowsCount,  \* file.header.RowsCount, in memory
    rowPointer, \* file.table.rowPointer
    mutex,      \* the owner of file.dbaseMutex, or Free
    offset,     \* the seek offset of file.handle, as a place
    disk,       \* what every place of the file holds
    pc,         \* the step each goroutine is at
    row,        \* the Row each goroutine holds
    target,     \* the slot its WriteRow or ReadRow computed, and how
    result      \* what the last write that returned gave its caller

vars == <<rowsCount, rowPointer, mutex, offset, disk, pc, row, target, result>>

-----------------------------------------------------------------------------
(* Places and what they hold *)

HeaderPlace == 0
ColumnsPlace == 1
RowPlace(slot) == 2 + slot

\* An unlocked transfer of each goroutine can push the offset one place on.
Places == 0..(RowLimit + 2 + Cardinality(Procs))

HeaderImage(n) == [kind |-> "header", count |-> n]
ColumnsImage == [kind |-> "columns"]
RowImage(v) == [kind |-> "row", val |-> v]
Nothing == [kind |-> "nothing"]

Contents ==
    [kind : {"header"}, count : 0..RowLimit] \cup [kind : {"row"}, val : Values]
        \cup {ColumnsImage, Nothing}

DiskCount == disk[HeaderPlace].count
HeaderReadable == disk[HeaderPlace].kind = "header"

-----------------------------------------------------------------------------
(* Rows.  A new row is at RowsCount + 1, a fetched one at its slot.        *)

Origins == {"none", "new", "stored", "appended"}
RowRecords == [pos : Nat, val : Values, from : Origins]
Targets == [slot : Nat, append : BOOLEAN]

Results == {"none", "ok", "error"}
Labels == {"idle", "begin", "headerSeek", "headerWrite", "rowSeek",
           "rowWrite", "rowRead", "columnsSeek", "columnsWrite"}
InWrite == {"headerSeek", "headerWrite", "rowSeek", "rowWrite"}

\* Mutant: the position forgets that a new row comes after the last one.
NewRowAtCount(v) == [pos |-> rowsCount, val |-> v, from |-> "new"]

NewRow(v) == [pos |-> rowsCount + 1, val |-> v, from |-> "new"]

TypeOK ==
    /\ rowsCount \in 0..RowLimit
    /\ rowPointer \in Nat
    /\ mutex \in Procs \cup {Free}
    /\ offset \in Nat
    /\ disk \in [Places -> Contents]
    /\ pc \in [Procs -> Labels]
    /\ row \in [Procs -> RowRecords]
    /\ target \in [Procs -> Targets]
    /\ result \in Results

Init ==
    /\ rowsCount = StartRows
    /\ rowPointer = 0
    /\ mutex = Free
    /\ offset = ColumnsPlace
    /\ \E stored \in [0..StartRows-1 -> Values] :
          disk = [x \in Places |->
                    IF x = HeaderPlace THEN HeaderImage(StartRows)
                    ELSE IF x = ColumnsPlace THEN ColumnsImage
                    ELSE IF x - 2 \in 0..StartRows-1 THEN RowImage(stored[x - 2])
                    ELSE Nothing]
    /\ pc = [p \in Procs |-> "idle"]
    /\ result = "none"
    /\ target = [p \in Procs |-> [slot |-> 0, append |-> FALSE]]
    \* rows the goroutines hold were fetched before they started to overlap
    /\ row \in [Procs -> [pos : {0} \cup 0..StartRows-1, val : Values,
                          from : {"none"} \cup
                                 (IF StartRows > 0 THEN {"stored"} ELSE {})]]

-----------------------------------------------------------------------------
(* The steps of a call *)

Goto(p, from, to) == pc[p] = from /\ pc' = [pc EXCEPT ![p] = to]

SeekTo(place) == offset' = place

\* A write past the end of the modelled file is not recorded.
WriteAtOffset(image) ==
    /\ disk' = IF offset \in Places THEN [disk EXCEPT ![offset] = image] ELSE disk
    /\ offset' = offset + 1

\* NewRow: the position is computed from the count, without the mutex.
MakeRow(p, v) ==
    /\ pc[p] = "idle"
    /\ row' = [row EXCEPT ![p] = NewRow(v)]
    /\ UNCHANGED <<rowsCount, rowPointer, mutex, offset, disk, pc, target, result>>

\* Row.Add: the position is recomputed without the mutex, then Write.
AddRow(p, v) ==
    /\ Goto(p, "idle", "begin")
    /\ row' = [row EXCEPT ![p] = NewRow(v)]
    /\ UNCHANGED <<rowsCount, rowPointer, mutex, offset, disk, target, result>>

\* Row.Write of a row the goroutine holds, its values changed to v.
WriteRow(p, v) ==
    /\ row[p].from # "none"
    /\ row[p].from = "appended" => Rewrites
    /\ Goto(p, "idle", "begin")
    /\ row' = [row EXCEPT ![p].val = v]
    /\ UNCHANGED <<rowsCount, rowPointer, mutex, offset, disk, target, result>>

Appends(p) == row[p].pos >= rowsCount

\* Mutant: the row goes to its position, whether it is new or not.
SlotAtPosition(p) == row[p].pos

\* An appended row goes to the slot before its position, any other row to
\* its position.
SlotOf(p) == IF Appends(p) THEN row[p].pos - 1 ELSE row[p].pos

\* Mutant: the limits are not looked at.
NoLimit(p) == TRUE

WithinLimits(p) == Appends(p) => rowsCount < RowLimit

\* Mutant: the mutex is not waited for.
LockWithoutWaiting(p) == mutex' = p

Lock(p) == mutex = Free /\ mutex' = p

\* WriteRow up to WriteHeader: lock, and count the row if it is appended.
BeginWrite(p) ==
    /\ Lock(p)
    /\ WithinLimits(p)
    /\ Goto(p, "begin", "headerSeek")
    /\ target' = [target EXCEPT ![p] = [slot |-> SlotOf(p), append |-> Appends(p)]]
    /\ rowsCount' = IF Appends(p) THEN rowsCount + 1 ELSE rowsCount
    /\ row' = IF Appends(p) THEN [row EXCEPT ![p].from = "appended"] ELSE row
    /\ UNCHANGED <<rowPointer, offset, disk, result>>

\* The record or size limit refuses the append and takes the count back.
RefuseWrite(p) ==
    /\ mutex = Free
    /\ ~WithinLimits(p)
    /\ Goto(p, "begin", "idle")
    /\ result' = "error"
    /\ UNCHANGED <<rowsCount, rowPointer, mutex, offset, disk, row, target>>

HeaderSeek(p) ==
    /\ Goto(p, "headerSeek", "headerWrite")
    /\ SeekTo(HeaderPlace)
    /\ UNCHANGED <<rowsCount, rowPointer, mutex, disk, row, target, result>>

\* Mutant: an appended row is left out of the count that is written.
CountBeforeAppend(p) == IF target[p].append THEN rowsCount - 1 ELSE rowsCount

CountToWrite(p) == rowsCount

HeaderWrite(p) ==
    /\ Goto(p, "headerWrite", "rowSeek")
    /\ WriteAtOffset(HeaderImage(CountToWrite(p)))
    /\ UNCHANGED <<rowsCount, rowPointer, mutex, row, target, result>>

RowSeek(p) ==
    /\ Goto(p, "rowSeek", "rowWrite")
    /\ SeekTo(RowPlace(target[p].slot))
    /\ UNCHANGED <<rowsCount, rowPointer, mutex, disk, row, target, result>>

\* The row is written and the deferred Unlock runs.
RowWrite(p) ==
    /\ Goto(p, "rowWrite", "idle")
    /\ WriteAtOffset(RowImage(row[p].val))
    /\ mutex' = Free
    /\ result' = "ok"
    /\ UNCHANGED <<rowsCount, rowPointer, row, target>>

\* Mutant: any failure takes the count back.
UncountOnFailure(p) == IF target[p].append THEN rowsCount - 1 ELSE rowsCount

CountAfterFailure(p) == rowsCount

\* Mutant: the error return forgets to unlock.
KeepLocked == UNCHANGED mutex

UnlockOnError == mutex' = Free

\* A failing system call moves no bytes and returns its error through the
\* deferred Unlock; the count is not taken back.
WriteFails(p) ==
    /\ IOFaults
    /\ pc[p] \in InWrite
    /\ pc' = [pc EXCEPT ![p] = "idle"]
    /\ UnlockOnError
    /\ rowsCount' = CountAfterFailure(p)
    /\ result' = "error"
    /\ UNCHANGED <<rowPointer, offset, disk, row, target>>

\* A fetch that fails leaves the goroutine with the row it had; RowFromMap
\* returns no row.
FetchFails(p) ==
    /\ IOFaults
    /\ pc[p] \in {"rowRead", "columnsSeek", "columnsWrite"}
    /\ pc' = [pc EXCEPT ![p] = "idle"]
    /\ row' = IF pc[p] = "rowRead" THEN row ELSE [row EXCEPT ![p].from = "none"]
    /\ UNCHANGED <<rowsCount, rowPointer, mutex, offset, disk, target, result>>

\* A row that cannot be converted fails in ToBytes, before it is counted.
ConversionFails(p) ==
    /\ mutex = Free
    /\ Goto(p, "begin", "idle")
    /\ result' = "error"
    /\ UNCHANGED <<rowsCount, rowPointer, mutex, offset, disk, row, target>>

GoTo(p, i) ==
    /\ p \in Unlocked /\ pc[p] = "idle"
    /\ rowPointer' = IF i > rowsCount THEN rowsCount ELSE i
    /\ UNCHANGED <<rowsCount, mutex, offset, disk, pc, row, target, result>>

\* File.Row: ReadRow(rowPointer) seeks without the mutex ...
ReadSeek(p) ==
    /\ p \in Unlocked
    /\ rowPointer < rowsCount
    /\ Goto(p, "idle", "rowRead")
    /\ SeekTo(RowPlace(rowPointer))
    /\ target' = [target EXCEPT ![p] = [slot |-> rowPointer, append |-> FALSE]]
    /\ UNCHANGED <<rowsCount, rowPointer, mutex, disk, row, result>>

AtOffset == IF offset \in Places THEN disk[offset] ELSE Nothing

\* A place before the end of the file reads as zeros when nothing was written
\* there; a read behind the end moves no bytes.
InFile(place) == \E x \in Places : place <= x /\ disk[x] # Nothing

\* BytesToRow takes the position of a fetched row from the row pointer.
FetchedPosition == rowPointer

\* ... and reads.  What is no row image has no delete flag and is refused.
ReadTransfer(p) ==
    /\ Goto(p, "rowRead", "idle")
    /\ offset' = IF InFile(offset) THEN offset + 1 ELSE offset
    /\ row' = IF AtOffset.kind = "row"
              THEN [row EXCEPT ![p] = [pos |-> FetchedPosition, val |-> AtOffset.val,
                                       from |-> "stored"]]
              ELSE row
    /\ UNCHANGED <<rowsCount, rowPointer, mutex, disk, target, result>>

\* RowFromMap: NewRow, then Increment rewrites the column descriptors,
\* without the mutex.
MapRow(p, v) ==
    /\ p \in Unlocked
    /\ Goto(p, "idle", "columnsSeek")
    /\ row' = [row EXCEPT ![p] = NewRow(v)]
    /\ UNCHANGED <<rowsCount, rowPointer, mutex, offset, disk, target, result>>

ColumnsSeek(p) ==
    /\ Goto(p, "columnsSeek", "columnsWrite")
    /\ SeekTo(ColumnsPlace)
    /\ UNCHANGED <<rowsCount, rowPointer, mutex, disk, row, target, result>>

ColumnsWrite(p) ==
    /\ Goto(p, "columnsWrite", "idle")
    /\ WriteAtOffset(ColumnsImage)
    /\ UNCHANGED <<rowsCount, rowPointer, mutex, row, target, result>>

\* Mutant: the reopened table starts with an empty header.
EmptyCount == 0

CountOnOpen == DiskCount

\* The program dies at any step; what was written stays.  OpenTable reads
\* the header from the file and starts at the first row.
Restart ==
    /\ Restarts
    /\ HeaderReadable
    /\ rowsCount' = CountOnOpen
    /\ rowPointer' = 0
    /\ mutex' = Free
    /\ offset' = ColumnsPlace
    /\ pc' = [p \in Procs |-> "idle"]
    /\ row' = [p \in Procs |-> [row[p] EXCEPT !.from = "none"]]
    /\ result' = "none"
    /\ UNCHANGED <<disk, target>>

StoreCall(p) == \E v \in Values : MakeRow(p, v) \/ AddRow(p, v) \/ WriteRow(p, v)

StoreStep(p) ==
    \/ BeginWrite(p) \/ RefuseWrite(p) \/ ConversionFails(p)
    \/ HeaderSeek(p) \/ HeaderWrite(p) \/ RowSeek(p) \/ RowWrite(p)

\* The calls that take no mutex, and their steps.
FetchCall(p) ==
    \/ \E v \in Values : MapRow(p, v)
    \/ \E i \in 0..RowLimit : GoTo(p, i)
    \/ ReadSeek(p)

FetchStep(p) == ReadTransfer(p) \/ ColumnsSeek(p) \/ ColumnsWrite(p)

\* The steps a goroutine takes once it is inside a call.
Continue(p) == StoreStep(p) \/ FetchStep(p)

Next ==
    \/ \E p \in Procs : StoreCall(p) \/ StoreStep(p) \/ WriteFails(p)
    \/ \E p \in Unlocked : FetchCall(p) \/ FetchStep(p) \/ FetchFails(p)
    \/ Restart

Spec == Init /\ [][Next]_vars

\* A goroutine inside a call keeps running, and sync.Mutex hands itself to
\* a goroutine that has waited long enough (starvation mode).
Fairness ==
    \A p \in Procs : /\ WF_vars(Continue(p))
                     /\ SF_vars(BeginWrite(p) \/ RefuseWrite(p) \/ ConversionFails(p))

FairSpec == Spec /\ Fairness

-----------------------------------------------------------------------------
(* Properties *)

\* Every transfer of a call happens at the place that call seeked to, whatever
\* the other goroutines do between its Seek and its Write or Read.
TransfersHitTheirPlace ==
    \A p \in Procs :
        /\ pc[p] = "headerWrite" => offset = HeaderPlace
        /\ pc[p] = "columnsWrite" => offset = ColumnsPlace
        /\ pc[p] \in {"rowWrite", "rowRead"} => offset = RowPlace(target[p].slot)

\* The header on disk counts every row image in the file, at every step of
\* every write, after every failure and after a restart: WriteRow writes the
\* header before the row.
RowsAreCounted ==
    /\ HeaderReadable
    /\ \A i \in 0..RowLimit : disk[RowPlace(i)].kind = "row" => i < DiskCount

\* The count in memory is never behind the one on disk, and once a write has
\* succeeded and no other is under way the two agree, failures before it or not.
CountsAgree ==
    /\ DiskCount <= rowsCount
    /\ mutex = Free /\ result # "error" => DiskCount = rowsCount

\* No step, failure or restart takes back a row that the file holds: the
\* stored count never falls and a row is only ever replaced by a row.
StoredRowsStay ==
    [][ /\ DiskCount' >= DiskCount
        /\ \A x \in Places : disk[x].kind = "row" => disk'[x].kind = "row" ]_vars

\* An append never lands on a row that some other append stored.
AppendFillsFreeSlot ==
    \A p \in Procs : pc[p] = "rowWrite" /\ target[p].append =>
        disk[RowPlace(target[p].slot)].kind # "row"

\* Every call that started to write returns, whether its system calls fail
\* or not.
EveryWriteReturns == \A p \in Procs : pc[p] = "begin" ~> pc[p] = "idle"

-----------------------------------------------------------------------------
(* For one goroutine the table is the abstract one: an append takes effect *)
(* when its row is written, although its row is counted from the start.    *)

AppendUnderWay == \E p \in Procs : pc[p] \in InWrite /\ target[p].append

rowsSeen ==
    [i \in 1..(IF AppendUnderWay THEN rowsCount - 1 ELSE rowsCount) |->
        IF disk[RowPlace(i - 1)].kind = "row" THEN disk[RowPlace(i - 1)].val ELSE Blank]

\* A fetched row is the one behind its position, any other row the one at it.
RowHeld(r) ==
    [number |-> CASE r.from = "none" -> 0
                  [] r.from = "stored" -> r.pos + 1
                  [] OTHER -> r.pos,
     fetched |-> r.from = "stored",
     val |-> IF r.from = "none" THEN Blank ELSE r.val]

CallAsked(label) ==
    CASE label \in {"begin"} \cup InWrite -> "write"
      [] label = "rowRead" -> "fetch"
      [] label \in {"columnsSeek", "columnsWrite"} -> "map"
      [] OTHER -> "nothing"

Client == CHOOSE p \in Procs : TRUE
rowHeld == RowHeld(row[Client])
callAsked == CallAsked(pc[Client])

Abstract == INSTANCE RecordTable WITH
    rows <- rowsSeen, pointer <- rowPointer, held <- rowHeld, asked <- callAsked

\* A goroutine that is alone on the table sees the abstract table: each write
\* changes the row its Row stands for, to the value of that Row, each fetch gets
\* what the row at the pointer holds, only a failed write or a restart leaves a row
\* that is counted and not written, and no failure changes a stored row.
ImplementsTable == Abstract!Spec
=============================================================================
