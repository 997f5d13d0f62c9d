--------------------------- MODULE RowStore_proofs ---------------------------
(***************************************************************************)
(* What holds of a shared table file for any number of goroutines, rows    *)
(* and values.  First the types, whoever uses the file; then, when every   *)
(* goroutine that touches the file holds dbaseMutex (Unlocked = {}), that  *)
(* transfers hit their places and that the header counts every row.  Then  *)
(* a goroutine that is alone on the table: what its calls do to the file   *)
(* implements the abstract table of RecordTable, with rows that are        *)
(* written again, system calls that fail, restarts and the calls that take *)
(* no mutex.                                                               *)
(***************************************************************************)
EXTENDS RowStore, FiniteSetTheorems, SequenceTheorems, TLAPS

-----------------------------------------------------------------------------
(* Types *)

\* A row that can be written is at most one past the count, and row 0 is only
\* ever the position of a stored row.
RowsInReach ==
    \A p \in Procs : row[p].from # "none" =>
        /\ row[p].pos <= rowsCount + 1
        /\ row[p].pos = 0 => rowsCount > 0

\* A row is at hand in a write, and a fetch only begins in a table with rows.
CallsHaveRows ==
    \A p \in Procs : /\ pc[p] \in {"begin"} \cup InWrite => row[p].from # "none"
                     /\ pc[p] = "rowRead" => rowsCount > 0

TypeInv == TypeOK /\ rowPointer <= rowsCount /\ RowsInReach /\ CallsHaveRows

LEMMA PlacesHoldRows ==
    /\ Places \subseteq Nat
    /\ HeaderPlace \in Places /\ ColumnsPlace \in Places
    /\ \A i \in 0..RowLimit : RowPlace(i) \in Places
<1>1. Cardinality(Procs) \in Nat
  BY ProcsAssumption, FS_CardinalityType
<1> QED
  BY <1>1, RowsAssumption DEF Places, HeaderPlace, ColumnsPlace, RowPlace

\* A transfer leaves a place with contents and the offset a number.
LEMMA TransferType ==
    ASSUME NEW image \in Contents, disk \in [Places -> Contents], offset \in Nat,
           WriteAtOffset(image)
    PROVE  disk' \in [Places -> Contents] /\ offset' \in Nat
BY DEF WriteAtOffset

LEMMA ImagesAreContents ==
    /\ \A n \in 0..RowLimit : HeaderImage(n) \in Contents
    /\ \A v \in Values : RowImage(v) \in Contents
    /\ ColumnsImage \in Contents /\ Nothing \in Contents
BY DEF HeaderImage, RowImage, ColumnsImage, Nothing, Contents

\* A header that can be read holds a count.
LEMMA StoredCount ==
    ASSUME disk \in [Places -> Contents], HeaderReadable PROVE DiskCount \in Nat
<1>1. disk[HeaderPlace] \in Contents
  BY PlacesHoldRows
<1>2. /\ ColumnsImage.kind # "header" /\ Nothing.kind # "header"
      /\ \A c \in [kind : {"row"}, val : Values] : c.kind # "header"
  BY DEF ColumnsImage, Nothing
<1>3. disk[HeaderPlace] \in [kind : {"header"}, count : 0..RowLimit]
  BY <1>1, <1>2 DEF Contents, HeaderReadable
<1> QED
  BY <1>3 DEF DiskCount

LEMMA InitTypes == Init => TypeInv
<1> SUFFICES ASSUME Init PROVE TypeInv
  OBVIOUS
<1>1. disk \in [Places -> Contents]
  <2>1. PICK stored \in [0..StartRows-1 -> Values] :
          disk = [x \in Places |->
                    IF x = HeaderPlace THEN HeaderImage(StartRows)
                    ELSE IF x = ColumnsPlace THEN ColumnsImage
                    ELSE IF x - 2 \in 0..StartRows-1 THEN RowImage(stored[x - 2])
                    ELSE Nothing]
    BY DEF Init
  <2> QED
    BY <2>1, ImagesAreContents, RowsAssumption
<1>2. row \in [Procs -> RowRecords]
  BY RowsAssumption DEF Init, RowRecords, Origins
<1>3. RowsInReach
  BY RowsAssumption DEF Init, RowsInReach
<1> QED
  BY <1>1, <1>2, <1>3, RowsAssumption
  DEF Init, TypeInv, TypeOK, CallsHaveRows, Labels, Targets, Results, ColumnsPlace, InWrite

LEMMA CallKeepsTypes ==
    ASSUME TypeInv, NEW p \in Procs, StoreCall(p) \/ FetchCall(p) PROVE TypeInv'
<1> USE DEF TypeInv, TypeOK, RowsInReach, CallsHaveRows, InWrite, Labels, RowRecords,
            Origins, Targets, Results
<1>1. ASSUME NEW v \in Values, MakeRow(p, v) PROVE TypeInv'
  BY <1>1, RowsAssumption DEF MakeRow, NewRow
<1>2. ASSUME NEW v \in Values, AddRow(p, v) PROVE TypeInv'
  BY <1>2, RowsAssumption DEF AddRow, NewRow, Goto
<1>3. ASSUME NEW v \in Values, WriteRow(p, v) PROVE TypeInv'
  BY <1>3, RowsAssumption DEF WriteRow, Goto
<1>4. ASSUME NEW v \in Values, MapRow(p, v) PROVE TypeInv'
  BY <1>4, RowsAssumption DEF MapRow, NewRow, Goto
<1>5. ASSUME NEW i \in 0..RowLimit, GoTo(p, i) PROVE TypeInv'
  BY <1>5, RowsAssumption DEF GoTo
<1>6. CASE ReadSeek(p)
  BY <1>6, RowsAssumption DEF ReadSeek, Goto, SeekTo, RowPlace
<1> QED
  BY <1>1, <1>2, <1>3, <1>4, <1>5, <1>6 DEF StoreCall, FetchCall

LEMMA ContinueKeepsTypes ==
    ASSUME TypeInv, NEW p \in Procs, Continue(p) PROVE TypeInv'
<1> USE DEF TypeInv, TypeOK, RowsInReach, CallsHaveRows, InWrite, Labels, RowRecords,
            Origins, Targets, Results, Goto
<1>1. CASE BeginWrite(p)
  <2>1. row[p].from # "none" /\ (Appends(p) => row[p].pos >= 1)
    BY <1>1, RowsAssumption DEF BeginWrite, Appends
  <2>2. SlotOf(p) \in Nat
    BY <2>1 DEF SlotOf
  <2>3. rowsCount' \in 0..RowLimit /\ rowsCount' >= rowsCount
    BY <1>1, RowsAssumption DEF BeginWrite, WithinLimits
  <2>4. row' \in [Procs -> RowRecords]
    BY <1>1 DEF BeginWrite
  <2>5. \A q \in Procs : row'[q].pos = row[q].pos
                         /\ (row'[q].from = "none" <=> row[q].from = "none")
    BY <1>1, <2>1 DEF BeginWrite
  <2>6. target' \in [Procs -> Targets] /\ mutex' \in Procs \cup {Free}
    BY <1>1, <2>2 DEF BeginWrite, Lock, Appends
  <2>7. pc' \in [Procs -> Labels]
    BY <1>1 DEF BeginWrite
  <2>8. RowsInReach' /\ CallsHaveRows'
    BY <1>1, <2>1, <2>3, <2>4, <2>5, <2>7 DEF BeginWrite
  <2> QED
    BY <1>1, <2>3, <2>4, <2>6, <2>7, <2>8 DEF BeginWrite
<1>2. CASE RefuseWrite(p)
  BY <1>2 DEF RefuseWrite
<1>3. CASE ConversionFails(p)
  BY <1>3 DEF ConversionFails
<1>4. CASE HeaderSeek(p)
  BY <1>4 DEF HeaderSeek, SeekTo, HeaderPlace
<1>5. CASE HeaderWrite(p)
  <2>1. disk' \in [Places -> Contents] /\ offset' \in Nat
    BY <1>5, TransferType, ImagesAreContents DEF HeaderWrite, CountToWrite
  <2> QED
    BY <1>5, <2>1 DEF HeaderWrite
<1>6. CASE RowSeek(p)
  BY <1>6 DEF RowSeek, SeekTo, RowPlace
<1>7. CASE RowWrite(p)
  <2>1. disk' \in [Places -> Contents] /\ offset' \in Nat
    BY <1>7, TransferType, ImagesAreContents DEF RowWrite
  <2> QED
    BY <1>7, <2>1 DEF RowWrite
<1>8. CASE ReadTransfer(p)
  <2>1. AtOffset \in Contents
    BY ImagesAreContents DEF AtOffset
  <2>2. AtOffset.kind = "row" => AtOffset.val \in Values
    BY <2>1 DEF Contents, ColumnsImage, Nothing
  <2>3. row' \in [Procs -> RowRecords]
    BY <1>8, <2>2 DEF ReadTransfer, FetchedPosition
  <2>4. \A q \in Procs : \/ row'[q] = row[q]
                         \/ q = p /\ row'[q].pos = rowPointer /\ row'[q].from = "stored"
    BY <1>8, <2>3 DEF ReadTransfer, FetchedPosition
  <2>5. pc' \in [Procs -> Labels] /\ offset' \in Nat
    BY <1>8 DEF ReadTransfer
  <2>6. RowsInReach' /\ CallsHaveRows'
    BY <1>8, <2>4, <2>5 DEF ReadTransfer
  <2> QED
    BY <1>8, <2>3, <2>5, <2>6 DEF ReadTransfer
<1>9. CASE ColumnsSeek(p)
  BY <1>9 DEF ColumnsSeek, SeekTo, ColumnsPlace
<1>10. CASE ColumnsWrite(p)
  <2>1. disk' \in [Places -> Contents] /\ offset' \in Nat
    BY <1>10, TransferType, ImagesAreContents DEF ColumnsWrite
  <2> QED
    BY <1>10, <2>1 DEF ColumnsWrite
<1> QED
  BY <1>1, <1>2, <1>3, <1>4, <1>5, <1>6, <1>7, <1>8, <1>9, <1>10 DEF Continue, StoreStep, FetchStep

LEMMA FailureKeepsTypes ==
    ASSUME TypeInv, (\E p \in Procs : WriteFails(p) \/ FetchFails(p)) \/ Restart
    PROVE  TypeInv'
<1> USE DEF TypeInv, TypeOK, RowsInReach, CallsHaveRows, InWrite, Labels, RowRecords,
            Origins, Targets, Results
<1>1. ASSUME NEW p \in Procs, WriteFails(p) PROVE TypeInv'
  BY <1>1 DEF WriteFails, UnlockOnError, CountAfterFailure
<1>2. ASSUME NEW p \in Procs, FetchFails(p) PROVE TypeInv'
  BY <1>2 DEF FetchFails
<1>3. CASE Restart
  <2>1. DiskCount \in 0..RowLimit
    <3>1. disk[HeaderPlace] \in Contents
      BY PlacesHoldRows
    <3> QED
      BY <1>3, <3>1 DEF Restart, HeaderReadable, DiskCount, Contents, ColumnsImage, Nothing
  <2>2. row' \in [Procs -> RowRecords] /\ \A q \in Procs : row'[q].from = "none"
    <3>1. ASSUME NEW q \in Procs
          PROVE  /\ [row[q] EXCEPT !.from = "none"] \in RowRecords
                 /\ [row[q] EXCEPT !.from = "none"].from = "none"
      OBVIOUS
    <3>2. row' = [q \in Procs |-> [row[q] EXCEPT !.from = "none"]]
      BY <1>3 DEF Restart
    <3> QED
      BY <3>1, <3>2
  <2> QED
    BY <1>3, <2>1, <2>2, RowsAssumption DEF Restart, CountOnOpen, ColumnsPlace
<1> QED
  BY <1>1, <1>2, <1>3

LEMMA TypeInvStep == TypeInv /\ [Next]_vars => TypeInv'
<1> SUFFICES ASSUME TypeInv, [Next]_vars PROVE TypeInv'
  OBVIOUS
<1>1. CASE UNCHANGED vars
  BY <1>1 DEF vars, TypeInv, TypeOK, RowsInReach, CallsHaveRows
<1>2. CASE Next
  BY <1>2, ProcsAssumption, CallKeepsTypes, ContinueKeepsTypes, FailureKeepsTypes DEF Next, Continue
<1> QED
  BY <1>1, <1>2

LEMMA TypeInvariant == Spec => []TypeInv
BY InitTypes, TypeInvStep, PTL DEF Spec

\* Every variable keeps its type, whoever uses the file: the slot of an
\* appended row, one before its position, is never negative, and the count
\* that a reopened table starts with is within the limit.
THEOREM TypeCorrect == Spec => []TypeOK
<1>1. TypeInv => TypeOK
  BY DEF TypeInv
<1> QED
  BY <1>1, TypeInvariant, PTL

-----------------------------------------------------------------------------
(* Goroutines that only store rows *)

Unguarded == {"rowRead", "columnsSeek", "columnsWrite"}

\* The steps of a write and the ownership of dbaseMutex go together, and no
\* goroutine is at a step that does without the mutex.
MutexGuardsWrites ==
    \A p \in Procs : (pc[p] \in InWrite <=> mutex = p) /\ pc[p] \notin Unguarded

\* A write goes to a row that is counted in memory, and from the header on also
\* on disk.
WritesAreCounted ==
    \A p \in Procs : /\ pc[p] \in InWrite => target[p].slot < rowsCount
                     /\ pc[p] \in {"rowSeek", "rowWrite"} => DiskCount = rowsCount

GuardedInv ==
    /\ TypeInv /\ MutexGuardsWrites /\ WritesAreCounted
    /\ TransfersHitTheirPlace /\ RowsAreCounted /\ CountsAgree

LEMMA InitGuarded == Init => GuardedInv
<1> SUFFICES ASSUME Init PROVE GuardedInv
  OBVIOUS
<1>1. TypeInv
  BY InitTypes
<1>2. MutexGuardsWrites /\ WritesAreCounted /\ TransfersHitTheirPlace
  BY ProcsAssumption
  DEF Init, MutexGuardsWrites, Unguarded, WritesAreCounted, TransfersHitTheirPlace, InWrite
<1>3. PICK stored \in [0..StartRows-1 -> Values] :
        disk = [x \in Places |->
                  IF x = HeaderPlace THEN HeaderImage(StartRows)
                  ELSE IF x = ColumnsPlace THEN ColumnsImage
                  ELSE IF x - 2 \in 0..StartRows-1 THEN RowImage(stored[x - 2])
                  ELSE Nothing]
  BY DEF Init
<1>4. disk[HeaderPlace] = HeaderImage(StartRows)
  BY <1>3, PlacesHoldRows
<1>5. HeaderReadable /\ DiskCount = rowsCount
  BY <1>4 DEF HeaderReadable, DiskCount, HeaderImage, Init
<1>6. \A i \in 0..RowLimit : disk[RowPlace(i)].kind = "row" => i < DiskCount
  BY <1>3, <1>5, PlacesHoldRows, RowsAssumption
  DEF Init, RowPlace, HeaderPlace, ColumnsPlace, Nothing
<1>7. RowsAreCounted /\ CountsAgree
  BY <1>1, <1>5, <1>6 DEF RowsAreCounted, CountsAgree, TypeInv, TypeOK
<1> QED
  BY <1>1, <1>2, <1>7 DEF GuardedInv

\* What writing the header, or a counted row, does to the file.
LEMMA HeaderTransfer ==
    ASSUME TypeInv, offset = HeaderPlace, WriteAtOffset(HeaderImage(rowsCount))
    PROVE  /\ HeaderReadable' /\ DiskCount' = rowsCount
           /\ \A x \in Places \ {HeaderPlace} : disk'[x] = disk[x]
BY PlacesHoldRows
DEF TypeInv, TypeOK, WriteAtOffset, HeaderReadable, DiskCount, HeaderImage

LEMMA RowTransfer ==
    ASSUME TypeInv, RowsAreCounted, NEW slot \in Nat, slot < rowsCount, NEW v \in Values,
           offset = RowPlace(slot), WriteAtOffset(RowImage(v))
    PROVE  /\ disk'[RowPlace(slot)].kind = "row"
           /\ \A x \in Places \ {RowPlace(slot)} : disk'[x] = disk[x]
           /\ HeaderReadable' /\ DiskCount' = DiskCount
<1>1. RowPlace(slot) \in Places /\ HeaderPlace \in Places /\ RowPlace(slot) # HeaderPlace
  <2>1. slot \in 0..RowLimit
    BY RowsAssumption DEF TypeInv, TypeOK
  <2>2. RowPlace(slot) # HeaderPlace
    BY DEF RowPlace, HeaderPlace
  <2> QED
    BY <2>1, <2>2, PlacesHoldRows
<1> QED
  BY <1>1 DEF TypeInv, TypeOK, RowsAreCounted, WriteAtOffset, HeaderReadable, DiskCount,
              RowImage

LEMMA CallKeepsGuard ==
    ASSUME Unlocked = {}, GuardedInv, NEW p \in Procs, StoreCall(p) \/ FetchCall(p) PROVE GuardedInv'
<1>1. TypeInv'
  BY CallKeepsTypes DEF GuardedInv
<1>2. UNCHANGED <<rowsCount, mutex, offset, disk, target, result>>
  BY DEF StoreCall, FetchCall, MakeRow, AddRow, WriteRow, MapRow, GoTo, ReadSeek
<1>3. \A q \in Procs : pc'[q] = pc[q] \/ (pc[q] = "idle" /\ pc'[q] = "begin")
  BY DEF StoreCall, FetchCall, MakeRow, AddRow, WriteRow, MapRow, GoTo, ReadSeek, Goto, GuardedInv,
         TypeInv, TypeOK
<1>4. MutexGuardsWrites' /\ WritesAreCounted' /\ TransfersHitTheirPlace'
  BY <1>2, <1>3 DEF GuardedInv, MutexGuardsWrites, Unguarded, WritesAreCounted,
                    TransfersHitTheirPlace, InWrite, DiskCount
<1>5. RowsAreCounted' /\ CountsAgree'
  BY <1>2 DEF GuardedInv, RowsAreCounted, CountsAgree, DiskCount, HeaderReadable
<1> QED
  BY <1>1, <1>4, <1>5 DEF GuardedInv

\* Steps that lose the mutex and end the call of their goroutine.
LEMMA FailureKeepsGuard ==
    ASSUME GuardedInv, (\E p \in Procs : WriteFails(p) \/ FetchFails(p)) \/ Restart
    PROVE  GuardedInv'
<1>1. TypeInv'
  BY FailureKeepsTypes DEF GuardedInv
<1>2. ASSUME NEW p \in Procs, WriteFails(p) PROVE GuardedInv'
  <2>1. /\ UNCHANGED <<rowsCount, disk, offset, target>>
        /\ mutex' = Free /\ result' = "error" /\ mutex = p
    BY <1>2 DEF WriteFails, UnlockOnError, CountAfterFailure, GuardedInv, MutexGuardsWrites
  <2>2. \A q \in Procs : pc'[q] = IF q = p THEN "idle" ELSE pc[q]
    BY <1>2 DEF WriteFails, GuardedInv, TypeInv, TypeOK
  <2>3. MutexGuardsWrites' /\ WritesAreCounted' /\ TransfersHitTheirPlace'
    BY <2>1, <2>2, ProcsAssumption
    DEF GuardedInv, MutexGuardsWrites, Unguarded, WritesAreCounted, TransfersHitTheirPlace,
        InWrite, DiskCount
  <2>4. RowsAreCounted' /\ CountsAgree'
    BY <2>1 DEF GuardedInv, RowsAreCounted, CountsAgree, DiskCount, HeaderReadable
  <2> QED
    BY <1>1, <2>3, <2>4 DEF GuardedInv
<1>3. ASSUME NEW p \in Procs, FetchFails(p) PROVE GuardedInv'
  BY <1>3 DEF FetchFails, GuardedInv, MutexGuardsWrites, Unguarded
<1>4. CASE Restart
  <2>1. /\ rowsCount' = DiskCount /\ UNCHANGED disk /\ mutex' = Free
        /\ \A q \in Procs : pc'[q] = "idle"
    BY <1>4 DEF Restart, CountOnOpen
  <2>2. MutexGuardsWrites' /\ WritesAreCounted' /\ TransfersHitTheirPlace'
    BY <2>1, ProcsAssumption
    DEF MutexGuardsWrites, Unguarded, WritesAreCounted, TransfersHitTheirPlace, InWrite
  <2>3. rowsCount' \in Nat /\ DiskCount' = DiskCount
    BY <1>1, <2>1 DEF TypeInv, TypeOK, DiskCount
  <2>4. RowsAreCounted' /\ CountsAgree'
    BY <2>1, <2>3 DEF GuardedInv, RowsAreCounted, CountsAgree, DiskCount, HeaderReadable
  <2> QED
    BY <1>1, <2>2, <2>4 DEF GuardedInv
<1> QED
  BY <1>2, <1>3, <1>4

LEMMA BeginKeepsGuard ==
    ASSUME GuardedInv, NEW p \in Procs, BeginWrite(p) PROVE GuardedInv'
<1>1. TypeInv'
  BY ContinueKeepsTypes DEF GuardedInv, Continue, StoreStep, FetchStep
<1>2. /\ mutex = Free /\ mutex' = p /\ p # Free
      /\ UNCHANGED <<offset, disk, result>>
  BY ProcsAssumption DEF BeginWrite, Lock
<1>3. \A q \in Procs : pc'[q] = IF q = p THEN "headerSeek" ELSE pc[q]
  BY DEF BeginWrite, Goto, GuardedInv, TypeInv, TypeOK
<1>4. \A q \in Procs : pc[q] \notin InWrite /\ pc[q] \notin Unguarded
  BY <1>2, ProcsAssumption DEF GuardedInv, MutexGuardsWrites
<1>5. target'[p].slot < rowsCount' /\ rowsCount <= rowsCount'
  <2>1. row[p].from # "none"
    BY DEF GuardedInv, TypeInv, CallsHaveRows, BeginWrite, Goto
  <2>2. /\ row[p].pos \in Nat /\ row[p].pos <= rowsCount + 1 /\ rowsCount \in Nat
        /\ target'[p].slot = SlotOf(p)
    BY <2>1 DEF GuardedInv, TypeInv, TypeOK, RowsInReach, RowRecords, BeginWrite
  <2> QED
    BY <2>2 DEF BeginWrite, SlotOf, Appends
<1>6. MutexGuardsWrites' /\ WritesAreCounted' /\ TransfersHitTheirPlace'
  BY <1>2, <1>3, <1>4, <1>5
  DEF MutexGuardsWrites, Unguarded, WritesAreCounted, TransfersHitTheirPlace, InWrite
<1>7. RowsAreCounted' /\ CountsAgree'
  <2>1. DiskCount' = DiskCount /\ HeaderReadable' = HeaderReadable
    BY <1>2 DEF DiskCount, HeaderReadable
  <2>2. DiskCount \in Nat /\ rowsCount \in Nat /\ rowsCount' \in Nat
    BY <1>1, StoredCount DEF GuardedInv, TypeInv, TypeOK, RowsAreCounted
  <2> QED
    BY <1>2, <1>5, <2>1, <2>2 DEF GuardedInv, RowsAreCounted, CountsAgree
<1> QED
  BY <1>1, <1>6, <1>7 DEF GuardedInv

\* The steps between the two ends of a write, and the one that ends it.
LEMMA WriteKeepsGuard ==
    ASSUME GuardedInv, NEW p \in Procs,
           HeaderSeek(p) \/ HeaderWrite(p) \/ RowSeek(p) \/ RowWrite(p)
    PROVE  GuardedInv'
<1>1. TypeInv'
  BY ContinueKeepsTypes DEF GuardedInv, Continue, StoreStep, FetchStep
<1>2. mutex = p /\ \A q \in Procs : pc[q] \notin Unguarded /\ (q # p => pc[q] \notin InWrite)
  BY DEF GuardedInv, MutexGuardsWrites, HeaderSeek, HeaderWrite, RowSeek, RowWrite, Goto, InWrite
<1>3. UNCHANGED <<rowsCount, target>>
  BY DEF HeaderSeek, HeaderWrite, RowSeek, RowWrite
<1>4. \A q \in Procs : q # p => pc'[q] = pc[q]
  BY DEF HeaderSeek, HeaderWrite, RowSeek, RowWrite, Goto, GuardedInv, TypeInv, TypeOK
<1>5. target[p].slot \in Nat /\ target[p].slot < rowsCount /\ rowsCount \in 0..RowLimit
  BY DEF GuardedInv, TypeInv, TypeOK, Targets, WritesAreCounted, HeaderSeek, HeaderWrite,
         RowSeek, RowWrite, Goto, InWrite
<1>6. CASE HeaderSeek(p)
  <2>1. /\ pc'[p] = "headerWrite" /\ offset' = HeaderPlace
        /\ UNCHANGED <<mutex, disk, result>>
    BY <1>6 DEF HeaderSeek, Goto, SeekTo, GuardedInv, TypeInv, TypeOK
  <2>2. MutexGuardsWrites' /\ WritesAreCounted' /\ TransfersHitTheirPlace'
    BY <1>2, <1>3, <1>4, <1>5, <2>1
    DEF MutexGuardsWrites, Unguarded, WritesAreCounted, TransfersHitTheirPlace, InWrite
  <2>3. RowsAreCounted' /\ CountsAgree'
    BY <1>3, <2>1 DEF GuardedInv, RowsAreCounted, CountsAgree, DiskCount, HeaderReadable
  <2> QED
    BY <1>1, <2>2, <2>3 DEF GuardedInv
<1>7. CASE HeaderWrite(p)
  <2>1. /\ pc[p] = "headerWrite" /\ pc'[p] = "rowSeek" /\ UNCHANGED <<mutex, result>>
        /\ WriteAtOffset(HeaderImage(rowsCount))
    BY <1>7 DEF HeaderWrite, Goto, CountToWrite, GuardedInv, TypeInv, TypeOK
  <2>2. offset = HeaderPlace
    BY <2>1 DEF GuardedInv, TransfersHitTheirPlace
  <2>3. /\ HeaderReadable' /\ DiskCount' = rowsCount
        /\ \A x \in Places \ {HeaderPlace} : disk'[x] = disk[x]
    BY <2>1, <2>2, HeaderTransfer DEF GuardedInv
  <2>4. MutexGuardsWrites' /\ WritesAreCounted' /\ TransfersHitTheirPlace'
    BY <1>2, <1>3, <1>4, <1>5, <2>1, <2>3
    DEF MutexGuardsWrites, Unguarded, WritesAreCounted, TransfersHitTheirPlace, InWrite
  <2>5. \A i \in 0..RowLimit : disk'[RowPlace(i)].kind = "row" => i < DiskCount'
    <3> TAKE i \in 0..RowLimit
    <3>1. RowPlace(i) \in Places \ {HeaderPlace}
      BY PlacesHoldRows, RowsAssumption DEF RowPlace, HeaderPlace
    <3>2. disk[RowPlace(i)].kind = "row" => i < DiskCount /\ DiskCount <= rowsCount
      BY DEF GuardedInv, RowsAreCounted, CountsAgree
    <3>3. DiskCount \in Nat
      BY StoredCount DEF GuardedInv, TypeInv, TypeOK, RowsAreCounted
    <3> QED
      BY <1>5, <2>3, <3>1, <3>2, <3>3
  <2>6. RowsAreCounted' /\ CountsAgree'
    BY <1>2, <1>3, <1>5, <2>1, <2>3, <2>5, ProcsAssumption DEF RowsAreCounted, CountsAgree
  <2> QED
    BY <1>1, <2>4, <2>6 DEF GuardedInv
<1>8. CASE RowSeek(p)
  <2>1. /\ pc[p] = "rowSeek" /\ pc'[p] = "rowWrite"
        /\ offset' = RowPlace(target[p].slot) /\ UNCHANGED <<mutex, disk, result>>
    BY <1>8 DEF RowSeek, Goto, SeekTo, GuardedInv, TypeInv, TypeOK
  <2>2. DiskCount = rowsCount /\ DiskCount' = DiskCount
    BY <2>1 DEF GuardedInv, WritesAreCounted, DiskCount
  <2>3. MutexGuardsWrites' /\ WritesAreCounted' /\ TransfersHitTheirPlace'
    BY <1>2, <1>3, <1>4, <1>5, <2>1, <2>2
    DEF MutexGuardsWrites, Unguarded, WritesAreCounted, TransfersHitTheirPlace, InWrite
  <2>4. RowsAreCounted' /\ CountsAgree'
    BY <1>3, <2>1 DEF GuardedInv, RowsAreCounted, CountsAgree, DiskCount, HeaderReadable
  <2> QED
    BY <1>1, <2>3, <2>4 DEF GuardedInv
<1>9. CASE RowWrite(p)
  <2>1. /\ pc[p] = "rowWrite" /\ pc'[p] = "idle" /\ mutex' = Free
        /\ WriteAtOffset(RowImage(row[p].val)) /\ row[p].val \in Values
    BY <1>9 DEF RowWrite, Goto, GuardedInv, TypeInv, TypeOK, RowRecords
  <2>2. offset = RowPlace(target[p].slot) /\ DiskCount = rowsCount
    BY <2>1 DEF GuardedInv, TransfersHitTheirPlace, WritesAreCounted
  <2>3. /\ \A x \in Places \ {RowPlace(target[p].slot)} : disk'[x] = disk[x]
        /\ HeaderReadable' /\ DiskCount' = DiskCount
    BY <1>5, <2>1, <2>2, RowTransfer DEF GuardedInv
  <2>4. MutexGuardsWrites' /\ WritesAreCounted' /\ TransfersHitTheirPlace'
    BY <1>2, <1>4, <2>1, ProcsAssumption
    DEF MutexGuardsWrites, Unguarded, WritesAreCounted, TransfersHitTheirPlace, InWrite
  <2>5. \A i \in 0..RowLimit : disk'[RowPlace(i)].kind = "row" => i < DiskCount'
    <3> TAKE i \in 0..RowLimit
    <3>1. CASE i = target[p].slot
      BY <1>5, <2>2, <2>3, <3>1
    <3>2. CASE i # target[p].slot
      <4>1. RowPlace(i) \in Places \ {RowPlace(target[p].slot)}
        <5>1. RowPlace(i) # RowPlace(target[p].slot)
          BY <1>5, <3>2, RowsAssumption DEF RowPlace
        <5> QED
          BY <5>1, PlacesHoldRows
      <4> QED
        BY <2>3, <4>1 DEF GuardedInv, RowsAreCounted
    <3> QED
      BY <3>1, <3>2
  <2>6. RowsAreCounted' /\ CountsAgree'
    BY <1>3, <1>5, <2>2, <2>3, <2>5 DEF RowsAreCounted, CountsAgree
  <2> QED
    BY <1>1, <2>4, <2>6 DEF GuardedInv
<1> QED
  BY <1>6, <1>7, <1>8, <1>9

LEMMA ContinueKeepsGuard ==
    ASSUME GuardedInv, NEW p \in Procs, Continue(p) PROVE GuardedInv'
<1>1. TypeInv'
  BY ContinueKeepsTypes DEF GuardedInv
<1>2. CASE RefuseWrite(p) \/ ConversionFails(p)
  <2>1. /\ UNCHANGED <<rowsCount, mutex, offset, disk, target>>
        /\ result' = "error" /\ pc[p] = "begin"
    BY <1>2 DEF RefuseWrite, ConversionFails, Goto
  <2>2. \A q \in Procs : pc'[q] = IF q = p THEN "idle" ELSE pc[q]
    BY <1>2 DEF RefuseWrite, ConversionFails, Goto, GuardedInv, TypeInv, TypeOK
  <2>3. MutexGuardsWrites' /\ WritesAreCounted' /\ TransfersHitTheirPlace'
    BY <2>1, <2>2 DEF GuardedInv, MutexGuardsWrites, Unguarded, WritesAreCounted,
                      TransfersHitTheirPlace, InWrite, DiskCount
  <2>4. RowsAreCounted' /\ CountsAgree'
    BY <2>1 DEF GuardedInv, RowsAreCounted, CountsAgree, DiskCount, HeaderReadable
  <2> QED
    BY <1>1, <2>3, <2>4 DEF GuardedInv
<1>3. ~(ReadTransfer(p) \/ ColumnsSeek(p) \/ ColumnsWrite(p))
  BY DEF GuardedInv, MutexGuardsWrites, Unguarded, ReadTransfer, ColumnsSeek, ColumnsWrite, Goto
<1> QED
  BY <1>2, <1>3, BeginKeepsGuard, WriteKeepsGuard DEF Continue, StoreStep, FetchStep

LEMMA GuardedStep ==
    ASSUME Unlocked = {}, GuardedInv, [Next]_vars PROVE GuardedInv'
<1>1. CASE UNCHANGED vars
  BY <1>1, TypeInvStep
  DEF vars, GuardedInv, MutexGuardsWrites, WritesAreCounted, TransfersHitTheirPlace,
      RowsAreCounted, CountsAgree, DiskCount, HeaderReadable
<1>2. CASE Next
  BY <1>2, ProcsAssumption, CallKeepsGuard, ContinueKeepsGuard, FailureKeepsGuard DEF Next, Continue
<1> QED
  BY <1>1, <1>2

LEMMA GuardedInvariant == ASSUME Unlocked = {} PROVE Spec => []GuardedInv
<1>1. GuardedInv /\ [Next]_vars => GuardedInv'
  BY GuardedStep
<1> QED
  BY <1>1, InitGuarded, PTL DEF Spec

\* When every goroutine that touches the file holds dbaseMutex while it does,
\* each Write goes to the place its Seek chose, for any number of goroutines.
THEOREM WritersHitTheirPlace ==
    ASSUME Unlocked = {} PROVE Spec => []TransfersHitTheirPlace
<1>1. GuardedInv => TransfersHitTheirPlace
  BY DEF GuardedInv
<1> QED
  BY <1>1, GuardedInvariant, PTL

\* The header on disk counts every row image in the file, after any failure and
\* any restart, because WriteRow writes the header before the row.
THEOREM HeaderCountsRows ==
    ASSUME Unlocked = {} PROVE Spec => []RowsAreCounted
<1>1. GuardedInv => RowsAreCounted
  BY DEF GuardedInv
<1> QED
  BY <1>1, GuardedInvariant, PTL

\* The count in memory is never behind the one on disk, and they agree after a
\* write that succeeded.
THEOREM CountsStayTogether ==
    ASSUME Unlocked = {} PROVE Spec => []CountsAgree
<1>1. GuardedInv => CountsAgree
  BY DEF GuardedInv
<1> QED
  BY <1>1, GuardedInvariant, PTL

\* No step, failure or restart takes back a stored row or a stored count.
THEOREM StoredRowsSurvive ==
    ASSUME Unlocked = {} PROVE Spec => StoredRowsStay
<1> DEFINE Keeps == /\ DiskCount' >= DiskCount
                   /\ \A x \in Places : disk[x].kind = "row" => disk'[x].kind = "row"
<1>1. ASSUME GuardedInv, [Next]_vars PROVE Keeps
  <2>1. DiskCount \in Nat /\ rowsCount \in Nat
    BY <1>1, StoredCount DEF GuardedInv, TypeInv, TypeOK, RowsAreCounted
  <2>2. CASE UNCHANGED disk
    BY <2>1, <2>2 DEF DiskCount
  <2>3. ASSUME NEW p \in Procs, HeaderWrite(p) PROVE Keeps
    <3>1. offset = HeaderPlace /\ WriteAtOffset(HeaderImage(rowsCount))
      BY <1>1, <2>3 DEF HeaderWrite, Goto, CountToWrite, GuardedInv, TransfersHitTheirPlace
    <3>2. DiskCount' = rowsCount /\ \A x \in Places \ {HeaderPlace} : disk'[x] = disk[x]
      BY <1>1, <3>1, HeaderTransfer DEF GuardedInv
    <3>3. disk[HeaderPlace].kind # "row" /\ DiskCount <= rowsCount
      BY <1>1 DEF GuardedInv, RowsAreCounted, HeaderReadable, CountsAgree
    <3> QED
      BY <2>1, <3>2, <3>3
  <2>4. ASSUME NEW p \in Procs, RowWrite(p) PROVE Keeps
    <3>1. /\ target[p].slot \in Nat /\ target[p].slot < rowsCount
          /\ offset = RowPlace(target[p].slot) /\ row[p].val \in Values
          /\ WriteAtOffset(RowImage(row[p].val))
      BY <1>1, <2>4 DEF RowWrite, Goto, GuardedInv, TypeInv, TypeOK, Targets, RowRecords,
         WritesAreCounted, TransfersHitTheirPlace, InWrite
    <3>2. /\ disk'[RowPlace(target[p].slot)].kind = "row" /\ DiskCount' = DiskCount
          /\ \A x \in Places \ {RowPlace(target[p].slot)} : disk'[x] = disk[x]
      BY <1>1, <3>1, RowTransfer DEF GuardedInv
    <3> QED
      BY <2>1, <3>2
  <2>5. \A p \in Procs : ~ColumnsWrite(p)
    BY <1>1 DEF ColumnsWrite, Goto, GuardedInv, MutexGuardsWrites, Unguarded
  <2>6. CASE Next
    <3>1. ASSUME NEW p \in Procs, StoreCall(p) \/ FetchCall(p) PROVE UNCHANGED disk
      BY <3>1 DEF StoreCall, FetchCall, MakeRow, AddRow, WriteRow, MapRow, GoTo, ReadSeek
    <3>2. ASSUME NEW p \in Procs, Continue(p)
          PROVE  HeaderWrite(p) \/ RowWrite(p) \/ UNCHANGED disk
      BY <2>5, <3>2 DEF Continue, StoreStep, FetchStep, BeginWrite, RefuseWrite, ConversionFails, HeaderSeek,
         RowSeek, ReadTransfer, ColumnsSeek
    <3>3. ASSUME (\E p \in Procs : WriteFails(p) \/ FetchFails(p)) \/ Restart
          PROVE  UNCHANGED disk
      BY <3>3 DEF WriteFails, FetchFails, Restart
    <3> QED
      BY ProcsAssumption, <2>2, <2>3, <2>4, <2>6, <3>1, <3>2, <3>3 DEF Next, Continue
  <2> QED
    BY <1>1, <2>2, <2>6 DEF vars
<1>2. GuardedInv /\ [Next]_vars => [Keeps]_vars
  BY <1>1
<1> QED
  BY <1>2, GuardedInvariant, PTL DEF Spec, StoredRowsStay

-----------------------------------------------------------------------------
(* A goroutine alone on the table: the invariant *)

\* A new row is the one after the last, a fetched row is in the table, and a row
\* that was added is or was its last one.
HeldRowsPlaced ==
    \A p \in Procs : /\ row[p].from = "new" => row[p].pos = rowsCount + 1
                     /\ row[p].from = "stored" => row[p].pos < rowsCount
                     /\ row[p].from = "appended" => row[p].pos >= 1 /\ row[p].pos <= rowsCount

\* The row pointer stays where it was when the fetch seeked.
FetchesPlaced ==
    \A p \in Procs : pc[p] = "rowRead" =>
        rowPointer < rowsCount /\ target[p].slot = rowPointer

\* A write goes to a slot that is counted.  An append has counted a row at the end
\* that is not there yet, and goes to this row, or to the one before it when the
\* row was added before.
WritesPlaced ==
    \A p \in Procs : pc[p] \in InWrite =>
        /\ target[p].slot < rowsCount
        /\ pc[p] \in {"rowSeek", "rowWrite"} => DiskCount = rowsCount
        /\ row[p].from \in {"stored", "appended"}
        /\ target[p].append => /\ row[p].from = "appended"
                               /\ row[p].pos = rowsCount \/ row[p].pos = rowsCount - 1
                               /\ target[p].slot = row[p].pos - 1
                               /\ disk[RowPlace(rowsCount - 1)].kind # "row"
        /\ ~target[p].append => target[p].slot = row[p].pos

AloneInv ==
    /\ TypeInv /\ TransfersHitTheirPlace /\ RowsAreCounted /\ DiskCount <= rowsCount
    /\ HeldRowsPlaced /\ FetchesPlaced /\ WritesPlaced

LEMMA InitAlone == Init => AloneInv
<1> SUFFICES ASSUME Init PROVE AloneInv
  OBVIOUS
<1>1. TypeInv /\ TransfersHitTheirPlace /\ RowsAreCounted /\ CountsAgree
  BY InitGuarded DEF GuardedInv
<1>2. HeldRowsPlaced
  BY RowsAssumption DEF Init, HeldRowsPlaced
<1>3. FetchesPlaced /\ WritesPlaced
  BY DEF Init, FetchesPlaced, WritesPlaced, InWrite
<1> QED
  BY <1>1, <1>2, <1>3 DEF AloneInv, CountsAgree

LEMMA CallStaysAlone ==
    ASSUME NEW p, Procs = {p}, AloneInv, StoreCall(p) \/ FetchCall(p)
    PROVE  AloneInv'
<1>1. TypeInv'
  BY CallKeepsTypes DEF AloneInv
<1>2. /\ UNCHANGED <<rowsCount, disk>>
      /\ pc[p] = "idle" /\ pc'[p] \in {"idle", "begin", "rowRead", "columnsSeek"}
  BY DEF StoreCall, FetchCall, MakeRow, AddRow, WriteRow, MapRow, GoTo, ReadSeek, Goto,
         AloneInv, TypeInv, TypeOK
<1>3. RowsAreCounted' /\ DiskCount' <= rowsCount'
  BY <1>2 DEF AloneInv, RowsAreCounted, HeaderReadable, DiskCount
<1>4. WritesPlaced'
  BY <1>2 DEF WritesPlaced, InWrite
<1>5. HeldRowsPlaced'
  BY <1>2 DEF StoreCall, FetchCall, MakeRow, AddRow, WriteRow, MapRow, GoTo, ReadSeek, Goto,
              NewRow, HeldRowsPlaced, AloneInv, TypeInv, TypeOK, RowRecords, Origins
<1>6. TransfersHitTheirPlace' /\ FetchesPlaced'
  BY <1>2 DEF StoreCall, FetchCall, MakeRow, AddRow, WriteRow, MapRow, GoTo, ReadSeek, Goto,
              SeekTo, FetchesPlaced, TransfersHitTheirPlace, AloneInv, TypeInv, TypeOK, Targets
<1> QED
  BY <1>1, <1>3, <1>4, <1>5, <1>6 DEF AloneInv

\* A step that leaves the count, the row pointer and the file alone, and may end
\* the call or seek to the next place.
LEMMA QuietStaysAlone ==
    ASSUME NEW p, Procs = {p}, AloneInv, TypeInv',
           UNCHANGED <<rowsCount, rowPointer, disk, target>>,
           row' = row \/ (row'[p].from = "none" /\ pc'[p] = "idle"),
           \/ pc'[p] = "idle"
           \/ pc[p] = "headerSeek" /\ pc'[p] = "headerWrite" /\ offset' = HeaderPlace
           \/ pc[p] = "rowSeek" /\ pc'[p] = "rowWrite" /\ offset' = RowPlace(target[p].slot)
           \/ pc[p] = "columnsSeek" /\ pc'[p] = "columnsWrite" /\ offset' = ColumnsPlace
    PROVE  AloneInv'
<1>1. RowsAreCounted' /\ DiskCount' <= rowsCount'
  BY DEF AloneInv, RowsAreCounted, HeaderReadable, DiskCount
<1>2. TransfersHitTheirPlace' /\ FetchesPlaced'
  BY DEF TransfersHitTheirPlace, FetchesPlaced
<1>3. HeldRowsPlaced'
  BY DEF AloneInv, HeldRowsPlaced
<1>4. WritesPlaced'
  BY DEF AloneInv, WritesPlaced, InWrite, DiskCount
<1> QED
  BY <1>1, <1>2, <1>3, <1>4 DEF AloneInv

\* The count grows by the row that is appended, in front of which every stored
\* row lies.
LEMMA BeginStaysAlone ==
    ASSUME NEW p, Procs = {p}, AloneInv, BeginWrite(p) PROVE AloneInv'
<1>1. TypeInv'
  BY ContinueKeepsTypes DEF AloneInv, Continue, StoreStep
<1>2. /\ UNCHANGED <<rowPointer, offset, disk>> /\ pc[p] = "begin" /\ pc'[p] = "headerSeek"
      /\ row[p].from \in {"new", "stored", "appended"} /\ row[p] \in RowRecords
      /\ rowsCount \in Nat /\ rowsCount' \in Nat
      /\ target'[p] = [slot |-> SlotOf(p), append |-> Appends(p)]
  BY <1>1 DEF BeginWrite, Goto, AloneInv, TypeInv, TypeOK, CallsHaveRows, RowRecords, Origins
<1>3. Appends(p) <=> row[p].from # "stored" /\ row[p].pos >= rowsCount
  BY <1>2 DEF AloneInv, HeldRowsPlaced, Appends, RowRecords
<1>4. /\ row'[p].pos = row[p].pos
      /\ IF Appends(p)
         THEN /\ rowsCount' = rowsCount + 1 /\ row'[p].from = "appended"
              /\ row[p].pos = rowsCount + 1 \/ row[p].pos = rowsCount
              /\ row[p].pos >= 1 /\ target'[p].slot = row[p].pos - 1
         ELSE /\ rowsCount' = rowsCount /\ row' = row /\ row[p].from \in {"stored", "appended"}
              /\ target'[p].slot = row[p].pos /\ row[p].pos < rowsCount
  <2>1. row[p].from # "stored" => row[p].pos <= rowsCount + 1 /\ row[p].pos >= 1
    BY <1>2 DEF AloneInv, HeldRowsPlaced, RowRecords
  <2>2. target'[p].slot = SlotOf(p)
    BY <1>2
  <2>3. CASE Appends(p)
    <3>1. rowsCount' = rowsCount + 1 /\ row' = [row EXCEPT ![p].from = "appended"]
      BY <2>3 DEF BeginWrite
    <3>2. row'[p].pos = row[p].pos /\ row'[p].from = "appended"
      BY <3>1 DEF AloneInv, TypeInv, TypeOK, RowRecords
    <3>3. row[p].pos = rowsCount + 1 \/ row[p].pos = rowsCount
      BY <1>2, <1>3, <2>1, <2>3 DEF RowRecords
    <3> QED
      BY <1>3, <2>1, <2>2, <2>3, <3>1, <3>2, <3>3 DEF SlotOf
  <2>4. CASE ~Appends(p)
    <3>1. rowsCount' = rowsCount /\ row' = row
      BY <2>4 DEF BeginWrite
    <3>2. row[p].pos < rowsCount
      BY <1>2, <2>4 DEF Appends, RowRecords
    <3>3. row[p].from \in {"stored", "appended"}
      BY <1>2, <3>2 DEF AloneInv, HeldRowsPlaced
    <3> QED
      BY <2>2, <2>4, <3>1, <3>2, <3>3 DEF SlotOf
  <2> QED
    BY <2>3, <2>4
<1>5. /\ DiskCount' = DiskCount /\ HeaderReadable' = HeaderReadable /\ DiskCount \in Nat
  BY <1>2, StoredCount DEF DiskCount, HeaderReadable, AloneInv, TypeInv, TypeOK, RowsAreCounted
<1>6. RowsAreCounted' /\ DiskCount' <= rowsCount'
  BY <1>2, <1>4, <1>5 DEF AloneInv, RowsAreCounted
<1>7. WritesPlaced'
  <2>1. ASSUME Appends(p) PROVE disk'[RowPlace(rowsCount' - 1)].kind # "row"
    <3>1. /\ rowsCount \in 0..RowLimit /\ ~ rowsCount < DiskCount
          /\ rowsCount' - 1 = rowsCount /\ disk' = disk
      BY <1>2, <1>4, <1>5, <2>1 DEF AloneInv, TypeInv, TypeOK
    <3> QED
      BY <3>1 DEF AloneInv, RowsAreCounted
  <2>2. target'[p].append <=> Appends(p)
    <3>1. target'[p].append = Appends(p)
      BY <1>2
    <3> QED
      BY <3>1, Zenon
  <2>3. /\ row'[p].pos \in Nat /\ row'[p].pos = row[p].pos
        /\ target'[p].slot < rowsCount'
        /\ row'[p].from \in {"stored", "appended"}
    BY <1>1, <1>2, <1>4 DEF TypeInv, TypeOK, RowRecords
  <2>4. Appends(p) => row'[p].pos = rowsCount' \/ row'[p].pos = rowsCount' - 1
    BY <1>2, <1>4, <2>3
  <2> QED
    BY <1>2, <1>4, <2>1, <2>2, <2>3, <2>4 DEF WritesPlaced
<1>8. TransfersHitTheirPlace' /\ FetchesPlaced'
  BY <1>2 DEF TransfersHitTheirPlace, FetchesPlaced
<1>9. HeldRowsPlaced'
  <2>1. row'[p].from = "stored" => ~Appends(p)
    BY <1>3, <1>4
  <2> QED
    BY <1>2, <1>3, <1>4, <2>1 DEF AloneInv, HeldRowsPlaced, RowRecords
<1> QED
  BY <1>1, <1>6, <1>7, <1>8, <1>9 DEF AloneInv

LEMMA HeaderStaysAlone ==
    ASSUME NEW p, Procs = {p}, AloneInv, HeaderWrite(p)
    PROVE  /\ AloneInv' /\ UNCHANGED <<rowsCount, target, result>>
           /\ pc[p] = "headerWrite" /\ pc'[p] = "rowSeek"
           /\ \A x \in Places \ {HeaderPlace} : disk'[x] = disk[x]
<1>1. TypeInv'
  BY ContinueKeepsTypes DEF AloneInv, Continue, StoreStep
<1>2. /\ UNCHANGED <<rowsCount, rowPointer, row, target, result>>
      /\ pc[p] = "headerWrite" /\ pc'[p] = "rowSeek"
      /\ target[p].slot \in Nat /\ target[p].slot < rowsCount /\ rowsCount \in 0..RowLimit
      /\ DiskCount \in Nat /\ DiskCount <= rowsCount
  BY StoredCount DEF HeaderWrite, Goto, AloneInv, WritesPlaced, InWrite, TypeInv, TypeOK, Targets,
         RowsAreCounted
<1>3. /\ HeaderReadable' /\ DiskCount' = rowsCount
      /\ \A x \in Places \ {HeaderPlace} : disk'[x] = disk[x]
  BY <1>2, HeaderTransfer DEF AloneInv, TransfersHitTheirPlace, HeaderWrite, CountToWrite
<1>4. \A i \in 0..RowLimit : disk'[RowPlace(i)] = disk[RowPlace(i)]
  <2>1. \A i \in 0..RowLimit : RowPlace(i) # HeaderPlace
    BY RowsAssumption DEF RowPlace, HeaderPlace
  <2> QED
    BY <1>3, <2>1, PlacesHoldRows
<1>5. RowsAreCounted' /\ DiskCount' <= rowsCount'
  BY <1>2, <1>3, <1>4 DEF AloneInv, RowsAreCounted
<1>6. WritesPlaced'
  <2>1. rowsCount - 1 \in 0..RowLimit
    BY <1>2, RowsAssumption
  <2> QED
    BY <1>2, <1>3, <1>4, <2>1 DEF AloneInv, WritesPlaced, InWrite
<1>7. TransfersHitTheirPlace' /\ FetchesPlaced' /\ HeldRowsPlaced'
  BY <1>2 DEF TransfersHitTheirPlace, FetchesPlaced, HeldRowsPlaced, AloneInv
<1> QED
  BY <1>1, <1>2, <1>3, <1>5, <1>6, <1>7 DEF AloneInv

LEMMA RowStaysAlone ==
    ASSUME NEW p, Procs = {p}, AloneInv, RowWrite(p)
    PROVE  /\ AloneInv' /\ UNCHANGED <<rowsCount, target>> /\ result' = "ok"
           /\ pc[p] = "rowWrite" /\ pc'[p] = "idle"
           /\ target[p].slot \in 0..rowsCount-1 /\ row[p].val \in Values
           /\ disk'[RowPlace(target[p].slot)] = RowImage(row[p].val)
           /\ \A i \in 0..RowLimit : i # target[p].slot => disk'[RowPlace(i)] = disk[RowPlace(i)]
<1>1. TypeInv'
  BY ContinueKeepsTypes DEF AloneInv, Continue, StoreStep
<1>2. /\ UNCHANGED <<rowsCount, rowPointer, row, target>> /\ result' = "ok"
      /\ pc[p] = "rowWrite" /\ pc'[p] = "idle" /\ WriteAtOffset(RowImage(row[p].val))
      /\ target[p].slot \in Nat /\ target[p].slot < rowsCount /\ rowsCount \in 0..RowLimit
      /\ DiskCount = rowsCount /\ row[p].val \in Values
  BY DEF RowWrite, Goto, AloneInv, WritesPlaced, InWrite, TypeInv, TypeOK, Targets, RowRecords
<1>3. offset = RowPlace(target[p].slot)
  BY <1>2 DEF AloneInv, TransfersHitTheirPlace
<1>4. /\ \A x \in Places \ {RowPlace(target[p].slot)} : disk'[x] = disk[x]
      /\ HeaderReadable' /\ DiskCount' = DiskCount
  BY <1>2, <1>3, RowTransfer DEF AloneInv
<1>5. disk'[RowPlace(target[p].slot)] = RowImage(row[p].val)
  <2>1. target[p].slot \in 0..RowLimit
    BY <1>2, RowsAssumption
  <2>2. RowPlace(target[p].slot) \in Places
    BY <2>1, PlacesHoldRows
  <2> QED
    BY <1>2, <1>3, <2>2 DEF WriteAtOffset, AloneInv, TypeInv, TypeOK
<1>6. \A i \in 0..RowLimit : i # target[p].slot => disk'[RowPlace(i)] = disk[RowPlace(i)]
  <2>1. \A i \in 0..RowLimit : i # target[p].slot => RowPlace(i) # RowPlace(target[p].slot)
    BY <1>2, RowsAssumption DEF RowPlace
  <2> QED
    BY <1>4, <2>1, PlacesHoldRows
<1>7. RowsAreCounted' /\ DiskCount' <= rowsCount'
  BY <1>2, <1>4, <1>6 DEF AloneInv, RowsAreCounted
<1>8. TransfersHitTheirPlace' /\ FetchesPlaced' /\ HeldRowsPlaced' /\ WritesPlaced'
  BY <1>2 DEF TransfersHitTheirPlace, FetchesPlaced, HeldRowsPlaced, WritesPlaced, InWrite,
              AloneInv
<1> QED
  BY <1>1, <1>2, <1>5, <1>6, <1>7, <1>8 DEF AloneInv

\* A fetch and the column descriptors leave the rows of the file alone.
LEMMA FetchStaysAlone ==
    ASSUME NEW p, Procs = {p}, AloneInv, ReadTransfer(p) \/ ColumnsWrite(p)
    PROVE  /\ AloneInv' /\ UNCHANGED <<rowsCount, target, result>>
           /\ pc[p] \notin InWrite /\ pc'[p] = "idle"
           /\ \A i \in 0..RowLimit : disk'[RowPlace(i)] = disk[RowPlace(i)]
<1>1. TypeInv'
  BY ContinueKeepsTypes DEF AloneInv, Continue, FetchStep
<1>2. /\ UNCHANGED <<rowsCount, rowPointer, target, result>>
      /\ pc[p] \in {"rowRead", "columnsWrite"} /\ pc'[p] = "idle"
  BY DEF ReadTransfer, ColumnsWrite, Goto, AloneInv, TypeInv, TypeOK
<1>3. /\ disk'[HeaderPlace] = disk[HeaderPlace]
      /\ \A i \in 0..RowLimit : disk'[RowPlace(i)] = disk[RowPlace(i)]
  <2>1. CASE ReadTransfer(p)
    BY <2>1 DEF ReadTransfer
  <2>2. CASE ColumnsWrite(p)
    <3>1. offset = ColumnsPlace /\ WriteAtOffset(ColumnsImage)
      BY <2>2 DEF ColumnsWrite, Goto, AloneInv, TransfersHitTheirPlace
    <3>2. /\ ColumnsPlace # HeaderPlace
          /\ \A i \in 0..RowLimit : RowPlace(i) # ColumnsPlace
      BY RowsAssumption DEF RowPlace, HeaderPlace, ColumnsPlace
    <3> QED
      BY <3>1, <3>2, PlacesHoldRows DEF WriteAtOffset, AloneInv, TypeInv, TypeOK
  <2> QED
    BY <2>1, <2>2
<1>4. RowsAreCounted' /\ DiskCount' <= rowsCount'
  BY <1>2, <1>3 DEF AloneInv, RowsAreCounted, HeaderReadable, DiskCount
<1>5. TransfersHitTheirPlace' /\ FetchesPlaced' /\ WritesPlaced'
  BY <1>2 DEF TransfersHitTheirPlace, FetchesPlaced, WritesPlaced, InWrite
<1>6. HeldRowsPlaced'
  <2>1. CASE ReadTransfer(p)
    BY <1>2, <2>1 DEF ReadTransfer, Goto, FetchedPosition, AloneInv, HeldRowsPlaced,
                      FetchesPlaced, TypeInv, TypeOK
  <2>2. CASE ColumnsWrite(p)
    BY <1>2, <2>2 DEF ColumnsWrite, AloneInv, HeldRowsPlaced
  <2> QED
    BY <2>1, <2>2
<1> QED
  BY <1>1, <1>2, <1>3, <1>4, <1>5, <1>6 DEF AloneInv, InWrite

LEMMA RestartStaysAlone == ASSUME NEW p, Procs = {p}, AloneInv, Restart PROVE AloneInv'
<1>1. TypeInv'
  BY FailureKeepsTypes DEF AloneInv
<1>2. /\ rowsCount' = DiskCount /\ UNCHANGED <<disk, target>> /\ pc'[p] = "idle"
      /\ row'[p].from = "none"
  BY DEF Restart, CountOnOpen, AloneInv, TypeInv, TypeOK, RowRecords
<1>3. RowsAreCounted' /\ DiskCount' <= rowsCount'
  BY <1>1, <1>2 DEF AloneInv, RowsAreCounted, HeaderReadable, DiskCount, TypeInv, TypeOK
<1>4. TransfersHitTheirPlace' /\ FetchesPlaced' /\ WritesPlaced' /\ HeldRowsPlaced'
  BY <1>2 DEF TransfersHitTheirPlace, FetchesPlaced, WritesPlaced, HeldRowsPlaced, InWrite
<1> QED
  BY <1>1, <1>3, <1>4 DEF AloneInv

\* The steps of a lone goroutine that write nothing.
QuietStep(p) ==
    RefuseWrite(p) \/ ConversionFails(p) \/ HeaderSeek(p) \/ RowSeek(p) \/ ColumnsSeek(p)
        \/ WriteFails(p) \/ FetchFails(p)

LEMMA QuietStepStaysAlone ==
    ASSUME NEW p, Procs = {p}, AloneInv, QuietStep(p) PROVE AloneInv'
<1>1. TypeInv'
  BY ContinueKeepsTypes, FailureKeepsTypes
  DEF AloneInv, QuietStep, Continue, StoreStep, FetchStep
<1>2. /\ UNCHANGED <<rowsCount, rowPointer, disk, target>>
      /\ row' = row \/ (row'[p].from = "none" /\ pc'[p] = "idle")
  BY DEF QuietStep, RefuseWrite, ConversionFails, HeaderSeek, RowSeek, ColumnsSeek, WriteFails,
         FetchFails, CountAfterFailure, AloneInv, TypeInv, TypeOK, RowRecords
<1>3. \/ pc'[p] = "idle"
      \/ pc[p] = "headerSeek" /\ pc'[p] = "headerWrite" /\ offset' = HeaderPlace
      \/ pc[p] = "rowSeek" /\ pc'[p] = "rowWrite" /\ offset' = RowPlace(target[p].slot)
      \/ pc[p] = "columnsSeek" /\ pc'[p] = "columnsWrite" /\ offset' = ColumnsPlace
  BY DEF QuietStep, RefuseWrite, ConversionFails, HeaderSeek, RowSeek, ColumnsSeek, WriteFails,
         FetchFails, Goto, SeekTo, AloneInv, TypeInv, TypeOK
<1> QED
  BY <1>1, <1>2, <1>3, QuietStaysAlone

LEMMA AloneSteps ==
    ASSUME NEW p, Procs = {p}, Next
    PROVE  \/ StoreCall(p) \/ FetchCall(p) \/ BeginWrite(p) \/ HeaderWrite(p) \/ RowWrite(p)
           \/ ReadTransfer(p) \/ ColumnsWrite(p) \/ QuietStep(p) \/ Restart
BY ProcsAssumption DEF Next, StoreStep, FetchStep, QuietStep

LEMMA AloneStep ==
    ASSUME NEW p, Procs = {p}, AloneInv, [Next]_vars PROVE AloneInv'
<1>1. CASE UNCHANGED vars
  BY <1>1, TypeInvStep
  DEF vars, AloneInv, TransfersHitTheirPlace, RowsAreCounted, DiskCount, HeaderReadable,
      HeldRowsPlaced, FetchesPlaced, WritesPlaced
<1>2. CASE Next
  BY <1>2, AloneSteps, CallStaysAlone, BeginStaysAlone, HeaderStaysAlone, RowStaysAlone,
     FetchStaysAlone, QuietStepStaysAlone, RestartStaysAlone
<1> QED
  BY <1>1, <1>2

LEMMA AloneInvariant ==
    ASSUME NEW p, Procs = {p} PROVE Spec => []AloneInv
<1>1. AloneInv /\ [Next]_vars => AloneInv'
  BY AloneStep
<1> QED
  BY <1>1, InitAlone, PTL DEF Spec

-----------------------------------------------------------------------------
(* Sequences of rows *)

\* What makes a sequence another one with one element more, with one replaced,
\* or its beginning.
LEMMA Appended ==
    ASSUME NEW S, NEW s \in Seq(S), NEW t \in Seq(S), NEW x \in S,
           Len(t) = Len(s) + 1, \A i \in 1..Len(s) : t[i] = s[i], t[Len(s) + 1] = x
    PROVE  t = Append(s, x)
<1>1. Len(s) \in Nat
  BY LenProperties
<1>2. /\ Append(s, x) \in Seq(S) /\ Len(Append(s, x)) = Len(s) + 1
      /\ \A i \in 1..Len(s) + 1 : Append(s, x)[i] = IF i <= Len(s) THEN s[i] ELSE x
  BY <1>1
<1>3. \A i \in 1..Len(t) : t[i] = Append(s, x)[i]
  BY <1>1, <1>2
<1> QED
  BY <1>2, <1>3, SeqEqual

LEMMA Replaced ==
    ASSUME NEW S, NEW s \in Seq(S), NEW t \in Seq(S), NEW n \in 1..Len(s), NEW x \in S,
           Len(t) = Len(s), \A i \in 1..Len(s) : t[i] = IF i = n THEN x ELSE s[i]
    PROVE  t = [s EXCEPT ![n] = x]
BY ExceptSeq, SeqEqual

LEMMA Beginning ==
    ASSUME NEW S, NEW s \in Seq(S), NEW t \in Seq(S), Len(t) <= Len(s),
           \A i \in 1..Len(t) : t[i] = s[i]
    PROVE  t = SubSeq(s, 1, Len(t))
<1>1. Len(s) \in Nat /\ Len(t) \in Nat /\ \A i \in 1..Len(t) : s[i] \in S
  BY LenProperties, ElementOfSeq
<1>2. /\ SubSeq(s, 1, Len(t)) \in Seq(S) /\ Len(SubSeq(s, 1, Len(t))) = Len(t)
      /\ \A i \in 1..Len(t) : SubSeq(s, 1, Len(t))[i] = s[i]
  BY <1>1, SubSeqProperties
<1> QED
  BY <1>2, SeqEqual

-----------------------------------------------------------------------------
(* What the client sees *)

CountSeen == IF AppendUnderWay THEN rowsCount - 1 ELSE rowsCount
RowSeen(slot) ==
    IF disk[RowPlace(slot)].kind = "row" THEN disk[RowPlace(slot)].val ELSE Blank
TableRows == Seq(Values \cup {Blank})

LEMMA SeenTable ==
    AloneInv => /\ CountSeen \in 0..RowLimit /\ rowsSeen \in TableRows
                /\ Len(rowsSeen) = CountSeen
                /\ \A slot \in Nat : slot < CountSeen => rowsSeen[slot + 1] = RowSeen(slot)
                /\ \A slot \in 0..RowLimit : RowSeen(slot) \in Values \cup {Blank}
<1> SUFFICES ASSUME AloneInv
             PROVE  /\ CountSeen \in 0..RowLimit /\ rowsSeen \in TableRows
                    /\ Len(rowsSeen) = CountSeen
                    /\ \A slot \in Nat : slot < CountSeen => rowsSeen[slot + 1] = RowSeen(slot)
                    /\ \A slot \in 0..RowLimit : RowSeen(slot) \in Values \cup {Blank}
  OBVIOUS
<1>1. rowsCount \in 0..RowLimit /\ RowLimit \in Nat
  BY RowsAssumption DEF AloneInv, TypeInv, TypeOK
<1>2. AppendUnderWay => rowsCount > 0
  <2>1. ASSUME NEW q \in Procs, pc[q] \in InWrite PROVE rowsCount > 0
    BY <1>1, <2>1 DEF AloneInv, WritesPlaced, TypeInv, TypeOK, Targets
  <2> QED
    BY <2>1 DEF AppendUnderWay
<1>3. CountSeen \in 0..RowLimit
  BY <1>1, <1>2 DEF CountSeen
<1>4. ASSUME NEW slot \in 0..RowLimit PROVE RowSeen(slot) \in Values \cup {Blank}
  <2>1. disk[RowPlace(slot)] \in Contents
    BY PlacesHoldRows DEF AloneInv, TypeInv, TypeOK
  <2> QED
    BY <2>1 DEF RowSeen, Contents, ColumnsImage, Nothing
<1>5. rowsSeen = [i \in 1..CountSeen |-> RowSeen(i - 1)]
  BY DEF rowsSeen, CountSeen, RowSeen
<1>6. rowsSeen \in [1..CountSeen -> Values \cup {Blank}]
  <2>1. \A i \in 1..CountSeen : i - 1 \in 0..RowLimit
    BY <1>1, <1>3
  <2>2. \A i \in 1..CountSeen : RowSeen(i - 1) \in Values \cup {Blank}
    BY <1>4, <2>1
  <2> QED
    BY <1>5, <2>2
<1>7. rowsSeen \in TableRows
  BY <1>3, <1>6, SeqDef DEF TableRows
<1>8. Len(rowsSeen) = CountSeen
  BY <1>3, <1>6, <1>7, LenProperties DEF TableRows
<1>9. ASSUME NEW slot \in Nat, slot < CountSeen PROVE rowsSeen[slot + 1] = RowSeen(slot)
  <2>1. slot + 1 \in 1..CountSeen /\ (slot + 1) - 1 = slot
    BY <1>3, <1>9
  <2> QED
    BY <1>5, <2>1
<1> QED
  BY <1>3, <1>4, <1>7, <1>8, <1>9

LEMMA SeenTableNext ==
    (AloneInv => /\ CountSeen \in 0..RowLimit /\ rowsSeen \in TableRows
                 /\ Len(rowsSeen) = CountSeen
                 /\ \A slot \in Nat : slot < CountSeen => rowsSeen[slot + 1] = RowSeen(slot)
                 /\ \A slot \in 0..RowLimit : RowSeen(slot) \in Values \cup {Blank})'
BY SeenTable, PTL

\* How the table that the client sees follows from the count and the slots.
LEMMA TableMoves ==
    ASSUME AloneInv, AloneInv'
    PROVE  /\ /\ CountSeen' = CountSeen
              /\ \A slot \in 0..RowLimit : slot < CountSeen => RowSeen(slot)' = RowSeen(slot)
              => rowsSeen' = rowsSeen
           /\ \A x \in Values \cup {Blank} :
                 /\ CountSeen' = CountSeen + 1
                 /\ \A slot \in 0..RowLimit : slot <= CountSeen =>
                       RowSeen(slot)' = IF slot = CountSeen THEN x ELSE RowSeen(slot)
                 => Len(rowsSeen) < RowLimit /\ rowsSeen' = Append(rowsSeen, x)
           /\ \A n \in 0..RowLimit, x \in Values :
                 /\ CountSeen' = CountSeen + 1 /\ n < CountSeen
                 /\ \A slot \in 0..RowLimit : slot <= CountSeen =>
                       RowSeen(slot)' = IF slot = n THEN x
                                        ELSE IF slot = CountSeen THEN Blank ELSE RowSeen(slot)
                 => /\ n + 1 \in 1..Len(rowsSeen) /\ Len(rowsSeen) < RowLimit
                    /\ rowsSeen' = Append([rowsSeen EXCEPT ![n + 1] = x], Blank)
           /\ \A n \in 0..RowLimit, x \in Values :
                 /\ CountSeen' = CountSeen /\ n < CountSeen
                 /\ \A slot \in 0..RowLimit : slot < CountSeen =>
                       RowSeen(slot)' = IF slot = n THEN x ELSE RowSeen(slot)
                 => n + 1 \in 1..Len(rowsSeen) /\ rowsSeen' = [rowsSeen EXCEPT ![n + 1] = x]
           /\ /\ CountSeen' <= CountSeen
              /\ \A slot \in 0..RowLimit : slot < CountSeen' => RowSeen(slot)' = RowSeen(slot)
              => rowsSeen' = SubSeq(rowsSeen, 1, CountSeen')
<1>1. /\ CountSeen \in 0..RowLimit /\ rowsSeen \in TableRows /\ Len(rowsSeen) = CountSeen
      /\ CountSeen' \in 0..RowLimit /\ rowsSeen' \in TableRows /\ Len(rowsSeen') = CountSeen'
      /\ RowLimit \in Nat
  BY SeenTable, SeenTableNext, RowsAssumption
<1>2. ASSUME NEW i \in 1..CountSeen PROVE rowsSeen[i] = RowSeen(i - 1) /\ i - 1 \in 0..RowLimit
  <2>1. i - 1 \in Nat /\ i - 1 < CountSeen /\ (i - 1) + 1 = i
    BY <1>1
  <2> QED
    BY <1>1, <2>1, SeenTable
<1>3. ASSUME NEW i \in 1..CountSeen'
      PROVE  rowsSeen'[i] = RowSeen(i - 1)' /\ i - 1 \in 0..RowLimit
  <2>1. i - 1 \in Nat /\ i - 1 < CountSeen' /\ (i - 1) + 1 = i
    BY <1>1
  <2>2. \A slot \in Nat : slot < CountSeen' => rowsSeen'[slot + 1] = RowSeen(slot)'
    BY SeenTableNext
  <2> QED
    BY <1>1, <2>1, <2>2
<1>4. ASSUME CountSeen' = CountSeen,
             \A slot \in 0..RowLimit : slot < CountSeen => RowSeen(slot)' = RowSeen(slot)
      PROVE  rowsSeen' = rowsSeen
  <2>1. \A i \in 1..CountSeen : rowsSeen'[i] = rowsSeen[i]
    BY <1>1, <1>2, <1>3, <1>4
  <2> QED
    BY <1>1, <1>4, <2>1, SeqEqual DEF TableRows
<1>5. ASSUME NEW x \in Values \cup {Blank}, CountSeen' = CountSeen + 1,
             \A slot \in 0..RowLimit : slot <= CountSeen =>
                RowSeen(slot)' = IF slot = CountSeen THEN x ELSE RowSeen(slot)
      PROVE  Len(rowsSeen) < RowLimit /\ rowsSeen' = Append(rowsSeen, x)
  <2>1. \A i \in 1..CountSeen : rowsSeen'[i] = rowsSeen[i]
    BY <1>1, <1>2, <1>3, <1>5
  <2>2. rowsSeen'[CountSeen + 1] = x
    <3>1. ASSUME NEW k, k = CountSeen PROVE rowsSeen'[k + 1] = x
      <4>1. k \in 0..RowLimit /\ k < CountSeen'
        BY <1>1, <1>5, <3>1
      <4>2. rowsSeen'[k + 1] = RowSeen(k)'
        BY <4>1, SeenTableNext
      <4> QED
        BY <1>1, <1>5, <3>1, <4>1, <4>2
    <3> QED
      BY <3>1
  <2> QED
    BY <1>1, <1>5, <2>1, <2>2, Appended DEF TableRows
<1>6. ASSUME NEW n \in 0..RowLimit, NEW x \in Values, CountSeen' = CountSeen, n < CountSeen,
             \A slot \in 0..RowLimit : slot < CountSeen =>
                RowSeen(slot)' = IF slot = n THEN x ELSE RowSeen(slot)
      PROVE  n + 1 \in 1..Len(rowsSeen) /\ rowsSeen' = [rowsSeen EXCEPT ![n + 1] = x]
  <2>1. n + 1 \in 1..Len(rowsSeen)
    BY <1>1, <1>6
  <2>2. \A i \in 1..CountSeen : rowsSeen'[i] = IF i = n + 1 THEN x ELSE rowsSeen[i]
    BY <1>1, <1>2, <1>3, <1>6
  <2> QED
    BY <1>1, <1>6, <2>1, <2>2, Replaced DEF TableRows
<1>7. ASSUME NEW n \in 0..RowLimit, NEW x \in Values, CountSeen' = CountSeen + 1, n < CountSeen,
             \A slot \in 0..RowLimit : slot <= CountSeen =>
                RowSeen(slot)' = IF slot = n THEN x
                                 ELSE IF slot = CountSeen THEN Blank ELSE RowSeen(slot)
      PROVE  /\ n + 1 \in 1..Len(rowsSeen) /\ Len(rowsSeen) < RowLimit
             /\ rowsSeen' = Append([rowsSeen EXCEPT ![n + 1] = x], Blank)
  <2> DEFINE changed == [rowsSeen EXCEPT ![n + 1] = x]
  <2>1. n + 1 \in 1..Len(rowsSeen)
    BY <1>1, <1>7
  <2>2. /\ changed \in TableRows /\ Len(changed) = CountSeen
        /\ \A i \in 1..CountSeen : changed[i] = IF i = n + 1 THEN x ELSE rowsSeen[i]
    BY <1>1, <2>1, ExceptSeq DEF TableRows
  <2> HIDE DEF changed
  <2>3. \A i \in 1..CountSeen : rowsSeen'[i] = changed[i]
    BY <1>1, <1>2, <1>3, <1>7, <2>2
  <2>4. rowsSeen'[CountSeen + 1] = Blank
    <3>1. ASSUME NEW k, k = CountSeen PROVE rowsSeen'[k + 1] = Blank
      <4>1. k \in 0..RowLimit /\ k < CountSeen' /\ k # n
        BY <1>1, <1>7, <3>1
      <4>2. rowsSeen'[k + 1] = RowSeen(k)'
        BY <4>1, SeenTableNext
      <4> QED
        BY <1>1, <1>7, <3>1, <4>1, <4>2
    <3> QED
      BY <3>1
  <2>5. rowsSeen' = Append(changed, Blank)
    BY <1>1, <1>7, <2>2, <2>3, <2>4, Appended DEF TableRows
  <2> QED
    BY <1>1, <1>7, <2>1, <2>5 DEF changed
<1>8. ASSUME CountSeen' <= CountSeen,
             \A slot \in 0..RowLimit : slot < CountSeen' => RowSeen(slot)' = RowSeen(slot)
      PROVE  rowsSeen' = SubSeq(rowsSeen, 1, CountSeen')
  <2>1. \A i \in 1..CountSeen' : rowsSeen'[i] = rowsSeen[i]
    BY <1>1, <1>2, <1>3, <1>8
  <2> QED
    BY <1>1, <1>8, <2>1, Beginning DEF TableRows
<1> QED
  BY <1>4, <1>5, <1>6, <1>7, <1>8

\* Whether a row is being appended.
LEMMA Underway ==
    ASSUME NEW p, Procs = {p}
    PROVE  /\ AppendUnderWay <=> pc[p] \in InWrite /\ target[p].append
           /\ AppendUnderWay' <=> pc'[p] \in InWrite /\ target'[p].append
BY DEF AppendUnderWay

-----------------------------------------------------------------------------
(* The refinement *)

LEMMA ClientIsAlone ==
    ASSUME NEW p, Procs = {p}
    PROVE  /\ rowHeld = RowHeld(row[p]) /\ rowHeld' = RowHeld(row'[p])
           /\ callAsked = CallAsked(pc[p]) /\ callAsked' = CallAsked(pc'[p])
<1>1. Client = p
  BY DEF Client
<1> QED
  BY <1>1 DEF rowHeld, callAsked, RowHeld

\* What a call asks of the table goes with the steps it takes.
LEMMA AskedAt ==
    /\ CallAsked("idle") = "nothing" /\ CallAsked("rowRead") = "fetch"
    /\ \A label \in {"begin"} \cup InWrite : CallAsked(label) = "write"
    /\ \A label \in {"columnsSeek", "columnsWrite"} : CallAsked(label) = "map"
BY DEF CallAsked, InWrite

\* What a Row is to the table.
LEMMA HeldAs ==
    ASSUME NEW r \in RowRecords
    PROVE  /\ RowHeld(r).val = IF r.from = "none" THEN Blank ELSE r.val
           /\ r.from = "none" <=> RowHeld(r) = Abstract!NoRow
           /\ r.from = "stored" => RowHeld(r) = Abstract!FetchedRow(r.pos + 1, r.val)
           /\ r.from \in {"new", "appended"} =>
                 RowHeld(r) = [number |-> r.pos, fetched |-> FALSE, val |-> r.val]
<1>1. Blank \notin Values /\ r.val \in Values
  BY RowsAssumption DEF RowRecords
<1>2. r.from = "none" => RowHeld(r) = Abstract!NoRow
  BY DEF RowHeld, Abstract!NoRow
<1>3. r.from = "stored" => RowHeld(r) = Abstract!FetchedRow(r.pos + 1, r.val)
  BY DEF RowHeld, Abstract!FetchedRow
<1>4. r.from \in {"new", "appended"} =>
          RowHeld(r) = [number |-> r.pos, fetched |-> FALSE, val |-> r.val]
  BY DEF RowHeld
<1>5. RowHeld(r).val = IF r.from = "none" THEN Blank ELSE r.val
  BY DEF RowHeld
<1>6. Abstract!NoRow.val = Blank
  BY DEF Abstract!NoRow
<1>7. RowHeld(r) = Abstract!NoRow => r.from = "none"
  BY <1>1, <1>5, <1>6
<1> QED
  BY <1>2, <1>3, <1>4, <1>5, <1>7

LEMMA InitIsATable == ASSUME NEW p, Procs = {p}, Init PROVE Abstract!Init
<1>1. AloneInv
  BY InitAlone
<1>2. CountSeen = StartRows /\ StartRows \in 0..RowLimit /\ result = "none"
  BY RowsAssumption DEF Init, CountSeen, AppendUnderWay, InWrite
<1>3. PICK stored \in [0..StartRows-1 -> Values] :
        disk = [x \in Places |->
                  IF x = HeaderPlace THEN HeaderImage(StartRows)
                  ELSE IF x = ColumnsPlace THEN ColumnsImage
                  ELSE IF x - 2 \in 0..StartRows-1 THEN RowImage(stored[x - 2])
                  ELSE Nothing]
  BY DEF Init
<1>4. ASSUME NEW i \in 1..StartRows PROVE rowsSeen[i] \in Values
  <2> DEFINE slot == i - 1
  <2>1. slot \in 0..StartRows-1 /\ slot \in 0..RowLimit /\ slot \in Nat /\ slot + 1 = i
    BY <1>2, RowsAssumption
  <2> HIDE DEF slot
  <2>2. disk[RowPlace(slot)] = RowImage(stored[slot])
    BY <1>3, <2>1, PlacesHoldRows DEF RowPlace, HeaderPlace, ColumnsPlace
  <2>3. RowSeen(slot) \in Values
    BY <2>1, <2>2 DEF RowSeen, RowImage
  <2>4. rowsSeen[slot + 1] = RowSeen(slot)
    BY <1>1, <1>2, <2>1, SeenTable
  <2> QED
    BY <2>1, <2>3, <2>4
<1>5. rowsSeen \in Seq(Values \cup {Blank}) /\ Len(rowsSeen) = StartRows
  BY <1>1, <1>2, SeenTable DEF TableRows
<1>6. rowsSeen \in [1..StartRows -> Values]
  BY <1>4, <1>5, LenProperties
<1>7. rowsSeen \in Seq(Values)
  BY <1>2, <1>6, SeqDef
<1>8. PICK one : Procs = {one} /\ rowHeld = RowHeld(row[one]) /\ callAsked = CallAsked(pc[one])
  BY ClientIsAlone
<1>9. callAsked = "nothing" /\ rowPointer = 0
  BY <1>8, AskedAt DEF Init
<1>10. \/ rowHeld = Abstract!NoRow
      \/ \E i \in 1..Len(rowsSeen), v \in Values : rowHeld = Abstract!FetchedRow(i, v)
  <2>1. row[one] \in RowRecords /\ row[one].from \in {"none", "stored"}
        /\ (row[one].from = "stored" => row[one].pos < StartRows)
    BY <1>1, <1>8, RowsAssumption DEF Init, AloneInv, TypeInv, TypeOK, HeldRowsPlaced
  <2>2. CASE row[one].from = "none"
    BY <1>8, <2>1, <2>2, HeldAs
  <2>3. CASE row[one].from = "stored"
    <3>1. row[one].pos + 1 \in 1..Len(rowsSeen) /\ row[one].val \in Values
      BY <1>2, <1>5, <2>1, <2>3 DEF RowRecords
    <3> QED
      BY <1>8, <2>1, <2>3, <3>1, HeldAs
  <2> QED
    BY <2>1, <2>2, <2>3
<1> QED
  BY <1>2, <1>5, <1>7, <1>9, <1>10 DEF Abstract!Init

\* A call, the header and whatever goes on in a fetch change no row of the table.
LEMMA RowsStay ==
    ASSUME NEW p, Procs = {p}, AloneInv, AloneInv',
           \/ StoreCall(p) \/ FetchCall(p) \/ BeginWrite(p) \/ HeaderWrite(p)
           \/ ReadTransfer(p) \/ ColumnsWrite(p) \/ UNCHANGED vars
           \/ HeaderSeek(p) \/ RowSeek(p) \/ ColumnsSeek(p) \/ FetchFails(p)
    PROVE  UNCHANGED <<rowsSeen, result>>
<1> USE DEF AloneInv, TypeInv, TypeOK, InWrite
<1>1. result' = result
  BY DEF StoreCall, FetchCall, BeginWrite, HeaderWrite, ReadTransfer, ColumnsWrite, vars,
         HeaderSeek, RowSeek, ColumnsSeek, FetchFails, MakeRow, AddRow, WriteRow, MapRow, GoTo,
         ReadSeek
<1>2. \A slot \in 0..RowLimit : disk'[RowPlace(slot)] = disk[RowPlace(slot)]
  <2>1. CASE ReadTransfer(p) \/ ColumnsWrite(p)
    BY <2>1, FetchStaysAlone
  <2>2. CASE HeaderWrite(p)
    <3>1. \A slot \in 0..RowLimit : RowPlace(slot) \in Places \ {HeaderPlace}
      BY PlacesHoldRows, RowsAssumption DEF RowPlace, HeaderPlace
    <3> QED
      BY <2>2, <3>1, HeaderStaysAlone
  <2>3. CASE ~ (ReadTransfer(p) \/ ColumnsWrite(p) \/ HeaderWrite(p))
    BY <2>3 DEF StoreCall, FetchCall, BeginWrite, vars, HeaderSeek, RowSeek, ColumnsSeek,
                FetchFails, MakeRow, AddRow, WriteRow, MapRow, GoTo, ReadSeek
  <2> QED
    BY <2>1, <2>2, <2>3
<1>3. \A slot \in 0..RowLimit : RowSeen(slot)' = RowSeen(slot)
  BY <1>2 DEF RowSeen, RowPlace
<1>4. CountSeen' = CountSeen
  <2>1. CASE BeginWrite(p)
    <3>1. /\ pc[p] = "begin" /\ pc'[p] = "headerSeek" /\ target'[p].append = Appends(p)
          /\ rowsCount' = IF Appends(p) THEN rowsCount + 1 ELSE rowsCount
      BY <2>1 DEF BeginWrite, Goto
    <3>2. ~AppendUnderWay /\ (AppendUnderWay' <=> Appends(p)) /\ Appends(p) \in BOOLEAN
      <4>1. ~AppendUnderWay /\ (AppendUnderWay' <=> target'[p].append)
        BY <3>1, Underway
      <4>2. target'[p].append <=> Appends(p)
        BY <3>1, Zenon
      <4> QED
        BY <4>1, <4>2 DEF Appends
    <3> QED
      BY <3>1, <3>2 DEF CountSeen
  <2>2. CASE ~BeginWrite(p)
    <3>1. rowsCount' = rowsCount
      BY <2>2 DEF StoreCall, FetchCall, HeaderWrite, ReadTransfer, ColumnsWrite, vars,
         HeaderSeek, RowSeek, ColumnsSeek, FetchFails, MakeRow, AddRow, WriteRow, MapRow, GoTo,
         ReadSeek
    <3>2. \/ pc[p] \notin InWrite /\ pc'[p] \notin InWrite
          \/ pc[p] \in InWrite /\ pc'[p] \in InWrite /\ target' = target
      BY <2>2 DEF StoreCall, FetchCall, HeaderWrite, ReadTransfer, ColumnsWrite, vars,
         HeaderSeek, RowSeek, ColumnsSeek, FetchFails, MakeRow, AddRow, WriteRow, MapRow, GoTo,
         ReadSeek, Goto
    <3> QED
      BY <3>1, <3>2, Underway DEF CountSeen
  <2> QED
    BY <2>1, <2>2
<1> QED
  BY <1>1, <1>3, <1>4, TableMoves

\* A client begins a call.
LEMMA CallAppears ==
    ASSUME NEW p, Procs = {p}, AloneInv, AloneInv', StoreCall(p) \/ FetchCall(p)
    PROVE  Abstract!Ask \/ \E i \in 0..RowLimit : Abstract!GoTo(i)
<1>1. /\ pc[p] = "idle" /\ row[p] \in RowRecords /\ row'[p] \in RowRecords
      /\ rowsSeen' = rowsSeen /\ result' = result
  BY RowsStay DEF StoreCall, FetchCall, MakeRow, AddRow, WriteRow, MapRow, GoTo, ReadSeek, Goto,
                  AloneInv, TypeInv, TypeOK
<1>2. Len(rowsSeen) = rowsCount /\ callAsked = "nothing"
  <2>1. ~AppendUnderWay
    BY <1>1, Underway DEF InWrite
  <2> QED
    BY <1>1, <2>1, SeenTable, ClientIsAlone, AskedAt DEF CountSeen
<1>3. ASSUME NEW v \in Values, MakeRow(p, v) \/ AddRow(p, v) \/ MapRow(p, v) PROVE Abstract!Ask
  <2>1. /\ row'[p] = NewRow(v) /\ rowPointer' = rowPointer
        /\ \/ MakeRow(p, v) /\ pc'[p] = "idle"
           \/ AddRow(p, v) /\ pc'[p] = "begin"
           \/ MapRow(p, v) /\ pc'[p] = "columnsSeek"
    BY <1>1, <1>3 DEF MakeRow, AddRow, MapRow, Goto, AloneInv, TypeInv, TypeOK
  <2>2. rowHeld' = Abstract!NewRow(v)
    BY <1>1, <1>2, <2>1, ClientIsAlone, HeldAs DEF NewRow, Abstract!NewRow
  <2>3. callAsked' \in {"nothing", "write", "map"}
    BY <2>1, ClientIsAlone, AskedAt
  <2> QED
    BY <1>1, <1>2, <2>1, <2>2, <2>3
    DEF Abstract!Ask, Abstract!Make, Abstract!Add, Abstract!FromMap
<1>4. ASSUME NEW v \in Values, WriteRow(p, v) PROVE Abstract!Ask
  <2>1. /\ row[p].from # "none" /\ row' = [row EXCEPT ![p].val = v] /\ pc'[p] = "begin"
        /\ rowPointer' = rowPointer
    BY <1>4 DEF WriteRow, Goto, AloneInv, TypeInv, TypeOK
  <2>2. row'[p].from = row[p].from /\ row'[p].pos = row[p].pos /\ row'[p].val = v
    BY <1>1, <2>1 DEF AloneInv, TypeInv, TypeOK, RowRecords
  <2>3. rowHeld # Abstract!NoRow /\ rowHeld' = [rowHeld EXCEPT !.val = v]
    <3>1. rowHeld # Abstract!NoRow
      BY <1>1, <2>1, ClientIsAlone, HeldAs
    <3>2. RowHeld(row'[p]) = [RowHeld(row[p]) EXCEPT !.val = v]
      BY <2>1, <2>2 DEF RowHeld
    <3> QED
      BY <3>1, <3>2, ClientIsAlone
  <2>4. callAsked' = "write"
    BY <2>1, ClientIsAlone, AskedAt
  <2> QED
    BY <1>1, <1>2, <2>1, <2>3, <2>4 DEF Abstract!Ask, Abstract!Write
<1>5. ASSUME ReadSeek(p) PROVE Abstract!Ask
  <2>1. /\ rowPointer < rowsCount /\ pc'[p] = "rowRead" /\ row'[p] = row[p]
        /\ rowPointer' = rowPointer
    BY <1>5 DEF ReadSeek, Goto, AloneInv, TypeInv, TypeOK
  <2>2. callAsked' = "fetch" /\ rowHeld' = rowHeld
    BY <2>1, ClientIsAlone, AskedAt
  <2> QED
    BY <1>1, <1>2, <2>1, <2>2 DEF Abstract!Ask, Abstract!Fetch
<1>6. ASSUME NEW i \in 0..RowLimit, GoTo(p, i) PROVE Abstract!GoTo(i)
  <2>1. /\ rowPointer' = IF i > rowsCount THEN rowsCount ELSE i
        /\ pc'[p] = pc[p] /\ row'[p] = row[p]
    BY <1>6 DEF GoTo
  <2>2. callAsked' = callAsked /\ rowHeld' = rowHeld
    BY <2>1, ClientIsAlone
  <2> QED
    BY <1>1, <1>2, <2>1, <2>2 DEF Abstract!GoTo
<1> QED
  BY <1>3, <1>4, <1>5, <1>6 DEF StoreCall, FetchCall

\* The steps between the first and the last one of a call are nothing the client
\* sees.
LEMMA InnerStepsStutter ==
    ASSUME NEW p, Procs = {p}, AloneInv, AloneInv',
           \/ BeginWrite(p) \/ HeaderWrite(p) \/ UNCHANGED vars
           \/ HeaderSeek(p) \/ RowSeek(p) \/ ColumnsSeek(p)
    PROVE  UNCHANGED <<rowsSeen, rowPointer, rowHeld, callAsked, result>>
<1>1. UNCHANGED <<rowsSeen, result>>
  BY RowsStay
<1>2. rowPointer' = rowPointer
  BY DEF BeginWrite, HeaderWrite, vars, HeaderSeek, RowSeek, ColumnsSeek
<1>3. CallAsked(pc'[p]) = CallAsked(pc[p])
  BY AskedAt DEF BeginWrite, HeaderWrite, vars, HeaderSeek, RowSeek, ColumnsSeek, Goto, InWrite,
                 AloneInv, TypeInv, TypeOK
<1>4. RowHeld(row'[p]) = RowHeld(row[p])
  <2>1. CASE BeginWrite(p) /\ Appends(p)
    <3>1. row' = [row EXCEPT ![p].from = "appended"] /\ row[p] \in RowRecords
      BY <2>1 DEF BeginWrite, AloneInv, TypeInv, TypeOK
    <3>2. row'[p].from = "appended" /\ row'[p].pos = row[p].pos /\ row'[p].val = row[p].val
      BY <3>1 DEF AloneInv, TypeInv, TypeOK, RowRecords
    <3>3. row[p].from \in {"new", "appended"}
      <4>1. row[p].from # "none"
        BY <2>1 DEF BeginWrite, Goto, AloneInv, TypeInv, CallsHaveRows
      <4>2. row[p].from # "stored"
        BY <2>1, <3>1 DEF Appends, AloneInv, HeldRowsPlaced, TypeInv, TypeOK, RowRecords
      <4> QED
        BY <3>1, <4>1, <4>2 DEF RowRecords, Origins
    <3> QED
      BY <3>2, <3>3 DEF RowHeld
  <2>2. CASE ~(BeginWrite(p) /\ Appends(p))
    <3>1. row' = row
      BY <2>2 DEF BeginWrite, HeaderWrite, vars, HeaderSeek, RowSeek, ColumnsSeek
    <3> QED
      BY <3>1
  <2> QED
    BY <2>1, <2>2
<1> QED
  BY <1>1, <1>2, <1>3, <1>4, ClientIsAlone

\* A fetch gets what the row at the pointer holds; no call without the mutex changes
\* a row of the table.
LEMMA ReturnAppears ==
    ASSUME NEW p, Procs = {p}, AloneInv, AloneInv',
           ReadTransfer(p) \/ ColumnsWrite(p) \/ FetchFails(p)
    PROVE  Abstract!Fetched \/ Abstract!Return
<1>1. /\ UNCHANGED <<rowsSeen, result>> /\ rowPointer' = rowPointer /\ pc'[p] = "idle"
      /\ pc[p] \in {"rowRead", "columnsSeek", "columnsWrite"}
      /\ row[p] \in RowRecords /\ row'[p] \in RowRecords
  BY RowsStay DEF ReadTransfer, ColumnsWrite, FetchFails, Goto, AloneInv, TypeInv, TypeOK
<1>2. callAsked' = "nothing"
  BY <1>1, ClientIsAlone, AskedAt
<1>3. ASSUME row'[p] = row[p] \/ (row'[p].from = "none" /\ pc[p] # "rowRead")
      PROVE  Abstract!Return
  <2>1. \/ callAsked = "fetch" /\ rowHeld' = rowHeld
        \/ callAsked = "map" /\ (rowHeld' = rowHeld \/ rowHeld' = Abstract!NoRow)
    BY <1>1, <1>3, ClientIsAlone, AskedAt, HeldAs
  <2> QED
    BY <1>1, <1>2, <2>1 DEF Abstract!Return
<1>4. ASSUME ReadTransfer(p), row'[p] # row[p] PROVE Abstract!Fetched
  <2>1. /\ pc[p] = "rowRead" /\ AtOffset.kind = "row"
        /\ row'[p] = [pos |-> rowPointer, val |-> AtOffset.val, from |-> "stored"]
    BY <1>4 DEF ReadTransfer, Goto, FetchedPosition, AloneInv, TypeInv, TypeOK
  <2>2. offset = RowPlace(rowPointer) /\ rowPointer < rowsCount /\ rowPointer \in 0..RowLimit
    BY <2>1, RowsAssumption
    DEF AloneInv, TransfersHitTheirPlace, FetchesPlaced, TypeInv, TypeOK
  <2>3. RowSeen(rowPointer) = AtOffset.val
    <3>1. AtOffset = disk[RowPlace(rowPointer)]
      BY <2>2, PlacesHoldRows DEF AtOffset
    <3> QED
      BY <2>1, <3>1 DEF RowSeen
  <2>4. rowsSeen[rowPointer + 1] = RowSeen(rowPointer)
    <3>1. ~AppendUnderWay
      BY <2>1, Underway DEF InWrite
    <3> QED
      BY <2>2, <3>1, SeenTable DEF CountSeen
  <2>5. AtOffset.val \in Values /\ AtOffset.val # Blank
    BY <1>1, <2>1, RowsAssumption DEF RowRecords
  <2>6. rowHeld' = Abstract!FetchedRow(rowPointer + 1, AtOffset.val) /\ callAsked = "fetch"
    BY <1>1, <2>1, ClientIsAlone, AskedAt, HeldAs
  <2> QED
    BY <1>1, <1>2, <2>3, <2>4, <2>5, <2>6 DEF Abstract!Fetched
<1>5. ColumnsWrite(p) => row'[p] = row[p]
  BY DEF ColumnsWrite
<1>6. FetchFails(p) => row'[p] = row[p] \/ (row'[p].from = "none" /\ pc[p] # "rowRead")
  BY DEF FetchFails, AloneInv, TypeInv, TypeOK, RowRecords
<1> QED
  BY <1>3, <1>4, <1>5, <1>6

\* The end of a write, as the client knows it.
LEMMA WriteEnds ==
    ASSUME NEW p, Procs = {p}, AloneInv, AloneInv',
           pc[p] \in {"begin"} \cup InWrite, pc'[p] = "idle", UNCHANGED <<rowPointer, row>>
    PROVE  /\ callAsked = "write" /\ callAsked' = "nothing"
           /\ UNCHANGED <<rowPointer, rowHeld>>
           /\ IF row[p].from = "stored" THEN rowHeld = Abstract!FetchedRow(row[p].pos + 1, row[p].val)
              ELSE rowHeld = [number |-> row[p].pos, fetched |-> FALSE, val |-> row[p].val]
<1>1. row[p] \in RowRecords /\ row[p].from # "none"
  BY DEF AloneInv, TypeInv, TypeOK, CallsHaveRows
<1>2. callAsked = "write" /\ callAsked' = "nothing" /\ rowHeld' = rowHeld
  BY ClientIsAlone, AskedAt
<1>3. row[p].from # "stored" => row[p].from \in {"new", "appended"}
  BY <1>1 DEF RowRecords, Origins
<1> QED
  BY <1>1, <1>2, <1>3, ClientIsAlone, HeldAs

\* What is appended last and not written yet reads as a blank row.
LEMMA UnwrittenIsBlank ==
    ASSUME NEW p, Procs = {p}, AloneInv, AppendUnderWay
    PROVE  /\ rowsCount \in 1..RowLimit /\ CountSeen = rowsCount - 1
           /\ RowSeen(CountSeen) = Blank
<1>1. pc[p] \in InWrite /\ target[p].append
  BY Underway
<1>2. rowsCount > 0 /\ disk[RowPlace(rowsCount - 1)].kind # "row"
  BY <1>1 DEF AloneInv, WritesPlaced, TypeInv, TypeOK, Targets
<1>3. rowsCount \in 1..RowLimit /\ CountSeen = rowsCount - 1
  BY <1>1, <1>2 DEF CountSeen, AloneInv, TypeInv, TypeOK
<1> QED
  BY <1>2, <1>3 DEF RowSeen

\* The row that is written is the one its Row stands for.
LEMMA RowWriteAppears ==
    ASSUME NEW p, Procs = {p}, AloneInv, AloneInv', RowWrite(p) PROVE Abstract!Store
<1> DEFINE n == target[p].slot
           v == row[p].val
<1>1. /\ rowsCount' = rowsCount /\ rowsCount \in 0..RowLimit /\ result' = "ok"
      /\ pc[p] = "rowWrite" /\ pc'[p] = "idle"
      /\ n \in 0..rowsCount-1 /\ n \in 0..RowLimit /\ v \in Values
      /\ disk'[RowPlace(n)] = RowImage(v)
      /\ \A i \in 0..RowLimit : i # n => disk'[RowPlace(i)] = disk[RowPlace(i)]
  BY RowStaysAlone, RowsAssumption DEF AloneInv, TypeInv, TypeOK
<1>2. (AppendUnderWay <=> target[p].append) /\ ~AppendUnderWay'
  BY <1>1, Underway DEF InWrite
<1>3. \A slot \in 0..RowLimit : RowSeen(slot)' = IF slot = n THEN v ELSE RowSeen(slot)
  BY <1>1 DEF RowSeen, RowImage, RowPlace
<1>4. /\ callAsked = "write" /\ callAsked' = "nothing" /\ UNCHANGED <<rowPointer, rowHeld>>
      /\ row[p].from = "stored" => rowHeld = Abstract!FetchedRow(row[p].pos + 1, v)
      /\ row[p].from = "appended" => rowHeld = [number |-> row[p].pos, fetched |-> FALSE, val |-> v]
  <2>1. UNCHANGED <<rowPointer, row>>
    BY DEF RowWrite
  <2> QED
    BY <1>1, <2>1, WriteEnds DEF InWrite
<1>5. row[p].from \in {"stored", "appended"} /\ row[p].pos \in Nat
      /\ (~target[p].append => n = row[p].pos)
  BY <1>1 DEF AloneInv, WritesPlaced, InWrite, TypeInv, TypeOK, RowRecords
<1>6. ASSUME Abstract!AppendRow \/ Abstract!ReplaceRow \/ Abstract!RewriteLastRow
                 \/ Abstract!RewriteEarlierRow
      PROVE  Abstract!Store
  BY <1>1, <1>4, <1>6 DEF Abstract!Store
<1>7. CASE target[p].append
  <2>1. /\ row[p].from = "appended" /\ n = row[p].pos - 1
        /\ row[p].pos = rowsCount \/ row[p].pos = rowsCount - 1
    BY <1>1, <1>7 DEF AloneInv, WritesPlaced, InWrite
  <2>2. /\ CountSeen = rowsCount - 1 /\ CountSeen' = CountSeen + 1 /\ RowSeen(CountSeen) = Blank
        /\ Len(rowsSeen) = CountSeen /\ CountSeen \in 0..RowLimit
    <3>1. rowsCount \in 1..RowLimit /\ CountSeen = rowsCount - 1 /\ RowSeen(CountSeen) = Blank
      BY <1>2, <1>7, UnwrittenIsBlank
    <3> QED
      BY <1>1, <1>2, <3>1, SeenTable DEF CountSeen
  <2>3. CASE row[p].pos = rowsCount
    <3>1. n = CountSeen
      BY <2>1, <2>2, <2>3
    <3>2. Len(rowsSeen) < RowLimit /\ rowsSeen' = Append(rowsSeen, v)
      <4>1. \A slot \in 0..RowLimit : slot <= CountSeen =>
               RowSeen(slot)' = IF slot = CountSeen THEN v ELSE RowSeen(slot)
        BY <1>3, <3>1
      <4> QED
        BY <1>1, <2>2, <4>1, TableMoves
    <3>3. rowHeld.number = Len(rowsSeen) + 1 /\ ~rowHeld.fetched /\ rowHeld.val = v
      BY <1>1, <1>4, <2>1, <2>2, <2>3
    <3> QED
      BY <1>6, <3>2, <3>3 DEF Abstract!AppendRow
  <2>4. CASE row[p].pos = rowsCount - 1
    <3>1. n < CountSeen /\ n + 1 = row[p].pos
      BY <1>1, <1>5, <2>1, <2>2, <2>4
    <3>2. \A slot \in 0..RowLimit : slot <= CountSeen =>
             RowSeen(slot)' = IF slot = n THEN v
                              ELSE IF slot = CountSeen THEN Blank ELSE RowSeen(slot)
      BY <1>3, <2>2
    <3>3. Len(rowsSeen) < RowLimit /\ rowsSeen' = Append([rowsSeen EXCEPT ![n + 1] = v], Blank)
      BY <1>1, <2>2, <3>1, <3>2, TableMoves
    <3>4. rowHeld.number = n + 1 /\ rowHeld.number = Len(rowsSeen) /\ ~rowHeld.fetched
          /\ rowHeld.val = v
      BY <1>4, <2>1, <2>2, <2>4, <3>1
    <3> QED
      BY <1>6, <3>3, <3>4 DEF Abstract!RewriteLastRow
  <2> QED
    BY <2>1, <2>3, <2>4
<1>8. CASE ~target[p].append
  <2>1. CountSeen = rowsCount /\ CountSeen' = CountSeen /\ Len(rowsSeen) = rowsCount
    BY <1>1, <1>2, <1>8, SeenTable DEF CountSeen
  <2>2. n + 1 \in 1..Len(rowsSeen) /\ rowsSeen' = [rowsSeen EXCEPT ![n + 1] = v]
    <3>1. n < CountSeen
      BY <1>1, <2>1
    <3>2. \A slot \in 0..RowLimit : slot < CountSeen =>
             RowSeen(slot)' = IF slot = n THEN v ELSE RowSeen(slot)
      BY <1>3
    <3> HIDE DEF n, v
    <3> QED
      BY <1>1, <2>1, <3>1, <3>2, TableMoves
  <2>3. CASE row[p].from = "stored"
    <3>1. rowHeld.number = n + 1 /\ rowHeld.fetched /\ rowHeld.val = v
      BY <1>4, <1>5, <1>8, <2>3 DEF Abstract!FetchedRow
    <3> QED
      BY <1>6, <2>2, <3>1 DEF Abstract!ReplaceRow
  <2>4. CASE row[p].from = "appended"
    <3>1. rowHeld.number = n /\ ~rowHeld.fetched /\ rowHeld.val = v /\ n < Len(rowsSeen)
      BY <1>1, <1>4, <1>5, <1>8, <2>1, <2>4
    <3> QED
      BY <1>6, <2>2, <3>1 DEF Abstract!RewriteEarlierRow
  <2> QED
    BY <1>5, <2>3, <2>4
<1> QED
  BY <1>7, <1>8

\* While a row is appended the client is in a write that counts it.
LEMMA AppendCounts ==
    ASSUME NEW p, Procs = {p}, AloneInv, AppendUnderWay PROVE Abstract!Counts
<1>1. pc[p] \in InWrite /\ target[p].append /\ row[p] \in RowRecords
  BY Underway DEF AloneInv, TypeInv, TypeOK
<1>2. row[p].from = "appended" /\ (row[p].pos = rowsCount \/ row[p].pos = rowsCount - 1)
  BY <1>1 DEF AloneInv, WritesPlaced
<1>3. Len(rowsSeen) = rowsCount - 1 /\ rowsCount \in Nat
  BY SeenTable DEF CountSeen, AloneInv, TypeInv, TypeOK
<1>4. callAsked = "write" /\ rowHeld.number = row[p].pos /\ ~rowHeld.fetched
  BY <1>1, <1>2, ClientIsAlone, AskedAt, HeldAs
<1> QED
  BY <1>2, <1>3, <1>4 DEF Abstract!Counts

\* A write that fails leaves the table alone or counts a blank row.
LEMMA FailureAppears ==
    ASSUME NEW p, Procs = {p}, AloneInv, AloneInv',
           RefuseWrite(p) \/ ConversionFails(p) \/ WriteFails(p)
    PROVE  Abstract!StoreFails
<1>1. /\ UNCHANGED <<rowsCount, disk, target, row, rowPointer>> /\ result' = "error"
      /\ pc[p] \in {"begin"} \cup InWrite /\ pc'[p] = "idle"
  BY DEF RefuseWrite, ConversionFails, WriteFails, CountAfterFailure, Goto, InWrite, AloneInv,
         TypeInv, TypeOK
<1>2. ~AppendUnderWay'
  BY <1>1, Underway DEF InWrite
<1>3. \A slot \in 0..RowLimit : RowSeen(slot)' = RowSeen(slot)
  BY <1>1 DEF RowSeen, RowPlace
<1>4. callAsked = "write" /\ callAsked' = "nothing" /\ UNCHANGED <<rowPointer, rowHeld>>
  BY <1>1, WriteEnds
<1>5. CASE ~AppendUnderWay
  <2>1. CountSeen' = CountSeen
    BY <1>1, <1>2, <1>5 DEF CountSeen
  <2>2. rowsSeen' = rowsSeen
    BY <1>3, <2>1, TableMoves
  <2> QED
    BY <1>1, <1>4, <2>2 DEF Abstract!StoreFails
<1>6. CASE AppendUnderWay
  <2>1. /\ rowsCount \in 1..RowLimit /\ CountSeen = rowsCount - 1 /\ CountSeen' = rowsCount
        /\ RowSeen(CountSeen) = Blank
    BY <1>1, <1>2, <1>6, UnwrittenIsBlank DEF CountSeen
  <2>2. CountSeen' = CountSeen + 1
    BY <2>1
  <2>3. \A slot \in 0..RowLimit : slot <= CountSeen =>
           RowSeen(slot)' = IF slot = CountSeen THEN Blank ELSE RowSeen(slot)
    BY <1>3, <2>1
  <2>4. Len(rowsSeen) < RowLimit /\ rowsSeen' = Append(rowsSeen, Blank)
    BY <2>2, <2>3, TableMoves
  <2> QED
    BY <1>1, <1>4, <1>6, <2>4, AppendCounts DEF Abstract!StoreFails, Abstract!CountBlank
<1> QED
  BY <1>5, <1>6

\* A program that opens the file again finds the table without blank rows at its
\* end, or with the one of the append it died in.
LEMMA RestartAppears ==
    ASSUME NEW p, Procs = {p}, AloneInv, AloneInv', Restart PROVE Abstract!Reopen
<1>1. /\ rowsCount' = DiskCount /\ disk' = disk /\ result' = "none" /\ pc'[p] = "idle"
      /\ rowPointer' = 0 /\ row'[p].from = "none" /\ row'[p] \in RowRecords
  BY DEF Restart, CountOnOpen, AloneInv, TypeInv, TypeOK, RowRecords
<1>2. CountSeen' = DiskCount /\ DiskCount <= rowsCount /\ DiskCount \in 0..RowLimit
      /\ rowsCount \in 0..RowLimit
  <2>1. ~AppendUnderWay'
    BY <1>1, Underway DEF InWrite
  <2> QED
    BY <1>1, <2>1 DEF CountSeen, AloneInv, TypeInv, TypeOK
<1>3. \A slot \in 0..RowLimit : RowSeen(slot)' = RowSeen(slot)
  BY <1>1 DEF RowSeen, RowPlace
<1>4. CountSeen \in 0..RowLimit /\ Len(rowsSeen) = CountSeen
  BY SeenTable
<1>5. rowPointer' = 0 /\ rowHeld' = Abstract!NoRow /\ callAsked' = "nothing" /\ result' = "none"
  BY <1>1, ClientIsAlone, AskedAt, HeldAs
<1>6. CASE DiskCount <= CountSeen
  <2>1. rowsSeen' = SubSeq(rowsSeen, 1, DiskCount)
    BY <1>2, <1>3, <1>6, TableMoves
  <2>2. ASSUME NEW i \in DiskCount+1..Len(rowsSeen) PROVE rowsSeen[i] = Blank
    <3> DEFINE slot == i - 1
    <3>1. /\ slot \in Nat /\ slot \in 0..RowLimit /\ slot < CountSeen /\ slot + 1 = i
          /\ ~ slot < DiskCount
      BY <1>2, <1>4, RowsAssumption
    <3> HIDE DEF slot
    <3>2. RowSeen(slot) = Blank
      BY <3>1 DEF RowSeen, AloneInv, RowsAreCounted
    <3>3. rowsSeen[slot + 1] = RowSeen(slot)
      BY <3>1, SeenTable
    <3> QED
      BY <3>1, <3>2, <3>3
  <2>3. DiskCount \in 0..Len(rowsSeen)
    BY <1>2, <1>4, <1>6
  <2> QED
    BY <1>5, <2>1, <2>2, <2>3 DEF Abstract!Reopen
<1>7. CASE ~ DiskCount <= CountSeen
  <2>1. AppendUnderWay
    BY <1>2, <1>7 DEF CountSeen
  <2>2. RowSeen(CountSeen) = Blank /\ CountSeen = rowsCount - 1
    BY <2>1, UnwrittenIsBlank
  <2>3. CountSeen' = CountSeen + 1
    BY <1>2, <1>4, <1>7, <2>2
  <2>4. \A slot \in 0..RowLimit : slot <= CountSeen =>
           RowSeen(slot)' = IF slot = CountSeen THEN Blank ELSE RowSeen(slot)
    BY <1>3, <2>2
  <2>5. Len(rowsSeen) < RowLimit /\ rowsSeen' = Append(rowsSeen, Blank)
    BY <2>3, <2>4, TableMoves
  <2> QED
    BY <1>5, <2>1, <2>5, AppendCounts DEF Abstract!Reopen, Abstract!CountBlank
<1> QED
  BY <1>6, <1>7

\* For one goroutine that is alone on the table, whose calls may fail and whose
\* program may die at any step, the file with its header, its seek offset and its
\* steps is the abstract table, rows that were added and are written again included.
THEOREM FileIsATable == ASSUME NEW one, Procs = {one} PROVE Spec => ImplementsTable
<1>1. Init => Abstract!Init
  BY InitIsATable
<1>2. AloneInv /\ AloneInv' /\ [Next]_vars
         => [Abstract!Next]_<<rowsSeen, rowPointer, rowHeld, callAsked, result>>
  <2> SUFFICES ASSUME AloneInv, AloneInv', [Next]_vars
               PROVE  \/ Abstract!Next
                      \/ UNCHANGED <<rowsSeen, rowPointer, rowHeld, callAsked, result>>
    OBVIOUS
  <2>1. CASE StoreCall(one) \/ FetchCall(one)
    BY <2>1, CallAppears DEF Abstract!Next
  <2>2. CASE ReadTransfer(one) \/ ColumnsWrite(one) \/ FetchFails(one)
    BY <2>2, ReturnAppears DEF Abstract!Next
  <2>3. CASE RowWrite(one)
    BY <2>3, RowWriteAppears DEF Abstract!Next
  <2>4. CASE RefuseWrite(one) \/ ConversionFails(one) \/ WriteFails(one)
    BY <2>4, FailureAppears DEF Abstract!Next
  <2>5. CASE Restart
    BY <2>5, RestartAppears DEF Abstract!Next
  <2>6. CASE \/ BeginWrite(one) \/ HeaderWrite(one) \/ UNCHANGED vars
             \/ HeaderSeek(one) \/ RowSeek(one) \/ ColumnsSeek(one)
    BY <2>6, InnerStepsStutter
  <2> QED
    BY AloneSteps, <2>1, <2>2, <2>3, <2>4, <2>5, <2>6 DEF QuietStep
<1>3. Spec => []AloneInv
  BY AloneInvariant
<1> QED
  BY <1>1, <1>2, <1>3, PTL DEF Spec, ImplementsTable, Abstract!Spec, Abstract!tableVars
=============================================================================
