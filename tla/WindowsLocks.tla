---------------------------- MODULE WindowsLocks ----------------------------
(***************************************************************************)
(* The record locks of WindowsIO: programs that have the same table open   *)
(* with WriteLock, each with handles of its own, and the LockFileEx and    *)
(* UnlockFileEx calls around every write of a row, its memo and the        *)
(* columns.  What the writes store is the subject of RowStore and          *)
(* MemoStore.                                                              *)
(***************************************************************************)
EXTENDS Integers, FiniteSets

CONSTANTS
    Programs,    \* the programs that write to the table
    Slots,       \* the rows they write
    Blocks,      \* the memo blocks they write
    FirstRow,    \* header.FirstRow
    ColumnsAt,   \* 32: where WriteColumns locks and writes
    RowLength,   \* header.RowLength
    BlockSize,   \* memoHeader.BlockSize
    Word32,      \* 2^32
    Faults,      \* may a system call fail and a program exit in the middle?
    MaxStuck     \* bound on the regions that are left locked at a time

ASSUME ProgramsAssumption == Programs # {} /\ IsFiniteSet(Programs)
ASSUME LayoutAssumption ==
    /\ Slots \subseteq Nat /\ Blocks \subseteq Nat
    /\ FirstRow \in Nat \ {0} /\ ColumnsAt \in Nat /\ RowLength \in Nat \ {0} /\ BlockSize \in Nat \ {0}
    /\ Word32 \in Nat \ {0} /\ Faults \in BOOLEAN /\ MaxStuck \in Nat

\* The file limits keep the numbers the code converts to uint32 within a word.
ASSUME SizeAssumption ==
    /\ \A slot \in Slots : FirstRow + slot * RowLength + RowLength < Word32
    /\ \A block \in Blocks : block + BlockSize < Word32
    /\ ColumnsAt + FirstRow < Word32

VARIABLES
    pc,      \* the step of WriteRow each program is at
    job,     \* the row and the block each program writes
    locks,   \* the regions locked in the table file and in the memo file
    stuck    \* those that stayed locked when UnlockFileEx failed

vars == <<pc, job, locks, stuck>>

-----------------------------------------------------------------------------
(* The places WriteRow locks, and the regions it gives LockFileEx *)

\* WriteRow writes up to four places in this order, each behind a lock of its
\* own; WriteColumns writes one.
Places == {"memoHeader", "memoBlock", "header", "row", "columns"}
WaitingFor == [memoHeader |-> "memoHeaderWait", memoBlock |-> "memoBlockWait",
               header |-> "headerWait", row |-> "rowWait", columns |-> "columnsWait"]

\* Where a call starts: a row with a memo, a row without one, the columns.
Starts == {"memoHeader", "header", "columns"}
Labels == {"idle"} \cup Places \cup {WaitingFor[place] : place \in Places}

FileOf(place) == IF place \in {"memoHeader", "memoBlock"} THEN "memo" ELSE "table"

RowPosition(slot) == FirstRow + slot * RowLength

\* The two numbers the code computes for a place: where the write starts and
\* where it ends.  The memo header is given the first row of the table file,
\* a block its number in place of its offset.
Low(p, place) ==
    CASE place \in {"header", "memoHeader"} -> 0
      [] place = "memoBlock" -> job[p].block
      [] place = "row" -> RowPosition(job[p].slot)
      [] place = "columns" -> ColumnsAt

High(p, place) ==
    CASE place \in {"header", "memoHeader"} -> FirstRow
      [] place = "memoBlock" -> job[p].block + BlockSize
      [] place = "row" -> RowPosition(job[p].slot) + RowLength
      [] place = "columns" -> ColumnsAt + FirstRow

\* Mutant: the end is given as the low word of the length only.
FlatRegion(p, place) == [owner |-> p, file |-> FileOf(place), first |-> High(p, place),
                         length |-> Low(p, place)]

\* LockFileEx takes the first number as the low word and the second as the high
\* word, of the offset as well as of the length.
Region(p, place) ==
    LET number == Low(p, place) + High(p, place) * Word32
    IN  [owner |-> p, file |-> FileOf(place), first |-> number, length |-> number]

Overlap(r, s) ==
    /\ r.file = s.file
    /\ r.first < s.first + s.length /\ s.first < r.first + r.length

-----------------------------------------------------------------------------

Jobs == [slot : Slots, block : Blocks]

TypeOK ==
    /\ pc \in [Programs -> Labels]
    /\ job \in [Programs -> Jobs]
    /\ \A lock \in locks \cup stuck :
          lock.owner \in Programs /\ lock.first \in Nat /\ lock.length \in Nat

Init ==
    /\ pc = [p \in Programs |-> "idle"]
    /\ job \in [Programs -> Jobs]
    /\ locks = {} /\ stuck = {}

Goto(p, from, to) == pc[p] = from /\ pc' = [pc EXCEPT ![p] = to]

\* WriteRow of a row with or without a memo, or WriteColumns.
Begin(p, slot, block, start) ==
    /\ Goto(p, "idle", WaitingFor[start])
    /\ job' = [job EXCEPT ![p] = [slot |-> slot, block |-> block]]
    /\ UNCHANGED <<locks, stuck>>

\* An exclusive lock waits for every lock it overlaps, its own program's too.
LockPlace(p, place) ==
    /\ \A lock \in locks \cup stuck : ~Overlap(Region(p, place), lock)
    /\ Goto(p, WaitingFor[place], place)
    /\ locks' = locks \cup {Region(p, place)}
    /\ UNCHANGED <<job, stuck>>

Unlocked(p, place) == locks' = locks \ {Region(p, place)}

\* Mutant: the header is unlocked when the row is.
HeaderLockKept(p, place) ==
    locks' = CASE place = "header" -> locks
               [] place = "row" -> {lock \in locks : lock.owner # p}
               [] OTHER -> locks \ {Region(p, place)}

\* The deferred UnlockFileEx, on the way out of the write.
Unlock(p, place) == Unlocked(p, place)

Following(place) ==
    CASE place = "memoHeader" -> WaitingFor["memoBlock"]
      [] place = "memoBlock" -> WaitingFor["header"]
      [] place = "header" -> WaitingFor["row"]
      [] place \in {"row", "columns"} -> "idle"

\* UnlockFileEx gives the region free, or fails and leaves it locked.
UnlockResult(regions) ==
    \/ stuck' = stuck
    \/ Faults /\ stuck' = stuck \cup regions /\ Cardinality(stuck') <= MaxStuck

\* Seek, Write and the unlock.  The deferred function looks at the error of the
\* write and not at that of UnlockFileEx: the write goes on as if it was unlocked.
WritePlace(p, place) ==
    /\ Goto(p, place, Following(place))
    /\ Unlock(p, place)
    /\ UnlockResult({Region(p, place)})
    /\ UNCHANGED job

\* Mutant: the error return leaves the region locked.
UnlockNothing(p) == UNCHANGED locks

UnlockOnError(p) == locks' = {lock \in locks : lock.owner # p}

\* LockFileEx, Seek or Write fails; the deferred unlock runs.
WriteFails(p) ==
    /\ Faults
    /\ pc[p] # "idle"
    /\ pc' = [pc EXCEPT ![p] = "idle"]
    /\ UnlockOnError(p)
    /\ UnlockResult({lock \in locks : lock.owner = p})
    /\ UNCHANGED job

\* A program closes the table, exits or dies, and opens it again: Windows
\* releases what it had locked.
Exit(p) ==
    /\ Faults
    /\ pc' = [pc EXCEPT ![p] = "idle"]
    /\ locks' = {lock \in locks : lock.owner # p}
    /\ stuck' = {lock \in stuck : lock.owner # p}
    /\ UNCHANGED job

Next ==
    \E p \in Programs :
        \/ \E slot \in Slots, block \in Blocks, start \in Starts : Begin(p, slot, block, start)
        \/ \E place \in Places : LockPlace(p, place) \/ WritePlace(p, place)
        \/ WriteFails(p)
        \/ Exit(p)

Spec == Init /\ [][Next]_vars

\* A program in a write keeps running, and Windows grants a lock whose region
\* is free again and again.
Fairness ==
    \A p \in Programs :
        /\ WF_vars(\E place \in Places : WritePlace(p, place))
        /\ SF_vars(\E place \in Places : LockPlace(p, place))

FairSpec == Spec /\ Fairness

-----------------------------------------------------------------------------
(* Properties *)

Target(p, place) ==
    CASE place \in {"header", "memoHeader", "columns"} -> 0
      [] place = "memoBlock" -> job[p].block
      [] place = "row" -> job[p].slot

\* Two programs never write the same row, the same block, the columns or a
\* header at the same time, although the locked regions are not the bytes they
\* write, and whatever is left locked.
OneWriterPerPlace ==
    \A p, q \in Programs, place \in Places :
        p # q /\ pc[p] = place /\ pc[q] = place => Target(p, place) # Target(q, place)

\* Besides what UnlockFileEx failed to unlock, a program has locked the place it
\* is writing and nothing else: no other failing call leaves a lock behind.
OnlyTheWrittenIsLocked ==
    locks = {Region(p, pc[p]) : p \in {q \in Programs : pc[q] \in Places}}

\* Waits for a lock that nobody is going to unlock.
Blocked(p) ==
    \E place \in Places, lock \in stuck :
        pc[p] = WaitingFor[place] /\ Overlap(Region(p, place), lock)

\* Every write returns, or hangs behind a lock UnlockFileEx failed to unlock: no
\* program waits for a lock while it holds one, so none waits for another, or
\* for itself, for ever.
EveryWriteReturns == \A p \in Programs : pc[p] # "idle" ~> pc[p] = "idle" \/ Blocked(p)
=============================================================================
