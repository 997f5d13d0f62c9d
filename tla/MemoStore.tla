----------------------------- MODULE MemoStore -----------------------------
(***************************************************************************)
(* The memo (FPT) file of an open table: NextFree in memory and on disk,   *)
(* the blocks that WriteMemo allocates and fills, and the addresses that   *)
(* the rows keep.  A unit stands for the 8 bytes of a block header, so a   *)
(* memo of Size units takes 1 + Size units from the start of its block.    *)
(*                                                                         *)
(* WriteRow holds dbaseMutex from before WriteMemo until the row with the  *)
(* address is in the table file; ToBytes called by a client reaches        *)
(* WriteMemo without it.  Both take memoMutex inside WriteMemo.            *)
(***************************************************************************)
EXTENDS Integers, FiniteSets

CONSTANTS
    Procs,        \* the goroutines that write rows
    Converters,   \* those of them that call Row.ToBytes themselves, too
    Fields,       \* the memo fields of the rows of the table
    Memos,        \* memo contents, none of them all zero bytes
    Size,         \* their lengths in units
    MaxSize,      \* the largest of them
    Free,         \* a mutex held by nobody
    NoMemo,       \* what a field without a memo reads as
    HeaderUnits,  \* units of the header that WriteMemoHeader writes (512 bytes)
    BlockUnits,   \* units of a block (memoHeader.BlockSize)
    StartFree,    \* NextFree in the file that is opened
    BlockLimit,   \* bound: the blocks the disk has room for
    MayGrow,      \* may a memo be rewritten with one that needs more blocks?
    Faults        \* may a system call fail and the program die?

ASSUME SetsAssumption ==
    Converters \subseteq Procs /\ Free \notin Procs /\ NoMemo \notin Memos /\ Fields # {} /\ Memos # {}
ASSUME SizesAssumption ==
    /\ MaxSize \in Nat /\ Size \in [Memos -> 1..MaxSize]
    /\ HeaderUnits \in Nat \ {0} /\ BlockUnits \in Nat \ {0}
    /\ BlockLimit \in Nat /\ StartFree \in 0..BlockLimit
ASSUME SwitchesAssumption == MayGrow \in BOOLEAN /\ Faults \in BOOLEAN

VARIABLES
    nextFree,     \* file.memoHeader.NextFree
    dbaseMutex, memoMutex,
    memoFile,     \* the units of the memo file
    address,      \* what each field holds in its row on disk; 0 reads as empty
    saved,        \* was the last row written for the field written with a memo?
    pc, job,      \* the step each goroutine is at, and what it writes
    extent,       \* history: the blocks allocated at each block number
    kept,         \* history: the memo last written at each block number
    reach         \* history: the units up to which memos that outgrew their blocks
                  \* were written from each block number, 0 for none

vars == <<nextFree, dbaseMutex, memoMutex, memoFile, address, saved, pc, job,
          extent, kept, reach>>

-----------------------------------------------------------------------------
(* Units of the memo file *)

BlockNumbers == 0..BlockLimit

\* A memo in the last blocks may run over their end: there is room for any.
UnitNumbers == 0..(BlockLimit * BlockUnits + MaxSize)

HeaderUnit(n) == [kind |-> "header", next |-> n]
MemoUnit(m, k) == [kind |-> "memo", memo |-> m, part |-> k]  \* part 0: block header
ZeroUnit == [kind |-> "zero"]
Units ==
    [kind : {"header"}, next : Nat] \cup [kind : {"memo"}, memo : Memos, part : Nat]
        \cup {ZeroUnit}

Position(block) == block * BlockUnits

\* Mutant: a started block is not counted.
BlocksRoundedDown(m) == IF Size[m] < BlockUnits THEN 1 ELSE Size[m] \div BlockUnits

\* The blocks WriteMemo reserves: it counts the memo, not its block header.
Blocks(m) ==
    Size[m] \div BlockUnits + (IF Size[m] % BlockUnits > 0 THEN 1 ELSE 0)

\* The units WriteMemo writes: the block header and the memo, filled up with
\* zeros to one block and no further.
Written(m) == IF 1 + Size[m] < BlockUnits THEN BlockUnits ELSE 1 + Size[m]

\* What ReadMemo returns for an address: the block header says how long the
\* memo is; an address of zero bytes is read as no memo.
ReadMemo(block) ==
    IF block = 0 THEN NoMemo
    ELSE LET first == memoFile[Position(block)]
         IN  IF /\ first.kind = "memo" /\ first.part = 0
                /\ \A k \in 1..Size[first.memo] :
                      memoFile[Position(block) + k] = MemoUnit(first.memo, k)
             THEN first.memo ELSE NoMemo

DiskNextFree == memoFile[0].next
MemoHeaderReadable == memoFile[0].kind = "header"

-----------------------------------------------------------------------------

Labels == {"idle", "enter", "lock", "header", "data", "row"}
InMemo == {"header", "data"}
Jobs == [field : Fields, memo : Memos, at : BlockNumbers, viaRow : BOOLEAN]

\* What a goroutine outside a call has of its last one: nothing.
NoJob == CHOOSE j \in Jobs : j.at = 0 /\ ~j.viaRow
Forget(p) == [job EXCEPT ![p] = NoJob]

TypeOK ==
    /\ nextFree \in BlockNumbers
    /\ dbaseMutex \in Procs \cup {Free} /\ memoMutex \in Procs \cup {Free}
    /\ memoFile \in [UnitNumbers -> Units]
    /\ address \in [Fields -> BlockNumbers]
    /\ saved \in [Fields -> BOOLEAN]
    /\ pc \in [Procs -> Labels]
    /\ job \in [Procs -> Jobs]
    /\ extent \in [BlockNumbers -> Nat]
    /\ kept \in [BlockNumbers -> Memos \cup {NoMemo}]
    /\ reach \in [BlockNumbers -> Nat]

Init ==
    /\ nextFree = StartFree
    /\ dbaseMutex = Free /\ memoMutex = Free
    /\ memoFile = [u \in UnitNumbers |-> IF u = 0 THEN HeaderUnit(StartFree) ELSE ZeroUnit]
    /\ address = [f \in Fields |-> 0]
    /\ saved = [f \in Fields |-> FALSE]
    /\ pc = [p \in Procs |-> "idle"]
    /\ job = [p \in Procs |-> NoJob]
    /\ extent = [b \in BlockNumbers |-> 0]
    /\ kept = [b \in BlockNumbers |-> NoMemo]
    /\ reach = [b \in BlockNumbers |-> 0]

-----------------------------------------------------------------------------
(* The steps of a write *)

Goto(p, from, to) == pc[p] = from /\ pc' = [pc EXCEPT ![p] = to]

\* A goroutine writes memos with Row.Write, and may convert rows on its own.
Ways(p) == {TRUE} \cup {FALSE : q \in Converters \cap {p}}

\* A client sets the field to m in a row it fetched (address at: the one the
\* row was fetched with) or built itself (at = 0) and calls Row.Write or
\* Row.ToBytes.
Call(p, f, m, fetched, viaRow) ==
    /\ Goto(p, "idle", IF viaRow THEN "enter" ELSE "lock")
    /\ LET at == IF fetched THEN address[f] ELSE 0
       IN  /\ at # 0 /\ ~MayGrow => Blocks(m) <= extent[at]
           /\ job' = [job EXCEPT ![p] = [field |-> f, memo |-> m, at |-> at,
                                         viaRow |-> viaRow]]
    /\ UNCHANGED <<nextFree, dbaseMutex, memoMutex, memoFile, address, saved, extent, kept, reach>>

\* WriteRow takes dbaseMutex before ToBytes.
EnterWriteRow(p) ==
    /\ dbaseMutex = Free
    /\ Goto(p, "enter", "lock")
    /\ dbaseMutex' = p
    /\ UNCHANGED <<nextFree, memoMutex, memoFile, address, saved, job, extent, kept, reach>>

LockMemo(p) == memoMutex = Free /\ memoMutex' = p

\* Mutant: every memo is taken to fill one block.
OneBlockOn(m) == nextFree + 1

NextFreeAfter(m) == nextFree + Blocks(m)

\* WriteMemo for a new memo: the next free blocks are taken in memory.
Allocate(p) ==
    /\ LockMemo(p)
    /\ job[p].at = 0
    /\ nextFree + Blocks(job[p].memo) <= BlockLimit
    /\ Goto(p, "lock", "header")
    /\ job' = [job EXCEPT ![p].at = nextFree]
    /\ nextFree' = NextFreeAfter(job[p].memo)
    /\ extent' = [extent EXCEPT ![nextFree] = Blocks(job[p].memo)]
    /\ UNCHANGED <<dbaseMutex, memoFile, address, saved, kept, reach>>

\* Past BlockLimit the disk is full: the call returns its error.
DiskFull(p) ==
    /\ memoMutex = Free
    /\ job[p].at = 0
    /\ nextFree + Blocks(job[p].memo) > BlockLimit
    /\ Goto(p, "lock", "idle")
    /\ dbaseMutex' = IF dbaseMutex = p THEN Free ELSE dbaseMutex
    /\ job' = Forget(p)
    /\ UNCHANGED <<nextFree, memoMutex, memoFile, address, saved, extent, kept, reach>>

\* WriteMemo for a memo that has an address: it stays where it is.
Reuse(p) ==
    /\ LockMemo(p)
    /\ job[p].at # 0
    /\ Goto(p, "lock", "header")
    /\ UNCHANGED <<nextFree, dbaseMutex, memoFile, address, saved, job, extent, kept, reach>>

\* Mutant: the header is written only when the table is closed.
HeaderLeftForLater(p) == UNCHANGED memoFile

\* WriteMemoHeader: NextFree, then zeros to the end of the 512 bytes.
HeaderImage(p) ==
    memoFile' = [u \in UnitNumbers |->
                    IF u = 0 THEN HeaderUnit(nextFree)
                    ELSE IF u < HeaderUnits THEN ZeroUnit
                    ELSE memoFile[u]]

WriteMemoHeader(p) ==
    /\ Goto(p, "header", "data")
    /\ HeaderImage(p)
    /\ UNCHANGED <<nextFree, dbaseMutex, memoMutex, address, saved, job, extent, kept, reach>>

\* Block header, memo and padding, in one Write at the memo's position.
DataImage(p) ==
    LET m == job[p].memo
        at == Position(job[p].at)
    IN  memoFile' = [u \in UnitNumbers |->
                        IF u - at \in 0..Size[m] THEN MemoUnit(m, u - at)
                        ELSE IF u - at \in 0..(Written(m) - 1) THEN ZeroUnit
                        ELSE memoFile[u]]

\* What Blocks leaves out: a memo that fills its last block has no room there
\* for the block header, and a memo that is rewritten keeps the blocks it has.
Outgrows(p) ==
    LET m == job[p].memo
    IN  Size[m] % BlockUnits = 0 \/ Blocks(m) > extent[job[p].at]

ReachOf(p) ==
    LET end == Position(job[p].at) + 1 + Size[job[p].memo]
    IN  IF Outgrows(p) /\ end > reach[job[p].at] THEN end ELSE reach[job[p].at]

\* The memo is written, memoMutex released and the address returned.
WriteData(p) ==
    /\ Goto(p, "data", IF job[p].viaRow THEN "row" ELSE "idle")
    /\ DataImage(p)
    /\ memoMutex' = Free
    /\ kept' = [kept EXCEPT ![job[p].at] = job[p].memo]
    /\ reach' = [reach EXCEPT ![job[p].at] = ReachOf(p)]
    /\ job' = IF job[p].viaRow THEN job ELSE Forget(p)
    /\ UNCHANGED <<nextFree, dbaseMutex, address, saved, extent>>

\* Mutant: the row gets the block that is free after the memo.
NextBlock(p) == nextFree

BlockOfMemo(p) == job[p].at

\* WriteRow puts the row with the address into the table file and unlocks.
WriteRow(p) ==
    /\ Goto(p, "row", "idle")
    /\ dbaseMutex' = Free
    /\ address' = [address EXCEPT ![job[p].field] = BlockOfMemo(p)]
    /\ saved' = [saved EXCEPT ![job[p].field] = TRUE]
    /\ job' = Forget(p)
    /\ UNCHANGED <<nextFree, memoMutex, memoFile, extent, kept, reach>>

\* Writing a row with an empty memo stores zero bytes and no memo.
ClearMemo(p, f) ==
    /\ pc[p] = "idle" /\ dbaseMutex = Free
    /\ address' = [address EXCEPT ![f] = 0]
    /\ saved' = [saved EXCEPT ![f] = FALSE]
    /\ UNCHANGED <<nextFree, dbaseMutex, memoMutex, memoFile, pc, job, extent, kept, reach>>

Release(mutex, p) == IF mutex = p THEN Free ELSE mutex

\* Mutant: an error inside WriteMemo leaves memoMutex locked.
ReleaseMemoNever(p) == UNCHANGED memoMutex

ReleaseMemo(p) == memoMutex' = Release(memoMutex, p)

\* Mutant: a failing call gives its blocks back.
GiveBackBlocks(p) == IF pc[p] \in {"header", "data", "row"} THEN job[p].at ELSE nextFree

NextFreeAfterFailure(p) == nextFree

\* A failing call returns through the deferred Unlocks; blocks it took stay
\* taken.
CallFails(p) ==
    /\ Faults
    /\ pc[p] \in {"lock", "header", "data", "row"}
    /\ pc' = [pc EXCEPT ![p] = "idle"]
    /\ dbaseMutex' = Release(dbaseMutex, p)
    /\ ReleaseMemo(p)
    /\ nextFree' = NextFreeAfterFailure(p)
    /\ job' = Forget(p)
    /\ UNCHANGED <<memoFile, address, saved, extent, kept, reach>>

\* Mutant: the memo header is read little-endian, as the table header is.
LittleEndianNextFree == DiskNextFree * 256

NextFreeOnOpen == DiskNextFree

\* The program dies and opens the table again: NextFree is read from disk,
\* and blocks that were only taken in memory are free again.
Restart ==
    /\ Faults
    /\ MemoHeaderReadable
    /\ nextFree' = NextFreeOnOpen
    /\ dbaseMutex' = Free /\ memoMutex' = Free
    /\ pc' = [p \in Procs |-> "idle"]
    /\ extent' = [b \in BlockNumbers |-> IF b < DiskNextFree THEN extent[b] ELSE 0]
    /\ job' = [p \in Procs |-> NoJob]
    /\ UNCHANGED <<memoFile, address, saved, kept, reach>>

Continue(p) ==
    \/ EnterWriteRow(p) \/ Allocate(p) \/ DiskFull(p) \/ Reuse(p)
    \/ WriteMemoHeader(p) \/ WriteData(p) \/ WriteRow(p)

Next ==
    \/ \E p \in Procs :
          \/ \E f \in Fields, m \in Memos, fetched \in BOOLEAN, viaRow \in Ways(p) :
                Call(p, f, m, fetched, viaRow)
          \/ \E f \in Fields : ClearMemo(p, f)
          \/ Continue(p)
          \/ CallFails(p)
    \/ Restart

Spec == Init /\ [][Next]_vars

\* A goroutine inside a call keeps running; sync.Mutex is starvation-free.
Fairness == \A p \in Procs : SF_vars(Continue(p))

FairSpec == Spec /\ Fairness

-----------------------------------------------------------------------------
(* Properties *)

Allocated == {b \in BlockNumbers : extent[b] > 0}
End(b) == b + extent[b]

\* A memo that outgrew its blocks was written over a block that holds another
\* one: each of the two may have been written over the other.
Clash(b) ==
    \E a, c \in BlockNumbers :
        a < c /\ b \in {a, c} /\ kept[c] # NoMemo /\ reach[a] > Position(c)

\* No two memos are given a common block and none is given a block of the
\* header, whoever writes and whatever fails; NextFree is past all of them.
BlocksDisjoint ==
    \A a \in Allocated :
        /\ HeaderUnits <= Position(a)
        /\ End(a) <= nextFree
        /\ \A b \in Allocated : a # b => End(a) <= b \/ End(b) <= a

\* What WriteMemo wrote stays readable at its address until it is rewritten
\* there: no other memo and no header touches it, except where one of the two
\* outgrew its blocks and reaches the other.
MemosKept == \A b \in BlockNumbers : kept[b] # NoMemo => ReadMemo(b) = kept[b] \/ Clash(b)

\* A row that was written with a memo holds the address of a complete memo,
\* also after a crash between the memo and the row, with the same exception.
SavedMemosRead ==
    \A f \in Fields :
        saved[f] => \/ Clash(address[f])
                    \/ ReadMemo(address[f]) # NoMemo /\ ReadMemo(address[f]) = kept[address[f]]

\* The header on disk is past every memo in the file, so a program that
\* reopens the file never hands out a used block: WriteMemo writes the header
\* before the memo.
DiskCoversMemos ==
    /\ MemoHeaderReadable
    /\ \A b \in BlockNumbers : kept[b] # NoMemo => b \in Allocated /\ End(b) <= DiskNextFree

\* A block number that holds a memo is never handed out again.
NeverReallocated ==
    [][ \A b \in BlockNumbers : kept[b] # NoMemo => extent'[b] = extent[b] ]_vars

\* Every call returns: the two mutexes are always taken in the same order
\* and released on every path.
EveryCallReturns == \A p \in Procs : pc[p] # "idle" ~> pc[p] = "idle"
=============================================================================
