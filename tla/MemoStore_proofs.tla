-------------------------- MODULE MemoStore_proofs --------------------------
(***************************************************************************)
(* Proofs about MemoStore, for any goroutines, fields, memos and blocks.   *)
(***************************************************************************)
EXTENDS MemoStore, TLAPS

-----------------------------------------------------------------------------
(* Blocks and units *)

\* Blocks follow one another: each begins BlockUnits behind the one before.
LEMMA PositionsOrdered ==
    ASSUME NEW a \in Nat, NEW b \in Nat
    PROVE  /\ Position(a) \in Nat
           /\ a <= b => Position(a) <= Position(b)
           /\ a < b => Position(a) + BlockUnits <= Position(b)
<1>1. \A n \in Nat : n * BlockUnits \in Nat
  BY SizesAssumption
<1>2. ASSUME a <= b PROVE Position(a) <= Position(b)
  <2>1. b * BlockUnits = a * BlockUnits + (b - a) * BlockUnits
    BY SizesAssumption
  <2>2. (b - a) * BlockUnits \in Nat
    BY <1>1, <1>2
  <2> QED
    BY <1>1, <2>1, <2>2 DEF Position
<1>3. ASSUME a < b PROVE Position(a) + BlockUnits <= Position(b)
  <2>1. b * BlockUnits = a * BlockUnits + BlockUnits + (b - a - 1) * BlockUnits
    BY SizesAssumption
  <2>2. (b - a - 1) * BlockUnits \in Nat
    BY <1>1, <1>3
  <2> QED
    BY <1>1, <2>1, <2>2, SizesAssumption DEF Position
<1> QED
  BY <1>1, <1>2, <1>3 DEF Position

\* Quotient and remainder, and the number they come from.
LEMMA Division ==
    ASSUME NEW a \in Nat, NEW b \in Nat \ {0}, NEW q, q = a \div b, NEW r, r = a % b
    PROVE  q \in Nat /\ r \in 0..b-1 /\ a = q * b + r
<1>1. q \in Int /\ r \in Int
  OBVIOUS
<1>2. ASSUME NEW c \in Int, c = b * q PROVE q \in Nat /\ r \in 0..b-1 /\ a = c + r
  BY <1>1, <1>2
<1> QED
  BY <1>1, <1>2

\* A memo gets a block at least, and unless it fills its last block they hold
\* the memo and its block header.
LEMMA BlocksHoldMemo ==
    ASSUME NEW m \in Memos
    PROVE  /\ Blocks(m) \in Nat \ {0}
           /\ Size[m] % BlockUnits # 0 => 1 + Size[m] <= Position(Blocks(m))
<1> DEFINE q == Size[m] \div BlockUnits
           r == Size[m] % BlockUnits
<1>1. Size[m] \in Nat \ {0} /\ BlockUnits \in Nat \ {0}
  BY SizesAssumption
<1>2. /\ q \in Nat /\ r \in Nat /\ r < BlockUnits
      /\ Size[m] = q * BlockUnits + r
  <2> HIDE DEF q, r
  <2> QED
    BY <1>1, Division DEF q, r
<1> HIDE DEF q, r
<1>3. r = 0 => q # 0
  BY <1>1, <1>2
<1>4. (q + 1) * BlockUnits = q * BlockUnits + BlockUnits
  BY <1>1, <1>2
<1>5. Blocks(m) = q + (IF r > 0 THEN 1 ELSE 0)
  BY DEF Blocks, q, r
<1>6. Blocks(m) \in Nat \ {0}
  BY <1>2, <1>3, <1>5
<1>7. r # 0 => 1 + Size[m] <= Position(Blocks(m))
  BY <1>1, <1>2, <1>4, <1>5 DEF Position
<1> QED
  BY <1>6, <1>7 DEF r

LEMMA UnitsOfBlocks ==
    /\ 0 \in UnitNumbers /\ UnitNumbers \subseteq Nat
    /\ \A b \in BlockNumbers, k \in 0..MaxSize : Position(b) + k \in UnitNumbers
<1>1. BlockLimit * BlockUnits \in Nat
  BY SizesAssumption
<1>2. ASSUME NEW b \in BlockNumbers, NEW k \in 0..MaxSize PROVE Position(b) + k \in UnitNumbers
  <2>1. Position(b) \in Nat /\ Position(b) <= BlockLimit * BlockUnits
    BY PositionsOrdered, SizesAssumption DEF BlockNumbers, Position
  <2> QED
    BY <1>1, <2>1, SizesAssumption DEF UnitNumbers
<1> QED
  BY <1>1, <1>2, SizesAssumption DEF UnitNumbers

LEMMA NoJobIsAJob == NoJob \in Jobs /\ NoJob.at = 0 /\ ~NoJob.viaRow
<1>1. PICK f \in Fields, m \in Memos : TRUE
  BY SetsAssumption
<1>2. [field |-> f, memo |-> m, at |-> 0, viaRow |-> FALSE] \in Jobs
  BY SizesAssumption DEF Jobs, BlockNumbers
<1>3. \E j \in Jobs : j.at = 0 /\ ~j.viaRow
  BY <1>2
<1> QED
  BY <1>3 DEF NoJob

-----------------------------------------------------------------------------
(* Allocation: who holds which blocks, in memory and in the file *)

\* memoMutex is held by the goroutine that is inside WriteMemo, so there is at
\* most one.
MemoMutexHeld == \A p \in Procs : pc[p] \in InMemo <=> memoMutex = p

\* NextFree on disk may be behind the one in memory, but never in the middle of
\* blocks that were taken together, and never in the header: what a restart
\* frees was not written yet.
NextFreeCovers ==
    /\ DiskNextFree \in BlockNumbers /\ DiskNextFree <= nextFree
    /\ HeaderUnits <= Position(DiskNextFree)
    /\ \A b \in Allocated : End(b) <= DiskNextFree \/ DiskNextFree <= b

\* An address, in a row of the file or with a goroutine, has a memo; a memo that
\* is being written has its blocks, and once the header is written they are
\* counted there.
RowsHaveMemos == \A f \in Fields : address[f] # 0 \/ saved[f] => kept[address[f]] # NoMemo

JobsHaveBlocks ==
    \A p \in Procs :
        /\ pc[p] \in {"enter", "lock"} /\ job[p].at # 0 => kept[job[p].at] # NoMemo
        /\ pc[p] = "row" => kept[job[p].at] # NoMemo
        /\ pc[p] \in InMemo => job[p].at \in Allocated
        /\ pc[p] = "data" => End(job[p].at) <= DiskNextFree

AllocInv ==
    /\ TypeOK /\ BlocksDisjoint /\ DiskCoversMemos
    /\ MemoMutexHeld /\ NextFreeCovers /\ RowsHaveMemos /\ JobsHaveBlocks

LEMMA InitAllocates ==
    ASSUME HeaderUnits <= Position(StartFree), Init PROVE AllocInv
<1>1. memoFile[0] = HeaderUnit(StartFree)
  BY UnitsOfBlocks DEF Init
<1>2. TypeOK
  <2>1. memoFile \in [UnitNumbers -> Units]
    BY SizesAssumption DEF Init, Units, HeaderUnit, ZeroUnit
  <2>2. job \in [Procs -> Jobs]
    BY NoJobIsAJob DEF Init
  <2> QED
    BY <2>1, <2>2, SizesAssumption DEF Init, TypeOK, Labels, BlockNumbers
<1>3. Allocated = {} /\ \A b \in BlockNumbers : kept[b] = NoMemo
  BY DEF Init, Allocated
<1>4. BlocksDisjoint /\ DiskCoversMemos
  BY <1>1, <1>3 DEF BlocksDisjoint, DiskCoversMemos, MemoHeaderReadable, HeaderUnit
<1>5. NextFreeCovers
  BY <1>1, <1>3, SizesAssumption
  DEF Init, NextFreeCovers, DiskNextFree, HeaderUnit, BlockNumbers
<1>6. MemoMutexHeld /\ RowsHaveMemos /\ JobsHaveBlocks
  BY SetsAssumption DEF Init, MemoMutexHeld, RowsHaveMemos, JobsHaveBlocks, InMemo
<1> QED
  BY <1>2, <1>4, <1>5, <1>6 DEF AllocInv

\* Steps that leave the blocks and the file as they are.
LEMMA BlocksUntouched ==
    ASSUME AllocInv, UNCHANGED <<nextFree, memoFile, extent, kept>>
    PROVE  BlocksDisjoint' /\ DiskCoversMemos' /\ NextFreeCovers'
BY DEF AllocInv, BlocksDisjoint, DiskCoversMemos, NextFreeCovers, Allocated, End,
       MemoHeaderReadable, DiskNextFree

LEMMA RowStepsAllocate ==
    ASSUME AllocInv, NEW p \in Procs,
           \/ \E f \in Fields, m \in Memos, fetched \in BOOLEAN, viaRow \in Ways(p) :
                 Call(p, f, m, fetched, viaRow)
           \/ EnterWriteRow(p) \/ DiskFull(p) \/ Reuse(p) \/ WriteRow(p) \/ CallFails(p)
           \/ \E f \in Fields : ClearMemo(p, f)
    PROVE  AllocInv'
<1> USE DEF AllocInv, TypeOK, Labels, InMemo
<1>1. UNCHANGED <<nextFree, memoFile, extent, kept, reach>>
  BY DEF Call, EnterWriteRow, DiskFull, Reuse, WriteRow, CallFails, ClearMemo,
         NextFreeAfterFailure
<1>2. BlocksDisjoint' /\ DiskCoversMemos' /\ NextFreeCovers'
  BY <1>1, BlocksUntouched
<1>3. DiskNextFree' = DiskNextFree /\ Allocated' = Allocated
      /\ \A b \in BlockNumbers : End(b)' = End(b)
  BY <1>1 DEF DiskNextFree, Allocated, End
<1>4. ASSUME NEW f \in Fields, NEW m \in Memos, NEW fetched \in BOOLEAN,
             NEW viaRow \in Ways(p), Call(p, f, m, fetched, viaRow)
      PROVE  AllocInv'
  <2> DEFINE at == IF fetched THEN address[f] ELSE 0
  <2>1. at \in BlockNumbers /\ (at # 0 => kept[at] # NoMemo)
    <3>1. CASE fetched
      BY <3>1 DEF RowsHaveMemos
    <3>2. CASE ~fetched
      BY <3>2, SizesAssumption DEF BlockNumbers
    <3> QED
      BY <3>1, <3>2
  <2>2. /\ job' = [job EXCEPT ![p] = [field |-> f, memo |-> m, at |-> at, viaRow |-> viaRow]]
        /\ pc[p] = "idle" /\ UNCHANGED <<dbaseMutex, memoMutex, address, saved>>
    BY <1>4 DEF Call, Goto
  <2>3. \E label \in {"enter", "lock"} : pc' = [pc EXCEPT ![p] = label]
    BY <1>4 DEF Call, Goto
  <2> HIDE DEF at
  <2>4. TypeOK'
    <3>1. viaRow \in BOOLEAN
      BY DEF Ways
    <3> QED
      BY <1>1, <2>1, <2>2, <2>3, <3>1 DEF Jobs
  <2>5. MemoMutexHeld' /\ RowsHaveMemos'
    BY <1>1, <2>2, <2>3 DEF MemoMutexHeld, RowsHaveMemos
  <2>6. JobsHaveBlocks'
    BY <1>1, <1>3, <2>1, <2>2, <2>3 DEF JobsHaveBlocks, Jobs
  <2> QED
    BY <1>2, <2>4, <2>5, <2>6
<1>5. CASE EnterWriteRow(p)
  BY <1>1, <1>2, <1>3, <1>5
  DEF EnterWriteRow, Goto, MemoMutexHeld, RowsHaveMemos, JobsHaveBlocks, Jobs
<1>6. CASE DiskFull(p)
  <2>1. TypeOK'
    BY <1>1, <1>6, NoJobIsAJob DEF DiskFull, Goto, Forget
  <2>2. MemoMutexHeld' /\ RowsHaveMemos'
    BY <1>1, <1>6 DEF DiskFull, Goto, MemoMutexHeld, RowsHaveMemos
  <2>3. JobsHaveBlocks'
    BY <1>1, <1>3, <1>6 DEF DiskFull, Goto, Forget, JobsHaveBlocks, Jobs
  <2> QED
    BY <1>2, <2>1, <2>2, <2>3
<1>7. CASE Reuse(p)
  <2>1. job[p].at \in Allocated
    BY <1>7 DEF Reuse, Goto, JobsHaveBlocks, DiskCoversMemos, Jobs
  <2>2. TypeOK' /\ MemoMutexHeld' /\ RowsHaveMemos'
    BY <1>1, <1>7, SetsAssumption DEF Reuse, LockMemo, Goto, MemoMutexHeld, RowsHaveMemos
  <2>3. JobsHaveBlocks'
    BY <1>1, <1>3, <1>7, <2>1 DEF Reuse, Goto, JobsHaveBlocks, Jobs
  <2> QED
    BY <1>2, <2>2, <2>3
<1>8. CASE WriteRow(p)
  <2>1. kept[job[p].at] # NoMemo /\ job[p] \in Jobs
    BY <1>8 DEF WriteRow, Goto, JobsHaveBlocks
  <2>2. TypeOK'
    BY <1>1, <1>8, <2>1, NoJobIsAJob DEF WriteRow, Goto, Forget, Jobs, BlockOfMemo
  <2>3. MemoMutexHeld'
    BY <1>8 DEF WriteRow, Goto, MemoMutexHeld
  <2>4. RowsHaveMemos'
    BY <1>1, <1>8, <2>1 DEF WriteRow, BlockOfMemo, RowsHaveMemos
  <2>5. JobsHaveBlocks'
    BY <1>1, <1>3, <1>8 DEF WriteRow, Goto, Forget, JobsHaveBlocks, Jobs
  <2> QED
    BY <1>2, <2>2, <2>3, <2>4, <2>5
<1>9. CASE CallFails(p)
  <2>1. TypeOK'
    BY <1>1, <1>9, NoJobIsAJob DEF CallFails, Forget, ReleaseMemo, Release
  <2>2. MemoMutexHeld' /\ RowsHaveMemos'
    BY <1>1, <1>9, SetsAssumption
    DEF CallFails, ReleaseMemo, Release, MemoMutexHeld, RowsHaveMemos
  <2>3. JobsHaveBlocks'
    BY <1>1, <1>3, <1>9 DEF CallFails, Forget, JobsHaveBlocks, Jobs
  <2> QED
    BY <1>2, <2>1, <2>2, <2>3
<1>10. ASSUME NEW f \in Fields, ClearMemo(p, f) PROVE AllocInv'
  <2> USE DEF ClearMemo
  <2>5. saved' \in [Fields -> BOOLEAN] /\ address' \in [Fields -> BlockNumbers]
    BY <1>10, SizesAssumption DEF BlockNumbers
  <2>1. TypeOK' /\ MemoMutexHeld'
    BY <1>1, <1>10, <2>5 DEF MemoMutexHeld
  <2>2. \A g \in Fields : IF g = f THEN address'[g] = 0 /\ ~saved'[g]
                          ELSE address'[g] = address[g] /\ saved'[g] = saved[g]
    BY <1>10 DEF ClearMemo
  <2>3. RowsHaveMemos'
    BY <1>1, <2>2 DEF RowsHaveMemos
  <2>4. JobsHaveBlocks'
    BY <1>1, <1>3, <1>10 DEF ClearMemo, JobsHaveBlocks, Jobs
  <2> QED
    BY <1>2, <2>1, <2>3, <2>4
<1> QED
  BY <1>4, <1>5, <1>6, <1>7, <1>8, <1>9, <1>10

\* The blocks from nextFree on are taken: nobody had them.
LEMMA AllocateAllocates ==
    ASSUME AllocInv, NEW p \in Procs, Allocate(p) PROVE AllocInv'
<1> USE DEF AllocInv, TypeOK, Labels, InMemo
<1> DEFINE m == job[p].memo
<1>1. /\ m \in Memos /\ Blocks(m) \in Nat \ {0} /\ nextFree + Blocks(m) <= BlockLimit
      /\ nextFree \in BlockNumbers /\ nextFree' = nextFree + Blocks(m)
      /\ extent' = [extent EXCEPT ![nextFree] = Blocks(m)]
      /\ job' = [job EXCEPT ![p].at = nextFree]
      /\ memoMutex = Free /\ memoMutex' = p /\ pc[p] = "lock"
      /\ pc' = [pc EXCEPT ![p] = "header"]
      /\ UNCHANGED <<dbaseMutex, memoFile, address, saved, kept, reach>>
  BY BlocksHoldMemo DEF Allocate, LockMemo, Goto, NextFreeAfter, Jobs
<1> HIDE DEF m
<1>2. TypeOK'
  <2>1. nextFree' \in BlockNumbers
    BY <1>1, SizesAssumption DEF BlockNumbers
  <2> QED
    BY <1>1, <2>1 DEF Jobs
<1>3. DiskNextFree' = DiskNextFree /\ MemoHeaderReadable' = MemoHeaderReadable
  BY <1>1 DEF DiskNextFree, MemoHeaderReadable
<1>4. \A b \in Allocated : b < nextFree /\ End(b) <= nextFree
  BY SizesAssumption DEF BlocksDisjoint, Allocated, End, BlockNumbers
<1>5. /\ Allocated' = Allocated \cup {nextFree} /\ nextFree \notin Allocated
      /\ \A b \in BlockNumbers : b = nextFree => End(b)' = nextFree'
      /\ \A b \in Allocated : End(b)' = End(b) /\ b \in BlockNumbers /\ End(b) \in Nat
  <2>1. \A b \in BlockNumbers : extent'[b] = IF b = nextFree THEN Blocks(m) ELSE extent[b]
    BY <1>1
  <2>2. Allocated' = Allocated \cup {nextFree} /\ nextFree \notin Allocated
    BY <1>1, <1>4, <2>1 DEF Allocated, BlockNumbers
  <2>3. \A b \in BlockNumbers : b = nextFree => End(b)' = nextFree'
    BY <1>1, <2>1 DEF End
  <2>4. \A b \in Allocated : End(b)' = End(b) /\ b \in BlockNumbers /\ End(b) \in Nat
    BY <1>4, <2>1, SizesAssumption DEF Allocated, End, BlockNumbers
  <2> QED
    BY <2>2, <2>3, <2>4
<1>6. HeaderUnits <= Position(nextFree)
  <2>1. Position(DiskNextFree) <= Position(nextFree) /\ Position(DiskNextFree) \in Nat
        /\ Position(nextFree) \in Nat
    BY PositionsOrdered, <1>1 DEF NextFreeCovers, BlockNumbers
  <2> QED
    BY <2>1, SizesAssumption DEF NextFreeCovers
<1>7. BlocksDisjoint'
  <2>1. nextFree <= nextFree' /\ nextFree \in Nat /\ nextFree' \in Nat
    BY <1>1, SizesAssumption DEF BlockNumbers
  <2>2. \A a \in Allocated' : HeaderUnits <= Position(a) /\ End(a)' <= nextFree'
    BY <1>1, <1>4, <1>5, <1>6, <2>1 DEF BlocksDisjoint
  <2>3. \A a, b \in Allocated' : a # b => End(a)' <= b \/ End(b)' <= a
    BY <1>1, <1>4, <1>5, <2>1 DEF BlocksDisjoint
  <2> QED
    BY <2>2, <2>3 DEF BlocksDisjoint
<1>8. DiskCoversMemos'
  BY <1>1, <1>3, <1>5 DEF DiskCoversMemos
<1>9. NextFreeCovers'
  BY <1>1, <1>3, <1>5 DEF NextFreeCovers, BlockNumbers
<1>10. MemoMutexHeld' /\ RowsHaveMemos'
  BY <1>1, SetsAssumption DEF MemoMutexHeld, RowsHaveMemos
<1>11. JobsHaveBlocks'
  BY <1>1, <1>3, <1>5 DEF JobsHaveBlocks, Jobs
<1> QED
  BY <1>2, <1>7, <1>8, <1>9, <1>10, <1>11

\* The header counts every block that is taken.
LEMMA HeaderAllocates ==
    ASSUME AllocInv, NEW p \in Procs, WriteMemoHeader(p) PROVE AllocInv'
<1> USE DEF AllocInv, TypeOK, Labels, InMemo
<1>1. /\ pc[p] = "header" /\ pc' = [pc EXCEPT ![p] = "data"]
      /\ UNCHANGED <<nextFree, dbaseMutex, memoMutex, address, saved, job, extent, kept, reach>>
  BY DEF WriteMemoHeader, Goto
<1>2. /\ memoFile' \in [UnitNumbers -> Units]
      /\ memoFile'[0] = HeaderUnit(nextFree)
  BY UnitsOfBlocks DEF WriteMemoHeader, HeaderImage, Units, HeaderUnit, ZeroUnit, BlockNumbers
<1>3. MemoHeaderReadable' /\ DiskNextFree' = nextFree
  BY <1>2 DEF MemoHeaderReadable, DiskNextFree, HeaderUnit
<1>4. Allocated' = Allocated /\ \A b \in BlockNumbers : End(b)' = End(b)
  BY <1>1 DEF Allocated, End
<1>5. \A b \in Allocated : End(b) <= nextFree
  BY DEF BlocksDisjoint
<1>6. TypeOK' /\ BlocksDisjoint'
  BY <1>1, <1>2, <1>4 DEF BlocksDisjoint, Allocated
<1>7. DiskCoversMemos'
  BY <1>1, <1>3, <1>4, <1>5 DEF DiskCoversMemos
<1>8. NextFreeCovers'
  <2>1. HeaderUnits <= Position(nextFree)
    <3>1. /\ Position(DiskNextFree) <= Position(nextFree)
          /\ Position(DiskNextFree) \in Nat /\ Position(nextFree) \in Nat
      BY PositionsOrdered DEF NextFreeCovers, BlockNumbers
    <3> QED
      BY <3>1, SizesAssumption DEF NextFreeCovers
  <2> QED
    BY <1>1, <1>3, <1>4, <1>5, <2>1 DEF NextFreeCovers, BlockNumbers, Allocated
<1>9. MemoMutexHeld' /\ RowsHaveMemos'
  BY <1>1 DEF MemoMutexHeld, RowsHaveMemos
<1>10. JobsHaveBlocks'
  BY <1>1, <1>3, <1>4, <1>5 DEF JobsHaveBlocks, Jobs
<1> QED
  BY <1>6, <1>7, <1>8, <1>9, <1>10

\* The memo goes behind the header, to blocks that the header counts.
LEMMA DataAllocates ==
    ASSUME AllocInv, NEW p \in Procs, WriteData(p) PROVE AllocInv'
<1> USE DEF AllocInv, TypeOK, Labels, InMemo
<1> DEFINE m == job[p].memo
           at == job[p].at
<1>1. /\ pc[p] = "data" /\ memoMutex' = Free /\ kept' = [kept EXCEPT ![at] = m]
      /\ pc' = [pc EXCEPT ![p] = IF job[p].viaRow THEN "row" ELSE "idle"]
      /\ job' = IF job[p].viaRow THEN job ELSE Forget(p)
      /\ reach' = [reach EXCEPT ![at] = ReachOf(p)]
      /\ UNCHANGED <<nextFree, dbaseMutex, address, saved, extent>>
  BY DEF WriteData, Goto
<1>2. /\ m \in Memos /\ at \in BlockNumbers /\ at \in Allocated
      /\ End(at) <= DiskNextFree /\ HeaderUnits <= Position(at) /\ Position(at) \in Nat
  BY <1>1, PositionsOrdered DEF Jobs, JobsHaveBlocks, BlocksDisjoint, Allocated, BlockNumbers
<1>3. memoFile' = [u \in UnitNumbers |->
                     IF u - at * BlockUnits \in 0..Size[m] THEN MemoUnit(m, u - at * BlockUnits)
                     ELSE IF u - at * BlockUnits \in 0..(Written(m) - 1) THEN ZeroUnit
                     ELSE memoFile[u]]
  BY DEF WriteData, DataImage, Position
<1> HIDE DEF m, at
<1>4. memoFile' \in [UnitNumbers -> Units] /\ memoFile'[0] = memoFile[0]
  <2>1. at * BlockUnits \in Nat /\ at * BlockUnits > 0
    BY <1>2, SizesAssumption DEF Position
  <2>2. memoFile'[0] = memoFile[0]
    BY <1>3, <2>1, UnitsOfBlocks
  <2>3. ASSUME NEW u \in UnitNumbers PROVE memoFile'[u] \in Units
    <3>1. CASE u - at * BlockUnits \in 0..Size[m]
      BY <1>2, <1>3, <3>1, SizesAssumption DEF Units, MemoUnit
    <3>2. CASE u - at * BlockUnits \notin 0..Size[m]
      BY <1>3, <3>2 DEF Units
    <3> QED
      BY <3>1, <3>2
  <2> QED
    BY <1>3, <2>2, <2>3
<1>5. MemoHeaderReadable' = MemoHeaderReadable /\ DiskNextFree' = DiskNextFree
  BY <1>4 DEF MemoHeaderReadable, DiskNextFree
<1>6. Allocated' = Allocated /\ \A b \in BlockNumbers : End(b)' = End(b)
  BY <1>1 DEF Allocated, End
<1>7. TypeOK'
  <2>1. ReachOf(p) \in Nat
    BY <1>1, <1>2, SizesAssumption DEF ReachOf, m, at
  <2>2. job' \in [Procs -> Jobs]
    BY <1>1, NoJobIsAJob DEF Forget
  <2> QED
    BY <1>1, <1>2, <1>4, <2>1, <2>2
<1>8. BlocksDisjoint' /\ NextFreeCovers'
  BY <1>1, <1>5, <1>6 DEF BlocksDisjoint, NextFreeCovers, Allocated
<1>9. DiskCoversMemos'
  BY <1>1, <1>2, <1>5, <1>6 DEF DiskCoversMemos
<1>10. \A b \in BlockNumbers : kept[b] # NoMemo => kept'[b] # NoMemo
  BY <1>1, <1>2, SetsAssumption
<1>11. MemoMutexHeld'
  BY <1>1, SetsAssumption DEF MemoMutexHeld
<1>12. RowsHaveMemos'
  BY <1>1, <1>10 DEF RowsHaveMemos
<1>13. JobsHaveBlocks'
  <2>1. job[p].viaRow => job'[p] = job[p] /\ kept'[at] # NoMemo
    BY <1>1, <1>2, SetsAssumption
  <2>2. \A q \in Procs : q # p => job'[q] = job[q] /\ pc'[q] = pc[q]
    BY <1>1 DEF Forget
  <2>3. pc'[p] \in {"row", "idle"} /\ (pc'[p] = "row" => job[p].viaRow)
    BY <1>1
  <2> QED
    BY <1>1, <1>5, <1>6, <1>10, <2>1, <2>2, <2>3 DEF JobsHaveBlocks, Jobs, at
<1> QED
  BY <1>7, <1>8, <1>9, <1>11, <1>12, <1>13

\* The blocks that a restart frees were taken in memory only.
LEMMA RestartAllocates ==
    ASSUME AllocInv, Restart PROVE AllocInv'
<1> USE DEF AllocInv, TypeOK, Labels, InMemo
<1>1. /\ nextFree' = DiskNextFree /\ memoMutex' = Free /\ dbaseMutex' = Free
      /\ pc' = [q \in Procs |-> "idle"] /\ job' = [q \in Procs |-> NoJob]
      /\ extent' = [b \in BlockNumbers |-> IF b < DiskNextFree THEN extent[b] ELSE 0]
      /\ UNCHANGED <<memoFile, address, saved, kept, reach>>
  BY DEF Restart, NextFreeOnOpen
<1>2. DiskNextFree' = DiskNextFree /\ MemoHeaderReadable' = MemoHeaderReadable
      /\ DiskNextFree \in BlockNumbers
  BY <1>1 DEF DiskNextFree, MemoHeaderReadable, NextFreeCovers
<1>3. /\ Allocated' = {b \in Allocated : b < DiskNextFree}
      /\ \A b \in Allocated' : End(b)' = End(b) /\ End(b) <= DiskNextFree
  <2>1. Allocated' = {b \in Allocated : b < DiskNextFree}
    BY <1>1 DEF Allocated
  <2>2. ASSUME NEW b \in Allocated' PROVE End(b)' = End(b) /\ End(b) <= DiskNextFree
    BY <1>1, <1>2, <2>1 DEF NextFreeCovers, Allocated, End, BlockNumbers
  <2> QED
    BY <2>1, <2>2
<1>4. TypeOK'
  BY <1>1, <1>2, NoJobIsAJob
<1>5. BlocksDisjoint' /\ NextFreeCovers'
  BY <1>1, <1>2, <1>3 DEF BlocksDisjoint, NextFreeCovers, BlockNumbers
<1>6. DiskCoversMemos'
  <2>1. ASSUME NEW b \in BlockNumbers, kept[b] # NoMemo
        PROVE  b \in Allocated' /\ End(b)' <= DiskNextFree
    <3>1. b \in Allocated /\ End(b) <= DiskNextFree
      BY <2>1 DEF DiskCoversMemos
    <3>2. b < DiskNextFree
      BY <1>2, <3>1, SizesAssumption DEF Allocated, End, BlockNumbers
    <3> QED
      BY <1>3, <3>1, <3>2
  <2> QED
    BY <1>1, <1>2, <2>1 DEF DiskCoversMemos
<1>7. MemoMutexHeld' /\ RowsHaveMemos' /\ JobsHaveBlocks'
  BY <1>1, SetsAssumption DEF MemoMutexHeld, RowsHaveMemos, JobsHaveBlocks
<1> QED
  BY <1>4, <1>5, <1>6, <1>7

LEMMA AllocStep == AllocInv /\ [Next]_vars => AllocInv'
<1> SUFFICES ASSUME AllocInv, [Next]_vars PROVE AllocInv'
  OBVIOUS
<1>1. CASE UNCHANGED vars
  BY <1>1 DEF vars, AllocInv, TypeOK, BlocksDisjoint, DiskCoversMemos, MemoMutexHeld,
              NextFreeCovers, RowsHaveMemos, JobsHaveBlocks, Allocated, End,
              MemoHeaderReadable, DiskNextFree
<1>2. CASE Next
  BY <1>2, RowStepsAllocate, AllocateAllocates, HeaderAllocates, DataAllocates,
     RestartAllocates DEF Next, Continue
<1> QED
  BY <1>1, <1>2

\* The condition under which the file is opened: its first free block lies behind
\* its header.  A file that NewTable made does not meet it (see memo_store_new).
FreeBehindHeader == HeaderUnits <= Position(StartFree)

LEMMA AllocInvariant == ASSUME FreeBehindHeader PROVE Spec => []AllocInv
<1>1. Init => AllocInv
  BY InitAllocates DEF FreeBehindHeader
<1> QED
  BY <1>1, AllocStep, PTL DEF Spec

\* Every variable of the memo file keeps its type.
THEOREM TypeCorrect == ASSUME FreeBehindHeader PROVE Spec => []TypeOK
<1>1. AllocInv => TypeOK
  BY DEF AllocInv
<1> QED
  BY <1>1, AllocInvariant, PTL

\* However many goroutines write, whatever fails and whenever the program dies:
\* no block is given to two memos or taken from the header.
THEOREM BlocksStayDisjoint == ASSUME FreeBehindHeader PROVE Spec => []BlocksDisjoint
<1>1. AllocInv => BlocksDisjoint
  BY DEF AllocInv
<1> QED
  BY <1>1, AllocInvariant, PTL

\* The header in the file counts every memo that was ever written.
THEOREM HeaderCoversMemos == ASSUME FreeBehindHeader PROVE Spec => []DiskCoversMemos
<1>1. AllocInv => DiskCoversMemos
  BY DEF AllocInv
<1> QED
  BY <1>1, AllocInvariant, PTL

\* The blocks of a memo stay what they are, also over a restart.
LEMMA ExtentsStay ==
    ASSUME AllocInv, [Next]_vars, NEW b \in BlockNumbers, kept[b] # NoMemo
    PROVE  extent'[b] = extent[b]
<1>1. b \in Allocated /\ End(b) <= DiskNextFree /\ End(b) <= nextFree
  BY DEF AllocInv, DiskCoversMemos, BlocksDisjoint
<1>2. b < DiskNextFree /\ b < nextFree
  BY <1>1, SizesAssumption
  DEF AllocInv, TypeOK, NextFreeCovers, Allocated, End, BlockNumbers
<1>3. ASSUME NEW p \in Procs, Allocate(p) PROVE extent'[b] = extent[b]
  <2>1. extent' = [extent EXCEPT ![nextFree] = Blocks(job[p].memo)]
    BY <1>3 DEF Allocate
  <2>2. b # nextFree
    BY <1>2 DEF BlockNumbers, AllocInv, TypeOK
  <2>3. extent \in [BlockNumbers -> Nat]
    BY DEF AllocInv, TypeOK
  <2> QED
    BY <2>1, <2>2, <2>3
<1>4. CASE Restart
  <2>1. extent' = [c \in BlockNumbers |-> IF c < DiskNextFree THEN extent[c] ELSE 0]
    BY <1>4 DEF Restart
  <2> QED
    BY <1>2, <2>1
<1>5. (\E p \in Procs : Allocate(p)) \/ Restart \/ UNCHANGED extent
  BY DEF vars, Next, Continue, Call, ClearMemo, EnterWriteRow, DiskFull, Reuse,
         WriteMemoHeader, WriteData, WriteRow, CallFails
<1> QED
  BY <1>3, <1>4, <1>5

\* No step, not a restart either, hands out a block that holds a memo.
THEOREM MemoBlocksStay == ASSUME FreeBehindHeader PROVE Spec => NeverReallocated
<1>1. AllocInv /\ [Next]_vars
        => [\A b \in BlockNumbers : kept[b] # NoMemo => extent'[b] = extent[b]]_vars
  BY ExtentsStay
<1> QED
  BY <1>1, AllocInvariant, PTL DEF Spec, NeverReallocated

-----------------------------------------------------------------------------
(* Contents: what the units of the file hold *)

\* A memo can be read at a block when its units are there, one after the other.
LEMMA ReadMemoMeans ==
    memoFile \in [UnitNumbers -> Units] =>
        \A b \in BlockNumbers \ {0}, m \in Memos :
            ReadMemo(b) = m <=>
                \A k \in 0..Size[m] : memoFile[Position(b) + k] = MemoUnit(m, k)
<1> SUFFICES ASSUME memoFile \in [UnitNumbers -> Units],
                    NEW b \in BlockNumbers \ {0}, NEW m \in Memos
             PROVE  ReadMemo(b) = m <=>
                      \A k \in 0..Size[m] : memoFile[Position(b) + k] = MemoUnit(m, k)
  OBVIOUS
<1> DEFINE first == memoFile[Position(b)]
<1>1. Position(b) \in Nat /\ Size[m] \in Nat /\ Position(b) + 0 = Position(b)
  BY PositionsOrdered, SizesAssumption DEF BlockNumbers
<1>2. first \in Units
  BY <1>1, UnitsOfBlocks, SizesAssumption
<1>3. ASSUME ReadMemo(b) = m, NEW k \in 0..Size[m]
      PROVE  memoFile[Position(b) + k] = MemoUnit(m, k)
  <2>1. /\ first.kind = "memo" /\ first.part = 0 /\ first.memo = m
        /\ \A j \in 1..Size[m] : memoFile[Position(b) + j] = MemoUnit(m, j)
    BY <1>3, SetsAssumption DEF ReadMemo
  <2>2. first = MemoUnit(m, 0)
    BY <1>2, <2>1 DEF Units, MemoUnit, ZeroUnit
  <2> QED
    BY <1>1, <2>1, <2>2
<1>4. ASSUME \A k \in 0..Size[m] : memoFile[Position(b) + k] = MemoUnit(m, k)
      PROVE  ReadMemo(b) = m
  <2>1. first = MemoUnit(m, 0)
    BY <1>1, <1>4
  <2>2. first.kind = "memo" /\ first.part = 0 /\ first.memo = m
    BY <2>1 DEF MemoUnit
  <2>3. \A j \in 1..Size[m] : memoFile[Position(b) + j] = MemoUnit(m, j)
    BY <1>1, <1>4
  <2> QED
    BY <2>2, <2>3 DEF ReadMemo
<1> QED
  BY <1>3, <1>4

LEMMA ReadMemoMeansNext ==
    (memoFile \in [UnitNumbers -> Units] =>
        \A b \in BlockNumbers \ {0}, m \in Memos :
            ReadMemo(b) = m <=>
                \A k \in 0..Size[m] : memoFile[Position(b) + k] = MemoUnit(m, k))'
BY ReadMemoMeans, PTL

\* A memo ends where its blocks end, unless it outgrew them: then its reach says
\* how far it goes.
MemosFit ==
    \A b \in BlockNumbers : kept[b] # NoMemo =>
        LET end == Position(b) + 1 + Size[kept[b]]
        IN  end <= Position(End(b)) \/ end <= reach[b]

KeepInv == AllocInv /\ MemosFit /\ MemosKept

\* A block with a memo is behind the header.
LEMMA KeptBehindHeader ==
    ASSUME AllocInv, NEW b \in BlockNumbers, kept[b] # NoMemo
    PROVE  /\ b \in Nat \ {0} /\ b \in Allocated /\ kept[b] \in Memos
           /\ Position(b) \in Nat /\ HeaderUnits <= Position(b)
<1>1. b \in Allocated /\ kept[b] \in Memos /\ HeaderUnits <= Position(b)
  BY DEF AllocInv, DiskCoversMemos, BlocksDisjoint, TypeOK
<1>2. b \in Nat /\ Position(b) \in Nat
  BY PositionsOrdered DEF BlockNumbers
<1>3. b # 0
  BY <1>1, SizesAssumption DEF Position
<1> QED
  BY <1>1, <1>2, <1>3

\* Memos that clash go on clashing.
LEMMA ClashStays ==
    ASSUME NEW b \in BlockNumbers, Clash(b), reach \in [BlockNumbers -> Nat],
           \A c \in BlockNumbers : /\ kept[c] # NoMemo => kept'[c] # NoMemo
                                   /\ reach'[c] \in Nat /\ reach[c] <= reach'[c]
    PROVE  Clash(b)'
<1>1. PICK a, c \in BlockNumbers :
        a < c /\ b \in {a, c} /\ kept[c] # NoMemo /\ reach[a] > Position(c)
  BY DEF Clash
<1>2. Position(c) \in Nat
  BY PositionsOrdered DEF BlockNumbers
<1>3. kept'[c] # NoMemo /\ reach'[a] > Position(c)
  BY <1>1, <1>2
<1> QED
  BY <1>1, <1>3 DEF Clash, Position

\* A step that writes nothing behind the header.
LEMMA NoMemoWritten ==
    ASSUME KeepInv, AllocInv', UNCHANGED <<kept, reach>>,
           \A b \in BlockNumbers : kept[b] # NoMemo => extent'[b] = extent[b],
           \A u \in UnitNumbers : HeaderUnits <= u => memoFile'[u] = memoFile[u]
    PROVE  KeepInv'
<1>1. MemosFit'
  BY DEF KeepInv, MemosFit, End, Position
<1>2. ASSUME NEW b \in BlockNumbers, kept[b] # NoMemo
      PROVE  ReadMemo(b)' = kept[b] \/ Clash(b)'
  <2>1. /\ b \in BlockNumbers \ {0} /\ kept[b] \in Memos /\ Position(b) \in Nat
        /\ HeaderUnits <= Position(b)
    BY <1>2, KeptBehindHeader DEF KeepInv
  <2>2. CASE Clash(b)
    BY <2>2, ClashStays DEF KeepInv, AllocInv, TypeOK
  <2>3. CASE ReadMemo(b) = kept[b]
    <3>1. \A k \in 0..Size[kept[b]] : memoFile[Position(b) + k] = MemoUnit(kept[b], k)
      BY <2>1, <2>3, ReadMemoMeans DEF KeepInv, AllocInv, TypeOK
    <3>2. ASSUME NEW k \in 0..Size[kept[b]]
          PROVE  memoFile'[Position(b) + k] = MemoUnit(kept[b], k)
      <4>1. Position(b) + k \in UnitNumbers /\ HeaderUnits <= Position(b) + k
        BY <2>1, UnitsOfBlocks, SizesAssumption
      <4> QED
        BY <3>1, <4>1
    <3>3. ReadMemo(b)' = kept[b]
      BY <2>1, <3>2, ReadMemoMeansNext DEF AllocInv, TypeOK, Position, MemoUnit
    <3> QED
      BY <3>3
  <2> QED
    BY <1>2, <2>2, <2>3 DEF KeepInv, MemosKept
<1>3. MemosKept'
  BY <1>2 DEF MemosKept
<1> QED
  BY <1>1, <1>3 DEF KeepInv

\* Only WriteData writes behind the header: every other step keeps the memos.
LEMMA OthersKeep ==
    ASSUME KeepInv, [Next]_vars, ~ \E p \in Procs : WriteData(p) PROVE KeepInv'
<1> USE DEF vars, Next, Continue, Call, ClearMemo, EnterWriteRow, Allocate, DiskFull, Reuse,
            WriteMemoHeader, WriteRow, CallFails, Restart
<1>1. AllocInv'
  BY AllocStep DEF KeepInv
<1>2. \A b \in BlockNumbers : kept[b] # NoMemo => extent'[b] = extent[b]
  BY ExtentsStay DEF KeepInv
<1>3. UNCHANGED <<kept, reach>>
  OBVIOUS
<1>4. UNCHANGED memoFile \/ \E p \in Procs : HeaderImage(p)
  OBVIOUS
<1>5. \A u \in UnitNumbers : HeaderUnits <= u => memoFile'[u] = memoFile[u]
  BY <1>4, UnitsOfBlocks, SizesAssumption DEF HeaderImage
<1> QED
  BY <1>1, <1>2, <1>3, <1>5, NoMemoWritten

\* WriteData leaves the units before the block and behind what it writes alone.
LEMMA UnitsWritten ==
    ASSUME AllocInv, NEW p \in Procs, WriteData(p),
           NEW m \in Memos, m = job[p].memo, NEW start \in Nat, start = Position(job[p].at)
    PROVE  /\ Written(m) \in Nat /\ 1 + Size[m] <= Written(m)
           /\ \A u \in UnitNumbers :
                 u < start \/ start + Written(m) <= u => memoFile'[u] = memoFile[u]
           /\ \A k \in 0..Size[m] :
                 start + k \in UnitNumbers => memoFile'[start + k] = MemoUnit(m, k)
<1>1. Size[m] \in Nat /\ Written(m) \in Nat /\ 1 + Size[m] <= Written(m)
  BY SizesAssumption DEF Written
<1>2. memoFile' = [u \in UnitNumbers |->
                     IF u - start \in 0..Size[m] THEN MemoUnit(m, u - start)
                     ELSE IF u - start \in 0..(Written(m) - 1) THEN ZeroUnit
                     ELSE memoFile[u]]
  BY DEF WriteData, DataImage
<1>3. ASSUME NEW u \in UnitNumbers, u < start \/ start + Written(m) <= u
      PROVE  memoFile'[u] = memoFile[u]
  BY <1>1, <1>2, <1>3, UnitsOfBlocks
<1>4. ASSUME NEW k \in 0..Size[m], start + k \in UnitNumbers
      PROVE  memoFile'[start + k] = MemoUnit(m, k)
  <2>1. (start + k) - start = k
    OBVIOUS
  <2> QED
    BY <1>2, <1>4, <2>1
<1> QED
  BY <1>1, <1>3, <1>4

\* The memo of WriteData can be read where it was written, and any other memo is
\* not touched or clashes with it.
LEMMA DataKeeps ==
    ASSUME KeepInv, NEW p \in Procs, WriteData(p) PROVE KeepInv'
<1> DEFINE m == job[p].memo
           at == job[p].at
           start == Position(at)
           stop == start + 1 + Size[m]
<1> USE DEF KeepInv
<1>1. AllocInv /\ AllocInv' /\ TypeOK /\ TypeOK'
  BY DataAllocates DEF AllocInv
<1>2. /\ m \in Memos /\ at \in BlockNumbers \ {0} /\ at \in Nat /\ at \in Allocated
      /\ start \in Nat /\ stop \in Nat /\ Size[m] \in Nat /\ Size[m] <= MaxSize
      /\ HeaderUnits <= start
  <2>1. pc[p] = "data" /\ job[p] \in Jobs
    BY <1>1 DEF WriteData, Goto, TypeOK
  <2>2. m \in Memos /\ at \in Allocated /\ HeaderUnits <= start /\ Size[m] \in 1..MaxSize
    BY <1>1, <2>1, SizesAssumption
    DEF AllocInv, JobsHaveBlocks, InMemo, BlocksDisjoint, Jobs
  <2>3. at \in Nat /\ start \in Nat /\ at \in BlockNumbers
    BY <2>2, PositionsOrdered DEF Allocated, BlockNumbers
  <2>4. at # 0
    BY <2>2, SizesAssumption DEF Position
  <2> QED
    BY <2>2, <2>3, <2>4, SizesAssumption
<1>3. /\ kept' = [kept EXCEPT ![at] = m] /\ reach' = [reach EXCEPT ![at] = ReachOf(p)]
      /\ UNCHANGED extent
  BY DEF WriteData
<1>4. /\ ReachOf(p) \in Nat /\ reach[at] <= ReachOf(p)
      /\ Outgrows(p) => stop <= ReachOf(p)
  BY <1>1, <1>2 DEF ReachOf, TypeOK
<1>5. ~Outgrows(p) => stop <= Position(End(at))
  <2>1. SUFFICES ASSUME ~Outgrows(p) PROVE stop <= Position(End(at))
    OBVIOUS
  <2>2. Size[m] % BlockUnits # 0 /\ Blocks(m) <= extent[at] /\ extent[at] \in Nat
        /\ Blocks(m) \in Nat
    BY <1>1, <1>2, <2>1, BlocksHoldMemo DEF Outgrows, TypeOK
  <2>3. 1 + Size[m] <= Position(Blocks(m)) /\ Position(Blocks(m)) <= Position(extent[at])
        /\ Position(Blocks(m)) \in Nat /\ Position(extent[at]) \in Nat
    BY <1>2, <2>2, BlocksHoldMemo, PositionsOrdered
  <2>4. Position(End(at)) = start + Position(extent[at])
    <3>1. (at + extent[at]) * BlockUnits = at * BlockUnits + extent[at] * BlockUnits
      BY <1>2, <2>2, SizesAssumption
    <3> QED
      BY <3>1 DEF End, Position
  <2> QED
    BY <1>2, <2>3, <2>4
<1> HIDE DEF m, at, start, stop
<1>6. MemosFit'
  <2>1. ASSUME NEW b \in BlockNumbers, kept'[b] # NoMemo
        PROVE  LET end == Position(b) + 1 + Size[kept'[b]]
               IN  end <= Position(b + extent[b]) \/ end <= reach'[b]
    <3>1. CASE b = at
      <4>1. kept'[b] = m /\ reach'[b] = ReachOf(p)
        BY <1>1, <1>2, <1>3, <3>1 DEF TypeOK
      <4> QED
        BY <1>4, <1>5, <3>1, <4>1 DEF stop, start, End
    <3>2. CASE b # at
      <4>1. kept'[b] = kept[b] /\ reach'[b] = reach[b]
        BY <1>1, <1>2, <1>3, <3>2 DEF TypeOK
      <4> QED
        BY <2>1, <4>1 DEF MemosFit, End
    <3> QED
      BY <3>1, <3>2
  <2> QED
    BY <1>3, <2>1 DEF MemosFit, End, Position
<1>7. \A u \in UnitNumbers :
         u < start \/ start + Written(m) <= u => memoFile'[u] = memoFile[u]
  BY <1>1, <1>2, UnitsWritten DEF start, at, m
<1>8. ASSUME NEW b \in BlockNumbers, b = at PROVE ReadMemo(b)' = kept'[b]
  <2>1. ASSUME NEW k \in 0..Size[m] PROVE memoFile'[Position(b) + k] = MemoUnit(m, k)
    <3>1. Position(b) + k \in UnitNumbers
      BY <1>2, UnitsOfBlocks, SizesAssumption
    <3> QED
      BY <1>1, <1>2, <1>8, <3>1, UnitsWritten DEF start, at, m
  <2>2. kept'[b] = m
    BY <1>1, <1>2, <1>3, <1>8 DEF TypeOK
  <2>3. ReadMemo(b)' = m
    BY <1>1, <1>2, <1>8, <2>1, ReadMemoMeansNext DEF TypeOK, Position, MemoUnit
  <2> QED
    BY <2>2, <2>3
<1>9. ASSUME NEW b \in BlockNumbers, b # at, kept[b] # NoMemo
      PROVE  ReadMemo(b)' = kept[b] \/ Clash(b)'
  <2> DEFINE sb == Position(b)
             eb == sb + 1 + Size[kept[b]]
  <2>1. /\ b \in BlockNumbers \ {0} /\ b \in Nat /\ b \in Allocated /\ kept[b] \in Memos
        /\ sb \in Nat /\ Size[kept[b]] \in Nat /\ Size[kept[b]] <= MaxSize /\ eb \in Nat
    BY <1>1, <1>9, KeptBehindHeader, SizesAssumption
  <2>2. kept'[b] = kept[b] /\ reach'[b] = reach[b] /\ kept'[at] = m /\ reach'[at] = ReachOf(p)
    BY <1>1, <1>2, <1>3, <1>9 DEF TypeOK
  <2>3. CASE Clash(b)
    <3>1. \A c \in BlockNumbers : /\ kept[c] # NoMemo => kept'[c] # NoMemo
                                  /\ reach'[c] \in Nat /\ reach[c] <= reach'[c]
      BY <1>1, <1>2, <1>3, <1>4, SetsAssumption DEF TypeOK
    <3> QED
      BY <1>1, <2>3, <3>1, ClashStays DEF TypeOK
  <2>4. ASSUME ReadMemo(b) = kept[b], eb <= start \/ start + Written(m) <= sb
        PROVE  ReadMemo(b)' = kept[b]
    <3>1. \A k \in 0..Size[kept[b]] : memoFile[sb + k] = MemoUnit(kept[b], k)
      BY <1>1, <2>1, <2>4, ReadMemoMeans DEF TypeOK
    <3>2. ASSUME NEW k \in 0..Size[kept[b]] PROVE memoFile'[sb + k] = MemoUnit(kept[b], k)
      <4>1. sb + k \in UnitNumbers
        BY <2>1, UnitsOfBlocks, SizesAssumption
      <4>2. sb + k < start \/ start + Written(m) <= sb + k
        <5>1. Written(m) \in Nat
          BY <1>2, SizesAssumption DEF Written
        <5> QED
          BY <1>2, <2>1, <2>4, <5>1
      <4> QED
        BY <1>7, <3>1, <4>1, <4>2
    <3> QED
      BY <1>1, <2>1, <3>2, ReadMemoMeansNext DEF TypeOK, Position, MemoUnit
  <2>8. /\ End(at) \in Nat /\ at < End(at) /\ End(b) \in Nat /\ b < End(b)
        /\ End(at) <= b \/ End(b) <= at
    <3>1. /\ extent[at] \in Nat /\ extent[at] > 0 /\ extent[b] \in Nat /\ extent[b] > 0
      BY <1>1, <1>2, <2>1 DEF TypeOK, Allocated
    <3>2. End(at) <= b \/ End(b) <= at
      BY <1>1, <1>2, <1>9, <2>1 DEF AllocInv, BlocksDisjoint
    <3> QED
      BY <1>2, <2>1, <3>1, <3>2 DEF End
  <2>5. ASSUME b < at, start < eb PROVE Clash(b)'
    <3>1. End(b) <= at /\ End(b) \in Nat
      BY <1>2, <2>1, <2>8, <2>5
    <3>2. Position(End(b)) <= start /\ Position(End(b)) \in Nat
      BY <1>2, <3>1, PositionsOrdered DEF start
    <3>3. start < reach[b]
      BY <1>1, <1>2, <1>9, <2>1, <2>5, <3>2 DEF MemosFit, TypeOK
    <3> QED
      BY <1>2, <2>2, <2>5, <3>3, SetsAssumption DEF Clash, Position, start
  <2>6. ASSUME at < b, sb < start + Written(m) PROVE Clash(b)'
    <3>1. End(at) <= b /\ End(at) \in Nat
      BY <1>2, <2>1, <2>8, <2>6
    <3>2. Position(End(at)) <= sb /\ start + BlockUnits <= sb /\ Position(End(at)) \in Nat
      BY <1>2, <2>1, <2>6, <3>1, PositionsOrdered DEF start
    <3>3. sb < stop
      BY <1>2, <2>1, <2>6, <3>2, SizesAssumption DEF Written, stop
    <3>4. Outgrows(p)
      BY <1>2, <1>5, <2>1, <3>2, <3>3
    <3>5. sb < reach'[at]
      BY <1>2, <1>4, <2>1, <2>2, <3>3, <3>4
    <3> QED
      BY <1>2, <1>9, <2>2, <2>6, <3>5, SetsAssumption DEF Clash, Position
  <2>7. (eb <= start \/ start < eb) /\ (b < at \/ at < b)
        /\ (start + Written(m) <= sb \/ sb < start + Written(m))
    <3>1. Written(m) \in Nat
      BY <1>2, SizesAssumption DEF Written
    <3> QED
      BY <1>2, <1>9, <2>1, <3>1
  <2> HIDE DEF sb, eb
  <2> QED
    BY <1>9, <2>3, <2>4, <2>5, <2>6, <2>7 DEF MemosKept
<1>10. MemosKept'
  <2>1. ASSUME NEW b \in BlockNumbers, kept'[b] # NoMemo
        PROVE  ReadMemo(b)' = kept'[b] \/ Clash(b)'
    <3>1. b # at => kept'[b] = kept[b]
      BY <1>1, <1>2, <1>3 DEF TypeOK
    <3> QED
      BY <1>8, <1>9, <2>1, <3>1
  <2> QED
    BY <2>1 DEF MemosKept
<1> QED
  BY <1>1, <1>6, <1>10

LEMMA KeepInvariant == ASSUME FreeBehindHeader PROVE Spec => []KeepInv
<1>1. Init => KeepInv
  <2> SUFFICES ASSUME Init PROVE KeepInv
    OBVIOUS
  <2>1. \A b \in BlockNumbers : kept[b] = NoMemo
    BY DEF Init
  <2> QED
    BY <2>1, InitAllocates DEF KeepInv, MemosFit, MemosKept, FreeBehindHeader
<1>2. KeepInv /\ [Next]_vars => KeepInv'
  BY OthersKeep, DataKeeps
<1> QED
  BY <1>1, <1>2, PTL DEF Spec

\* What WriteMemo wrote can be read at its address until it is rewritten there,
\* unless one of two memos outgrew its blocks and reaches the other.
THEOREM MemosStay == ASSUME FreeBehindHeader PROVE Spec => []MemosKept
<1>1. KeepInv => MemosKept
  BY DEF KeepInv
<1> QED
  BY <1>1, KeepInvariant, PTL

\* A row that was written with a memo has the address of a complete memo, also
\* after a crash, with the same exception.
THEOREM SavedMemosStay == ASSUME FreeBehindHeader PROVE Spec => []SavedMemosRead
<1>1. KeepInv => SavedMemosRead
  <2> SUFFICES ASSUME KeepInv, NEW f \in Fields, saved[f]
               PROVE  \/ Clash(address[f])
                      \/ /\ ReadMemo(address[f]) # NoMemo
                         /\ ReadMemo(address[f]) = kept[address[f]]
    BY DEF SavedMemosRead
  <2>1. address[f] \in BlockNumbers /\ kept[address[f]] # NoMemo
    BY DEF KeepInv, AllocInv, TypeOK, RowsHaveMemos
  <2> QED
    BY <2>1 DEF KeepInv, MemosKept
<1> QED
  BY <1>1, KeepInvariant, PTL
=============================================================================
