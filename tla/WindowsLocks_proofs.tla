------------------------ MODULE WindowsLocks_proofs ------------------------
(***************************************************************************)
(* Proofs about WindowsLocks, for any programs, rows and blocks: a program *)
(* holds exactly the lock of the place it writes, besides those that       *)
(* UnlockFileEx failed to unlock, so the regions of two writers never      *)
(* overlap, and equal places have overlapping regions.                     *)
(***************************************************************************)
EXTENDS WindowsLocks, TLAPS

-----------------------------------------------------------------------------
(* Facts about regions *)

Writers == {p \in Programs : pc[p] \in Places}

\* The regions of two writers do not overlap.
WritersApart ==
    \A p, q \in Writers : p # q => ~Overlap(Region(p, pc[p]), Region(q, pc[q]))

\* A region carries its owner, starts at its length and is never empty.
LEMMA RegionShape ==
    ASSUME job \in [Programs -> Jobs], NEW p \in Programs, NEW place \in Places
    PROVE  /\ Region(p, place).owner = p
           /\ Region(p, place).file = FileOf(place)
           /\ Region(p, place).length \in Nat \ {0}
           /\ Region(p, place).first \in Nat
           /\ Region(p, place).length = Region(p, place).first
<1>1. /\ job[p].slot \in Nat /\ job[p].block \in Nat
  BY LayoutAssumption DEF Jobs
<1>2. RowPosition(job[p].slot) \in Nat
  <2>1. job[p].slot * RowLength \in Nat
    BY <1>1, LayoutAssumption
  <2> QED BY <2>1, LayoutAssumption DEF RowPosition
<1>3. Low(p, place) \in Nat
  BY <1>1, <1>2, LayoutAssumption DEF Low, Places
<1>4. High(p, place) \in Nat \ {0}
  BY <1>1, <1>2, LayoutAssumption DEF High, Places
<1>5. \A high, word \in Nat \ {0} : high * word \in Nat \ {0}
  OBVIOUS
<1>6. Low(p, place) + High(p, place) * Word32 \in Nat \ {0}
  <2>1. High(p, place) * Word32 \in Nat \ {0}
    BY <1>4, <1>5, LayoutAssumption
  <2> QED BY <1>3, <2>1
<1> QED BY <1>6 DEF Region

\* The region of a place is a function of the job.
LEMMA RegionOfJob ==
    ASSUME NEW p \in Programs, job'[p] = job[p]
    PROVE  \A place \in Places : Region(p, place)' = Region(p, place)
BY DEF Region, Low, High, RowPosition, FileOf

\* The same place has the same numbers in every program, so its regions overlap.
LEMMA SamePlaceOverlaps ==
    ASSUME job \in [Programs -> Jobs], NEW p \in Programs, NEW q \in Programs,
           NEW place \in Places, Target(p, place) = Target(q, place)
    PROVE  Overlap(Region(p, place), Region(q, place))
<1>1. Low(p, place) = Low(q, place) /\ High(p, place) = High(q, place)
  BY DEF Low, High, Target, Places
<1>2. /\ Region(p, place).first = Region(q, place).first
      /\ Region(p, place).length = Region(q, place).length
      /\ Region(p, place).file = Region(q, place).file
  BY <1>1 DEF Region
<1> QED BY <1>2, RegionShape DEF Overlap

LEMMA OverlapIsSymmetric ==
    ASSUME NEW r, NEW s, Overlap(r, s)
    PROVE  Overlap(s, r)
BY DEF Overlap

-----------------------------------------------------------------------------
(* The inductive invariant *)

LockInv == TypeOK /\ OnlyTheWrittenIsLocked /\ WritersApart

LEMMA InitLocks == Init => LockInv
<1> SUFFICES ASSUME Init PROVE LockInv
  OBVIOUS
<1>1. Writers = {}
  BY DEF Init, Writers, Places
<1>2. TypeOK
  <2>1. pc \in [Programs -> Labels]
    BY DEF Init, Labels
  <2>2. job \in [Programs -> Jobs]
    BY DEF Init, Jobs
  <2> QED BY <2>1, <2>2 DEF TypeOK, Init
<1>3. OnlyTheWrittenIsLocked
  BY <1>1 DEF OnlyTheWrittenIsLocked, Writers, Init
<1> QED BY <1>1, <1>2, <1>3 DEF LockInv, WritersApart

LEMMA NextLocks == LockInv /\ [Next]_vars => LockInv'
<1> SUFFICES ASSUME LockInv, [Next]_vars PROVE LockInv'
  OBVIOUS
<1> USE DEF LockInv
<1>types. job \in [Programs -> Jobs] /\ pc \in [Programs -> Labels]
  BY DEF TypeOK
<1>labels. /\ \A place \in Places : WaitingFor[place] \notin Places
           /\ "idle" \notin Places
           /\ \A place \in Places : WaitingFor[place] \in Labels /\ place \in Labels
           /\ "idle" \in Labels
           /\ \A place \in Places : Following(place) \in Labels \ Places
  BY DEF Places, WaitingFor, Labels, Following
<1>held. \A lock \in locks : \E q \in Writers : lock = Region(q, pc[q])
  BY DEF OnlyTheWrittenIsLocked, Writers
<1>owned. \A q \in Writers : Region(q, pc[q]) \in locks /\ Region(q, pc[q]).owner = q
  BY <1>types, RegionShape DEF OnlyTheWrittenIsLocked, Writers
<1>1. ASSUME NEW p \in Programs, NEW slot \in Slots, NEW block \in Blocks, NEW start \in Starts,
             Begin(p, slot, block, start)
      PROVE  LockInv'
  <2>1. /\ pc' \in [Programs -> Labels] /\ job' \in [Programs -> Jobs]
        /\ Writers' = Writers /\ p \notin Writers /\ locks' = locks /\ stuck' = stuck
    <3>1. start \in Places
      BY DEF Places, Starts
    <3> QED BY <1>1, <3>1, <1>types, <1>labels DEF Begin, Goto, Writers, Jobs
  <2>2. \A q \in Writers : pc'[q] = pc[q] /\ Region(q, pc[q])' = Region(q, pc[q])
    <3> TAKE q \in Writers
    <3>1. q # p /\ q \in Programs /\ pc[q] \in Places
      BY <2>1 DEF Writers
    <3>2. pc'[q] = pc[q] /\ job'[q] = job[q]
      BY <3>1, <1>1, <1>types DEF Begin, Goto
    <3>3. \A place \in Places : Region(q, place)' = Region(q, place)
      BY <3>1, <3>2, RegionOfJob
    <3> QED BY <3>1, <3>2, <3>3 DEF Region, Low, High, RowPosition, FileOf
  <2> QED BY <2>1, <2>2 DEF TypeOK, OnlyTheWrittenIsLocked, WritersApart, Writers
<1>2. ASSUME NEW p \in Programs, NEW place \in Places, LockPlace(p, place)
      PROVE  LockInv'
  <2>1. /\ pc' \in [Programs -> Labels] /\ job' = job /\ pc'[p] = place
        /\ p \notin Writers /\ Writers' = Writers \cup {p}
        /\ \A q \in Writers : pc'[q] = pc[q]
    BY <1>2, <1>types, <1>labels DEF LockPlace, Goto, Writers
  <2>2. \A q \in Programs, where \in Places : Region(q, where)' = Region(q, where)
    BY <2>1, RegionOfJob
  <2>3. locks' = locks \cup {Region(p, place)} /\ stuck' = stuck
    BY <1>2 DEF LockPlace
  <2>4. \A q \in Writers : /\ ~Overlap(Region(p, place), Region(q, pc[q]))
                           /\ ~Overlap(Region(q, pc[q]), Region(p, place))
    BY <1>2, <1>owned, OverlapIsSymmetric DEF LockPlace
  <2>5. TypeOK'
    <3>1. Region(p, place).owner \in Programs /\ Region(p, place).first \in Nat
          /\ Region(p, place).length \in Nat
      BY <1>types, RegionShape
    <3> QED BY <2>1, <2>3, <3>1 DEF TypeOK
  <2>6. OnlyTheWrittenIsLocked'
    <3>1. locks' = {Region(q, pc'[q]) : q \in Writers'}
      BY <2>1, <2>3 DEF OnlyTheWrittenIsLocked, Writers
    <3>2. \A q \in Writers' : pc'[q] \in Places /\ Region(q, pc[q])' = Region(q, pc'[q])
      BY <2>1 DEF Region, Low, High, RowPosition, FileOf, Writers
    <3> QED BY <3>1, <3>2 DEF OnlyTheWrittenIsLocked, Writers
  <2>7. WritersApart'
    <3>1. \A q \in Writers' : Region(q, pc[q])' = Region(q, pc'[q])
      BY <2>1 DEF Region, Low, High, RowPosition, FileOf
    <3>2. \A q, r \in Writers' : q # r => ~Overlap(Region(q, pc'[q]), Region(r, pc'[r]))
      BY <2>1, <2>4 DEF WritersApart
    <3> QED BY <3>1, <3>2 DEF WritersApart, Overlap
  <2> QED BY <2>5, <2>6, <2>7
<1>leave. ASSUME NEW p \in Programs, job' = job, pc' \in [Programs -> Labels],
                 p \notin Writers', Writers' = Writers \ {p},
                 \A q \in Writers' : pc'[q] = pc[q],
                 locks' = {lock \in locks : lock.owner # p},
                 stuck' \subseteq stuck \cup locks
          PROVE  LockInv'
  <2>1. \A q \in Writers' : Region(q, pc[q])' = Region(q, pc[q])
    BY <1>leave DEF Region, Low, High, RowPosition, FileOf
  <2>2. locks' = {Region(q, pc[q]) : q \in Writers \ {p}}
    BY <1>leave, <1>held, <1>owned
  <2>3. TypeOK'
    BY <1>leave DEF TypeOK
  <2>4. OnlyTheWrittenIsLocked'
    <3>1. locks' = {Region(q, pc[q])' : q \in Writers'}
      BY <2>1, <2>2, <1>leave
    <3> QED BY <3>1 DEF OnlyTheWrittenIsLocked, Writers
  <2>5. WritersApart'
    BY <2>1, <1>leave DEF WritersApart, Overlap
  <2> QED BY <2>3, <2>4, <2>5
<1>3. ASSUME NEW p \in Programs, NEW place \in Places, WritePlace(p, place)
      PROVE  LockInv'
  <2>1. /\ job' = job /\ pc' \in [Programs -> Labels] /\ p \notin Writers'
        /\ Writers' = Writers \ {p} /\ \A q \in Writers' : pc'[q] = pc[q]
    BY <1>3, <1>types, <1>labels DEF WritePlace, Goto, Writers
  <2>2. p \in Writers /\ pc[p] = place
    BY <1>3 DEF WritePlace, Goto, Writers
  <2>3. locks' = locks \ {Region(p, place)}
    BY <1>3 DEF WritePlace, Unlock, Unlocked
  <2>4. \A lock \in locks : lock.owner = p <=> lock = Region(p, place)
    BY <2>2, <1>held, <1>owned
  <2>5. locks' = {lock \in locks : lock.owner # p}
    BY <2>3, <2>4
  <2>6. stuck' \subseteq stuck \cup locks
    BY <1>3, <2>2, <1>owned DEF WritePlace, UnlockResult
  <2> QED BY <2>1, <2>5, <2>6, <1>leave
<1>4. ASSUME NEW p \in Programs, WriteFails(p)
      PROVE  LockInv'
  <2>1. /\ job' = job /\ pc' \in [Programs -> Labels] /\ p \notin Writers'
        /\ Writers' = Writers \ {p} /\ \A q \in Writers' : pc'[q] = pc[q]
    BY <1>4, <1>types, <1>labels DEF WriteFails, Writers
  <2>2. locks' = {lock \in locks : lock.owner # p}
    BY <1>4 DEF WriteFails, UnlockOnError
  <2>3. stuck' \subseteq stuck \cup locks
    BY <1>4 DEF WriteFails, UnlockResult
  <2> QED BY <2>1, <2>2, <2>3, <1>leave
<1>5. ASSUME NEW p \in Programs, Exit(p)
      PROVE  LockInv'
  <2>1. /\ job' = job /\ pc' \in [Programs -> Labels] /\ p \notin Writers'
        /\ Writers' = Writers \ {p} /\ \A q \in Writers' : pc'[q] = pc[q]
    BY <1>5, <1>types, <1>labels DEF Exit, Writers
  <2>2. /\ locks' = {lock \in locks : lock.owner # p}
        /\ stuck' \subseteq stuck \cup locks
    BY <1>5 DEF Exit
  <2> QED BY <2>1, <2>2, <1>leave
<1>6. CASE UNCHANGED vars
  <2>1. pc' = pc /\ job' = job /\ locks' = locks /\ stuck' = stuck /\ Writers' = Writers
    BY <1>6 DEF vars, Writers
  <2>2. \A q \in Writers : Region(q, pc[q])' = Region(q, pc[q])
    BY <2>1 DEF Region, Low, High, RowPosition, FileOf
  <2>3. OnlyTheWrittenIsLocked'
    BY <2>1, <2>2 DEF OnlyTheWrittenIsLocked, Writers
  <2>4. WritersApart'
    BY <2>1, <2>2 DEF WritersApart, Overlap
  <2> QED BY <2>1, <2>3, <2>4 DEF TypeOK
<1> QED BY <1>1, <1>2, <1>3, <1>4, <1>5, <1>6 DEF Next

-----------------------------------------------------------------------------
(* The theorems *)

\* The locks of WindowsIO keep their invariant in every behaviour.
THEOREM LocksInvariant == Spec => []LockInv
BY InitLocks, NextLocks, PTL DEF Spec

\* Every variable keeps its type, for any programs and any layout.
THEOREM LocksTypeCorrect == Spec => []TypeOK
<1>1. LockInv => TypeOK
  BY DEF LockInv
<1> QED BY <1>1, LocksInvariant, PTL

\* WriteRow, WriteMemo and WriteColumns leave no region locked, on the error
\* returns too, except where UnlockFileEx itself fails.
THEOREM NoLockStays == Spec => []OnlyTheWrittenIsLocked
<1>1. LockInv => OnlyTheWrittenIsLocked
  BY DEF LockInv
<1> QED BY <1>1, LocksInvariant, PTL

\* Two programs never write one row, one memo block, a header or the columns
\* together, whatever UnlockFileEx left locked.
THEOREM OneWriter == Spec => []OneWriterPerPlace
<1>1. LockInv => OneWriterPerPlace
  <2> SUFFICES ASSUME LockInv, NEW p \in Programs, NEW q \in Programs, NEW place \in Places,
                      p # q, pc[p] = place, pc[q] = place, Target(p, place) = Target(q, place)
               PROVE  FALSE
    BY DEF OneWriterPerPlace
  <2>1. Overlap(Region(p, place), Region(q, place))
    BY SamePlaceOverlaps DEF LockInv, TypeOK
  <2>2. ~Overlap(Region(p, place), Region(q, place))
    BY DEF LockInv, WritersApart, Writers
  <2> QED BY <2>1, <2>2
<1> QED BY <1>1, LocksInvariant, PTL
=============================================================================
