------------------------- MODULE Navigation_proofs -------------------------
(***************************************************************************)
(* Rows and Search of a table with any number of rows, however the other   *)
(* goroutine's steps and the failing calls fall between theirs.            *)
(***************************************************************************)
EXTENDS Navigation, SequenceTheorems, TLAPS

-----------------------------------------------------------------------------
(* The inductive invariant *)

\* The row that is being appended is counted, and not in the file unless a
\* displaced write put something there.
AppendOpen ==
    appender # "none" => RowsCount > 0 /\ (astray \/ ~IsStored(RowsCount - 1))

\* The pointer of Rows is in the table, unless the loop began behind its end
\* and has not moved.
PointerPlaced ==
    InRowsLoop => /\ rowPointer <= RowsCount \/ rowPointer = start
                  /\ pc = "rowsRead" => rowPointer < RowsCount

\* What Rows has passed without reading it, or with other bytes, is recorded:
\* a row it read was stored, so that no append changes it any more.
RowsPassed ==
    InRowsLoop =>
        /\ \A i \in missed \cup displaced : i < rowPointer
        /\ astray \/ \A i \in start..rowPointer-1 : WasRead(i) => Converts(i)

\* While Search runs it has collected the hits among the rows it has passed.
SearchCollects ==
    InSearchLoop =>
        /\ at <= RowsCount /\ (pc # "search" => at < RowsCount)
        /\ Collects(Hits(at), 0, at)

\* A row that was stored, or is not the last one, does not change any more.
IsSettled(i) == IsStored(i) \/ i < RowsCount - 1

\* What Search has read does not change any more, nor does the row it fetches,
\* which holds the value.
SearchPassed ==
    InSearchLoop =>
        /\ \A i \in missed : i < at
        /\ \A i \in displaced : i < at \/ (i = at /\ Fetching)
        /\ astray \/ \A i \in 0..at-1 : WasRead(i) => IsSettled(i)
        /\ astray \/ (Fetching /\ WasRead(at) => RowAt(at).match /\ IsSettled(at))

LoopInv ==
    /\ TypeOK
    /\ AppendOpen
    /\ PointerPlaced
    /\ RowsPassed
    /\ RowsCollectsInOrder
    /\ SearchCollects
    /\ SearchPassed

\* Outside the loops only the types and the append matter.
LEMMA IdleIsInv == ASSUME TypeOK, AppendOpen, pc = "idle" PROVE LoopInv
BY DEF LoopInv, PointerPlaced, RowsPassed, RowsCollectsInOrder, SearchCollects, SearchPassed,
       InRowsLoop, InSearchLoop, Fetching

-----------------------------------------------------------------------------
(* The pointer *)

\* A remainder is below its divisor.
LEMMA Remainder ==
    ASSUME NEW a \in Int, NEW w \in Nat \ {0}
    PROVE  a % w \in 0..w-1
OBVIOUS

\* A number that fits the word is what the word holds.
LEMMA FitsTheWord ==
    ASSUME NEW a \in Nat, NEW w \in Nat \ {0}, a < w, NEW q, q = a \div w, NEW r, r = a % w
    PROVE  r = a
<1>1. q \in Int /\ r \in 0..w-1
  OBVIOUS
<1>2. ASSUME NEW c \in Int, c = w * q PROVE a = c + r
  BY <1>1, <1>2
<1>3. \A n \in Nat : w * n \in Nat
  OBVIOUS
<1>4. q > 0 => w * q >= w
  <2>1. ASSUME q > 0 PROVE w * q = w + w * (q - 1) /\ q - 1 \in Nat
    BY <1>1, <2>1
  <2> QED
    BY <1>3, <2>1
<1>5. q < 0 => w * q < 0
  <2>1. ASSUME q < 0 PROVE w * q = 0 - w - w * (0 - q - 1) /\ 0 - q - 1 \in Nat
    BY <1>1, <2>1
  <2> QED
    BY <1>3, <2>1
<1>6. q = 0 => w * q = 0
  BY <1>1
<1>7. a = w * q + r /\ w * q \in Int
  BY <1>1, <1>2
<1> QED
  BY <1>1, <1>4, <1>5, <1>6, <1>7

\* Skip leaves a uint32, and Next moves the pointer to the following row.
LEMMA PointerMoves ==
    ASSUME LoopInv
    PROVE  /\ \A by \in Offsets \cup {1} : Skipped(by) \in 0..Word32-1
           /\ rowPointer < RowsCount => Skipped(1) = rowPointer + 1
<1>1. rowPointer \in 0..Word32-1 /\ RowsCount \in Nat /\ RowsCount < Word32
  BY LenProperties, BoundsAssumption DEF LoopInv, TypeOK, RowsCount
<1>2. ASSUME NEW by \in Offsets \cup {1} PROVE Skipped(by) \in 0..Word32-1
  <2>1. rowPointer + by \in Int /\ Word32 \in Nat \ {0}
    BY <1>1, BoundsAssumption
  <2> QED
    BY <2>1, Remainder DEF Skipped
<1>3. ASSUME rowPointer < RowsCount PROVE Skipped(1) = rowPointer + 1
  <2>1. rowPointer + 1 \in Nat /\ rowPointer + 1 < Word32 /\ Word32 \in Nat \ {0}
    BY <1>1, <1>3, BoundsAssumption
  <2> QED
    BY <2>1, FitsTheWord DEF Skipped
<1> QED
  BY <1>2, <1>3

-----------------------------------------------------------------------------
(* Collecting in order *)

Ascends(s) == \A j, k \in DOMAIN s : j < k => s[j] < s[k]

\* A row behind those collected so far is appended in order.
LEMMA AppendsInOrder ==
    ASSUME NEW s \in Seq(Int), NEW n \in Int, Ascends(s), \A i \in ToSet(s) : i < n
    PROVE  Ascends(Append(s, n)) /\ ToSet(Append(s, n)) = ToSet(s) \cup {n}
<1> DEFINE u == Append(s, n)
<1>1. /\ Len(s) \in Nat /\ DOMAIN s = 1..Len(s) /\ DOMAIN u = 1..Len(s)+1
      /\ \A i \in 1..Len(s) : u[i] = s[i] /\ s[i] \in ToSet(s) /\ s[i] \in Int
      /\ u[Len(s) + 1] = n
  <2>1. u \in Seq(Int) /\ Len(u) = Len(s) + 1 /\ u[Len(s) + 1] = n
        /\ \A i \in 1..Len(s) : u[i] = s[i]
    BY AppendProperties
  <2>2. Len(s) \in Nat /\ DOMAIN s = 1..Len(s) /\ \A i \in 1..Len(s) : s[i] \in Int
    BY LenProperties, ElementOfSeq
  <2>3. DOMAIN u = 1..Len(u)
    BY <2>1, LenProperties
  <2> QED
    BY <2>1, <2>2, <2>3 DEF ToSet
<1> HIDE DEF u
<1>2. Ascends(u)
  <2>1. ASSUME NEW j \in 1..Len(s), NEW k \in 1..Len(s), j < k PROVE u[j] < u[k]
    BY <1>1, <2>1 DEF Ascends
  <2>2. \A j \in 1..Len(s) : u[j] < n
    BY <1>1
  <2> QED
    BY <1>1, <2>1, <2>2 DEF Ascends
<1>3. ToSet(u) = ToSet(s) \cup {n}
  <2>1. ToSet(s) = {s[i] : i \in 1..Len(s)} /\ ToSet(u) = {u[i] : i \in 1..Len(s)+1}
    BY <1>1 DEF ToSet
  <2>2. \A x : x \in ToSet(u) <=> x \in ToSet(s) \/ x = n
    <3>1. \A i \in 1..Len(s)+1 : i \in 1..Len(s) \/ i = Len(s) + 1
      BY <1>1
    <3>2. \A i \in 1..Len(s) : i \in 1..Len(s)+1
      BY <1>1
    <3>3. Len(s) + 1 \in 1..Len(s)+1
      BY <1>1
    <3> QED
      BY <1>1, <2>1, <3>1, <3>2, <3>3
  <2> QED
    BY <2>2
<1> QED
  BY <1>2, <1>3 DEF u

-----------------------------------------------------------------------------
(* Initial states *)

LEMMA InitIsInv == ASSUME Init PROVE LoopInv
<1>1. rows \in Seq(RowStates) /\ RowsCount <= RowLimit
  <2>1. PICK m \in 0..RowLimit : rows \in [1..m -> RowStates]
    BY DEF Init, BoundedSeq, SeqOf
  <2> QED
    BY <2>1, BoundsAssumption, SeqDef DEF RowsCount
<1>2. rows \in Seq(Contents)
  <2>1. RowStates \subseteq Contents
    BY DEF RowStates
  <2> QED
    BY <1>1, <2>1, SeqMonotonic
<1>3. returned \in Seq(0..RowLimit-1)
  BY EmptySeq DEF Init
<1>4. TypeOK
  <2>1. 0 \in 0..Word32-1 /\ 0 \in 0..RowLimit
    BY BoundsAssumption
  <2> QED
    BY <1>1, <1>2, <1>3, <2>1 DEF Init, TypeOK
<1> QED
  BY <1>4, IdleIsInv DEF Init, AppendOpen

-----------------------------------------------------------------------------
(* The pointer moves and a loop begins *)

LEMMA MovesKeepInv ==
    ASSUME LoopInv, pc = "idle", rowPointer' \in 0..Word32-1, offset' \in {offset, "loop"},
           UNCHANGED <<rows, loop, appender, astray>>
    PROVE  LoopInv'
<1>1. TypeOK' /\ AppendOpen' /\ pc' = "idle"
  BY DEF LoopInv, TypeOK, AppendOpen, RowsCount, RowAt, IsStored, loop, InRowsLoop, InSearchLoop, Fetching
<1>2. (TypeOK /\ AppendOpen /\ pc = "idle" => LoopInv)'
  BY IdleIsInv, PTL
<1> QED
  BY <1>1, <1>2

LEMMA GoToKeepsInv == ASSUME LoopInv, NEW i \in 0..RowLimit+1, GoTo(i) PROVE LoopInv'
<1>1. RowsCount \in 0..Word32-1
  BY LenProperties, BoundsAssumption DEF LoopInv, TypeOK, RowsCount
<1>2. rowPointer' \in 0..Word32-1
  BY <1>1, BoundsAssumption DEF GoTo
<1> QED
  BY <1>2, MovesKeepInv DEF GoTo

LEMMA SkipKeepsInv ==
    ASSUME LoopInv, (\E by \in Offsets : Skip(by)) \/ NextRow
    PROVE  LoopInv'
<1>1. PICK by \in Offsets \cup {1} : rowPointer' = Skipped(by)
  BY DEF Skip, NextRow
<1>2. rowPointer' \in 0..Word32-1
  BY <1>1, PointerMoves
<1>3. offset' \in {offset, "loop"}
  BY DEF Skip, NextRow
<1> QED
  BY <1>2, <1>3, MovesKeepInv DEF Skip, NextRow

LEMMA BeginsKeepInv ==
    ASSUME LoopInv, NEW invalid \in BOOLEAN, NEW deleted \in BOOLEAN,
           BeginRows(invalid, deleted) \/ BeginSearch
    PROVE  LoopInv'
<1>1. /\ UNCHANGED <<rows, rowPointer, offset, appender>>
      /\ at' = 0 /\ missed' = {} /\ displaced' = {} /\ returned' = <<>>
      /\ astray' = (astray /\ appender # "none")
      /\ pc' = "search" \/ (pc' = "rows" /\ start' = rowPointer)
      /\ start' \in {start, rowPointer} /\ skipInvalid' \in BOOLEAN /\ skipDeleted' \in BOOLEAN
  BY DEF BeginRows, BeginSearch, LoopBegins, LoopInv, TypeOK, options
<1>2. RowsCount \in Nat /\ RowsCount' = RowsCount /\ rowPointer' = rowPointer /\ rowPointer \in Nat
  BY <1>1, LenProperties DEF LoopInv, TypeOK, RowsCount
<1>3. TypeOK'
  <2>1. returned' \in Seq(0..RowLimit-1)
    BY <1>1, EmptySeq
  <2>2. astray' \in BOOLEAN
    BY <1>1
  <2> QED
    BY <1>1, <1>2, <2>1, <2>2, BoundsAssumption DEF LoopInv, TypeOK, InRowsLoop, InSearchLoop
<1>4. AppendOpen'
  BY <1>1 DEF LoopInv, AppendOpen, RowsCount, RowAt, IsStored
<1>5. DOMAIN <<>> = {} /\ ToSet(<<>>) = {}
  BY DEF ToSet
<1>6. RowsCollectsInOrder'
  <2>1. ASSUME pc' = "rows" PROVE Wanted(start, rowPointer)' = {}
    BY <1>1, <1>2, <2>1 DEF Wanted
  <2>2. ASSUME pc' = "rows" PROVE Collects(Wanted(start, rowPointer), start, rowPointer)'
    BY <1>1, <1>5, <2>1, <2>2 DEF Collects
  <2> QED
    BY <1>1, <1>2, <2>2 DEF RowsCollectsInOrder, InRowsLoop
<1>7. SearchCollects'
  <2>1. Hits(at)' = {}
    BY <1>1 DEF Hits
  <2>2. Collects(Hits(at), 0, at)'
    BY <1>1, <1>5, <2>1 DEF Collects
  <2> QED
    BY <1>1, <1>2, <2>2 DEF SearchCollects, InSearchLoop, Fetching
<1>8. PointerPlaced' /\ RowsPassed' /\ SearchPassed'
  BY <1>1, <1>2 DEF PointerPlaced, RowsPassed, SearchPassed, InRowsLoop, InSearchLoop, Fetching
<1> QED
  BY <1>3, <1>4, <1>6, <1>7, <1>8 DEF LoopInv

-----------------------------------------------------------------------------
(* The turns of Rows *)

\* What the turns of Rows start from.
LEMMA InRows ==
    ASSUME LoopInv, pc = "rowsRead" \/ (pc = "rows" /\ ~EOF)
    PROVE  /\ RowsCount \in Nat /\ RowsCount <= RowLimit
           /\ rowPointer \in 0..RowsCount-1 /\ rowPointer \in 0..RowLimit-1
           /\ start \in 0..rowPointer
           /\ PointerAfterNext = rowPointer + 1 /\ rowPointer + 1 \in 0..Word32-1
           /\ returned \in Seq(0..RowLimit-1) /\ returned \in Seq(Int)
           /\ rowPointer \notin missed \cup displaced
           /\ missed \subseteq Int /\ displaced \subseteq Int
           /\ InRowsLoop /\ ~InSearchLoop
<1>1. RowsCount \in Nat /\ RowsCount <= RowLimit /\ rowPointer \in Nat /\ start \in Nat
  BY LenProperties DEF LoopInv, TypeOK, RowsCount
<1>2. InRowsLoop /\ ~InSearchLoop
  BY DEF InRowsLoop, InSearchLoop, Fetching
<1>3. rowPointer \in 0..RowsCount-1 /\ start \in 0..rowPointer
  BY <1>1, <1>2 DEF LoopInv, PointerPlaced, RowsCollectsInOrder, EOF
<1>4. PointerAfterNext = rowPointer + 1
  BY <1>1, <1>3, PointerMoves DEF PointerAfterNext
<1>5. returned \in Seq(0..RowLimit-1) /\ 0..RowLimit-1 \subseteq Int
  BY DEF LoopInv, TypeOK
<1>6. returned \in Seq(Int)
  BY <1>5, SeqMonotonic
<1>7. rowPointer \notin missed \cup displaced
  BY <1>2, <1>3 DEF LoopInv, RowsPassed
<1>8. missed \subseteq Int /\ displaced \subseteq Int
  BY DEF LoopInv, TypeOK
<1> QED
  BY <1>1, <1>2, <1>3, <1>4, <1>5, <1>6, <1>7, <1>8, BoundsAssumption

LEMMA RowsSeekKeepsInv == ASSUME LoopInv, RowsSeek PROVE LoopInv'
<1>1. /\ pc = "rows" /\ pc' = "rowsRead" /\ offset' = "loop"
      /\ UNCHANGED <<rows, rowPointer, options, at, start, missed, displaced, returned,
                     appender, astray>>
      /\ rowPointer < RowsCount
  <2>1. pc = "rows" /\ ~EOF
    BY DEF RowsSeek
  <2> QED
    BY <2>1, InRows DEF RowsSeek
<1>2. TypeOK' /\ AppendOpen'
  BY <1>1 DEF LoopInv, TypeOK, AppendOpen, RowsCount, RowAt, IsStored, InRowsLoop, options
<1>3. InRowsLoop /\ InRowsLoop' /\ ~InSearchLoop' /\ RowsCount' = RowsCount
  BY <1>1 DEF InRowsLoop, InSearchLoop, Fetching, RowsCount
<1>4. PointerPlaced' /\ RowsPassed'
  BY <1>1, <1>3 DEF LoopInv, PointerPlaced, RowsPassed, WasRead, Converts, RowAt
<1>5. RowsCollectsInOrder'
  BY <1>1, <1>3 DEF LoopInv, RowsCollectsInOrder, Collects, Wanted, IsWanted, WasRead, Converts,
                    RowAt, options
<1>6. SearchCollects' /\ SearchPassed'
  BY <1>3 DEF SearchCollects, SearchPassed
<1> QED
  BY <1>2, <1>4, <1>5, <1>6 DEF LoopInv

\* A turn that goes on to the next row keeps the invariant, if it kept the row
\* or left it out for a reason.
LEMMA NextRowKeepsInv ==
    ASSUME LoopInv, pc = "rowsRead" \/ (pc = "rows" /\ ~EOF), pc' = "rows",
           UNCHANGED <<rows, options, at, start, appender, astray>>,
           offset' \in {"loop", "append"},
           rowPointer' = PointerAfterNext,
           returned' \in {returned, Append(returned, rowPointer)},
           missed' \in {missed, missed \cup {rowPointer}},
           displaced' \in {displaced, displaced \cup {rowPointer}},
           rowPointer \in missed' => returned' = returned /\ skipInvalid,
           rowPointer \notin missed' \cup displaced' =>
                /\ Converts(rowPointer)
                /\ returned' = IF KeepsRow(rowPointer) THEN Append(returned, rowPointer) ELSE returned
    PROVE  LoopInv'
<1>1. /\ RowsCount \in Nat /\ RowsCount <= RowLimit /\ RowsCount' = RowsCount
      /\ rowPointer \in 0..RowsCount-1 /\ rowPointer \in 0..RowLimit-1
      /\ start \in 0..rowPointer
      /\ rowPointer' = rowPointer + 1 /\ rowPointer' \in 0..Word32-1
      /\ returned \in Seq(0..RowLimit-1) /\ returned \in Seq(Int)
      /\ rowPointer \notin missed \cup displaced
      /\ missed \subseteq Int /\ displaced \subseteq Int
      /\ InRowsLoop /\ InRowsLoop' /\ ~InSearchLoop'
  BY InRows DEF RowsCount, InRowsLoop, InSearchLoop, Fetching
<1>2. TypeOK' /\ AppendOpen'
  <2>1. returned' \in Seq(0..RowLimit-1)
    <3>1. Append(returned, rowPointer) \in Seq(0..RowLimit-1)
      BY <1>1, AppendProperties
    <3> QED
      BY <1>1, <3>1
  <2>2. missed' \subseteq 0..RowLimit-1 /\ displaced' \subseteq 0..RowLimit-1
    BY <1>1 DEF LoopInv, TypeOK
  <2> QED
    BY <1>1, <2>1, <2>2 DEF LoopInv, TypeOK, AppendOpen, RowsCount, RowAt, IsStored, options
<1>3. \A i : (Converts(i)' <=> Converts(i)) /\ RowAt(i)' = RowAt(i)
  BY DEF Converts, RowAt
<1>4. \A i \in Int : i # rowPointer => (WasRead(i)' <=> WasRead(i))
  BY DEF WasRead
<1>5. PointerPlaced'
  BY <1>1 DEF PointerPlaced
<1>6. RowsPassed'
  <2>1. \A i \in missed' \cup displaced' : i < rowPointer'
    BY <1>1 DEF LoopInv, RowsPassed
  <2>2. ASSUME ~astray, NEW i \in start..rowPointer, WasRead(i)' PROVE Converts(i)
    <3>1. CASE i = rowPointer
      BY <2>2, <3>1 DEF WasRead
    <3>2. CASE i # rowPointer
      <4>1. i \in start..rowPointer-1 /\ i \in Int
        BY <1>1, <2>2, <3>2
      <4> QED
        BY <1>1, <1>4, <2>2, <3>2, <4>1 DEF LoopInv, RowsPassed
    <3> QED
      BY <3>1, <3>2
  <2>3. start'..rowPointer'-1 = start..rowPointer
    BY <1>1
  <2> QED
    BY <1>1, <1>3, <2>1, <2>2, <2>3 DEF RowsPassed
<1>7. RowsCollectsInOrder'
  <2>1. /\ Ascends(returned) /\ ToSet(returned) \subseteq (start..rowPointer-1) \ missed
        /\ ~skipInvalid => missed = {}
        /\ ~astray => /\ Wanted(start, rowPointer) \subseteq ToSet(returned)
                      /\ ToSet(returned) \subseteq Wanted(start, rowPointer) \cup displaced
    BY <1>1 DEF LoopInv, RowsCollectsInOrder, Collects, Ascends
  <2>2. /\ Ascends(returned') /\ ToSet(returned') \subseteq (start..rowPointer) \ missed
        /\ returned' = Append(returned, rowPointer) => ToSet(returned') = ToSet(returned) \cup {rowPointer}
    <3>1. \A i \in start..rowPointer-1 : i < rowPointer /\ i \in start..rowPointer
      BY <1>1
    <3>2. rowPointer \in Int /\ rowPointer \in start..rowPointer /\ rowPointer \notin missed
      BY <1>1
    <3>3. \A i \in ToSet(returned) : i < rowPointer
      BY <2>1, <3>1
    <3>4. /\ Ascends(Append(returned, rowPointer))
          /\ ToSet(Append(returned, rowPointer)) = ToSet(returned) \cup {rowPointer}
      BY <1>1, <2>1, <3>2, <3>3, AppendsInOrder
    <3>5. CASE returned' = Append(returned, rowPointer)
      BY <2>1, <3>1, <3>2, <3>4, <3>5
    <3>6. CASE returned' = returned
      <4>1. rowPointer \notin ToSet(returned)
        BY <3>3, <3>2
      <4>2. returned' # Append(returned, rowPointer)
        BY <3>4, <3>6, <4>1
      <4> QED
        BY <2>1, <3>1, <3>6, <4>2
    <3> QED
      BY <3>5, <3>6
  <2>3. ToSet(returned') \subseteq (start..rowPointer) \ missed'
    <3>1. CASE rowPointer \in missed'
      <4>1. rowPointer \notin ToSet(returned)
        BY <1>1, <2>1
      <4> QED
        BY <2>2, <3>1, <4>1
    <3>2. CASE rowPointer \notin missed'
      BY <2>2, <3>2
    <3> QED
      BY <3>1, <3>2
  <2>4. ASSUME ~astray
        PROVE  /\ Wanted(start, rowPointer)' \subseteq ToSet(returned')
               /\ ToSet(returned') \subseteq Wanted(start, rowPointer)' \cup displaced'
    <3>0. PICK k \in Int : k = rowPointer
      BY <1>1
    <3>1. \A i \in Int : i # k => (IsWanted(i)' <=> IsWanted(i))
      BY <1>3, <1>4, <3>0 DEF IsWanted, options
    <3>2. \A i : i \in start'..rowPointer'-1 <=> i \in start..k-1 \/ i = k
      BY <1>1, <3>0
    <3>3. Wanted(start, rowPointer)' \ {k} = Wanted(start, rowPointer) \ {k}
      BY <3>0, <3>1, <3>2 DEF Wanted
    <3>4. k \in Wanted(start, rowPointer)' <=> IsWanted(k)'
      BY <3>2 DEF Wanted
    <3>5. k \notin Wanted(start, rowPointer)
      BY <1>1, <3>0 DEF Wanted
    <3>6. k \notin ToSet(returned)
      BY <1>1, <2>1, <3>0
    <3>7. CASE k \in missed' \cup displaced'
      <4>1. k \notin Wanted(start, rowPointer)'
        BY <3>4, <3>7 DEF IsWanted, WasRead
      <4>2. ToSet(returned') \in {ToSet(returned), ToSet(returned) \cup {k}}
        BY <2>2, <3>0
      <4>3. k \in displaced' \/ ToSet(returned') = ToSet(returned)
        BY <3>0, <3>7
      <4> QED
        BY <2>1, <2>4, <3>3, <3>5, <4>1, <4>2, <4>3
    <3>8. CASE k \notin missed' \cup displaced'
      <4>1. IsWanted(k)' <=> KeepsRow(rowPointer)
        <5>1. RowAt(k).state \in {"active", "deleted"} /\ Converts(k) /\ WasRead(k)'
          BY <3>0, <3>8 DEF Converts, WasRead
        <5>2. Converts(k)' /\ RowAt(k)' = RowAt(k) /\ skipDeleted' = skipDeleted
          BY <1>3, <5>1 DEF options
        <5> QED
          BY <3>0, <5>1, <5>2 DEF IsWanted, KeepsRow
      <4>2. ToSet(returned') = IF KeepsRow(rowPointer) THEN ToSet(returned) \cup {k}
                                                       ELSE ToSet(returned)
        BY <2>2, <3>0, <3>8
      <4> QED
        BY <2>1, <2>4, <3>3, <3>4, <3>5, <4>1, <4>2
    <3> QED
      BY <3>7, <3>8
  <2>5. ~skipInvalid' => missed' = {}
    BY <1>1, <2>1 DEF options
  <2>6. start'..rowPointer'-1 = start..rowPointer /\ rowPointer' >= start'
    BY <1>1
  <2> QED
    BY <2>2, <2>3, <2>4, <2>5, <2>6 DEF RowsCollectsInOrder, Collects, Ascends
<1>8. SearchCollects' /\ SearchPassed'
  BY <1>1 DEF SearchCollects, SearchPassed
<1> QED
  BY <1>2, <1>5, <1>6, <1>7, <1>8 DEF LoopInv

LEMMA RowsReadKeepsInv == ASSUME LoopInv, RowsRead PROVE LoopInv'
<1>1. pc = "rowsRead" /\ rowPointer \notin missed /\ rowPointer \notin displaced
  BY InRows DEF RowsRead
<1> QED
  BY <1>1, NextRowKeepsInv DEF RowsRead

\* A loop that ends leaves no more than the types and the append.
LEMMA EndsKeepInv ==
    ASSUME LoopInv, LoopForgotten, rowPointer' \in 0..Word32-1, offset' \in {"loop", "append"},
           UNCHANGED <<rows, appender, astray>>
    PROVE  LoopInv'
<1>1. TypeOK' /\ AppendOpen' /\ pc' = "idle"
  <2>1. returned' \in Seq(0..RowLimit-1)
    BY EmptySeq DEF LoopForgotten
  <2> QED
    <3>1. /\ 0 \in 0..Word32-1 /\ 0 \in 0..RowLimit
          /\ {} \subseteq 0..RowLimit-1
      BY BoundsAssumption
    <3>2. TypeOK' /\ pc' = "idle"
      BY <2>1, <3>1 DEF LoopInv, TypeOK, LoopForgotten, RowsCount
    <3>3. AppendOpen'
      BY DEF LoopInv, AppendOpen, RowsCount, RowAt, IsStored
    <3> QED
      BY <3>2, <3>3
<1>2. (TypeOK /\ AppendOpen /\ pc = "idle" => LoopInv)'
  BY IdleIsInv, PTL
<1> QED
  BY <1>1, <1>2

LEMMA RowsErrorKeepsInv == ASSUME LoopInv, RowsError PROVE LoopInv'
<1>1. pc = "rowsRead" \/ (pc = "rows" /\ ~EOF)
  BY DEF RowsError
<1>2. offset' \in {"loop", "append"} /\ rowPointer' = PointerAfterNext /\ rowPointer' \in 0..Word32-1
  BY <1>1, InRows DEF RowsError, FailsAfterSeek, LoopInv, TypeOK
<1>3. CASE GoesOn /\ pc' = "rows"
  <2>1. skipInvalid /\ missed' = missed \cup {rowPointer} /\ displaced' = displaced
        /\ returned' = returned /\ UNCHANGED <<rows, options, at, start, appender, astray>>
    BY <1>3 DEF RowsError, GoesOn, LoopForgotten
  <2> QED
    BY <1>1, <1>2, <1>3, <2>1, NextRowKeepsInv
<1>4. CASE LoopForgotten
  BY <1>2, <1>4, EndsKeepInv DEF RowsError
<1> QED
  BY <1>3, <1>4 DEF RowsError

LEMMA ReturnsKeepInv == ASSUME LoopInv, RowsReturns \/ SearchReturns PROVE LoopInv'
<1>1. rowPointer' \in 0..Word32-1 /\ offset' \in {"loop", "append"}
  BY DEF RowsReturns, SearchReturns, LoopInv, TypeOK
<1> QED
  BY <1>1, EndsKeepInv DEF RowsReturns, SearchReturns

-----------------------------------------------------------------------------
(* The turns of Search *)

\* What the turns of Search start from.
LEMMA InSearch ==
    ASSUME LoopInv, pc \in {"searchRead", "fetch", "fetchRead"} \/ (pc = "search" /\ ~SearchEnds)
    PROVE  /\ RowsCount \in Nat /\ RowsCount <= RowLimit
           /\ at \in 0..RowsCount-1 /\ at \in 0..RowLimit-1 /\ at + 1 \in 0..RowLimit
           /\ at \in 0..Word32-1
           /\ returned \in Seq(0..RowLimit-1) /\ returned \in Seq(Int)
           /\ at \notin missed /\ (~Fetching => at \notin displaced)
           /\ missed \subseteq Int /\ displaced \subseteq Int
           /\ InSearchLoop /\ ~InRowsLoop
<1>1. RowsCount \in Nat /\ RowsCount <= RowLimit /\ at \in Nat
  BY LenProperties DEF LoopInv, TypeOK, RowsCount
<1>2. InSearchLoop /\ ~InRowsLoop
  BY DEF InRowsLoop, InSearchLoop, Fetching
<1>3. at \in 0..RowsCount-1
  BY <1>1, <1>2, BoundsAssumption DEF LoopInv, SearchCollects, SearchEnds
<1>4. returned \in Seq(0..RowLimit-1) /\ 0..RowLimit-1 \subseteq Int
  BY DEF LoopInv, TypeOK
<1>5. returned \in Seq(Int)
  BY <1>4, SeqMonotonic
<1>6. at \notin missed /\ (~Fetching => at \notin displaced)
  BY <1>1, <1>2 DEF LoopInv, SearchPassed
<1>7. missed \subseteq Int /\ displaced \subseteq Int
  BY DEF LoopInv, TypeOK
<1> QED
  BY <1>1, <1>2, <1>3, <1>4, <1>5, <1>6, <1>7, BoundsAssumption

LEMMA SearchSeekKeepsInv == ASSUME LoopInv, SearchSeek PROVE LoopInv'
<1>1. /\ pc' \in {"searchRead", "fetchRead"} /\ offset' = "loop"
      /\ UNCHANGED <<rows, rowPointer, options, at, start, missed, displaced, returned,
                     appender, astray>>
      /\ at < RowsCount /\ InSearchLoop /\ ~InRowsLoop' /\ InSearchLoop'
      /\ (Fetching' <=> Fetching) /\ RowsCount' = RowsCount
  <2>1. pc = "fetch" \/ (pc = "search" /\ ~SearchEnds)
    BY DEF SearchSeek
  <2> QED
    BY <2>1, InSearch DEF SearchSeek, InRowsLoop, InSearchLoop, Fetching, RowsCount
<1>2. TypeOK' /\ AppendOpen'
  BY <1>1 DEF LoopInv, TypeOK, AppendOpen, RowsCount, RowAt, IsStored, options
<1>3. PointerPlaced' /\ RowsPassed' /\ RowsCollectsInOrder'
  BY <1>1 DEF PointerPlaced, RowsPassed, RowsCollectsInOrder
<1>4. SearchCollects'
  BY <1>1 DEF LoopInv, SearchCollects, Collects, Hits, IsHit, WasRead, Converts, RowAt
<1>5. SearchPassed'
  BY <1>1 DEF LoopInv, SearchPassed, WasRead, IsSettled, IsStored, RowAt
<1> QED
  BY <1>2, <1>3, <1>4, <1>5 DEF LoopInv

\* A turn that goes on to the next row keeps the invariant, if it kept the row
\* or left it out for a reason.
LEMMA NextPlaceKeepsInv ==
    ASSUME LoopInv,
           pc \in {"searchRead", "fetch", "fetchRead"} \/ (pc = "search" /\ ~SearchEnds),
           pc' = "search", at' = at + 1,
           UNCHANGED <<rows, rowPointer, options, start, appender, astray>>,
           offset' \in {"loop", "append"},
           returned' \in {returned, Append(returned, at)},
           missed' \in {missed, missed \cup {at}},
           displaced' \in {displaced, displaced \cup {at}},
           at \in missed' => returned' = returned,
           ~astray /\ at \notin missed' \cup displaced' =>
                /\ IsSettled(at)
                /\ returned' = IF Converts(at) /\ RowAt(at).match THEN Append(returned, at) ELSE returned
    PROVE  LoopInv'
<1>0. PICK k \in Int : k = at
  BY InSearch
<1>1. /\ RowsCount \in Nat /\ RowsCount <= RowLimit /\ RowsCount' = RowsCount
      /\ at \in 0..RowsCount-1 /\ at \in 0..RowLimit-1 /\ at + 1 \in 0..RowLimit
      /\ returned \in Seq(0..RowLimit-1) /\ returned \in Seq(Int)
      /\ at \notin missed /\ missed \subseteq Int /\ displaced \subseteq Int
      /\ InSearchLoop /\ InSearchLoop' /\ ~InRowsLoop' /\ ~Fetching'
  BY InSearch DEF RowsCount, InRowsLoop, InSearchLoop, Fetching
<1>2. TypeOK' /\ AppendOpen'
  <2>1. returned' \in Seq(0..RowLimit-1)
    <3>1. Append(returned, at) \in Seq(0..RowLimit-1)
      BY <1>1, AppendProperties
    <3> QED
      BY <1>1, <3>1
  <2>2. missed' \subseteq 0..RowLimit-1 /\ displaced' \subseteq 0..RowLimit-1
    BY <1>1 DEF LoopInv, TypeOK
  <2> QED
    BY <1>1, <2>1, <2>2 DEF LoopInv, TypeOK, AppendOpen, RowsCount, RowAt, IsStored, options
<1>3. \A i : /\ (Converts(i)' <=> Converts(i)) /\ RowAt(i)' = RowAt(i)
             /\ (IsSettled(i)' <=> IsSettled(i))
  BY DEF Converts, RowAt, IsSettled, IsStored, RowsCount
<1>4. \A i \in Int : i # k => (WasRead(i)' <=> WasRead(i))
  BY <1>0 DEF WasRead
<1>5. \A i : i \in 0..at'-1 <=> i \in 0..k-1 \/ i = k
  BY <1>0, <1>1
<1>6. SearchPassed'
  <2>1. (\A i \in missed : i < k) /\ (\A i \in displaced : i <= k)
    BY <1>0, <1>1 DEF LoopInv, SearchPassed
  <2>2. \A i \in missed' \cup displaced' : i < at'
    BY <1>0, <1>1, <2>1
  <2>3. ASSUME ~astray, NEW i \in 0..at'-1, WasRead(i)' PROVE IsSettled(i)
    <3>1. CASE i = k
      BY <1>0, <2>3, <3>1 DEF WasRead
    <3>2. CASE i # k
      <4>1. i \in 0..k-1 /\ i \in Int
        BY <1>5, <2>3, <3>2
      <4> QED
        BY <1>0, <1>1, <1>4, <2>3, <3>2, <4>1 DEF LoopInv, SearchPassed
    <3> QED
      BY <3>1, <3>2
  <2> QED
    BY <1>1, <1>3, <2>2, <2>3 DEF SearchPassed
<1>7. SearchCollects'
  <2>1. /\ Ascends(returned) /\ ToSet(returned) \subseteq (0..k-1) \ missed
        /\ ~astray => /\ Hits(at) \subseteq ToSet(returned)
                      /\ ToSet(returned) \subseteq Hits(at) \cup displaced
    BY <1>0, <1>1 DEF LoopInv, SearchCollects, Collects, Ascends
  <2>2. /\ Ascends(returned') /\ ToSet(returned') \subseteq (0..k) \ missed
        /\ returned' = Append(returned, k) => ToSet(returned') = ToSet(returned) \cup {k}
        /\ k \notin ToSet(returned)
    <3>1. \A i \in 0..k-1 : i < k /\ i \in 0..k
      BY <1>0
    <3>2. k \in 0..k /\ k \notin missed
      BY <1>0, <1>1
    <3>3. \A i \in ToSet(returned) : i < k
      BY <2>1, <3>1
    <3>4. /\ Ascends(Append(returned, k))
          /\ ToSet(Append(returned, k)) = ToSet(returned) \cup {k}
      BY <1>1, <2>1, <3>3, AppendsInOrder
    <3>5. k \notin ToSet(returned)
      BY <3>3
    <3>6. CASE returned' = Append(returned, k)
      BY <2>1, <3>1, <3>2, <3>4, <3>5, <3>6
    <3>7. CASE returned' = returned
      <4>1. returned' # Append(returned, k)
        BY <3>4, <3>5, <3>7
      <4> QED
        BY <2>1, <3>1, <3>5, <3>7, <4>1
    <3> QED
      BY <1>0, <3>6, <3>7
  <2>3. ToSet(returned') \subseteq (0..k) \ missed'
    <3>1. CASE k \in missed'
      BY <1>0, <2>2, <3>1
    <3>2. CASE k \notin missed'
      BY <1>0, <2>2, <3>2
    <3> QED
      BY <3>1, <3>2
  <2>4. ASSUME ~astray
        PROVE  /\ Hits(at)' \subseteq ToSet(returned')
               /\ ToSet(returned') \subseteq Hits(at)' \cup displaced'
    <3>1. \A i \in Int : i # k => (IsHit(i)' <=> IsHit(i))
      BY <1>3, <1>4 DEF IsHit
    <3>2. Hits(at)' \ {k} = Hits(at) \ {k}
      BY <1>0, <1>5, <3>1 DEF Hits
    <3>3. k \in Hits(at)' <=> IsHit(k)'
      BY <1>5 DEF Hits
    <3>4. k \notin Hits(at)
      BY <1>0 DEF Hits
    <3>5. CASE k \in missed' \cup displaced'
      <4>1. k \notin Hits(at)'
        BY <3>3, <3>5 DEF IsHit, WasRead
      <4>2. ToSet(returned') \in {ToSet(returned), ToSet(returned) \cup {k}}
        BY <1>0, <2>2
      <4>3. k \in displaced' \/ ToSet(returned') = ToSet(returned)
        BY <1>0, <3>5
      <4> QED
        BY <1>0, <2>1, <2>4, <3>2, <3>4, <4>1, <4>2, <4>3
    <3>6. CASE k \notin missed' \cup displaced'
      <4>1. IsHit(k)' <=> Converts(k) /\ RowAt(k).match
        <5>1. WasRead(k)'
          BY <3>6 DEF WasRead
        <5> QED
          BY <1>3, <5>1 DEF IsHit
      <4>2. ToSet(returned') = IF Converts(k) /\ RowAt(k).match THEN ToSet(returned) \cup {k}
                                                              ELSE ToSet(returned)
        BY <1>0, <2>2, <2>4, <3>6
      <4>3. displaced' = displaced
        BY <1>0, <3>6
      <4> QED
        BY <2>1, <2>4, <3>2, <3>3, <3>4, <4>1, <4>2, <4>3
    <3> QED
      BY <3>5, <3>6
  <2>5. 0..at'-1 = 0..k /\ at' <= RowsCount'
    BY <1>0, <1>1
  <2> QED
    BY <2>2, <2>3, <2>4, <2>5 DEF SearchCollects, Collects, Ascends
<1>8. PointerPlaced' /\ RowsPassed' /\ RowsCollectsInOrder'
  BY <1>1 DEF PointerPlaced, RowsPassed, RowsCollectsInOrder
<1> QED
  BY <1>2, <1>6, <1>7, <1>8 DEF LoopInv

\* A row in the file is stored or has another behind it.
LEMMA InFileIsSettled ==
    ASSUME LoopInv, at \in 0..RowsCount-1, InFile(at) PROVE IsSettled(at)
<1>1. PICK j \in at..RowsCount-1 : IsStored(j)
  BY DEF InFile
<1>2. RowsCount \in Nat
  BY LenProperties DEF LoopInv, TypeOK, RowsCount
<1> QED
  BY <1>1, <1>2 DEF IsSettled

LEMMA SearchReadKeepsInv == ASSUME LoopInv, SearchRead PROVE LoopInv'
<1>1. /\ pc = "searchRead" /\ offset' = "loop"
      /\ UNCHANGED <<rows, options, start, missed, returned, appender, astray>>
      /\ displaced' \in {displaced, displaced \cup {at}}
      /\ RowsCount \in Nat /\ at \in 0..RowsCount-1 /\ at \in 0..RowLimit-1 /\ at \in 0..Word32-1
      /\ at \notin missed /\ at \notin displaced
      /\ displaced \subseteq Int
      /\ InSearchLoop
  BY InSearch DEF SearchRead, Fetching
<1>2. PICK match \in BOOLEAN :
        /\ \/ /\ offset = "loop" /\ InFile(at) /\ match = RowAt(at).match
              /\ UNCHANGED displaced
           \/ /\ offset # "loop"
              /\ displaced' = displaced \cup {at}
        /\ pc' = IF match THEN "fetch" ELSE "search"
        /\ rowPointer' = IF match THEN at ELSE rowPointer
        /\ at' = IF match THEN at ELSE at + 1
  BY DEF SearchRead
<1>3. at \notin displaced' => RowAt(at).match = match /\ IsSettled(at)
  BY <1>1, <1>2, InFileIsSettled
<1>4. CASE ~match
  BY <1>1, <1>2, <1>3, <1>4, NextPlaceKeepsInv
<1>5. CASE match
  <2>1. /\ pc' = "fetch" /\ rowPointer' = at /\ at' = at /\ Fetching' /\ InSearchLoop' /\ ~InRowsLoop'
        /\ RowsCount' = RowsCount
    BY <1>1, <1>2, <1>5 DEF Fetching, InSearchLoop, InRowsLoop, RowsCount
  <2>2. TypeOK' /\ AppendOpen'
    <3>1. displaced' \subseteq 0..RowLimit-1
      BY <1>1 DEF LoopInv, TypeOK
    <3> QED
      BY <1>1, <2>1, <3>1 DEF LoopInv, TypeOK, AppendOpen, RowsCount, RowAt, IsStored, options
  <2>3. \A i : /\ (Converts(i)' <=> Converts(i)) /\ RowAt(i)' = RowAt(i)
               /\ (IsSettled(i)' <=> IsSettled(i))
    BY <1>1 DEF Converts, RowAt, IsSettled, IsStored, RowsCount
  <2>4. \A i \in 0..at-1 : WasRead(i)' <=> WasRead(i)
    BY <1>1 DEF WasRead
  <2>5. SearchCollects'
    <3>1. Hits(at)' = Hits(at)
      BY <2>1, <2>3, <2>4 DEF Hits, IsHit
    <3> QED
      BY <1>1, <2>1, <3>1 DEF LoopInv, SearchCollects, Collects
  <2>6. SearchPassed'
    <3>1. \A i \in missed' : i < at
      BY <1>1 DEF LoopInv, SearchPassed
    <3>2. \A i \in displaced' : i < at \/ i = at
      BY <1>1 DEF LoopInv, SearchPassed, Fetching
    <3>3. WasRead(at)' => RowAt(at).match /\ IsSettled(at)
      BY <1>3, <1>5, <2>1 DEF WasRead
    <3>4. RowAt(at)' = RowAt(at) /\ (IsSettled(at)' <=> IsSettled(at))
      BY <1>1, <2>1 DEF RowAt, IsSettled, IsStored, RowsCount
    <3>5. astray \/ \A i \in 0..at-1 : WasRead(i) => IsSettled(i)
      BY <1>1 DEF LoopInv, SearchPassed
    <3> QED
      BY <1>1, <2>1, <2>3, <2>4, <3>1, <3>2, <3>3, <3>4, <3>5 DEF SearchPassed
  <2>7. PointerPlaced' /\ RowsPassed' /\ RowsCollectsInOrder'
    BY <2>1 DEF PointerPlaced, RowsPassed, RowsCollectsInOrder
  <2> QED
    BY <2>2, <2>5, <2>6, <2>7 DEF LoopInv
<1> QED
  BY <1>4, <1>5

LEMMA FetchReadKeepsInv == ASSUME LoopInv, FetchRead PROVE LoopInv'
<1>1. /\ pc = "fetchRead" /\ at \notin missed /\ InSearchLoop /\ Fetching
  BY InSearch DEF FetchRead, Fetching
<1>2. ~astray /\ at \notin displaced => RowAt(at).match /\ IsSettled(at)
  BY <1>1 DEF LoopInv, SearchPassed, WasRead
<1> QED
  BY <1>1, <1>2, NextPlaceKeepsInv DEF FetchRead

LEMMA SearchMissesKeepsInv == ASSUME LoopInv, SearchMisses PROVE LoopInv'
<1>1. pc \in {"searchRead", "fetch", "fetchRead"} \/ (pc = "search" /\ ~SearchEnds)
  BY DEF SearchMisses, Fetching
<1>2. offset' \in {"loop", "append"}
  BY DEF SearchMisses, FailsAfterSeek, LoopInv, TypeOK
<1> QED
  BY <1>1, <1>2, NextPlaceKeepsInv DEF SearchMisses

-----------------------------------------------------------------------------
(* Another goroutine appends *)

\* An append leaves every row as it is but a last one that is counted and not
\* yet stored, unless one of its writes goes astray.
LEMMA AppendsChangeTheLast ==
    ASSUME LoopInv, Appends
    PROVE  /\ TypeOK' /\ AppendOpen'
           /\ RowsCount \in Nat /\ RowsCount' \in Nat /\ RowsCount <= RowsCount'
           /\ UNCHANGED <<rowPointer, loop>>
           /\ ~astray' => /\ ~astray
                          /\ \A i \in 0..RowsCount-1 :
                                RowAt(i)' = RowAt(i) \/ (i = RowsCount - 1 /\ ~IsStored(i))
<1>1. rows \in Seq(Contents) /\ RowsCount <= RowLimit /\ RowsCount \in Nat
  BY LenProperties DEF LoopInv, TypeOK, RowsCount
<1>2. UNCHANGED <<rowPointer, loop>>
  BY DEF Appends, CountRow, AppendSeek, HeaderWrite, StoreRow, WriteAstray, AppendFails
<1>3. ASSUME rows' \in Seq(Contents), RowsCount' <= RowLimit,
             offset' \in {"loop", "append"}, astray' \in BOOLEAN,
             appender' \in {"none", "counted", "header", "written", "row"}
      PROVE  TypeOK'
  BY <1>2, <1>3 DEF LoopInv, TypeOK, loop, InRowsLoop, InSearchLoop, Fetching
<1>4. ASSUME NEW r \in Unwritten, CountRow(r)
      PROVE  /\ TypeOK' /\ AppendOpen' /\ RowsCount' = RowsCount + 1 /\ astray' = astray
             /\ \A i \in 0..RowsCount-1 : RowAt(i)' = RowAt(i)
  <2>1. rows' = Append(rows, r) /\ r \in Contents /\ r.state = "unwritten" /\ RowsCount < RowLimit
        /\ appender' = "counted" /\ UNCHANGED <<offset, astray>>
    BY <1>4 DEF CountRow, Unwritten
  <2>2. /\ rows' \in Seq(Contents) /\ Len(rows') = Len(rows) + 1
        /\ \A i \in 1..Len(rows) : rows'[i] = rows[i]
        /\ rows'[Len(rows) + 1] = r
    BY <1>1, <2>1, AppendProperties
  <2>3. \A i \in 0..RowsCount-1 : i + 1 \in 1..Len(rows)
    BY <1>1 DEF RowsCount
  <2>4. RowsCount' = RowsCount + 1 /\ RowsCount' <= RowLimit
    BY <1>1, <2>1, <2>2, BoundsAssumption DEF RowsCount
  <2>5. TypeOK'
    BY <1>3, <2>1, <2>2, <2>4 DEF LoopInv, TypeOK
  <2>6. AppendOpen'
    <3>1. RowsCount' > 0 /\ RowsCount' - 1 + 1 = Len(rows) + 1
      BY <1>1, <2>4 DEF RowsCount
    <3> QED
      BY <2>1, <2>2, <3>1 DEF AppendOpen, IsStored, RowAt
  <2> QED
    BY <2>1, <2>2, <2>3, <2>4, <2>5, <2>6 DEF RowAt
<1>5. ASSUME NEW r \in RowStates, StoreRow(r)
      PROVE  /\ TypeOK' /\ AppendOpen' /\ RowsCount' = RowsCount /\ astray' = astray
             /\ astray \/ ~IsStored(RowsCount - 1)
             /\ \A i \in 0..RowsCount-2 : RowAt(i)' = RowAt(i)
  <2>1. rows' = [rows EXCEPT ![RowsCount] = r] /\ r \in Contents
        /\ appender = "row" /\ appender' = "none" /\ UNCHANGED <<offset, astray>>
    BY <1>5 DEF StoreRow, RowStates
  <2>2. RowsCount \in 1..Len(rows) /\ (astray \/ ~IsStored(RowsCount - 1))
    BY <1>1, <2>1 DEF LoopInv, AppendOpen, RowsCount
  <2>3. /\ rows' \in Seq(Contents) /\ Len(rows') = Len(rows)
        /\ \A i \in 1..Len(rows) : i # RowsCount => rows'[i] = rows[i]
    BY <1>1, <2>1, <2>2, ExceptSeq
  <2>4. \A i \in 0..RowsCount-2 : i + 1 \in 1..Len(rows) /\ i + 1 # RowsCount
    BY <1>1 DEF RowsCount
  <2>5. RowsCount' = RowsCount
    BY <2>3 DEF RowsCount
  <2>6. TypeOK'
    BY <1>1, <1>3, <2>1, <2>3, <2>5 DEF LoopInv, TypeOK
  <2> QED
    BY <2>1, <2>2, <2>3, <2>4, <2>5, <2>6 DEF AppendOpen, RowAt
<1>6. ASSUME WriteAstray
      PROVE  TypeOK' /\ AppendOpen' /\ RowsCount' = RowsCount /\ astray'
  <2>1. /\ rows' \in [DOMAIN rows -> Contents] /\ astray' = TRUE /\ offset' = "append"
        /\ appender \in {"header", "row"} /\ appender' \in {"written", "none"}
    BY <1>6 DEF WriteAstray
  <2>2. DOMAIN rows = 1..Len(rows) /\ Len(rows) \in Nat
    BY <1>1, LenProperties
  <2>3. rows' \in Seq(Contents) /\ Len(rows') = Len(rows)
    <3>1. rows' \in [1..Len(rows) -> Contents]
      BY <2>1, <2>2
    <3>2. rows' \in Seq(Contents)
      BY <2>2, <3>1, SeqDef
    <3>3. DOMAIN rows' = 1..Len(rows)
      BY <3>1
    <3> QED
      BY <2>2, <3>2, <3>3, LenProperties
  <2>4. RowsCount' = RowsCount
    BY <2>3 DEF RowsCount
  <2>5. TypeOK'
    BY <1>1, <1>3, <2>1, <2>3, <2>4
  <2>6. AppendOpen'
    BY <2>1, <2>4 DEF LoopInv, AppendOpen
  <2> QED
    BY <2>1, <2>4, <2>5, <2>6
<1>7. ASSUME AppendSeek \/ HeaderWrite \/ AppendFails
      PROVE  TypeOK' /\ AppendOpen' /\ UNCHANGED <<rows, astray>>
  <2>1. /\ UNCHANGED <<rows, astray>> /\ offset' \in {offset, "append"} /\ appender # "none"
        /\ appender' \in {"none", "header", "written", "row"}
    BY <1>7 DEF AppendSeek, HeaderWrite, AppendFails
  <2>2. TypeOK'
    BY <1>1, <1>3, <2>1 DEF LoopInv, TypeOK, RowsCount
  <2> QED
    BY <2>1, <2>2 DEF LoopInv, AppendOpen, IsStored, RowAt, RowsCount
<1>8. CASE \E r \in Unwritten : CountRow(r)
  BY <1>1, <1>2, <1>4, <1>8
<1>9. CASE \E r \in RowStates : StoreRow(r)
  <2>1. \A i \in 0..RowsCount-1 : i # RowsCount - 1 => i \in 0..RowsCount-2
    BY <1>1
  <2> QED
    BY <1>1, <1>2, <1>5, <1>9, <2>1
<1>10. CASE WriteAstray
  BY <1>1, <1>2, <1>6, <1>10
<1>11. CASE AppendSeek \/ HeaderWrite \/ AppendFails
  BY <1>1, <1>2, <1>7, <1>11 DEF RowsCount, RowAt
<1> QED
  BY <1>8, <1>9, <1>10, <1>11 DEF Appends

LEMMA AppendsKeepInv == ASSUME LoopInv, Appends PROVE LoopInv'
<1>1. /\ TypeOK' /\ AppendOpen'
      /\ RowsCount \in Nat /\ RowsCount' \in Nat /\ RowsCount <= RowsCount'
      /\ UNCHANGED <<rowPointer, pc, skipInvalid, skipDeleted, at, start, missed, displaced, returned>>
      /\ rowPointer \in Nat /\ start \in Nat /\ at \in Nat
      /\ InRowsLoop' = InRowsLoop /\ InSearchLoop' = InSearchLoop /\ Fetching' = Fetching
  <2>1. rowPointer \in Nat /\ start \in Nat /\ at \in Nat
    BY DEF LoopInv, TypeOK
  <2> QED
    BY <2>1, AppendsChangeTheLast DEF loop, InRowsLoop, InSearchLoop, Fetching
<1>2. astray => astray'
  BY AppendsChangeTheLast
<1>3. ASSUME ~astray', NEW i \in 0..RowsCount-1, IsSettled(i)
      PROVE  RowAt(i)' = RowAt(i) /\ IsSettled(i)'
  <2>1. RowAt(i)' = RowAt(i)
    <3>1. i < RowsCount - 1 => i # RowsCount - 1
      BY <1>1
    <3> QED
      BY <1>1, <1>3, <3>1, AppendsChangeTheLast DEF IsSettled
  <2>2. i < RowsCount - 1 => i < RowsCount' - 1
    <3>1. \A a, b, c \in Int : a < b - 1 /\ b <= c => a < c - 1
      OBVIOUS
    <3>2. i \in Int /\ RowsCount \in Int /\ RowsCount' \in Int /\ RowsCount <= RowsCount'
      BY <1>1
    <3> QED
      BY <3>1, <3>2
  <2> QED
    BY <1>3, <2>1, <2>2 DEF IsSettled, IsStored
<1>4. \A i : Converts(i) => IsSettled(i)
  BY DEF Converts, IsSettled, IsStored
<1>5. \A i : WasRead(i)' <=> WasRead(i)
  BY <1>1 DEF WasRead
<1>6. PointerPlaced'
  BY <1>1 DEF LoopInv, PointerPlaced
<1>7. ASSUME InRowsLoop PROVE RowsPassed' /\ RowsCollectsInOrder'
  <2>1. ASSUME ~astray', NEW i \in start..rowPointer-1, WasRead(i)
        PROVE  Converts(i) /\ Converts(i)' /\ RowAt(i)' = RowAt(i)
    <3>1. Converts(i) /\ i \in 0..RowsCount-1
      BY <1>1, <1>2, <1>7, <2>1 DEF LoopInv, RowsPassed, PointerPlaced
    <3> QED
      BY <1>3, <1>4, <2>1, <3>1 DEF Converts
  <2>2. RowsPassed'
    BY <1>1, <1>5, <1>7, <2>1 DEF LoopInv, RowsPassed
  <2>3. ~astray' => Wanted(start, rowPointer)' = Wanted(start, rowPointer)
    BY <1>1, <1>5, <2>1 DEF Wanted, IsWanted
  <2>4. RowsCollectsInOrder'
    BY <1>1, <1>2, <1>7, <2>3 DEF LoopInv, RowsCollectsInOrder, Collects
  <2> QED
    BY <2>2, <2>4
<1>8. ASSUME InSearchLoop PROVE SearchCollects' /\ SearchPassed'
  <2>1. at <= RowsCount /\ (pc # "search" => at < RowsCount) /\ (Fetching => pc # "search")
    BY <1>8 DEF LoopInv, SearchCollects, Fetching
  <2>2. ASSUME ~astray', NEW i \in 0..at-1, WasRead(i)
        PROVE  IsSettled(i)' /\ RowAt(i)' = RowAt(i)
    <3>1. IsSettled(i) /\ i \in 0..RowsCount-1
      BY <1>1, <1>2, <1>8, <2>1, <2>2 DEF LoopInv, SearchPassed
    <3> QED
      BY <1>3, <2>2, <3>1
  <2>3. ASSUME ~astray', Fetching, WasRead(at)
        PROVE  (RowAt(at).match)' /\ IsSettled(at)'
    <3>1. PICK k \in 0..RowsCount-1 : k = at
      BY <1>1, <2>1, <2>3
    <3>2. RowAt(k).match /\ IsSettled(k)
      BY <1>2, <1>8, <2>3, <3>1 DEF LoopInv, SearchPassed
    <3>3. RowAt(k)' = RowAt(k) /\ IsSettled(k)'
      BY <1>3, <2>3, <3>2
    <3>4. at' = k
      BY <1>1, <3>1
    <3> QED
      BY <3>2, <3>3, <3>4 DEF RowAt, IsSettled, IsStored
  <2>4. SearchPassed'
    <3>1. WasRead(at)' => WasRead(at)
      BY <1>1 DEF WasRead
    <3> QED
      BY <1>1, <1>5, <1>8, <2>2, <2>3, <3>1 DEF LoopInv, SearchPassed
  <2>5. ~astray' => Hits(at)' = Hits(at)
    BY <1>1, <1>5, <2>2 DEF Hits, IsHit, Converts
  <2>6. SearchCollects'
    BY <1>1, <1>2, <1>8, <2>1, <2>5 DEF LoopInv, SearchCollects, Collects
  <2> QED
    BY <2>4, <2>6
<1>9. ~InRowsLoop => RowsPassed' /\ RowsCollectsInOrder'
  BY <1>1 DEF RowsPassed, RowsCollectsInOrder
<1>10. ~InSearchLoop => SearchCollects' /\ SearchPassed'
  BY <1>1 DEF SearchCollects, SearchPassed
<1> QED
  BY <1>1, <1>6, <1>7, <1>8, <1>9, <1>10 DEF LoopInv

-----------------------------------------------------------------------------
(* The theorems *)

LEMMA StepKeepsInv == LoopInv /\ [Next]_vars => LoopInv'
<1> SUFFICES ASSUME LoopInv, [Next]_vars PROVE LoopInv'
  OBVIOUS
<1>1. ASSUME NEW i \in 0..RowLimit+1, GoTo(i) PROVE LoopInv'
  BY <1>1, GoToKeepsInv
<1>2. ASSUME NEW by \in Offsets, Skip(by) PROVE LoopInv'
  BY <1>2, SkipKeepsInv
<1>3. CASE NextRow
  BY <1>3, SkipKeepsInv
<1>4. ASSUME NEW invalid \in BOOLEAN, NEW deleted \in BOOLEAN, BeginRows(invalid, deleted)
      PROVE  LoopInv'
  BY <1>4, BeginsKeepInv
<1>5. CASE BeginSearch
  BY <1>5, BeginsKeepInv
<1>6. CASE Turn
  BY <1>6, RowsSeekKeepsInv, RowsReadKeepsInv, RowsErrorKeepsInv, SearchSeekKeepsInv,
     SearchReadKeepsInv, FetchReadKeepsInv, SearchMissesKeepsInv, ReturnsKeepInv DEF Turn
<1>7. CASE Appends
  BY <1>7, AppendsKeepInv
<1>8. CASE UNCHANGED vars
  BY <1>8 DEF vars, loop, LoopInv, TypeOK, AppendOpen, PointerPlaced, RowsPassed,
              RowsCollectsInOrder, SearchCollects, SearchPassed, Collects, Wanted, IsWanted, Hits,
              IsHit, WasRead, IsSettled, IsStored, Converts, RowAt, RowsCount, InRowsLoop,
              InSearchLoop, Fetching
<1> QED
  BY <1>1, <1>2, <1>3, <1>4, <1>5, <1>6, <1>7, <1>8 DEF Next

LEMMA LoopsAreSound == Spec => []LoopInv
<1>1. Init => LoopInv
  BY InitIsInv
<1> QED
  BY <1>1, StepKeepsInv, PTL DEF Spec

\* The row pointer stays a uint32 and every other variable of the loops in its
\* range, whatever Skip and GoTo are called with.
THEOREM TypeCorrect == Spec => []TypeOK
<1>1. LoopInv => TypeOK
  BY DEF LoopInv
<1> QED
  BY <1>1, LoopsAreSound, PTL

\* Rows collects the rows it should keep, in order and each once, although rows
\* are counted and stored between its calls and reads fail; a displaced read
\* affects its own row only, and a displaced write no positions.
THEOREM RowsInOrder == Spec => []RowsCollectsInOrder
<1>1. LoopInv => RowsCollectsInOrder
  BY DEF LoopInv
<1> QED
  BY <1>1, LoopsAreSound, PTL

\* When Rows returns it has gone over the whole table, and without skipInvalid
\* over no row that did not convert, but where its read was displaced.
THEOREM RowsGoesOverAll == Spec => RowsReachesTheEnd
<1> DEFINE Reaches ==
      RowsReturns /\ start <= RowsCount =>
            /\ Collects(Wanted(start, RowsCount), start, RowsCount)
            /\ ~skipInvalid /\ ~astray =>
                    \A i \in start..RowsCount-1 : i \in displaced \/ Converts(i)
<1>1. ASSUME LoopInv PROVE Reaches
  <2> SUFFICES ASSUME RowsReturns, start <= RowsCount
               PROVE  /\ Collects(Wanted(start, RowsCount), start, RowsCount)
                      /\ ~skipInvalid /\ ~astray =>
                              \A i \in start..RowsCount-1 : i \in displaced \/ Converts(i)
    OBVIOUS
  <2>1. InRowsLoop /\ rowPointer >= RowsCount /\ RowsCount \in Nat /\ rowPointer \in Nat
    BY <1>1, LenProperties DEF RowsReturns, EOF, LoopInv, TypeOK, RowsCount, InRowsLoop
  <2>2. rowPointer = RowsCount
    BY <1>1, <2>1 DEF LoopInv, PointerPlaced
  <2> QED
    BY <1>1, <2>1, <2>2 DEF LoopInv, RowsPassed, RowsCollectsInOrder, WasRead
<1>2. LoopInv /\ [Next]_vars => [Reaches]_vars
  BY <1>1
<1> QED
  BY <1>2, LoopsAreSound, PTL DEF Spec, RowsReachesTheEnd

\* Search returns exactly the hits it could read, in order and each once, and
\* for a displaced read what it was given instead.
THEOREM SearchIsComplete == Spec => SearchFindsAll
<1>1. ASSUME LoopInv, SearchReturns PROVE Collects(Hits(RowsCount), 0, RowsCount)
  <2>1. InSearchLoop /\ at >= RowsCount /\ RowsCount \in Nat /\ at \in Nat
    BY <1>1, LenProperties DEF SearchReturns, SearchEnds, LoopInv, TypeOK, RowsCount, InSearchLoop
  <2>2. at = RowsCount
    BY <1>1, <2>1 DEF LoopInv, SearchCollects
  <2> QED
    BY <1>1, <2>1, <2>2 DEF LoopInv, SearchCollects
<1>2. LoopInv /\ [Next]_vars => [SearchReturns => Collects(Hits(RowsCount), 0, RowsCount)]_vars
  BY <1>1
<1> QED
  BY <1>2, LoopsAreSound, PTL DEF Spec, SearchFindsAll

=============================================================================
