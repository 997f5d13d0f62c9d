-------------------------- MODULE TableFile_proofs --------------------------
(***************************************************************************)
(* The layout of a table for any word sizes, limits and columns that meet  *)
(* WordAssumption: no uint16 or uint32 sum wraps, so the columns tile the  *)
(* row and the rows end within the size limit.  Then its bytes, in a file  *)
(* or in memory, for any calls that are cut short and any number of times  *)
(* it is opened again: what opens is the table that was created, and       *)
(* nothing comes over a row.                                               *)
(***************************************************************************)
EXTENDS TableFile, SequenceTheorems, WellFoundedInduction, TLAPS

-----------------------------------------------------------------------------
(* Words *)

\* Multiples of a number are apart by at least that number.
LEMMA Multiples ==
    ASSUME NEW w \in Nat, NEW a \in Nat, NEW b \in Nat
    PROVE  /\ a * w \in Nat
           /\ a <= b => a * w <= b * w
           /\ a < b => a * w + w <= b * w
<1>1. \A n \in Nat : n * w \in Nat
  OBVIOUS
<1>2. a <= b => a * w <= b * w
  <2>1. b * w = a * w + (b - a) * w
    OBVIOUS
  <2>2. a <= b => (b - a) * w \in Nat
    BY <1>1
  <2> QED
    BY <1>1, <2>1, <2>2
<1>3. a < b => a * w + w <= b * w
  <2>1. b * w = a * w + w + (b - a - 1) * w
    OBVIOUS
  <2>2. a < b => (b - a - 1) * w \in Nat
    BY <1>1
  <2> QED
    BY <1>1, <2>1, <2>2
<1> QED
  BY <1>1, <1>2, <1>3

\* A number is its quotient times the divisor and the remainder.
LEMMA QuotientAndRemainder ==
    ASSUME NEW a \in Nat, NEW b \in Nat \ {0}, NEW q, q = a \div b, NEW r, r = a % b
    PROVE  q \in Nat /\ r \in Nat /\ r < b /\ a = q * b + r
<1>1. q \in Int /\ r \in Int
  OBVIOUS
<1>2. ASSUME NEW c \in Int, c = b * q PROVE q \in Nat /\ r \in Nat /\ r < b /\ a = c + r
  BY <1>1, <1>2
<1> QED
  BY <1>1, <1>2

\* A number that fits a word is what the word holds.
LEMMA FitsTheWord ==
    ASSUME NEW a \in Nat, NEW w \in Nat \ {0}, a < w PROVE a % w = a
<1> DEFINE q == a \div w
           r == a % w
<1>1. q \in Nat /\ r \in Nat /\ r < w /\ a = q * w + r
  <2> HIDE DEF q, r
  <2> QED
    BY QuotientAndRemainder DEF q, r
<1> HIDE DEF q, r
<1>2. 0 < q => 0 * w + w <= q * w
  BY <1>1, Multiples
<1>3. q = 0
  BY <1>1, <1>2
<1> QED
  BY <1>1, <1>3 DEF r

LEMMA QuotientOfMultiple ==
    ASSUME NEW n \in Nat, NEW w \in Nat \ {0}, NEW a, a = n * w PROVE a \div w = n
<1> DEFINE q == a \div w
           r == a % w
<1>1. a \in Nat
  BY Multiples
<1>2. q \in Nat /\ r \in Nat /\ r < w /\ a = q * w + r
  <2>1. ASSUME NEW b \in Nat PROVE /\ b \div w \in Nat /\ b % w \in Nat /\ b % w < w
                                   /\ b = (b \div w) * w + (b % w)
    BY QuotientAndRemainder
  <2> QED
    BY <1>1, <2>1, Zenon
<1> HIDE DEF q, r
<1>3. (q < n => q * w + w <= n * w) /\ (n < q => n * w + w <= q * w) /\ q * w \in Nat
  BY <1>2, Multiples
<1>4. q = n
  BY <1>1, <1>2, <1>3
<1> QED
  BY <1>4 DEF q

-----------------------------------------------------------------------------
(* The invariant *)

\* Where the row ends with the columns that were taken in.
RowEnd ==
    IF columns = <<>> THEN 1
    ELSE columns[Len(columns)].position + columns[Len(columns)].length

ColumnsFollow ==
    \A i \in 1..Len(columns) :
        columns[i].position = IF i = 1 THEN 1 ELSE columns[i-1].position + columns[i-1].length

\* The row is as long as its columns and null flags, and no longer than they can
\* be; the null flag column comes last.
RowAdds ==
    /\ rowLength = RowEnd + nullFlagColumn
    /\ rowLength <= 1 + Len(columns) * MaxLength + nullFlagColumn
    /\ nullFlagBits <= 2 * Len(columns) /\ nullFlagColumn <= MaxFieldsPerRecord
    /\ phase \in {"columns", "nullFlag"} => nullFlagColumn = 0

\* The rows begin behind the header with all its descriptors.
HeaderDescriptors == declared + (IF nullFlagColumn > 0 THEN 1 ELSE 0)
HeaderAdds == firstRow = FixedHeader + HeaderDescriptors * DescriptorSize

LayoutInv ==
    /\ TypeOK /\ ColumnsFollow /\ RowAdds /\ HeaderAdds
    /\ RowsFitTheFile /\ (phase # "open" => rowsCount = 0)

\* No header of a table outgrows its word.
LEMMA HeaderFits ==
    ASSUME NEW n \in 0..MaxFieldsPerRecord+1
    PROVE  /\ FixedHeader + n * DescriptorSize \in 0..Word16-1
           /\ n * DescriptorSize \in 0..Word16-1
           /\ (n + 1) * DescriptorSize = n * DescriptorSize + DescriptorSize
<1>1. n * DescriptorSize <= (MaxFieldsPerRecord + 1) * DescriptorSize
      /\ n * DescriptorSize \in Nat /\ (MaxFieldsPerRecord + 1) * DescriptorSize \in Nat
  BY Multiples, LimitsAssumption
<1> QED
  BY <1>1, LimitsAssumption, WordAssumption

\* Neither does a row.
LEMMA RowFits ==
    ASSUME NEW n \in 0..MaxFieldsPerRecord, NEW flags \in 0..MaxFieldsPerRecord
    PROVE  /\ n * MaxLength \in Nat /\ 1 + n * MaxLength + flags < Word16
           /\ (n + 1) * MaxLength = n * MaxLength + MaxLength
<1>1. n * MaxLength <= MaxFieldsPerRecord * MaxLength /\ n * MaxLength \in Nat
      /\ MaxFieldsPerRecord * MaxLength \in Nat
  BY Multiples, LimitsAssumption, LengthsAssumption
<1>2. MaxFieldsPerRecord * (MaxLength + 1)
        = MaxFieldsPerRecord * MaxLength + MaxFieldsPerRecord
  BY LimitsAssumption, LengthsAssumption
<1> QED
  BY <1>1, <1>2, LimitsAssumption, LengthsAssumption, WordAssumption

LEMMA InitLaysOut == Init => LayoutInv
<1> SUFFICES ASSUME Init PROVE LayoutInv
  OBVIOUS
<1> USE LimitsAssumption DEF Init
<1>1. declared \in 0..MaxFieldsPerRecord+1
  OBVIOUS
<1>2. firstRow = FixedHeader + declared * DescriptorSize /\ firstRow \in 0..Word16-1
  BY <1>1, HeaderFits, FitsTheWord
<1>3. 1 + 0 * MaxLength + 0 < Word16
  BY RowFits
<1>4. 1 < Word16 /\ 1 + 0 * MaxLength + 0 = 1
  BY <1>3, LengthsAssumption
<1>5. TypeOK
  BY <1>2, <1>4 DEF TypeOK, Phases
<1>6. ColumnsFollow /\ RowAdds /\ HeaderAdds /\ RowsFitTheFile
  BY <1>2, <1>4, LengthsAssumption
  DEF ColumnsFollow, RowAdds, RowEnd, HeaderAdds, HeaderDescriptors, RowsFitTheFile
<1> QED
  BY <1>5, <1>6 DEF LayoutInv

LEMMA RowEndIsANumber == ASSUME TypeOK PROVE RowEnd \in Nat
<1>1. CASE columns = <<>>
  BY <1>1 DEF RowEnd
<1>2. CASE columns # <<>>
  <2>1. Len(columns) \in 1..Len(columns)
    BY <1>2 DEF TypeOK
  <2>2. columns[Len(columns)] \in Columns
    BY <2>1 DEF TypeOK
  <2>3. columns[Len(columns)].position \in Nat /\ columns[Len(columns)].length \in Lengths
    BY <2>2 DEF Columns
  <2>4. \A l \in Lengths : l \in Nat
    BY LengthsAssumption
  <2> QED
    BY <1>2, <2>1, <2>3, <2>4 DEF RowEnd
<1> QED
  BY <1>1, <1>2

\* A column of NewTable: it begins where the row ended.
LEMMA TakeColumnLaysOut ==
    ASSUME LayoutInv, NEW length \in Lengths, NEW variable \in BOOLEAN,
           NEW nullable \in BOOLEAN, TakeColumn(length, variable, nullable)
    PROVE  LayoutInv'
<1> USE LimitsAssumption, LengthsAssumption DEF LayoutInv, TypeOK
<1> DEFINE c == [length |-> length, variable |-> variable, nullable |-> nullable,
                 position |-> rowLength]
           n == Len(columns)
<1>1. /\ n \in Nat /\ n < declared /\ n \in 0..MaxFieldsPerRecord /\ c \in Columns
      /\ columns' = Append(columns, c) /\ nullFlagColumn = 0 /\ phase = "columns"
      /\ UNCHANGED <<declared, firstRow, nullFlagColumn, rowsCount>>
      /\ phase' \in {"columns", "nullFlag"} /\ rowsCount = 0
  BY DEF TakeColumn, PositionOf, Columns, RowAdds
<1> HIDE DEF c
<1>2. /\ columns' \in Seq(Columns) /\ Len(columns') = n + 1 /\ columns' # <<>>
      /\ columns'[n + 1] = c /\ \A i \in 1..n : columns'[i] = columns[i]
  BY <1>1
<1>3. rowLength' = rowLength + length /\ rowLength' <= 1 + (n + 1) * MaxLength
      /\ rowLength' \in 0..Word16-1
  <2>1. /\ n * MaxLength \in Nat /\ (n + 1) * MaxLength = n * MaxLength + MaxLength
        /\ 1 + (n + 1) * MaxLength + 0 < Word16
    <3>1. n + 1 \in 0..MaxFieldsPerRecord /\ 0 \in 0..MaxFieldsPerRecord
      BY <1>1
    <3> QED
      BY <1>1, <3>1, RowFits
  <2>2. rowLength + length \in Nat /\ rowLength + length <= 1 + (n + 1) * MaxLength
        /\ rowLength + length < Word16
    BY <1>1, <2>1 DEF RowAdds
  <2>3. (rowLength + length) % Word16 = rowLength + length
    BY <2>2, FitsTheWord
  <2> QED
    BY <2>2, <2>3 DEF TakeColumn, LengthWith
<1>4. ColumnsFollow'
  <2>1. n > 0 => rowLength = columns[n].position + columns[n].length
    <3>1. RowEnd \in Nat /\ (n > 0 => columns # <<>>)
      BY <1>1, RowEndIsANumber
    <3> QED
      BY <1>1, <3>1 DEF RowAdds, RowEnd
  <2>2. n = 0 => rowLength = 1
    BY <1>1 DEF RowAdds, RowEnd
  <2>3. ASSUME NEW i \in 1..n+1
        PROVE  columns'[i].position =
                 IF i = 1 THEN 1 ELSE columns'[i-1].position + columns'[i-1].length
    <3>1. CASE i = n + 1
      BY <1>1, <1>2, <2>1, <2>2, <3>1 DEF c
    <3>2. CASE i # n + 1
      <4>1. i \in 1..n /\ (i # 1 => i - 1 \in 1..n)
        BY <1>1, <3>2
      <4> QED
        BY <1>2, <4>1 DEF ColumnsFollow
    <3> QED
      BY <3>1, <3>2
  <2> QED
    BY <1>2, <2>3 DEF ColumnsFollow
<1>5. nullFlagBits' \in 0..(2 * MaxFieldsPerRecord) /\ nullFlagBits' <= 2 * (n + 1)
  BY <1>1 DEF TakeColumn, RowAdds
<1>6. RowAdds'
  BY <1>1, <1>2, <1>3, <1>5 DEF RowAdds, RowEnd, c
<1>7. HeaderAdds' /\ RowsFitTheFile'
  BY <1>1 DEF HeaderAdds, HeaderDescriptors, RowsFitTheFile
<1>8. TypeOK'
  BY <1>1, <1>2, <1>3, <1>5 DEF Phases
<1> QED
  BY <1>1, <1>4, <1>6, <1>7, <1>8

\* The null flags of all columns have room in a column of their own.
LEMMA NullFlagLaysOut == ASSUME LayoutInv, AddNullFlagColumn PROVE LayoutInv'
<1> USE LimitsAssumption, LengthsAssumption DEF LayoutInv, TypeOK
<1> DEFINE flags == NullFlagBytes
           n == Len(columns)
<1>1. /\ nullFlagBits \in Nat /\ nullFlagBits > 0 /\ nullFlagBits <= 2 * n /\ n \in Nat
      /\ n <= MaxFieldsPerRecord /\ nullFlagColumn = 0 /\ rowsCount = 0
      /\ nullFlagColumn' = flags
      /\ UNCHANGED <<declared, columns, nullFlagBits, rowsCount>>
      /\ phase' \in {"refused", "write"}
  BY DEF AddNullFlagColumn, RowAdds
<1>2. flags \in Nat /\ flags > 0 /\ flags <= MaxFieldsPerRecord
  BY <1>1 DEF NullFlagBytes
<1> HIDE DEF flags
<1>3. rowLength' = rowLength + flags /\ rowLength' <= 1 + n * MaxLength + flags
      /\ rowLength' \in 0..Word16-1
  <2>1. n * MaxLength \in Nat /\ 1 + n * MaxLength + flags < Word16
    <3>1. n \in 0..MaxFieldsPerRecord /\ flags \in 0..MaxFieldsPerRecord
      BY <1>1, <1>2
    <3> QED
      BY <3>1, RowFits
  <2>2. rowLength + flags \in Nat /\ rowLength + flags <= 1 + n * MaxLength + flags
        /\ rowLength + flags < Word16
    BY <1>1, <1>2, <2>1 DEF RowAdds
  <2>3. (rowLength + flags) % Word16 = rowLength + flags
    BY <2>2, FitsTheWord
  <2> QED
    BY <2>2, <2>3 DEF AddNullFlagColumn, LengthWith, flags
<1>4. firstRow' = FixedHeader + (declared + 1) * DescriptorSize /\ firstRow' \in 0..Word16-1
  <2>1. /\ FixedHeader + (declared + 1) * DescriptorSize \in 0..Word16-1
        /\ (declared + 1) * DescriptorSize = declared * DescriptorSize + DescriptorSize
        /\ declared * DescriptorSize \in Nat
    <3>1. declared \in 0..MaxFieldsPerRecord+1 /\ declared + 1 \in 0..MaxFieldsPerRecord+1
      OBVIOUS
    <3> QED
      BY <3>1, HeaderFits
  <2>2. firstRow + DescriptorSize = FixedHeader + (declared + 1) * DescriptorSize
    BY <1>1, <2>1 DEF HeaderAdds, HeaderDescriptors
  <2>3. (firstRow + DescriptorSize) % Word16 = firstRow + DescriptorSize
    BY <2>1, <2>2, FitsTheWord
  <2> QED
    BY <2>1, <2>2, <2>3 DEF AddNullFlagColumn, FirstRowWithNullFlag
<1>5. RowAdds'
  <2>1. RowEnd' = RowEnd /\ rowLength = RowEnd
    <3>1. RowEnd' = RowEnd
      BY <1>1 DEF RowEnd
    <3>2. rowLength = RowEnd
      BY <1>1, RowEndIsANumber DEF RowAdds
    <3> QED
      BY <3>1, <3>2
  <2> QED
    BY <1>1, <1>2, <1>3, <2>1 DEF RowAdds
<1>6. ColumnsFollow' /\ HeaderAdds' /\ RowsFitTheFile'
  BY <1>1, <1>2, <1>4 DEF ColumnsFollow, HeaderAdds, HeaderDescriptors, RowsFitTheFile
<1> QED
  BY <1>1, <1>2, <1>3, <1>4, <1>5, <1>6 DEF Phases

\* The size that WriteRow computes in words is the size of the file.
LEMMA AppendLaysOut == ASSUME LayoutInv, AppendRow PROVE LayoutInv'
<1> USE LimitsAssumption, LengthsAssumption DEF LayoutInv, TypeOK
<1> DEFINE d == HeaderDescriptors
           rows == rowsCount + 1
<1>1. /\ UNCHANGED <<declared, columns, firstRow, rowLength, nullFlagBits, nullFlagColumn, phase>>
      /\ rowsCount' = rows /\ rowsCount \in Nat /\ rows \in 0..MaxRecordsPerTable
      /\ phase = "open" /\ FileSize(rows) <= MaxTableFileSize
  BY DEF AppendRow, RecordAllowed, SizeAllowed
<1>2. ColumnsCount = d /\ (d * DescriptorSize) % Word16 = d * DescriptorSize
      /\ FixedHeader + d * DescriptorSize = firstRow
  <2>1. d \in 0..MaxFieldsPerRecord+1 /\ d \in Nat
    BY DEF HeaderDescriptors
  <2>2. d * DescriptorSize \in 0..Word16-1
    BY <2>1, HeaderFits
  <2>3. (d * DescriptorSize) % Word16 = d * DescriptorSize
    BY <2>2, FitsTheWord
  <2>4. firstRow - FixedHeader = d * DescriptorSize
    BY <2>2 DEF HeaderAdds
  <2>5. (d * DescriptorSize) \div DescriptorSize = d
    BY <2>1, QuotientOfMultiple
  <2> QED
    BY <2>2, <2>3, <2>4, <2>5 DEF ColumnsCount, HeaderAdds
<1>3. (rows * rowLength) % Word32 = rows * rowLength /\ rows * rowLength \in Nat
  <2>1. rows * rowLength = rowsCount * rowLength + rowLength
        /\ rowsCount * rowLength \in Nat /\ rows * rowLength \in Nat
    BY <1>1, Multiples
  <2>2. rows * rowLength < Word32
    <3>1. CASE rowsCount = 0
      <4>1. rowsCount * rowLength = 0
        BY <3>1
      <4> QED
        BY <2>1, <4>1, WordAssumption
    <3>2. CASE rowsCount > 0
      BY <1>1, <2>1, <3>2, WordAssumption DEF RowsFitTheFile
    <3> QED
      BY <1>1, <3>1, <3>2
  <2> QED
    BY <2>1, <2>2, FitsTheWord
<1>4. firstRow + rows * rowLength <= MaxTableFileSize
  BY <1>1, <1>2, <1>3 DEF FileSize
<1>5. RowsFitTheFile'
  BY <1>1, <1>4 DEF RowsFitTheFile
<1>6. ColumnsFollow' /\ RowAdds' /\ HeaderAdds'
  BY <1>1 DEF ColumnsFollow, RowAdds, RowEnd, HeaderAdds, HeaderDescriptors
<1> QED
  BY <1>1, <1>5, <1>6

LEMMA LayoutStep == LayoutInv /\ [Next]_vars => LayoutInv'
<1> SUFFICES ASSUME LayoutInv, [Next]_vars PROVE LayoutInv'
  OBVIOUS
<1>1. ASSUME UNCHANGED <<declared, columns, firstRow, rowLength, nullFlagBits,
                         nullFlagColumn, rowsCount>>,
             phase' = phase \/ (phase' \in {"refused", "write", "open"} /\ rowsCount = 0)
      PROVE  LayoutInv'
  BY <1>1 DEF LayoutInv, TypeOK, Phases, ColumnsFollow, RowAdds, RowEnd, HeaderAdds,
              HeaderDescriptors, RowsFitTheFile
<1>2. CASE (\E length \in Lengths : RefuseColumn(length)) \/ NeedNoNullFlagColumn \/ Created
  BY <1>1, <1>2 DEF RefuseColumn, NeedNoNullFlagColumn, Created, LayoutInv
<1>3. CASE RefuseRow \/ UNCHANGED vars
  BY <1>1, <1>3 DEF RefuseRow, vars
<1> QED
  BY <1>2, <1>3, TakeColumnLaysOut, NullFlagLaysOut, AppendLaysOut DEF Next

LEMMA LayoutInvariant == Spec => []LayoutInv
BY InitLaysOut, LayoutStep, PTL DEF Spec

\* The header and row lengths fit their words, whatever columns a table has.
THEOREM TypeCorrect == Spec => []TypeOK
<1>1. LayoutInv => TypeOK
  BY DEF LayoutInv
<1> QED
  BY <1>1, LayoutInvariant, PTL

\* The columns of a row follow each other without a gap from its second byte to
\* its null flags: no uint16 sum of NewTable wraps.
THEOREM ColumnsTile == Spec => []ColumnsTileTheRow
<1>1. LayoutInv => ColumnsTileTheRow
  BY DEF LayoutInv, ColumnsFollow, RowAdds, RowEnd, ColumnsTileTheRow
<1> QED
  BY <1>1, LayoutInvariant, PTL

\* The rows that WriteRow accepts end within the size limit: the uint32 product
\* of FileSize never wraps on the way to it.
THEOREM RowsFit == Spec => []RowsFitTheFile
<1>1. LayoutInv => RowsFitTheFile
  BY DEF LayoutInv
<1> QED
  BY <1>1, LayoutInvariant, PTL

-----------------------------------------------------------------------------
(* The inductive invariant *)

\* The data of a source holds the image at an offset.
Holds(data, at, image) ==
    /\ at \in Nat /\ Len(image) \in Nat
    /\ at + Len(image) <= Len(data)
    /\ \A i \in 1..Len(image) : data[at + i] = image[i]

\* A file or an in-memory source whose reader reads what was written last.
Sound(s) ==
    /\ Len(s.data) \in Nat /\ s.data = [i \in 1..Len(s.data) |-> s.data[i]]
    /\ s.memory \in BOOLEAN
    /\ s = IF s.memory
           THEN [memory |-> TRUE, data |-> s.data, pos |-> s.pos,
                 reader |-> [data |-> s.data, pos |-> s.reader.pos]]
           ELSE [memory |-> FALSE, data |-> s.data, pos |-> s.pos, reader |-> s.reader]

BlankFrom(data, at) == \A i \in at+1..Len(data) : data[i] = Zero

EndPlace == DescriptorSize + Descriptors * DescriptorSize

HasHeader(data) == \E count \in 0..rowsCount : Holds(data, 0, HeaderImage(count))

Ends(data) == {i \in 1..Len(data) : data[i].kind = "columnEnd"}

\* Until NewTable writes, the source is blank.
PhasesPlaced ==
    /\ isNew \in BOOLEAN /\ faults \in Nat
    /\ phase # "open" => rowsCount = 0 /\ written = {}
    /\ phase \in {"nullFlag", "write", "open"} => Len(columns) = declared
    /\ phase \in {"columns", "nullFlag", "write"} => BlankFrom(source.data, 0)

\* The header is whole or missing.  Where the columns end, everything in front
\* was written: the chain of NewTable makes its writes in that order.
HeaderWhole ==
    \/ HasHeader(source.data)
    \/ \A i \in 1..HeaderBytes : i <= Len(source.data) => source.data[i] = Zero

EndPlaced ==
    /\ Ends(source.data) # {} =>
          /\ Ends(source.data) = {EndPlace + 1}
          /\ phase \in {"refused", "open"} /\ Len(columns) = declared
          /\ HasHeader(source.data) /\ Holds(source.data, DescriptorSize, AllDescriptors)
          /\ Holds(source.data, EndPlace, ColumnEnd)
    /\ phase = "open" => Ends(source.data) # {}

\* Every stored row is counted in the file and has its bytes.
RowsPlaced ==
    \A slot \in written :
        /\ slot \in Nat
        /\ \E count \in slot+1..rowsCount : Holds(source.data, 0, HeaderImage(count))
        /\ Holds(source.data, RowOffset(slot), Bytes("row", rowLength, slot))

\* Nothing is missing from a table none of whose calls was cut short.
RowsComplete ==
    phase = "open" /\ faults = 0 =>
        written = 0..rowsCount-1 /\ Holds(source.data, 0, HeaderImage(rowsCount))

\* An in-memory source refuses a table that it is too short for before the
\* columns end, and no write after.
MemoryLongEnough ==
    source.memory =>
        /\ faults = 0
        /\ phase = "refused" => Ends(source.data) = {}
        /\ phase = "open" => RowOffset(rowsCount) <= Len(source.data)

FileInv ==
    /\ LayoutInv /\ Sound(source) /\ PhasesPlaced /\ HeaderWhole /\ EndPlaced
    /\ RowsPlaced /\ RowsComplete /\ MemoryLongEnough

-----------------------------------------------------------------------------
(* Induction over the naturals, for a set of them *)

LEMMA InductionOnSet ==
    ASSUME NEW S, 0 \in S, \A n \in Nat : n \in S => n + 1 \in S
    PROVE  \A n \in Nat : n \in S
<1> SUFFICES ASSUME NEW n \in Nat, n \notin S PROVE FALSE
  OBVIOUS
<1> DEFINE Missing == {m \in Nat : m \notin S}
<1>1. PICK m \in Missing : \A k \in Missing : <<k, m>> \notin OpToRel(<, Nat)
  BY WFMin, NatLessThanWellFounded
<1>2. m \in Nat /\ m \notin S /\ m # 0
  OBVIOUS
<1>3. m - 1 \in Nat /\ m - 1 < m /\ (m - 1) + 1 = m
  BY <1>2
<1>4. m - 1 \notin Missing
  BY <1>1, <1>2, <1>3 DEF OpToRel
<1>5. m - 1 \in S
  BY <1>3, <1>4
<1>6. (m - 1) + 1 \in S
  BY <1>3, <1>5
<1> QED
  BY <1>2, <1>3, <1>6

-----------------------------------------------------------------------------
(* Bytes *)

\* The length of a function on 1..n is n.
LEMMA LengthOf ==
    ASSUME NEW n \in Nat, NEW f, DOMAIN f = 1..n, f = [i \in 1..n |-> f[i]]
    PROVE  Len(f) = n
<1> DEFINE S == {f[i] : i \in 1..n}
<1>1. f \in Seq(S)
  <2>1. f \in [1..n -> S]
    OBVIOUS
  <2> QED
    BY <2>1, SeqDef
<1>2. Len(f) \in Nat /\ DOMAIN f = 1..Len(f)
  BY <1>1, LenProperties
<1> QED
  BY <1>2

LEMMA BytesLength ==
    ASSUME NEW kind, NEW n \in Nat, NEW value
    PROVE  /\ Len(Bytes(kind, n, value)) = n
           /\ DOMAIN Bytes(kind, n, value) = 1..n
           /\ \A i \in 1..n : Bytes(kind, n, value)[i] = [kind |-> kind, part |-> i, val |-> value]
<1> DEFINE f == Bytes(kind, n, value)
<1>1. DOMAIN f = 1..n /\ f = [i \in 1..n |-> f[i]]
  BY DEF Bytes
<1>2. Len(f) = n
  BY <1>1, LengthOf
<1> QED
  BY <1>2 DEF Bytes

LEMMA ZerosLength ==
    ASSUME NEW n \in Nat
    PROVE  Len(Zeros(n)) = n /\ \A i \in 1..n : Zeros(n)[i] = Zero
<1> DEFINE f == Zeros(n)
<1>1. DOMAIN f = 1..n /\ f = [i \in 1..n |-> f[i]]
  BY DEF Zeros
<1>2. Len(f) = n
  BY <1>1, LengthOf
<1> QED
  BY <1>2 DEF Zeros

\* The data after an image was written over it.
Over(data, at, image, after) ==
    /\ at \in Nat /\ Len(data) \in Nat /\ Len(image) \in Nat
    /\ Len(after) = IF at + Len(image) > Len(data) THEN at + Len(image) ELSE Len(data)
    /\ \A i \in 1..Len(after) :
          after[i] = IF i \in at+1..at+Len(image) THEN image[i - at]
                     ELSE IF i <= Len(data) THEN data[i] ELSE Zero

LEMMA OverlayIsOver ==
    ASSUME NEW data, Len(data) \in Nat, NEW at \in Nat, NEW image, Len(image) \in Nat
    PROVE  LET after == Overlay(data, at, image)
           IN  /\ Over(data, at, image, after)
               /\ Len(after) \in Nat /\ after = [i \in 1..Len(after) |-> after[i]]
<1> DEFINE n == IF at + Len(image) > Len(data) THEN at + Len(image) ELSE Len(data)
           f == Overlay(data, at, image)
<1>1. n \in Nat
  OBVIOUS
<1>2. DOMAIN f = 1..n /\ f = [i \in 1..n |-> f[i]]
  BY DEF Overlay
<1>3. Len(f) = n
  <2> HIDE DEF f, n
  <2> QED
    BY <1>1, <1>2, LengthOf
<1>4. \A i \in 1..n :
          f[i] = IF i \in at+1..at+Len(image) THEN image[i - at]
                 ELSE IF i <= Len(data) THEN data[i] ELSE Zero
  BY DEF Overlay
<1> QED
  BY <1>1, <1>2, <1>3, <1>4 DEF Over

LEMMA SoundSources ==
    ASSUME NEW data, Len(data) \in Nat, data = [i \in 1..Len(data) |-> data[i]], NEW pos
    PROVE  Sound([memory |-> TRUE, data |-> data, pos |-> pos,
                  reader |-> [data |-> data, pos |-> pos]])
BY DEF Sound

\* What a Seek and a Write do to a source.
LEMMA WriteEffect ==
    ASSUME NEW s, Sound(s), NEW at \in Nat, NEW image, Len(image) \in Nat
    PROVE  LET w == Write(Seek(s, at), image)
           IN  /\ Sound(w.source) /\ w.source.memory = s.memory
               /\ w.ok \in BOOLEAN /\ (w.ok <=> ~s.memory \/ at <= Len(s.data))
               /\ ~w.ok => w.source.data = s.data
               /\ w.ok => Over(s.data, at, image, w.source.data)
<1> DEFINE d == s.data
           t == Seek(s, at)
           after == Overlay(d, at, image)
           w == Write(t, image)
           end == at + Len(image)
<1>1. /\ Over(d, at, image, after)
      /\ Len(after) \in Nat /\ after = [i \in 1..Len(after) |-> after[i]]
  BY OverlayIsOver DEF Sound
<1>2. t.data = d /\ t.pos = at /\ t.memory = s.memory
  BY DEF Seek
<1>3. s.memory \in BOOLEAN /\ Len(d) \in Nat
  BY DEF Sound
<1>4. SUFFICES
        /\ Sound(w.source) /\ w.source.memory = s.memory
        /\ w.ok \in BOOLEAN /\ (w.ok <=> ~s.memory \/ at <= Len(d))
        /\ ~w.ok => w.source.data = d
        /\ w.ok => Over(d, at, image, w.source.data)
  BY Zenon
<1>5. CASE s.memory
  <2>1. t = [memory |-> TRUE, data |-> d, pos |-> at, reader |-> [data |-> d, pos |-> at]]
    <3>1. s.memory = TRUE /\ s.reader.data = d
      BY <1>3, <1>5 DEF Sound
    <3> QED
      BY <3>1, Zenon DEF Seek
  <2> DEFINE done == [memory |-> TRUE, data |-> after, pos |-> end,
                      reader |-> [data |-> after, pos |-> end]]
  <2>2. w = IF at > Len(d) THEN [source |-> t, ok |-> FALSE]
            ELSE [source |-> done, ok |-> TRUE]
    BY <1>2, <1>5, Zenon DEF Write, NewReader
  <2>3. Sound(t)
    <3> HIDE DEF t
    <3> QED
      BY <1>3, <2>1, SoundSources DEF Sound
  <2>4. Sound(done) /\ done.data = after /\ done.memory = TRUE
    BY <1>1 DEF Sound
  <2> HIDE DEF w, t, after, done
  <2>5. CASE at > Len(d)
    <3>1. w.source = t /\ w.ok = FALSE
      BY <2>2, <2>5, Zenon
    <3>2. ~(at <= Len(d)) /\ FALSE \in BOOLEAN
      BY <1>3, <2>5
    <3> QED
      BY <1>2, <1>5, <2>3, <3>1, <3>2, Zenon
  <2>6. CASE ~(at > Len(d))
    <3>1. w.source = done /\ w.ok = TRUE
      BY <2>2, <2>6, Zenon
    <3>2. s.memory = TRUE /\ at <= Len(d) /\ TRUE \in BOOLEAN
      BY <1>3, <1>5, <2>6
    <3> QED
      BY <1>1, <1>5, <2>4, <3>1, <3>2, Zenon
  <2> QED
    BY <2>5, <2>6
<1>6. CASE ~s.memory
  <2> DEFINE done == [memory |-> FALSE, data |-> after, pos |-> end, reader |-> t.reader]
  <2>1. w = [source |-> done, ok |-> TRUE]
    BY <1>2, <1>6, Zenon DEF Write
  <2>2. Sound(done) /\ done.data = after /\ done.memory = FALSE
    BY <1>1 DEF Sound
  <2> HIDE DEF w, t, after, done
  <2> QED
    BY <1>1, <1>3, <1>6, <2>1, <2>2
<1> QED
  BY <1>5, <1>6

\* What is written is there.
LEMMA OverWrites ==
    ASSUME NEW data, NEW at, NEW image, NEW after, Over(data, at, image, after)
    PROVE  Holds(after, at, image) /\ Len(after) \in Nat /\ Len(data) <= Len(after)
<1>1. at \in Nat /\ Len(image) \in Nat /\ Len(data) \in Nat
      /\ Len(after) \in Nat /\ at + Len(image) <= Len(after) /\ Len(data) <= Len(after)
  BY DEF Over
<1>2. \A i \in 1..Len(image) : at + i \in 1..Len(after) /\ at + i \in at+1..at+Len(image)
                               /\ (at + i) - at = i
  BY <1>1
<1> QED
  BY <1>1, <1>2 DEF Over, Holds

\* What lies beside a write stays.
LEMMA OverKeeps ==
    ASSUME NEW data, NEW at, NEW image, NEW after, Over(data, at, image, after),
           NEW other, NEW place, Holds(data, other, place),
           other + Len(place) <= at \/ at + Len(image) <= other
    PROVE  Holds(after, other, place)
<1>1. /\ at \in Nat /\ Len(image) \in Nat /\ Len(data) \in Nat
      /\ other \in Nat /\ Len(place) \in Nat
      /\ Len(after) \in Nat /\ Len(data) <= Len(after)
  BY DEF Over, Holds
<1>2. ASSUME NEW i \in 1..Len(place)
      PROVE  /\ other + i \in 1..Len(after) /\ other + i <= Len(data)
             /\ other + i \notin at+1..at+Len(image) /\ data[other + i] = place[i]
  BY <1>1 DEF Holds
<1>3. \A i \in 1..Len(place) : after[other + i] = place[i]
  BY <1>2 DEF Over
<1> QED
  BY <1>1, <1>3 DEF Holds

\* The same bytes written again change nothing.
LEMMA OverAgain ==
    ASSUME NEW data, NEW at, NEW image, NEW after, Over(data, at, image, after), Holds(data, at, image)
    PROVE  Len(after) = Len(data) /\ \A i \in 1..Len(data) : after[i] = data[i]
<1>1. at \in Nat /\ Len(image) \in Nat /\ Len(data) \in Nat /\ Len(after) = Len(data)
  BY DEF Over, Holds
<1>2. ASSUME NEW i \in at+1..at+Len(image) PROVE image[i - at] = data[i]
  <2>1. i - at \in 1..Len(image) /\ at + (i - at) = i
    BY <1>1
  <2> QED
    BY <2>1 DEF Holds
<1> QED
  BY <1>1, <1>2 DEF Over

\* What a Read after a Seek returns.
LEMMA BytesAtMeans ==
    ASSUME NEW s, Sound(s), NEW at \in Nat, NEW n \in Nat
    PROVE  /\ at + n <= Len(s.data) =>
                 /\ BytesAt(s, at, n) = [i \in 1..n |-> s.data[at + i]]
                 /\ Len(BytesAt(s, at, n)) = n
           /\ at < Len(s.data) /\ n > 0 =>
                 BytesAt(s, at, n) # <<>> /\ BytesAt(s, at, n)[1] = s.data[at + 1]
           /\ at + n > Len(s.data) /\ n > 0 => Len(BytesAt(s, at, n)) < n
           /\ at >= Len(s.data) => BytesAt(s, at, n) = <<>>
<1> DEFINE d == s.data
           last == IF at + n < Len(d) THEN at + n ELSE Len(d)
           read == SubSeq(d, at + 1, last)
           S == {d[i] : i \in 1..Len(d)}
<1>1. Len(d) \in Nat /\ BytesAt(s, at, n) = read /\ last \in Int
  <2>1. (IF s.memory THEN s.reader.data ELSE s.data) = d /\ Len(d) \in Nat
    BY DEF Sound
  <2>2. BytesAt(s, at, n) = read
    BY <2>1, Zenon DEF BytesAt
  <2> QED
    BY <2>1, <2>2
<1>2. \A i \in at+1..last : d[i] \in S
  BY <1>1
<1>3. /\ read \in Seq(S)
      /\ Len(read) = (IF at + 1 <= last THEN last - (at + 1) + 1 ELSE 0)
      /\ \A i \in 1..last-(at+1)+1 : read[i] = d[at + 1 + i - 1]
  <2> HIDE DEF last, d, S
  <2> QED
    BY <1>1, <1>2, SubSeqProperties
<1>4. at + 1 > last => read = <<>>
  <2> HIDE DEF last, d
  <2> QED
    BY <1>1, SubSeqEmpty
<1>5. DOMAIN read = 1..Len(read) /\ read \in [1..Len(read) -> S] /\ Len(<<>>) = 0
  BY <1>3, LenProperties, EmptySeq
<1>6. last = IF at + n < Len(d) THEN at + n ELSE Len(d)
  OBVIOUS
<1> HIDE DEF read, S, last, d
<1>7. ASSUME at + n <= Len(d)
      PROVE  read = [i \in 1..n |-> d[at + i]] /\ Len(read) = n
  <2>1. last = at + n
    BY <1>1, <1>6, <1>7
  <2>2. last - (at + 1) + 1 = n /\ Len(read) = n
    BY <1>3, <2>1
  <2>3. \A i \in 1..n : at + 1 + i - 1 = at + i
    OBVIOUS
  <2>4. \A i \in 1..n : read[i] = d[at + i]
    BY <1>3, <2>2, <2>3
  <2> QED
    BY <1>5, <2>2, <2>4
<1>8. ASSUME at < Len(d), n > 0 PROVE read # <<>> /\ read[1] = d[at + 1]
  <2>1. at + 1 <= last
    BY <1>1, <1>6, <1>8
  <2>2. 1 \in 1..last-(at+1)+1 /\ Len(read) # 0 /\ at + 1 + 1 - 1 = at + 1
    BY <1>1, <1>3, <2>1
  <2> QED
    BY <1>3, <1>5, <2>2
<1>9. ASSUME at + n > Len(d), n > 0 PROVE Len(read) < n
  BY <1>1, <1>3, <1>6, <1>9
<1>10. ASSUME at >= Len(d) PROVE read = <<>>
  BY <1>1, <1>4, <1>6, <1>10
<1> QED
  BY <1>1, <1>7, <1>8, <1>9, <1>10 DEF d

-----------------------------------------------------------------------------
(* Chains of writes *)

NextWrite(chain, n, before) ==
    IF ~before.ok THEN before
    ELSE Write(Seek(before.source, chain[n].at), chain[n].image)

\* AfterWrites is the function its recursion describes.
LEMMA AfterWritesUnrolls ==
    ASSUME NEW s, NEW chain, Len(chain) \in Nat
    PROVE  /\ AfterWrites(s, chain)[0] = [source |-> s, ok |-> TRUE]
           /\ \A n \in 1..Len(chain) :
                 AfterWrites(s, chain)[n] = NextWrite(chain, n, AfterWrites(s, chain)[n-1])
<1> DEFINE first == [source |-> s, ok |-> TRUE]
           Unrolls(f, k) ==
               f = [n \in 0..k |-> IF n = 0 THEN first ELSE NextWrite(chain, n, f[n-1])]
           S == {k \in Nat : \E f : Unrolls(f, k)}
<1>1. 0 \in S
  <2>1. Unrolls([n \in 0..0 |-> first], 0)
    OBVIOUS
  <2> QED
    BY <2>1
<1>2. ASSUME NEW k \in Nat, k \in S PROVE k + 1 \in S
  <2>1. PICK f : Unrolls(f, k)
    BY <1>2
  <2> DEFINE g == [n \in 0..k+1 |-> IF n = k + 1 THEN NextWrite(chain, k + 1, f[k]) ELSE f[n]]
  <2>2. ASSUME NEW n \in 0..k+1
        PROVE  g[n] = IF n = 0 THEN first ELSE NextWrite(chain, n, g[n-1])
    <3>1. CASE n = k + 1
      <4>1. n # 0 /\ n - 1 = k /\ k \in 0..k+1 /\ k # k + 1
        BY <3>1
      <4> QED
        BY <3>1, <4>1
    <3>2. CASE n # k + 1
      <4>1. n \in 0..k /\ (n # 0 => n - 1 \in 0..k+1 /\ n - 1 # k + 1)
        BY <3>2
      <4>2. f[n] = IF n = 0 THEN first ELSE NextWrite(chain, n, f[n-1])
        BY <2>1, <4>1
      <4> QED
        BY <3>2, <4>1, <4>2
    <3> QED
      BY <3>1, <3>2
  <2>3. Unrolls(g, k + 1)
    BY <2>2
  <2>4. k + 1 \in Nat
    OBVIOUS
  <2> HIDE DEF g
  <2> QED
    BY <2>3, <2>4, Zenon
<1>3. Len(chain) \in S
  <2> HIDE DEF S
  <2> QED
    BY <1>1, <1>2, InductionOnSet
<1>4. Unrolls(AfterWrites(s, chain), Len(chain))
  <2>1. AfterWrites(s, chain) = CHOOSE f : Unrolls(f, Len(chain))
    BY Zenon DEF AfterWrites, NextWrite
  <2>2. PICK f : Unrolls(f, Len(chain))
    BY <1>3
  <2> QED
    BY <2>1, <2>2, Zenon
<1>5. 0 \in 0..Len(chain) /\ \A n \in 1..Len(chain) : n \in 0..Len(chain) /\ n # 0
  OBVIOUS
<1> DEFINE done == AfterWrites(s, chain)
<1> HIDE DEF done, first
<1>6. /\ done[0] = first
      /\ \A n \in 1..Len(chain) : done[n] = NextWrite(chain, n, done[n-1])
  BY <1>4, <1>5 DEF done
<1> QED
  BY <1>6 DEF done, first

Writable(chain) ==
    /\ Len(chain) \in Nat
    /\ \A n \in 1..Len(chain) : chain[n].at \in Nat /\ Len(chain[n].image) \in Nat

\* A write after one that succeeded or not: none is tried after one that is refused.
Written(memory, before, okBefore, at, image, after, okAfter) ==
    /\ okAfter => okBefore /\ Over(before, at, image, after)
    /\ ~okAfter => after = before
    /\ okBefore => (okAfter <=> ~memory \/ at <= Len(before))

\* The data after each write of a chain, and whether it succeeded.
Effects(chain, memory, data, ok) ==
    /\ ok[0] = TRUE
    /\ \A n \in 0..Len(chain) : ok[n] \in BOOLEAN /\ Len(data[n]) \in Nat
    /\ \A n \in 1..Len(chain) :
          Written(memory, data[n-1], ok[n-1], chain[n].at, chain[n].image, data[n], ok[n])

LEMMA ChainEffects ==
    ASSUME NEW s, Sound(s), NEW chain, Writable(chain)
    PROVE  LET done == AfterWrites(s, chain)
           IN  /\ \A n \in 0..Len(chain) : Sound(done[n].source) /\ done[n].source.memory = s.memory
               /\ done[0].source = s
               /\ Effects(chain, s.memory, [n \in 0..Len(chain) |-> done[n].source.data],
                          [n \in 0..Len(chain) |-> done[n].ok])
<1> DEFINE done == AfterWrites(s, chain)
           L == Len(chain)
           data == [n \in 0..L |-> done[n].source.data]
           ok == [n \in 0..L |-> done[n].ok]
           Good(n) == Sound(done[n].source) /\ done[n].source.memory = s.memory
                      /\ done[n].ok \in BOOLEAN
           Follows(n) == Written(s.memory, done[n-1].source.data, done[n-1].ok,
                                 chain[n].at, chain[n].image, done[n].source.data, done[n].ok)
           S == {n \in Nat : n <= L => Good(n)}
<1>1. L \in Nat /\ done[0] = [source |-> s, ok |-> TRUE]
      /\ \A n \in 1..L : done[n] = NextWrite(chain, n, done[n-1])
  BY AfterWritesUnrolls DEF Writable
<1> HIDE DEF done
<1>2. done[0].source = s /\ done[0].ok = TRUE
  <2> DEFINE first == [source |-> s, ok |-> TRUE]
  <2>1. first.source = s /\ first.ok = TRUE
    OBVIOUS
  <2>2. done[0] = first
    BY <1>1
  <2> HIDE DEF first
  <2> QED
    BY <2>1, <2>2
<1>3. Good(0)
  BY <1>2, Zenon
<1>4. ASSUME NEW n \in 1..L, Good(n-1) PROVE Good(n) /\ Follows(n)
  <2> DEFINE b == done[n-1].source
             w == Write(Seek(b, chain[n].at), chain[n].image)
  <2>1. chain[n].at \in Nat /\ Len(chain[n].image) \in Nat
    BY DEF Writable
  <2>2. /\ Sound(w.source) /\ w.source.memory = b.memory
        /\ w.ok \in BOOLEAN /\ (w.ok <=> ~b.memory \/ chain[n].at <= Len(b.data))
        /\ ~w.ok => w.source.data = b.data
        /\ w.ok => Over(b.data, chain[n].at, chain[n].image, w.source.data)
    <3>1. Sound(b)
      BY <1>4
    <3> HIDE DEF b
    <3> QED
      BY <2>1, <3>1, WriteEffect
  <2>3. done[n] = IF ~done[n-1].ok THEN done[n-1] ELSE w
    BY <1>1, Zenon DEF NextWrite
  <2> HIDE DEF w
  <2>4. CASE done[n-1].ok
    BY <1>4, <2>2, <2>3, <2>4, Zenon DEF Written
  <2>5. CASE ~done[n-1].ok
    BY <1>4, <2>3, <2>5, Zenon DEF Written
  <2> QED
    BY <2>4, <2>5, Zenon
<1>5. 0 \in S
  BY <1>3
<1>6. ASSUME NEW n \in Nat, n \in S PROVE n + 1 \in S
  <2>1. ASSUME n + 1 <= L PROVE Good(n + 1)
    <3>1. n + 1 \in 1..L /\ (n + 1) - 1 = n /\ n <= L
      BY <1>1, <2>1
    <3>2. Good((n + 1) - 1)
      BY <1>6, <3>1
    <3> QED
      BY <1>4, <3>1, <3>2, Zenon
  <2> QED
    BY <2>1
<1>7. \A n \in Nat : n \in S
  <2> HIDE DEF S
  <2> QED
    BY <1>5, <1>6, InductionOnSet
<1>8. \A n \in 0..L : Good(n)
  BY <1>1, <1>7
<1>9. \A n \in 1..L : n - 1 \in 0..L /\ n \in 0..L
  BY <1>1
<1>10. \A n \in 1..L : Follows(n)
  BY <1>4, <1>8, <1>9, Zenon
<1>11. Effects(chain, s.memory, data, ok)
  <2>1. \A n \in 0..L : data[n] = done[n].source.data /\ ok[n] = done[n].ok
    BY Zenon
  <2>2. 0 \in 0..L
    BY <1>1
  <2>3. \A n \in 0..L : Len(done[n].source.data) \in Nat
    BY <1>8 DEF Sound
  <2> HIDE DEF data, ok
  <2>4. ASSUME NEW n \in 1..L
        PROVE  Written(s.memory, data[n-1], ok[n-1], chain[n].at, chain[n].image, data[n], ok[n])
    BY <1>9, <1>10, <2>1, Zenon
  <2> QED
    BY <1>2, <1>8, <2>1, <2>2, <2>3, <2>4, Zenon DEF Effects
<1> QED
  BY <1>2, <1>8, <1>11, Zenon DEF done

\* A call makes the first writes of its chain, all of them when it succeeds.
LEMMA PerformMeans ==
    ASSUME Sound(source), faults \in Nat, NEW chain, Writable(chain),
           NEW whole, Perform(chain, whole)
    PROVE  \E n \in 0..Len(chain) : \E data, ok :
               /\ Effects(chain, source.memory, data, ok) /\ data[0] = source.data
               /\ Sound(source') /\ source'.data = data[n]
               /\ source'.memory = source.memory
               /\ whole = (ok[n] /\ n = Len(chain))
               /\ n < Len(chain) => ~source.memory
               /\ faults' = IF n < Len(chain) THEN faults + 1 ELSE faults
<1> DEFINE done == AfterWrites(source, chain)
           data == [n \in 0..Len(chain) |-> done[n].source.data]
           ok == [n \in 0..Len(chain) |-> done[n].ok]
<1>1. PICK n \in 0..Len(chain) :
          /\ n < Len(chain) => ~source.memory /\ faults < MaxFaults
          /\ whole = (done[n].ok /\ n = Len(chain))
          /\ source' = done[n].source
          /\ faults' = IF n < Len(chain) THEN faults + 1 ELSE faults
  BY Zenon DEF Perform
<1>2. /\ \A m \in 0..Len(chain) : Sound(done[m].source) /\ done[m].source.memory = source.memory
      /\ done[0].source = source
      /\ Effects(chain, source.memory, data, ok)
  BY ChainEffects, Zenon
<1>3. 0 \in 0..Len(chain)
  BY DEF Writable
<1>4. data[0] = source.data /\ data[n] = done[n].source.data /\ ok[n] = done[n].ok
  BY <1>2, <1>3, Zenon
<1> HIDE DEF done, data, ok
<1> QED
  BY <1>1, <1>2, <1>4, Zenon

-----------------------------------------------------------------------------
(* Where the parts of a table are *)

LEMMA HeaderImageMeans ==
    ASSUME NEW count
    PROVE  /\ Len(HeaderImage(count)) = HeaderBytes
           /\ HeaderBytes \in 1..DescriptorSize-1 /\ DescriptorSize \in Nat
           /\ \A i \in 1..HeaderBytes :
                 HeaderImage(count)[i] =
                     [kind |-> "header", part |-> i,
                      val |-> [firstRow |-> firstRow, rowLength |-> rowLength,
                               rowsCount |-> count]]
<1>1. HeaderBytes \in Nat
  BY SourceAssumption, LimitsAssumption
<1> QED
  BY <1>1, BytesLength, SourceAssumption, LimitsAssumption DEF HeaderImage

\* The header has one count.
LEMMA HeaderUnique ==
    ASSUME NEW data, NEW c, NEW e,
           Holds(data, 0, HeaderImage(c)), Holds(data, 0, HeaderImage(e))
    PROVE  c = e /\ data[1].val.rowsCount = c
<1>1. ASSUME NEW count
      PROVE  1 \in 1..Len(HeaderImage(count)) /\ HeaderImage(count)[1].val.rowsCount = count
  <2>1. Len(HeaderImage(count)) = HeaderBytes /\ 1 \in 1..HeaderBytes
    BY HeaderImageMeans
  <2>2. HeaderImage(count)[1] =
            [kind |-> "header", part |-> 1,
             val |-> [firstRow |-> firstRow, rowLength |-> rowLength, rowsCount |-> count]]
    BY <2>1, HeaderImageMeans
  <2> QED
    BY <2>1, <2>2
<1> QED
  BY <1>1 DEF Holds

\* Descriptor k starts behind the descriptors in front of it; none has a byte
\* that looks like the end of the columns.
LEMMA DescriptorsMean ==
    ASSUME Descriptors \in Nat
    PROVE  /\ Descriptors * DescriptorSize \in Nat
           /\ Len(AllDescriptors) = Descriptors * DescriptorSize
           /\ \A i \in 1..Len(AllDescriptors) : AllDescriptors[i].kind # "columnEnd"
           /\ \A k \in 1..Descriptors :
                 /\ (k - 1) * DescriptorSize + 1 \in 1..Len(AllDescriptors)
                 /\ AllDescriptors[(k - 1) * DescriptorSize + 1] =
                       IF k <= Len(columns)
                       THEN [kind |-> "column", part |-> 1, val |-> columns[k]]
                       ELSE [kind |-> "nullFlag", part |-> 1, val |-> nullFlagColumn]
<1> DEFINE n == Descriptors * DescriptorSize
           before(i) == (i - 1) \div DescriptorSize
<1>1. n \in Nat /\ DescriptorSize \in Nat \ {0}
  BY Multiples, LimitsAssumption
<1>2. ASSUME NEW k
      PROVE  \A i \in 1..DescriptorSize :
                 Descriptor(k)[i] = IF k <= Len(columns)
                                    THEN [kind |-> "column", part |-> i, val |-> columns[k]]
                                    ELSE [kind |-> "nullFlag", part |-> i, val |-> nullFlagColumn]
  BY <1>1, BytesLength DEF Descriptor
<1>3. Len(AllDescriptors) = n
  <2>1. DOMAIN AllDescriptors = 1..n /\ AllDescriptors = [i \in 1..n |-> AllDescriptors[i]]
    BY Zenon DEF AllDescriptors
  <2> QED
    BY <1>1, <2>1, LengthOf
<1>4. \A i \in 1..n :
          AllDescriptors[i] = Descriptor(before(i) + 1)[i - before(i) * DescriptorSize]
  BY Zenon DEF AllDescriptors
<1>5. ASSUME NEW i \in 1..n PROVE i - before(i) * DescriptorSize \in 1..DescriptorSize
  <2> DEFINE q == before(i)
             r == (i - 1) % DescriptorSize
  <2>1. i - 1 \in Nat
    BY <1>1
  <2>2. q \in Nat /\ r \in Nat /\ r < DescriptorSize /\ i - 1 = q * DescriptorSize + r
    <3> DEFINE j == i - 1
    <3>1. j \in Nat
      BY <2>1
    <3> HIDE DEF j
    <3>2. /\ j \div DescriptorSize \in Nat /\ j % DescriptorSize \in Nat
          /\ j % DescriptorSize < DescriptorSize
          /\ j = (j \div DescriptorSize) * DescriptorSize + (j % DescriptorSize)
      BY <1>1, <3>1, QuotientAndRemainder
    <3> QED
      BY <3>2 DEF j
  <2> HIDE DEF q, r
  <2>3. q * DescriptorSize \in Nat
    BY <1>1, <2>2, Multiples
  <2>4. i - q * DescriptorSize \in 1..DescriptorSize
    BY <1>1, <2>2, <2>3
  <2> QED
    BY <2>4 DEF q
<1>6. ASSUME NEW i \in 1..n PROVE AllDescriptors[i].kind # "columnEnd"
  <2> DEFINE k == before(i) + 1
             j == i - before(i) * DescriptorSize
  <2>1. AllDescriptors[i] = Descriptor(k)[j] /\ j \in 1..DescriptorSize
    BY <1>4, <1>5
  <2> HIDE DEF k, j
  <2>2. Descriptor(k)[j] = IF k <= Len(columns)
                           THEN [kind |-> "column", part |-> j, val |-> columns[k]]
                           ELSE [kind |-> "nullFlag", part |-> j, val |-> nullFlagColumn]
    BY <1>2, <2>1
  <2> QED
    BY <2>1, <2>2
<1>7. ASSUME NEW k \in 1..Descriptors
      PROVE  /\ (k - 1) * DescriptorSize + 1 \in 1..n
             /\ AllDescriptors[(k - 1) * DescriptorSize + 1] = Descriptor(k)[1]
  <2> DEFINE first == (k - 1) * DescriptorSize
  <2>1. k - 1 \in Nat /\ k - 1 < Descriptors /\ (k - 1) + 1 = k
    OBVIOUS
  <2>2. first \in Nat /\ first + DescriptorSize <= n
    BY <1>1, <2>1, Multiples
  <2>3. first \div DescriptorSize = k - 1
    BY <1>1, <2>1, QuotientOfMultiple
  <2> HIDE DEF first
  <2>4. first + 1 \in 1..n /\ (first + 1) - 1 = first
    BY <1>1, <2>2
  <2>5. before(first + 1) = k - 1
    BY <2>3, <2>4
  <2>6. (first + 1) - (k - 1) * DescriptorSize = 1
    BY <2>2 DEF first
  <2>7. AllDescriptors[first + 1] = Descriptor(k)[1]
    BY <1>4, <2>1, <2>4, <2>5, <2>6
  <2> QED
    BY <2>4, <2>7 DEF first
<1>8. 1 \in 1..DescriptorSize
  BY <1>1
<1>9. \A k \in 1..Descriptors :
          Descriptor(k)[1] = IF k <= Len(columns)
                             THEN [kind |-> "column", part |-> 1, val |-> columns[k]]
                             ELSE [kind |-> "nullFlag", part |-> 1, val |-> nullFlagColumn]
  BY <1>2, <1>8
<1> HIDE DEF n, before
<1>10. \A k \in 1..Descriptors :
          /\ (k - 1) * DescriptorSize + 1 \in 1..n
          /\ AllDescriptors[(k - 1) * DescriptorSize + 1] =
                IF k <= Len(columns)
                THEN [kind |-> "column", part |-> 1, val |-> columns[k]]
                ELSE [kind |-> "nullFlag", part |-> 1, val |-> nullFlagColumn]
  BY <1>7, <1>9, Zenon
<1> QED
  BY <1>1, <1>3, <1>6, <1>10, Zenon DEF n

LEMMA ColumnEndMeans == Len(ColumnEnd) = 1 /\ ColumnEnd[1].kind = "columnEnd"
<1> DEFINE n == 1
           kind == "columnEnd"
<1>1. Len(ColumnEnd) = 1 /\ \A i \in 1..1 : ColumnEnd[i] = [kind |-> kind, part |-> i, val |-> 0]
  <2>1. n \in Nat /\ ColumnEnd = Bytes(kind, n, 0)
    BY Zenon DEF ColumnEnd
  <2> HIDE DEF n, kind
  <2>2. /\ Len(Bytes(kind, n, 0)) = n
        /\ \A i \in 1..n : Bytes(kind, n, 0)[i] = [kind |-> kind, part |-> i, val |-> 0]
    BY <2>1, BytesLength
  <2>3. n = 1
    BY DEF n
  <2> QED
    BY <2>1, <2>2, <2>3, Zenon
<1>2. 1 \in 1..1
  OBVIOUS
<1> QED
  BY <1>1, <1>2

\* The descriptors end within the header: the padding, which does not wrap, ends
\* where the rows begin.
LEMMA Places ==
    ASSUME LayoutInv, Len(columns) = declared
    PROVE  /\ Descriptors \in 0..MaxFieldsPerRecord+1
           /\ EndPlace \in Nat /\ EndPlace = DescriptorSize + Len(AllDescriptors)
           /\ Padding \in Nat /\ EndPlace + 1 + Padding = firstRow
           /\ Len(Zeros(Padding)) = Padding /\ \A i \in 1..Padding : Zeros(Padding)[i] = Zero
<1> DEFINE n == Descriptors
           places == n * DescriptorSize
<1>1. n \in 0..MaxFieldsPerRecord+1 /\ n = HeaderDescriptors
  BY LimitsAssumption DEF Descriptors, HeaderDescriptors, LayoutInv, TypeOK
<1>2. places \in Nat /\ DescriptorSize \in Nat /\ FixedHeader \in Nat
      /\ FixedHeader - (DescriptorSize + 1) \in Nat
  BY <1>1, Multiples, LimitsAssumption
<1>3. firstRow = FixedHeader + places /\ firstRow \in 0..Word16-1 /\ Word16 \in Nat \ {0}
  BY <1>1, LimitsAssumption DEF LayoutInv, HeaderAdds, TypeOK
<1>4. Len(AllDescriptors) = places
  BY <1>1, DescriptorsMean
<1>5. Padding = (firstRow - places - (DescriptorSize + 1)) % Word16
      /\ EndPlace = DescriptorSize + places
  BY DEF Padding, EndPlace
<1> HIDE DEF places
<1>6. firstRow - places - (DescriptorSize + 1) = FixedHeader - (DescriptorSize + 1)
      /\ FixedHeader - (DescriptorSize + 1) < Word16
  BY <1>2, <1>3
<1>7. Padding = FixedHeader - (DescriptorSize + 1)
  <2> DEFINE a == FixedHeader - (DescriptorSize + 1)
  <2>1. a \in Nat /\ a < Word16 /\ Word16 \in Nat \ {0} /\ Padding = a % Word16
    BY <1>2, <1>3, <1>5, <1>6
  <2> HIDE DEF a
  <2>2. Padding = a
    BY <2>1, FitsTheWord
  <2> QED
    BY <2>2 DEF a
<1>8. Padding \in Nat /\ EndPlace + 1 + Padding = firstRow
  BY <1>2, <1>3, <1>5, <1>7
<1> QED
  BY <1>1, <1>2, <1>4, <1>5, <1>8, ZerosLength

LEMMA RowPlaces ==
    ASSUME LayoutInv, NEW slot \in Nat
    PROVE  /\ RowOffset(slot) \in Nat /\ firstRow <= RowOffset(slot) /\ RowOffset(0) = firstRow
           /\ RowOffset(slot + 1) = RowOffset(slot) + rowLength
           /\ \A n \in Nat :
                 /\ slot < n => RowOffset(slot) + rowLength <= RowOffset(n)
                 /\ slot <= n => RowOffset(slot) <= RowOffset(n)
<1>1. firstRow \in Nat /\ rowLength \in Nat
  BY LimitsAssumption DEF LayoutInv, TypeOK
<1>2. slot * rowLength \in Nat /\ 0 * rowLength = 0
      /\ (slot + 1) * rowLength = slot * rowLength + rowLength
  BY <1>1, Multiples
<1>3. ASSUME NEW n \in Nat
      PROVE  /\ n * rowLength \in Nat
             /\ slot < n => slot * rowLength + rowLength <= n * rowLength
             /\ slot <= n => slot * rowLength <= n * rowLength
  BY <1>1, Multiples
<1> QED
  BY <1>1, <1>2, <1>3 DEF RowOffset

LEMMA RowBytes ==
    ASSUME LayoutInv, NEW slot
    PROVE  /\ Len(Bytes("row", rowLength, slot)) = rowLength
           /\ \A i \in 1..rowLength :
                 Bytes("row", rowLength, slot)[i] = [kind |-> "row", part |-> i, val |-> slot]
BY BytesLength, LimitsAssumption DEF LayoutInv, TypeOK

\* A write leaves the ends of columns that lie beside it and adds its own.
LEMMA OverEnds ==
    ASSUME NEW data, NEW at, NEW image, NEW after, Over(data, at, image, after)
    PROVE  Ends(after) = (Ends(data) \ (at+1..at+Len(image))) \cup {at + i : i \in Ends(image)}
<1>1. at \in Nat /\ Len(image) \in Nat /\ Len(data) \in Nat
      /\ Len(after) \in Nat /\ at + Len(image) <= Len(after) /\ Len(data) <= Len(after)
  BY DEF Over
<1>2. ASSUME NEW i \in 1..Len(after), i \notin at+1..at+Len(image)
      PROVE  i \in Ends(after) <=> i \in Ends(data)
  BY <1>1, <1>2, SourceAssumption DEF Over, Ends
<1>3. ASSUME NEW i \in at+1..at+Len(image)
      PROVE  i \in Ends(after) <=> i - at \in Ends(image)
  <2>1. i \in 1..Len(after) /\ i - at \in 1..Len(image)
    BY <1>1
  <2>2. after[i] = image[i - at]
    BY <2>1 DEF Over
  <2> QED
    BY <2>1, <2>2 DEF Ends
<1>4. ASSUME NEW i \in at+1..at+Len(image)
      PROVE  i - at \in Ends(image) <=> i \in {at + j : j \in Ends(image)}
  <2>1. i = at + (i - at)
    BY <1>1
  <2>2. ASSUME NEW j \in Ends(image), i = at + j PROVE i - at = j
    BY <1>1, <2>2 DEF Ends
  <2> QED
    BY <2>1, <2>2
<1>5. Ends(after) \subseteq 1..Len(after) /\ Ends(data) \subseteq 1..Len(after)
  BY <1>1 DEF Ends
<1>6. \A j \in Ends(image) : at + j \in at+1..at+Len(image) /\ at + j \in 1..Len(after)
  BY <1>1 DEF Ends
<1> HIDE DEF Ends
<1> QED
  BY <1>2, <1>3, <1>4, <1>5, <1>6

\* A write without an end of columns, and over none, leaves the ends.
LEMMA OverPlain ==
    ASSUME NEW data, NEW at, NEW image, NEW after, Over(data, at, image, after),
           Ends(image) = {}, \A i \in Ends(data) : i \notin at+1..at+Len(image)
    PROVE  Ends(after) = Ends(data)
<1>1. Ends(after) = (Ends(data) \ (at+1..at+Len(image))) \cup {at + i : i \in Ends(image)}
  BY OverEnds
<1> QED
  BY <1>1

-----------------------------------------------------------------------------
(* The chains *)

\* What the chains are made of: one write after another, two or three after those.
LEMMA Joined ==
    ASSUME NEW a, NEW b, NEW c, NEW d
    PROVE  /\ Len(Append(<<a>>, b)) = 2
           /\ Append(<<a>>, b)[1] = a /\ Append(<<a>>, b)[2] = b
           /\ Len(<<b, c>> \o <<>>) = 2
           /\ (<<b, c>> \o <<>>)[1] = b /\ (<<b, c>> \o <<>>)[2] = c
           /\ Len(<<b, c>> \o <<d>>) = 3
           /\ (<<b, c>> \o <<d>>)[1] = b /\ (<<b, c>> \o <<d>>)[2] = c
           /\ (<<b, c>> \o <<d>>)[3] = d
           /\ Len(<<a>> \o (<<b, c>> \o <<d>>)) = 4
           /\ (<<a>> \o (<<b, c>> \o <<d>>))[1] = a
           /\ \A i \in 1..3 : (<<a>> \o (<<b, c>> \o <<d>>))[i + 1] = (<<b, c>> \o <<d>>)[i]
<1> DEFINE S == {a, b, c, d}
           three == <<b, c>> \o <<d>>
           four == <<a>> \o three
<1>1. /\ <<a>> \in Seq(S) /\ <<d>> \in Seq(S) /\ <<b, c>> \in Seq(S)
      /\ Len(<<a>>) = 1 /\ Len(<<d>>) = 1 /\ Len(<<b, c>>) = 2
      /\ <<a>>[1] = a /\ <<d>>[1] = d /\ <<b, c>>[1] = b /\ <<b, c>>[2] = c
      /\ b \in S
  OBVIOUS
<1>2. <<b, c>> \o <<>> = <<b, c>>
  BY <1>1, ConcatEmptySeq
<1> HIDE DEF S
<1>3. /\ three \in Seq(S) /\ Len(three) = 2 + 1
      /\ \A i \in 1..2+1 : three[i] = IF i <= 2 THEN <<b, c>>[i] ELSE <<d>>[i - 2]
  BY <1>1, ConcatProperties
<1>4. Len(three) = 3 /\ three[1] = b /\ three[2] = c /\ three[3] = d
  BY <1>1, <1>3
<1> HIDE DEF three
<1>5. /\ Len(four) = 1 + 3
      /\ \A i \in 1..1+3 : four[i] = IF i <= 1 THEN <<a>>[i] ELSE three[i - 1]
  BY <1>1, <1>3, <1>4, ConcatProperties
<1> HIDE DEF four
<1>6. Len(four) = 4 /\ four[1] = a
  BY <1>1, <1>5
<1>7. ASSUME NEW i \in 1..3 PROVE four[i + 1] = three[i]
  <2>1. i + 1 \in 1..1+3 /\ ~(i + 1 <= 1) /\ (i + 1) - 1 = i
    OBVIOUS
  <2> QED
    BY <1>5, <2>1
<1> DEFINE two == Append(<<a>>, b)
<1>8. /\ Len(two) = 1 + 1 /\ two[1 + 1] = b
      /\ \A i \in 1..1 : two[i] = <<a>>[i]
  BY <1>1, AppendProperties
<1>9. Len(two) = 2 /\ two[1] = a /\ two[2] = b
  <2> HIDE DEF two
  <2> QED
    BY <1>1, <1>8
<1> QED
  BY <1>1, <1>2, <1>4, <1>6, <1>7, <1>9 DEF three, four

\* NewTable writes the header, the columns, their end and the padding.
LEMMA CreateChainMeans ==
    ASSUME LayoutInv, Len(columns) = declared
    PROVE  LET chain == CreateChain
           IN  /\ Writable(chain) /\ Len(chain) = 4
               /\ chain[1] = At(0, HeaderImage(rowsCount))
               /\ chain[2] = At(DescriptorSize, AllDescriptors)
               /\ chain[3] = At(EndPlace, ColumnEnd)
               /\ chain[4] = At(EndPlace + 1, Zeros(Padding))
<1> DEFINE a == At(0, HeaderImage(rowsCount))
           b == At(DescriptorSize, AllDescriptors)
           c == At(EndPlace, ColumnEnd)
           d == At(EndPlace + 1, Zeros(Padding))
           chain == CreateChain
<1>1. EndPlace = DescriptorSize + Len(AllDescriptors) /\ EndPlace \in Nat /\ Padding \in Nat
      /\ Len(Zeros(Padding)) = Padding /\ Descriptors \in Nat
  BY Places
<1>2. CreateChain = <<a>> \o (<<b, c>> \o <<d>>)
  BY <1>1, Zenon DEF CreateChain, WriteHeaderChain, WriteColumnsChain
<1>3. Len(chain) = 4 /\ chain[1] = a /\ chain[2] = b /\ chain[3] = c /\ chain[4] = d
  <2> HIDE DEF a, b, c, d
  <2> DEFINE three == <<b, c>> \o <<d>>
  <2>1. /\ three[1] = b /\ three[2] = c /\ three[3] = d
        /\ Len(chain) = 4 /\ chain[1] = a /\ \A i \in 1..3 : chain[i + 1] = three[i]
    <3> HIDE DEF chain
    <3>1. chain = <<a>> \o (<<b, c>> \o <<d>>)
      BY <1>2 DEF chain
    <3> QED
      BY <3>1, Joined
  <2> HIDE DEF three, chain
  <2>2. chain[1 + 1] = b /\ chain[2 + 1] = c /\ chain[3 + 1] = d
    BY <2>1
  <2> QED
    BY <2>1, <2>2
<1>4. /\ 0 \in Nat /\ DescriptorSize \in Nat /\ EndPlace + 1 \in Nat
      /\ Len(HeaderImage(rowsCount)) \in Nat /\ Len(AllDescriptors) \in Nat
      /\ Len(ColumnEnd) \in Nat
  <2>1. DescriptorSize \in Nat /\ HeaderBytes \in Nat
    BY LimitsAssumption, SourceAssumption
  <2> QED
    BY <1>1, <2>1, HeaderImageMeans, DescriptorsMean, ColumnEndMeans
<1>5. Writable(chain)
  <2>1. \A n \in 1..4 : n = 1 \/ n = 2 \/ n = 3 \/ n = 4
    OBVIOUS
  <2>2. /\ a.at = 0 /\ a.image = HeaderImage(rowsCount)
        /\ b.at = DescriptorSize /\ b.image = AllDescriptors
        /\ c.at = EndPlace /\ c.image = ColumnEnd
        /\ d.at = EndPlace + 1 /\ d.image = Zeros(Padding)
    BY DEF At
  <2> HIDE DEF a, b, c, d, chain
  <2>3. 4 \in Nat
    OBVIOUS
  <2> QED
    BY <1>1, <1>3, <1>4, <2>1, <2>2, <2>3, Zenon DEF Writable
<1> QED
  BY <1>3, <1>5, Zenon

\* Increment writes the columns, their end and, in a new table, the padding.
LEMMA ColumnsChainMeans ==
    ASSUME LayoutInv, Len(columns) = declared, NEW new \in BOOLEAN
    PROVE  LET chain == WriteColumnsChain(new)
           IN  /\ Writable(chain) /\ Len(chain) = IF new THEN 3 ELSE 2
               /\ chain[1] = At(DescriptorSize, AllDescriptors)
               /\ chain[2] = At(EndPlace, ColumnEnd)
               /\ new => chain[3] = At(EndPlace + 1, Zeros(Padding))
<1> DEFINE b == At(DescriptorSize, AllDescriptors)
           c == At(EndPlace, ColumnEnd)
           d == At(EndPlace + 1, Zeros(Padding))
           chain == WriteColumnsChain(new)
<1>1. EndPlace = DescriptorSize + Len(AllDescriptors) /\ EndPlace \in Nat /\ Padding \in Nat
      /\ Len(Zeros(Padding)) = Padding /\ Descriptors \in Nat
  BY Places
<1>2. chain = <<b, c>> \o (IF new THEN <<d>> ELSE <<>>)
  BY <1>1, Zenon DEF WriteColumnsChain
<1>3. /\ Len(chain) = IF new THEN 3 ELSE 2
      /\ chain[1] = b /\ chain[2] = c /\ (new => chain[3] = d)
  <2> HIDE DEF b, c, d, chain
  <2>1. CASE new
    <3>1. chain = <<b, c>> \o <<d>>
      BY <1>2, <2>1
    <3> QED
      BY <2>1, <3>1, Joined
  <2>2. CASE ~new
    <3>1. chain = <<b, c>> \o <<>>
      BY <1>2, <2>2
    <3> QED
      BY <2>2, <3>1, Joined
  <2> QED
    BY <2>1, <2>2
<1>4. /\ DescriptorSize \in Nat /\ EndPlace + 1 \in Nat
      /\ Len(AllDescriptors) \in Nat /\ Len(ColumnEnd) \in Nat
  BY <1>1, LimitsAssumption, DescriptorsMean, ColumnEndMeans
<1>5. Writable(chain)
  <2>1. \A n \in 1..Len(chain) : n = 1 \/ n = 2 \/ (n = 3 /\ new)
    BY <1>3
  <2>2. /\ b.at = DescriptorSize /\ b.image = AllDescriptors
        /\ c.at = EndPlace /\ c.image = ColumnEnd
        /\ d.at = EndPlace + 1 /\ d.image = Zeros(Padding)
    BY DEF At
  <2>3. Len(chain) \in Nat
    BY <1>3
  <2> HIDE DEF b, c, d, chain
  <2> QED
    BY <1>1, <1>3, <1>4, <2>1, <2>2, <2>3, Zenon DEF Writable
<1> QED
  BY <1>3, <1>5, Zenon

\* WriteRow writes the header with the new count and the row.
LEMMA RowChainMeans ==
    ASSUME LayoutInv, NEW slot \in Nat
    PROVE  LET chain == WriteRowChain(slot)
           IN  /\ Writable(chain) /\ Len(chain) = 2
               /\ chain[1] = At(0, HeaderImage(slot + 1))
               /\ chain[2] = At(RowOffset(slot), Bytes("row", rowLength, slot))
<1> DEFINE a == At(0, HeaderImage(slot + 1))
           b == At(RowOffset(slot), Bytes("row", rowLength, slot))
           chain == WriteRowChain(slot)
<1>1. chain = Append(<<a>>, b)
  BY Zenon DEF WriteRowChain, WriteHeaderChain
<1>2. Len(chain) = 2 /\ chain[1] = a /\ chain[2] = b
  <2> HIDE DEF a, b, chain
  <2> QED
    BY <1>1, Joined
<1>3. Writable(chain)
  <2>1. \A n \in 1..2 : n = 1 \/ n = 2
    OBVIOUS
  <2>2. /\ a.at = 0 /\ a.image = HeaderImage(slot + 1)
        /\ b.at = RowOffset(slot) /\ b.image = Bytes("row", rowLength, slot)
    BY DEF At
  <2>3. /\ 2 \in Nat /\ 0 \in Nat /\ RowOffset(slot) \in Nat
        /\ Len(a.image) \in Nat /\ Len(b.image) \in Nat
    <3>1. HeaderBytes \in Nat /\ rowLength \in Nat
      BY LimitsAssumption, SourceAssumption DEF LayoutInv, TypeOK
    <3> QED
      BY <2>2, <3>1, RowPlaces, RowBytes, HeaderImageMeans
  <2> HIDE DEF a, b, chain
  <2> QED
    BY <1>2, <2>1, <2>2, <2>3, Zenon DEF Writable
<1> QED
  BY <1>2, <1>3, Zenon

\* What one write of a chain does.
LEMMA EffectOf ==
    ASSUME NEW chain, Len(chain) \in Nat, NEW memory, NEW data, NEW ok,
           Effects(chain, memory, data, ok)
    PROVE  /\ ok[0] = TRUE
           /\ \A n \in 0..Len(chain) : Len(data[n]) \in Nat
           /\ \A n \in 0..Len(chain)-1 : \A at, image :
                 chain[n + 1] = At(at, image) =>
                     Written(memory, data[n], ok[n], at, image, data[n + 1], ok[n + 1])
<1>1. ASSUME NEW n \in 0..Len(chain)-1, NEW at, NEW image, chain[n + 1] = At(at, image)
      PROVE  Written(memory, data[n], ok[n], at, image, data[n + 1], ok[n + 1])
  <2>1. chain[n + 1].at = at /\ chain[n + 1].image = image
    BY <1>1 DEF At
  <2>2. n + 1 \in 1..Len(chain) /\ (n + 1) - 1 = n
    OBVIOUS
  <2>3. Written(memory, data[(n + 1) - 1], ok[(n + 1) - 1], chain[n + 1].at,
                chain[n + 1].image, data[n + 1], ok[n + 1])
    BY <2>2, Zenon DEF Effects
  <2> QED
    BY <2>1, <2>2, <2>3
<1> QED
  BY <1>1, Zenon DEF Effects

LEMMA BlankHasNoEnds ==
    ASSUME NEW data, BlankFrom(data, 0) PROVE Ends(data) = {}
BY SourceAssumption DEF BlankFrom, Ends

-----------------------------------------------------------------------------
(* NewTable creates the table *)

\* The bytes of a table without rows.
NewTableIn(data) ==
    /\ Ends(data) = {EndPlace + 1} /\ Holds(data, 0, HeaderImage(0))
    /\ Holds(data, DescriptorSize, AllDescriptors) /\ Holds(data, EndPlace, ColumnEnd)

\* After any of its writes NewTable has left a table or no end of columns; an
\* in-memory source that takes the descriptors takes what follows them.
LEMMA CreateEffects ==
    ASSUME LayoutInv, Len(columns) = declared, rowsCount = 0,
           NEW memory, NEW data, NEW ok, Effects(CreateChain, memory, data, ok),
           BlankFrom(data[0], 0)
    PROVE  /\ ok[4] => NewTableIn(data[4]) /\ firstRow <= Len(data[4])
           /\ ~ok[4] => memory /\ Ends(data[4]) = {}
           /\ \A n \in 0..4 :
                 /\ Ends(data[n]) # {} => NewTableIn(data[n])
                 /\ Holds(data[n], 0, HeaderImage(0)) \/ BlankFrom(data[n], 0)
<1> DEFINE chain == CreateChain
           H == HeaderImage(0)
           D == AllDescriptors
           E == ColumnEnd
           P == Zeros(Padding)
<1>1. /\ Len(chain) = 4 /\ chain[1] = At(0, H) /\ chain[2] = At(DescriptorSize, D)
      /\ chain[3] = At(EndPlace, E) /\ chain[4] = At(EndPlace + 1, P)
  BY CreateChainMeans
<1>2. /\ EndPlace \in Nat /\ EndPlace = DescriptorSize + Len(D) /\ DescriptorSize \in Nat
      /\ Padding \in Nat /\ EndPlace + 1 + Padding = firstRow
      /\ Len(P) = Padding /\ \A i \in 1..Padding : P[i] = Zero
      /\ Len(H) \in Nat /\ Len(H) < DescriptorSize
      /\ Len(D) \in Nat /\ Len(E) = 1 /\ E[1].kind = "columnEnd"
  BY Places, HeaderImageMeans, DescriptorsMean, ColumnEndMeans, LimitsAssumption
<1>3. Ends(H) = {} /\ Ends(D) = {} /\ Ends(P) = {} /\ Ends(E) = {1}
  <2>1. ASSUME NEW i \in 1..Len(H) PROVE H[i].kind # "columnEnd"
    <3>1. i \in 1..HeaderBytes
      BY HeaderImageMeans
    <3>2. HeaderImage(0)[i] =
              [kind |-> "header", part |-> i,
               val |-> [firstRow |-> firstRow, rowLength |-> rowLength, rowsCount |-> 0]]
      BY <3>1, HeaderImageMeans
    <3> QED
      BY <3>2
  <2>2. \A i \in 1..Len(D) : D[i].kind # "columnEnd"
    BY Places, DescriptorsMean
  <2> HIDE DEF H, D, P, E
  <2>3. Ends(H) = {} /\ Ends(D) = {}
    BY <2>1, <2>2 DEF Ends
  <2>4. Ends(P) = {}
    BY <1>2, SourceAssumption DEF Ends
  <2>5. Ends(E) = {1}
    BY <1>2 DEF Ends
  <2> QED
    BY <2>3, <2>4, <2>5
<1> HIDE DEF chain, H, D, P, E
<1>4. /\ ok[0] = TRUE /\ \A n \in 0..4 : Len(data[n]) \in Nat
      /\ Written(memory, data[0], ok[0], 0, H, data[1], ok[1])
      /\ Written(memory, data[1], ok[1], DescriptorSize, D, data[2], ok[2])
      /\ Written(memory, data[2], ok[2], EndPlace, E, data[3], ok[3])
      /\ Written(memory, data[3], ok[3], EndPlace + 1, P, data[4], ok[4])
  <2>1. /\ ok[0] = TRUE /\ \A n \in 0..Len(chain) : Len(data[n]) \in Nat
        /\ \A n \in 0..Len(chain)-1 : \A at, image :
              chain[n + 1] = At(at, image) =>
                  Written(memory, data[n], ok[n], at, image, data[n + 1], ok[n + 1])
    <3>1. Effects(chain, memory, data, ok) /\ Len(chain) \in Nat
      BY <1>1 DEF chain
    <3> QED
      BY <3>1, EffectOf, Zenon
  <2>2. /\ 0 \in 0..Len(chain)-1 /\ 1 \in 0..Len(chain)-1 /\ 2 \in 0..Len(chain)-1
        /\ 3 \in 0..Len(chain)-1
        /\ 1 = 0 + 1 /\ 2 = 1 + 1 /\ 3 = 2 + 1 /\ 4 = 3 + 1
    BY <1>1
  <2>3. Written(memory, data[0], ok[0], 0, H, data[1], ok[1])
    BY <1>1, <2>1, <2>2
  <2>4. Written(memory, data[1], ok[1], DescriptorSize, D, data[2], ok[2])
    BY <1>1, <2>1, <2>2
  <2>5. Written(memory, data[2], ok[2], EndPlace, E, data[3], ok[3])
    BY <1>1, <2>1, <2>2
  <2>6. Written(memory, data[3], ok[3], EndPlace + 1, P, data[4], ok[4])
    BY <1>1, <2>1, <2>2
  <2> QED
    BY <1>1, <2>1, <2>3, <2>4, <2>5, <2>6
<1>5. /\ ok[1] /\ Over(data[0], 0, H, data[1])
      /\ Len(data[0]) \in Nat /\ Len(data[1]) \in Nat
  BY <1>4 DEF Written
<1>6. /\ Len(data[2]) \in Nat
      /\ ok[2] => Over(data[1], DescriptorSize, D, data[2])
      /\ ~ok[2] => data[2] = data[1] /\ memory
  BY <1>4, <1>5 DEF Written
<1>7. /\ Len(data[3]) \in Nat
      /\ ok[3] => ok[2] /\ Over(data[2], EndPlace, E, data[3])
      /\ ~ok[3] => data[3] = data[2]
      /\ ok[2] => (ok[3] <=> ~memory \/ EndPlace <= Len(data[2]))
  BY <1>4 DEF Written
<1>8. /\ Len(data[4]) \in Nat
      /\ ok[4] => ok[3] /\ Over(data[3], EndPlace + 1, P, data[4])
      /\ ~ok[4] => data[4] = data[3]
      /\ ok[3] => (ok[4] <=> ~memory \/ EndPlace + 1 <= Len(data[3]))
  BY <1>4 DEF Written
<1>9. Ends(data[0]) = {}
  BY BlankHasNoEnds
<1>10. Ends(data[1]) = {} /\ Holds(data[1], 0, H)
  <2>1. 0 \in Nat
    OBVIOUS
  <2>2. Ends(data[1]) = Ends(data[0])
    BY <1>2, <1>3, <1>5, <1>9, <2>1, OverPlain
  <2> QED
    BY <1>2, <1>5, <1>9, <2>1, <2>2, OverWrites
<1>11. ASSUME ok[2]
       PROVE  /\ Ends(data[2]) = {} /\ Holds(data[2], 0, H) /\ Holds(data[2], DescriptorSize, D)
              /\ EndPlace <= Len(data[2])
  <2>1. Over(data[1], DescriptorSize, D, data[2])
    BY <1>6, <1>11
  <2>2. Ends(data[2]) = Ends(data[1])
    BY <1>2, <1>3, <1>5, <1>10, <2>1, OverPlain
  <2>3. Holds(data[2], DescriptorSize, D)
    BY <2>1, OverWrites
  <2>4. 0 \in Nat /\ 0 + Len(H) <= DescriptorSize
    BY <1>2
  <2>5. Holds(data[2], 0, H)
    BY <1>2, <1>5, <1>10, <2>1, <2>4, OverKeeps
  <2>6. EndPlace <= Len(data[2])
    BY <1>2, <2>3 DEF Holds
  <2> QED
    BY <1>10, <2>2, <2>3, <2>5, <2>6
<1>12. ASSUME ok[3]
       PROVE  /\ Ends(data[3]) = {EndPlace + 1} /\ Holds(data[3], 0, H)
              /\ Holds(data[3], DescriptorSize, D) /\ Holds(data[3], EndPlace, E)
              /\ EndPlace + 1 <= Len(data[3])
  <2>1. ok[2] /\ Over(data[2], EndPlace, E, data[3])
    BY <1>7, <1>12
  <2>2. /\ Ends(data[2]) = {} /\ Holds(data[2], 0, H) /\ Holds(data[2], DescriptorSize, D)
    BY <1>11, <2>1
  <2>3. Len(E) \in Nat /\ 0 \in Nat /\ 0 + Len(H) <= EndPlace
        /\ DescriptorSize + Len(D) <= EndPlace
    BY <1>2
  <2>4. Ends(data[3]) = (Ends(data[2]) \ (EndPlace+1..EndPlace+Len(E)))
                        \cup {EndPlace + i : i \in Ends(E)}
    BY <2>1, OverEnds
  <2>5. Holds(data[3], EndPlace, E)
    BY <2>1, OverWrites, Zenon
  <2>6. Holds(data[3], 0, H)
    BY <2>1, <2>2, <2>3, OverKeeps
  <2>7. Holds(data[3], DescriptorSize, D)
    BY <2>1, <2>2, <2>3, OverKeeps
  <2>8. EndPlace + 1 <= Len(data[3])
    BY <1>2, <2>5 DEF Holds
  <2> QED
    BY <1>3, <2>2, <2>4, <2>5, <2>6, <2>7, <2>8
<1>13. ASSUME ok[4]
       PROVE  /\ Ends(data[4]) = {EndPlace + 1} /\ Holds(data[4], 0, H)
              /\ Holds(data[4], DescriptorSize, D) /\ Holds(data[4], EndPlace, E)
              /\ firstRow <= Len(data[4])
  <2> DEFINE at == EndPlace + 1
  <2>1. ok[3] /\ Over(data[3], at, P, data[4])
    BY <1>8, <1>13, Zenon
  <2>2. /\ Ends(data[3]) = {EndPlace + 1} /\ Holds(data[3], 0, H)
        /\ Holds(data[3], DescriptorSize, D) /\ Holds(data[3], EndPlace, E)
    BY <1>12, <2>1
  <2>3. /\ Len(E) \in Nat /\ Len(P) \in Nat /\ 0 \in Nat /\ at \in Nat
        /\ 0 + Len(H) <= at /\ DescriptorSize + Len(D) <= at /\ EndPlace + Len(E) <= at
        /\ EndPlace + 1 \notin at+1..at+Len(P) /\ at + Len(P) = firstRow
    BY <1>2
  <2> HIDE DEF at
  <2>4. Ends(data[4]) = Ends(data[3])
    BY <1>3, <1>7, <2>1, <2>2, <2>3, OverPlain
  <2>5. Holds(data[4], at, P)
    BY <2>1, OverWrites, Zenon
  <2>6. Holds(data[4], 0, H)
    BY <2>1, <2>2, <2>3, OverKeeps
  <2>7. Holds(data[4], DescriptorSize, D)
    BY <2>1, <2>2, <2>3, OverKeeps
  <2>8. Holds(data[4], EndPlace, E)
    BY <2>1, <2>2, <2>3, OverKeeps
  <2>9. firstRow <= Len(data[4])
    BY <2>3, <2>5 DEF Holds
  <2> QED
    BY <2>2, <2>4, <2>6, <2>7, <2>8, <2>9
<1>14. ok[2] => ok[3] /\ ok[4]
  BY <1>7, <1>8, <1>11, <1>12
<1>15. ~ok[4] => memory /\ Ends(data[4]) = {}
  BY <1>6, <1>7, <1>8, <1>10, <1>14
<1>16. ASSUME NEW n \in 0..4
       PROVE  /\ Ends(data[n]) # {} => NewTableIn(data[n])
              /\ Holds(data[n], 0, H) \/ BlankFrom(data[n], 0)
  <2>1. n = 0 \/ n = 1 \/ n = 2 \/ n = 3 \/ n = 4
    OBVIOUS
  <2> QED
    BY <1>6, <1>7, <1>8, <1>9, <1>10, <1>11, <1>12, <1>13, <1>14, <2>1, Zenon
    DEF NewTableIn, H, D, E
<1> QED
  BY <1>13, <1>15, <1>16, Zenon DEF NewTableIn, H, D, E

\* A step that leaves the columns and the row layout leaves where the parts are.
LEMMA PlacesKept ==
    ASSUME UNCHANGED <<columns, nullFlagColumn, firstRow, rowLength>>
    PROVE  /\ EndPlace' = EndPlace /\ AllDescriptors' = AllDescriptors
           /\ Descriptors' = Descriptors
           /\ \A c : HeaderImage(c)' = HeaderImage(c)
           /\ \A slot : RowOffset(slot)' = RowOffset(slot)
<1>1. Descriptors' = Descriptors
  BY DEF Descriptors
<1>2. EndPlace' = EndPlace
  BY <1>1 DEF EndPlace
<1>3. AllDescriptors' = AllDescriptors
  BY <1>1 DEF AllDescriptors, Descriptor
<1>4. \A c : HeaderImage(c)' = HeaderImage(c)
  BY DEF HeaderImage
<1>5. \A slot : RowOffset(slot)' = RowOffset(slot)
  BY DEF RowOffset
<1> QED
  BY <1>1, <1>2, <1>3, <1>4, <1>5

\* The invariant after such a step, in terms of the places before it.
LEMMA PlacedAfter ==
    ASSUME UNCHANGED <<declared, columns, nullFlagColumn, firstRow, rowLength>>,
           NEW data, data = source'.data
    PROVE  /\ (\E count \in 0..rowsCount' : Holds(data, 0, HeaderImage(count)))
              \/ BlankFrom(data, 0) => HeaderWhole'
           /\ EndPlaced' <=>
                 /\ Ends(data) # {} =>
                       /\ Ends(data) = {EndPlace + 1}
                       /\ phase' \in {"refused", "open"} /\ Len(columns) = declared
                       /\ \E count \in 0..rowsCount' : Holds(data, 0, HeaderImage(count))
                       /\ Holds(data, DescriptorSize, AllDescriptors)
                       /\ Holds(data, EndPlace, ColumnEnd)
                 /\ phase' = "open" => Ends(data) # {}
           /\ RowsPlaced' <=>
                 \A slot \in written' :
                     /\ slot \in Nat
                     /\ \E count \in slot+1..rowsCount' : Holds(data, 0, HeaderImage(count))
                     /\ Holds(data, RowOffset(slot), Bytes("row", rowLength, slot))
           /\ RowsComplete' <=>
                 (phase' = "open" /\ faults' = 0 =>
                     written' = 0..rowsCount'-1 /\ Holds(data, 0, HeaderImage(rowsCount')))
           /\ MemoryLongEnough' <=>
                 (source'.memory =>
                     /\ faults' = 0
                     /\ phase' = "refused" => Ends(data) = {}
                     /\ phase' = "open" => RowOffset(rowsCount') <= Len(data))
<1>1. /\ EndPlace' = EndPlace /\ AllDescriptors' = AllDescriptors
      /\ \A c : HeaderImage(c)' = HeaderImage(c)
      /\ \A slot : RowOffset(slot)' = RowOffset(slot)
  BY PlacesKept
<1>2. HasHeader(source.data)' <=> \E count \in 0..rowsCount' : Holds(data, 0, HeaderImage(count))
  BY <1>1 DEF HasHeader, Holds
<1>3. BlankFrom(data, 0) => \A i \in 1..HeaderBytes : i <= Len(data) => data[i] = Zero
  BY SourceAssumption DEF BlankFrom
<1>4. (\E count \in 0..rowsCount' : Holds(data, 0, HeaderImage(count)))
      \/ BlankFrom(data, 0) => HeaderWhole'
  BY <1>2, <1>3, Zenon DEF HeaderWhole
<1>5. /\ Ends(source.data)' = Ends(data)
      /\ Holds(source.data, DescriptorSize, AllDescriptors)'
            <=> Holds(data, DescriptorSize, AllDescriptors)
      /\ Holds(source.data, EndPlace, ColumnEnd)' <=> Holds(data, EndPlace, ColumnEnd)
  BY <1>1 DEF Ends, Holds, ColumnEnd, Bytes
<1>6. EndPlaced' <=>
        /\ Ends(data) # {} =>
              /\ Ends(data) = {EndPlace + 1}
              /\ phase' \in {"refused", "open"} /\ Len(columns) = declared
              /\ \E count \in 0..rowsCount' : Holds(data, 0, HeaderImage(count))
              /\ Holds(data, DescriptorSize, AllDescriptors)
              /\ Holds(data, EndPlace, ColumnEnd)
        /\ phase' = "open" => Ends(data) # {}
  BY <1>1, <1>2, <1>5 DEF EndPlaced
<1>7. RowsPlaced' <=>
        \A slot \in written' :
            /\ slot \in Nat
            /\ \E count \in slot+1..rowsCount' : Holds(data, 0, HeaderImage(count))
            /\ Holds(data, RowOffset(slot), Bytes("row", rowLength, slot))
  <2>1. \A slot : /\ Holds(source.data, RowOffset(slot), Bytes("row", rowLength, slot))'
                       <=> Holds(data, RowOffset(slot), Bytes("row", rowLength, slot))
                  /\ Holds(source.data, 0, HeaderImage(slot))'
                       <=> Holds(data, 0, HeaderImage(slot))
    BY <1>1 DEF Holds, Bytes
  <2> QED
    BY <2>1 DEF RowsPlaced
<1>8. RowsComplete' <=>
        (phase' = "open" /\ faults' = 0 =>
            written' = 0..rowsCount'-1 /\ Holds(data, 0, HeaderImage(rowsCount')))
  BY <1>1 DEF RowsComplete, Holds, HeaderImage, Bytes
<1>9. MemoryLongEnough' <=>
        (source'.memory =>
            /\ faults' = 0
            /\ phase' = "refused" => Ends(data) = {}
            /\ phase' = "open" => RowOffset(rowsCount') <= Len(data))
  BY <1>1, <1>5 DEF MemoryLongEnough, RowOffset
<1> QED
  BY <1>4, <1>6, <1>7, <1>8, <1>9

-----------------------------------------------------------------------------
(* The invariant is kept *)

LEMMA FileInit == TableInit => FileInv
<1> SUFFICES ASSUME TableInit PROVE FileInv
  OBVIOUS
<1>1. LayoutInv /\ phase = "columns" /\ rowsCount = 0 /\ columns = <<>>
  BY InitLaysOut DEF TableInit, Init
<1>2. Sound(source) /\ BlankFrom(source.data, 0)
  <2>1. CASE source = NewFile
    <3>1. source.data = <<>> /\ Len(<<>>) = 0 /\ source.memory = FALSE
      BY <2>1 DEF NewFile
    <3>2. <<>> = [i \in 1..0 |-> <<>>[i]]
      OBVIOUS
    <3> QED
      BY <2>1, <3>1, <3>2 DEF Sound, NewFile, BlankFrom
  <2>2. ASSUME NEW n \in Preallocated, source = NewBytesReadWriteSeeker(Zeros(n))
        PROVE  Sound(source) /\ BlankFrom(source.data, 0)
    <3> DEFINE d == Zeros(n)
    <3>1. n \in Nat
      BY SourceAssumption
    <3>2. Len(d) = n /\ \A i \in 1..n : d[i] = Zero
      BY <3>1, ZerosLength
    <3>3. d = [i \in 1..Len(d) |-> d[i]]
      BY <3>2 DEF Zeros
    <3> HIDE DEF d
    <3>4. Sound(source)
      BY <2>2, <3>1, <3>2, <3>3, SoundSources DEF NewBytesReadWriteSeeker, d
    <3>5. source.data = d
      BY <2>2 DEF NewBytesReadWriteSeeker, d
    <3> QED
      BY <3>1, <3>2, <3>4, <3>5 DEF BlankFrom
  <2> QED
    BY <2>1, <2>2 DEF TableInit
<1>3. Ends(source.data) = {}
  BY <1>2, BlankHasNoEnds
<1>4. HeaderWhole
  BY <1>2, SourceAssumption DEF HeaderWhole, BlankFrom
<1> QED
  BY <1>1, <1>2, <1>3, <1>4
  DEF FileInv, TableInit, PhasesPlaced, EndPlaced, RowsPlaced, RowsComplete, MemoryLongEnough

LEMMA LayOutKeeps == ASSUME FileInv, LayOut PROVE FileInv'
<1>1. /\ phase \in {"columns", "nullFlag"} /\ phase' \in {"columns", "nullFlag", "write", "refused"}
      /\ rowsCount' = rowsCount /\ declared' = declared
      /\ phase' \in {"nullFlag", "write"} => Len(columns') = declared
      /\ [Next]_vars
  <2>1. ASSUME NEW length \in Lengths, NEW variable \in BOOLEAN, NEW nullable \in BOOLEAN,
               TakeColumn(length, variable, nullable)
        PROVE  Len(columns') = Len(columns) + 1
    <3> DEFINE column == [length |-> length, variable |-> variable, nullable |-> nullable,
                          position |-> PositionOf(length)]
    <3>1. columns' = Append(columns, column) /\ columns \in Seq(Columns)
      BY <2>1, Zenon DEF TakeColumn, FileInv, LayoutInv, TypeOK
    <3>2. column \in Columns
      BY LimitsAssumption DEF Columns, PositionOf, FileInv, LayoutInv, TypeOK
    <3> HIDE DEF column
    <3> QED
      BY <3>1, <3>2, AppendProperties
  <2>2. CASE \E length \in Lengths, variable, nullable \in BOOLEAN :
                 TakeColumn(length, variable, nullable)
    BY <2>1, <2>2 DEF TakeColumn, Next
  <2>3. CASE ~ \E length \in Lengths, variable, nullable \in BOOLEAN :
                 TakeColumn(length, variable, nullable)
    BY <2>3 DEF LayOut, RefuseColumn, AddNullFlagColumn, NeedNoNullFlagColumn, Next,
                FileInv, PhasesPlaced
  <2> QED
    BY <2>2, <2>3
<1>2. LayoutInv'
  BY <1>1, LayoutStep DEF FileInv
<1>3. /\ UNCHANGED <<source, isNew, written, faults>>
      /\ BlankFrom(source.data, 0) /\ rowsCount = 0 /\ written = {}
      /\ Sound(source) /\ isNew \in BOOLEAN /\ faults \in Nat
      /\ source.memory => faults = 0
  BY <1>1 DEF LayOut, fileVars, FileInv, PhasesPlaced, MemoryLongEnough
<1>4. Ends(source.data) = {} /\ Ends(source.data)' = {}
  <2>1. Ends(source.data) = {}
    BY <1>3, BlankHasNoEnds
  <2> QED
    BY <1>3, <2>1 DEF Ends
<1>5. HeaderWhole'
  BY <1>3, SourceAssumption DEF HeaderWhole, BlankFrom
<1>6. Sound(source)' /\ BlankFrom(source.data, 0)'
  BY <1>3 DEF Sound, BlankFrom
<1>7. PhasesPlaced'
  BY <1>1, <1>3, <1>6 DEF PhasesPlaced
<1>8. EndPlaced' /\ RowsPlaced' /\ RowsComplete' /\ MemoryLongEnough'
  BY <1>1, <1>3, <1>4 DEF EndPlaced, RowsPlaced, RowsComplete, MemoryLongEnough
<1> QED
  BY <1>2, <1>5, <1>6, <1>7, <1>8 DEF FileInv

LEMMA TableFullKeeps == ASSUME FileInv, UNCHANGED tableVars PROVE FileInv'
<1>1. UNCHANGED <<declared, columns, firstRow, rowLength, nullFlagBits, nullFlagColumn,
                  rowsCount, phase, source, isNew, written, faults>>
  BY DEF tableVars, vars, fileVars
<1>2. LayoutInv'
  BY <1>1, LayoutStep DEF FileInv, vars
<1> DEFINE data == source.data
<1>3. data = source'.data /\ source' = source /\ written' = written /\ rowsCount' = rowsCount
  BY <1>1
<1>4. Sound(source)' /\ PhasesPlaced'
  BY <1>1 DEF FileInv, Sound, PhasesPlaced, BlankFrom
<1>5. HeaderWhole' /\ EndPlaced' /\ RowsPlaced' /\ RowsComplete' /\ MemoryLongEnough'
  <2>1. HeaderWhole'
    BY <1>1, PlacesKept DEF FileInv, HeaderWhole, HasHeader, Holds
  <2> QED
    BY <1>1, <2>1, PlacedAfter DEF FileInv, EndPlaced, RowsPlaced, RowsComplete,
       MemoryLongEnough, HasHeader
<1> QED
  BY <1>2, <1>4, <1>5 DEF FileInv

LEMMA LayoutKept ==
    ASSUME LayoutInv,
           UNCHANGED <<declared, columns, firstRow, rowLength, nullFlagBits, nullFlagColumn,
                       rowsCount>>,
           phase' \in {"refused", "open"}, rowsCount = 0
    PROVE  LayoutInv'
BY DEF LayoutInv, TypeOK, Phases, ColumnsFollow, RowAdds, RowEnd, HeaderAdds,
       HeaderDescriptors, RowsFitTheFile

LEMMA CreateKeeps == ASSUME FileInv, CreateTable \/ CreateFails PROVE FileInv'
<1> DEFINE whole == CreateTable
<1>1. /\ LayoutInv /\ Sound(source) /\ phase = "write" /\ rowsCount = 0 /\ written = {}
      /\ Len(columns) = declared /\ BlankFrom(source.data, 0)
      /\ isNew \in BOOLEAN /\ faults \in Nat
      /\ source.memory \in BOOLEAN /\ source.memory => faults = 0
  BY DEF FileInv, PhasesPlaced, CreateTable, CreateFails, Created, MemoryLongEnough, Sound
<1>2. /\ UNCHANGED <<declared, columns, firstRow, rowLength, nullFlagBits, nullFlagColumn,
                     rowsCount, written>>
      /\ isNew' \in BOOLEAN
      /\ CreateTable => phase' = "open" /\ Perform(CreateChain, TRUE)
      /\ ~CreateTable => phase' = "refused" /\ Perform(CreateChain, FALSE)
  BY <1>1 DEF CreateTable, CreateFails, Created
<1>3. /\ Writable(CreateChain) /\ Len(CreateChain) = 4
  BY <1>1, CreateChainMeans
<1>4. PICK n, data, ok :
          /\ n \in 0..4
          /\ Effects(CreateChain, source.memory, data, ok) /\ data[0] = source.data
          /\ Sound(source') /\ source'.data = data[n] /\ source'.memory = source.memory
          /\ CreateTable => n = 4 /\ ok[4]
          /\ ~CreateTable => ~(n = 4 /\ ok[4])
          /\ n < 4 => ~source.memory
          /\ faults' = IF n < 4 THEN faults + 1 ELSE faults
  <2>1. CASE CreateTable
    <3>1. \E n \in 0..4 : \E data, ok :
              /\ Effects(CreateChain, source.memory, data, ok) /\ data[0] = source.data
              /\ Sound(source') /\ source'.data = data[n] /\ source'.memory = source.memory
              /\ TRUE = (ok[n] /\ n = 4)
              /\ n < 4 => ~source.memory
              /\ faults' = IF n < 4 THEN faults + 1 ELSE faults
      BY <1>1, <1>2, <1>3, <2>1, PerformMeans
    <3> QED
      BY <2>1, <3>1, Zenon
  <2>2. CASE ~CreateTable
    <3>1. \E n \in 0..4 : \E data, ok :
              /\ Effects(CreateChain, source.memory, data, ok) /\ data[0] = source.data
              /\ Sound(source') /\ source'.data = data[n] /\ source'.memory = source.memory
              /\ FALSE = (ok[n] /\ n = 4)
              /\ n < 4 => ~source.memory
              /\ faults' = IF n < 4 THEN faults + 1 ELSE faults
      BY <1>1, <1>2, <1>3, <2>2, PerformMeans
    <3> QED
      BY <2>2, <3>1, Zenon
  <2> QED
    BY <2>1, <2>2, Zenon
<1>5. /\ ok[4] => NewTableIn(data[4]) /\ firstRow <= Len(data[4])
      /\ ~ok[4] => source.memory /\ Ends(data[4]) = {}
      /\ Ends(data[n]) # {} => NewTableIn(data[n])
      /\ Holds(data[n], 0, HeaderImage(0)) \/ BlankFrom(data[n], 0)
  <2>1. BlankFrom(data[0], 0)
    BY <1>1, <1>4
  <2>2. /\ ok[4] => NewTableIn(data[4]) /\ firstRow <= Len(data[4])
        /\ ~ok[4] => source.memory /\ Ends(data[4]) = {}
        /\ \A m \in 0..4 :
              /\ Ends(data[m]) # {} => NewTableIn(data[m])
              /\ Holds(data[m], 0, HeaderImage(0)) \/ BlankFrom(data[m], 0)
    BY <1>1, <1>4, <2>1, CreateEffects, Zenon
  <2> QED
    BY <1>4, <2>2
<1>6. /\ Ends(data[n]) # {} =>
            /\ Ends(data[n]) = {EndPlace + 1}
            /\ \E count \in 0..rowsCount' : Holds(data[n], 0, HeaderImage(count))
            /\ Holds(data[n], DescriptorSize, AllDescriptors)
            /\ Holds(data[n], EndPlace, ColumnEnd)
      /\ (\E count \in 0..rowsCount' : Holds(data[n], 0, HeaderImage(count)))
         \/ BlankFrom(data[n], 0)
      /\ 0 \in 0..rowsCount'
  <2>1. 0 \in 0..rowsCount'
    BY <1>1, <1>2
  <2> QED
    BY <1>5, <2>1, Zenon DEF NewTableIn
<1>7. phase' = "open" => n = 4 /\ ok[4] /\ CreateTable
  BY <1>2, <1>4
<1>8. phase' = "open" => Ends(data[n]) # {} /\ Holds(data[n], 0, HeaderImage(0))
  BY <1>5, <1>7 DEF NewTableIn
<1>9. LayoutInv'
  <2>1. phase' \in {"refused", "open"}
    BY <1>2
  <2> QED
    BY <1>1, <1>2, <2>1, LayoutKept
<1>10. PhasesPlaced'
  <2>1. faults' \in Nat
    BY <1>1, <1>4
  <2> QED
    BY <1>1, <1>2, <2>1 DEF PhasesPlaced
<1>11. HeaderWhole'
  BY <1>2, <1>4, <1>6, PlacedAfter
<1>12. EndPlaced'
  <2>1. phase' \in {"refused", "open"} /\ Len(columns) = declared
    BY <1>1, <1>2
  <2> QED
    BY <1>2, <1>4, <1>6, <1>8, <2>1, PlacedAfter
<1>13. RowsPlaced'
  BY <1>1, <1>2, <1>4, PlacedAfter
<1>14. RowsComplete'
  <2>1. written' = 0..rowsCount'-1 /\ rowsCount' = 0
    BY <1>1, <1>2
  <2> QED
    BY <1>2, <1>4, <1>8, <2>1, PlacedAfter
<1>15. MemoryLongEnough'
  <2>1. source'.memory => n = 4 /\ faults' = 0
    BY <1>1, <1>4
  <2>2. phase' = "refused" /\ source'.memory => Ends(data[n]) = {}
    BY <1>2, <1>4, <1>5, <2>1
  <2>3. phase' = "open" => RowOffset(rowsCount') <= Len(data[n])
    BY <1>1, <1>2, <1>5, <1>7, RowPlaces
  <2> QED
    BY <1>2, <1>4, <2>1, <2>2, <2>3, PlacedAfter
<1>16. Sound(source)'
  BY <1>4 DEF Sound
<1> QED
  BY <1>9, <1>10, <1>11, <1>12, <1>13, <1>14, <1>15, <1>16 DEF FileInv

-----------------------------------------------------------------------------
(* WriteRow *)

\* A write of the header or of a row leaves the columns of a table where they are.
TableIn(data) ==
    /\ Ends(data) = {EndPlace + 1} /\ Holds(data, DescriptorSize, AllDescriptors)
    /\ Holds(data, EndPlace, ColumnEnd)

\* What an open table's bytes are.
LEMMA OpenTableIn ==
    ASSUME FileInv, phase = "open"
    PROVE  /\ TableIn(source.data) /\ HasHeader(source.data) /\ Len(columns) = declared
           /\ rowsCount \in Nat /\ Len(source.data) \in Nat
           /\ \A slot \in written :
                 /\ slot \in Nat /\ slot < rowsCount
                 /\ Holds(source.data, RowOffset(slot), Bytes("row", rowLength, slot))
<1>1. /\ Ends(source.data) # {} => TableIn(source.data) /\ HasHeader(source.data)
      /\ Ends(source.data) # {} /\ Len(columns) = declared
  BY DEF FileInv, EndPlaced, PhasesPlaced, TableIn
<1>2. rowsCount \in Nat /\ Len(source.data) \in Nat
  BY LimitsAssumption DEF FileInv, LayoutInv, TypeOK, Sound
<1>3. ASSUME NEW slot \in written
      PROVE  /\ slot \in Nat /\ slot < rowsCount
             /\ Holds(source.data, RowOffset(slot), Bytes("row", rowLength, slot))
  BY <1>2 DEF FileInv, RowsPlaced
<1> QED
  BY <1>1, <1>2, <1>3

\* A write in front of the columns or behind the header keeps them.
LEMMA TableKept ==
    ASSUME LayoutInv, Len(columns) = declared,
           NEW data, NEW at, NEW image, NEW after, Over(data, at, image, after), TableIn(data),
           Ends(image) = {}, at + Len(image) <= DescriptorSize \/ EndPlace + 1 <= at
    PROVE  TableIn(after)
<1>1. /\ EndPlace \in Nat /\ EndPlace = DescriptorSize + Len(AllDescriptors)
      /\ DescriptorSize \in Nat /\ Len(AllDescriptors) \in Nat /\ Len(ColumnEnd) = 1
  BY Places, DescriptorsMean, ColumnEndMeans, LimitsAssumption
<1>2. at \in Nat /\ Len(image) \in Nat
  BY DEF Over
<1>3. \A i \in Ends(data) : i \notin at+1..at+Len(image)
  BY <1>1, <1>2 DEF TableIn
<1>4. Ends(after) = Ends(data)
  BY <1>3, OverPlain
<1>5. Holds(after, DescriptorSize, AllDescriptors)
  <2>1. DescriptorSize + Len(AllDescriptors) <= at \/ at + Len(image) <= DescriptorSize
    BY <1>1, <1>2
  <2> QED
    BY <2>1, OverKeeps DEF TableIn
<1>6. Holds(after, EndPlace, ColumnEnd)
  <2>1. EndPlace + Len(ColumnEnd) <= at \/ at + Len(image) <= EndPlace
    BY <1>1, <1>2
  <2> QED
    BY <2>1, OverKeeps DEF TableIn
<1> QED
  BY <1>4, <1>5, <1>6 DEF TableIn

\* No write of WriteRow is refused, and none comes over a row stored before.
LEMMA RowEffects ==
    ASSUME FileInv, phase = "open", NEW data, NEW ok,
           Effects(WriteRowChain(rowsCount), source.memory, data, ok), data[0] = source.data
    PROVE  /\ ok[1] /\ ok[2]
           /\ \A n \in 0..2 :
                 /\ TableIn(data[n])
                 /\ n = 0 \/ Holds(data[n], 0, HeaderImage(rowsCount + 1))
                 /\ \A slot \in written :
                       Holds(data[n], RowOffset(slot), Bytes("row", rowLength, slot))
           /\ Holds(data[2], RowOffset(rowsCount), Bytes("row", rowLength, rowsCount))
<1> DEFINE r == rowsCount
           chain == WriteRowChain(r)
           H == HeaderImage(r + 1)
           R == Bytes("row", rowLength, r)
           at == RowOffset(r)
<1>1. /\ TableIn(data[0]) /\ Len(columns) = declared
      /\ r \in Nat /\ Len(data[0]) \in Nat /\ LayoutInv
      /\ \A slot \in written :
            /\ slot \in Nat /\ slot < r
            /\ Holds(data[0], RowOffset(slot), Bytes("row", rowLength, slot))
  BY OpenTableIn DEF FileInv
<1>2. /\ Len(chain) = 2 /\ chain[1] = At(0, H) /\ chain[2] = At(at, R)
  BY <1>1, RowChainMeans
<1>3. /\ Len(H) \in Nat /\ Len(H) <= DescriptorSize /\ Len(R) = rowLength /\ rowLength \in Nat
      /\ DescriptorSize \in Nat
      /\ EndPlace \in Nat /\ EndPlace + 1 <= firstRow /\ DescriptorSize <= EndPlace
      /\ at \in Nat /\ firstRow <= at /\ firstRow \in Nat
  <2>1. /\ EndPlace \in Nat /\ EndPlace = DescriptorSize + Len(AllDescriptors)
        /\ Padding \in Nat /\ EndPlace + 1 + Padding = firstRow
        /\ Len(AllDescriptors) \in Nat
    BY <1>1, Places, DescriptorsMean
  <2>2. Len(H) = HeaderBytes /\ HeaderBytes \in 1..DescriptorSize-1 /\ DescriptorSize \in Nat
    BY HeaderImageMeans
  <2>3. at \in Nat /\ firstRow <= at /\ Len(R) = rowLength /\ rowLength \in Nat /\ firstRow \in Nat
    BY <1>1, RowPlaces, RowBytes, LimitsAssumption DEF LayoutInv, TypeOK
  <2> HIDE DEF H, R, at
  <2> QED
    BY <2>1, <2>2, <2>3
<1>4. Ends(H) = {} /\ Ends(R) = {}
  <2>1. ASSUME NEW i \in 1..Len(H) PROVE H[i].kind # "columnEnd"
    <3>1. i \in 1..HeaderBytes
      BY HeaderImageMeans
    <3>2. HeaderImage(r + 1)[i] =
              [kind |-> "header", part |-> i,
               val |-> [firstRow |-> firstRow, rowLength |-> rowLength, rowsCount |-> r + 1]]
      BY <3>1, HeaderImageMeans
    <3> QED
      BY <3>2
  <2>2. ASSUME NEW i \in 1..Len(R) PROVE R[i].kind # "columnEnd"
    <3>1. R[i] = [kind |-> "row", part |-> i, val |-> r]
      BY <1>1, RowBytes
    <3> QED
      BY <3>1
  <2> HIDE DEF H, R
  <2> QED
    BY <2>1, <2>2 DEF Ends
<1> HIDE DEF chain, H, R, at
<1>5. /\ ok[0] = TRUE /\ Len(data[1]) \in Nat /\ Len(data[2]) \in Nat
      /\ Written(source.memory, data[0], ok[0], 0, H, data[1], ok[1])
      /\ Written(source.memory, data[1], ok[1], at, R, data[2], ok[2])
  <2>1. /\ ok[0] = TRUE /\ \A n \in 0..Len(chain) : Len(data[n]) \in Nat
        /\ \A n \in 0..Len(chain)-1 : \A place, image :
              chain[n + 1] = At(place, image) =>
                  Written(source.memory, data[n], ok[n], place, image, data[n + 1], ok[n + 1])
    <3>1. Effects(chain, source.memory, data, ok) /\ Len(chain) \in Nat
      BY <1>2 DEF chain
    <3> QED
      BY <3>1, EffectOf, Zenon
  <2>2. /\ 0 \in 0..Len(chain)-1 /\ 1 \in 0..Len(chain)-1 /\ 1 = 0 + 1 /\ 2 = 1 + 1
        /\ 1 \in 0..Len(chain) /\ 2 \in 0..Len(chain)
    BY <1>2
  <2>3. Written(source.memory, data[0], ok[0], 0, H, data[1], ok[1])
    BY <1>2, <2>1, <2>2
  <2>4. Written(source.memory, data[1], ok[1], at, R, data[2], ok[2])
    BY <1>2, <2>1, <2>2
  <2> QED
    BY <2>1, <2>2, <2>3, <2>4
<1>6. ok[1] /\ Over(data[0], 0, H, data[1])
  BY <1>1, <1>5 DEF Written
<1>7. Len(data[0]) <= Len(data[1]) /\ Holds(data[1], 0, H)
  BY <1>6, OverWrites
<1>8. ok[2] /\ Over(data[1], at, R, data[2])
  <2>1. source.memory => at <= Len(data[0])
    <3>1. source.memory => at <= Len(source.data)
      BY DEF FileInv, MemoryLongEnough, at
    <3> QED
      BY <3>1
  <2>2. source.memory => at <= Len(data[1])
    BY <1>1, <1>3, <1>5, <1>7, <2>1
  <2> QED
    BY <1>5, <1>6, <2>2 DEF Written
<1>9. Holds(data[2], at, R)
  BY <1>8, OverWrites
<1>10. Holds(data[2], 0, H)
  <2>1. 0 + Len(H) <= at
    BY <1>3
  <2> QED
    BY <1>7, <1>8, <2>1, OverKeeps
<1>11. TableIn(data[1])
  <2>1. 0 + Len(H) <= DescriptorSize
    BY <1>3
  <2> QED
    BY <1>1, <1>4, <1>6, <2>1, TableKept
<1>12. TableIn(data[2])
  <2>1. EndPlace + 1 <= at
    BY <1>3
  <2> QED
    BY <1>1, <1>4, <1>8, <1>11, <2>1, TableKept
<1>13. ASSUME NEW slot \in written
       PROVE  /\ Holds(data[1], RowOffset(slot), Bytes("row", rowLength, slot))
              /\ Holds(data[2], RowOffset(slot), Bytes("row", rowLength, slot))
  <2> DEFINE place == RowOffset(slot)
             row == Bytes("row", rowLength, slot)
  <2>1. Holds(data[0], place, row) /\ slot \in Nat /\ slot < r
    BY <1>1
  <2>2. place \in Nat /\ firstRow <= place /\ place + rowLength <= at /\ Len(row) = rowLength
    BY <1>1, <2>1, RowPlaces, RowBytes DEF at
  <2> HIDE DEF place, row
  <2>3. 0 + Len(H) <= place /\ place + Len(row) <= at
    BY <1>3, <2>2
  <2>4. Holds(data[1], place, row)
    BY <1>6, <2>1, <2>3, OverKeeps
  <2>5. Holds(data[2], place, row)
    BY <1>8, <2>3, <2>4, OverKeeps
  <2> QED
    BY <2>4, <2>5 DEF place, row
<1>14. ASSUME NEW n \in 0..2
       PROVE  /\ TableIn(data[n])
              /\ n = 0 \/ Holds(data[n], 0, H)
              /\ \A slot \in written :
                    Holds(data[n], RowOffset(slot), Bytes("row", rowLength, slot))
  <2>1. n = 0 \/ n = 1 \/ n = 2
    OBVIOUS
  <2> QED
    BY <1>1, <1>7, <1>10, <1>11, <1>12, <1>13, <2>1, Zenon
<1>15. Holds(data[2], RowOffset(r), Bytes("row", rowLength, r))
  BY <1>9 DEF R, at
<1>16. \A n \in 0..2 :
          /\ TableIn(data[n])
          /\ n = 0 \/ Holds(data[n], 0, HeaderImage(r + 1))
          /\ \A slot \in written :
                Holds(data[n], RowOffset(slot), Bytes("row", rowLength, slot))
  BY <1>14 DEF H
<1> QED
  BY <1>6, <1>8, <1>15, <1>16, Zenon

LEMMA StoreRowKeeps ==
    ASSUME FileInv, NEW whole \in BOOLEAN, StoreRow(whole) PROVE FileInv'
<1> DEFINE r == rowsCount
           chain == WriteRowChain(r)
<1>1. /\ phase = "open" /\ phase' = "open" /\ rowsCount' = r + 1 /\ r \in Nat
      /\ UNCHANGED <<declared, columns, firstRow, rowLength, nullFlagBits, nullFlagColumn, isNew>>
      /\ Perform(chain, whole)
      /\ written' = IF whole THEN written \cup {r} ELSE written
      /\ Sound(source) /\ faults \in Nat /\ isNew \in BOOLEAN /\ LayoutInv
      /\ source.memory \in BOOLEAN /\ Len(columns) = declared
  BY OpenTableIn DEF StoreRow, AppendRow, FileInv, PhasesPlaced, Sound
<1>2. Writable(chain) /\ Len(chain) = 2
  BY <1>1, RowChainMeans
<1>3. PICK n, data, ok :
          /\ n \in 0..2
          /\ Effects(chain, source.memory, data, ok) /\ data[0] = source.data
          /\ Sound(source') /\ source'.data = data[n] /\ source'.memory = source.memory
          /\ whole = (ok[n] /\ n = 2)
          /\ n < 2 => ~source.memory
          /\ faults' = IF n < 2 THEN faults + 1 ELSE faults
  <2> HIDE DEF chain
  <2>1. \E n \in 0..Len(chain) : \E data, ok :
            /\ Effects(chain, source.memory, data, ok) /\ data[0] = source.data
            /\ Sound(source') /\ source'.data = data[n] /\ source'.memory = source.memory
            /\ whole = (ok[n] /\ n = Len(chain))
            /\ n < Len(chain) => ~source.memory
            /\ faults' = IF n < Len(chain) THEN faults + 1 ELSE faults
    BY <1>1, <1>2, PerformMeans, Zenon
  <2> QED
    BY <1>2, <2>1, Zenon
<1>4. /\ ok[1] /\ ok[2]
      /\ TableIn(data[n])
      /\ n = 0 \/ Holds(data[n], 0, HeaderImage(r + 1))
      /\ \A slot \in written :
            Holds(data[n], RowOffset(slot), Bytes("row", rowLength, slot))
      /\ Holds(data[2], RowOffset(r), Bytes("row", rowLength, r))
  <2>1. /\ ok[1] /\ ok[2]
        /\ \A m \in 0..2 :
              /\ TableIn(data[m])
              /\ m = 0 \/ Holds(data[m], 0, HeaderImage(r + 1))
              /\ \A slot \in written :
                    Holds(data[m], RowOffset(slot), Bytes("row", rowLength, slot))
        /\ Holds(data[2], RowOffset(r), Bytes("row", rowLength, r))
    BY <1>1, <1>3, RowEffects, Zenon
  <2> QED
    BY <1>3, <2>1, Zenon
<1>5. whole <=> n = 2
  <2>1. CASE n = 2
    BY <1>3, <1>4, <2>1, Zenon
  <2>2. CASE n # 2
    BY <1>3, <2>2, Zenon
  <2> QED
    BY <2>1, <2>2
<1>6. LayoutInv'
  BY <1>1, AppendLaysOut DEF StoreRow
<1>7. PhasesPlaced'
  <2>1. faults' \in Nat
    BY <1>1, <1>3
  <2> QED
    BY <1>1, <2>1 DEF PhasesPlaced
<1>8. n = 0 => \E count \in 0..r : Holds(data[n], 0, HeaderImage(count))
  BY <1>1, <1>3, OpenTableIn DEF HasHeader
<1>9. \E count \in 0..rowsCount' : Holds(data[n], 0, HeaderImage(count))
  <2>1. 0..r \subseteq 0..rowsCount' /\ r + 1 \in 0..rowsCount'
    BY <1>1
  <2> QED
    BY <1>4, <1>8, <2>1
<1>10. HeaderWhole'
  BY <1>1, <1>3, <1>9, PlacedAfter
<1>11. EndPlaced'
  <2>1. Ends(data[n]) # {}
    BY <1>4 DEF TableIn
  <2> QED
    BY <1>1, <1>3, <1>4, <1>9, <2>1, PlacedAfter DEF TableIn
<1>12. RowsPlaced'
  <2>1. ASSUME NEW slot \in written
        PROVE  /\ slot \in Nat
               /\ \E count \in slot+1..rowsCount' : Holds(data[n], 0, HeaderImage(count))
               /\ Holds(data[n], RowOffset(slot), Bytes("row", rowLength, slot))
    <3>1. slot \in Nat /\ slot < r
      BY <1>1, OpenTableIn
    <3>2. \E count \in slot+1..r : Holds(source.data, 0, HeaderImage(count))
      BY DEF FileInv, RowsPlaced
    <3>3. slot+1..r \subseteq slot+1..rowsCount' /\ r + 1 \in slot+1..rowsCount'
      BY <1>1, <3>1
    <3> QED
      BY <1>3, <1>4, <3>1, <3>2, <3>3
  <2>2. ASSUME whole
        PROVE  /\ r \in Nat
               /\ \E count \in r+1..rowsCount' : Holds(data[n], 0, HeaderImage(count))
               /\ Holds(data[n], RowOffset(r), Bytes("row", rowLength, r))
    <3>1. n = 2 /\ n # 0 /\ r + 1 \in r+1..rowsCount'
      BY <1>1, <1>5, <2>2
    <3> QED
      BY <1>1, <1>4, <3>1
  <2>3. \A slot \in written' : slot \in written \/ (whole /\ slot = r)
    BY <1>1
  <2>4. \A slot \in written' :
            /\ slot \in Nat
            /\ \E count \in slot+1..rowsCount' : Holds(data[n], 0, HeaderImage(count))
            /\ Holds(data[n], RowOffset(slot), Bytes("row", rowLength, slot))
    BY <2>1, <2>2, <2>3, Zenon
  <2> QED
    BY <1>1, <1>3, <2>4, PlacedAfter
<1>13. RowsComplete'
  <2> SUFFICES ASSUME faults' = 0
               PROVE  written' = 0..rowsCount'-1 /\ Holds(data[n], 0, HeaderImage(rowsCount'))
    BY <1>1, <1>3, PlacedAfter
  <2>1. n = 2 /\ faults = 0 /\ n # 0
    BY <1>1, <1>3
  <2>2. written = 0..r-1
    BY <1>1, <2>1 DEF FileInv, RowsComplete
  <2>3. written' = written \cup {r} /\ rowsCount' - 1 = r
    BY <1>1, <1>5, <2>1
  <2>4. 0..r = 0..r-1 \cup {r}
    BY <1>1
  <2> QED
    BY <1>1, <1>4, <2>1, <2>2, <2>3, <2>4
<1>14. MemoryLongEnough'
  <2>1. source'.memory => n = 2 /\ faults' = 0
    BY <1>1, <1>3 DEF FileInv, MemoryLongEnough
  <2>2. n = 2 => RowOffset(rowsCount') <= Len(data[n])
    <3>1. RowOffset(r + 1) = RowOffset(r) + rowLength /\ Len(Bytes("row", rowLength, r)) = rowLength
      BY <1>1, RowPlaces, RowBytes
    <3> QED
      BY <1>1, <1>4, <3>1 DEF Holds
  <2> QED
    BY <1>1, <1>3, <2>1, <2>2, PlacedAfter
<1>15. Sound(source)'
  BY <1>3 DEF Sound
<1> QED
  BY <1>6, <1>7, <1>10, <1>11, <1>12, <1>13, <1>14, <1>15 DEF FileInv

-----------------------------------------------------------------------------
(* Increment *)

SameBytes(data, after) ==
    Len(after) = Len(data) /\ \A i \in 1..Len(data) : after[i] = data[i]

LEMMA SameKeeps ==
    ASSUME NEW data, Len(data) \in Nat, NEW after, SameBytes(data, after)
    PROVE  /\ Ends(after) = Ends(data)
           /\ \A at, image : Holds(data, at, image) => Holds(after, at, image)
<1>1. Ends(after) = Ends(data)
  BY DEF Ends, SameBytes
<1>2. ASSUME NEW at, NEW image, Holds(data, at, image) PROVE Holds(after, at, image)
  <2>1. \A i \in 1..Len(image) : at + i \in 1..Len(data)
    BY <1>2 DEF Holds
  <2> QED
    BY <1>2, <2>1 DEF Holds, SameBytes
<1> QED
  BY <1>1, <1>2

\* What columns and padding leave of an open table: all that was in it.
Kept(data, after) ==
    /\ TableIn(after) /\ Len(data) <= Len(after)
    /\ \A c : Holds(data, 0, HeaderImage(c)) => Holds(after, 0, HeaderImage(c))
    /\ \A slot \in written :
          Holds(after, RowOffset(slot), Bytes("row", rowLength, slot))

\* The columns are the same and the padding ends where the rows begin.
LEMMA ColumnsEffects ==
    ASSUME FileInv, phase = "open", NEW data, NEW ok,
           Effects(WriteColumnsChain(isNew), source.memory, data, ok), data[0] = source.data
    PROVE  \A n \in 0..Len(WriteColumnsChain(isNew)) : ok[n] /\ Kept(data[0], data[n])
<1> DEFINE chain == WriteColumnsChain(isNew)
           D == AllDescriptors
           E == ColumnEnd
           P == Zeros(Padding)
           at == EndPlace + 1
<1>1. /\ TableIn(data[0]) /\ Len(columns) = declared /\ Len(data[0]) \in Nat /\ LayoutInv
      /\ isNew \in BOOLEAN
      /\ \A slot \in written :
            /\ slot \in Nat
            /\ Holds(data[0], RowOffset(slot), Bytes("row", rowLength, slot))
  BY OpenTableIn DEF FileInv, PhasesPlaced
<1>2. /\ Len(chain) = IF isNew THEN 3 ELSE 2
      /\ chain[1] = At(DescriptorSize, D) /\ chain[2] = At(EndPlace, E)
      /\ isNew => chain[3] = At(at, P)
  BY <1>1, ColumnsChainMeans
<1>3. /\ at \in Nat /\ at + Len(P) = firstRow /\ Ends(P) = {}
      /\ EndPlace \in Nat /\ DescriptorSize <= EndPlace /\ DescriptorSize \in Nat
  <2>1. /\ EndPlace \in Nat /\ EndPlace = DescriptorSize + Len(D) /\ Len(D) \in Nat
        /\ Padding \in Nat /\ EndPlace + 1 + Padding = firstRow
        /\ Len(P) = Padding /\ (\A i \in 1..Padding : P[i] = Zero)
        /\ DescriptorSize \in Nat
    BY <1>1, Places, DescriptorsMean, LimitsAssumption
  <2> HIDE DEF P, D
  <2> QED
    BY <2>1, SourceAssumption DEF Ends
<1> HIDE DEF chain, D, E, P, at
<1>4. /\ ok[0] = TRUE /\ \A n \in 0..Len(chain) : Len(data[n]) \in Nat
      /\ Written(source.memory, data[0], ok[0], DescriptorSize, D, data[1], ok[1])
      /\ Written(source.memory, data[1], ok[1], EndPlace, E, data[2], ok[2])
      /\ isNew => Written(source.memory, data[2], ok[2], at, P, data[3], ok[3])
  <2>1. /\ ok[0] = TRUE /\ \A n \in 0..Len(chain) : Len(data[n]) \in Nat
        /\ \A n \in 0..Len(chain)-1 : \A place, image :
              chain[n + 1] = At(place, image) =>
                  Written(source.memory, data[n], ok[n], place, image, data[n + 1], ok[n + 1])
    <3>1. Effects(chain, source.memory, data, ok) /\ Len(chain) \in Nat
      BY <1>2 DEF chain
    <3> QED
      BY <3>1, EffectOf, Zenon
  <2>2. /\ 0 \in 0..Len(chain)-1 /\ 1 \in 0..Len(chain)-1
        /\ isNew => 2 \in 0..Len(chain)-1
        /\ 1 = 0 + 1 /\ 2 = 1 + 1 /\ 3 = 2 + 1
    BY <1>2
  <2>3. Written(source.memory, data[0], ok[0], DescriptorSize, D, data[1], ok[1])
    BY <1>2, <2>1, <2>2
  <2>4. Written(source.memory, data[1], ok[1], EndPlace, E, data[2], ok[2])
    BY <1>2, <2>1, <2>2
  <2>5. isNew => Written(source.memory, data[2], ok[2], at, P, data[3], ok[3])
    BY <1>2, <2>1, <2>2
  <2> QED
    BY <2>1, <2>3, <2>4, <2>5
<1>5. Len(data[1]) \in Nat /\ Len(data[2]) \in Nat /\ (isNew => Len(data[3]) \in Nat)
  BY <1>2, <1>4
<1>6. Kept(data[0], data[0])
  BY <1>1 DEF Kept
<1>7. ASSUME NEW a, NEW b, Len(a) \in Nat, Kept(data[0], a), SameBytes(a, b)
      PROVE  Kept(data[0], b)
  <2>1. Ends(b) = Ends(a) /\ \A place, image : Holds(a, place, image) => Holds(b, place, image)
    BY <1>7, SameKeeps
  <2>2. Len(b) = Len(a)
    BY <1>7 DEF SameBytes
  <2> QED
    BY <1>7, <2>1, <2>2, Zenon DEF Kept, TableIn
<1>8. ok[1] /\ Kept(data[0], data[1])
  <2>1. Holds(data[0], DescriptorSize, D)
    BY <1>1 DEF TableIn, D
  <2>2. DescriptorSize <= Len(data[0])
    BY <1>1, <2>1 DEF Holds
  <2>3. ok[1] /\ Over(data[0], DescriptorSize, D, data[1])
    BY <1>4, <2>2 DEF Written
  <2>4. SameBytes(data[0], data[1])
    BY <2>1, <2>3, OverAgain DEF SameBytes
  <2> QED
    BY <1>1, <1>6, <1>7, <2>3, <2>4, Zenon
<1>9. ok[2] /\ Kept(data[0], data[2])
  <2>1. Holds(data[1], EndPlace, E)
    BY <1>8 DEF Kept, TableIn, E
  <2>2. EndPlace <= Len(data[1])
    BY <1>5, <2>1 DEF Holds
  <2>3. ok[2] /\ Over(data[1], EndPlace, E, data[2])
    BY <1>4, <1>8, <2>2 DEF Written
  <2>4. SameBytes(data[1], data[2])
    BY <2>1, <2>3, OverAgain DEF SameBytes
  <2> QED
    BY <1>5, <1>7, <1>8, <2>3, <2>4, Zenon
<1>10. ASSUME isNew PROVE ok[3] /\ Kept(data[0], data[3])
  <2>1. Holds(data[2], EndPlace, E) /\ Len(E) = 1 /\ TableIn(data[2])
    BY <1>9, ColumnEndMeans DEF Kept, TableIn, E
  <2>2. at <= Len(data[2])
    BY <1>5, <2>1 DEF Holds, at
  <2>3. ok[3] /\ Over(data[2], at, P, data[3])
    BY <1>4, <1>9, <1>10, <2>2 DEF Written
  <2>4. TableIn(data[3])
    <3>1. EndPlace + 1 <= at
      BY <1>3 DEF at
    <3> QED
      BY <1>1, <1>3, <2>1, <2>3, <3>1, TableKept
  <2>5. Len(data[0]) <= Len(data[3])
    <3>1. Len(data[2]) <= Len(data[3])
      BY <2>3, OverWrites
    <3> QED
      BY <1>1, <1>5, <1>9, <1>10, <3>1 DEF Kept
  <2>6. ASSUME NEW c, Holds(data[0], 0, HeaderImage(c)) PROVE Holds(data[3], 0, HeaderImage(c))
    <3> DEFINE H == HeaderImage(c)
    <3>1. Holds(data[2], 0, H)
      BY <1>9, <2>6 DEF Kept
    <3>2. Len(H) = HeaderBytes /\ HeaderBytes \in 1..DescriptorSize-1
      BY HeaderImageMeans
    <3> HIDE DEF H
    <3>3. 0 + Len(H) <= at
      BY <1>3, <3>2 DEF at
    <3>4. Holds(data[3], 0, H)
      BY <2>3, <3>1, <3>3, OverKeeps
    <3> QED
      BY <3>4 DEF H
  <2>7. ASSUME NEW slot \in written
        PROVE  Holds(data[3], RowOffset(slot), Bytes("row", rowLength, slot))
    <3> DEFINE place == RowOffset(slot)
               row == Bytes("row", rowLength, slot)
    <3>1. Holds(data[2], place, row)
      BY <1>9 DEF Kept
    <3>2. firstRow <= place
      BY <1>1, RowPlaces
    <3> HIDE DEF place, row
    <3>3. at + Len(P) <= place
      BY <1>3, <3>2
    <3>4. Holds(data[3], place, row)
      BY <2>3, <3>1, <3>3, OverKeeps
    <3> QED
      BY <3>4 DEF place, row
  <2> QED
    BY <2>3, <2>4, <2>5, <2>6, <2>7, Zenon DEF Kept
<1>11. \A n \in 0..Len(chain) : n = 0 \/ n = 1 \/ n = 2 \/ (n = 3 /\ isNew)
  BY <1>1, <1>2
<1>12. \A n \in 0..Len(chain) : ok[n] /\ Kept(data[0], data[n])
  BY <1>4, <1>6, <1>8, <1>9, <1>10, <1>11, Zenon
<1> QED
  BY <1>12 DEF chain

LEMMA RewriteColumnsKeeps ==
    ASSUME FileInv, NEW whole \in BOOLEAN, RewriteColumns(whole) PROVE FileInv'
<1> DEFINE chain == WriteColumnsChain(isNew)
<1>1. /\ phase = "open" /\ phase' = "open" /\ rowsCount' = rowsCount /\ rowsCount \in Nat
      /\ UNCHANGED <<declared, columns, firstRow, rowLength, nullFlagBits, nullFlagColumn,
                     isNew, written>>
      /\ UNCHANGED vars /\ Perform(chain, whole)
      /\ Sound(source) /\ faults \in Nat /\ isNew \in BOOLEAN /\ LayoutInv
      /\ source.memory \in BOOLEAN /\ Len(columns) = declared
  BY OpenTableIn DEF RewriteColumns, FileInv, PhasesPlaced, Sound, vars
<1>2. Writable(chain)
  BY <1>1, ColumnsChainMeans
<1>3. PICK n, data, ok :
          /\ n \in 0..Len(chain)
          /\ Effects(chain, source.memory, data, ok) /\ data[0] = source.data
          /\ Sound(source') /\ source'.data = data[n] /\ source'.memory = source.memory
          /\ n < Len(chain) => ~source.memory
          /\ faults' = IF n < Len(chain) THEN faults + 1 ELSE faults
  <2> HIDE DEF chain
  <2> QED
    BY <1>1, <1>2, PerformMeans, Zenon
<1>4. Kept(source.data, data[n])
  <2>1. \A m \in 0..Len(chain) : ok[m] /\ Kept(data[0], data[m])
    BY <1>1, <1>3, ColumnsEffects, Zenon
  <2> QED
    BY <1>3, <2>1, Zenon
<1>5. n \in Nat /\ Len(chain) \in Nat /\ n <= Len(chain)
  BY <1>2, <1>3 DEF Writable
<1>6. LayoutInv'
  BY <1>1, LayoutStep
<1>7. PhasesPlaced'
  <2>1. faults' \in Nat
    BY <1>1, <1>3
  <2> QED
    BY <1>1, <2>1 DEF PhasesPlaced, FileInv
<1>8. \E count \in 0..rowsCount' : Holds(data[n], 0, HeaderImage(count))
  BY <1>1, <1>4, OpenTableIn DEF HasHeader, Kept
<1>9. HeaderWhole'
  BY <1>1, <1>3, <1>8, PlacedAfter
<1>10. EndPlaced'
  <2>1. Ends(data[n]) # {} /\ TableIn(data[n])
    BY <1>4 DEF TableIn, Kept
  <2> QED
    BY <1>1, <1>3, <1>8, <2>1, PlacedAfter DEF TableIn
<1>11. RowsPlaced'
  <2>1. ASSUME NEW slot \in written
        PROVE  /\ slot \in Nat
               /\ \E count \in slot+1..rowsCount' : Holds(data[n], 0, HeaderImage(count))
               /\ Holds(data[n], RowOffset(slot), Bytes("row", rowLength, slot))
    <3>1. \E count \in slot+1..rowsCount : Holds(source.data, 0, HeaderImage(count))
      BY DEF FileInv, RowsPlaced
    <3> QED
      BY <1>1, <1>4, <3>1, OpenTableIn DEF Kept
  <2> QED
    BY <1>1, <1>3, <2>1, PlacedAfter
<1>12. RowsComplete'
  <2> SUFFICES ASSUME faults' = 0
               PROVE  written' = 0..rowsCount'-1 /\ Holds(data[n], 0, HeaderImage(rowsCount'))
    BY <1>1, <1>3, PlacedAfter
  <2>1. faults = 0
    BY <1>1, <1>3
  <2>2. written = 0..rowsCount-1 /\ Holds(source.data, 0, HeaderImage(rowsCount))
    BY <1>1, <2>1 DEF FileInv, RowsComplete
  <2> QED
    BY <1>1, <1>4, <2>2 DEF Kept
<1>13. MemoryLongEnough'
  <2>1. source'.memory => faults' = 0 /\ RowOffset(rowsCount) <= Len(source.data)
    BY <1>1, <1>3, <1>5 DEF FileInv, MemoryLongEnough
  <2>2. /\ Len(source.data) <= Len(data[n]) /\ Len(data[n]) \in Nat /\ Len(source.data) \in Nat
        /\ RowOffset(rowsCount) \in Nat
    BY <1>1, <1>3, <1>4, RowPlaces DEF Kept, Sound
  <2>3. source'.memory => RowOffset(rowsCount') <= Len(data[n])
    BY <1>1, <2>1, <2>2
  <2> QED
    BY <1>1, <1>3, <2>1, <2>3, PlacedAfter
<1>14. Sound(source)'
  BY <1>3 DEF Sound
<1> QED
  BY <1>6, <1>7, <1>9, <1>10, <1>11, <1>12, <1>13, <1>14 DEF FileInv

-----------------------------------------------------------------------------
(* OpenTable *)

NextColumn(before, cell) ==
    IF cell.kind = "nullFlag" THEN [before EXCEPT !.nullFlag = cell.val]
    ELSE [before EXCEPT !.columns = Append(@, cell.val)]

\* ColumnsRead is the function its recursion describes.
LEMMA ColumnsReadUnrolls ==
    ASSUME NEW s, NEW end \in Nat
    PROVE  /\ ColumnsRead(s, end)[0] = [columns |-> <<>>, nullFlag |-> 0]
           /\ \A k \in 1..end :
                 ColumnsRead(s, end)[k] =
                     NextColumn(ColumnsRead(s, end)[k-1], DescriptorAt(s, k - 1)[1])
<1> DEFINE first == [columns |-> <<>>, nullFlag |-> 0]
           cell(k) == DescriptorAt(s, k - 1)[1]
           Unrolls(f, n) ==
               f = [k \in 0..n |-> IF k = 0 THEN first ELSE NextColumn(f[k-1], cell(k))]
           S == {n \in Nat : \E f : Unrolls(f, n)}
<1>1. 0 \in S
  <2>1. Unrolls([k \in 0..0 |-> first], 0)
    OBVIOUS
  <2> QED
    BY <2>1
<1>2. ASSUME NEW n \in Nat, n \in S PROVE n + 1 \in S
  <2>1. PICK f : Unrolls(f, n)
    BY <1>2
  <2> DEFINE g == [k \in 0..n+1 |-> IF k = n + 1 THEN NextColumn(f[n], cell(n + 1)) ELSE f[k]]
  <2>2. ASSUME NEW k \in 0..n+1
        PROVE  g[k] = IF k = 0 THEN first ELSE NextColumn(g[k-1], cell(k))
    <3> HIDE DEF cell
    <3>1. CASE k = n + 1
      <4>1. k # 0 /\ k - 1 = n /\ n \in 0..n+1 /\ n # n + 1
        BY <3>1
      <4> QED
        BY <3>1, <4>1
    <3>2. CASE k # n + 1
      <4>1. k \in 0..n /\ (k # 0 => k - 1 \in 0..n+1 /\ k - 1 # n + 1)
        BY <3>2
      <4>2. f[k] = IF k = 0 THEN first ELSE NextColumn(f[k-1], cell(k))
        BY <2>1, <4>1
      <4> QED
        BY <3>2, <4>1, <4>2
    <3> QED
      BY <3>1, <3>2
  <2>3. Unrolls(g, n + 1)
    BY <2>2
  <2>4. n + 1 \in Nat
    OBVIOUS
  <2> HIDE DEF g
  <2> QED
    BY <2>3, <2>4, Zenon
<1>3. end \in S
  <2> HIDE DEF S
  <2> QED
    BY <1>1, <1>2, InductionOnSet
<1>4. Unrolls(ColumnsRead(s, end), end)
  <2>1. ColumnsRead(s, end) = CHOOSE f : Unrolls(f, end)
    BY Zenon DEF ColumnsRead, NextColumn
  <2>2. PICK f : Unrolls(f, end)
    BY <1>3
  <2> QED
    BY <2>1, <2>2, Zenon
<1>5. 0 \in 0..end /\ \A k \in 1..end : k \in 0..end /\ k # 0
  OBVIOUS
<1> DEFINE read == ColumnsRead(s, end)
<1> HIDE DEF read, first, cell
<1>6. /\ read[0] = first
      /\ \A k \in 1..end : read[k] = NextColumn(read[k-1], cell(k))
  BY <1>4, <1>5 DEF read
<1> QED
  BY <1>6 DEF read, first, cell

\* The first byte of descriptor place k, if the source is that long.
LEMMA DescriptorByte ==
    ASSUME NEW s, Sound(s), NEW k \in Nat
    PROVE  LET at == DescriptorSize * (k + 1)
           IN  /\ at \in Nat
               /\ at < Len(s.data) =>
                     DescriptorAt(s, k) # <<>> /\ DescriptorAt(s, k)[1] = s.data[at + 1]
               /\ at >= Len(s.data) => DescriptorAt(s, k) = <<>>
<1> DEFINE at == DescriptorSize * (k + 1)
<1>1. at \in Nat /\ DescriptorSize \in Nat /\ DescriptorSize > 0
  <2>1. (k + 1) * DescriptorSize \in Nat /\ DescriptorSize \in Nat \ {0}
    BY Multiples, LimitsAssumption
  <2>2. at = (k + 1) * DescriptorSize
    BY <2>1
  <2> QED
    BY <2>1, <2>2
<1> HIDE DEF at
<1>2. /\ at < Len(s.data) => BytesAt(s, at, DescriptorSize) # <<>>
                             /\ BytesAt(s, at, DescriptorSize)[1] = s.data[at + 1]
      /\ at >= Len(s.data) => BytesAt(s, at, DescriptorSize) = <<>>
  BY <1>1, BytesAtMeans
<1>3. DescriptorAt(s, k) = BytesAt(s, at, DescriptorSize)
  BY DEF DescriptorAt, at
<1> QED
  BY <1>1, <1>2, <1>3 DEF at

\* The columns end at a place where the source has an end of columns.
LEMMA ColumnEndsMean ==
    ASSUME NEW s, Sound(s), NEW k
    PROVE  k \in ColumnEnds(s) <=>
               k \in 0..MaxFieldsPerRecord+1 /\ DescriptorSize * (k + 1) + 1 \in Ends(s.data)
<1>1. CASE k \in 0..MaxFieldsPerRecord+1
  <2> DEFINE at == DescriptorSize * (k + 1)
  <2>1. k \in Nat /\ Len(s.data) \in Nat
    BY <1>1, LimitsAssumption DEF Sound
  <2>2. /\ at \in Nat
        /\ at < Len(s.data) =>
              DescriptorAt(s, k) # <<>> /\ DescriptorAt(s, k)[1] = s.data[at + 1]
        /\ at >= Len(s.data) => DescriptorAt(s, k) = <<>>
    BY <2>1, DescriptorByte
  <2> HIDE DEF at
  <2>3. k \in ColumnEnds(s) <=>
            DescriptorAt(s, k) # <<>> /\ DescriptorAt(s, k)[1].kind = "columnEnd"
    BY <1>1 DEF ColumnEnds
  <2>4. at + 1 \in Ends(s.data) <=> at < Len(s.data) /\ s.data[at + 1].kind = "columnEnd"
    BY <2>1, <2>2 DEF Ends
  <2>5. at < Len(s.data) \/ at >= Len(s.data)
    BY <2>1, <2>2
  <2>6. k \in ColumnEnds(s) <=> at + 1 \in Ends(s.data)
    BY <2>1, <2>2, <2>3, <2>4, <2>5
  <2> QED
    BY <1>1, <2>6 DEF at
<1>2. CASE k \notin 0..MaxFieldsPerRecord+1
  BY <1>2 DEF ColumnEnds
<1> QED
  BY <1>1, <1>2

\* ReadColumns has the first k columns after k descriptors, and at the end the
\* null flag column.
LEMMA ReadsColumns ==
    ASSUME LayoutInv, Len(columns) = declared, NEW s, Sound(s),
           Holds(s.data, DescriptorSize, AllDescriptors)
    PROVE  ColumnsRead(s, Descriptors)[Descriptors]
               = [columns |-> columns, nullFlag |-> nullFlagColumn]
<1> DEFINE d == s.data
           L == Len(columns)
           read == ColumnsRead(s, Descriptors)
           Prefix(k) == SubSeq(columns, 1, k)
           Read(k) == [columns |-> Prefix(k), nullFlag |-> 0]
<1>1. /\ Descriptors \in Nat /\ L \in Nat /\ columns \in Seq(Columns) /\ nullFlagColumn \in Nat
      /\ Descriptors = L + (IF nullFlagColumn > 0 THEN 1 ELSE 0)
  BY Places DEF Descriptors, LayoutInv, TypeOK
<1>2. ASSUME NEW k \in 1..Descriptors
      PROVE  DescriptorAt(s, k - 1)[1] =
                 IF k <= L THEN [kind |-> "column", part |-> 1, val |-> columns[k]]
                 ELSE [kind |-> "nullFlag", part |-> 1, val |-> nullFlagColumn]
  <2> DEFINE at == DescriptorSize * ((k - 1) + 1)
             i == (k - 1) * DescriptorSize + 1
  <2>1. k - 1 \in Nat /\ DescriptorSize \in Nat /\ (k - 1) * DescriptorSize \in Nat
    <3>1. k - 1 \in Nat /\ DescriptorSize \in Nat
      BY <1>1, LimitsAssumption
    <3> QED
      BY <3>1, Multiples
  <2>2. i \in 1..Len(AllDescriptors)
        /\ AllDescriptors[i] =
              IF k <= L THEN [kind |-> "column", part |-> 1, val |-> columns[k]]
              ELSE [kind |-> "nullFlag", part |-> 1, val |-> nullFlagColumn]
    BY <1>1, DescriptorsMean
  <2>3. at + 1 = DescriptorSize + i
    <3>1. at = (k - 1) * DescriptorSize + DescriptorSize
      BY <2>1
    <3> QED
      BY <2>1, <3>1
  <2> HIDE DEF i, at
  <2>4. d[DescriptorSize + i] = AllDescriptors[i] /\ DescriptorSize + i <= Len(d)
    BY <2>1, <2>2 DEF Holds
  <2>5. at \in Nat /\ (at < Len(d) => DescriptorAt(s, k - 1)[1] = d[at + 1])
    BY <2>1, DescriptorByte DEF at
  <2>6. at < Len(d)
    <3>1. Len(d) \in Nat /\ at + 1 <= Len(d)
      BY <2>3, <2>4 DEF Sound
    <3> QED
      BY <2>5, <3>1
  <2>7. DescriptorAt(s, k - 1)[1] = AllDescriptors[i]
    BY <2>3, <2>4, <2>5, <2>6
  <2> QED
    BY <2>2, <2>7
<1>3. /\ read[0] = [columns |-> <<>>, nullFlag |-> 0]
      /\ \A k \in 1..Descriptors : read[k] = NextColumn(read[k-1], DescriptorAt(s, k - 1)[1])
  BY <1>1, ColumnsReadUnrolls
<1> HIDE DEF read
<1>4. \A k \in 0..L : /\ Prefix(k) \in Seq(Columns) /\ Len(Prefix(k)) = k
                      /\ \A i \in 1..k : Prefix(k)[i] = columns[i]
  <2> SUFFICES ASSUME NEW k \in 0..L
               PROVE  /\ Prefix(k) \in Seq(Columns) /\ Len(Prefix(k)) = k
                      /\ \A i \in 1..k : Prefix(k)[i] = columns[i]
    OBVIOUS
  <2>1. k \in Int /\ 1 \in Int /\ \A i \in 1..k : columns[i] \in Columns
    BY <1>1
  <2> DEFINE one == 1
  <2>2. one \in Int /\ \A i \in one..k : columns[i] \in Columns
    BY <2>1
  <2>3. /\ SubSeq(columns, one, k) \in Seq(Columns)
        /\ Len(SubSeq(columns, one, k)) = IF one <= k THEN k - one + 1 ELSE 0
        /\ \A i \in 1..k-one+1 : SubSeq(columns, one, k)[i] = columns[one + i - 1]
    <3> HIDE DEF one
    <3> QED
      BY <2>1, <2>2, SubSeqProperties
  <2> QED
    BY <1>1, <2>3
<1> HIDE DEF Prefix
<1>5. Prefix(0) = <<>>
  <2>1. 0 \in 0..L
    BY <1>1
  <2> QED
    BY <1>4, <2>1, EmptySeq
<1>6. ASSUME NEW k \in 0..L-1 PROVE Append(Prefix(k), columns[k + 1]) = Prefix(k + 1)
  <2> DEFINE longer == Append(Prefix(k), columns[k + 1])
  <2>1. columns[k + 1] \in Columns /\ k \in 0..L /\ k + 1 \in 0..L
    BY <1>1
  <2>2. /\ longer \in Seq(Columns) /\ Len(longer) = k + 1
        /\ \A i \in 1..k : longer[i] = Prefix(k)[i]
        /\ longer[k + 1] = columns[k + 1]
    BY <1>4, <2>1, AppendProperties
  <2>3. \A i \in 1..k+1 : longer[i] = Prefix(k + 1)[i]
    <3>1. \A i \in 1..k+1 : i \in 1..k \/ i = k + 1
      BY <1>1
    <3> HIDE DEF longer
    <3> QED
      BY <1>4, <2>1, <2>2, <3>1
  <2> HIDE DEF longer
  <2>4. longer = Prefix(k + 1)
    BY <1>4, <2>1, <2>2, <2>3, SeqEqual
  <2> QED
    BY <2>4 DEF longer
<1>7. Prefix(L) = columns
  <2>1. L \in 0..L
    BY <1>1
  <2>2. Prefix(L) \in Seq(Columns) /\ Len(Prefix(L)) = Len(columns)
        /\ \A i \in 1..Len(Prefix(L)) : Prefix(L)[i] = columns[i]
    BY <1>4, <2>1
  <2> QED
    BY <1>1, <2>2, SeqEqual
<1> DEFINE S == {k \in Nat : k <= L => read[k] = Read(k)}
<1>8. 0 \in S
  BY <1>3, <1>5
<1>9. ASSUME NEW k \in Nat, k \in S PROVE k + 1 \in S
  <2> SUFFICES ASSUME k + 1 <= L PROVE read[k + 1] = Read(k + 1)
    OBVIOUS
  <2>1. k + 1 \in 1..Descriptors /\ (k + 1) - 1 = k /\ k \in 0..L-1 /\ k <= L
    BY <1>1
  <2>2. read[k + 1] = NextColumn(read[k], DescriptorAt(s, k)[1]) /\ read[k] = Read(k)
    BY <1>3, <1>9, <2>1
  <2>3. DescriptorAt(s, k)[1] = [kind |-> "column", part |-> 1, val |-> columns[k + 1]]
    BY <1>2, <2>1
  <2>4. NextColumn(Read(k), [kind |-> "column", part |-> 1, val |-> columns[k + 1]])
            = [columns |-> Append(Prefix(k), columns[k + 1]), nullFlag |-> 0]
    BY DEF NextColumn
  <2> QED
    BY <1>6, <2>1, <2>2, <2>3, <2>4
<1>10. read[L] = [columns |-> columns, nullFlag |-> 0]
  <2> HIDE DEF S
  <2>1. L \in S
    BY <1>1, <1>8, <1>9, InductionOnSet
  <2> QED
    BY <1>1, <1>7, <2>1 DEF S
<1>11. CASE nullFlagColumn > 0
  <2>1. Descriptors = L + 1 /\ L + 1 \in 1..Descriptors /\ (L + 1) - 1 = L /\ ~(L + 1 <= L)
    BY <1>1, <1>11
  <2>2. read[L + 1] = NextColumn(read[L], DescriptorAt(s, L)[1])
    BY <1>3, <2>1
  <2>3. DescriptorAt(s, L)[1] = [kind |-> "nullFlag", part |-> 1, val |-> nullFlagColumn]
    BY <1>2, <2>1
  <2>4. NextColumn([columns |-> columns, nullFlag |-> 0],
                   [kind |-> "nullFlag", part |-> 1, val |-> nullFlagColumn])
            = [columns |-> columns, nullFlag |-> nullFlagColumn]
    BY DEF NextColumn
  <2> QED
    BY <1>10, <2>1, <2>2, <2>3, <2>4 DEF read
<1>12. CASE ~(nullFlagColumn > 0)
  <2>1. Descriptors = L /\ nullFlagColumn = 0
    BY <1>1, <1>12
  <2> QED
    BY <1>10, <2>1 DEF read
<1> QED
  BY <1>11, <1>12

LEMMA HeaderReads ==
    ASSUME NEW s, Sound(s), NEW count, Holds(s.data, 0, HeaderImage(count))
    PROVE  /\ HeaderOf(s).ok = TRUE
           /\ HeaderOf(s).val
                 = [firstRow |-> firstRow, rowLength |-> rowLength, rowsCount |-> count]
<1> DEFINE read == BytesAt(s, 0, HeaderBytes)
           val == [firstRow |-> firstRow, rowLength |-> rowLength, rowsCount |-> count]
<1>1. /\ HeaderBytes \in Nat /\ HeaderBytes > 0 /\ 0 \in Nat
      /\ 0 + HeaderBytes <= Len(s.data)
      /\ \A i \in 1..HeaderBytes : s.data[0 + i] = HeaderImage(count)[i]
  BY HeaderImageMeans DEF Holds
<1>2. read = [i \in 1..HeaderBytes |-> s.data[0 + i]] /\ Len(read) = HeaderBytes
  BY <1>1, BytesAtMeans
<1>3. ASSUME NEW i \in 1..HeaderBytes
      PROVE  read[i] = [kind |-> "header", part |-> i, val |-> val]
  BY <1>1, <1>2, HeaderImageMeans
<1> HIDE DEF read, val
<1>4. \A i \in 1..Len(read) : read[i] # Zero
  <2>1. ASSUME NEW i \in 1..HeaderBytes PROVE read[i] # Zero
    <3>1. read[i] = [kind |-> "header", part |-> i, val |-> val]
      BY <1>3
    <3>2. Zero.kind = "zero"
      BY SourceAssumption
    <3> QED
      BY <3>1, <3>2
  <2> QED
    BY <1>2, <2>1
<1>5. read # <<>> /\ read[1].val = val
  <2>1. 1 \in 1..HeaderBytes /\ Len(<<>>) = 0
    BY <1>1
  <2>2. read[1] = [kind |-> "header", part |-> 1, val |-> val]
    BY <1>3, <2>1
  <2> QED
    BY <1>1, <1>2, <2>1, <2>2
<1>6. HeaderOf(s) = [ok |-> Len(read) = HeaderBytes /\ \A i \in 1..Len(read) : read[i] # Zero,
                     val |-> IF read = <<>> THEN 0 ELSE read[1].val]
  BY DEF HeaderOf, read
<1> DEFINE good == Len(read) = HeaderBytes /\ \A i \in 1..Len(read) : read[i] # Zero
<1>7. good = TRUE
  BY <1>2, <1>4
<1>8. HeaderOf(s) = [ok |-> TRUE, val |-> val]
  BY <1>5, <1>6, <1>7, Zenon
<1>9. [ok |-> TRUE, val |-> val].ok = TRUE /\ [ok |-> TRUE, val |-> val].val = val
  OBVIOUS
<1> QED
  BY <1>8, <1>9 DEF val

\* A source is opened when the end of the columns was written, and what is read is
\* what was laid out, with a count of rows that its header holds.
LEMMA OpenReads ==
    ASSUME FileInv, NEW s, Sound(s), s.data = source.data
    PROVE  /\ OpenTable(s).ok = (Ends(s.data) # {})
           /\ Ends(s.data) # {} =>
                 \E count \in 0..rowsCount :
                     /\ Holds(s.data, 0, HeaderImage(count))
                     /\ OpenTable(s) =
                           [ok |-> TRUE,
                            header |-> [firstRow |-> firstRow, rowLength |-> rowLength,
                                        rowsCount |-> count],
                            columns |-> columns, nullFlag |-> nullFlagColumn]
<1>1. CASE Ends(s.data) = {}
  <2>1. ColumnEnds(s) = {}
    BY <1>1, ColumnEndsMean
  <2>2. OpenTable(s) = OpenFails
    BY <2>1, Zenon DEF OpenTable
  <2>3. OpenFails.ok = FALSE
    BY DEF OpenFails
  <2>4. (Ends(s.data) # {}) = FALSE
    BY <1>1
  <2> QED
    BY <1>1, <2>2, <2>3, <2>4, Zenon
<1>2. CASE Ends(s.data) # {}
  <2>1. /\ Ends(s.data) = {EndPlace + 1} /\ Len(columns) = declared
        /\ HasHeader(s.data) /\ Holds(s.data, DescriptorSize, AllDescriptors) /\ LayoutInv
    BY <1>2 DEF FileInv, EndPlaced
  <2>2. PICK count \in 0..rowsCount : Holds(s.data, 0, HeaderImage(count))
    BY <2>1 DEF HasHeader
  <2> DEFINE header == [firstRow |-> firstRow, rowLength |-> rowLength, rowsCount |-> count]
             opened == [ok |-> TRUE, header |-> header,
                        columns |-> columns, nullFlag |-> nullFlagColumn]
  <2>3. HeaderOf(s).ok = TRUE /\ HeaderOf(s).val = header
    BY <2>2, HeaderReads
  <2>4. Descriptors \in 0..MaxFieldsPerRecord+1 /\ Descriptors \in Nat
        /\ DescriptorSize \in Nat \ {0} /\ MaxFieldsPerRecord \in Nat
    BY <2>1, Places, LimitsAssumption
  <2>5. ASSUME NEW k \in 0..MaxFieldsPerRecord+1
        PROVE  DescriptorSize * (k + 1) = EndPlace <=> k = Descriptors
    <3> DEFINE a == k * DescriptorSize
               b == Descriptors * DescriptorSize
    <3>1. k \in Nat /\ Descriptors \in Nat
      BY <2>4
    <3>2. /\ a \in Nat /\ b \in Nat
          /\ k < Descriptors => a + DescriptorSize <= b
          /\ Descriptors < k => b + DescriptorSize <= a
      BY <2>4, <3>1, Multiples
    <3>3. DescriptorSize * (k + 1) = a + DescriptorSize /\ EndPlace = DescriptorSize + b
      BY <2>4, <3>1 DEF EndPlace
    <3>4. k = Descriptors => a = b
      OBVIOUS
    <3> HIDE DEF a, b
    <3> QED
      BY <2>4, <3>1, <3>2, <3>3, <3>4
  <2>6. ColumnEnds(s) = {Descriptors}
    <3>1. \A k \in ColumnEnds(s) : k \in 0..MaxFieldsPerRecord+1
      BY DEF ColumnEnds
    <3>2. ASSUME NEW k \in 0..MaxFieldsPerRecord+1
          PROVE  k \in ColumnEnds(s) <=> k = Descriptors
      <4>1. DescriptorSize * (k + 1) \in Nat
        <5>1. k + 1 \in Nat /\ DescriptorSize \in Nat
          BY <2>4
        <5>2. (k + 1) * DescriptorSize \in Nat
          BY <5>1, Multiples
        <5> QED
          BY <5>1, <5>2
      <4>2. EndPlace \in Nat
        BY <2>1, Places
      <4>3. DescriptorSize * (k + 1) + 1 = EndPlace + 1 <=> DescriptorSize * (k + 1) = EndPlace
        BY <4>1, <4>2
      <4> QED
        BY <2>1, <2>5, <4>3, ColumnEndsMean
    <3> QED
      BY <2>4, <3>1, <3>2
  <2>7. (CHOOSE k \in ColumnEnds(s) : \A l \in ColumnEnds(s) : k <= l) = Descriptors
    BY <2>4, <2>6
  <2>8. ColumnsRead(s, Descriptors)[Descriptors]
            = [columns |-> columns, nullFlag |-> nullFlagColumn]
    BY <2>1, ReadsColumns
  <2>9. OpenTable(s) = opened
    <3> DEFINE end == CHOOSE k \in ColumnEnds(s) : \A l \in ColumnEnds(s) : k <= l
               read == ColumnsRead(s, end)[end]
    <3>1. OpenTable(s) = [ok |-> TRUE, header |-> HeaderOf(s).val,
                          columns |-> read.columns, nullFlag |-> read.nullFlag]
      <4>1. ~(~HeaderOf(s).ok \/ ColumnEnds(s) = {})
        BY <2>3, <2>6
      <4> QED
        BY <4>1, Zenon DEF OpenTable
    <3>2. read.columns = columns /\ read.nullFlag = nullFlagColumn
      <4>1. read = [columns |-> columns, nullFlag |-> nullFlagColumn]
        BY <2>7, <2>8, Zenon
      <4> HIDE DEF read
      <4> QED
        BY <4>1
    <3> HIDE DEF read
    <3> QED
      BY <2>3, <3>1, <3>2, Zenon
  <2>10. opened.ok = TRUE
    OBVIOUS
  <2>11. (Ends(s.data) # {}) = TRUE
    BY <1>2
  <2> HIDE DEF opened
  <2>12. OpenTable(s).ok = (Ends(s.data) # {})
    BY <2>9, <2>10, <2>11, Zenon
  <2> QED
    BY <2>2, <2>9, <2>12, Zenon DEF opened
<1> QED
  BY <1>1, <1>2

LEMMA ReopenKeeps == ASSUME FileInv, Reopen PROVE FileInv'
<1> DEFINE s == SourceAgain
           opened == OpenTable(s)
           data == source.data
<1>1. /\ Sound(s) /\ s.data = data /\ s.memory = source.memory /\ source.memory \in BOOLEAN
  <2>1. Sound(source) /\ source.memory \in BOOLEAN /\ Len(data) \in Nat
        /\ data = [i \in 1..Len(data) |-> data[i]]
    BY DEF FileInv, Sound
  <2>2. CASE source.memory
    <3>1. s = [memory |-> TRUE, data |-> data, pos |-> 0, reader |-> [data |-> data, pos |-> 0]]
      BY <2>2, Zenon DEF SourceAgain, NewBytesReadWriteSeeker
    <3>2. Sound(s)
      <4> HIDE DEF s
      <4> QED
        BY <2>1, <3>1, SoundSources
    <3>3. s.data = data /\ s.memory = TRUE
      <4> HIDE DEF s, data
      <4> QED
        BY <3>1
    <3> QED
      BY <2>1, <2>2, <3>2, <3>3
  <2>3. CASE ~source.memory
    <3> DEFINE b == [memory |-> FALSE, data |-> data, pos |-> 0, reader |-> source.reader]
    <3>1. source.memory = FALSE
      BY <2>1, <2>3
    <3>2. s = b
      BY <2>3, <3>1, Zenon DEF SourceAgain, Seek
    <3>3. Sound(b) /\ b.data = data /\ b.memory = FALSE
      BY <2>1 DEF Sound
    <3> HIDE DEF s, b
    <3> QED
      BY <2>1, <3>1, <3>2, <3>3
  <2> QED
    BY <2>1, <2>2, <2>3
<1>2. /\ opened.ok /\ phase \in {"open", "refused"}
      /\ columns' = opened.columns /\ nullFlagColumn' = opened.nullFlag
      /\ firstRow' = opened.header.firstRow /\ rowLength' = opened.header.rowLength
      /\ rowsCount' = opened.header.rowsCount
      /\ phase' = "open" /\ isNew' = FALSE /\ source' = s
      /\ UNCHANGED <<declared, nullFlagBits, written, faults>>
  BY Zenon DEF Reopen
<1>3. /\ opened.ok = (Ends(data) # {})
      /\ Ends(data) # {} =>
            \E count \in 0..rowsCount :
                /\ Holds(data, 0, HeaderImage(count))
                /\ opened = [ok |-> TRUE,
                             header |-> [firstRow |-> firstRow, rowLength |-> rowLength,
                                         rowsCount |-> count],
                             columns |-> columns, nullFlag |-> nullFlagColumn]
  <2> HIDE DEF s
  <2>1. /\ OpenTable(s).ok = (Ends(s.data) # {})
        /\ Ends(s.data) # {} =>
              \E count \in 0..rowsCount :
                  /\ Holds(s.data, 0, HeaderImage(count))
                  /\ OpenTable(s) =
                        [ok |-> TRUE,
                         header |-> [firstRow |-> firstRow, rowLength |-> rowLength,
                                     rowsCount |-> count],
                         columns |-> columns, nullFlag |-> nullFlagColumn]
    BY <1>1, OpenReads
  <2> QED
    BY <1>1, <2>1, Zenon
<1>4. Ends(data) # {}
  BY <1>2, <1>3, Zenon
<1>5. PICK count \in 0..rowsCount :
          /\ Holds(data, 0, HeaderImage(count))
          /\ opened = [ok |-> TRUE,
                       header |-> [firstRow |-> firstRow, rowLength |-> rowLength,
                                   rowsCount |-> count],
                       columns |-> columns, nullFlag |-> nullFlagColumn]
  BY <1>3, <1>4, Zenon
<1> HIDE DEF opened, s
<1>6. /\ UNCHANGED <<declared, columns, nullFlagColumn, firstRow, rowLength>>
      /\ rowsCount' = count
  BY <1>2, <1>5
<1> DEFINE after == source'.data
<1>7. after = data /\ source'.memory = source.memory
  BY <1>1, <1>2
<1>8. /\ LayoutInv /\ rowsCount \in Nat /\ count \in Nat /\ count <= rowsCount
      /\ phase = "refused" => rowsCount = 0 /\ written = {}
      /\ faults \in Nat
  <2>1. /\ LayoutInv /\ rowsCount \in 0..MaxRecordsPerTable
        /\ phase # "open" => rowsCount = 0 /\ written = {}
        /\ faults \in Nat
    BY DEF FileInv, LayoutInv, TypeOK, PhasesPlaced
  <2> QED
    BY <2>1, LimitsAssumption
<1>9. /\ Ends(data) = {EndPlace + 1} /\ Len(columns) = declared
      /\ Holds(data, DescriptorSize, AllDescriptors) /\ Holds(data, EndPlace, ColumnEnd)
  BY <1>4 DEF FileInv, EndPlaced
<1>10. LayoutInv'
  <2>1. phase = "open" \/ rowsCount = 0
    BY <1>2, <1>8
  <2>2. ColumnsFollow' /\ RowAdds' /\ HeaderAdds'
    BY <1>2, <1>6, <1>8 DEF LayoutInv, ColumnsFollow, RowAdds, RowEnd, HeaderAdds,
                           HeaderDescriptors
  <2>3. TypeOK'
    <3>1. TypeOK /\ rowsCount' \in 0..MaxRecordsPerTable
      BY <1>6, <1>8, LimitsAssumption DEF LayoutInv, TypeOK
    <3>2. phase' \in Phases /\ nullFlagBits' = nullFlagBits
      BY <1>2 DEF Phases
    <3> QED
      BY <1>6, <3>1, <3>2 DEF TypeOK
  <2>4. RowsFitTheFile'
    <3>1. ASSUME count > 0 PROVE firstRow + count * rowLength <= MaxTableFileSize
      <4>1. phase = "open" /\ rowsCount > 0
        BY <1>8, <2>1, <3>1
      <4>2. firstRow + rowsCount * rowLength <= MaxTableFileSize
        BY <1>8, <4>1 DEF LayoutInv, RowsFitTheFile
      <4>3. firstRow \in Nat /\ rowLength \in Nat /\ MaxTableFileSize \in Nat
        BY <1>8, LimitsAssumption DEF LayoutInv, TypeOK
      <4>4. /\ count * rowLength \in Nat /\ rowsCount * rowLength \in Nat
            /\ count * rowLength <= rowsCount * rowLength
        BY <1>8, <4>3, Multiples
      <4> QED
        BY <4>2, <4>3, <4>4
    <3> QED
      BY <1>2, <1>6, <3>1 DEF RowsFitTheFile
  <2> QED
    BY <1>2, <2>2, <2>3, <2>4 DEF LayoutInv
<1>11. PhasesPlaced'
  BY <1>2, <1>6, <1>8, <1>9 DEF PhasesPlaced
<1>12. \E c \in 0..rowsCount' : Holds(after, 0, HeaderImage(c))
  <2>1. count \in 0..count
    BY <1>8
  <2> QED
    BY <1>5, <1>6, <1>7, <2>1
<1> HIDE DEF after, data
<1>13. after = source'.data
  BY DEF after
<1>14. HeaderWhole'
  BY <1>6, <1>12, <1>13, PlacedAfter
<1>15. EndPlaced'
  BY <1>2, <1>4, <1>6, <1>7, <1>9, <1>12, <1>13, PlacedAfter
<1>16. RowsPlaced'
  <2>1. ASSUME NEW slot \in written
        PROVE  /\ slot \in Nat
               /\ \E c \in slot+1..rowsCount' : Holds(after, 0, HeaderImage(c))
               /\ Holds(after, RowOffset(slot), Bytes("row", rowLength, slot))
    <3>1. /\ slot \in Nat
          /\ Holds(data, RowOffset(slot), Bytes("row", rowLength, slot))
      BY DEF FileInv, RowsPlaced, data
    <3>2. PICK c \in slot+1..rowsCount : Holds(data, 0, HeaderImage(c))
      BY DEF FileInv, RowsPlaced, data
    <3>3. c = count
      BY <1>5, <3>2, HeaderUnique
    <3>4. count \in slot+1..rowsCount'
      BY <1>6, <1>8, <3>1, <3>2, <3>3
    <3> QED
      BY <1>5, <1>7, <3>1, <3>4
  <2> QED
    BY <1>2, <1>6, <1>13, <2>1, PlacedAfter
<1>17. RowsComplete'
  <2> SUFFICES ASSUME faults' = 0
               PROVE  written' = 0..rowsCount'-1 /\ Holds(after, 0, HeaderImage(rowsCount'))
    BY <1>6, <1>13, PlacedAfter
  <2>1. CASE phase = "open"
    <3>1. written = 0..rowsCount-1 /\ Holds(data, 0, HeaderImage(rowsCount))
      BY <1>2, <2>1 DEF FileInv, RowsComplete, data
    <3>2. rowsCount = count
      BY <1>5, <3>1, HeaderUnique
    <3> QED
      BY <1>2, <1>5, <1>6, <1>7, <3>1, <3>2
  <2>2. CASE phase = "refused"
    <3>1. count = 0 /\ written = {}
      BY <1>8, <2>2
    <3> QED
      BY <1>2, <1>5, <1>6, <1>7, <3>1
  <2> QED
    BY <1>2, <2>1, <2>2
<1>18. MemoryLongEnough'
  <2>1. source'.memory => faults' = 0 /\ phase = "open" /\ RowOffset(rowsCount) <= Len(data)
    BY <1>2, <1>4, <1>7 DEF FileInv, MemoryLongEnough, data
  <2>2. /\ RowOffset(count) <= RowOffset(rowsCount) /\ RowOffset(count) \in Nat
        /\ RowOffset(rowsCount) \in Nat
    BY <1>8, RowPlaces
  <2>3. Len(data) \in Nat
    BY DEF FileInv, Sound, data
  <2>4. source'.memory => RowOffset(rowsCount') <= Len(after)
    BY <1>6, <1>7, <2>1, <2>2, <2>3
  <2> QED
    BY <1>2, <1>6, <1>13, <2>1, <2>4, PlacedAfter
<1>19. Sound(source)'
  BY <1>1, <1>2 DEF Sound
<1> QED
  BY <1>10, <1>11, <1>14, <1>15, <1>16, <1>17, <1>18, <1>19 DEF FileInv

-----------------------------------------------------------------------------
(* The theorems *)

LEMMA FileStep == FileInv /\ [TableNext]_tableVars => FileInv'
<1> SUFFICES ASSUME FileInv, [TableNext]_tableVars PROVE FileInv'
  OBVIOUS
<1>1. CASE LayOut
  BY <1>1, LayOutKeeps
<1>2. CASE CreateTable \/ CreateFails
  BY <1>2, CreateKeeps
<1>3. CASE \E whole \in BOOLEAN : StoreRow(whole)
  BY <1>3, StoreRowKeeps
<1>4. CASE \E whole \in BOOLEAN : RewriteColumns(whole)
  BY <1>4, RewriteColumnsKeeps
<1>5. CASE TableFull \/ UNCHANGED tableVars
  BY <1>5, TableFullKeeps DEF TableFull, RefuseRow, tableVars
<1>6. CASE Reopen
  BY <1>6, ReopenKeeps
<1> QED
  BY <1>1, <1>2, <1>3, <1>4, <1>5, <1>6 DEF TableNext

LEMMA FileInvariant == TableSpec => []FileInv
BY FileInit, FileStep, PTL DEF TableSpec

\* Header and row lengths fit their words in a table that is filled, cut short
\* and opened again, too.
THEOREM OpenedTypeCorrect == TableSpec => []TypeOK
<1>1. FileInv => TypeOK
  BY DEF FileInv, LayoutInv
<1> QED
  BY <1>1, FileInvariant, PTL

\* The columns that ReadColumns gives a table tile its row like those it was
\* created with.
THEOREM OpenedColumnsTile == TableSpec => []ColumnsTileTheRow
<1>1. FileInv => ColumnsTileTheRow
  BY DEF FileInv, LayoutInv, ColumnsFollow, RowAdds, RowEnd, ColumnsTileTheRow
<1> QED
  BY <1>1, FileInvariant, PTL

\* The rows a header counts end within the size limit whenever it is read.
THEOREM OpenedRowsFit == TableSpec => []RowsFitTheFile
<1>1. FileInv => RowsFitTheFile
  BY DEF FileInv, LayoutInv
<1> QED
  BY <1>1, FileInvariant, PTL

\* Whatever calls were cut short, a table that OpenTable accepts is the one
\* NewTable laid out, and a table that is open can be opened again.
THEOREM TablesOpenAsCreated == TableSpec => []OpensAsCreated
<1>1. ASSUME FileInv PROVE OpensAsCreated
  <2> DEFINE opened == OpenTable(source)
             data == source.data
  <2>1. Sound(source)
    BY <1>1 DEF FileInv
  <2>2. /\ opened.ok = (Ends(data) # {})
        /\ Ends(data) # {} =>
              \E count \in 0..rowsCount :
                  /\ Holds(data, 0, HeaderImage(count))
                  /\ opened = [ok |-> TRUE,
                               header |-> [firstRow |-> firstRow, rowLength |-> rowLength,
                                           rowsCount |-> count],
                               columns |-> columns, nullFlag |-> nullFlagColumn]
    BY <1>1, <2>1, OpenReads
  <2>3. phase = "open" => Ends(data) # {}
    BY <1>1 DEF FileInv, EndPlaced
  <2>4. rowsCount \in Nat
    BY <1>1, LimitsAssumption DEF FileInv, LayoutInv, TypeOK
  <2> HIDE DEF opened, data
  <2>5. ASSUME Ends(data) # {}
        PROVE  /\ opened.columns = columns /\ opened.nullFlag = nullFlagColumn
               /\ opened.header.firstRow = firstRow /\ opened.header.rowLength = rowLength
               /\ opened.header.rowsCount <= rowsCount
    <3>1. PICK count \in 0..rowsCount :
              opened = [ok |-> TRUE,
                        header |-> [firstRow |-> firstRow, rowLength |-> rowLength,
                                    rowsCount |-> count],
                        columns |-> columns, nullFlag |-> nullFlagColumn]
      BY <2>2, <2>5
    <3> QED
      BY <2>4, <3>1
  <2> QED
    BY <2>2, <2>3, <2>5, Zenon DEF OpensAsCreated, opened
<1> QED
  BY <1>1, FileInvariant, PTL

\* A row that WriteRow stored stays where ReadRow looks for it: no later write, of
\* this program or the next, comes over it, and the header counts it.
THEOREM StoredRowsStay == TableSpec => []RowsStayInPlace
<1>1. ASSUME FileInv PROVE RowsStayInPlace
  <2> DEFINE opened == OpenTable(source)
             data == source.data
  <2>1. Sound(source) /\ Len(data) \in Nat
    BY <1>1 DEF FileInv, Sound
  <2>2. faults = 0 => written = 0..rowsCount-1
    <3>1. phase # "open" => rowsCount = 0 /\ written = {} /\ 0..rowsCount-1 = {}
      BY <1>1 DEF FileInv, PhasesPlaced
    <3> QED
      BY <1>1, <3>1 DEF FileInv, RowsComplete
  <2>3. ASSUME NEW slot \in written
        PROVE  /\ opened.ok /\ slot < opened.header.rowsCount
               /\ BytesAt(source, RowOffset(slot), rowLength) = Bytes("row", rowLength, slot)
    <3>1. PICK c \in slot+1..rowsCount : Holds(data, 0, HeaderImage(c))
      BY <1>1 DEF FileInv, RowsPlaced
    <3>2. /\ slot \in Nat /\ rowsCount \in Nat /\ rowLength \in Nat /\ LayoutInv
          /\ Holds(data, RowOffset(slot), Bytes("row", rowLength, slot))
      BY <1>1, LimitsAssumption DEF FileInv, RowsPlaced, LayoutInv, TypeOK
    <3>3. Ends(data) # {}
      BY <1>1 DEF FileInv, PhasesPlaced, EndPlaced
    <3>4. PICK count \in 0..rowsCount :
              /\ Holds(data, 0, HeaderImage(count))
              /\ opened = [ok |-> TRUE,
                           header |-> [firstRow |-> firstRow, rowLength |-> rowLength,
                                       rowsCount |-> count],
                           columns |-> columns, nullFlag |-> nullFlagColumn]
      BY <1>1, <2>1, <3>3, OpenReads
    <3>5. c = count
      BY <3>1, <3>4, HeaderUnique
    <3> HIDE DEF opened
    <3>6. opened.header.rowsCount = count /\ opened.ok = TRUE
      BY <3>4
    <3>7. slot < count
      BY <3>1, <3>2, <3>5
    <3>8. BytesAt(source, RowOffset(slot), rowLength) = Bytes("row", rowLength, slot)
      <4> DEFINE at == RowOffset(slot)
                 row == Bytes("row", rowLength, slot)
      <4>1. /\ at \in Nat /\ Len(row) = rowLength /\ DOMAIN row = 1..rowLength
            /\ row = [i \in 1..rowLength |-> row[i]]
        BY <3>2, RowPlaces, RowBytes DEF Bytes
      <4> HIDE DEF at, row
      <4>2. /\ at + rowLength <= Len(data)
            /\ \A i \in 1..rowLength : data[at + i] = row[i]
        BY <3>2, <4>1 DEF Holds, at, row
      <4>3. BytesAt(source, at, rowLength) = [i \in 1..rowLength |-> data[at + i]]
        BY <2>1, <3>2, <4>1, <4>2, BytesAtMeans
      <4>4. BytesAt(source, at, rowLength) = row
        BY <4>1, <4>2, <4>3
      <4> QED
        BY <4>4 DEF at, row
    <3> QED
      BY <3>6, <3>7, <3>8
  <2> QED
    BY <2>2, <2>3 DEF RowsStayInPlace
<1> QED
  BY <1>1, FileInvariant, PTL
=============================================================================
