---------------------------- MODULE TableLayout ----------------------------
(***************************************************************************)
(* The arithmetic of a table file: NewTable lays the columns out in the    *)
(* row and the descriptors in the header, and WriteRow counts rows up to   *)
(* the limits.  Header.FirstRow and RowLength are uint16, RowsCount is     *)
(* uint32, and FileSize multiplies in uint32: every such sum and product   *)
(* is taken modulo Word16 or Word32.                                       *)
(***************************************************************************)
EXTENDS Integers, Sequences

CONSTANTS
    FixedHeader,        \* 296: the header and what follows the descriptors
    DescriptorSize,     \* 32: a column descriptor, and where the first one is
    MaxFieldsPerRecord, MaxCharactersPerRecord,
    MaxTableFileSize, MaxRecordsPerTable,
    Lengths,            \* the lengths columns can have (Column.Length, uint8)
    MaxLength,          \* the largest of them
    Word16, Word32      \* 2^16 and 2^32

ASSUME LengthsAssumption ==
    /\ MaxLength \in Nat
    /\ Lengths \subseteq 1..MaxLength
ASSUME LimitsAssumption ==
    /\ DescriptorSize \in Nat \ {0} /\ FixedHeader \in Nat
    /\ MaxFieldsPerRecord \in Nat \ {0} /\ MaxCharactersPerRecord \in Nat
    /\ MaxTableFileSize \in Nat /\ MaxRecordsPerTable \in Nat
    /\ Word16 \in Nat \ {0} /\ Word32 \in Nat \ {0}
    /\ DescriptorSize + 1 <= FixedHeader

\* What the real numbers satisfy: 296 + 256 * 32 and 1 + 255 * 256 are below
\* 2^16, and 2^31 + 2^16 is at most 2^32.
ASSUME WordAssumption ==
    /\ FixedHeader + (MaxFieldsPerRecord + 1) * DescriptorSize < Word16
    /\ 1 + MaxFieldsPerRecord * (MaxLength + 1) < Word16
    /\ MaxTableFileSize + Word16 <= Word32

VARIABLES
    declared,       \* how many columns NewTable was given
    columns,        \* file.table.columns
    firstRow,       \* header.FirstRow
    rowLength,      \* header.RowLength
    nullFlagBits,   \* nullFlagLength while the columns are taken in
    nullFlagColumn, \* length of the null flag column, 0 for none
    rowsCount,      \* header.RowsCount
    phase

vars == <<declared, columns, firstRow, rowLength, nullFlagBits, nullFlagColumn,
          rowsCount, phase>>

Columns == [length : Lengths, variable : BOOLEAN, nullable : BOOLEAN, position : Nat]
Phases == {"columns", "nullFlag", "write", "open", "refused"}

TypeOK ==
    /\ declared \in 1..MaxFieldsPerRecord
    /\ columns \in Seq(Columns) /\ Len(columns) <= declared
    /\ firstRow \in 0..Word16-1 /\ rowLength \in 0..Word16-1
    /\ nullFlagBits \in 0..(2 * MaxFieldsPerRecord)
    /\ nullFlagColumn \in Nat
    /\ rowsCount \in 0..MaxRecordsPerTable
    /\ phase \in Phases

Init ==
    /\ declared \in 1..MaxFieldsPerRecord
    /\ columns = <<>>
    /\ firstRow = (FixedHeader + declared * DescriptorSize) % Word16
    /\ rowLength = 1
    /\ nullFlagBits = 0
    /\ nullFlagColumn = 0
    /\ rowsCount = 0
    /\ phase = "columns"

-----------------------------------------------------------------------------
(* NewTable *)

\* Mutant: the column is placed where the row ends with it.
PositionAfter(length) == (rowLength + length) % Word16

PositionOf(length) == rowLength

LengthWith(length) == (rowLength + length) % Word16

TakeColumn(length, variable, nullable) ==
    /\ phase = "columns" /\ Len(columns) < declared
    /\ LengthWith(length) <= MaxCharactersPerRecord
    /\ columns' = Append(columns, [length |-> length, variable |-> variable,
                                   nullable |-> nullable,
                                   position |-> PositionOf(length)])
    /\ rowLength' = LengthWith(length)
    /\ nullFlagBits' = nullFlagBits + (IF variable THEN IF nullable THEN 2 ELSE 1 ELSE 0)
    /\ phase' = IF Len(columns) + 1 = declared THEN "nullFlag" ELSE "columns"
    /\ UNCHANGED <<declared, firstRow, nullFlagColumn, rowsCount>>

RefuseColumn(length) ==
    /\ phase = "columns" /\ Len(columns) < declared
    /\ LengthWith(length) > MaxCharactersPerRecord
    /\ phase' = "refused"
    /\ UNCHANGED <<declared, columns, firstRow, rowLength, nullFlagBits, nullFlagColumn,
                   rowsCount>>

NullFlagBytes == nullFlagBits \div 8 + (IF nullFlagBits % 8 > 0 THEN 1 ELSE 0)

FirstRowWithNullFlag == (firstRow + DescriptorSize) % Word16

AddNullFlagColumn ==
    /\ phase = "nullFlag" /\ nullFlagBits > 0
    /\ nullFlagColumn' = NullFlagBytes
    /\ firstRow' = FirstRowWithNullFlag
    /\ rowLength' = LengthWith(NullFlagBytes)
    /\ phase' = IF LengthWith(NullFlagBytes) > MaxCharactersPerRecord
                THEN "refused" ELSE "write"
    /\ UNCHANGED <<declared, columns, nullFlagBits, rowsCount>>

NeedNoNullFlagColumn ==
    /\ phase = "nullFlag" /\ nullFlagBits = 0
    /\ phase' = "write"
    /\ UNCHANGED <<declared, columns, firstRow, rowLength, nullFlagBits, nullFlagColumn,
                   rowsCount>>

Descriptors == Len(columns) + (IF nullFlagColumn > 0 THEN 1 ELSE 0)

\* Mutant: the null flag column is not taken off the padding.
PaddingOfColumns == (firstRow - Len(columns) * DescriptorSize - (DescriptorSize + 1)) % Word16

\* The zeros WriteColumns writes after the terminator of a new table.
Padding == (firstRow - Descriptors * DescriptorSize - (DescriptorSize + 1)) % Word16

\* NewTable has its File: descriptors from DescriptorSize on, the terminator
\* and the padding are written.
Created ==
    /\ phase = "write"
    /\ phase' = "open"
    /\ UNCHANGED <<declared, columns, firstRow, rowLength, nullFlagBits, nullFlagColumn,
                   rowsCount>>

-----------------------------------------------------------------------------
(* WriteRow, counting an appended row *)

ColumnsCount == ((firstRow - FixedHeader) % Word16) \div DescriptorSize

FileSize(rows) ==
    FixedHeader + ((ColumnsCount * DescriptorSize) % Word16) + ((rows * rowLength) % Word32)

\* Mutant: the size is checked before the row is counted.
SizeBeforeRow(rows) == FileSize(rows - 1) <= MaxTableFileSize

SizeAllowed(rows) == FileSize(rows) <= MaxTableFileSize

\* Mutant: the last allowed record is not the last one.
OneRecordMore == rowsCount <= MaxRecordsPerTable

RecordAllowed == rowsCount < MaxRecordsPerTable

AppendRow ==
    /\ phase = "open"
    /\ RecordAllowed
    /\ SizeAllowed(rowsCount + 1)
    /\ rowsCount' = rowsCount + 1
    /\ UNCHANGED <<declared, columns, firstRow, rowLength, nullFlagBits, nullFlagColumn,
                   phase>>

\* Past a limit the count is taken back and nothing is written.
RefuseRow ==
    /\ phase = "open"
    /\ ~RecordAllowed \/ ~SizeAllowed(rowsCount + 1)
    /\ UNCHANGED vars

Next ==
    \/ \E length \in Lengths, variable, nullable \in BOOLEAN :
          TakeColumn(length, variable, nullable)
    \/ \E length \in Lengths : RefuseColumn(length)
    \/ AddNullFlagColumn
    \/ NeedNoNullFlagColumn
    \/ Created
    \/ AppendRow
    \/ RefuseRow

Spec == Init /\ [][Next]_vars

-----------------------------------------------------------------------------
(* Properties *)

\* A column's bytes follow those of the column before it: positions, which
\* Search reads at, are the running offsets ToBytes and BytesToRow use, and the
\* row ends with the last column or the null flags, so no uint16 sum wrapped.
ColumnsTileTheRow ==
    LET last == columns[Len(columns)]
    IN  /\ \A i \in 1..Len(columns) :
              columns[i].position =
                  IF i = 1 THEN 1 ELSE columns[i-1].position + columns[i-1].length
        /\ columns # <<>> => rowLength = last.position + last.length + nullFlagColumn

\* The rows end within the size limit in unbounded arithmetic: FileSize, which
\* the code computes in uint32, never wrapped below it.
RowsFitTheFile ==
    phase = "open" /\ rowsCount > 0 => firstRow + rowsCount * rowLength <= MaxTableFileSize
=============================================================================
