------------------------------ MODULE TableFile ------------------------------
(***************************************************************************)
(* The bytes of a table: NewTable (TableLayout) creates it in a file or in *)
(* a BytesReadWriteSeeker, WriteRow and Increment write into it, and       *)
(* OpenTable reads it back.  Every call is a chain of writes of which a    *)
(* prefix is made when a system call fails or the program dies.            *)
(***************************************************************************)
EXTENDS TableLayout, BytesReadWriteSeeker

CONSTANTS
    HeaderBytes,    \* 30: the header ends before the first descriptor
    Preallocated,   \* how many zeros an in-memory source may start with
    MaxFaults       \* how many calls may be cut short

ASSUME SourceAssumption ==
    /\ HeaderBytes \in 1..DescriptorSize-1
    /\ Preallocated \subseteq Nat /\ MaxFaults \in Nat
    /\ Zero.kind = "zero"

VARIABLES
    source,     \* file.handle
    isNew,      \* file.isNew: the table was made by this File
    written,    \* the slots whose WriteRow returned without an error
    faults      \* how many calls were cut short

fileVars == <<source, isNew, written, faults>>
tableVars == <<vars, fileVars>>

-----------------------------------------------------------------------------
(* What is written *)

\* Bytes are tagged with what they are a part of and which part.
Bytes(kind, n, value) == [i \in 1..n |-> [kind |-> kind, part |-> i, val |-> value]]

HeaderImage(count) ==
    Bytes("header", HeaderBytes,
          [firstRow |-> firstRow, rowLength |-> rowLength, rowsCount |-> count])

\* The null flag column comes after the others.
Descriptor(k) ==
    IF k <= Len(columns) THEN Bytes("column", DescriptorSize, columns[k])
    ELSE Bytes("nullFlag", DescriptorSize, nullFlagColumn)

AllDescriptors ==
    [i \in 1..Descriptors * DescriptorSize |->
        LET before == (i - 1) \div DescriptorSize
        IN  Descriptor(before + 1)[i - before * DescriptorSize]]

ColumnEnd == Bytes("columnEnd", 1, 0)

At(offset, image) == [at |-> offset, image |-> image]

WriteHeaderChain(count) == <<At(0, HeaderImage(count))>>

\* The padding is written only by the File that made the table.
WriteColumnsChain(new) ==
    LET end == DescriptorSize + Len(AllDescriptors)
    IN  <<At(DescriptorSize, AllDescriptors), At(end, ColumnEnd)>>
        \o (IF new THEN <<At(end + 1, Zeros(Padding))>> ELSE <<>>)

RowOffset(slot) == firstRow + slot * rowLength

WriteRowChain(slot) ==
    Append(WriteHeaderChain(slot + 1), At(RowOffset(slot), Bytes("row", rowLength, slot)))

\* The source after the first n writes, up to the first that is refused.
AfterWrites(s, chain) ==
    LET done[n \in 0..Len(chain)] ==
            IF n = 0 THEN [source |-> s, ok |-> TRUE]
            ELSE IF ~done[n-1].ok THEN done[n-1]
            ELSE Write(Seek(done[n-1].source, chain[n].at), chain[n].image)
    IN  done

\* The chain is written whole, or a system call on a file fails and ends it.
Perform(chain, whole) ==
    \E n \in 0..Len(chain) :
        LET after == AfterWrites(source, chain)[n]
        IN  /\ n < Len(chain) => ~source.memory /\ faults < MaxFaults
            /\ whole = (after.ok /\ n = Len(chain))
            /\ source' = after.source
            /\ faults' = IF n < Len(chain) THEN faults + 1 ELSE faults

-----------------------------------------------------------------------------
(* What is read *)

HeaderOf(s) ==
    LET read == BytesAt(s, 0, HeaderBytes)
    IN  [ok |-> Len(read) = HeaderBytes /\ \A i \in 1..Len(read) : read[i] # Zero,
         val |-> IF read = <<>> THEN 0 ELSE read[1].val]

DescriptorAt(s, k) == BytesAt(s, DescriptorSize * (k + 1), DescriptorSize)

\* The columns end at the first descriptor place that starts with ColumnEnd:
\* MaxFieldsPerRecord columns and the null flag column can be before it.
ColumnEnds(s) ==
    {k \in 0..MaxFieldsPerRecord+1 :
        DescriptorAt(s, k) # <<>> /\ DescriptorAt(s, k)[1].kind = "columnEnd"}

\* What ReadColumns has after the first k descriptors.
ColumnsRead(s, end) ==
    LET read[k \in 0..end] ==
            IF k = 0 THEN [columns |-> <<>>, nullFlag |-> 0]
            ELSE LET cell == DescriptorAt(s, k - 1)[1]
                 IN  IF cell.kind = "nullFlag" THEN [read[k-1] EXCEPT !.nullFlag = cell.val]
                     ELSE [read[k-1] EXCEPT !.columns = Append(@, cell.val)]
    IN  read

OpenFails == [ok |-> FALSE]

\* ReadHeader and ReadColumns.  A header of zeros is of no valid version; a
\* descriptor that ends with the source is an error.
OpenTable(s) ==
    IF ~HeaderOf(s).ok \/ ColumnEnds(s) = {} THEN OpenFails
    ELSE LET end == CHOOSE k \in ColumnEnds(s) : \A l \in ColumnEnds(s) : k <= l
             read == ColumnsRead(s, end)[end]
         IN  [ok |-> TRUE, header |-> HeaderOf(s).val,
              columns |-> read.columns, nullFlag |-> read.nullFlag]

-----------------------------------------------------------------------------
TableInit ==
    /\ Init
    /\ source \in {NewFile} \cup {NewBytesReadWriteSeeker(Zeros(n)) : n \in Preallocated}
    /\ isNew = FALSE
    /\ written = {}
    /\ faults = 0

\* The steps of NewTable that only compute.
LayOut ==
    /\ \/ \E length \in Lengths, variable, nullable \in BOOLEAN :
             TakeColumn(length, variable, nullable)
       \/ \E length \in Lengths : RefuseColumn(length)
       \/ AddNullFlagColumn
       \/ NeedNoNullFlagColumn
    /\ UNCHANGED fileVars

CreateChain == WriteHeaderChain(rowsCount) \o WriteColumnsChain(TRUE)

\* Init: Create, WriteHeader, WriteColumns.
CreateTable ==
    /\ Created
    /\ Perform(CreateChain, TRUE)
    /\ isNew' = TRUE
    /\ UNCHANGED written

\* NewTable returns the error and no File; what was written stays.
CreateFails ==
    /\ phase = "write"
    /\ Perform(CreateChain, FALSE)
    /\ phase' = "refused"
    /\ UNCHANGED <<declared, columns, firstRow, rowLength, nullFlagBits, nullFlagColumn,
                   rowsCount, isNew, written>>

\* WriteRow of a new row.  Its failure leaves the row counted.
StoreRow(whole) ==
    /\ AppendRow
    /\ Perform(WriteRowChain(rowsCount), whole)
    /\ written' = IF whole THEN written \cup {rowsCount} ELSE written
    /\ UNCHANGED isNew

\* The limits refuse the row before anything is written.
TableFull == RefuseRow /\ UNCHANGED fileVars

\* Increment writes the columns again, whether it succeeds or not.
RewriteColumns(whole) ==
    /\ phase = "open"
    /\ Perform(WriteColumnsChain(isNew), whole)
    /\ UNCHANGED <<vars, isNew, written>>

\* A file is opened anew, the bytes of an in-memory source (Data) are copied
\* into another one.
SourceAgain ==
    IF source.memory THEN NewBytesReadWriteSeeker(source.data) ELSE Seek(source, 0)

\* The program starts again, or the client opens the table a second time and
\* gives the first File up.  What was created as far as ColumnEnd opens.
Reopen ==
    LET opened == OpenTable(SourceAgain)
    IN  /\ phase \in {"open", "refused"} /\ opened.ok
        /\ columns' = opened.columns
        /\ nullFlagColumn' = opened.nullFlag
        /\ firstRow' = opened.header.firstRow
        /\ rowLength' = opened.header.rowLength
        /\ rowsCount' = opened.header.rowsCount
        /\ phase' = "open"
        /\ isNew' = FALSE
        /\ source' = SourceAgain
        /\ UNCHANGED <<declared, nullFlagBits, written, faults>>

TableNext ==
    \/ LayOut
    \/ CreateTable
    \/ CreateFails
    \/ \E whole \in BOOLEAN : StoreRow(whole) \/ RewriteColumns(whole)
    \/ TableFull
    \/ Reopen

TableSpec == TableInit /\ [][TableNext]_tableVars

-----------------------------------------------------------------------------
(* Properties *)

\* Whatever was cut short, a table that OpenTable accepts has the columns, the
\* null flag column and the row layout NewTable laid out, and a table that is
\* open can be opened again.
OpensAsCreated ==
    LET opened == OpenTable(source)
    IN  /\ opened.ok =>
              /\ opened.columns = columns /\ opened.nullFlag = nullFlagColumn
              /\ opened.header.firstRow = firstRow /\ opened.header.rowLength = rowLength
              /\ opened.header.rowsCount <= rowsCount
        /\ phase = "open" => opened.ok

\* A row whose WriteRow succeeded stays where ReadRow looks for it: neither
\* other rows, nor the header, nor columns and padding that Increment writes
\* again, in this program or a later one, come over it.  Without a call cut
\* short every counted row is such a row.
RowsStayInPlace ==
    /\ faults = 0 => written = 0..rowsCount-1
    /\ \A slot \in written :
          /\ OpenTable(source).ok /\ slot < OpenTable(source).header.rowsCount
          /\ BytesAt(source, RowOffset(slot), rowLength) = Bytes("row", rowLength, slot)
=============================================================================
