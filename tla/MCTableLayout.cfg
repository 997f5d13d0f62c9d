\* Tables of up to three columns, created in a file or in memory, filled up to
\* the size limit, written with failures and opened again.
CONSTANTS
    FixedHeader = 10
    DescriptorSize = 4
    MaxFieldsPerRecord = 3
    MaxCharactersPerRecord = 12
    MaxTableFileSize = 60
    MaxRecordsPerTable = 8
    Lengths = {1, 4}
    MaxLength = 4
    Word16 = 40
    Word32 = 128
    HeaderBytes = 3
    Preallocated = {0, 4, 25}
    MaxFaults = 1
    Zero <- MCZero
SPECIFICATION TableSpec
INVARIANTS
    TypeOK
    ColumnsTileTheRow
    OpensAsCreated
    RowsStayInPlace
    RowsFitTheFile
CHECK_DEADLOCK FALSE
