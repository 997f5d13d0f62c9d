\* Two programs write two rows, two memo blocks and the columns; calls fail and programs exit.
CONSTANTS
    p1 = p1
    p2 = p2
    Programs = {p1, p2}
    Slots = {0, 1}
    Blocks = {1, 4}
    FirstRow = 4
    ColumnsAt = 2
    RowLength = 2
    BlockSize = 2
    Word32 = 64
    Faults = TRUE
    MaxStuck = 1
SPECIFICATION FairSpec
INVARIANTS
    OneWriterPerPlace
    OnlyTheWrittenIsLocked
PROPERTIES
    EveryWriteReturns
