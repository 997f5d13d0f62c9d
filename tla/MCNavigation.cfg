\* One goroutine moves about the table and runs its loops while another appends.
CONSTANTS
    RowLimit = 3
    Contents <- MCContents
    Offsets <- MCOffsets
    Word32 = 5
SPECIFICATION FairSpec
INVARIANTS
    TypeOK
    RowsCollectsInOrder
PROPERTIES
    RowsReachesTheEnd
    SearchFindsAll
    EveryLoopReturns
