\* What the comment of Skip says of the row pointer.
CONSTANTS
    RowLimit = 3
    Contents <- MCContents
    Offsets <- MCOffsets
    Word32 = 5
SPECIFICATION Spec
INVARIANT PointerStaysInTable
