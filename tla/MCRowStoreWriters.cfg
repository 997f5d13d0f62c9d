\* Two goroutines store rows, none fetches; calls fail and the program dies.
CONSTANTS
    p1 = p1
    p2 = p2
    a = a
    b = b
    Free = Free
    Blank = Blank
    Procs = {p1, p2}
    Unlocked = {}
    Values = {a}
    RowLimit = 3
    StartRows = 1
    Rewrites = TRUE
    IOFaults = TRUE
    Restarts = TRUE
SPECIFICATION FairSpec
INVARIANTS
    TypeOK
    TransfersHitTheirPlace
    RowsAreCounted
    CountsAgree
PROPERTIES
    StoredRowsStay
    EveryWriteReturns
