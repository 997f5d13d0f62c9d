\* Two goroutines append a row each; every call succeeds.
CONSTANTS
    p1 = p1
    p2 = p2
    a = a
    b = b
    Free = Free
    Blank = Blank
    Procs = {p1, p2}
    Unlocked = {}
    Values = {a, b}
    RowLimit = 3
    StartRows = 1
    Rewrites = FALSE
    IOFaults = FALSE
    Restarts = FALSE
SPECIFICATION Spec
INVARIANT AppendFillsFreeSlot
