\* One goroutine is alone on the table and makes rows from maps; calls fail and the
\* program dies.
CONSTANTS
    p1 = p1
    a = a
    b = b
    Free = Free
    Blank = Blank
    Procs = {p1}
    Unlocked = {p1}
    Values = {a, b}
    RowLimit = 2
    StartRows = 0
    Rewrites = TRUE
    IOFaults = TRUE
    Restarts = TRUE
    Step = 1
    NoValue <- MCNoValue
    MaxNext = 3
SPECIFICATION IncrementSpec
INVARIANTS
    ValuesAreFresh
PROPERTIES
    ImplementsTable
