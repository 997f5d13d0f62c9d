\* One goroutine stores rows while another fetches them or builds them from maps.
CONSTANTS
    p1 = p1
    p2 = p2
    a = a
    b = b
    Free = Free
    Blank = Blank
    Procs = {p1, p2}
    Unlocked = {p2}
    Values = {a, b}
    RowLimit = 3
    StartRows = 1
    Rewrites = FALSE
    IOFaults = FALSE
    Restarts = FALSE
SPECIFICATION Spec
INVARIANT TransfersHitTheirPlace
