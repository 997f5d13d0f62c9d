\* Two goroutines write memos to three blocks behind the header and rewrite them,
\* with longer ones, too; one of them also calls ToBytes itself.  Calls fail and the
\* program dies.
CONSTANTS
    p1 = p1
    p2 = p2
    f1 = f1
    short = short
    long = long
    Free = Free
    NoMemo = NoMemo
    Procs = {p1, p2}
    Converters = {p2}
    Fields = {f1}
    Memos = {short, long}
    Size <- MCSize
    MaxSize = 3
    HeaderUnits = 4
    BlockUnits = 2
    StartFree = 2
    BlockLimit = 5
    MayGrow = TRUE
    Faults = TRUE
SPECIFICATION FairSpec
INVARIANTS
    TypeOK
    BlocksDisjoint
    MemosKept
    SavedMemosRead
    DiskCoversMemos
PROPERTIES
    NeverReallocated
    EveryCallReturns
