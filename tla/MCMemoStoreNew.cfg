\* The memo file of a table made by NewTable: NextFree starts at 0.
CONSTANTS
    p1 = p1
    p2 = p2
    f1 = f1
    short = short
    long = long
    Free = Free
    NoMemo = NoMemo
    Procs = {p1, p2}
    Converters = {p2}
    Fields = {f1}
    Memos = {short, long}
    Size <- MCSize
    MaxSize = 3
    HeaderUnits = 4
    BlockUnits = 2
    StartFree = 0
    BlockLimit = 5
    MayGrow = FALSE
    Faults = FALSE
SPECIFICATION Spec
INVARIANT SavedMemosRead
