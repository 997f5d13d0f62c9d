\* A Database and a table of the client's own on UnixIO, in a process with six handles.
CONSTANTS
    dbc = dbc
    orders = orders
    items = items
    other = other
    blank = blank
    Container = dbc
    Names = {orders, items}
    Other = other
    Blank = blank
    Lists <- MCLists
    HasMemo = {dbc, orders}
    MaxHandles = 6
    RemembersClose = TRUE
    Faults = TRUE
SPECIFICATION Spec
INVARIANTS
    TypeOK
    HandlesBelong
    NoSilentLeak
    DatabaseComplete
PROPERTIES
    ClosedMeansClosed
