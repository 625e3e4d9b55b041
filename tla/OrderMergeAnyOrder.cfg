\* One connection, as db.Open configures the pool for SQLite; no start date.
SPECIFICATION Spec
CONSTANTS
    o1 = o1
    o2 = o2
    a = a
    b = b
    c = c
    NoOrder = NoOrder
    NoRow = NoRow
    Imports = {i1, i2}
    Orders <- MCOrders
    Contents <- MCContents
    Files <- MCFiles
    BatchSize = 2
    MinCreated = 0
    MaxConns = 1
INVARIANT CreationTimeKept
CHECK_DEADLOCK FALSE
