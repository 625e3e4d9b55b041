\* One connection, as db.Open configures the pool for SQLite; no start date.
SPECIFICATION Spec
CONSTANTS
    o1 = o1
    o2 = o2
    a = a
    b = b
    c = c
    NoOrder = NoOrder
    NoRow = NoRow
    Imports = {i1, i2, i3}
    Orders <- MCOrders
    Contents <- MCContents
    Files <- MCFiles
    BatchSize = 2
    MinCreated = 0
    MaxConns = 1
SYMMETRY Symmetry
INVARIANTS TypeOK ItemsMatchOrder NewestSnapshotWins
PROPERTIES NeverRegress AbsentOrdersUntouched JournalAddsUp ImplementsOrderStore ReimportIsIdempotent
CHECK_DEADLOCK FALSE
