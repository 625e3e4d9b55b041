\* Several connections: PostgreSQL, merges interleave; a start date is configured.
SPECIFICATION FairSpec
CONSTANTS
    o1 = o1
    o2 = o2
    a = a
    b = b
    c = c
    NoOrder = NoOrder
    NoRow = NoRow
    Imports = {i1, i2, i3}
    Orders <- MCOrders
    Contents <- MCContents
    Files <- MCFiles
    BatchSize = 2
    MinCreated = 2
    MaxConns = 2
PROPERTIES ImplementsOrderStore ImportsEnd
CHECK_DEADLOCK FALSE
