\* Any three orders, two commits of another process, one failure.
SPECIFICATION FairSpec
CONSTANTS
    NoRow = NoRow
    Orders = {o1, o2, o3}
    Versions = {v1, v2}
    Expected = 2
    MaxWrites = 2
    MaxStops = 1
INVARIANTS TypeOK ItemsFollow
PROPERTIES PurgedIsBackedUp AllExpectedOrNone StartsClean ServesInTheEnd
CHECK_DEADLOCK FALSE
