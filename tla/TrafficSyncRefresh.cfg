\* The timer and two manual refreshes over two sources: who may sync.
SPECIFICATION FairSpec
CONSTANTS
    metrika = metrika
    appmetrica = appmetrica
    SourceList <- BothSources
    Versioned <- WithRevision
    ChunkDays <- Chunks
    Requests = {r1, r2}
    Scheduler = scheduler
    Lookback = 1
    Backfill = 1
    Figures = {zero}
    Zero = zero
    NoRow = NoRow
    FirstToday = 2
    LastToday = 2
    MaxFaults = 1
    MaxCorrections = 0
    Rollbacks = FALSE
INVARIANTS OneSync RefreshSeesItsSync
PROPERTY SyncEnds
