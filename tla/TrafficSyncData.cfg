\* The timer alone, one source in chunks: days pass, an outage longer than the
\* lookback, a late correction, faults and a deployment with another revision.
SPECIFICATION FairSpec
CONSTANTS
    metrika = metrika
    appmetrica = appmetrica
    SourceList <- AppOnly
    Versioned <- WithRevision
    ChunkDays <- Chunks
    Requests = {}
    Scheduler = scheduler
    Lookback = 2
    Backfill = 3
    Figures = {zero, some}
    Zero = zero
    NoRow = NoRow
    FirstToday = 4
    LastToday = 7
    MaxFaults = 2
    MaxCorrections = 1
    Rollbacks = FALSE
INVARIANTS TypeOK ClosedDaysOnly SuccessIsComplete GapsOnlyByOutage RevisionApplied
PROPERTIES StoredForGood CatchesUp
