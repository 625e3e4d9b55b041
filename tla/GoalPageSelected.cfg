\* A target is saved, another year is selected before its answer arrives.
SPECIFICATION Spec
CONSTANTS
    NoRow = NoRow
    Limits <- MCLimits
    Today = 13
    DaysPerWeek = 2
    DaysPerMonth = 4
    MonthsPerYear = 2
    Orders = {"n1", "n2", "n3", "n4"}
    NoOrder = "none"
    Imports = {"old"}
    LegacyImport = "old"
    MinCreated = 2
    Codes = {"[s2]"}
    Genders <- MCGenders
    ShortWords = {"m", "men"}
    DateLayouts = {"iso"}
    Longer <- MCLonger
    PilotCities = {"moscow"}
    Sources = {"metrika", "appmetrica"}
    HistoryDays = 5
    Quarter = 2
    Years = {1, 2}
    EcomSources <- MCEcomSources
    ChannelOf <- MCChannelOf
    Reported <- MCReported
    Revision <- MCRevision
    Lookback = 1
    Backfill = 2
    MaxRuns = 0
    Totals = {9}
    MaxLoads = 2
    MaxSaves = 2
    Documents <- MCDocuments
    Grids <- MCGrids
    Legacies = {"none", "first"}
    Batches <- NoBatches
    PlanEdits <- MCPlanEdits
    TrafficEdits <- NoBatches
    Asks <- PageAlone
    MaxClock = 3
    MaxRestarts = 1
INVARIANT PlanOfSelectedYear
CHECK_DEADLOCK FALSE
