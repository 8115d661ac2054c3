SPECIFICATION LiveSpec
CONSTANTS
    Workers <- MCWorkers
    w1 = w1
    w2 = w2
    NoSlot = NoSlot
    Connected = {"tmo", "monarch"}
    Requests = {"cron", "cadence"}
    Cadences = {"hourly", "manual"}
    Imported = {"hourly"}
    StaleAfter <- MCStaleAfter
    TmoStale = 1
    MonarchStale = 1
    MaxAttempts = 3
    MaxDuration = 1
    MaxRuns = 1
    MaxClock = 2
    HourLen = 1
INVARIANT OwnerKeepsRun
INVARIANT NextSlotIsTruthful
PROPERTY StaleRunIsReleased
