SPECIFICATION Spec
CONSTANTS
    Workers <- MCWorkers
    w1 = w1
    w2 = w2
    NoSlot = NoSlot
    Connected = {"tmo"}
    Requests = {"cron"}
    Cadences = {"hourly", "manual"}
    Imported = {"hourly"}
    StaleAfter <- MCStaleAfter
    TmoStale = 1
    MonarchStale = 2
    MaxAttempts = 3
    MaxDuration = 1
    MaxRuns = 2
    MaxClock = 1
    HourLen = 2
SYMMETRY Symmetry
PROPERTY FailedSlotNotRetried
