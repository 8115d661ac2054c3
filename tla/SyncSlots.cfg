SPECIFICATION Spec
CONSTANTS
    Workers <- MCWorkers
    w1 = w1
    w2 = w2
    NoSlot = NoSlot
    Connected = {"tmo"}
    Requests = {"tmo", "cron"}
    Cadences = {"hourly", "manual"}
    Imported = {"hourly"}
    StaleAfter <- MCStaleAfter
    TmoStale = 0
    MonarchStale = 2
    MaxAttempts = 2
    MaxDuration = 0
    MaxRuns = 3
    MaxClock = 2
    HourLen = 2
SYMMETRY Symmetry
INVARIANT NoOverlap
INVARIANT SlotAttemptsBounded
INVARIANT CoveredSlotNotRepeated
INVARIANT RefusalIsExplained
PROPERTY FreezeStopsClaims
