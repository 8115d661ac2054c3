SPECIFICATION Spec
CONSTANTS
    Workers <- MCWorkers
    w1 = w1
    w2 = w2
    NoSlot = NoSlot
    Connected = {"tmo"}
    Requests = {"tmo"}
    Cadences = {"hourly", "manual"}
    Imported = {"hourly"}
    StaleAfter <- MCStaleAfter
    TmoStale = 1
    MonarchStale = 2
    MaxAttempts = 3
    MaxDuration = 3
    MaxRuns = 3
    MaxClock = 3
    HourLen = 2
SYMMETRY Symmetry
INVARIANT ImportMatchesLog
PROPERTY NoStaleOverwrite
PROPERTY OutcomeIsFinal
