SPECIFICATION Spec
CONSTANTS
    FirstMonth = 0
    LastMonth = 5
    FirstDay <- SmallCalendar
    Year = 2
    MidDay = 2
    Week = 2
    None = None
    Editors = {w1, w2}
    Rules <- SomeRules
    Clearable = {"date"}
    Horizon = 5
    FirstToday = 1
    LastToday = 2
    MaxScheduleId = 2
    MaxManual = 1
    MaxOps = 3
SYMMETRY Symmetry
INVARIANT DeletedStreamIsQuiet
INVARIANT ProjectionIsExact
INVARIANT OneRowPerPeriod
PROPERTY ReceivedIsFinal
PROPERTY RemovedStaysRemoved
PROPERTY OverridesSurviveSaves
CHECK_DEADLOCK FALSE
