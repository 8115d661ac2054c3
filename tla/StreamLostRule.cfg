SPECIFICATION Spec
CONSTANTS
    FirstMonth = 0
    LastMonth = 5
    FirstDay <- SmallCalendar
    Year = 2
    MidDay = 2
    Week = 2
    None = None
    Editors = {w1, w2}
    Rules <- OneRule
    Clearable = {"date"}
    Horizon = 3
    FirstToday = 1
    LastToday = 1
    MaxScheduleId = 2
    MaxManual = 0
    MaxOps = 4
PROPERTY OrdinarySaveKeepsRules
CHECK_DEADLOCK FALSE
