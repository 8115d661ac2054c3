SPECIFICATION Spec
CONSTANTS
    HourLen = 2
    NoSlot = NoSlot
    Past = 100
    Ahead = 100
    FirstMonth = 24276
    LastMonth = 24311
    FirstDay <- Gregorian
    Year = 12
    MidDay = 15
    Week = 7
    None = None
    Doms = {1, 15, 28, 30, 31}
    MaxLength = 45
    LastDate = 4
    MaxEvents = 3
INVARIANT SlotsAreOnGrid
INVARIANT OccurrencesAreDue
INVARIANT LegacyEventsSurvive
INVARIANT WindowsConnect
INVARIANT AnchorMoves
CHECK_DEADLOCK FALSE
