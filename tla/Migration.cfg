SPECIFICATION MigrationSpec
CONSTANTS
    FirstMonth = 0
    LastMonth = 5
    FirstDay <- SmallCalendar
    Year = 2
    MidDay = 2
    Week = 2
    None = None
    Exporters = {e1, e2}
    Inventories = {i1}
    Sources <- AllSources
    Versions <- AllVersions
    Keys <- AllKeys
    Portable <- AllPortable
    Canary <- KnownUser
    MaxFaults = 1
    Transfers = {t1, t2}
    InventoryRuns = {}
    MaxFailures = 1
    Paths = {"p1", "p2"}
    Corpora <- LegacyCorpora
    REMOTE_ATTEMPTS = 2
INVARIANT CompleteIsUsable
INVARIANT SuccessIsDurable
INVARIANT FailureLeavesNothing
INVARIANT RefusalIsJustified
INVARIANT ValidIsTransferred
PROPERTY TransferCompletes
CHECK_DEADLOCK FALSE
