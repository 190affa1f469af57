SPECIFICATION Spec
CHECK_DEADLOCK FALSE
CONSTANTS
    Thread = {"t1", "t2"}
    Configs <- MCConfigs
    ONE_DAY_SECONDS = 2
    MonthDays = 2
    Start = 8
    End = 12
    Offsets = {0, 1}
    MaxLines = 3
    MaxReloads = 2
INVARIANTS
    Safe
    RecentKept
    ArchivedByDate
