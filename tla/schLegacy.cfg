CONSTANTS
    DaysPerWeek = 2
    MinutesPerDay = 3
    Subs = {1, 2}
    Legacy = TRUE
    Rows <- TwoSubRows
    MaxRows = 3
    LastMinute = 11
    MaxTasks = 2
    UserEdits = FALSE
    PowerCycles = "briefly"
    PhoneCalls = "briefly"
    AlarmLag = FALSE
    Interleaved = FALSE
SPECIFICATION Spec
CHECK_DEADLOCK FALSE
INVARIANTS SchedulesAreFollowed
PROPERTIES NoDisableDuringCall
