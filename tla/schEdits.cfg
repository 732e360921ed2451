CONSTANTS
    DaysPerWeek = 2
    MinutesPerDay = 3
    Subs = {1, 2}
    Legacy = FALSE
    Rows <- TwoSubRows
    MaxRows = 3
    LastMinute = 12
    MaxTasks = 2
    UserEdits = TRUE
    PowerCycles = "for long"
    PhoneCalls = "never"
    AlarmLag = FALSE
    Interleaved = FALSE
SPECIFICATION Spec
CHECK_DEADLOCK FALSE
INVARIANTS SchedulesAreFollowed AlarmIsEarliest
