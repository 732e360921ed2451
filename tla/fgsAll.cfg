CONSTANTS
    MaxStarts = 4
    MaxCrashes = 2
    OverlapStarts = TRUE
    StartMayFail = TRUE
    TaskMayHang = TRUE
    Timeouts = TRUE
SPECIFICATION Spec
CHECK_DEADLOCK FALSE
INVARIANTS StopsOnlyWhenDone
PROPERTIES CompletedIsNotRepeated EveryTaskRuns ServiceIsRecycled
