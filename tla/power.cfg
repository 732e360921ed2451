SPECIFICATION MCSpec
CONSTANTS
    kWaitMs = 1
    kMinDurationMs = 1
    kMaxDurationMs = 3
    kDurationOffsetMs = 1
    Modulus = 16
    Requests <- MCRequests
    Exits = TRUE
    ModeHints = {"audio", "launch"}
    ExtHints = {"camera"}
    Restored = {"audio"}
INVARIANTS WaitIsForLastTouch NoStuckMode NoLeakedBoost
PROPERTIES TouchesAreBoosted ExitReturns
CHECK_DEADLOCK FALSE
