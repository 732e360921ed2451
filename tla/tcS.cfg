CONSTANTS
    c1 = c1
    c2 = c2
    s1 = s1
    s2 = s2
    s3 = s3
    Callers <- MCCallers
    Slots <- MCSlots
    EmptySlots = {s3}
    AtLeastS = TRUE
    ModemIgnores = FALSE
    ModemIsLate = FALSE
    MaxCalls = 3
SPECIFICATION Spec
INVARIANTS RequestIsExclusive RecordMatchesPower AnswerMatchesRequest ListenersAreUpToDate
