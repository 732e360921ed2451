CONSTANTS
    c1 = c1
    c2 = c2
    s1 = s1
    s2 = s2
    s3 = s3
    Callers <- MCCallers
    Slots = {s1, s3}
    EmptySlots = {s3}
    AtLeastS = FALSE
    ModemIgnores = TRUE
    ModemIsLate = FALSE
    MaxCalls = 4
SPECIFICATION Spec
INVARIANTS DisabledMeansPoweredDown AnswerMatchesSlot
PROPERTIES EveryCallReturns
