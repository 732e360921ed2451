CONSTANTS
    Sims = {1, 2}
    UserSims = {1}
    Feeders = {1}
    LostAnswers = FALSE
    EditsWhileFeeding = FALSE
SPECIFICATION FeederSpec
INVARIANTS OneAttemptIsWasted MarkMatchesLastTry
PROPERTIES NoLockedSimIsMissed
