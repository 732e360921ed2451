SPECIFICATION Spec
CONSTANTS
    Threads = {"app"}
    Calls <- AllCalls
    Flash = TRUE
    Faulty = TRUE
    DaemonDies = TRUE
    MaxPending = 1
INVARIANTS ChannelsFollowState NothingIsForgotten
CHECK_DEADLOCK FALSE
