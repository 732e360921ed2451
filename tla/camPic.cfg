SPECIFICATION Spec
CONSTANTS
    Threads = {"app", "other"}
    Calls <- PictureCalls
    Flash = FALSE
    Faulty = FALSE
    DaemonDies = FALSE
    MaxPending = 1
INVARIANTS OneAnswerPerCall PreviewAgrees
PROPERTIES EveryCallReturns PictureEnds
