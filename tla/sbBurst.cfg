SPECIFICATION Spec
CONSTANTS
    Streams = {"meta", "preview"}
    Meta = "meta"
    Watched = {"preview"}
    num_bufs = 4
    MaxFrame = 4
    MaxCommands = 1
    MaxHeld = 1
    water_mark = 1
    look_back = 0
    post_frame_skip = 1
    max_unmatched_frames = 1
    Continuous = FALSE
    MaxFuture = 5
    NewsOf <- MCNewsOf
    Requests <- MCRequests
    Flushes = {0}
INVARIANTS
    NoBufferIsLost LoopsFindTheirNodes FramesAreInOrder
    StreamsDoNotStarve FlashFollowsRequest StoppedIsEmpty
