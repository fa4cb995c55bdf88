SPECIFICATION FairLoopSpec
CONSTANTS
    QueueMax = 2
    Endless = TRUE
    MaxPush = 1
    KeyQueueMax = 2
    MaxKeys = 0
PROPERTY FramesGoOn
