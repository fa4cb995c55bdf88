\* With -continue, each is reported.
SPECIFICATION FairLoopSpec
CONSTANTS
    QueueMax = 2
    Endless = FALSE
    MaxPush = 1
    KeyQueueMax = 2
    MaxKeys = 1
INVARIANTS
    CloseIsAnnounced
    EveryKeyIsTold
PROPERTY SigintEndsLoop
