\* Clients send a few commands, in bursts that fill the queue.
SPECIFICATION FairLoopSpec
CONSTANTS
    QueueMax = 2
    Endless = FALSE
    MaxPush = 4
    KeyQueueMax = 2
    MaxKeys = 3
INVARIANTS
    FocusIsReported
    KeyGoesOnce
PROPERTY CloseEndsLoop
