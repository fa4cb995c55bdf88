\* With -continue, each is reported.
SPECIFICATION FairSpec
CONSTANTS
    Clients = {c1}
    MaxReq = 1
    QueueMax = 1
    Kinds = {"timer", "forget", "unknown"}
INVARIANTS
    AckAfterPush
    NoIdNoReply
PROPERTY EveryExecutionAnswers
CHECK_DEADLOCK FALSE
