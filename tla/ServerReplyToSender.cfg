SPECIFICATION Spec
CONSTANTS
    Clients = {c1, c2}
    MaxReq = 1
    QueueMax = 1
    Kinds = {"sync"}
INVARIANT ReplyToSender
CHECK_DEADLOCK FALSE
