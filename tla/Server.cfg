\* Two connections share the socket numbers one after the other; each may have
\* a command in the queue and one being dispatched.  To these properties a
\* "direct" command is like a "timer", an "unknown" one like a "silent".
SPECIFICATION FairSpec
CONSTANTS
    Clients = {c1, c2}
    MaxReq = 2
    QueueMax = 2
    Kinds = {"timer", "silent", "forget", "sync"}
INVARIANTS
    AnsweredOnce
    SyncRepliesInOrder
    NoReplyStolen
PROPERTY SyncIsAnswered
\* Clients hang up and the server stops.
CHECK_DEADLOCK FALSE
