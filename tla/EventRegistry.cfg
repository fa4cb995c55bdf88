\* Two connections, at once or one after the other on the same socket, the
\* client of one of which may stop reading.
SPECIFICATION FairSpec
CONSTANTS
    Conns = {c1, c2}
    Kinds = {key, mouse}
    MaxSubs = 2
    MayStall = {c1}
INVARIANTS
    TableIsAsAsked
PROPERTIES
    OnlyAskedEvents
    EachPushReachesAll
    SocketIsFreed
\* Every client may have hung up.
CHECK_DEADLOCK FALSE
