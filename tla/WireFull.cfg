\* Room for one binary socket, and two connections.
SPECIFICATION Spec
CONSTANTS
    Clients = {c1, c2}
    BinaryMax = 1
    MaxSent = 1
INVARIANT OwnRepliesFramed
\* Every connection may have ended.
CHECK_DEADLOCK FALSE
