\* Two connections, one after the other or both at once, on two socket numbers.
SPECIFICATION Spec
CONSTANTS
    Clients = {c1, c2}
    BinaryMax = 2
    MaxSent = 1
INVARIANTS
    BinaryMeansAsked
    OwnRepliesFramed
\* Every connection may have ended.
CHECK_DEADLOCK FALSE
