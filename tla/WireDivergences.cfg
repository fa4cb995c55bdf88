\* With -continue, each is reported.
SPECIFICATION Spec
CONSTANTS
    Clients = {c1, c2}
    BinaryMax = 2
    MaxSent = 1
INVARIANTS
    MessagesAreWhole
    AckBeforeSwitch
\* Every connection may have ended.
CHECK_DEADLOCK FALSE
