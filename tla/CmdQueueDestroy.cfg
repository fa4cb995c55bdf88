SPECIFICATION Spec
CONSTANTS
    Capacity = 1
    Clients = {c1, c2}
    MaxPush = 2
    NoEntry = NoEntry
INVARIANT WokenPushCanReturn
CHECK_DEADLOCK FALSE
