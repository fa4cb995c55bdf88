SPECIFICATION ClientSpec
CONSTANTS
    Libraries = {"js", "ruby"}
    Calls = {"s", "a", "u"}
    Subscribing = {"s"}
    Unknown = {"u"}
    Batches = 2
    MaxCmds = 3
    MaxEvents = 2
INVARIANTS
    SettledByOwnAnswer
    EventsInOrder
    NoneOvertakes
PROPERTY EveryCallSettles
\* Calls, commands and events run out.
CHECK_DEADLOCK FALSE
