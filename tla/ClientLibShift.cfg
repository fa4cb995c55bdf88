SPECIFICATION ClientSpec
CONSTANTS
    Libraries = {"ruby"}
    Calls = {"s", "a", "b"}
    Subscribing = {"s"}
    Unknown = {}
    Batches = 1
    MaxCmds = 2
    MaxEvents = 2
INVARIANT OneResponseLine
\* Calls, commands and events run out.
CHECK_DEADLOCK FALSE
