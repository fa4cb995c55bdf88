SPECIFICATION ClientSpec
CONSTANTS
    Libraries = {"js"}
    Calls = {"s", "a", "b"}
    Subscribing = {"s"}
    Unknown = {}
    Batches = 2
    MaxCmds = 2
    MaxEvents = 2
INVARIANT WrittenInOrder
\* Calls, commands and events run out.
CHECK_DEADLOCK FALSE
