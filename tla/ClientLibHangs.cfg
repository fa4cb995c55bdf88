SPECIFICATION ClientSpec
CONSTANTS
    Libraries = {"js"}
    Calls = {"s", "a", "b"}
    Subscribing = {"s"}
    Unknown = {}
    Batches = 1
    MaxCmds = 2
    MaxEvents = 2
PROPERTY NoCallHangs
\* Calls, commands and events run out.
CHECK_DEADLOCK FALSE
