\* Three clients, a ring of two slots: it wraps, fills up and has two waiters.
SPECIFICATION FairSpec
CONSTANTS
    Capacity = 2
    Clients = {c1, c2, c3}
    MaxPush = 2
    NoEntry = NoEntry
INVARIANTS
    NoLostWakeup
PROPERTIES
    ImplementsFifo
    ExecutedInOrder
    BlockedPushesGoOn
\* The process exits after cmdq_destroy.
CHECK_DEADLOCK FALSE
