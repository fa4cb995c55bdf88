\* As many connections as entries, and one more.
SPECIFICATION Spec
CONSTANTS
    Conns = {c1, c2}
    Kinds = {key}
    MaxSubs = 1
    MayStall = {}
INVARIANT AskedIsSubscribed
CHECK_DEADLOCK FALSE
