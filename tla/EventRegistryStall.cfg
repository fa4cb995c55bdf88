SPECIFICATION FairSpec
CONSTANTS
    Conns = {c1}
    Kinds = {key}
    MaxSubs = 1
    MayStall = {c1}
PROPERTY MainLoopMovesOn
CHECK_DEADLOCK FALSE
