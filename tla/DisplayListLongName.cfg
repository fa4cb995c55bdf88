SPECIFICATION Spec
CONSTANTS
    Clients = {c1}
    Names = {a, b}
    LongNames = {a}
    MaxLists = 2
    MaxCmds = 1
    MaxMentions = 1
INVARIANT OneListPerName
