SPECIFICATION Spec
CONSTANTS
    Clients = {c1, c2}
    Names = {a, b}
    LongNames = {}
    MaxLists = 2
    MaxCmds = 1
    MaxMentions = 1
INVARIANT ImmediateIsNotRecorded
