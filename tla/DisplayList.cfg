\* Three lists in an array of three, one client that edits while it records.
SPECIFICATION Spec
CONSTANTS
    Clients = {c1}
    Names = {a, b, c}
    LongNames = {}
    MaxLists = 3
    MaxCmds = 1
    MaxMentions = 3
SYMMETRY Symmetry
INVARIANTS
    EachListDrawnOnce
    StorageIsOwned
PROPERTY ImplementsScene
