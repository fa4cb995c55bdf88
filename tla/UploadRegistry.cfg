\* Three uploads in two slots, of two bytes, in chunks that may be empty
\* and may be too long.
SPECIFICATION Spec
CONSTANTS
    MaxSlots = 2
    Totals = {2}
    Lengths = {0, 1, 2}
    Seqs = {0, 1, 2}
    IntRange = 8
    MaxUploads = 3
    MaxChunks = 2
    MaxQueue = 1
INVARIANTS
    BuffersAreOwned
    CommittedIsWhole
    ChunksInOrder
PROPERTY DecodedIsStable
\* Every upload may have been aborted.
CHECK_DEADLOCK FALSE
