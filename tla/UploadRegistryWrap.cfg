\* An int of three bits; 8 is what 2^32 is in the code.
SPECIFICATION Spec
CONSTANTS
    MaxSlots = 1
    Totals = {2}
    Lengths = {1}
    Seqs = {0, 1, 8}
    IntRange = 8
    MaxUploads = 1
    MaxChunks = 2
    MaxQueue = 1
INVARIANT ChunksInOrder
CHECK_DEADLOCK FALSE
