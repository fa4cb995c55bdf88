\* Lines of up to two bytes fit; frames need the second byte of their length.
SPECIFICATION IngressSpec
CONSTANTS
    LineMax = 3
    FrameMax = 300
    SizeBytes = 2
    ChunkMax = 7
    Alphabet = {10, 66, 1, 97}
    StreamMax = 7
    Sessions <- MCSessions
INVARIANTS
    DeliveredAsFramed
    DecodedAsSent
    DataAsSent
\* The stream ends.
CHECK_DEADLOCK FALSE
