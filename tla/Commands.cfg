SPECIFICATION CommandsSpec
CONSTANTS
    HandleMax = 3
    Kinds = {"renderTexture", "music"}
    NoKind = NoKind
    Clients = {c1}
    MaxLoads = 5
INVARIANTS
    SlotsOwnObjects
    AnsweredByOne
    PassedAreLive
PROPERTY RefusedOnlyWhenFull
