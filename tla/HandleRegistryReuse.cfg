SPECIFICATION Spec
CONSTANTS
    HandleMax = 2
    Kinds = {"texture", "font"}
    NoKind = NoKind
    Clients = {c1, c2}
    MaxLoads = 3
INVARIANT FreedHandleIsInvalid
CHECK_DEADLOCK FALSE
