SPECIFICATION Spec
CONSTANTS
    s1 = s1
    s2 = s2
    Slots = {s1, s2}
    Ops <- AllOps
    Connections = 2
    MaxAttempts = 1
    MaxCodes = 2
    MaxAborts = 1
    Nil = Nil
SYMMETRY Symmetry
INVARIANTS
    CodeOnce
    AttemptsBounded
    CalmAccount
    HeldUp
PROPERTIES
    DeletedIsFinal
CHECK_DEADLOCK FALSE
