SPECIFICATION Spec
CONSTANTS
    u1 = u1
    u2 = u2
    u3 = u3
    s1 = s1
    s2 = s2
    p1 = p1
    Users = {u1, u2, u3}
    Slots = {s1, s2}
    Processes = {p1}
    MaxTokens = 2
    MaxAborts = 1
    Nil = Nil
SYMMETRY Symmetry
INVARIANTS
    SetupOnce
    OneBootstrap
PROPERTIES
    CompletedIsFinal
    LastAdminLost
CHECK_DEADLOCK FALSE
