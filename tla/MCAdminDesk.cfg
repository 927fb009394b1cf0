SPECIFICATION Spec
CONSTANTS
    Slots = {s1, s2}
    MaxFails = 2
    MaxFaults = 1
    Nil = Nil
SYMMETRY Symmetry
INVARIANTS WrongBounded Logged AuditTrue
