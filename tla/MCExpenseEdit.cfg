SPECIFICATION FairSpec
CONSTANTS
    Width = 30
    Requests = {r1, r2, r3}
    Users = {1, 2, 3}
    Members = {1, 2}
    Categories = {"food", "fun"}
    Creations <- MCCreations
    Nil = Nil
    Patches <- AllPatches
INVARIANTS FieldHistory SplitHistory OneDelete
PROPERTIES RequestsEnd DeletedIsFinal SumLostOnlyToStaleAmount
CHECK_DEADLOCK FALSE
