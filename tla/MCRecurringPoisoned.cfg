SPECIFICATION Spec
CONSTANTS
    Workers = {w1, w2}
    Templates = {t1, t2}
    Groups = {g1, g2}
    GroupOf <- MCGroupOf
    Failing = {t2}
    Deletable = {g1}
    Limit = 2
    MaxTime = 2
    MaxCopies = 3
    Crashes = 1
    LockLosses = 1
    Nil = Nil
    t1 = t1
    t2 = t2
    g1 = g1
    g2 = g2
INVARIANTS NoSkip DuplicatesOnlyByFailure
PROPERTIES NothingAfterDelete KeepsPromise
CHECK_DEADLOCK FALSE
