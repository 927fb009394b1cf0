SPECIFICATION FairSpec
CONSTANTS
    Workers = {w1}
    Templates = {t1, t2}
    Groups = {g1, g2}
    GroupOf <- MCGroupOf
    Failing = {}
    Deletable = {g1}
    Limit = 2
    MaxTime = 1
    MaxCopies = 3
    Crashes = 0
    LockLosses = 0
    Nil = Nil
    t1 = t1
    t2 = t2
    g1 = g1
    g2 = g2
PROPERTIES ClaimEnds
CHECK_DEADLOCK FALSE
