SPECIFICATION FairSpec
CONSTANTS
    Workers = {w1, w2}
    Templates = {t1, t2, t3}
    Groups = {g1, g2}
    GroupOf <- MCGroupOf
    Failing = {t3}
    Deletable = {}
    Limit = 2
    MaxTime = 1
    MaxCopies = 2
    Crashes = 1
    LockLosses = 0
    Nil = Nil
    t1 = t1
    t2 = t2
    g1 = g1
    g2 = g2
PROPERTIES DueAdvances
CHECK_DEADLOCK FALSE
