SPECIFICATION FairSpec
CONSTANTS
    Workers = {w1, w2}
    Messages = {m1, m2}
    MaxAttempts = 2
    Limit = 2
    Faults = 2
    Nil = Nil
INVARIANTS TwiceOnlyByFault AttemptsBounded
PROPERTIES KeepsMail Settles
CHECK_DEADLOCK FALSE
