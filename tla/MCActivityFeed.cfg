SPECIFICATION FairSpec
CONSTANTS
    Expenses = {2}
    Settlements = {1, 3}
    Ticks = {1, 3}
    Stamps = {0, 1}
    Second = 2
    DefaultLimit = 1
    MaxLimit = 2
    Asked = {0, 3}
    MaxRev = 1
    MaxFailures = 1
    Nil = Nil
INVARIANTS PagesComplete TornIsSuperseded
PROPERTIES ScrollEnds
CHECK_DEADLOCK FALSE
