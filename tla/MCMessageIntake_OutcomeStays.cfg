SPECIFICATION FairSpec
CONSTANTS
    k1 = k1
    k2 = k2
    a1 = a1
    a2 = a2
    a3 = a3
    Keys = {k1}
    Attempts = {a1, a2}
    None = None
    MaxCrashes = 0
CHECK_DEADLOCK FALSE
PROPERTY
    OutcomeStays
