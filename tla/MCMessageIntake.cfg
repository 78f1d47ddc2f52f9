SPECIFICATION MCSpec
CONSTANTS
    k1 = k1
    k2 = k2
    a1 = a1
    a2 = a2
    a3 = a3
    Keys = {k1, k2}
    Attempts = {a1, a2, a3}
    None = None
    MaxCrashes = 1
CHECK_DEADLOCK FALSE
INVARIANTS
    TypeOK
    NoInsertRefused
    ExecutedOnce
    RetryIsTold
PROPERTY
    AttemptsEnd
