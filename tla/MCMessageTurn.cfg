SPECIFICATION Spec
CONSTANTS
    t1 = t1
    t2 = t2
    t3 = t3
    Turns = {t1, t2, t3}
    NoTurn = NoTurn
    Deployments <- Settings
    Sent <- TwoAndAStop
CHECK_DEADLOCK FALSE
INVARIANTS
    TypeOK
    NoFalseBlame
PROPERTIES
    SilentAfterStop
    TurnsEnd
