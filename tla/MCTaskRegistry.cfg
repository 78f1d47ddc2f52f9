SPECIFICATION FairSpec
CONSTANTS
    Tasks = {t1, t2, t3}
    NoTask = NoTask
CHECK_DEADLOCK FALSE
INVARIANTS
    TypeOK
    OneGraphAtATime
    ReplacedIsTold
    SaveSettledFirst
    NewestStaysRegistered
PROPERTIES
    NoSaveAfterCancel
    EveryTaskFinishes
