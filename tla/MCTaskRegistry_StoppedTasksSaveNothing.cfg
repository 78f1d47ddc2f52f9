SPECIFICATION Spec
CONSTANTS
    Tasks = {t1, t2, t3}
    NoTask = NoTask
CHECK_DEADLOCK FALSE
PROPERTY
    StoppedTasksSaveNothing
