SPECIFICATION Spec
CONSTANTS
    Searches = {}
    Patches = {p1, p2}
    Answers = {}
    Unknowns = {}
    Chats = {}
    Stops = {s1}
    Pages = {}
    Endpoints = {s1}
    Failing = {p1, p2}
    Blocking = {p1, p2}
    None = None
CHECK_DEADLOCK FALSE
SYMMETRY RequestSymmetry
INVARIANTS
    TypeOK
    PlanChain
    PatchesAccumulate
    AnswerIsStored
    ActiveRunSettles
PROPERTIES
    DeliveredRunStays
    RefinesRegistry
