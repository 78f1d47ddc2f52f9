SPECIFICATION Spec
CONSTANTS
    Searches = {}
    Patches = {p1, p2}
    Answers = {}
    Unknowns = {}
    Chats = {}
    Stops = {}
    Pages = {g1, g2}
    Endpoints = {g2}
    Failing = {g1, g2}
    Blocking = {p1}
    None = None
CHECK_DEADLOCK FALSE
INVARIANTS
    ResultBoundToPlan
    CardFresh
PROPERTY
    PageKeepsNewerSearch
