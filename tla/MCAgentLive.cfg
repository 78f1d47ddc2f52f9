SPECIFICATION FairSpec
CONSTANTS
    Searches = {n1}
    Patches = {}
    Answers = {a1}
    Unknowns = {u1}
    Chats = {u1}
    Stops = {s1}
    Pages = {}
    Endpoints = {s1}
    Failing = {}
    Blocking = {n1}
    None = None
CHECK_DEADLOCK FALSE
PROPERTY
    RequestsReturn
