SPECIFICATION Spec
CONSTANTS
    PageSize = 2
    ServerSize = 2
    MaxPage = 3
    MaxHits = 5
    MaxPlans = 2
    MaxRuns = 6
CHECK_DEADLOCK FALSE
INVARIANTS
    TypeOK
    ListEndsWithLastCandidate
PROPERTY
    LeadersAreCurrent
