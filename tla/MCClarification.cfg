SPECIFICATION FairSpec
CONSTANTS
    x = x
    y = y
    z = z
    Names <- MCNames
    Drafts <- AllDrafts
CHECK_DEADLOCK FALSE
INVARIANTS
    TypeOK
    NoForgedCode
    NothingGivenUpSilently
PROPERTY
    DialogEnds
