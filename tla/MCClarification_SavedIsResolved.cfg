SPECIFICATION Spec
CONSTANTS
    x = x
    y = y
    z = z
    Names <- MCNames
    Drafts <- ListDrafts
CHECK_DEADLOCK FALSE
INVARIANT
    SavedIsResolved
