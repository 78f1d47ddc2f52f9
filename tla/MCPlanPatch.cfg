SPECIFICATION Spec
CONSTANTS
    Fields = {"company", "school_level", "current_city"}
    Words = {a, b}
    a = a
    b = b
    l = l
    Letters <- MCLetters
    NumericCodes = {a}
    Payloads <- MCPayloads
    Drafts <- MCDrafts
    MaxValues = 2
    MaxOperations = 2
    MaxVersion = 2
    Forged = Forged
CHECK_DEADLOCK FALSE
INVARIANTS
    TypeOK
    RepeatedAdditionChangesNothing
    PlanLoadable
    RequestMeansPlan
PROPERTIES
    UnmentionedKept
    AdditionsKeep
