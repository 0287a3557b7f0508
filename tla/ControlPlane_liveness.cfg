SPECIFICATION MCSpec
CONSTANTS
    Assessments = {a1}
    Windowed = {a1}
    Findings = {f1}
    Keys = {k1}
    ProviderKey = k1
    ProviderCalls = {1, 2}
    SealIds = {s1}
    NoSeal = NoSeal
    Calls = {c1}
    MaxRevision = 4
    MaxCrashes = 1
INVARIANTS
    AnswersHold
PROPERTIES
    BegunWorkEnds
    OperationsEnd
