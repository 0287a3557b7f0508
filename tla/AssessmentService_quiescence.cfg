SPECIFICATION Spec
CONSTANTS
    Assessments = {a1}
    Windowed = {a1}
    Findings = {f1}
    Keys = {k1}
    SealIds = {s1, s2}
    NoSeal = NoSeal
    Calls = {c1}
    MaxRevision = 4
    MaxCrashes = 1
INVARIANTS
    CanceledIsQuiescent
