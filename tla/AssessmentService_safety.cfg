SPECIFICATION Spec
CONSTANTS
    Assessments = {a1}
    Windowed = {a1}
    Findings = {f1, f2}
    Keys = {k1, k2}
    SealIds = {s1, s2, s3}
    NoSeal = NoSeal
    Calls = {c1, c2}
    MaxRevision = 5
    MaxCrashes = 1
SYMMETRY Symmetry
INVARIANTS
    TypeOK
    SealedIsPublished
    WindowHasEvidence
    RunningHasItsTask
    CanceledHasNoTask
    CancellationClosesAdmission
    EveryAttemptIsAuthorized
    ReceiptsAreCommits
PROPERTIES
    TerminalIsFinal
    ImplementsLifecycle
