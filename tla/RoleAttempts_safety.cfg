SPECIFICATION Spec
CONSTANTS
    Attempts = {x1, x2}
    Roles = {r1, r2}
    Invocations = {i1, i2, i3}
    Admissions = {n1, n2}
    Payloads = {claims, many, plain}
    Bearing = {claims, many}
    Oversized = {many}
    RequestLimit = 2
    MaxRevision = 10
    None = None
SYMMETRY Symmetry
CHECK_DEADLOCK FALSE
INVARIANTS
    TypeOK
    OutputIsClosed
    CompletedIsBacked
    RetryFollowsResume
    FailureBlocksUntilResume
PROPERTIES
    EndedIsFinal
    CancellationStopsRoles
    KeepsLifecycle
