SPECIFICATION Spec
CONSTANTS
    Exports = {e1}
    Digests = {d1, d2}
    Calls = {c1, c2}
    MaxAttempts = 3
    MaxReads = 1
    MaxFaults = 3
    MaxCrashes = 2
SYMMETRY Symmetry
INVARIANTS
    ArtifactFollowsRecord
    ReceiptsAreDurable
PROPERTIES
    StatusMovesForward
    ImplementsPromise
CHECK_DEADLOCK FALSE
