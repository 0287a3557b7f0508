SPECIFICATION Spec
CONSTANTS
    Exports = {e1}
    Digests = {d1}
    Calls = {c1}
    MaxAttempts = 3
    MaxReads = 1
    MaxFaults = 1
    MaxCrashes = 1
INVARIANTS
    OwnBytesAreNoConflict
CHECK_DEADLOCK FALSE
