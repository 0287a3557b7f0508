SPECIFICATION FairSpec
CONSTANTS
    Exports = {e1}
    Digests = {d1}
    Calls = {c1}
    MaxAttempts = 2
    MaxReads = 1
    MaxFaults = 2
    MaxCrashes = 1
PROPERTIES
    PendingEnds
    LapsedIsPurged
CHECK_DEADLOCK FALSE
