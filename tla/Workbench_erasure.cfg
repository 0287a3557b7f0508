SPECIFICATION Spec
CONSTANTS
    sealed = sealed
    live = live
    started = started
    None = None
    Assessments = {sealed, live, started}
    Fresh = started
    Final <- MCFinal
    MaxCalls = 8
    MaxInFlight = 3
    CallsOf <- MCCallsOf
    MaxSessions = 2
INVARIANT
    NothingOutlivesItsSession
CHECK_DEADLOCK FALSE
