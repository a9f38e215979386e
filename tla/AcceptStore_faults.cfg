\* One call at a time, with a crash and failing Puts.
CONSTANTS
    c1 = c1
    c2 = c2
    r1 = r1
    r2 = r2
    Caller <- MCCaller
    Result <- MCResult
    MaxCalls = 4
    MaxInFlight = 1
    Crashes = TRUE
    PutFails = TRUE
SPECIFICATION Spec
INVARIANT TypeOK
INVARIANT NoPendingShadow
PROPERTY ResultKept
CHECK_DEADLOCK FALSE
