\* A PutPubKeyData that fails after DeleteXInfoData.
CONSTANTS
    c1 = c1
    c2 = c2
    r1 = r1
    r2 = r2
    Caller <- MCCaller
    Result <- MCResult
    MaxCalls = 2
    MaxInFlight = 1
    Crashes = FALSE
    PutFails = TRUE
SPECIFICATION Spec
CHECK_DEADLOCK FALSE
INVARIANT RecordAtRest
