\* Two calls that may overlap, both finalising.
CONSTANTS
    c1 = c1
    c2 = c2
    r1 = r1
    r2 = r2
    Caller <- MCCaller
    Result <- MCResult
    MaxCalls = 2
    MaxInFlight = 2
    Crashes = FALSE
    PutFails = FALSE
SPECIFICATION Spec
CHECK_DEADLOCK FALSE
PROPERTY TerminalFinal
