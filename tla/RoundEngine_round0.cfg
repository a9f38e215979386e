\* Two honest parties, round 0 completion.
CONSTANTS
    N = 2
    LastRound = 4
    VerifyRound = 3
    Faulty = {}
    Lossy = FALSE
    StartErrors = FALSE
    MaxDup = 0
SPECIFICATION Spec
INVARIANT Round0WaitsForAll
CHECK_DEADLOCK FALSE
