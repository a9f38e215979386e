\* Two parties, one of which equivocates on its decommitment, whose
\* slot-round Starts may fail, over a transport that loses and duplicates
\* messages.
CONSTANTS
    N = 2
    LastRound = 4
    VerifyRound = 3
    Faulty = {2}
    Lossy = TRUE
    StartErrors = TRUE
    MaxDup = 2
SPECIFICATION Spec
INVARIANT TypeOK
INVARIANT Lockstep
INVARIANT VerifiedBeforeOutput
PROPERTY EveryoneTerminates
PROPERTY ReachesVerifyRound
PROPERTY BarrierRounds
CHECK_DEADLOCK FALSE
