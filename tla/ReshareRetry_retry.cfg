\* Every profile, two attempts.
CONSTANTS
    w1 = w1
    Wsid = w1
    RecalcTimes = 2
SPECIFICATION Spec
INVARIANT TypeOK
INVARIANT AtMostOneReply
INVARIANT SuccessRecorded
INVARIANT TimeoutAfterRetries
PROPERTY Answered
PROPERTY AtomicReshare
CHECK_DEADLOCK FALSE
