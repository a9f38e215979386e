\* Two attempts on every profile, some of them with an unreadable share.
CONSTANTS
    w1 = w1
    Wsid = w1
    RecalcTimes = 2
SPECIFICATION Spec
INVARIANT NoRetryAfterStorageError
CHECK_DEADLOCK FALSE
