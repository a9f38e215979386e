\* Three concurrent keygens and four primes over a channel of two, so the
\* producer refills the channel while a keygen holds the primes it took.
CONSTANTS
    c1 = c1
    c2 = c2
    c3 = c3
    Caller <- MCCaller
    Cap = 2
    MaxPrimes = 4
SPECIFICATION Spec
INVARIANT DistinctFactors
CHECK_DEADLOCK FALSE
