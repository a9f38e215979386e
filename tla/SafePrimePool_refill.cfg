\* Three keygens and four primes over a channel of two: the producer
\* refills the channel while the last keygen holds two primes.
CONSTANTS
    c1 = c1
    c2 = c2
    c3 = c3
    Caller <- MCCaller
    Cap = 2
    MaxPrimes = 4
SPECIFICATION Spec
PROPERTY KeygenCompletes
CHECK_DEADLOCK FALSE
