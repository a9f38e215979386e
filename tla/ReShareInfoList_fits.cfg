\* Three records, a channel that holds all of them.
CONSTANTS
    k1 = k1
    k2 = k2
    k3 = k3
    Key <- MCKey
    Cap = 3
    MaxStamp = 2
SPECIFICATION Spec
INVARIANT ListingExact
PROPERTY Returns
CHECK_DEADLOCK FALSE
