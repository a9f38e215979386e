\* Three records, a channel with room for two.
CONSTANTS
    k1 = k1
    k2 = k2
    k3 = k3
    Key <- MCKey
    Cap = 2
    MaxStamp = 2
SPECIFICATION Spec
PROPERTY Returns
CHECK_DEADLOCK FALSE
