SPECIFICATION Spec
CONSTANTS
    s1 = s1
    s2 = s2
    s3 = s3
    wrong = wrong
    Shares = {s1, s2, s3, wrong}
    Right = {s1, s2, s3}
    Threshold = 2
    PrivateKey = FALSE
    MaxShares = 3
    MaxStops = 2
INVARIANTS
    KeyNeeded
    StatusTrue
PROPERTIES
    StartedOnce
CHECK_DEADLOCK FALSE
