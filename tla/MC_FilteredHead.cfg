SPECIFICATION FeedSpec
CONSTANTS
    NaN = NaN
    FilterSize = 4
    ValueMaxDiff = 2
    Top = 5
    Lag = 1
    Spurious = {12, 13}
INVARIANTS
    AcceptedIsReal
PROPERTIES
    Recovers
