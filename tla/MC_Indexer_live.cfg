SPECIFICATION Spec
CONSTANTS
    c1 = c1
    c2 = c2
    e1 = e1
    e2 = e2
    e3 = e3
    k1 = k1
    k3 = k3
    g1 = g1
    g2 = g2
    NoEvent = NoEvent
    NaN = NaN
    Contracts = {c1, c2}
    Events = {e1, e3}
    ContractOf <- MCContractOf
    BlockOf <- MCBlockOf
    KeyOf <- MCKeyOf
    Keys = {k1, k3}
    FilterSize = 2
    ValueMaxDiff = 2
    Top = 3
    Lag = 0
    Depth = 1
    Spurious = {7}
    BlockNumberRange = 1
    BlockNumberOffset = 1
    Cursors = {0, 2}
    Loops = {g1, g2}
    MaxFailures = 1
    MaxEdits = 0
    MaxTrouble = 2
    MaxReboots = 1
PROPERTIES
    CursorForward
    EventuallyStored
