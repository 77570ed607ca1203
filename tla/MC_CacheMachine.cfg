SPECIFICATION Spec
CONSTANTS
    block = block
    decimals = decimals
    Callers = {c1, c2}
    Keys = {block, decimals}
    TimeOut <- MCTimeOut
    Lag = 1
    Horizon = 5
    MaxVersion = 1
    MaxArmed = 2
INVARIANTS
    EntryAgeBounded
PROPERTIES
    MissFresh
    SettingsKept
    Converges
    ImplementsBoundedCache
