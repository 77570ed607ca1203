SPECIFICATION Spec
CONSTANTS
    r1 = r1
    r2 = r2
    c1 = c1
    Requests = {r1, r2}
    Contracts = {c1}
    AskedFor <- MCAskedFor
    ABI_CACHE_TIME_OUT = 2
    Lag = 0
    MaxFailures = 2
INVARIANTS
    ParametersKnown
PROPERTIES
    AnsweredUnlessMissing
    AbiHeals
CHECK_DEADLOCK FALSE
