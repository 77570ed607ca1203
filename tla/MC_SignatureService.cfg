SPECIFICATION Spec
CONSTANTS
    r1 = r1
    r2 = r2
    r3 = r3
    gateway = gateway
    proRata = proRata
    user1 = user1
    Requests = {r1, r2, r3}
    Kind <- MixedKind
    Contract <- MixedContract
    Holder <- MixedHolder
    Contracts = {gateway, proRata}
    Holders = {user1}
    Decimals <- MCDecimals
    TIME_OUT = 0
    INDEXER_OFFSET = 2
    UINT32_MAX = 0
    CACHE_TIME_OUT = 1
    Lag = 0
    BlockLag = 0
    Skew = 0
    MaxTime = 0
    MaxNonce = 1
    MaxResets = 1
INVARIANTS
    OwnDecimals
    NonceFresh
    StatsCount
PROPERTIES
    RequestSettles
CHECK_DEADLOCK FALSE
