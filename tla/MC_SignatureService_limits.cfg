SPECIFICATION Spec
CONSTANTS
    r1 = r1
    r2 = r2
    r3 = r3
    gateway = gateway
    proRata = proRata
    user1 = user1
    Requests = {r1, r2}
    Kind <- SameUser
    Contract <- SameContract
    Holder <- SameHolder
    Contracts = {gateway}
    Holders = {user1}
    Decimals <- MCDecimals
    TIME_OUT = 1
    INDEXER_OFFSET = 1
    UINT32_MAX = 5
    CACHE_TIME_OUT = 1
    Lag = 0
    BlockLag = 1
    Skew = 0
    MaxTime = 3
    MaxNonce = 0
    MaxResets = 0
INVARIANTS
    DateLimitCovers
CHECK_DEADLOCK FALSE
