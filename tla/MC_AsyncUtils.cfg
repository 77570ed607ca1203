SPECIFICATION MCSpec
CONSTANTS
    t1 = t1
    t2 = t2
    t3 = t3
    t4 = t4
    a = a
    b = b
    attempts = 3
    Tasks = {t1, t2, t3, t4}
    Ids = {a, b}
    IdOf <- MCIdOf
    Failing = {t4}
    Objects = {o1, o2, o3, o4}
    NoObject = NoObject
INVARIANTS
    MutualExclusion
    PollsBounded
    GivesUpInTime
PROPERTIES
    ImplementsFifoMutex
    WaitTimesOut
    PollsEnd
CHECK_DEADLOCK FALSE
