SPECIFICATION Spec
CONSTANTS
    s1 = s1
    s2 = s2
    s3 = s3
    t1 = t1
    b1 = b1
    topic = topic
    Savers = {s1, s2, s3}
    EventOf <- MCEventOf
    Events <- MCEvents
    BlockOf <- MCBlockOf
    Placeholders = {t1}
    Objects = {o1, o2, o3}
    NoObject = NoObject
    MaxFailures = 1
    MaxDeletes = 1
INVARIANTS
    Linked
    LocksDropped
PROPERTIES
    NoConflict
    AllSaved
CHECK_DEADLOCK FALSE
