CONSTANTS
    Streams = {s1, s2}
    s2 = s2
    Tasks = {t1, t2, t3, t4}
    s1 = s1
    t1 = t1
    t2 = t2
    t3 = t3
    t4 = t4
    NoObject = NoObject
    ManyLocks = TRUE
    MaxCrashes = 0
    MaxFailures = 0
SPECIFICATION Spec
INVARIANT Mutex
SYMMETRY Symmetry
CHECK_DEADLOCK FALSE
