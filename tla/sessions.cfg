CONSTANTS
    Streams = {s1, s2}
    s2 = s2
    Tasks = {t1, t2, t3}
    s1 = s1
    t1 = t1
    t2 = t2
    t3 = t3
    t4 = t4
    NoObject = NoObject
    ManyLocks = FALSE
    MaxCrashes = 1
    MaxFailures = 1
SPECIFICATION Spec
INVARIANTS TypeOK OneObject
PROPERTIES ArchiveSpec
SYMMETRY Symmetry
CHECK_DEADLOCK FALSE
