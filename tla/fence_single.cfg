CONSTANTS
    p1 = p1
    p2 = p2
    c1 = c1
    t1 = t1
    r1 = r1
    r2 = r2
    i1 = i1
    None = None
    Projects = {p1, p2}
    Timecards = {c1}
    Tasks = {t1}
    Requests = {r1, r2}
    Instances = {i1}
    MaxWriters = 2
    RecoveryEnabled = TRUE
    Failures = TRUE
SPECIFICATION Spec
SYMMETRY Symmetry
INVARIANTS TypeOK NoOrphan FenceExclusion ReservationCoversWrite
PROPERTIES NoJoinUnderLock ImplementsPromise
