CONSTANTS
    p1 = p1
    c1 = c1
    t1 = t1
    r1 = r1
    r2 = r2
    i1 = i1
    i2 = i2
    None = None
    Projects = {p1}
    Timecards = {c1}
    Tasks = {t1}
    Requests = {r1, r2}
    Instances = {i1, i2}
    MaxWriters = 1
    RecoveryEnabled = TRUE
    Failures = FALSE
SPECIFICATION FairSpec
INVARIANTS BoundedWriters
PROPERTIES FencesDrain SuccessIsNotOrphan
