CONSTANTS
    p1 = p1
    p2 = p2
    i1 = i1
    i2 = i2
    r1 = r1
    r2 = r2
    r3 = r3
    None = None
    Payloads = {p1, p2}
    Resources = {i1, i2}
    Requests = {r1, r2, r3}
    Retention = 2
    PendingRetention = 3
    Grace = 2
    Skew = 1
    Delay = 1
    MaxTime = 4
SPECIFICATION Spec
SYMMETRY Symmetry
INVARIANTS TypeOK CreatedOnce RepliesTrue ReplayableUntilDeadline
PROPERTIES NotResurrected
CHECK_DEADLOCK FALSE
