CONSTANTS
    o1 = o1
    o2 = o2
    r1 = r1
    None = None
    Operations = {o1, o2}
    Requests = {r1}
    Retention = 7
    Grace = 1
    MaxHistory = 2
    MaxRevision = 5
    Skew = 2
    Delay = 0
    MaxTime = 6
SPECIFICATION Spec
SYMMETRY Symmetry
INVARIANTS StartsOnce
