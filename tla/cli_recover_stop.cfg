CONSTANTS
    o1 = o1
    r1 = r1
    d1 = d1
    None = None
    Operations = {o1}
    Requests = {r1}
    Drafts = {d1}
    Retention = 1
    Grace = 3
    MaxHistory = 1
    MaxRevision = 5
    Skew = 1
    Delay = 1
    MaxTime = 1
SPECIFICATION CliSpec
INVARIANTS RecoveryIsBelieved
