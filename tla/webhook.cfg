SPECIFICATION Spec
CONSTANTS
    p = p
    q = q
    r1 = r1
    r2 = r2
    r3 = r3
    None = None
    Interfaces = {1}
    EventIds = {1, 2}
    Payloads = {p, q}
    Configurations <- MCConfigurations
    Initial <- MCInitial
    Deliveries <- MCDeliveries
    Timestamps = {0, 1}
    Requests = {r1, r2, r3}
    Retention = 2
    Grace = 1
    Lease = 1
    MaxTimestampSkew = 0
    Skew = 0
    Delay = 1
    MaxTime = 3
    MaxRevision = 1
SYMMETRY Symmetry
INVARIANTS
    TypeOK
    OneMeaning
    NewestPrevails
    AcceptedWasProcessed
PROPERTY
    ProcessedIsFinal
CHECK_DEADLOCK FALSE
