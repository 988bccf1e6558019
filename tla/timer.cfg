CONSTANTS
    o1 = o1
    o2 = o2
    r1 = r1
    r2 = r2
    d1 = d1
    d2 = d2
    None = None
    Operations = {o1, o2}
    Requests = {r1, r2}
    Drafts = {d1, d2}
    Retention = 1
    Grace = 3
    MaxHistory = 2
    MaxRevision = 5
    Skew = 1
    Delay = 1
    MaxTime = 2
SPECIFICATION MCSpec
SYMMETRY Symmetry
INVARIANTS TypeOK StartsOnce RepliesTrue ReceiptIsOfLastTimer CliTypeOK StartIsRemembered IntervalsDraftedOnce
PROPERTIES AnswersNameTheRequest StopsAreJournaled
