CONSTANTS
    t1 = t1
    t2 = t2
    n1 = n1
    n2 = n2
    c1 = c1
    r1 = r1
    r2 = r2
    None = None
    Tasks = {t1, t2}
    Names = {n1, n2}
    Timecards = {c1}
    Requests = {r1, r2}
    Failures = TRUE
    MaxRequests = 4
SPECIFICATION MCSpec
SYMMETRY Symmetry
PROPERTIES DefaultKeepsItsName
