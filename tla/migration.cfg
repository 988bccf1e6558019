CONSTANTS
    r1 = r1
    t1 = t1
    t2 = t2
    w1 = w1
    w2 = w2
    u1 = u1
    None = None
    Runs = {r1}
    Timecards = {t1, t2}
    Workers = {w1, w2}
    Writers = {u1}
    ModernDates = {"canonical"}
    BatchSize = 1
    RecoveryErrors = FALSE
    Budgets <- MCBudgets
SPECIFICATION Spec
SYMMETRY Symmetry
INVARIANTS TypeOK WritersExcluded JournalTrue StatusTrue PauseIsSeen CancelLeavesNothing
PROPERTIES VerifiedIsTrue KeepsPromise
CHECK_DEADLOCK FALSE
