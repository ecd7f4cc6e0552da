SPECIFICATION Spec
SYMMETRY SymmetricRuns
CONSTANTS
    None = None
    t1 = t1
    t2 = t2
    w1 = w1
    w2 = w2
    MaxRows = 2
    Teams = {t1}
    Workers = {w1, w2}
    MaxAttempts = 2
    Backoff <- MCBackoff
    MaxRun = 1
    Stale = 2
    Window = 1
    MaxCrashes = 1
INVARIANTS
    MailedOnce
PROPERTIES
    SettledStaysSettled
