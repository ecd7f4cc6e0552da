SPECIFICATION Spec
CONSTANTS
    None = None
    n1 = n1
    n2 = n2
    n3 = n3
    w1 = w1
    w2 = w2
    h1 = h1
    Recipients <- MCTwoRecipients
    BatchSize = 2
    Runs = {w1, w2}
    RunSizes = {1}
    MaxAttempts = 2
    Backoff <- MCBackoff
    MaxRun = 1
    Stale = 2
    Handlers = {h1}
    EventTimes = {1, 2}
    MaxBreaks = 1
SYMMETRY MCRunsAreAlike
CHECK_DEADLOCK FALSE
INVARIANTS
    MailedOnceUnlessSplit
    RowsTellTheirMail
PROPERTIES
    SentStaysSent
