SPECIFICATION Spec
CONSTANTS
    None = None
    n1 = n1
    n2 = n2
    n3 = n3
    w1 = w1
    w2 = w2
    h1 = h1
    Recipients <- MCRecipients
    BatchSize = 2
    Runs = {w1}
    RunSizes = {1, 2}
    MaxAttempts = 2
    Backoff <- MCBackoff
    MaxRun = 1
    Stale = 2
    Handlers = {}
    EventTimes = {}
    MaxBreaks = 1
CHECK_DEADLOCK FALSE
PROPERTIES
    EveryRecipientSettles
