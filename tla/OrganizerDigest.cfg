SPECIFICATION ScenesSpec
CONSTANTS
    None = None
    e1 = e1
    m1 = m1
    w1 = w1
    w2 = w2
    Events = {m1}
    Submissions = {m1}
    Periods <- MCPeriods
    Choices <- MCChoices
    Runs = {w1, w2}
    MaxTime = 2
    MaxSubscriptions = 1
    o1 = o1
    o2 = o2
    Kinds <- MCKinds
    Detectors = {w1, w2}
    LookBack = 2
    Settle = 1
    Failures = 1
    Denials = 2
    Different = 2
    LastHour = 3
    MaxEvents = 3
    Unset = Unset
SYMMETRY MCSymmetry
CHECK_DEADLOCK FALSE
INVARIANTS
    EveryEventReportedOnce
    AlertsCountExactly
    ResolvedTakesNothingNew
