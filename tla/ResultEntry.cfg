SPECIFICATION Spec
SYMMETRY Symmetric
CONSTANTS
    Empty = Empty
    None = None
    t1 = t1
    t2 = t2
    c1 = c1
    a1 = a1
    v1 = v1
    w1 = w1
    w2 = w2
    Teams = {t1, t2}
    Clients = {c1}
    By <- MCBy
    Values = {v1}
    Configs <- MCConfigs
    Points <- MCPoints
    MaxPoints = 5
    Tasks = {w1, w2}
    Offered <- MCForms
    MaxClock = 3
    MaxNetwork = 2
INVARIANTS
    ScoresFollowInputs
    RowsFollowRule
    OwnSaveIsNoConflict
PROPERTIES
    OnlySeenIsReplaced
