SPECIFICATION ScenesSpec
CONSTANTS
    None = None
    NoCompetition = NoCompetition
    Organizer = Organizer
    Crons = {r2}
    i1 = i1
    i2 = i2
    r1 = r1
    r2 = r2
    Instances = {i1}
    Readers = {r1, r2}
    MaxNow = 2
    MaxLive = 1
    MaxBreaks = 1
    Nothing = Nothing
    SeriesCallers = {r1, r2}
    LastMoment = 2
    MaxSaves = 1
    MaxLosses = 1
CHECK_DEADLOCK FALSE
INVARIANT
    SnapshotIsOfItsFreeze
PROPERTIES
    FrozenWhileFrozen
    NothingOlderThanAnnounced
    SeriesStandsStill
