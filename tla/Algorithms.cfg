SPECIFICATION MCSpec
CONSTANTS
    Null = Null
    NoValue = NoValue
    a = a
    b = b
    c = c
    d = d
    k1 = k1
    k2 = k2
    x = x
    y = y
    Forms <- MCForms
    Variants <- MCVariants
    Inputs <- MCInputs
    Profiles <- MCProfiles
    RuleSets <- MCRuleSets
    ElementTeams <- MCTeams
    Settings <- MCSettings
    Results <- MCResults
    Boards <- MCBoards
    BoardTeams <- MCBoardTeams
    PointValues <- MCPointValues
    Orders <- MCOrders
    MaxArrivals = 4
    MaxCapacity = 3
CHECK_DEADLOCK FALSE
INVARIANTS
    GuaranteesHonoured
    PointsFollowResults
    PlacesFollowTotals
    SeriesFollowsResults
    HiddenAnswersGone
    MandateCanBeCompleted
PROPERTIES
    NobodyIsDemoted
    OutsidersChangeNothing
    LockedAnswersStay
