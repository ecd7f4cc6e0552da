SPECIFICATION Spec
CONSTANTS
    None = None
    k1 = k1
    k2 = k2
    Nobody = Nobody
    e1 = e1
    e2 = e2
    MaxApplications = 3
    Classes = {k1, k2}
    MaxMembers = 1
    Emails = {}
    Rosters <- MCNoEmails
    Elsewhere = {}
    Accepted <- MCAccepted
    Rules <- MCRules
    SettingsChoices <- MCSettings
    Ranking <- MCRanking
    Lifecycle = {"SETUP"}
    Interleaved = {}
INVARIANTS
    WaitlistInOrder
    HistoryTellsStatus
PROPERTIES
    PlacesFilledExactly
    VacatedPlacesAreTold
