SPECIFICATION Spec
VIEW WithoutRecords
CONSTANTS
    None = None
    k1 = k1
    k2 = k2
    Nobody = Nobody
    e1 = e1
    e2 = e2
    MaxApplications = 2
    Classes = {k1}
    MaxMembers = 2
    Emails = {e1, e2}
    Rosters <- MCRosters
    Elsewhere = {e2}
    Accepted <- MCAccepted
    Rules <- MCRules
    SettingsChoices <- MCRaceSettings
    Ranking <- MCRanking
    Lifecycle = {"SETUP", "ACTIVE"}
    Interleaved = {"settings", "members"}
INVARIANTS
    TeamHasTheMembers
PROPERTIES
    FreezesTheRoster
