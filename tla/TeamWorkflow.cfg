SPECIFICATION Spec
SYMMETRY Alike
CONSTANTS
    None = None
    Nobody = Nobody
    Organizer = Organizer
    NoCompetitor = NoCompetitor
    r1 = r1
    r2 = r2
    n1 = n1
    n2 = n2
    m1 = m1
    m2 = m2
    c1 = c1
    c2 = c2
    Representatives = {r1, r2}
    Names = {n1, n2}
    Rosters = {NoCompetitor, m1, m2}
    Clients = {c1, c2}
    RepresentativeRequired = TRUE
    MembersAlone = FALSE
PROPERTIES
    MandateFollowsRegistration
    SubmittedIsLocked
    FormerRepresentativeIsRefused
    SubmittedIsComplete
