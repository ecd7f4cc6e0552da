SPECIFICATION Spec
SYMMETRY Alike
CONSTANTS
    None = None
    Admin = Admin
    u1 = u1
    u2 = u2
    u3 = u3
    t1 = t1
    t2 = t2
    e1 = e1
    c1 = c1
    c2 = c2
    Users = {u1, u2, u3}
    Founder = u1
    FirstAccounts = {u1}
    Teams = {t1}
    Elements = {e1}
    Requests <- MCRequests
    Athletes = {u2, u3}
    Added <- MCAdded
    Calls = {c1, c2}
    MaxActs = 3
CHECK_DEADLOCK FALSE
INVARIANTS
    
    OrganizersAreNamed
PROPERTIES
    AcceptanceIsTheUnion
