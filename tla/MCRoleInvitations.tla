------------------------- MODULE MCRoleInvitations -------------------------
(***************************************************************************)
(* Values for the constants of RoleInvitations.                            *)
(***************************************************************************)
EXTENDS RoleInvitations, TLC

CONSTANTS u1, u2, u3, t1, t2, e1, c1, c2

Asks(roles, elements, teams) == [roles |-> roles, elements |-> elements, teams |-> teams]
MCRequests == {Asks({}, {}, {}), Asks({"ORGANIZER"}, {}, {}),
               Asks({"JUDGE", "REPRESENTATIVE"}, {e1}, {t1})}
Alike == Permutations(Calls) \cup Permutations({u2, u3})
MCAdded == {{"ORGANIZER"}}
=============================================================================
