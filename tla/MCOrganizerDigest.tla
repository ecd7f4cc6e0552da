------------------------- MODULE MCOrganizerDigest -------------------------
(***************************************************************************)
(* Values for the constants of OrganizerDigest (digests at once, and at    *)
(* the end of every moment) and of SecurityAlerts, and a scene for the     *)
(* digest and for each rule of the alerts, which do not depend on each     *)
(* other.  A behaviour stays in its scene, and the other state stays as it *)
(* was in the beginning.                                                   *)
(***************************************************************************)
EXTENDS OrganizerDigest, SecurityAlerts, Functions, TLC

CONSTANTS e1, m1, w1, w2, o1, o2

MCPeriods == "IMMEDIATE" :> 0 @@ "HOURLY" :> 1
MCChoices == {[topics |-> Topics, interval |-> "IMMEDIATE"],
              [topics |-> {"registration"}, interval |-> "HOURLY"]}

About(whats, about) == {[what |-> what, about |-> o] : what \in whats, o \in about}
LoggedIn == [logins |-> About({"login denied", "login"}, {Unset}),
             accesses |-> About({"denied"}, {o1, o2}),
             changes |-> About({"password reset"}, {Unset})]
MCKinds == UNION Range(LoggedIn)
MCSymmetry == Permutations({w1, w2})

VARIABLE scene

ScenesInit == scene \in {"digest"} \cup DOMAIN LoggedIn /\ Init /\ AlertsInit

LoggedInScene == \A i \in Ids : logged[i] # Unset => logged[i].kind \in LoggedIn[scene]

ScenesNext ==
    \/ scene = "digest" /\ Next /\ UNCHANGED <<scene, alertVars>>
    \/ scene # "digest" /\ AlertsNext /\ UNCHANGED <<scene, vars>> /\ LoggedInScene'

ScenesSpec == ScenesInit /\ [][ScenesNext]_<<scene, vars, alertVars>>
=============================================================================
