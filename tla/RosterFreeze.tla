---------------------------- MODULE RosterFreeze ----------------------------
(***************************************************************************)
(* What the registration promises, without how it decides: each applicant  *)
(* is deliberated about until the list is frozen, once; the frozen list    *)
(* has no open application and one team for each admitted one.             *)
(***************************************************************************)
EXTENDS Naturals

CONSTANT Applications

VARIABLES
    standing,   \* absent, open, admitted or out
    frozen,     \* the list is final
    teams       \* how many teams each application was turned into
vars == <<standing, frozen, teams>>

Init ==
    /\ standing = [a \in Applications |-> "absent"]
    /\ frozen = FALSE
    /\ teams = [a \in Applications |-> 0]

\* Before the freeze any decision may be taken or revised, but an application
\* that has been submitted is never lost.
Deliberate ==
    /\ ~frozen
    /\ standing' \in [Applications -> {"absent", "open", "admitted", "out"}]
    /\ \A a \in Applications : standing'[a] = "absent" => standing[a] = "absent"
    /\ UNCHANGED <<frozen, teams>>

FreezeRoster ==
    /\ ~frozen
    /\ \A a \in Applications : standing[a] # "open"
    /\ frozen' = TRUE
    /\ teams' = [a \in Applications |-> IF standing[a] = "admitted" THEN 1 ELSE 0]
    /\ UNCHANGED standing

Next == Deliberate \/ FreezeRoster

Spec == Init /\ [][Next]_vars
=============================================================================
