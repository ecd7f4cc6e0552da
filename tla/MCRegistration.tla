--------------------------- MODULE MCRegistration ---------------------------
(***************************************************************************)
(* Values for the constants of Registration: the ranking is the one that   *)
(* RegistrationAllocation computes for these rules, which is checked.      *)
(***************************************************************************)
EXTENDS Registration

CONSTANTS k1, k2, e1, e2

Allocation == INSTANCE RegistrationAllocation WITH NoValue <- None

\* First come first served, and one guaranteed place for each class.
MCRules == {"ORDER", "GUARANTEE"}

RuleSet(rules) ==
    IF rules = "ORDER" THEN {}
    ELSE {[id |-> 1, order |-> 1, type |-> "GROUP_GUARANTEE", source |-> "CLASS",
           field |-> None, values |-> {}, quota |-> 1]}

\* The first of each class goes before the others, if each class has a place.
Goes(pool, class, rules, a, b) ==
    LET first(e) == \A o \in pool : class[o] = class[e] => e <= o
    IN  IF rules = "GUARANTEE" /\ first(a) # first(b) THEN first(a) ELSE a < b

MCRanking(pool, class, rules) ==
    [a \in pool |-> Cardinality({b \in pool : Goes(pool, class, rules, b, a)}) + 1]

\* That is the order in which the allocation gives the places.
ASSUME RankingIsTheAllocation ==
    \A pool \in SUBSET Applications, class \in [Applications -> Classes], rules \in MCRules :
        LET cand == [a \in pool |-> [submittedAt |-> a, createdAt |-> a,
                                     class |-> class[a], answers |-> <<>>]]
        IN  MCRanking(pool, class, rules)
              = Allocation!RankOf(Allocation!AllocationOrder(cand, RuleSet(rules), FALSE))

\* A list that repeats an e-mail, one with a line without a name and the e-mail
\* of a member of another team, and lists without e-mails.
MCRosters == {<<e1, e1>>, <<Nobody, e2>>}
MCNoEmails == {<<None>>}
MCAccepted == {{}, Applications \X Emails \X (Lines \cup {0})}

\* What a step reads: the history and the notifications are written only.
WithoutRecords == <<row, phaseVars, teamVars, save, edit>>

Choice(capacity, rules, mode, override, window) ==
    [capacity |-> capacity, rules |-> rules, approvalMode |-> mode,
     override |-> override, window |-> window]

\* One place in order, closing by time; two places by class, held
\* open; manual approval, held open.
MCSettings == {
    Choice(1, "ORDER", "AUTOMATIC", "AUTO", "OPEN"),
    Choice(2, "GUARANTEE", "AUTOMATIC", "OPEN", "CLOSED"),
    Choice(0, "ORDER", "MANUAL", "OPEN", "CLOSED")}

\* One place, by an automatic registration that is open and a manual one that
\* opens later: a save between them recalculates what was decided by hand.
MCRaceSettings == {
    Choice(1, "ORDER", "AUTOMATIC", "AUTO", "OPEN"),
    Choice(1, "ORDER", "MANUAL", "AUTO", "NOT_OPEN")}
=============================================================================
