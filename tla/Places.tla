------------------------------- MODULE Places -------------------------------
(***************************************************************************)
(* The arena of the allocation.  Its inputs are produced the way a         *)
(* competition produces them: applications arrive and leave, and the       *)
(* organiser changes the capacity, under rules and a class balance that he *)
(* has chosen.  After each such change the places are recalculated.        *)
(***************************************************************************)
EXTENDS Arenas, RegistrationAllocation

CONSTANTS Profiles,     \* what applicants fill in: pairs of a class and answers
          RuleSets,     \* the sets of rules that are tried
          MaxArrivals,  \* bound: applications ever submitted
          MaxCapacity   \* bound: the largest capacity tried

\* Rules have ids of their own, and a guarantee has a quota
\* (api/competitions/[id]/registration-settings/route.ts validates it).
SoundRules(rules) ==
    /\ IsFiniteSet(rules)
    /\ \A r \in rules : r.order \in Int /\ r.id \in Int
    /\ \A r, q \in rules : r.id = q.id => r = q
    /\ \A r \in rules : r.type = "GROUP_GUARANTEE" => r.quota \in Nat
ASSUME RuleSetsAssumption == \A rules \in RuleSets : SoundRules(rules)
ASSUME PlacesBoundAssumption == MaxArrivals \in Nat /\ MaxCapacity \in Nat

Allocated(in) == Allocate(in.cand, in.capacity, in.rules, in.balanced)

PlacesInit ==
    /\ arena = "places"
    /\ \E cap \in {NoCapacity, 1}, rs \in RuleSets, bal \in BOOLEAN :
         input = [cand |-> <<>>, submitted |-> 0, capacity |-> cap, rules |-> rs, balanced |-> bal]
    /\ outcome = Allocated(input)

Reallocated(in) == input' = in /\ outcome' = Allocated(in) /\ UNCHANGED arena

\* Applications come in pairs with equal timestamps, so that ties occur.
Arrive(class, answers) ==
    /\ arena = "places" /\ input.submitted < MaxArrivals
    /\ LET i == input.submitted + 1
           time == (i + 1) \div 2
           new == [submittedAt |-> time, createdAt |-> time, class |-> class, answers |-> answers]
       IN  Reallocated([input EXCEPT
               !.submitted = i,
               !.cand = [j \in DOMAIN @ \cup {i} |-> IF j = i THEN new ELSE @[j]]])

Leave ==
    /\ arena = "places"
    /\ \E i \in DOMAIN input.cand :
         Reallocated([input EXCEPT !.cand = [j \in DOMAIN @ \ {i} |-> @[j]]])

ChangeCapacity(n) ==
    /\ arena = "places"
    /\ Reallocated([input EXCEPT !.capacity = n])

PlacesNext ==
    \/ \E p \in Profiles : Arrive(p[1], p[2])
    \/ Leave
    \/ \E n \in 0..MaxCapacity : ChangeCapacity(n)

PlacesSpec == PlacesInit /\ [][PlacesNext]_arenaVars

-----------------------------------------------------------------------------
Confirmed == Chosen(outcome.confirmed)
Limited == ~Unlimited(input.cand, input.capacity)
Guarantees(rules) == {r \in rules : r.type = "GROUP_GUARANTEE"}

\* What a guarantee promises to a group: its quota, or places for all if they are fewer.
Due(rule, group) ==
    IF Cardinality(group) < rule.quota THEN Cardinality(group) ELSE rule.quota

\* The places that the guarantees ask for together: one for each that is due.
Owed(cand, rules) ==
    UNION {UNION {{<<r, g>>} \X (1..Due(r, g)) : g \in GroupsOf(cand, r)} : r \in Guarantees(rules)}

\* A guarantee that fits is honoured: when the places that the guarantees ask
\* for together fit the capacity, every group of every guarantee has what is due
\* to it among the confirmed.  One that does not fit is shared: the rounds of the only
\* guarantee keep the groups' places within one of each other unless the poorer group
\* has all that is due to it (comment above allocateRegistrationPlaces: the first group
\* must not take all).
GuaranteesHonoured ==
    (arena = "places" /\ Limited) =>
        LET guarantees == Guarantees(input.rules)
            groups(r) == GroupsOf(input.cand, r)
            got(group) == Cardinality(group \cap Confirmed)
        IN  /\ Cardinality(Owed(input.cand, input.rules)) <= input.capacity =>
                 \A r \in guarantees : \A g \in groups(r) : got(g) >= Due(r, g)
            /\ \A r \in guarantees : guarantees = {r} =>
                 \A g, h \in groups(r) : got(g) <= got(h) + 1 \/ got(h) >= Due(r, h)

\* What makes room: a larger capacity, or none; an application that leaves, under one
\* rule or under priorities alone and without the class balance (competing guarantees and
\* the balance give no such promise: who is picked next depends on who was picked before).
MoreCapacity ==
    /\ input.capacity # NoCapacity
    /\ input'.capacity = NoCapacity \/ input'.capacity > input.capacity
Room == \/ MoreCapacity
        \/ /\ ~input.balanced
           /\ Cardinality(input.rules) <= 1 \/ Guarantees(input.rules) = {}

\* Nobody loses a place because there is more room, although guarantees are given out
\* in rounds whose order depends on the groups that are left
\* (lib/registrationAllocation.ts:136-214).
NobodyIsDemoted ==
    [][(arena = "places" /\ Room /\ DOMAIN input'.cand \subseteq DOMAIN input.cand
            /\ (input'.capacity = input.capacity \/ MoreCapacity))
        => Confirmed \cap DOMAIN input'.cand \subseteq Confirmed']_arenaVars
=============================================================================
