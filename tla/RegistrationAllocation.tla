----------------------- MODULE RegistrationAllocation -----------------------
(***************************************************************************)
(* The place allocation of a competition: which registration applications  *)
(* get a place, which wait, and in what order (lib/registrationAllocation).*)
(*                                                                         *)
(* `cand' is a function from application ids to the data the algorithm     *)
(* looks at: [submittedAt, createdAt, class, answers], where answers is a  *)
(* function from the ids of the form fields that are answered.  A rule is  *)
(* [id, order, type, source, field, values, quota].  Capacity 0 stands for *)
(* null: the settings handler accepts only null or a positive number.      *)
(***************************************************************************)
EXTENDS Integers, FiniteSets, Sequences

CONSTANT NoValue    \* a null class or an unanswered form field

NoCapacity == 0

-----------------------------------------------------------------------------
(* Registration order and rule matching.                                   *)

Precedes(cand, a, b) ==
    \/ cand[a].submittedAt < cand[b].submittedAt
    \/ /\ cand[a].submittedAt = cand[b].submittedAt
       /\ \/ cand[a].createdAt < cand[b].createdAt
          \/ cand[a].createdAt = cand[b].createdAt /\ a < b

\* The elements of a set in a strict order of them, given as a set of pairs: each one
\* comes after as many as are before it.
Arranged(S, before) ==
    [i \in 1..Cardinality(S) |->
        CHOOSE e \in S : Cardinality({o \in S : <<o, e>> \in before}) = i - 1]

RegistrationOrder(cand) ==
    Arranged(DOMAIN cand, {p \in (DOMAIN cand) \X (DOMAIN cand) : Precedes(cand, p[1], p[2])})

SourceValue(cand, a, rule) ==
    IF rule.source = "CLASS" THEN cand[a].class
    ELSE IF rule.field \in DOMAIN cand[a].answers THEN cand[a].answers[rule.field]
    ELSE NoValue

MatchesRule(cand, a, rule) ==
    /\ SourceValue(cand, a, rule) # NoValue
    /\ rule.values = {} \/ SourceValue(cand, a, rule) \in rule.values

Matching(cand, rule) == {a \in DOMAIN cand : MatchesRule(cand, a, rule)}

-----------------------------------------------------------------------------
(* Picking: the next application of a group, in the order of the stage.    *)

Chosen(picked) == {picked[i] : i \in DOMAIN picked}

ClassCount(cand, picked, c) ==
    Cardinality({a \in Chosen(picked) : cand[a].class = c})

GoesBefore(cand, picked, balanced, a, b) ==
    LET countA == ClassCount(cand, picked, cand[a].class)
        countB == ClassCount(cand, picked, cand[b].class)
    IN  IF balanced /\ countA # countB
        THEN countA < countB
        ELSE Precedes(cand, a, b)

NextCandidate(cand, available, picked, balanced) ==
    CHOOSE a \in available :
        \A b \in available \ {a} : GoesBefore(cand, picked, balanced, a, b)

PickNext(cand, group, picked, balanced) ==
    LET available == group \ Chosen(picked)
    IN  IF available = {} THEN picked
        ELSE Append(picked, NextCandidate(cand, available, picked, balanced))

\* Every application of the group that is not picked yet, one by one.
PickAll(cand, group, picked, balanced) ==
    LET after[i \in 0..Cardinality(group)] ==
            IF i = 0 THEN picked ELSE PickNext(cand, group, after[i - 1], balanced)
    IN  after[Cardinality(group)]

-----------------------------------------------------------------------------
(* The three stages.                                                       *)

\* The rules of a type, in the order that the organiser has given them.
OrderedRules(rules, type) ==
    LET S == {r \in rules : r.type = type}
        before == {p \in S \X S : \/ p[1].order < p[2].order
                                  \/ p[1].order = p[2].order /\ p[1].id < p[2].id}
    IN  Arranged(S, before)

\* The groups of a guarantee, ordered by their earliest applications.
GroupOf(cand, rule, v) == {a \in Matching(cand, rule) : SourceValue(cand, a, rule) = v}
GroupsOf(cand, rule) ==
    {GroupOf(cand, rule, SourceValue(cand, a, rule)) : a \in Matching(cand, rule)}
GuaranteeGroups(cand, rule) ==
    LET groups == GroupsOf(cand, rule)
        before == {p \in groups \X groups :
                      p[1] # p[2] /\ \E a \in p[1] : \A b \in p[2] : Precedes(cand, a, b)}
    IN  Arranged(groups, before)

\* Mutants: the quota is missed by one; a group smaller than the quota gets nothing.
OfferOneShort(cand, rule, group, picked, balanced) ==
    IF Cardinality(group \cap Chosen(picked)) + 1 >= rule.quota THEN picked
    ELSE PickNext(cand, group, picked, balanced)
OfferFullGroups(cand, rule, group, picked, balanced) ==
    IF \/ Cardinality(group) < rule.quota
       \/ Cardinality(group \cap Chosen(picked)) >= rule.quota
    THEN picked
    ELSE PickNext(cand, group, picked, balanced)

\* A place for a group that is below the quota.
Offer(cand, rule, group, picked, balanced) ==
    IF Cardinality(group \cap Chosen(picked)) >= rule.quota THEN picked
    ELSE PickNext(cand, group, picked, balanced)

GuaranteeRound(cand, rule, picked, balanced) ==
    LET groups == GuaranteeGroups(cand, rule)
        after[i \in 0..Len(groups)] ==
            IF i = 0 THEN picked ELSE Offer(cand, rule, groups[i], after[i - 1], balanced)
    IN  after[Len(groups)]

\* Rounds are repeated until one makes no progress; a round that makes none
\* is followed by none that does, so as many rounds as applications suffice.
ApplyGuarantee(cand, rule, picked, balanced) ==
    LET after[i \in 0..Cardinality(DOMAIN cand)] ==
            IF i = 0 THEN picked ELSE GuaranteeRound(cand, rule, after[i - 1], balanced)
    IN  after[Cardinality(DOMAIN cand)]

Guaranteed(cand, rules, balanced) ==
    LET guarantees == OrderedRules(rules, "GROUP_GUARANTEE")
        after[i \in 0..Len(guarantees)] ==
            IF i = 0 THEN <<>> ELSE ApplyGuarantee(cand, guarantees[i], after[i - 1], balanced)
    IN  after[Len(guarantees)]

Preferred(cand, rules, picked, balanced) ==
    LET priorities == OrderedRules(rules, "PRIORITY")
        after[i \in 0..Len(priorities)] ==
            IF i = 0 THEN picked
            ELSE PickAll(cand, Matching(cand, priorities[i]), after[i - 1], balanced)
    IN  after[Len(priorities)]

\* The order in which places are given when there are too few of them.
AllocationOrder(cand, rules, balanced) ==
    PickAll(cand, DOMAIN cand,
            Preferred(cand, rules, Guaranteed(cand, rules, balanced), balanced), balanced)

\* The place of each application in an order.
RankOf(order) == [e \in Chosen(order) |-> CHOOSE i \in DOMAIN order : order[i] = e]

\* Mutant: no capacity is taken for no places.
UnlimitedByNumber(cand, capacity) == capacity >= Cardinality(DOMAIN cand)

Unlimited(cand, capacity) ==
    capacity = NoCapacity \/ capacity >= Cardinality(DOMAIN cand)

\* allocateRegistrationPlaces: the confirmed and the waitlisted ids, in order.
Allocate(cand, capacity, rules, balanced) ==
    IF Unlimited(cand, capacity)
    THEN [confirmed |-> RegistrationOrder(cand), waitlisted |-> <<>>]
    ELSE LET order == AllocationOrder(cand, rules, balanced)
         IN  [confirmed  |-> SubSeq(order, 1, capacity),
              waitlisted |-> SubSeq(order, capacity + 1, Len(order))]
=============================================================================
