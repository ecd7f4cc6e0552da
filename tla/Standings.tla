----------------------------- MODULE Standings -----------------------------
(***************************************************************************)
(* The places of the teams: totals, eligibility and the breaking of ties   *)
(* (lib/publicLeaderboard, lib/dashboard/standings, lib/tieBreak).         *)
(*                                                                         *)
(* `score' gives each element the function of its teams' points, `manual'  *)
(* each team its additional penalties.  A row is a team's total, additional*)
(* penalties, class and points by element.  An element that counts for the *)
(* places is [checkpoint, cancelled]; a rule is [kind, element, order].    *)
(***************************************************************************)
EXTENDS ScoreCalculators

-----------------------------------------------------------------------------
(* The rows.                                                                *)

Eligible(team) == ~team.hc /\ team.hcFrom = Null /\ team.dnfFrom = Null

ByElement(score, t) == [e \in {x \in DOMAIN score : t \in DOMAIN score[x]} |-> score[e][t]]

Rows(comp, team, score, manual) ==
    [t \in {x \in DOMAIN team : Eligible(team[x])} |->
        LET points == ByElement(score, t)
        IN  [total |-> Round3(SumFunction(points) + Side(comp, -manual[t], manual[t]), 1),
             manual |-> manual[t], class |-> team[t].class, byElement |-> points]]

-----------------------------------------------------------------------------
(* Ties.                                                                    *)

Selected(element, config) ==
    {e \in DOMAIN element : ~element[e].cancelled
        /\ IF config.elements = Null THEN element[e].checkpoint ELSE e \in config.elements}

HasScore(rows, e, t) == e \in DOMAIN rows[t].byElement

\* A team's place in an element among the rows of the scope.
ElementPlace(comp, rows, scope, e, t) ==
    1 + Cardinality({u \in scope : HasScore(rows, e, u)
            /\ Cost(comp, rows[u].byElement[e]) < Cost(comp, rows[t].byElement[e])})

\* A rule applies to a group of equal totals only if every team of it has what the
\* rule compares.
Applies(element, config, rows, G, rule) ==
    CASE rule.kind \in {"BEST_PLACES", "BEST_WORST"} ->
            /\ Selected(element, config) # {}
            /\ \A t \in G, e \in Selected(element, config) : HasScore(rows, e, t)
      [] rule.kind = "PREFERRED_ELEMENT" ->
            /\ rule.element \in DOMAIN element /\ ~element[rule.element].cancelled
            /\ \A t \in G : HasScore(rows, rule.element, t)
      [] OTHER -> TRUE

\* What a rule compares, the smaller first: a sequence of numbers.  The code compares
\* sorted places, the worst first; so does whoever counts how often each occurs, from the
\* worst place on.
Vector(comp, element, config, rows, scope, rule, t) ==
    LET selected == Selected(element, config)
        place == [e \in selected |-> ElementPlace(comp, rows, scope, e, t)]
        Times(n) == Cardinality({e \in selected : place[e] = n})
        listed == {i \in DOMAIN rule.order : rule.order[i] = t}
    IN  CASE rule.kind = "BEST_PLACES" -> [n \in 1..Cardinality(scope) |-> -Times(n)]
          [] rule.kind = "BEST_WORST" ->
                [n \in 1..Cardinality(scope) |-> Times(Cardinality(scope) + 1 - n)]
          [] rule.kind = "PREFERRED_ELEMENT" -> <<Cost(comp, rows[t].byElement[rule.element])>>
          [] rule.kind = "FEWER_PENALTIES" -> <<rows[t].manual>>
          [] rule.kind = "MANUAL" ->
                IF listed = {} THEN <<Len(rule.order)>> ELSE <<(CHOOSE i \in listed : TRUE) - 1>>

Less(a, b) == \E i \in DOMAIN a : a[i] < b[i] /\ \A j \in 1..(i - 1) : a[j] = b[j]

\* What the i-th rule compares of the teams of a group; nothing if it does not apply.
Compared(comp, element, config, rows, scope, G, i, t) ==
    IF Applies(element, config, rows, G, config.rules[i])
    THEN Vector(comp, element, config, rows, scope, config.rules[i], t) ELSE <<>>

\* The first rule decides that tells the two apart.
AheadInTie(comp, element, config, rows, scope, G, t, u) ==
    LET Part(i, v) == Compared(comp, element, config, rows, scope, G, i, v)
    IN  \E i \in DOMAIN config.rules :
            Less(Part(i, t), Part(i, u)) /\ \A j \in 1..(i - 1) : Part(j, t) = Part(j, u)

-----------------------------------------------------------------------------
(* The ranking of a scope: everybody, or one class.                         *)

\* A team takes its place before the first that it is ahead of.
Inserted(ahead, seq, t) ==
    LET later == {i \in DOMAIN seq : <<t, seq[i]>> \in ahead}
        place == IF later = {} THEN Len(seq) + 1 ELSE CHOOSE i \in later : \A j \in later : i <= j
    IN  [i \in 1..(Len(seq) + 1) |->
            IF i < place THEN seq[i] ELSE IF i = place THEN t ELSE seq[i - 1]]

\* The sort of one group by the pairs `ahead'.  `order' is the order of the rows; it
\* decides between equal teams (the code's sort falls back on the team's code).
Sorted(ahead, order, G) ==
    LET after[n \in 0..Len(order)] ==
            IF n = 0 THEN <<>>
            ELSE IF order[n] \in G THEN Inserted(ahead, after[n - 1], order[n]) ELSE after[n - 1]
    IN  after[Len(order)]

Splits(ahead, seq, i) ==
    i = 1 \/ {<<seq[i - 1], seq[i]>>, <<seq[i], seq[i - 1]>>} \cap ahead # {}

\* Mutant: the next place follows the shared one (1, 1, 2).
ConsecutivePlaces(before, ahead, seq) ==
    [i \in DOMAIN seq |-> before + Cardinality({k \in 1..i : Splits(ahead, seq, k)})]

\* Equal neighbours share a place, and the next place skips the shared ones (1, 1, 3).
SharedPlaces(before, ahead, seq) ==
    LET FirstOf(i) == CHOOSE k \in 1..i : /\ Splits(ahead, seq, k)
                                         /\ \A j \in (k + 1)..i : ~Splits(ahead, seq, j)
    IN  [i \in DOMAIN seq |-> before + FirstOf(i)]

TiedWith(comp, rows, scope, t) == {u \in scope : rows[u].total = rows[t].total}

ScopeRank(comp, element, config, rows, order, scope) ==
    [t \in scope |->
        LET G == TiedWith(comp, rows, scope, t)
            better == {u \in scope : Cost(comp, rows[u].total) < Cost(comp, rows[t].total)}
            ahead == {p \in G \X G : AheadInTie(comp, element, config, rows, scope, G, p[1], p[2])}
            seq == Sorted(ahead, order, G)
        IN  SharedPlaces(Cardinality(better), ahead, seq)[CHOOSE i \in DOMAIN seq : seq[i] = t]]

RankLeaderboard(comp, element, config, rows, order) ==
    LET overall == ScopeRank(comp, element, config, rows, order, DOMAIN rows)
        OfClass(c) == {u \in DOMAIN rows : rows[u].class = c}
    IN  [t \in DOMAIN rows |->
            [rank |-> overall[t],
             classRank |-> IF rows[t].class = Null THEN 0
                           ELSE ScopeRank(comp, element, config, rows, order,
                                          OfClass(rows[t].class))[t]]]
=============================================================================
