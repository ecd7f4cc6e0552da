---------------------------- MODULE SeriesRanking ----------------------------
(***************************************************************************)
(* The national ranking of several competitions (lib/seriesScoring,        *)
(* lib/seriesRanking): the points of a checkpoint are calculated anew from *)
(* the results of the same checkpoint in all competitions, and a team's    *)
(* total is its N best checkpoints and all its penalties.                  *)
(*                                                                         *)
(* A competition is [comp, team, element, option, result, score, manual,   *)
(* source].  `option' gives the content of its technical choice ids, which *)
(* differ between competitions: a label and points.  `source' says whether *)
(* the raw results are there (an old freeze has only points).  Checkpoints *)
(* are named by their code.  Teams of different competitions differ.       *)
(***************************************************************************)
EXTENDS Standings, TLC

SeriesEligible(team) == Eligible(team) /\ ~team.dns

Checkpoints(ov) == {e \in DOMAIN ov.element : ov.element[e].role = "KP" /\ ~ov.element[e].cancelled}

-----------------------------------------------------------------------------
(* The checkpoints' points from the results of all competitions.            *)

\* Mutant: the choice keeps its technical id.
SameId(from, to, id) == id

\* A choice becomes the target's choice of the same label and points, if there is one.
TranslateChoice(from, to, id) ==
    LET equivalent == {x \in DOMAIN to : id \in DOMAIN from /\ to[x] = from[id]}
    IN  IF equivalent = {} THEN id ELSE CHOOSE x \in equivalent : TRUE

ChoiceValue(option, id) == IF id \in DOMAIN option THEN option[id].points ELSE 0

Entrants(ov, e) == {t \in DOMAIN ov.result[e] : SeriesEligible(ov.team[t])}

\* The competitions whose raw results of checkpoint e are there.
Sources(series, ov, e) == {i \in DOMAIN series : series[i].source /\ e \in Checkpoints(series[i])}

\* A result with the points of its choice for an answer, in competition ov.
Translated(from, ov, result) ==
    LET value == ChoiceValue(ov.option, TranslateChoice(from.option, ov.option, result.choice))
    IN  [result EXCEPT !.parts = <<[value |-> value, tie |-> Null]>>]

\* The eligible teams' results in checkpoint e, as results of competition ov.
Pooled(series, ov, e) ==
    FoldLeft(LAMBDA all, i :
                IF i \in Sources(series, ov, e)
                THEN all @@ [t \in Entrants(series[i], e) |-> Translated(series[i], ov, series[i].result[e][t])]
                ELSE all,
             <<>>, [i \in DOMAIN series |-> i])

\* The eligible teams of a scope, in all competitions.
EligibleTeams(series) ==
    FoldLeft(LAMBDA all, ov : all @@ [t \in {x \in DOMAIN ov.team : SeriesEligible(ov.team[x])} |-> ov.team[t]],
             <<>>, series)

Registered(comp, teams) ==
    LET keys == {ScopeKey(s, teams[t].class, comp.groups) : s \in {"ALL", "CLASS", "GROUP"}, t \in DOMAIN teams}
    IN  [k \in keys |-> Cardinality({t \in DOMAIN teams :
            \E s \in {"ALL", "CLASS", "GROUP"} : ScopeKey(s, teams[t].class, comp.groups) = k})]

\* The points of the competition's teams in its checkpoint e, by the competition's
\* rules, among the teams of all competitions.
OwnPoints(ov, points) == [t \in DOMAIN points \cap DOMAIN ov.team |-> points[t]]
SeriesPoints(series, ov, e) ==
    LET teams == EligibleTeams(series)
        comp == [ov.comp EXCEPT !.registered = Registered(ov.comp, teams)]
    IN  OwnPoints(ov, ComputeScores(ov.element[e], comp, teams, Pooled(series, ov, e)))

MixedModes(series) == \E i, j \in DOMAIN series : series[i].comp.plus # series[j].comp.plus

\* The scores the ranking uses: recalculated, unless the modes differ or the
\* competition has only points.
SeriesScores(series, ov) ==
    [e \in DOMAIN ov.element |->
        IF MixedModes(series) \/ ~ov.source \/ e \notin Checkpoints(ov) THEN ov.score[e]
        ELSE SeriesPoints(series, ov, e)]

-----------------------------------------------------------------------------
(* The ranking.                                                             *)

Started(ov) ==
    {t \in DOMAIN ov.team : SeriesEligible(ov.team[t])
        /\ \E e \in Checkpoints(ov) : t \in DOMAIN ov.result[e]}

PassedCount(ov, t) ==
    Cardinality({e \in Checkpoints(ov) : t \in DOMAIN ov.result[e]
                    /\ ov.result[e][t].kind \in {Null, "FAILED", "PASSED_NOT_DONE"}})

\* The rounded average number of passed checkpoints of a competition.
RoundedAverage(ov) ==
    RoundDiv(SumFunction([t \in Started(ov) |-> PassedCount(ov, t)]), Cardinality(Started(ov)))

\* How many checkpoints count: the smallest rounded average of the competitions.
CountedKpCount(series) ==
    LET averages == {RoundedAverage(series[i]) : i \in {j \in DOMAIN series : Started(series[j]) # {}}}
    IN  CHOOSE n \in averages : \A m \in averages : n <= m

\* Mutant: the most points first, in both scoring modes.
MostPointsFirst(ov, points) ==
    SetToSortSeq(DOMAIN points, LAMBDA d, e : points[d] > points[e]
                    \/ (points[d] = points[e] /\ ov.element[d].order < ov.element[e].order))

BestFirst(ov, points) ==
    SetToSortSeq(DOMAIN points, LAMBDA d, e : Cost(ov.comp, points[d]) < Cost(ov.comp, points[e])
                    \/ (points[d] = points[e] /\ ov.element[d].order < ov.element[e].order))

\* A team's total: its N best checkpoints, the penalties of the elements and the
\* additional ones.
KpTotal(n, ov, score, t) ==
    LET points == ByElement([e \in Checkpoints(ov) |-> score[e]], t)
        best == BestFirst(ov, points)
    IN  SumFunctionOnSet(points, {best[i] : i \in {j \in DOMAIN best : j <= n}})

PenaltyTotal(ov, score, t) ==
    LET elements == {e \in DOMAIN ov.element : ov.element[e].role = "PENALTY" /\ ~ov.element[e].cancelled}
    IN  SumFunction(ByElement([e \in elements |-> score[e]], t))
            + Side(ov.comp, -ov.manual[t], ov.manual[t])

SeriesTotals(series, score) ==
    LET n == CountedKpCount(series)
    IN  FoldLeft(LAMBDA all, i :
                    all @@ [t \in Started(series[i]) |->
                              Round3(KpTotal(n, series[i], score[i], t)
                                       + PenaltyTotal(series[i], score[i], t), 1)],
                 <<>>, [i \in DOMAIN series |-> i])

\* Equal totals share a place, over all competitions and over their classes.
\* `score' is what SeriesScores gives for each competition.
SeriesRanks(series, score) ==
    IF MixedModes(series) THEN <<>>
    ELSE LET total == SeriesTotals(series, score)
             team == EligibleTeams(series)
             Place(T, t) == 1 + Cardinality({u \in T : Cost(series[1].comp, total[u])
                                                         < Cost(series[1].comp, total[t])})
         IN  [t \in DOMAIN total |->
                [rank |-> Place(DOMAIN total, t),
                 classRank |-> IF team[t].class = Null THEN 0
                     ELSE Place({u \in DOMAIN total : team[u].class = team[t].class}, t)]]
=============================================================================
