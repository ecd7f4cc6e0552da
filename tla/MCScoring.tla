------------------------------ MODULE MCScoring ------------------------------
(***************************************************************************)
(* What is tried in the arenas of one element and of the leaderboard, and  *)
(* the arena of a series of two competitions.  Team d is the one with a    *)
(* changing status.                                                        *)
(***************************************************************************)
EXTENDS MCArenas, ElementPoints, Leaderboard, SeriesRanking

MCTeams == {a, b, c, d}
Member(cls) == [class |-> cls, hc |-> FALSE, hcFrom |-> Null, dnfFrom |-> Null, dns |-> FALSE]
Team == a :> Member(k1) @@ b :> Member(k1) @@ c :> Member(k2) @@ d :> Member(k1)

\* Out of competition as a whole, from the element on, from a later one on, and left.
Statuses == {[Member(k1) EXCEPT !.hc = TRUE], [Member(k1) EXCEPT !.hcFrom = 2],
             [Member(k1) EXCEPT !.hcFrom = 3], [Member(k1) EXCEPT !.dnfFrom = 2]}

Groups == k1 :> "both"
Comp(plus) == [plus |-> plus, registered |-> <<>>, groups |-> Groups]

-----------------------------------------------------------------------------
(* One element, the second of the competition.                              *)

P(n) == n * Scale
Part(type) ==
    [type |-> type, higher |-> TRUE, min |-> P(1), max |-> P(10), tieBreak |-> "NONE",
     points |-> <<>>, mode |-> "PARTIAL", scope |-> "ALL", base |-> P(1), step |-> P(2), total |-> 3]

\* A table of places: the best first, and the points of the last place.
Table(plus, mode) ==
    [Part("FIXED_RANKING") EXCEPT !.mode = mode, !.tieBreak = "HIGHER",
        !.points = IF plus THEN <<P(9), P(7)>> ELSE <<P(0), P(5)>>,
        !.min = IF plus THEN P(2) ELSE P(9)]
Counting(scope) == [Part("FIXED_RANKING") EXCEPT !.mode = "REGISTERED_COUNT", !.scope = scope]

PartLists(plus) ==
    {<<[Part("RELATIVE_RANKING") EXCEPT !.tieBreak = "TIME"]>>,
     <<[Part("RELATIVE_RANKING") EXCEPT !.higher = FALSE]>>,
     <<[Part("VALUE_BASED") EXCEPT !.tieBreak = "LOWER"]>>,
     <<[Part("VALUE_BASED") EXCEPT !.higher = FALSE]>>,
     <<Part("FIXED_RANKING")>>, <<Table(plus, "PARTIAL")>>, <<Table(plus, "MANUAL_ALL")>>,
     <<Counting("ALL")>>, <<Counting("CLASS")>>, <<Counting("GROUP")>>,
     <<Part("ABSOLUTE_TIME")>>, <<Part("ABSOLUTE_POINTS")>>, <<Part("ABSOLUTE_PENALTY")>>,
     <<Part("PERFORMANCE_BASED")>>, <<Part("DIRECT_ENTRY")>>,
     <<[Part("RELATIVE_RANKING") EXCEPT !.tieBreak = "TIME"], Part("PERFORMANCE_BASED")>>}

Element(parts) ==
    [order |-> 2, cancelled |-> FALSE, misc |-> FALSE, parts |-> parts, bonus |-> (b :> P(5))]

Result(value, tie, kind) ==
    [parts |-> <<[value |-> value, tie |-> tie], [value |-> value, tie |-> Null]>>,
     kind |-> kind, penalty |-> P(-3)]
MCResults(t) ==
    {Result(2, 1, Null), Result(3, 1, "FAILED")}
        \cup (IF t = d THEN {} ELSE {Result(1, 1, Null)})
        \cup (IF t = b THEN {Result(1, 2, Null)} ELSE {})
        \cup (IF t = a THEN {Result(1, 1, "OTHER"), Result(1, Null, Null)} ELSE {})

MCSettings ==
    UNION {{[comp |-> Comp(plus), element |-> Element(parts), team |-> [Team EXCEPT ![d] = s]] :
               parts \in PartLists(plus), s \in Statuses} : plus \in BOOLEAN}

ASSUME SettingsAreSound

-----------------------------------------------------------------------------
(* A leaderboard of two checkpoints, and rules for ties.                    *)

Rule(kind) == [kind |-> kind, element |-> x, order |-> <<c, a>>]
RuleLists == {<<Rule("BEST_PLACES"), Rule("FEWER_PENALTIES")>>, <<Rule("BEST_WORST")>>,
              <<Rule("PREFERRED_ELEMENT"), Rule("MANUAL")>>}
Checkpoint == [checkpoint |-> TRUE, cancelled |-> FALSE]
MCBoards ==
    {[comp |-> Comp(plus), element |-> (x :> Checkpoint @@ y :> Checkpoint),
      config |-> [elements |-> Null, rules |-> rules],
      team |-> [Team EXCEPT ![c].dnfFrom = left, ![d].hc = TRUE],
      manual |-> [t \in MCTeams |-> IF t = a THEN P(1) ELSE 0]] :
        plus \in BOOLEAN, rules \in RuleLists, left \in {Null, 2}}
MCBoardTeams == {a, b, c}
MCPointValues == {0, P(1)}
MCOrders == {<<a, b, c, d>>, <<c, a, d, b>>}

ASSUME BoardsAreSound

-----------------------------------------------------------------------------
(* The arena of the series: a and b in one competition, c and d in another. *)

Answer(choice, kind) == [Result(0, Null, kind) EXCEPT !.kind = kind] @@ [choice |-> choice]
Answers(t, e) ==
    IF e = x THEN {Answer(x, Null), Answer(y, Null)}
                      \cup (IF t = a THEN {Answer(x, "FAILED"), Answer(x, "NOT_PASSED")} ELSE {})
    ELSE IF t \in {a, c} THEN {Answer(x, Null), Answer(y, Null)} ELSE {}

Competition(comp, teams, parts, option, source) ==
    [comp |-> comp, team |-> [t \in teams |-> Team[t]], option |-> option, source |-> source,
     element |-> [e \in {x, y} |-> [role |-> "KP", order |-> IF e = x THEN 1 ELSE 2]
                                     @@ [Element(parts) EXCEPT !.bonus = <<>>]],
     result |-> [e \in {x, y} |-> <<>>],
     score |-> [e \in {x, y} |-> [t \in teams |-> P(3)]],
     manual |-> [t \in teams |-> IF t = a THEN P(1) ELSE 0]]

AllScores(in) == [i \in DOMAIN in.series |-> SeriesScores(in.series, in.series[i])]
SeriesOutcome(in, score) ==
    [score |-> score, rank |-> IF \E i \in DOMAIN in.series : Started(in.series[i]) # {}
                               THEN SeriesRanks(in.series, score) ELSE <<>>]

\* The same choices under each other's ids.
Few == [label |-> "few", points |-> 1]
Many == [label |-> "many", points |-> 2]

SeriesInit ==
    /\ arena = "series"
    /\ \E plus \in BOOLEAN, status \in {<<TRUE, FALSE>>, <<TRUE, TRUE>>, <<FALSE, FALSE>>} :
       \E part \in {Part("RELATIVE_RANKING")} \cup (IF plus THEN {Counting("CLASS")} ELSE {}) :
         LET second == Competition(Comp(plus), {c, d}, <<part>>, (x :> Many @@ y :> Few), status[1])
         IN  input = [series |-> <<Competition(Comp(plus), {a, b}, <<part>>, (x :> Few @@ y :> Many), TRUE),
                                   [second EXCEPT !.team[d].hc = status[2]]>>]
    /\ outcome = SeriesOutcome(input, AllScores(input))

AnswerIn(t, e, r) ==
    /\ arena = "series"
    /\ \E i \in {1, 2} :
         /\ t \in DOMAIN input.series[i].team \ DOMAIN input.series[i].result[e]
         /\ input' = [input EXCEPT !.series[i].result[e] = (t :> r) @@ input.series[i].result[e]]
    /\ outcome' = SeriesOutcome(input', AllScores(input'))
    /\ UNCHANGED arena

-----------------------------------------------------------------------------
ScoringInit == ElementInit \/ BoardInit \/ SeriesInit

ScoringNext ==
    \/ ElementNext
    \/ BoardNext
    \/ \E t \in MCTeams, e \in {x, y} : \E r \in Answers(t, e) : AnswerIn(t, e, r)

-----------------------------------------------------------------------------
(* Properties.                                                              *)

\* Who is in the competition when it comes to the element.
Inside == {t \in MCTeams :
             ~OutOfCompetition(input.element, input.team, t) /\ ~Leaves(input.element, input.team, t)}

\* Who counts in the arena, and what the ranking makes of him.
Counts(t) ==
    IF arena = "element" THEN t \in Inside
    ELSE \E i \in {1, 2} : t \in DOMAIN input.series[i].team /\ SeriesEligible(input.series[i].team[t])
Standing(t) ==
    IF arena = "element" THEN IF t \in DOMAIN outcome.points THEN outcome.points[t] ELSE Null
    ELSE [e \in {x, y} |->
            LET i == CHOOSE j \in {1, 2} : t \in DOMAIN input.series[j].team
            IN  IF t \in DOMAIN outcome.score[i][e] THEN outcome.score[i][e][t] ELSE 0]

\* What a step changed: the teams whose results are others than before.
ResultsOf(in, t) ==
    IF arena = "element" THEN IF t \in DOMAIN in.result THEN {in.result[t]} ELSE {}
    ELSE [e \in {x, y} |->
            {in.series[i].result[e][t] : i \in {j \in {1, 2} : t \in DOMAIN in.series[j].result[e]}}]

\* Teams out of competition, and those who have left, change nothing for the others
\* (calculators/index.ts:257-259, docs/tie-break.md:43-45, docs/national-ranking.md):
\* not their places, not their points of the element, not the series' points.  In
\* ABSOLUTE_POINTS with penalties the code measures against the best of everybody.
OutsidersChangeNothing ==
    /\ OnlyResultsCount
    /\ [][\A t \in MCTeams :
            (/\ arena \in {"element", "series"}
             /\ \A u \in MCTeams : ResultsOf(input', u) # ResultsOf(input, u) => ~Counts(u)
             /\ Counts(t)
             /\ (arena = "element" => ThePart.type # "ABSOLUTE_POINTS" \/ input.comp.plus))
                => Standing(t)' = Standing(t)]_arenaVars

\* The best total, as a cost, that a team of a series can have: of all choices of as
\* many of its checkpoints as count.
BestTotal(i, t) ==
    LET ov == input.series[i]
        points == ByElement(outcome.score[i], t)
        n == CountedKpCount(input.series)
        size == IF Cardinality(DOMAIN points) < n THEN Cardinality(DOMAIN points) ELSE n
        costs == {Cost(ov.comp, SumFunctionOnSet(points, E)) + ov.manual[t] :
                    E \in {F \in SUBSET DOMAIN points : Cardinality(F) = size}}
    IN  CHOOSE m \in costs : \A k \in costs : m <= k

\* What an answer of a competition means: the content of the choice, and the exception.
Meaning(i, e, t) ==
    LET r == input.series[i].result[e][t]
    IN  <<input.series[i].option[r.choice], r.kind>>

\* A series is one ranking.  Teams of different competitions with the same result of a
\* checkpoint get the same points for it, although their choices have other ids and each
\* competition alone would rank them elsewhere; and the places, of everybody and of every
\* class, follow the best totals that the teams can have, where equal totals share a place
\* (lib/seriesScoring, lib/seriesRanking.ts, docs/national-ranking.md).
SeriesFollowsResults ==
    arena = "series" =>
        LET own(t) == CHOOSE i \in {1, 2} : t \in DOMAIN input.series[i].team
            total == [t \in DOMAIN outcome.rank |-> BestTotal(own(t), t)]
        IN  /\ \A i, j \in DOMAIN input.series, e \in {x, y} :
                 (input.series[i].source /\ input.series[j].source) =>
                     \A t \in DOMAIN input.series[i].result[e], u \in DOMAIN input.series[j].result[e] :
                         (Counts(t) /\ Counts(u) /\ Team[t].class = Team[u].class
                                    /\ Meaning(i, e, t) = Meaning(j, e, u))
                             => outcome.score[i][e][t] = outcome.score[j][e][u]
            /\ Follow(total, [t \in DOMAIN total |-> Team[t].class], outcome.rank)
            /\ \A t, u \in DOMAIN total : total[t] = total[u] => outcome.rank[t].rank = outcome.rank[u].rank

-----------------------------------------------------------------------------
(* Three results of the code that its documentation does not lead one to    *)
(* expect.                                                                  *)

Entry(value, tie, kind) ==
    [value |-> value, tie |-> tie, kind |-> kind, penalty |-> 0, hc |-> FALSE, class |-> Null]
PointsOf(part, plus, entries) == CalculateScores(part, Comp(plus), entries, FALSE)

\* In VALUE_BASED the better of two values, of three teams, is spread downwards and
\* the worse, of four, upwards, and the two spreads cross.
ASSUME ValueGroupsCross ==
    LET part == [Part("VALUE_BASED") EXCEPT !.tieBreak = "HIGHER", !.min = 0]
        entries == [t \in 1..7 |-> Entry(IF t <= 3 THEN 2 ELSE 1, 10 - t, Null)]
        points == PointsOf(part, TRUE, entries)
    IN  points[3] < points[4]

\* ABSOLUTE_POINTS with penalties measures against the best of everybody, those out
\* of competition included.
ASSUME OutsiderSetsTheBest ==
    LET Two(hc) == <<Entry(3, Null, Null), [Entry(5, Null, Null) EXCEPT !.hc = hc]>>
    IN  PointsOf(Part("ABSOLUTE_POINTS"), FALSE, Two(TRUE))[1] = P(2)

\* A failure in the time part of a combined element is worth nothing, which is more
\* than any time is worth when points are earned.
ASSUME FailureBeatsTime ==
    LET points == CalculateScores(Part("ABSOLUTE_TIME"), Comp(TRUE),
                      <<Entry(3, Null, Null), Entry(Null, Null, "FAILED")>>, TRUE)
    IN  points[2] > points[1]
=============================================================================
