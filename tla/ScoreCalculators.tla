-------------------------- MODULE ScoreCalculators --------------------------
(***************************************************************************)
(* The points of a scoring element (lib/calculators, lib/scoreCompute).    *)
(*                                                                         *)
(* Points are integers, in ten-thousandths of a point, so that the code's  *)
(* roundings to three and four decimals are integer divisions.  A `part'   *)
(* is a calculation method with its parameters, effective directions and   *)
(* maximum; an element has one, or several if it is combined.  A result    *)
(* has a value and a tie-breaking value for each part, the kind of its     *)
(* exception and the exception's penalty.  The organiser's formulas        *)
(* (CUSTOM, computed fields) are not modelled; the formula of              *)
(* ABSOLUTE_PENALTY is `result'.                                           *)
(***************************************************************************)
EXTENDS Integers, FiniteSets, Sequences, SequencesExt

CONSTANT Null   \* no value, no exception, no class, no order

Scale == 10000
RoundDiv(a, b) == (2 * a + b) \div (2 * b)
\* The quotient rounded to three decimals: Math.round(a / b * 1000) / 1000.
Round3(a, b) == 10 * RoundDiv(a, 10 * b)

Magnitude(a) == IF a < 0 THEN -a ELSE a
\* In PLUS mode points are earned, in PENALTY mode they are penalties.
Side(comp, earned, penalty) == IF comp.plus THEN earned ELSE penalty

\* The smaller the cost, the better.
Cost(comp, points) == Side(comp, -points, points)

RankedTypes == {"RELATIVE_RANKING", "FIXED_RANKING", "VALUE_BASED"}

-----------------------------------------------------------------------------
(* The ranking inside an element.                                           *)

TieOf(entry) == IF entry.tie = Null THEN 0 ELSE entry.tie
TieAhead(part, a, b) ==
    \/ part.tieBreak = "HIGHER" /\ TieOf(a) > TieOf(b)
    \/ part.tieBreak = "LOWER" /\ TieOf(a) < TieOf(b)
    \/ part.tieBreak = "TIME" /\ a.tie # Null /\ (b.tie = Null \/ a.tie < b.tie)

\* Mutant: the direction of the field is ignored.
LowerAhead(part, a, b) ==
    \/ a.value < b.value
    \/ a.value = b.value /\ TieAhead(part, a, b)

Ahead(part, a, b) ==
    \/ IF part.higher THEN a.value > b.value ELSE a.value < b.value
    \/ a.value = b.value /\ TieAhead(part, a, b)

PlaceIn(part, E, S, t) == 1 + Cardinality({u \in S : Ahead(part, E[u], E[t])})

\* Mutant: those who failed take no places.
PlacesWithoutFailed(S, F) == IF S = {} THEN 1 ELSE Cardinality(S)

\* Those who failed fill the last places of the ranking.
Places(S, F) == Cardinality(S \cup F)

\* Equal steps from the best points to the worst.
RelativeRanking(part, comp, E, S, F) ==
    LET n == Places(S, F)
        Offset(t) == Round3((PlaceIn(part, E, S, t) - 1) * (part.max - part.min), n - 1)
    IN  [t \in S \cup F |->
            IF t \in F THEN Side(comp, part.min, part.max)
            ELSE IF n <= 1 THEN Side(comp, part.max, part.min)
            ELSE Side(comp, part.max - Offset(t), part.min + Offset(t))]

\* The points of a place in a table, with a formula for the places after it.
PointsAt(part, comp, n, place) ==
    LET len == Len(part.points)
        best == Side(comp, part.max, part.min)
        worst == Side(comp, part.min, part.max)
    IN  CASE len = 0 -> IF n > 1 THEN Round3(best * (n - 1) - (place - 1) * (best - worst), n - 1)
                        ELSE best
          [] len > 0 /\ place <= len -> part.points[place]
          [] len > 0 /\ place > len /\ part.mode = "MANUAL_ALL" -> part.points[len]
          [] OTHER -> IF n <= len THEN part.min
                      ELSE Round3(part.points[len] * (n - len)
                                    - (place - len) * (part.points[len] - part.min), n - len)

FixedTable(part, comp, E, S, F) ==
    LET n == Places(S, F)
    IN  [t \in S \cup F |->
            IF t \in S THEN PointsAt(part, comp, n, PlaceIn(part, E, S, t))
            ELSE IF S = {} /\ part.points = <<>> THEN Side(comp, part.min, part.max)
            ELSE PointsAt(part, comp, n, n)]

\* The ranking list of a team: everybody, its class, or its group of classes.
ScopeKey(scope, class, groups) ==
    CASE scope = "ALL" -> <<"ALL">>
      [] scope = "CLASS" -> <<"CLASS", class>>
      [] OTHER -> IF class \in DOMAIN groups THEN <<"GROUP", groups[class]>>
                  ELSE <<"GROUP", "~", class>>

RegisteredCountPoints(part, comp, place, n) ==
    LET capped == IF place > n THEN n ELSE place
    IN  part.base + (IF comp.plus THEN n - capped ELSE capped - 1) * part.step

\* Points by the number of registered teams of the scope.
TeamCount(part, comp, E, S, F) ==
    LET KeyOf(t) == ScopeKey(part.scope, E[t].class, comp.groups)
        Bucket(T, t) == {u \in T : KeyOf(u) = KeyOf(t)}
        Present(t) == Cardinality(Bucket(S \cup F, t))
        N(t) == IF KeyOf(t) \in DOMAIN comp.registered
                THEN (IF comp.registered[KeyOf(t)] > 1 THEN comp.registered[KeyOf(t)] ELSE 1)
                ELSE Present(t)
        LastPlace(t) == IF Present(t) > N(t) THEN Present(t) ELSE N(t)
    IN  [t \in S \cup F |->
            IF t \in S
            THEN RegisteredCountPoints(part, comp, PlaceIn(part, E, Bucket(S, t), t), N(t))
            ELSE RegisteredCountPoints(part, comp, LastPlace(t), LastPlace(t))]

FixedRanking(part, comp, E, S, F) ==
    IF part.mode = "REGISTERED_COUNT" THEN TeamCount(part, comp, E, S, F)
    ELSE FixedTable(part, comp, E, S, F)

\* How many steps towards the neighbour: the best of the worst value takes the most.
SpreadSteps(isWorst, k, idx) == IF isWorst THEN k - 1 - idx ELSE idx

\* Points in proportion to the value between the best and the worst.
ValuesOf(E, S) == {E[t].value : t \in S}
Lowest(E, S) == CHOOSE v \in ValuesOf(E, S) : \A w \in ValuesOf(E, S) : v <= w
Highest(E, S) == CHOOSE v \in ValuesOf(E, S) : \A w \in ValuesOf(E, S) : v >= w
BestValue(part, E, S) == IF part.higher THEN Highest(E, S) ELSE Lowest(E, S)
WorstValue(part, E, S) == IF part.higher THEN Lowest(E, S) ELSE Highest(E, S)
Breadth(E, S) == Highest(E, S) - Lowest(E, S)
Away(part, E, S, v) == Magnitude(v - BestValue(part, E, S))
BestPoints(part, comp) == Side(comp, part.max, part.min)
\* The points of a value, times the breadth.
ValuePoints(part, comp, E, S, v) ==
    LET less == Away(part, E, S, v) * (part.max - part.min)
    IN  BestPoints(part, comp) * Breadth(E, S) + (IF comp.plus THEN -less ELSE less)

\* Equal values are spread by the tie-break towards the worse neighbouring value, and
\* the worst value towards the better one.
Nearer(part, E, S, v, w) == Away(part, E, S, v) < Away(part, E, S, w)
Between(part, E, S, v, w) ==
    {x \in ValuesOf(E, S) : Nearer(part, E, S, v, x) /\ Nearer(part, E, S, x, w)}
Neighbour(part, E, S, v) ==
    IF v # WorstValue(part, E, S)
    THEN CHOOSE w \in ValuesOf(E, S) : Nearer(part, E, S, v, w) /\ Between(part, E, S, v, w) = {}
    ELSE CHOOSE w \in ValuesOf(E, S) : Nearer(part, E, S, w, v) /\ Between(part, E, S, w, v) = {}
SameValue(E, S, t) == {u \in S : E[u].value = E[t].value}
Undecided(part, E, S, t) ==
    \A u, w \in SameValue(E, S, t) : ~Ahead(part, E[u], E[w])
SpreadPoints(part, comp, E, S, t) ==
    LET v == E[t].value
        group == SameValue(E, S, t)
        k == Cardinality(group)
        own == ValuePoints(part, comp, E, S, v)
        next == ValuePoints(part, comp, E, S, Neighbour(part, E, S, v))
        j == SpreadSteps(v = WorstValue(part, E, S), k, PlaceIn(part, E, group, t) - 1)
    IN  RoundDiv(own * (k + 1) + (next - own) * j, Breadth(E, S) * (k + 1))

ValueBased(part, comp, E, S, F) ==
    [t \in S \cup F |->
        LET own == ValuePoints(part, comp, E, S, E[t].value)
        IN  CASE t \in F -> Side(comp, part.min, part.max)
              [] t \notin F /\ Breadth(E, S) = 0 -> BestPoints(part, comp)
              [] t \notin F /\ Breadth(E, S) # 0 /\ part.tieBreak = "NONE" -> Round3(own, Breadth(E, S))
              [] OTHER -> IF Undecided(part, E, S, t) THEN RoundDiv(own, Breadth(E, S))
                          ELSE SpreadPoints(part, comp, E, S, t)]

ApplyRanking(part, comp, E, S, F) ==
    CASE part.type = "RELATIVE_RANKING" -> RelativeRanking(part, comp, E, S, F)
      [] part.type = "FIXED_RANKING" -> FixedRanking(part, comp, E, S, F)
      [] part.type = "VALUE_BASED" -> ValueBased(part, comp, E, S, F)

\* Mutant: everybody is ranked in one list.
RankedTogether(part, comp, E, S, F) == ApplyRanking(part, comp, E, S, F)

\* Those out of competition are ranked with everybody, the others among themselves.
\* `ranking' is one of the two, for all or for the competitors.
OwnRanking(E, T, ranking) == [t \in T |-> ranking[E[t].hc][t]]
RankWithHorsConcours(part, comp, E, S, F) ==
    LET Of(T, all) == {t \in T : all \/ ~E[t].hc}
    IN  OwnRanking(E, S \cup F,
            [all \in BOOLEAN |-> ApplyRanking(part, comp, E, Of(S, all), Of(F, all))])

-----------------------------------------------------------------------------
(* The methods without a ranking, and the choice between them.              *)

Unranked(part, comp, E, S, t) ==
    LET value == E[t].value * Scale
        best == CHOOSE v \in {E[u].value : u \in S} : \A u \in S : v >= E[u].value
        correct == IF E[t].value < 0 THEN 0
                   ELSE IF E[t].value > part.total THEN part.total ELSE E[t].value
    IN  CASE part.type = "ABSOLUTE_TIME" -> Side(comp, -value, value)
          [] part.type = "ABSOLUTE_POINTS" -> Side(comp, value, best * Scale - value)
          [] part.type = "ABSOLUTE_PENALTY" -> Side(comp, -Magnitude(value), Magnitude(value))
          [] part.type = "PERFORMANCE_BASED" ->
                Round3(Side(comp, correct, part.total - correct) * part.max, part.total)
          [] part.type = "DIRECT_ENTRY" -> value

ExceptionScore(comp, penalty) == Side(comp, penalty, Magnitude(penalty))

\* The points of one part.  `worst' is set in combined elements, where a failure in
\* a part without a ranking gets what the code takes for the worst result.
CalculateScores(part, comp, E, worst) ==
    LET normal == {t \in DOMAIN E : E[t].kind = Null /\ E[t].value # Null}
        failed == {t \in DOMAIN E : E[t].kind = "FAILED"}
        others == {t \in DOMAIN E : E[t].kind \notin {Null, "FAILED"}}
        ranks == part.type \in RankedTypes
        Fixed(t) == ExceptionScore(comp, E[t].penalty)
        Failure(t) == IF worst THEN Side(comp, 0, part.max) ELSE Fixed(t)
    IN  IF normal = {} /\ (failed = {} \/ ~ranks)
        THEN [t \in DOMAIN E |-> IF E[t].kind = Null THEN 0
                                 ELSE IF t \in failed THEN Failure(t) ELSE Fixed(t)]
        ELSE LET ranked == RankWithHorsConcours(part, comp, E, normal, failed)
             IN  [t \in normal \cup failed \cup others |->
                    CASE t \in others -> Fixed(t)
                      [] t \notin others /\ ranks -> ranked[t]
                      [] t \in failed /\ ~ranks -> Failure(t)
                      [] t \in normal /\ ~ranks -> Unranked(part, comp, E, normal, t)]

-----------------------------------------------------------------------------
(* An element.                                                              *)

Leaves(element, team, t) == team[t].dnfFrom # Null /\ element.order >= team[t].dnfFrom

OutOfCompetition(element, team, t) ==
    team[t].hc \/ (team[t].hcFrom # Null /\ element.order >= team[t].hcFrom)

Entries(element, team, res, k, T) ==
    [t \in T |-> [value |-> res[t].parts[k].value, tie |-> res[t].parts[k].tie,
                  kind |-> res[t].kind, penalty |-> res[t].penalty,
                  hc |-> OutOfCompetition(element, team, t), class |-> team[t].class]]

Bonus(element, t) == IF t \in DOMAIN element.bonus THEN element.bonus[t] ELSE 0

\* A combined element adds its parts up, rounding after each.
Total(element, part, t) ==
    IF Len(element.parts) = 1 THEN part[1][t]
    ELSE FoldLeft(LAMBDA sum, k : IF t \in DOMAIN part[k] THEN Round3(sum + part[k][t], 1) ELSE sum,
                  0, [k \in DOMAIN element.parts |-> k])

\* Its exceptions other than failures count once, for the whole element.
CombinedScores(element, comp, res, excepted, part) ==
    [t \in excepted \cup UNION {DOMAIN part[k] : k \in DOMAIN part} |->
        IF t \in excepted THEN ExceptionScore(comp, res[t].penalty) ELSE Total(element, part, t)]

\* Those who have left get the worst result, and everybody the additional points.
ElementScores(element, comp, team, res, points) ==
    LET gone == {t \in DOMAIN res : Leaves(element, team, t)}
        maximum == FoldLeft(LAMBDA sum, part : sum + part.max, 0, element.parts)
    IN  [t \in gone \cup DOMAIN points |->
            Round3(Bonus(element, t) + (IF t \in gone THEN Side(comp, 0, maximum)
                                        ELSE points[t]), 1)]

ComputeScores(element, comp, team, res) ==
    LET active == {t \in DOMAIN res : ~Leaves(element, team, t)}
        combined == Len(element.parts) > 1
        excepted == {t \in active : combined /\ res[t].kind \notin {Null, "FAILED"}}
    IN  CASE element.cancelled -> <<>>
          [] ~element.cancelled /\ element.misc -> element.bonus
          [] OTHER -> ElementScores(element, comp, team, res,
                          CombinedScores(element, comp, res, excepted,
                              [k \in DOMAIN element.parts |->
                                  CalculateScores(element.parts[k], comp,
                                      Entries(element, team, res, k, active \ excepted), combined)]))
=============================================================================
