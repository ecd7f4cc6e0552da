----------------------------- MODULE Leaderboard -----------------------------
(***************************************************************************)
(* The arena of the leaderboard: teams get points one by one, and after    *)
(* each the places are calculated anew.  `input' is what they are          *)
(* calculated from: the competition, its elements, the rules for ties, the *)
(* teams, the points so far, the additional penalties and the order in     *)
(* which the rows come.                                                    *)
(***************************************************************************)
EXTENDS Arenas, Standings

CONSTANTS Boards,       \* the competitions, elements, rules, teams and penalties tried
          BoardTeams,   \* bound: the teams that get points
          PointValues,  \* bound: the points they get
          Orders        \* the orders of the rows

RuleKinds == {"BEST_PLACES", "BEST_WORST", "PREFERRED_ELEMENT", "FEWER_PENALTIES", "MANUAL"}

\* Points are numbers, the rules are of the kinds that there are, and an order of the rows
\* lists every team once.
BoardsAreSound ==
    /\ PointValues \subseteq Int
    /\ \A s \in Boards : LET rules == s.config.rules IN
         /\ rules \in Seq({rules[i] : i \in DOMAIN rules})
         /\ \A i \in DOMAIN rules :
              /\ rules[i].kind \in RuleKinds
              /\ rules[i].order \in Seq({rules[i].order[k] : k \in DOMAIN rules[i].order})
         /\ IsFiniteSet(DOMAIN s.team) /\ IsFiniteSet(DOMAIN s.element)
         /\ s.comp.plus \in BOOLEAN /\ s.manual \in [DOMAIN s.team -> Int]
         /\ \A order \in Orders :
              /\ order \in Seq(DOMAIN s.team)
              /\ \A t \in DOMAIN s.team : \E i \in DOMAIN order : order[i] = t
              /\ \A i, j \in DOMAIN order : order[i] = order[j] => i = j

BoardElements == UNION {DOMAIN s.element : s \in Boards}

-----------------------------------------------------------------------------
TheRows(in) == Rows(in.comp, in.team, in.score, in.manual)
BoardOutcome(in) == [rank |-> RankLeaderboard(in.comp, in.element, in.config, TheRows(in), in.order)]

BoardInit ==
    /\ arena = "board"
    /\ \E s \in Boards, order \in Orders :
         input = [comp |-> s.comp, element |-> s.element, config |-> s.config, team |-> s.team,
                  score |-> [e \in DOMAIN s.element |-> <<>>], manual |-> s.manual, order |-> order]
    /\ outcome = BoardOutcome(input)

SetPoints(t, e, p) ==
    /\ arena = "board" /\ e \in DOMAIN input.score /\ t \notin DOMAIN input.score[e]
    /\ input' = [input EXCEPT !.score[e] = [u \in DOMAIN @ \cup {t} |-> IF u = t THEN p ELSE @[u]]]
    /\ outcome' = BoardOutcome(input')
    /\ UNCHANGED arena

Rearrange(order) ==
    /\ arena = "board"
    /\ input' = [input EXCEPT !.order = order]
    /\ outcome' = BoardOutcome(input')
    /\ UNCHANGED arena

BoardNext ==
    \/ \E t \in BoardTeams, e \in BoardElements, p \in PointValues : SetPoints(t, e, p)
    \/ \E order \in Orders : Rearrange(order)

BoardSpec == BoardInit /\ [][BoardNext]_arenaVars

-----------------------------------------------------------------------------
\* Of a set of teams: a better total has a better place, and equal places skip the next.
InOrder(T, total, place) ==
    \A t \in T : /\ place[t] = 1 + Cardinality({u \in T : place[u] < place[t]})
                 /\ \A u \in T : total[t] < total[u] => place[t] < place[u]

\* The places of everybody, and of each class, follow the totals.
Follow(total, class, rank) ==
    /\ InOrder(DOMAIN total, total, [t \in DOMAIN total |-> rank[t].rank])
    /\ \A c \in {class[t] : t \in DOMAIN total} \ {Null} :
         InOrder({t \in DOMAIN total : class[t] = c}, total, [t \in DOMAIN total |-> rank[t].classRank])

\* The places of a leaderboard follow the totals, of everybody and of every class,
\* whatever the rules for ties say and in whatever order the rows come
\* (lib/tieBreak.ts:83-96, 142-157, docs/tie-break.md).
PlacesFollowTotals ==
    arena = "board" =>
        LET rows == TheRows(input)
        IN  Follow([t \in DOMAIN rows |-> Cost(input.comp, rows[t].total)],
                   [t \in DOMAIN rows |-> rows[t].class], outcome.rank)

\* Points of those who are out of competition or have left, and the order in which the
\* rows come, change nobody's place (lib/tieBreak.ts:66-131, docs/tie-break.md:43-45).
OnlyResultsCount ==
    [][(/\ arena = "board"
        /\ \A t \in DOMAIN input.team :
             Eligible(input.team[t]) => ByElement(input.score, t)' = ByElement(input.score, t))
            => outcome'.rank = outcome.rank]_arenaVars
=============================================================================
