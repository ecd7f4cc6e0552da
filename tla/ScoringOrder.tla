---------------------------- MODULE ScoringOrder ----------------------------
(***************************************************************************)
(* What the points of a calculation method promise (lib/calculators): the  *)
(* better of two results costs less, and who failed is ahead of nobody.    *)
(* `E' are the entries of the teams, `S' those of them that are ranked.    *)
(***************************************************************************)
EXTENDS ScoreCalculators

\* Which of two results the method takes for the better one.
Better(part, comp, r, s) ==
    \/ /\ part.type \in RankedTypes
       /\ \/ part.higher /\ r.value > s.value
          \/ ~part.higher /\ r.value < s.value
          \/ r.value = s.value /\ TieAhead(part, r, s)
    \/ part.type = "ABSOLUTE_TIME" /\ r.value < s.value
    \/ part.type = "ABSOLUTE_PENALTY" /\ Magnitude(r.value) < Magnitude(s.value)
    \/ part.type \in {"ABSOLUTE_POINTS", "PERFORMANCE_BASED"} /\ r.value > s.value
    \/ /\ part.type = "DIRECT_ENTRY"
       /\ IF comp.plus THEN r.value > s.value ELSE r.value < s.value

\* The competitors who succeeded, those who failed, and who is ranked with whom.
Succeeded(E) == {t \in DOMAIN E : E[t].kind = Null /\ E[t].value # Null /\ ~E[t].hc}
Failed(E) == {t \in DOMAIN E : E[t].kind = "FAILED" /\ ~E[t].hc}
SameList(part, comp, r, s) ==
    (part.type = "FIXED_RANKING" /\ part.mode = "REGISTERED_COUNT") =>
        ScopeKey(part.scope, r.class, comp.groups) = ScopeKey(part.scope, s.class, comp.groups)

\* The spreads of two values of VALUE_BASED stay apart while few teams have them: with
\* more the better value, spread downwards, may meet the worst, spread upwards.
StayApart(part, E, S, t, u) ==
    \/ part.type # "VALUE_BASED" \/ part.tieBreak = "NONE"
    \/ E[t].value = E[u].value
    \/ (Cardinality(SameValue(E, S, t)) - 1) * (Cardinality(SameValue(E, S, u)) - 1) <= 4

\* The better of two results of a list never gets the worse points.
BetterCostsLess(part, comp, E, points) ==
    \A t, u \in Succeeded(E) :
        (/\ SameList(part, comp, E[t], E[u])
         /\ StayApart(part, E, Succeeded(E), t, u)
         /\ Better(part, comp, E[t], E[u])) => Cost(comp, points[t]) <= Cost(comp, points[u])

\* In a method with a ranking those who failed share the last points of their list.
FailedComeLast(part, comp, E, points) ==
    part.type \in RankedTypes =>
        \A f \in Failed(E) :
            /\ \A g \in Failed(E) : SameList(part, comp, E[f], E[g])
                                      => Cost(comp, points[f]) = Cost(comp, points[g])
            /\ \A t \in Succeeded(E) : SameList(part, comp, E[f], E[t])
                                         => Cost(comp, points[t]) <= Cost(comp, points[f])

\* Points with three decimals at most: the forms offer steps of a half
\* (dashboard/competitions/[id]/elements/new/page.tsx:647).
Thousandths == {points \in Int : points % 10 = 0}

\* The steps between the places of n teams are wide enough to survive the rounding: those
\* of a scale, or of the formula after the last place of a table, which lists its places
\* from the best to the worst.
WideSteps(part, comp, n) ==
    LET len == Len(part.points)
        formula == IF part.type = "FIXED_RANKING" /\ len > 0 THEN part.points[len] - part.min
                   ELSE part.max - part.min
        places == IF part.type = "FIXED_RANKING" /\ len > 0 THEN n - len ELSE n - 1
    IN  /\ places > 0 => Magnitude(formula) > 5 * places
        /\ part.type = "FIXED_RANKING" =>
             /\ \A i \in DOMAIN part.points : part.points[i] \in Thousandths
             /\ \A i, j \in DOMAIN part.points :
                  i < j => Cost(comp, part.points[i]) < Cost(comp, part.points[j])

\* With steps that wide, nobody who succeeded has the points of those who failed.
FailedStayBehind(part, comp, E, points) ==
    (/\ \/ part.type = "RELATIVE_RANKING"
        \/ part.type = "FIXED_RANKING" /\ part.mode \notin {"MANUAL_ALL", "REGISTERED_COUNT"}
     /\ WideSteps(part, comp, Cardinality(Succeeded(E) \cup Failed(E)))) =>
        \A f \in Failed(E), t \in Succeeded(E) : Cost(comp, points[t]) < Cost(comp, points[f])

-----------------------------------------------------------------------------
(* Settings of a method that make sense, and entries.                       *)

Methods == RankedTypes \cup {"ABSOLUTE_TIME", "ABSOLUTE_POINTS", "ABSOLUTE_PENALTY",
                             "PERFORMANCE_BASED", "DIRECT_ENTRY"}

SoundScale(part, comp) ==
    /\ comp.plus \in BOOLEAN
    /\ part.min \in Thousandths /\ part.max \in Thousandths /\ part.min <= part.max

\* A table goes from the best points to the worst, and with a formula for the places
\* after it on to the points of the last place.
SoundTable(part, comp) ==
    /\ part.points \in Seq(Int)
    /\ \A i, j \in DOMAIN part.points :
         i <= j => Cost(comp, part.points[i]) <= Cost(comp, part.points[j])
    /\ part.points # <<>> =>
         LET last == part.points[Len(part.points)]
         IN  /\ last \in Thousandths
             /\ part.mode # "MANUAL_ALL" => Cost(comp, last) <= Cost(comp, part.min)

\* lib/fixedRanking.ts:69-70: neither the base nor the step is negative.
SoundCount(part, comp) ==
    /\ comp.plus \in BOOLEAN
    /\ part.base \in Int /\ part.step \in Nat
    /\ \A k \in DOMAIN comp.registered : comp.registered[k] \in Int

SoundSettings(part, comp) ==
    /\ comp.plus \in BOOLEAN /\ part.type \in Methods
    /\ part.type \in {"RELATIVE_RANKING", "VALUE_BASED"} => SoundScale(part, comp)
    /\ part.type = "FIXED_RANKING" =>
         IF part.mode = "REGISTERED_COUNT" THEN SoundCount(part, comp)
         ELSE SoundScale(part, comp) /\ SoundTable(part, comp)
    /\ part.type = "PERFORMANCE_BASED" => part.total \in Nat \ {0} /\ part.max \in Nat

SoundEntries(E) ==
    /\ IsFiniteSet(DOMAIN E)
    /\ \A t \in DOMAIN E : /\ E[t].hc \in BOOLEAN
                          /\ E[t].value \in Int \cup {Null}
                          /\ E[t].tie \in Int \cup {Null}
=============================================================================
