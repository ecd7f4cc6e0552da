---------------------------- MODULE ElementPoints ----------------------------
(***************************************************************************)
(* The arena of one element: results are entered one by one, and after     *)
(* each the points of all teams are calculated anew.  `input' is what the  *)
(* points are calculated from: the competition, the element, the teams and *)
(* the results so far.                                                     *)
(***************************************************************************)
EXTENDS Arenas, ScoringOrder

CONSTANTS ElementTeams,
          Settings,     \* the competitions, elements and teams that are tried
          Results(_)    \* the results that can be entered for a team

\* The methods make sense, the bonus has three decimals at most like all points that are
\* entered, and a result has a number or nothing for each part.
SettingsAreSound ==
    \A s \in Settings : LET parts == s.element.parts IN
        /\ parts \in Seq({parts[k] : k \in DOMAIN parts})
        /\ \A k \in DOMAIN parts : SoundSettings(parts[k], s.comp)
        /\ ~s.element.cancelled /\ ~s.element.misc
        /\ \A t \in DOMAIN s.element.bonus : s.element.bonus[t] \in Thousandths
        /\ \A t \in ElementTeams : \A r \in Results(t), k \in DOMAIN parts :
              r.parts[k].value \in Int \cup {Null} /\ r.parts[k].tie \in Int \cup {Null}

-----------------------------------------------------------------------------
ElementOutcome(in) == [points |-> ComputeScores(in.element, in.comp, in.team, in.result)]

ElementInit ==
    /\ arena = "element"
    /\ \E s \in Settings :
         input = [comp |-> s.comp, element |-> s.element, team |-> s.team, result |-> <<>>]
    /\ outcome = ElementOutcome(input)

EnterResult(t, r) ==
    /\ arena = "element" /\ t \notin DOMAIN input.result
    /\ input' = [input EXCEPT !.result = [u \in DOMAIN @ \cup {t} |-> IF u = t THEN r ELSE @[u]]]
    /\ outcome' = ElementOutcome(input')
    /\ UNCHANGED arena

ElementNext == \E t \in ElementTeams : \E r \in Results(t) : EnterResult(t, r)

ElementSpec == ElementInit /\ [][ElementNext]_arenaVars

-----------------------------------------------------------------------------
(* What the properties of the element speak of: its only part, the entries  *)
(* of those who have not left, and their points without the bonus.          *)

ThePart == input.element.parts[1]
OnePart == Len(input.element.parts) = 1
TheEntries == Entries(input.element, input.team, input.result, 1,
                      {t \in DOMAIN input.result : ~Leaves(input.element, input.team, t)})
ThePoints == [t \in DOMAIN TheEntries |-> outcome.points[t] - Bonus(input.element, t)]

\* Points follow results.  The better result never gets the worse points, whatever the
\* method, the scale, the direction, the tie-break and who else has failed, left or is
\* out of competition (lib/calculators/index.ts:257-347, 478-530, 552-662).  In a method
\* with a ranking nobody who failed gets a better result than one who succeeded, and all
\* who failed share the last place (docs/exceptions.md:24-27); on a scale of equal steps
\* or a table whose steps survive the rounding, those who succeeded stay strictly ahead.
PointsFollowResults ==
    (arena = "element" /\ OnePart) =>
        /\ BetterCostsLess(ThePart, input.comp, TheEntries, ThePoints)
        /\ FailedComeLast(ThePart, input.comp, TheEntries, ThePoints)
        /\ FailedStayBehind(ThePart, input.comp, TheEntries, ThePoints)
=============================================================================
