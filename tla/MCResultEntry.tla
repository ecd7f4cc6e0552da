---------------------------- MODULE MCResultEntry ----------------------------
(***************************************************************************)
(* Values for the constants of ResultEntry.                                *)
(***************************************************************************)
EXTENDS ResultEntry, TLC

CONSTANTS t1, t2, c1, a1, v1, w1, w2

MCBy == [c \in Clients |-> a1]

Penalties(failed, other) == [l \in Labels |-> IF l = "FAILED" THEN failed ELSE other]

\* A rule that v1 satisfies, other penalties, a cancelled element, and an
\* element that has lost the exceptions.
MCConfigs ==
    {[failing |-> {}, penalty |-> Penalties(1, 2), cancelled |-> FALSE],
     [failing |-> {v1}, penalty |-> Penalties(3, 4), cancelled |-> FALSE],
     [failing |-> {}, penalty |-> Penalties(None, None), cancelled |-> TRUE]}

Form(values, label, mode) == [values |-> values, label |-> label, mode |-> mode]

\* A value, a deletion, and an exception that a judge has marked as failed too.
MCForms ==
    {Form(v1, None, "AUTO"), Form(Empty, None, "AUTO"), Form(Empty, "OTHER", "FORCE_FAILED")}

\* A place among the rows: first those without an exception, then the failed
\* ones, then the others.
MCPoints(t, active) ==
    LET grade(row) == CASE row.label = None -> 1
                        [] row.label = "FAILED" -> 2
                        [] row.label = "OTHER" -> 3
    IN  Cardinality({s \in DOMAIN active : grade(active[s]) < grade(active[t])})

\* Transactions are alike, and so are teams.
Symmetric == Permutations(Tasks) \cup Permutations(Teams)
=============================================================================
