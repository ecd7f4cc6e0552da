--------------------------- MODULE MCTeamWorkflow ---------------------------
(***************************************************************************)
(* Values for the constants of TeamWorkflow.                               *)
(***************************************************************************)
EXTENDS TeamWorkflow, TLC

CONSTANTS r1, r2, n1, n2, m1, m2, c1, c2

\* Accounts, names and concurrent requests are alike, and so are the lists with
\* a competitor.
Alike == Permutations(Representatives) \cup Permutations(Names)
         \cup Permutations(Clients) \cup Permutations(Rosters \ {NoCompetitor})
=============================================================================
