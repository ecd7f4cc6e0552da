------------------------ MODULE MCOrganizerMessages ------------------------
(***************************************************************************)
(* Values for the constants of OrganizerMessages.                          *)
(***************************************************************************)
EXTENDS OrganizerMessages, TLC

CONSTANTS n1, n2, n3, w1, w2, h1

MCRecipients == <<n1, n2, n3>>
MCTwoRecipients == <<n1, n2>>
MCRunsAreAlike == Permutations(Runs)
MCBackoff == [k \in 1..MaxAttempts |-> k]
=============================================================================
