------------------------ MODULE MCNotificationOutbox ------------------------
(***************************************************************************)
(* Values for the constants of NotificationOutbox.                         *)
(***************************************************************************)
EXTENDS NotificationOutbox, TLC

CONSTANTS t1, t2, w1, w2

\* Runs of 1 tick: the first delay is as long as a run, the second longer.  In the
\* code the delays are 2, 4, 8, 16 and 32, 60 minutes, a run takes at most 17.
MCBackoff == <<1, 2>>

\* Runs are alike, and so are teams.
SymmetricRuns == Permutations(Workers) \cup Permutations(Teams)
=============================================================================
