------------------------------- MODULE Arenas -------------------------------
(***************************************************************************)
(* The pure algorithms are explored in arenas: the places of applications, *)
(* the answers to a form, the results of an element, a leaderboard and a   *)
(* series.  Each has its module of inputs and properties; a behaviour      *)
(* stays in the arena that it starts in, changes its input step by step    *)
(* and calculates the outcome anew.                                        *)
(***************************************************************************)

VARIABLES arena, input, outcome
arenaVars == <<arena, input, outcome>>
=============================================================================
