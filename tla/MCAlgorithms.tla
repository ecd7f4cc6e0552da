---------------------------- MODULE MCAlgorithms ----------------------------
(***************************************************************************)
(* All arenas in one specification.                                        *)
(***************************************************************************)
EXTENDS MCPlaces, MCForm, MCScoring

MCInit == PlacesInit \/ FormInit \/ ScoringInit
MCNext == PlacesNext \/ FormNext \/ ScoringNext
MCSpec == MCInit /\ [][MCNext]_arenaVars
=============================================================================
