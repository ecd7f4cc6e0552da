------------------------- MODULE MCPublicSnapshots -------------------------
(***************************************************************************)
(* Values for the constants of PublicSnapshots and SeriesFreeze, and two   *)
(* scenes: the freeze and the caches of one competition, or the freeze of  *)
(* a series.  A behaviour stays in its scene, and the other one's state    *)
(* stays as it was in the beginning.                                       *)
(***************************************************************************)
EXTENDS PublicSnapshots, SeriesFreeze

CONSTANTS i1, i2, r1, r2

VARIABLE scene

ScenesInit == scene \in {"competition", "series"} /\ Init /\ SeriesInit

ScenesNext ==
    \/ scene = "competition" /\ Next /\ UNCHANGED <<scene, seriesVars>>
    \/ scene = "series" /\ SeriesNext /\ UNCHANGED <<scene, vars>>

ScenesSpec == ScenesInit /\ [][ScenesNext]_<<scene, vars, seriesVars>>
=============================================================================
