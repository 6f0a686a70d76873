------------------------------ MODULE EkfScan -------------------------------
(***************************************************************************)
(* EkfOdom with the history of its scans, and the promise it keeps: seen   *)
(* from one return of update() to the next, on a track the configured      *)
(* distances fit, the filter is FilterContract.  The nearest neighbour and *)
(* its gates, which know estimates only, do what a filter would do that is *)
(* told which cone it sees.                                                *)
(***************************************************************************)
EXTENDS EkfOdom

VARIABLES
    sight,        \* the cones the scan in progress shows
    answered      \* the last completed scan: its cones, and what was reported of it

historyVars == <<sight, answered>>
scanVars == <<ekfVars, historyVars>>

\* Orange cones are not mapped: they are not counted among what a scan shows.
Shown(scan) == {scan[i].cone : i \in {j \in DOMAIN scan : ~isOrange(scan[j])}}

Unanswered == [shown |-> {}, dropped |-> FALSE]

ScanInit == Init /\ sight = {} /\ answered = Unanswered

begins(scan) == update(scan) /\ sight' = Shown(scan) /\ UNCHANGED answered

\* conesCallback reads get_assoc_stats() when update() has returned.
returned == /\ sight' = {}
            /\ answered' = [shown |-> sight, dropped |-> assoc_stats'.dropped_full # 0]

goesOn == UpdateStep /\ IF pc' = "idle" THEN returned ELSE UNCHANGED historyVars

ScanNext == \/ Motion /\ UNCHANGED historyVars
            \/ \E scan \in Scans : begins(scan)
            \/ goesOn
            \/ setFirstLapCompleted /\ UNCHANGED historyVars

ScanSpec == ScanInit /\ [][ScanNext]_scanVars

-----------------------------------------------------------------------------
(* Properties *)

\* The landmarks the filter had when update() last returned: the ones the scan in
\* progress has created so far come last.
Settled == 0..(landmark_count - 1 - (IF pc = "idle" THEN 0 ELSE assoc_stats.created))

\* The filter keeps FilterContract: which cones are in the map after a scan, that
\* what did not fit is reported, and that nothing moves without reason
\* (EKFOdom::update and setFirstLapCompleted).
Contract == INSTANCE FilterContract WITH
    map <- {origin[k] : k \in Settled},
    estimates <- {<<origin[k], mirror.lm[k]>> : k \in Settled},
    lap_over <- is_first_lap_completed,
    shown <- answered.shown,
    dropped <- answered.dropped
KeepsContract ==
    Contract!Init /\ [][GateFits /\ MahaFits => Contract!Next]_(Contract!vars)
=============================================================================
