--------------------------- MODULE FilterContract ---------------------------
(***************************************************************************)
(* What the filter promises the node, scan by scan, in terms of the cones  *)
(* on the track: every observation is matched with its own cone, so that   *)
(* the map is a set of cones.  In lap 1 a scan leaves every cone it shows  *)
(* in the map, unless the map is full; after it the map is the same for    *)
(* ever.  The estimates move only when a scan shows a mapped cone, and     *)
(* after lap 1, with freeze_map, not at all.                               *)
(***************************************************************************)
EXTENDS Integers, FiniteSets

CONSTANTS
    Cones,        \* the cones of the track
    N_CONES,      \* capacity of the map
    freeze_map

VARIABLES
    map,          \* the cones mapped
    estimates,    \* where the filter has them
    lap_over,     \* the first lap is completed
    shown,        \* the cones the last scan showed
    dropped       \* the filter reports that some of them did not fit the map

vars == <<map, estimates, lap_over, shown, dropped>>

Init == map = {} /\ lap_over = FALSE /\ shown = {} /\ dropped = FALSE

Grows(seen) == map \subseteq map' /\ map' \subseteq map \cup seen

Complete(seen) == seen \subseteq map'

Fits == Cardinality(map') <= N_CONES
Full == Cardinality(map') = N_CONES

Mapping(seen) == /\ Grows(seen) /\ Fits
                 /\ Complete(seen) \/ Full
                 /\ dropped' = ~Complete(seen)
                 /\ seen \cap map' = {} => UNCHANGED estimates

Localising(seen) == /\ UNCHANGED map
                    /\ dropped' = FALSE
                    /\ freeze_map \/ seen \cap map = {} => UNCHANGED estimates

Scan(seen) == /\ IF lap_over THEN Localising(seen) ELSE Mapping(seen)
              /\ shown' = seen
              /\ UNCHANGED lap_over

LapOver == lap_over' = TRUE /\ UNCHANGED <<map, estimates, shown, dropped>>

Next == LapOver \/ \E seen \in SUBSET Cones : Scan(seen)

Spec == Init /\ [][Next]_vars
=============================================================================
