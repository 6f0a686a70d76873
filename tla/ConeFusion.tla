----------------------------- MODULE ConeFusion ------------------------------
(***************************************************************************)
(* The callbacks of ConeFusion (cuda_cone_fused.cpp) with the queue between*)
(* the messages and the filter, for any late-arrival window: a scan may be *)
(* fused by a later callback than its own, by one of LIMO's, or after the  *)
(* map has been frozen.  The filter is what EkfOdom shows it to be: every  *)
(* observation is matched with its own cone, so its map is a set of cones, *)
(* and of their estimates only how often they have been moved is kept.     *)
(* Calibration is over.                                                    *)
(***************************************************************************)
EXTENDS CommandQueue

CONSTANTS
    Cones,         \* the cones of the track
    N_CONES,       \* capacity of the map
    freeze_map,
    Laps           \* the lap numbers race status reports

ASSUME FusionAssumption == /\ IsFiniteSet(Cones)
                           /\ N_CONES \in Nat \ {0}
                           /\ freeze_map \in BOOLEAN
                           /\ Laps \subseteq Nat

VARIABLES
    sight,                   \* the cones each scan shows, by arrival number
    map,                     \* the filter: the cones mapped, and
    moves,                   \* how often the estimates have been moved
    is_first_lap_completed,
    dropped_full,            \* AssocStats of the scan fused last
    current_lap,             \* race_status.current_lap
    corrected,               \* the map publisher's snapshot, as a set: empty until
                             \* the latch falls
    published,               \* the map published last
    map_capacity_warned

filterVars == <<map, moves, is_first_lap_completed, dropped_full>>
nodeVars == <<sight, filterVars, current_lap, corrected, published, map_capacity_warned>>
fusionVars == <<queueVars, nodeVars>>

FusionInit == /\ Init
              /\ sight = << >>
              /\ map = {} /\ moves = 0
              /\ is_first_lap_completed = FALSE
              /\ dropped_full = 0
              /\ current_lap = 0
              /\ corrected = {}
              /\ published = {}
              /\ map_capacity_warned = FALSE

-----------------------------------------------------------------------------

\* A message is converted and pushed; a scan comes with what it shows.
receive(cb, t, seen) ==
    /\ Arrive(cb, t)
    /\ sight' = Append(sight, IF cb = "cones" THEN seen ELSE {})
    /\ UNCHANGED <<filterVars, current_lap, corrected, published, map_capacity_warned>>

Room == N_CONES - Cardinality(map)

\* Mutant of update: the lap does not matter, only the room.
updateInAnyLap(seen) ==
    \E new \in SUBSET (seen \ map) :
        /\ Cardinality(new) = IF Cardinality(seen \ map) < Room
                                THEN Cardinality(seen \ map) ELSE Room
        /\ map' = map \cup new
        /\ dropped_full' = Cardinality(seen \ map')
        /\ moves' = IF seen \cap map' = {} THEN moves ELSE moves + 1
        /\ UNCHANGED is_first_lap_completed

\* EKFOdom::update: in lap 1 new cones are mapped while there is room; the joint
\* update moves the map until it is frozen.
update(seen) ==
    \E new \in SUBSET (seen \ map) :
        /\ IF is_first_lap_completed THEN new = {}
             ELSE Cardinality(new) = IF Cardinality(seen \ map) < Room
                                       THEN Cardinality(seen \ map) ELSE Room
        /\ map' = map \cup new
        /\ dropped_full' = IF is_first_lap_completed THEN 0
                                                     ELSE Cardinality(seen \ map')
        /\ moves' = IF seen \cap map' = {} \/ (is_first_lap_completed /\ freeze_map)
                      THEN moves ELSE moves + 1
        /\ UNCHANGED is_first_lap_completed

\* One turn of the drain loop, in the callback of whichever message came.
drain(c) == /\ drainUpTo(c)
            /\ IF c.kind = "Update" THEN update(sight[c.seq + 1])
                                    ELSE UNCHANGED filterVars
            /\ UNCHANGED <<sight, current_lap, corrected, published, map_capacity_warned>>

Map == [cones |-> map, moves |-> moves]
Latching == current_lap > 1 /\ corrected = {}

\* conesCallback ends: the capacity warning, and the map publisher.
finish(told) ==
    /\ map_capacity_warned' = (\/ map_capacity_warned
                              \/ /\ dropped_full = 0
                                 /\ Cardinality(map) >= (N_CONES * 4) \div 5)
    /\ corrected' = IF Latching THEN {Map} ELSE corrected
    /\ is_first_lap_completed' = told
    /\ published' = IF corrected' = {} THEN {Map} ELSE corrected'
    /\ UNCHANGED <<sight, map, moves, dropped_full, current_lap>>

\* Mutants of conesReturn: the filter is told when the scans of lap 1 are through;
\* the map is published before the queue is drained.
conesReturnPatient ==
    /\ callback = "cones" /\ Return
    /\ finish(is_first_lap_completed \/ (Latching /\ buffer = {}))

conesReturnEarly == /\ callback = "cones" /\ returnToSpin
                    /\ finish(is_first_lap_completed \/ Latching)

conesReturn == /\ callback = "cones" /\ Return
               /\ finish(is_first_lap_completed \/ Latching)

limoReturn == callback = "limo" /\ Return /\ UNCHANGED nodeVars

raceStatusCallback == /\ callback = "none"
                      /\ current_lap' \in Laps
                      /\ UNCHANGED <<queueVars, sight, filterVars, corrected, published,
                                     map_capacity_warned>>

FusionNext == \/ \E cb \in Callbacks, t \in 0..MaxStamp, seen \in SUBSET Cones :
                    receive(cb, t, seen)
              \/ \E c \in buffer : drain(c)
              \/ conesReturn \/ limoReturn \/ raceStatusCallback
              \/ Quiet /\ UNCHANGED nodeVars

FusionSpec == FusionInit /\ [][FusionNext]_fusionVars

-----------------------------------------------------------------------------
(* Properties *)

\* The map frozen for the rest of the race is the filter's, cone by cone, though
\* scans of the first lap are still in the queue when it is taken, and fused
\* after it.
SnapshotIsTheMap == freeze_map => \A m \in corrected : m = Map

\* The map a scan is answered with has in it all that was received up to a window
\* before the newest message, as far as there is room: out of the queue, a late
\* scan is fused before it is too late.
Waiting(n) == \E c \in buffer : c.seq + 1 = n /\ newest < c.stamp + Window
AnswersScan == callback = "cones" /\ callback' = "none" /\ corrected = {}
PublishedIsCurrent ==
    [][AnswersScan => \A n \in DOMAIN sight, m \in published' :
            Waiting(n) \/ sight[n] \subseteq m.cones \/ Cardinality(m.cones) = N_CONES]_fusionVars

\* The filter as this module has it is the one EkfOdom implements (EkfScan): with
\* scans out of the queue as with scans straight from the sensor, it keeps
\* FilterContract.
Updates == {i \in DOMAIN applied : applied[i].kind = "Update"}
LastUpdate == CHOOSE i \in Updates : \A j \in Updates : j <= i
LastScan == IF Updates = {} THEN {} ELSE sight[applied[LastUpdate].seq + 1]
Contract == INSTANCE FilterContract WITH
    estimates <- moves,
    lap_over <- is_first_lap_completed,
    shown <- LastScan,
    dropped <- dropped_full # 0
KeepsContract == Contract!Spec
=============================================================================
