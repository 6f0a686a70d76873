-------------------------- MODULE ConeMapPublisher --------------------------
(***************************************************************************)
(* ConeMapPublisher (output/cone_map_publisher.cpp) on top of the filter,  *)
(* with the callbacks of ConeFusion that drive the two: conesCallback runs *)
(* update() (the late-arrival window is 0, as shipped, and calibration is  *)
(* over) and then publish(), raceStatusCallback stores the lap.  The       *)
(* publisher owns the lap-freeze latch, which tells the filter that the    *)
(* first lap is over and keeps a snapshot of the map to publish from then  *)
(* on.  A marker is a function from the landmarks it shows to their        *)
(* positions and colours.                                                  *)
(***************************************************************************)
EXTENDS EkfOdom

CONSTANTS
    cone_time_seen_th,          \* votes a landmark needs to be published
    republish_live_for_debug,   \* keep publishing the live map
    Laps                        \* the lap numbers race status reports

ASSUME PublisherAssumption == /\ cone_time_seen_th \in Nat
                              /\ republish_live_for_debug \in BOOLEAN
                              /\ Laps \subseteq Nat

VARIABLES
    current_lap,        \* race_status.current_lap
    corrected_created,  \* the latch
    live_marker,        \* the map while mapping
    corrected_marker,   \* the snapshot taken at the latch
    published,          \* the marker published last
    inConesCallback     \* conesCallback is running

pubVars == <<current_lap, corrected_created, live_marker, corrected_marker,
             published, inConesCallback>>
mapVars == <<ekfVars, pubVars>>

EmptyMarker == [k \in {} |-> 0]

MapInit == /\ Init
           /\ current_lap = 0
           /\ corrected_created = FALSE
           /\ live_marker = EmptyMarker
           /\ corrected_marker = EmptyMarker
           /\ published = EmptyMarker
           /\ inConesCallback = FALSE

\* Mutant of liveMarker: a threshold off by one.
markerOneVoteShort ==
    [k \in {k \in Mapped : getConeColorAndCount(s[k]).count + 1 >= cone_time_seen_th} |->
        [at |-> mirror.lm[k], color |-> getConeColorAndCount(s[k]).color]]

\* The landmarks with enough votes, as the filter has them now.
liveMarker ==
    [k \in {k \in Mapped : getConeColorAndCount(s[k]).count >= cone_time_seen_th} |->
        [at |-> mirror.lm[k], color |-> getConeColorAndCount(s[k]).color]]

\* The body of publish(): whether the latch falls now, the latch after it, and
\* what the filter is told of the first lap.
publishing(latching, latched, lapOver) ==
    /\ inConesCallback
    /\ pc = "idle"
    /\ live_marker' = IF ~corrected_created \/ republish_live_for_debug THEN liveMarker
                                                                       ELSE live_marker
    /\ is_first_lap_completed' = lapOver
    /\ corrected_created' = latched
    /\ corrected_marker' = IF latching THEN live_marker' ELSE corrected_marker
    /\ published' = IF ~latched \/ republish_live_for_debug THEN live_marker'
                                                           ELSE corrected_marker'
    /\ inConesCallback' = FALSE
    /\ UNCHANGED <<current_lap, car, mirror, backend, landmark_count, s, assoc_stats,
                   pc, obs, batch, origin, seen, scans>>

Latching == current_lap > 1 /\ ~corrected_created

\* Mutants of publish: the filter is not told; the latch follows the lap; the
\* latch waits for a map that is not empty.
publishUntold == publishing(Latching, Latching \/ corrected_created, is_first_lap_completed)
publishUnlatched ==
    publishing(Latching, current_lap > 1, Latching \/ is_first_lap_completed)
publishNonEmpty ==
    LET fall == Latching /\ liveMarker # EmptyMarker
    IN  publishing(fall, fall \/ corrected_created, fall \/ is_first_lap_completed)

\* publish(), the last thing conesCallback does: once past lap 1 the latch
\* falls, the filter is told, and the map is kept to be published from then on.
publish == publishing(Latching, Latching \/ corrected_created,
                      Latching \/ is_first_lap_completed)

conesCallback == /\ ~inConesCallback
                 /\ NewScan
                 /\ inConesCallback' = TRUE
                 /\ UNCHANGED <<current_lap, corrected_created, live_marker,
                                corrected_marker, published>>

limoCallback == ~inConesCallback /\ Motion /\ UNCHANGED pubVars

raceStatusCallback == /\ ~inConesCallback
                      /\ current_lap' \in Laps
                      /\ UNCHANGED <<ekfVars, corrected_created, live_marker,
                                     corrected_marker, published, inConesCallback>>

updateStep == UpdateStep /\ UNCHANGED pubVars

MapNext == \/ conesCallback \/ updateStep \/ publish
           \/ limoCallback \/ raceStatusCallback

MapSpec == /\ MapInit /\ [][MapNext]_mapVars
           /\ WF_mapVars(updateStep) /\ WF_mapVars(publish)

-----------------------------------------------------------------------------
(* Properties *)

IsMarker(m) == /\ DOMAIN m \subseteq Mapped
               /\ \A k \in DOMAIN m : m[k] \in [at : Int, color : ColorIds]
MapTypeOK == /\ TypeOK
             /\ current_lap \in Nat
             /\ corrected_created \in BOOLEAN
             /\ IsMarker(live_marker)
             /\ IsMarker(corrected_marker)
             /\ IsMarker(published)
             /\ inConesCallback \in BOOLEAN

\* With freeze_map the snapshot published for the rest of the race is, landmark
\* by landmark, the map the filter localises against.
FrozenMapIsTheFiltersMap ==
    freeze_map /\ corrected_created =>
        \A k \in DOMAIN corrected_marker : corrected_marker[k].at = mirror.lm[k]

\* The latch falls once: later lap numbers, a lap count that goes back
\* included, neither release it nor take another snapshot.
LatchFallsOnce ==
    [][corrected_created => /\ corrected_created' /\ is_first_lap_completed'
                            /\ corrected_marker' = corrected_marker]_mapVars

\* A cone that has been published stays on every map published later.
NeverUnpublished == [][DOMAIN published \subseteq DOMAIN published']_mapVars

\* No landmark is published on fewer than cone_time_seen_th associations.
PublishedWasSeen == \A k \in DOMAIN published : seen[k] >= cone_time_seen_th

\* A scan that starts after lap 1 leaves the map frozen, and every scan is
\* answered: whatever it holds, its callback publishes.
LatchFalls == inConesCallback /\ current_lap > 1 ~> corrected_created
ScanAnswered == inConesCallback ~> ~inConesCallback

\* An observation is matched with "the nearest mapped landmark" (README.md:191).
AssociatedWithMapped == \A a \in batch : a.k \in Mapped
=============================================================================
