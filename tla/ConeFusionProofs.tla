-------------------------- MODULE ConeFusionProofs ---------------------------
(***************************************************************************)
(* The node with the queue between its messages and the filter, for every  *)
(* window, track, capacity and number of messages.  Seen from the queue it *)
(* is CommandQueue, so that what is proved there holds of it; the rest of  *)
(* the invariant follows a scan from its arrival into the map.             *)
(***************************************************************************)
EXTENDS ConeFusion, CommandQueueProofs, FiniteSetTheorems

\* The node's steps are the queue's, or leave it alone.
LEMMA FusionStep == [FusionNext]_fusionVars => [Next]_queueVars
<1>1. ASSUME NEW cb \in Callbacks, NEW t \in 0..MaxStamp, NEW seen \in SUBSET Cones,
             receive(cb, t, seen)
      PROVE  Next
  BY <1>1 DEF receive, Next
<1>2. ASSUME NEW c \in buffer, drain(c) PROVE Next
  BY <1>2 DEF drain, Next
<1>3. conesReturn \/ limoReturn => Next
  BY DEF conesReturn, limoReturn, Next
<1>4. raceStatusCallback \/ (Quiet /\ UNCHANGED nodeVars) \/ UNCHANGED fusionVars
        => UNCHANGED queueVars
  BY DEF raceStatusCallback, Quiet, fusionVars
<1> QED BY <1>1, <1>2, <1>3, <1>4 DEF FusionNext

\* Seen from the queue the node is CommandQueue: the filter, the map publisher and the
\* race status never touch it.
THEOREM FusionImplementsQueue == FusionSpec => Spec
<1>1. FusionInit => Init
  BY DEF FusionInit
<1> QED BY <1>1, FusionStep, PTL DEF FusionSpec, Spec

\* The filter is fed in stamp order when the window covers the skew.
THEOREM FusionStampOrder == FusionSpec => []StampOrder
  BY FusionImplementsQueue, QueueStampOrder, PTL

-----------------------------------------------------------------------------

\* A scan is known by its arrival number; a LIMO command shows no cone.
Sighted == /\ sight \in Seq(SUBSET Cones) /\ Len(sight) = arrivals
           /\ \A c \in buffer : c.kind = "Predict" => sight[c.seq + 1] = {}

MapFits == map \subseteq Cones /\ Cardinality(map) <= N_CONES

\* The filter is told of the end of the first lap when the latch falls, and only then.
ToldWithLatch == /\ is_first_lap_completed \in BOOLEAN
                 /\ is_first_lap_completed <=> corrected # {}

\* Until then a scan is in the queue, or its cones are in the map, or that is full.
ScanInMap(n) == \/ \E c \in buffer : c.seq + 1 = n
                \/ sight[n] \subseteq map
                \/ Cardinality(map) = N_CONES
ScansMapped == corrected = {} => \A n \in DOMAIN sight : ScanInMap(n)

FusionInv == Sighted /\ MapFits /\ ToldWithLatch /\ ScansMapped /\ SnapshotIsTheMap

\* Nothing is mapped, published or frozen at first.
LEMMA InitFusionInv == FusionInit => FusionInv
<1> SUFFICES ASSUME FusionInit PROVE FusionInv
  OBVIOUS
<1>1. /\ sight = << >> /\ arrivals = 0 /\ buffer = {} /\ corrected = {}
      /\ is_first_lap_completed = FALSE
  BY DEF FusionInit, Init
<1>3. Sighted
  BY <1>1 DEF Sighted
<1>4. ToldWithLatch /\ SnapshotIsTheMap
  BY <1>1 DEF ToldWithLatch, SnapshotIsTheMap
<1>5. ScansMapped
  BY <1>1 DEF ScansMapped
<1>2. MapFits
  BY FS_EmptySet, FusionAssumption DEF FusionInit, MapFits
<1> QED BY <1>2, <1>3, <1>4, <1>5 DEF FusionInv

\* A new set of cones disjoint from the map adds its number.
LEMMA MapGrows ==
    ASSUME MapFits, NEW new \in SUBSET (Cones \ map)
    PROVE  /\ Cardinality(map) \in Nat /\ Cardinality(new) \in Nat
           /\ Cardinality(map \cup new) = Cardinality(map) + Cardinality(new)
<1>1. IsFiniteSet(map) /\ IsFiniteSet(new)
  BY FS_Subset, FusionAssumption DEF MapFits
<1>2. map \cap new = {}
  OBVIOUS
<1>3. Cardinality(map) \in Nat /\ Cardinality(new) \in Nat
  BY <1>1, FS_CardinalityType
<1>4. Cardinality(map \cup new) = Cardinality(map) + Cardinality(new) - Cardinality(map \cap new)
  BY <1>1, FS_Union
<1>5. Cardinality(map \cap new) = 0
  BY <1>2, FS_EmptySet
<1> QED BY <1>3, <1>4, <1>5

\* What update() does to the map.
LEMMA UpdateFacts ==
    ASSUME MapFits, NEW seen \in SUBSET Cones, update(seen)
    PROVE  /\ MapFits' /\ map \subseteq map'
           /\ is_first_lap_completed => map' = map
           /\ is_first_lap_completed /\ freeze_map => moves' = moves
           /\ ~is_first_lap_completed => seen \subseteq map' \/ Cardinality(map') = N_CONES
           /\ Cardinality(map) = N_CONES => map' = map
           /\ UNCHANGED is_first_lap_completed
<1> DEFINE unmapped == seen \ map
<1>1. PICK new \in SUBSET unmapped :
        /\ IF is_first_lap_completed THEN new = {}
             ELSE Cardinality(new) = IF Cardinality(unmapped) < Room
                                       THEN Cardinality(unmapped) ELSE Room
        /\ map' = map \cup new
        /\ moves' = IF seen \cap map' = {} \/ (is_first_lap_completed /\ freeze_map)
                      THEN moves ELSE moves + 1
        /\ UNCHANGED is_first_lap_completed
  BY DEF update
<1>2. /\ new \in SUBSET (Cones \ map) /\ unmapped \in SUBSET (Cones \ map)
      /\ IsFiniteSet(unmapped) /\ Cardinality(unmapped) \in Nat
  BY FS_Subset, FS_CardinalityType, FusionAssumption
<1>3. /\ Cardinality(map) \in Nat /\ Cardinality(new) \in Nat /\ Cardinality(map) <= N_CONES
      /\ Cardinality(map') = Cardinality(map) + Cardinality(new)
      /\ N_CONES \in Nat
  BY <1>1, <1>2, MapGrows, FusionAssumption DEF MapFits
<1>4. new = {} <=> Cardinality(new) = 0
  BY <1>2, FS_EmptySet, FS_Subset
<1>5. CASE is_first_lap_completed
  BY <1>1, <1>5 DEF MapFits
<1>6. CASE ~is_first_lap_completed /\ Cardinality(unmapped) < Room
  <2>1. new = unmapped
    BY <1>1, <1>2, <1>6, FS_Subset
  <2> QED BY <1>1, <1>2, <1>3, <1>4, <1>6, <2>1 DEF MapFits, Room
<1>7. CASE ~is_first_lap_completed /\ ~(Cardinality(unmapped) < Room)
  <2>1. Cardinality(new) = N_CONES - Cardinality(map)
    BY <1>1, <1>7 DEF Room
  <2>2. Cardinality(map') = N_CONES
    BY <1>3, <2>1
  <2>3. Cardinality(map) = N_CONES => map' = map
    BY <1>1, <1>3, <1>4, <2>1
  <2> QED BY <1>1, <1>2, <1>3, <1>7, <2>2, <2>3 DEF MapFits
<1> QED BY <1>5, <1>6, <1>7

\* A message comes in: what it shows is in the queue with it.
LEMMA ReceiveInv ==
    ASSUME IInv, FusionInv, NEW cb \in Callbacks, NEW t \in 0..MaxStamp,
           NEW seen \in SUBSET Cones, receive(cb, t, seen)
    PROVE  FusionInv'
<1> DEFINE new == makeCommand(cb, t, arrivals)
           shown == IF cb = "cones" THEN seen ELSE {}
<1>1. /\ buffer' = buffer \cup {new} /\ arrivals' = arrivals + 1
      /\ new.seq = arrivals /\ (new.kind = "Predict" => cb = "limo")
      /\ sight' = Append(sight, shown) /\ shown \in SUBSET Cones
      /\ UNCHANGED <<map, moves, is_first_lap_completed, corrected>>
  BY DEF receive, Arrive, push, makeCommand, filterVars
<1>2. /\ arrivals \in Nat /\ sight \in Seq(SUBSET Cones) /\ Len(sight) = arrivals
      /\ \A c \in buffer : c.seq \in 0..(arrivals - 1)
  BY QueueAssumption DEF IInv, TypeOK, Received, FusionInv, Sighted
<1>3. /\ sight' \in Seq(SUBSET Cones) /\ Len(sight') = arrivals'
      /\ DOMAIN sight' = 1..(arrivals + 1) /\ DOMAIN sight = 1..arrivals
      /\ \A n \in 1..arrivals : sight'[n] = sight[n]
      /\ sight'[arrivals + 1] = shown
  BY <1>1, <1>2
<1>4. Sighted'
  <2>1. \A c \in buffer : c.seq + 1 \in 1..arrivals
    BY <1>2
  <2>2. cb = "limo" => shown = {}
    OBVIOUS
  <2> QED BY <1>1, <1>3, <2>1, <2>2 DEF FusionInv, Sighted
<1>5. ScansMapped'
  <2> SUFFICES ASSUME corrected = {}, NEW n \in 1..(arrivals + 1)
               PROVE  ScanInMap(n)'
    BY <1>1, <1>3 DEF ScansMapped
  <2>1. CASE n \in 1..arrivals
    BY <2>1, <1>1, <1>3 DEF FusionInv, ScansMapped, ScanInMap
  <2>2. CASE n = arrivals + 1
    BY <2>2, <1>1 DEF ScanInMap
  <2> QED BY <1>2, <2>1, <2>2
<1>6. MapFits' /\ ToldWithLatch' /\ SnapshotIsTheMap'
  BY <1>1 DEF FusionInv, MapFits, ToldWithLatch, SnapshotIsTheMap, Map
<1> QED BY <1>4, <1>5, <1>6 DEF FusionInv

\* A command reaches the filter: a scan's cones go from the queue into the map.
LEMMA DrainInv ==
    ASSUME IInv, FusionInv, NEW c \in buffer, drain(c)
    PROVE  FusionInv'
<1>1. /\ buffer' = buffer \ {c} /\ arrivals' = arrivals
      /\ sight' = sight /\ corrected' = corrected
  BY DEF drain, drainUpTo, apply
<1>2. /\ c.seq + 1 \in DOMAIN sight /\ sight \in Seq(SUBSET Cones)
      /\ c.kind \in {"Predict", "Update"}
  BY QueueAssumption DEF IInv, TypeOK, Received, Kinds, FusionInv, Sighted
<1> DEFINE seen == sight[c.seq + 1]
<1>3. seen \in SUBSET Cones
  BY <1>2
<1>4. /\ MapFits' /\ map \subseteq map'
      /\ is_first_lap_completed => map' = map
      /\ is_first_lap_completed /\ freeze_map => moves' = moves
      /\ ~is_first_lap_completed => seen \subseteq map' \/ Cardinality(map') = N_CONES
      /\ Cardinality(map) = N_CONES => map' = map
      /\ UNCHANGED is_first_lap_completed
  <2>1. CASE c.kind = "Update"
    <3>1. update(seen) /\ MapFits
      BY <2>1 DEF drain, FusionInv
    <3> HIDE DEF seen
    <3> QED BY <3>1, <1>3, UpdateFacts
  <2>2. CASE c.kind = "Predict"
    <3>1. UNCHANGED <<map, moves, is_first_lap_completed>>
      BY <2>2 DEF drain, filterVars
    <3>2. seen = {}
      BY <2>2 DEF FusionInv, Sighted
    <3> QED BY <3>1, <3>2 DEF FusionInv, MapFits
  <2> QED BY <1>2, <2>1, <2>2
<1>5. Sighted' /\ ToldWithLatch'
  BY <1>1, <1>4 DEF FusionInv, Sighted, ToldWithLatch
<1>6. SnapshotIsTheMap'
  <2>1. corrected # {} => is_first_lap_completed
    BY DEF FusionInv, ToldWithLatch
  <2> QED BY <1>1, <1>4, <2>1 DEF FusionInv, SnapshotIsTheMap, Map
<1>7. ScansMapped'
  <2> SUFFICES ASSUME corrected = {}, NEW n \in DOMAIN sight
               PROVE  ScanInMap(n)'
    BY <1>1 DEF ScansMapped
  <2>1. ScanInMap(n) /\ ~is_first_lap_completed
    BY DEF FusionInv, ScansMapped, ToldWithLatch
  <2>2. CASE n = c.seq + 1
    BY <1>1, <1>4, <2>1, <2>2 DEF ScanInMap
  <2>3. CASE n # c.seq + 1
    BY <1>1, <1>4, <2>1, <2>3 DEF ScanInMap
  <2> QED BY <2>2, <2>3
<1> QED BY <1>4, <1>5, <1>6, <1>7 DEF FusionInv

\* The end of a cone callback takes the snapshot and tells the filter.
LEMMA ConesReturnInv ==
    ASSUME FusionInv, conesReturn
    PROVE  FusionInv'
<1>1. /\ UNCHANGED <<buffer, arrivals, sight, map, moves>>
      /\ corrected' = IF Latching THEN {Map} ELSE corrected
      /\ is_first_lap_completed' = (is_first_lap_completed \/ Latching)
      /\ Map' = Map
  BY DEF conesReturn, Return, returnToSpin, finish, Map
<1>2. Sighted' /\ MapFits'
  BY <1>1 DEF FusionInv, Sighted, MapFits
<1>3. ToldWithLatch'
  BY <1>1 DEF FusionInv, ToldWithLatch, Latching
<1>4. SnapshotIsTheMap'
  BY <1>1 DEF FusionInv, SnapshotIsTheMap
<1>5. ScansMapped'
  <2>1. corrected' = {} => corrected = {}
    BY <1>1
  <2> QED BY <1>1, <2>1 DEF FusionInv, ScansMapped, ScanInMap
<1> QED BY <1>2, <1>3, <1>4, <1>5 DEF FusionInv

\* No callback of the node parts the frozen map from the filter's or forgets a fused scan.
LEMMA NextFusionInv == IInv /\ FusionInv /\ [FusionNext]_fusionVars => FusionInv'
<1> SUFFICES ASSUME IInv, FusionInv, [FusionNext]_fusionVars PROVE FusionInv'
  OBVIOUS
<1>1. CASE limoReturn \/ raceStatusCallback \/ (Quiet /\ UNCHANGED nodeVars)
           \/ UNCHANGED fusionVars
  <2>1. UNCHANGED <<buffer, arrivals, sight, map, moves, is_first_lap_completed, corrected>>
    BY <1>1 DEF limoReturn, Return, returnToSpin, raceStatusCallback, Quiet, queueVars,
       nodeVars, filterVars, fusionVars
  <2>2. Sighted' /\ MapFits' /\ ToldWithLatch'
    BY <2>1 DEF FusionInv, Sighted, MapFits, ToldWithLatch
  <2>3. ScansMapped' /\ SnapshotIsTheMap'
    BY <2>1 DEF FusionInv, ScansMapped, ScanInMap, SnapshotIsTheMap, Map
  <2> QED BY <2>2, <2>3 DEF FusionInv
<1> QED BY <1>1, ReceiveInv, DrainInv, ConesReturnInv DEF FusionNext

\* The invariant holds of the queue and of the node around it.
THEOREM FusionInvariant == FusionSpec => [](IInv /\ FusionInv)
<1>1. FusionInit => FusionInv
  BY InitFusionInv
<1> QED BY <1>1, NextFusionInv, FusionImplementsQueue, QueueInvariant, PTL DEF FusionSpec

\* The map frozen for the race is the filter's, whatever scans of the first lap the
\* queue still holds when it is taken.
THEOREM FusionSnapshot == FusionSpec => []SnapshotIsTheMap
<1>1. FusionInv => SnapshotIsTheMap
  BY DEF FusionInv
<1> QED BY <1>1, FusionInvariant, PTL

\* What a callback leaves in the queue is within the window.
LEMMA LeftWaiting ==
    ASSUME IInv, Ready = {}, NEW c \in buffer
    PROVE  newest < c.stamp + Window
<1>1. c.stamp \in Nat /\ newest \in Nat /\ Window \in Nat
  BY QueueAssumption DEF IInv, TypeOK, Received
<1>2. c \notin Ready
  OBVIOUS
<1> QED BY <1>1, <1>2 DEF Ready, Horizon

\* The map a scan is answered with lacks nothing but what the window holds back.
THEOREM FusionPublishedIsCurrent == FusionSpec => PublishedIsCurrent
<1> DEFINE Current == \A n \in DOMAIN sight, m \in published' :
               Waiting(n) \/ sight[n] \subseteq m.cones \/ Cardinality(m.cones) = N_CONES
<1>1. IInv /\ FusionInv /\ [FusionNext]_fusionVars => [AnswersScan => Current]_fusionVars
  <2> SUFFICES ASSUME IInv, FusionInv, [FusionNext]_fusionVars, AnswersScan,
                      NEW n \in DOMAIN sight, NEW m \in published'
               PROVE  Waiting(n) \/ sight[n] \subseteq m.cones \/ Cardinality(m.cones) = N_CONES
    OBVIOUS
  <2>1. callback = "cones" /\ callback' = "none" /\ corrected = {}
    BY DEF AnswersScan
  <2>2. conesReturn
    BY <2>1 DEF FusionNext, receive, Arrive, Callbacks, drain, drainUpTo, apply, limoReturn,
       raceStatusCallback, Quiet, queueVars, fusionVars
  <2>3. m = Map /\ Ready = {}
    BY <2>1, <2>2 DEF conesReturn, Return, finish, Map
  <2>4. ScanInMap(n)
    BY <2>1 DEF FusionInv, ScansMapped
  <2>5. CASE \E c \in buffer : c.seq + 1 = n
    BY <2>3, <2>5, LeftWaiting DEF Waiting
  <2>6. CASE sight[n] \subseteq map \/ Cardinality(map) = N_CONES
    BY <2>3, <2>6 DEF Map
  <2> QED BY <2>4, <2>5, <2>6 DEF ScanInMap
<1> QED BY <1>1, FusionInvariant, PTL DEF FusionSpec, PublishedIsCurrent

\* With a window that covers the skew the node implements ordered, exactly-once
\* delivery to the filter.
THEOREM FusionImplementsOrdered ==
    ASSUME MaxSkew <= Window
    PROVE  FusionSpec => OrderedDelivery
  BY FusionImplementsQueue, QueueImplementsOrdered, PTL

-----------------------------------------------------------------------------
(* The filter behind the queue keeps the contract of the filter *)

\* The last scan fused is one of those applied.
LastKnown == Updates # {} => LastUpdate \in Updates

\* A command that is no scan, or none at all, leaves the last scan fused what it was.
LEMMA LastScanKept ==
    ASSUME IInv, LastKnown, Sighted, Updates' = Updates,
           \A i \in Updates : applied'[i] = applied[i],
           \A n \in DOMAIN sight : sight'[n] = sight[n]
    PROVE  LastKnown' /\ LastScan' = LastScan
<1>1. LastUpdate' = LastUpdate
  BY DEF LastUpdate
<1>2. CASE Updates = {}
  BY <1>2 DEF LastKnown, LastScan
<1>3. CASE Updates # {}
  <2>1. LastUpdate \in Updates
    BY <1>3 DEF LastKnown
  <2>2. applied[LastUpdate] \in Received
    BY <2>1 DEF Updates, IInv, TypeOK
  <2>3. applied[LastUpdate].seq + 1 \in DOMAIN sight
    BY <2>2, QueueAssumption DEF Received, Sighted, IInv, TypeOK
  <2> QED BY <1>1, <1>3, <2>1, <2>3 DEF LastKnown, LastScan
<1> QED BY <1>2, <1>3

\* A scan that is fused is the last one.
LEMMA LastScanFused ==
    ASSUME IInv, NEW c \in buffer, c.kind = "Update", applied' = Append(applied, c)
    PROVE  LastKnown' /\ LastScan' = (sight[c.seq + 1])'
<1> DEFINE n == Len(applied)
<1>1. /\ n \in Nat /\ DOMAIN applied = 1..n /\ DOMAIN applied' = 1..(n + 1)
      /\ applied'[n + 1] = c /\ \A i \in 1..n : applied'[i] = applied[i]
  BY DEF IInv, TypeOK
<1>2. n + 1 \in Updates' /\ \A j \in Updates' : j \in Nat /\ j <= n + 1
  BY <1>1 DEF Updates
<1>3. LastUpdate' = n + 1
  BY <1>2 DEF LastUpdate
<1> QED BY <1>1, <1>2, <1>3 DEF LastKnown, LastScan

\* The contract counts as this module does.
LEMMA SameCardinality == \A S : Contract!Cardinality(S) = Cardinality(S)
  BY DEF Contract!Cardinality, Cardinality

\* A call of update() is a scan of the contract.
LEMMA UpdateIsScan ==
    ASSUME MapFits, is_first_lap_completed \in BOOLEAN, NEW seen \in SUBSET Cones,
           update(seen), LastScan' = seen
    PROVE  Contract!Scan(seen)
<1>1. /\ MapFits' /\ map \subseteq map' /\ is_first_lap_completed' = is_first_lap_completed
      /\ is_first_lap_completed => map' = map
      /\ ~is_first_lap_completed => seen \subseteq map' \/ Cardinality(map') = N_CONES
  BY UpdateFacts
<1>2. /\ map' \subseteq map \cup seen
      /\ dropped_full' = IF is_first_lap_completed THEN 0 ELSE Cardinality(seen \ map')
      /\ moves' = IF seen \cap map' = {} \/ (is_first_lap_completed /\ freeze_map)
                    THEN moves ELSE moves + 1
  BY DEF update
<1>3. CASE is_first_lap_completed
  <2>1. (dropped_full' # 0) = FALSE
    BY <1>2, <1>3
  <2>2. Contract!Localising(seen)
    BY <1>1, <1>2, <1>3, <2>1 DEF Contract!Localising
  <2> QED BY <1>1, <1>3, <2>2 DEF Contract!Scan
<1>4. CASE ~is_first_lap_completed
  <2>1. dropped_full' # 0 <=> ~(seen \subseteq map')
    <3>1. IsFiniteSet(seen \ map')
      BY FS_Subset, FusionAssumption
    <3>2. dropped_full' = 0 <=> seen \ map' = {}
      BY <1>2, <1>4, <3>1, FS_EmptySet
    <3> QED BY <3>2
  <2>2. Contract!Grows(seen) /\ Contract!Fits
    BY <1>1, <1>2, SameCardinality DEF Contract!Grows, Contract!Fits, MapFits
  <2>3. Contract!Complete(seen) \/ Contract!Full
    BY <1>1, <1>4, SameCardinality DEF Contract!Complete, Contract!Full
  <2>4. (dropped_full' # 0) = ~Contract!Complete(seen)
    BY <2>1 DEF Contract!Complete
  <2>5. Contract!Mapping(seen)
    BY <1>2, <1>4, <2>2, <2>3, <2>4 DEF Contract!Mapping
  <2> QED BY <1>1, <1>4, <2>5 DEF Contract!Scan
<1> QED BY <1>3, <1>4

\* Conversely, whatever a filter that keeps the contract makes of a scan, update() can
\* make of it too, but for counting a move where the estimates stayed: what is proved
\* of the node here holds with any such filter in the place of its set of cones, and
\* by EkfScanProofs EkfOdom is one.
THEOREM UpdateIsAnyFilters ==
    ASSUME MapFits, NEW seen \in SUBSET Cones, Contract!Scan(seen)
    PROVE  /\ \E new \in SUBSET (seen \ map) :
                /\ IF is_first_lap_completed THEN new = {}
                     ELSE Cardinality(new) = IF Cardinality(seen \ map) < Room
                                               THEN Cardinality(seen \ map) ELSE Room
                /\ map' = map \cup new
           /\ dropped_full' # 0 <=> ~is_first_lap_completed /\ seen \ map' # {}
           /\ seen \cap map' = {} \/ (is_first_lap_completed /\ freeze_map) => moves' = moves
           /\ UNCHANGED is_first_lap_completed
<1> DEFINE new == map' \ map
           unmapped == seen \ map
<1>1. CASE is_first_lap_completed
  <2>1. map' = map /\ (dropped_full' # 0) = FALSE /\ UNCHANGED is_first_lap_completed
        /\ (freeze_map \/ seen \cap map = {} => moves' = moves)
    BY <1>1 DEF Contract!Scan, Contract!Localising
  <2>2. {} \in SUBSET (seen \ map) /\ map' = map \cup {}
    BY <2>1
  <2> QED BY <1>1, <2>1, <2>2
<1>2. CASE ~is_first_lap_completed
  <2>1. /\ map \subseteq map' /\ map' \subseteq map \cup seen /\ Cardinality(map') <= N_CONES
        /\ seen \subseteq map' \/ Cardinality(map') = N_CONES
        /\ (dropped_full' # 0) = ~(seen \subseteq map')
        /\ (seen \cap map' = {} => moves' = moves)
        /\ UNCHANGED is_first_lap_completed
    BY <1>2, SameCardinality
    DEF Contract!Scan, Contract!Mapping, Contract!Grows, Contract!Fits, Contract!Complete,
        Contract!Full
  <2>2. /\ new \in SUBSET unmapped /\ new \in SUBSET (Cones \ map)
        /\ unmapped \in SUBSET (Cones \ map) /\ map' = map \cup new
    BY <2>1
  <2>3. /\ Cardinality(map) \in Nat /\ Cardinality(new) \in Nat
        /\ Cardinality(map') = Cardinality(map) + Cardinality(new)
        /\ Cardinality(unmapped) \in Nat
    <3>1. Cardinality(map) \in Nat /\ Cardinality(new) \in Nat
          /\ Cardinality(map \cup new) = Cardinality(map) + Cardinality(new)
      BY <2>2, MapGrows
    <3>2. Cardinality(unmapped) \in Nat
      BY <2>2, MapGrows
    <3> QED BY <2>2, <3>1, <3>2
  <2>4. Cardinality(new) <= Cardinality(unmapped)
    <3>1. IsFiniteSet(unmapped)
      BY FS_Subset, FusionAssumption
    <3> QED BY <2>2, <3>1, FS_Subset
  <2>5. seen \subseteq map' => Cardinality(new) = Cardinality(unmapped)
    <3>1. seen \subseteq map' => new = unmapped
      BY <2>1
    <3> QED BY <3>1
  <2>6. Cardinality(new) = IF Cardinality(unmapped) < Room THEN Cardinality(unmapped) ELSE Room
    <3> HIDE DEF new, unmapped
    <3> QED BY <2>1, <2>3, <2>4, <2>5, FusionAssumption DEF Room
  <2> QED BY <1>2, <2>1, <2>2, <2>6
<1> QED BY <1>1, <1>2

\* Each callback of the node, seen from the filter, is a scan, the end of lap 1 or
\* nothing.
LEMMA NextKeepsContract ==
    ASSUME IInv, FusionInv, LastKnown, [FusionNext]_fusionVars
    PROVE  LastKnown' /\ [Contract!Next]_(Contract!vars)
<1>1. ASSUME NEW cb \in Callbacks, NEW t \in 0..MaxStamp, NEW seen \in SUBSET Cones,
             receive(cb, t, seen)
      PROVE  LastKnown' /\ UNCHANGED Contract!vars
  <2>1. /\ applied' = applied /\ UNCHANGED filterVars
        /\ sight' = Append(sight, IF cb = "cones" THEN seen ELSE {})
    BY <1>1 DEF receive, Arrive
  <2>2. \A n \in DOMAIN sight : sight'[n] = sight[n]
    BY <2>1 DEF FusionInv, Sighted
  <2>3. LastKnown' /\ LastScan' = LastScan
    BY <2>1, <2>2, LastScanKept DEF FusionInv, Updates
  <2> QED BY <2>1, <2>3 DEF Contract!vars, filterVars
<1>2. ASSUME NEW c \in buffer, drain(c)
      PROVE  LastKnown' /\ [Contract!Next]_(Contract!vars)
  <2>1. applied' = Append(applied, c) /\ sight' = sight /\ applied \in Seq(Received)
    BY <1>2 DEF drain, drainUpTo, apply, IInv, TypeOK
  <2>2. c.kind \in Kinds /\ sight[c.seq + 1] \in SUBSET Cones
    BY QueueAssumption DEF IInv, TypeOK, Received, FusionInv, Sighted
  <2>3. CASE c.kind = "Update"
    <3> DEFINE seen == sight[c.seq + 1]
    <3>1. LastKnown' /\ LastScan' = seen
      BY <2>1, <2>3, LastScanFused
    <3>2. update(seen)
      BY <1>2, <2>3 DEF drain
    <3> HIDE DEF seen
    <3>3. seen \in SUBSET Cones
      BY <2>2 DEF seen
    <3>4. Contract!Scan(seen)
      BY <3>1, <3>2, <3>3, UpdateIsScan DEF FusionInv, ToldWithLatch
    <3>5. \E shows \in SUBSET Cones : Contract!Scan(shows)
      BY <3>3, <3>4
      DEF Contract!Scan, Contract!Localising, Contract!Mapping, Contract!Grows,
          Contract!Fits, Contract!Full, Contract!Complete
    <3> QED BY <3>1, <3>5 DEF Contract!Next
  <2>4. CASE c.kind = "Predict"
    <3>1. UNCHANGED filterVars
      BY <1>2, <2>4 DEF drain
    <3>2. Updates' = Updates /\ \A i \in Updates : applied'[i] = applied[i]
      BY <2>1, <2>4 DEF Updates
    <3>3. LastKnown' /\ LastScan' = LastScan
      BY <2>1, <3>2, LastScanKept DEF FusionInv
    <3> QED BY <3>1, <3>3 DEF Contract!vars, filterVars
  <2> QED BY <2>2, <2>3, <2>4 DEF Kinds
<1>3. CASE conesReturn \/ limoReturn \/ raceStatusCallback \/ (Quiet /\ UNCHANGED nodeVars)
           \/ UNCHANGED fusionVars
  <2>1. UNCHANGED <<applied, sight, map, moves, dropped_full>>
    BY <1>3 DEF conesReturn, limoReturn, Return, returnToSpin, finish, raceStatusCallback,
       Quiet, queueVars, nodeVars, filterVars, fusionVars
  <2>2. LastKnown' /\ LastScan' = LastScan
    BY <2>1, LastScanKept DEF FusionInv, Updates
  <2>3. is_first_lap_completed' = is_first_lap_completed \/ is_first_lap_completed' = TRUE
    BY <1>3 DEF conesReturn, limoReturn, finish, raceStatusCallback, nodeVars, filterVars,
       fusionVars, FusionInv, ToldWithLatch
  <2> QED BY <2>1, <2>2, <2>3 DEF Contract!Next, Contract!LapOver, Contract!vars
<1> QED BY <1>1, <1>2, <1>3 DEF FusionNext

\* The node's filter keeps FilterContract for every window, lateness and number of
\* messages: a scan fused late, by LIMO's callback or after the map was frozen is
\* fused like any other (ConeFusion::drainQueue).
THEOREM FusionKeepsContract == FusionSpec => KeepsContract
<1>1. FusionInit => LastKnown /\ Contract!Init
  <2> SUFFICES ASSUME FusionInit PROVE LastKnown /\ Contract!Init
    OBVIOUS
  <2>1. applied = << >> /\ map = {} /\ is_first_lap_completed = FALSE /\ dropped_full = 0
    BY DEF FusionInit, Init
  <2>2. Updates = {}
    BY <2>1 DEF Updates
  <2>3. (dropped_full # 0) = FALSE
    BY <2>1
  <2> QED BY <2>1, <2>2, <2>3 DEF LastKnown, LastScan, Contract!Init
<1>2. IInv /\ FusionInv /\ LastKnown /\ [FusionNext]_fusionVars
        => LastKnown' /\ [Contract!Next]_(Contract!vars)
  BY NextKeepsContract
<1> QED BY <1>1, <1>2, FusionInvariant, PTL DEF FusionSpec, KeepsContract, Contract!Spec
=============================================================================
