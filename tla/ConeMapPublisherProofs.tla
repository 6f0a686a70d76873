----------------------- MODULE ConeMapPublisherProofs ------------------------
(***************************************************************************)
(* The map publisher on top of the filter.  A step of the composition is a *)
(* step of EkfOdom, or leaves it alone: what EkfOdomProofs shows of the    *)
(* filter holds here.  To that the latch adds that it implies the filter's *)
(* lap flag, and the markers that what they show was voted for often enough*)
(* (votes never decrease, and are at most the sightings).                  *)
(***************************************************************************)
EXTENDS ConeMapPublisher, EkfOdomProofs

\* No landmark has more votes of a colour than sightings.
VotesSeen == \A k \in Slots, id \in ColorIds : s[k][id] <= seen[k]

Publishable == {k \in Mapped : getConeColorAndCount(s[k]).count >= cone_time_seen_th}

LatchInv ==
    /\ corrected_created => is_first_lap_completed
    /\ corrected_created /\ ~republish_live_for_debug => published = corrected_marker
    /\ \A m \in {live_marker, corrected_marker, published} : DOMAIN m \subseteq Publishable

PublisherInv ==
    EkfInv /\ VotesSeen /\ LatchInv /\ MapTypeOK /\ FrozenMapIsTheFiltersMap

-----------------------------------------------------------------------------
(* Votes *)

\* The colour with most votes exists: the winner is a colour, with as many votes as
\* any.
LEMMA WinnerFacts ==
    ASSUME NEW votes \in [ColorIds -> Nat]
    PROVE  /\ getConeColorAndCount(votes).color \in ColorIds
           /\ getConeColorAndCount(votes).count \in Nat
           /\ getConeColorAndCount(votes).count
                = votes[getConeColorAndCount(votes).color]
           /\ \A id \in ColorIds : votes[id] <= getConeColorAndCount(votes).count
<1> DEFINE winner == CHOOSE id \in ColorIds : IsMostVoted(votes, id)
<1>1. ColorIds = {0, 1, 2, 3}
  BY DEF ColorIds, blueCone, orangeBigCone
<1>2. \E id \in ColorIds : IsMostVoted(votes, id)
  <2>1. votes[0] \in Nat /\ votes[1] \in Nat /\ votes[2] \in Nat /\ votes[3] \in Nat
    BY <1>1
  <2>2. PICK w \in {0, 1, 2, 3} : \A id \in {0, 1, 2, 3} :
            votes[id] <= votes[w] /\ (id < w => votes[id] < votes[w])
    BY <2>1
  <2> QED BY <1>1, <2>2 DEF IsMostVoted
<1>3. winner \in ColorIds /\ IsMostVoted(votes, winner)
  BY <1>2
<1>4. getConeColorAndCount(votes) = [color |-> winner, count |-> votes[winner]]
  BY DEF getConeColorAndCount
<1> HIDE DEF winner
<1> QED BY <1>3, <1>4 DEF IsMostVoted

\* More votes for every colour make the winner's count no smaller (getConeColorAndCount).
LEMMA CountGrows ==
    ASSUME NEW v \in [ColorIds -> Nat], NEW w \in [ColorIds -> Nat],
           \A id \in ColorIds : v[id] <= w[id]
    PROVE  getConeColorAndCount(v).count <= getConeColorAndCount(w).count
<1> DEFINE c == getConeColorAndCount(v).color
<1>1. c \in ColorIds /\ getConeColorAndCount(v).count = v[c]
  BY WinnerFacts
<1>2. w[c] <= getConeColorAndCount(w).count /\ getConeColorAndCount(w).count \in Nat
  BY <1>1, WinnerFacts
<1> HIDE DEF c
<1> QED BY <1>1, <1>2

\* setColor adds one vote at most, and takes none.
LEMMA VoteAdds ==
    ASSUME NEW votes \in [ColorIds -> Nat], NEW id
    PROVE  \A j \in ColorIds : votes[j] <= setColor(votes, id)[j]
                            /\ setColor(votes, id)[j] <= votes[j] + 1
  BY DEF setColor

\* A step of the filter: landmarks, votes and sightings only become more.
FilterGrows ==
    /\ Mapped \subseteq Mapped'
    /\ \A k \in Mapped, id \in ColorIds : s[k][id] <= s'[k][id]
    /\ \A k \in Mapped : seen[k] <= seen'[k]

\* What is mapped lies in the arrays.
LEMMA SlotsOfMapped ==
    ASSUME EkfInv
    PROVE  Mapped \subseteq Slots
  BY SlotFacts DEF EkfInv, TypeOK, Mapped, Slots

\* A step that leaves the map alone leaves the votes alone.
LEMMA KeptGrows ==
    ASSUME EkfInv, VotesSeen, landmark_count' = landmark_count, s' = s, seen' = seen
    PROVE  VotesSeen' /\ FilterGrows
<1>1. Mapped' = Mapped /\ Mapped \subseteq Slots
  BY SlotsOfMapped DEF Mapped
<1>2. \A k \in Slots : seen[k] \in Nat /\ s[k] \in [ColorIds -> Nat]
  BY DEF EkfInv, TypeOK
<1>3. \A k \in Slots, id \in ColorIds : s[k][id] \in Nat
  BY <1>2
<1> QED BY <1>1, <1>2, <1>3 DEF VotesSeen, FilterGrows

\* An association adds a vote for the cone seen.
LEMMA AssociateGrows ==
    ASSUME EkfInv, VotesSeen, NEW o, NEW k \in Slots, associate(o, k)
    PROVE  VotesSeen' /\ FilterGrows
<1>1. Mapped' = Mapped /\ Mapped \subseteq Slots
  BY SlotsOfMapped DEF associate, Mapped
<1>2. \A j \in Slots : seen[j] \in Nat /\ s[j] \in [ColorIds -> Nat]
  BY DEF EkfInv, TypeOK
<1>3. \A j \in Slots, id \in ColorIds : s[j][id] \in Nat
  BY <1>2
<1>4. /\ \A j \in Slots : s'[j] = IF j = k THEN setColor(s[k], o.color) ELSE s[j]
      /\ \A j \in Slots : seen'[j] = IF j = k THEN seen[k] + 1 ELSE seen[j]
  BY DEF associate, EkfInv, TypeOK
<1>5. \A id \in ColorIds : /\ s[k][id] <= setColor(s[k], o.color)[id]
                           /\ setColor(s[k], o.color)[id] <= s[k][id] + 1
                           /\ setColor(s[k], o.color)[id] \in Nat
  BY <1>2, VoteAdds, VotesTyped
<1>6. VotesSeen'
  BY <1>2, <1>3, <1>4, <1>5 DEF VotesSeen
<1>7. FilterGrows
  BY <1>1, <1>2, <1>3, <1>4, <1>5 DEF FilterGrows
<1> QED BY <1>6, <1>7

\* A new landmark starts with the vote of its first sighting.
LEMMA NewConeGrows ==
    ASSUME EkfInv, VotesSeen, Associating, NEW k \in Slots, newCone(Head(obs), k)
    PROVE  VotesSeen' /\ FilterGrows
<1> DEFINE o == Head(obs)  n == landmark_count
<1>1. allocate(o) /\ n < N_CONES
  BY DEF newCone
<1>2. Mapped' = Mapped \cup {n} /\ n \notin Mapped /\ Mapped \subseteq Slots /\ n \in Slots
  BY <1>1, AllocateFacts
<1>3. \A j \in Slots : seen[j] \in Nat /\ s[j] \in [ColorIds -> Nat]
  BY DEF EkfInv, TypeOK
<1>4. \A j \in Slots, id \in ColorIds : s[j][id] \in Nat
  BY <1>3
<1>5. /\ \A j \in Slots : s'[j] = IF j = n THEN setColor(NoVotes, o.color) ELSE s[j]
      /\ \A j \in Slots : seen'[j] = IF j = n THEN 1 ELSE seen[j]
  BY <1>1 DEF allocate, EkfInv, TypeOK
<1>6. \A id \in ColorIds : setColor(NoVotes, o.color)[id] <= 1
  <2>1. NoVotes \in [ColorIds -> Nat] /\ \A id \in ColorIds : NoVotes[id] = 0
    BY DEF NoVotes
  <2> QED BY <2>1, VoteAdds
<1>7. VotesSeen'
  BY <1>3, <1>4, <1>5, <1>6 DEF VotesSeen
<1>8. FilterGrows
  BY <1>2, <1>3, <1>4, <1>5 DEF FilterGrows
<1> QED BY <1>7, <1>8

\* No step of the filter takes a landmark or a vote away.
LEMMA NextGrows ==
    ASSUME EkfInv, VotesSeen, [Next]_ekfVars
    PROVE  VotesSeen' /\ FilterGrows
<1>1. CASE Motion
  BY <1>1, KeptGrows DEF Motion, predict
<1>2. CASE NewScan
  BY <1>2, KeptGrows DEF NewScan, update
<1>3. CASE processObservation
  <2>1. CASE skipOrange(Head(obs))
    BY <2>1, KeptGrows DEF skipOrange
  <2>2. ASSUME NEW k \in Slots, considered(Head(obs), k) PROVE VotesSeen' /\ FilterGrows
    <3>1. CASE gateDrop(Head(obs), k)
      BY <3>1, KeptGrows DEF gateDrop, drop
    <3>2. CASE gatePass(Head(obs), k)
      BY <3>2, AssociateGrows DEF gatePass
    <3>3. CASE existing(Head(obs), k)
      BY <3>3, AssociateGrows DEF existing
    <3>4. CASE full(Head(obs), k)
      BY <3>4, KeptGrows DEF full, drop
    <3>5. CASE newCone(Head(obs), k)
      BY <1>3, <3>5, NewConeGrows DEF processObservation
    <3> QED BY <2>2, <3>1, <3>2, <3>3, <3>4, <3>5 DEF considered
  <2> QED BY <1>3, <2>1, <2>2 DEF processObservation
<1>4. CASE endOfScan
  BY <1>4, KeptGrows DEF endOfScan, leaveLoop
<1>5. CASE jointUpdate
  BY <1>5, KeptGrows DEF jointUpdate, fullState, fullStateFailed, rigid, fused
<1>6. CASE setFirstLapCompleted
  BY <1>6, KeptGrows DEF setFirstLapCompleted
<1>7. CASE UNCHANGED ekfVars
  BY <1>7, KeptGrows DEF ekfVars
<1> QED BY <1>1, <1>2, <1>3, <1>4, <1>5, <1>6, <1>7 DEF Next, UpdateStep

\* What had enough sightings to be published still has.
LEMMA PublishableGrows ==
    ASSUME EkfInv, EkfInv', FilterGrows
    PROVE  Publishable \subseteq Publishable'
<1> SUFFICES ASSUME NEW k \in Publishable PROVE k \in Publishable'
  OBVIOUS
<1>1. k \in Mapped /\ k \in Mapped' /\ k \in Slots
  BY SlotsOfMapped DEF Publishable, FilterGrows
<1>2. s[k] \in [ColorIds -> Nat] /\ s'[k] \in [ColorIds -> Nat]
  BY <1>1 DEF EkfInv, TypeOK
<1>3. getConeColorAndCount(s[k]).count <= getConeColorAndCount(s'[k]).count
  BY <1>1, <1>2, CountGrows DEF FilterGrows
<1>4. getConeColorAndCount(s[k]).count \in Nat /\ getConeColorAndCount(s'[k]).count \in Nat
  BY <1>2, WinnerFacts
<1> QED BY <1>1, <1>3, <1>4, PublisherAssumption DEF Publishable

-----------------------------------------------------------------------------
(* The publisher's steps *)

\* publish() tells the filter of the lap as setFirstLapCompleted would, or not.
LEMMA PublishIsFilterStep ==
    ASSUME EkfInv, publish
    PROVE  [Next]_ekfVars
<1>1. is_first_lap_completed \in BOOLEAN
  BY DEF EkfInv, TypeOK
<1>2. /\ pc = "idle" /\ is_first_lap_completed' = (Latching \/ is_first_lap_completed)
      /\ UNCHANGED <<car, mirror, backend, landmark_count, s, assoc_stats, pc, obs,
                     batch, origin, seen, scans>>
  BY DEF publish, publishing
<1>3. CASE Latching
  BY <1>2, <1>3 DEF setFirstLapCompleted, Next
<1>4. CASE ~Latching
  BY <1>1, <1>2, <1>4 DEF ekfVars
<1> QED BY <1>3, <1>4

\* Every step of the composition is one of the filter, or leaves it alone.
LEMMA MapNextIsFilterStep ==
    ASSUME EkfInv, [MapNext]_mapVars
    PROVE  [Next]_ekfVars
<1>1. CASE publish
  BY <1>1, PublishIsFilterStep
<1>2. CASE conesCallback \/ updateStep \/ limoCallback
  BY <1>2 DEF conesCallback, updateStep, limoCallback, Next
<1>3. CASE raceStatusCallback
  BY <1>3 DEF raceStatusCallback, ekfVars
<1>4. CASE UNCHANGED mapVars
  BY <1>4 DEF mapVars
<1> QED BY <1>1, <1>2, <1>3, <1>4 DEF MapNext

\* The live marker shows the publishable landmarks where the filter has them.
LEMMA LiveMarkerFacts ==
    ASSUME EkfInv
    PROVE  /\ DOMAIN liveMarker = Publishable
           /\ IsMarker(liveMarker)
           /\ \A k \in Publishable : liveMarker[k].at = mirror.lm[k]
<1>1. /\ Publishable \subseteq Mapped /\ Mapped \subseteq Slots
      /\ mirror.lm \in [Slots -> Int] /\ s \in [Slots -> [ColorIds -> Nat]]
  BY SlotsOfMapped DEF Publishable, EkfInv, TypeOK, State
<1>2. liveMarker = [k \in Publishable |->
                       [at |-> mirror.lm[k], color |-> getConeColorAndCount(s[k]).color]]
  BY DEF liveMarker, Publishable
<1>3. \A k \in Publishable : /\ mirror.lm[k] \in Int
                             /\ getConeColorAndCount(s[k]).color \in ColorIds
  BY <1>1, WinnerFacts
<1> QED BY <1>1, <1>2, <1>3 DEF IsMarker

\* A marker of landmarks that stay mapped stays a marker.
LEMMA MarkersStay ==
    ASSUME NEW m, IsMarker(m), FilterGrows
    PROVE  DOMAIN m \subseteq Mapped' /\ \A k \in DOMAIN m : m[k] \in [at : Int, color : ColorIds]
  BY DEF IsMarker, FilterGrows

\* What is published afterwards, and with which snapshot.
LEMMA PublishFacts ==
    ASSUME PublisherInv, publish
    PROVE  /\ live_marker' \in {liveMarker, live_marker}
           /\ corrected_marker' \in {live_marker', corrected_marker}
           /\ published' \in {live_marker', corrected_marker'}
           /\ ~corrected_created => live_marker' = liveMarker
           /\ corrected_created => corrected_marker' = corrected_marker
           /\ corrected_created' /\ ~corrected_created => corrected_marker' = liveMarker
           /\ corrected_created => corrected_created'
           /\ corrected_created' => is_first_lap_completed'
           /\ corrected_created' /\ ~republish_live_for_debug => published' = corrected_marker'
           /\ corrected_created' \in BOOLEAN /\ inConesCallback' \in BOOLEAN
           /\ current_lap' = current_lap /\ mirror' = mirror
           /\ DOMAIN published \subseteq DOMAIN published'
<1>1. corrected_created \in BOOLEAN /\ is_first_lap_completed \in BOOLEAN
  BY DEF PublisherInv, MapTypeOK, TypeOK
<1>2. /\ live_marker' = IF ~corrected_created \/ republish_live_for_debug THEN liveMarker
                                                                         ELSE live_marker
      /\ is_first_lap_completed' = (Latching \/ is_first_lap_completed)
      /\ corrected_created' = (Latching \/ corrected_created)
      /\ corrected_marker' = IF Latching THEN live_marker' ELSE corrected_marker
      /\ published' = IF ~(Latching \/ corrected_created) \/ republish_live_for_debug
                        THEN live_marker' ELSE corrected_marker'
      /\ inConesCallback' = FALSE /\ current_lap' = current_lap /\ mirror' = mirror
  BY DEF publish, publishing
<1>3. /\ corrected_created => is_first_lap_completed
      /\ corrected_created /\ ~republish_live_for_debug => published = corrected_marker
      /\ DOMAIN published \subseteq Publishable
  BY DEF PublisherInv, LatchInv
<1>4. Latching => ~corrected_created
  BY DEF Latching
<1>5. DOMAIN liveMarker = Publishable
  BY LiveMarkerFacts DEF PublisherInv
<1>6. \/ published' = liveMarker
      \/ published' = corrected_marker /\ published = corrected_marker
  <2>1. CASE republish_live_for_debug \/ ~corrected_created
    BY <1>2, <1>4, <2>1
  <2>2. CASE ~republish_live_for_debug /\ corrected_created
    BY <1>2, <1>3, <1>4, <2>2
  <2> QED BY <2>1, <2>2
<1> QED BY <1>1, <1>2, <1>3, <1>4, <1>5, <1>6

\* publish() takes the snapshot from the filter's own map and tells the filter at once.
LEMMA PublishPublisherInv ==
    ASSUME PublisherInv, publish
    PROVE  PublisherInv'
<1>1. EkfInv' /\ VotesSeen' /\ FilterGrows
  BY PublishIsFilterStep, NextEkfInv, NextGrows DEF PublisherInv
<1>2. Mapped' = Mapped /\ Publishable' = Publishable
  BY DEF publish, publishing, Mapped, Publishable
<1>3. \A m \in {live_marker', corrected_marker', published'} :
          IsMarker(m) /\ DOMAIN m \subseteq Publishable
  <2>1. \A m \in {liveMarker, live_marker, corrected_marker} :
            IsMarker(m) /\ DOMAIN m \subseteq Publishable
    BY LiveMarkerFacts DEF PublisherInv, MapTypeOK, LatchInv
  <2> QED BY <2>1, PublishFacts
<1>4. LatchInv'
  BY <1>2, <1>3, PublishFacts DEF LatchInv
<1>5. MapTypeOK'
  <2>1. IsMarker(live_marker)' /\ IsMarker(corrected_marker)' /\ IsMarker(published)'
    BY <1>2, <1>3 DEF IsMarker
  <2>2. current_lap' \in Nat /\ corrected_created' \in BOOLEAN /\ inConesCallback' \in BOOLEAN
    BY PublishFacts DEF PublisherInv, MapTypeOK
  <2> QED BY <1>1, <2>1, <2>2 DEF MapTypeOK, EkfInv
<1>6. FrozenMapIsTheFiltersMap'
  <2> SUFFICES ASSUME freeze_map, corrected_created', NEW k \in DOMAIN corrected_marker'
               PROVE  corrected_marker'[k].at = mirror'.lm[k]
    BY DEF FrozenMapIsTheFiltersMap
  <2>1. CASE corrected_created
    BY <2>1, PublishFacts DEF PublisherInv, FrozenMapIsTheFiltersMap
  <2>2. CASE ~corrected_created
    BY <2>2, PublishFacts, LiveMarkerFacts DEF PublisherInv
  <2> QED BY <2>1, <2>2
<1> QED BY <1>1, <1>4, <1>5, <1>6 DEF PublisherInv

\* The other callbacks leave the publisher's markers and latch alone.
LEMMA OtherPublisherInv ==
    ASSUME PublisherInv, [Next]_ekfVars,
           UNCHANGED <<corrected_created, live_marker, corrected_marker, published>>,
           current_lap' \in Nat, inConesCallback' \in BOOLEAN
    PROVE  PublisherInv'
<1>1. EkfInv' /\ VotesSeen' /\ FilterGrows
  BY NextEkfInv, NextGrows DEF PublisherInv
<1>2. Publishable \subseteq Publishable'
  BY <1>1, PublishableGrows DEF PublisherInv
<1>3. FrozenStep
  BY NextFrozen DEF PublisherInv
<1>4. LatchInv'
  BY <1>2, <1>3 DEF LatchInv, PublisherInv, FrozenStep
<1>5. MapTypeOK'
  <2>1. IsMarker(live_marker)' /\ IsMarker(corrected_marker)' /\ IsMarker(published)'
    BY <1>1, MarkersStay DEF PublisherInv, MapTypeOK, IsMarker
  <2> QED BY <1>1, <2>1 DEF PublisherInv, MapTypeOK, EkfInv
<1>6. FrozenMapIsTheFiltersMap'
  BY <1>3 DEF FrozenMapIsTheFiltersMap, PublisherInv, LatchInv, FrozenStep
<1> QED BY <1>1, <1>4, <1>5, <1>6 DEF PublisherInv

\* No callback breaks the invariant.
LEMMA MapNextPublisherInv ==
    ASSUME PublisherInv, [MapNext]_mapVars
    PROVE  PublisherInv'
<1>1. CASE publish
  BY <1>1, PublishPublisherInv
<1>2. CASE ~publish
  <2>1. [Next]_ekfVars
    BY MapNextIsFilterStep DEF PublisherInv
  <2>2. /\ UNCHANGED <<corrected_created, live_marker, corrected_marker, published>>
        /\ current_lap' \in Nat /\ inConesCallback' \in BOOLEAN
    BY <1>2, PublisherAssumption
    DEF MapNext, conesCallback, updateStep, limoCallback, raceStatusCallback,
        pubVars, mapVars, PublisherInv, MapTypeOK
  <2> QED BY <2>1, <2>2, OtherPublisherInv
<1> QED BY <1>1, <1>2

\* The publisher starts with an empty marker and the latch up.
LEMMA InitPublisherInv == MapInit => PublisherInv
<1> SUFFICES ASSUME MapInit PROVE PublisherInv
  OBVIOUS
<1>1. EkfInv
  BY InitEkfInv DEF MapInit
<1>2. VotesSeen
  BY DEF MapInit, Init, VotesSeen, NoVotes
<1>3. DOMAIN EmptyMarker = {} /\ IsMarker(EmptyMarker)
  BY DEF EmptyMarker, IsMarker
<1>4. LatchInv /\ MapTypeOK /\ FrozenMapIsTheFiltersMap
  BY <1>1, <1>3 DEF MapInit, LatchInv, MapTypeOK, FrozenMapIsTheFiltersMap, EkfInv
<1> QED BY <1>1, <1>2, <1>4 DEF PublisherInv

\* The invariant of the map publisher and the filter together.
THEOREM PublisherInvariant == MapSpec => []PublisherInv
<1>1. MapInit => PublisherInv
  BY InitPublisherInv
<1>2. PublisherInv /\ [MapNext]_mapVars => PublisherInv'
  BY MapNextPublisherInv
<1> QED BY <1>1, <1>2, PTL DEF MapSpec

\* The composition implements the filter on its own: the publisher calls
\* setFirstLapCompleted as anyone may, and nothing else of the filter.
THEOREM MapImplementsFilter == MapSpec => Spec
<1>1. MapInit => Init
  BY DEF MapInit
<1>2. PublisherInv /\ [MapNext]_mapVars => [Next]_ekfVars
  BY MapNextIsFilterStep DEF PublisherInv
<1> QED BY <1>1, <1>2, PublisherInvariant, PTL DEF MapSpec, Spec

\* Every marker is of mapped landmarks, with a colour an observation can have.
THEOREM MapTypes == MapSpec => []MapTypeOK
<1>1. PublisherInv => MapTypeOK
  BY DEF PublisherInv
<1> QED BY <1>1, PublisherInvariant, PTL

\* With freeze_map the published snapshot is the filter's map for good, however
\* many scans follow and whatever laps are reported.
THEOREM MapSnapshot == MapSpec => []FrozenMapIsTheFiltersMap
<1>1. PublisherInv => FrozenMapIsTheFiltersMap
  BY DEF PublisherInv
<1> QED BY <1>1, PublisherInvariant, PTL

\* Votes of the winning colour are sightings: what is published was seen.
THEOREM MapPublishedWasSeen == MapSpec => []PublishedWasSeen
<1>1. ASSUME PublisherInv PROVE PublishedWasSeen
  <2> SUFFICES ASSUME NEW k \in DOMAIN published PROVE seen[k] >= cone_time_seen_th
    BY DEF PublishedWasSeen
  <2>1. k \in Publishable /\ k \in Slots
    BY <1>1, SlotsOfMapped DEF PublisherInv, LatchInv, Publishable
  <2>2. s[k] \in [ColorIds -> Nat] /\ seen[k] \in Nat
    BY <1>1, <2>1 DEF PublisherInv, EkfInv, TypeOK
  <2>3. getConeColorAndCount(s[k]).count \in Nat /\ getConeColorAndCount(s[k]).count <= seen[k]
    BY <1>1, <2>1, <2>2, WinnerFacts DEF PublisherInv, VotesSeen
  <2> QED BY <2>1, <2>2, <2>3, PublisherAssumption DEF Publishable
<1> QED BY <1>1, PublisherInvariant, PTL

LatchStep == corrected_created => /\ corrected_created' /\ is_first_lap_completed'
                                  /\ corrected_marker' = corrected_marker

\* The latch only falls, and what is shown stays.
LEMMA MapNextLatch ==
    ASSUME PublisherInv, [MapNext]_mapVars
    PROVE  LatchStep /\ DOMAIN published \subseteq DOMAIN published'
<1>1. CASE publish
  BY <1>1, PublishFacts DEF LatchStep
<1>2. CASE ~publish
  <2>1. UNCHANGED <<corrected_created, corrected_marker, published>>
    BY <1>2 DEF MapNext, conesCallback, updateStep, limoCallback, raceStatusCallback,
                pubVars, mapVars
  <2>2. FrozenStep
    BY MapNextIsFilterStep, NextFrozen DEF PublisherInv
  <2> QED BY <2>1, <2>2 DEF LatchStep, FrozenStep, PublisherInv, LatchInv
<1> QED BY <1>1, <1>2

\* The latch falls once, and with it the filter's lap flag.
THEOREM MapLatchFallsOnce == MapSpec => LatchFallsOnce
<1>1. PublisherInv /\ [MapNext]_mapVars => [LatchStep]_mapVars
  BY MapNextLatch
<1> QED BY <1>1, PublisherInvariant, PTL DEF MapSpec, LatchFallsOnce, LatchStep

\* A published cone is on every later map: the votes of its colour, or of the one
\* that overtakes it, do not sink, and the snapshot is taken of a map that has it.
THEOREM MapNeverUnpublished == MapSpec => NeverUnpublished
<1>1. PublisherInv /\ [MapNext]_mapVars
        => [DOMAIN published \subseteq DOMAIN published']_mapVars
  BY MapNextLatch
<1> QED BY <1>1, PublisherInvariant, PTL DEF MapSpec, NeverUnpublished

\* Only a latch that fell on an empty map lets an observation be associated with a
\* landmark that was never mapped.
THEOREM MapAssociatedWithMapped ==
    MapSpec => []((is_first_lap_completed => landmark_count > 0) => AssociatedWithMapped)
<1>1. TruthInv => ((is_first_lap_completed => landmark_count > 0) => AssociatedWithMapped)
  BY DEF TruthInv, BatchMapped, Lost, AssociatedWithMapped
<1> QED BY <1>1, EkfTruth, MapImplementsFilter, PTL
=============================================================================
