--------------------------- MODULE EkfScanProofs ----------------------------
(***************************************************************************)
(* The filter keeps FilterContract, for every track, capacity and length of*)
(* scan.  SightInv says how far a scan in progress has come: what it shows *)
(* is in the map, still to come, or reported as not fitting.  That the     *)
(* association is with the right cone is what EkfOdomProofs shows.         *)
(***************************************************************************)
EXTENDS EkfScan, EkfOdomProofs, FiniteSetTheorems

\* Of what the scan shows nothing is forgotten.
Accounted == \A c \in sight : \/ IsMapped(c) \/ c \in Shown(obs)
                              \/ landmark_count = N_CONES /\ assoc_stats.dropped_full > 0

\* What is reported as not fitting does not.
Overflow == assoc_stats.dropped_full > 0 =>
                landmark_count = N_CONES /\ \E c \in sight : ~IsMapped(c)

InProgress ==
    /\ Shown(obs) \subseteq sight
    /\ \A k \in Mapped \ Settled : origin[k] \in sight
    /\ \A a \in batch : a.cone \in sight
    /\ is_first_lap_completed \/ Accounted
    /\ Overflow

SightInv == /\ sight \subseteq Cones
            /\ assoc_stats.created <= landmark_count
            /\ pc # "idle" => InProgress
            /\ pc = "fuse" => batch # {}

-----------------------------------------------------------------------------
(* Seen without its history, the specification is EkfOdom's *)

\* The history only watches.
LEMMA ScanStep == [ScanNext]_scanVars => [Next]_ekfVars
  BY DEF ScanNext, begins, goesOn, Next, NewScan, scanVars

\* What EkfOdomProofs shows of the filter holds with the history too.
THEOREM ScanImplementsFilter == ScanSpec => Spec
<1>1. ScanInit => Init
  BY DEF ScanInit
<1> QED BY <1>1, ScanStep, PTL DEF ScanSpec, Spec

-----------------------------------------------------------------------------
(* What a scan shows, and what is settled *)

\* What is left after an observation is what was, but for that observation.
LEMMA ShownOfTail ==
    ASSUME NEW q \in Seq(ScanRecord), q # << >>
    PROVE  /\ Shown(Tail(q)) \subseteq Shown(q)
           /\ ~isOrange(Head(q)) => Head(q).cone \in Shown(q)
           /\ \A c \in Shown(q) \ Shown(Tail(q)) : ~isOrange(Head(q)) /\ c = Head(q).cone
<1>1. \A i \in DOMAIN Tail(q) : i + 1 \in DOMAIN q /\ Tail(q)[i] = q[i + 1]
  BY TailOfSequence
<1>2. Head(q) = q[1] /\ 1 \in DOMAIN q
  OBVIOUS
<1>3. ASSUME NEW j \in DOMAIN q, j # 1
      PROVE  j - 1 \in DOMAIN Tail(q) /\ Tail(q)[j - 1] = q[j]
  BY <1>3
<1>4. Shown(Tail(q)) \subseteq Shown(q)
  BY <1>1 DEF Shown
<1>5. ASSUME NEW c \in Shown(q) \ Shown(Tail(q))
      PROVE  ~isOrange(Head(q)) /\ c = Head(q).cone
  <2>1. PICK j \in DOMAIN q : ~isOrange(q[j]) /\ c = q[j].cone
    BY DEF Shown
  <2>2. CASE j = 1
    BY <1>2, <2>1, <2>2
  <2>3. CASE j # 1
    BY <1>3, <2>1, <2>3 DEF Shown
  <2> QED BY <2>2, <2>3
<1> QED BY <1>2, <1>4, <1>5 DEF Shown

\* A scan shows cones of the track.
LEMMA ShownCones ==
    ASSUME TypeOK, NEW scan \in Scans
    PROVE  Shown(scan) \subseteq Cones
<1>1. scan \in Seq(ScanRecord)
  BY ScanFacts
<1>2. \A i \in DOMAIN scan : scan[i] \in ScanRecord
  BY <1>1
<1>3. \A i \in DOMAIN scan : scan[i].cone \in Cones
  BY <1>2 DEF ScanRecord
<1> QED BY <1>3 DEF Shown

\* The settled landmarks are mapped, and between scans they are all there is.
LEMMA SettledFacts ==
    ASSUME EkfInv, SightInv
    PROVE  /\ landmark_count \in Nat /\ assoc_stats.created \in Nat
           /\ Settled \subseteq Mapped
           /\ pc = "idle" \/ assoc_stats.created = 0 => Settled = Mapped
  BY DEF EkfInv, TypeOK, SightInv, Settled, Mapped

\* Without duplicates the map has as many cones as there are landmarks.
LEMMA MapSize ==
    ASSUME EkfInv, GateFits, NoDuplicate
    PROVE  Cardinality({origin[k] : k \in Mapped}) = landmark_count
<1> DEFINE n == landmark_count
           S == {origin[k] : k \in Mapped}
           f == [i \in 1..n |-> origin[i - 1]]
<1>1. n \in Nat /\ \A i \in 1..n : i - 1 \in Mapped
  BY DEF EkfInv, TypeOK, Mapped
<1>2. f \in [1..n -> S]
  BY <1>1
<1>3. \A i, j \in 1..n : i # j => f[i] # f[j]
  BY <1>1 DEF NoDuplicate
<1>4. \A c \in S : \E i \in 1..n : f[i] = c
  <2> SUFFICES ASSUME NEW k \in Mapped PROVE \E i \in 1..n : f[i] = origin[k]
    OBVIOUS
  <2>1. k + 1 \in 1..n /\ (k + 1) - 1 = k
    BY <1>1 DEF Mapped
  <2> QED BY <2>1
<1>5. f \in Bijection(1..n, S)
  BY <1>2, <1>3, <1>4 DEF Bijection, Injection, Surjection, IsInjective
<1>6. ExistsBijection(1..n, S)
  BY <1>5 DEF ExistsBijection
<1> QED BY <1>1, <1>6, FS_CountingElements

-----------------------------------------------------------------------------
(* SightInv, step by step *)

\* A step that leaves the map, the scan and its ledger alone.
LEMMA SightKept ==
    ASSUME SightInv, UNCHANGED <<landmark_count, origin, obs, is_first_lap_completed,
                                 assoc_stats, pc, sight>>,
           batch' = batch
    PROVE  SightInv' /\ Settled' = Settled /\ Mapped' = Mapped
<1>1. Settled' = Settled /\ Mapped' = Mapped
  BY DEF Settled, Mapped
<1>2. Shown(obs)' = Shown(obs) /\ \A c : IsMapped(c)' <=> IsMapped(c)
  BY <1>1 DEF Shown, isOrange, IsMapped
<1> QED BY <1>1, <1>2 DEF SightInv, InProgress, Accounted, Overflow

\* A scan starts with all of it still to come.
LEMMA BeginsSight ==
    ASSUME EkfInv, SightInv, NEW scan \in Scans, begins(scan)
    PROVE  SightInv' /\ Settled' = Settled /\ Mapped' = Mapped
<1>1. /\ landmark_count' = landmark_count /\ origin' = origin /\ batch' = {}
      /\ obs' = scan /\ sight' = Shown(scan) /\ pc = "idle" /\ pc' = "associate"
      /\ assoc_stats' = NoStats
  BY DEF begins, update
<1>2. assoc_stats'.created = 0 /\ assoc_stats'.dropped_full = 0
  BY <1>1 DEF NoStats
<1>3. landmark_count \in Nat
  BY DEF EkfInv, TypeOK
<1>4. Settled' = Mapped /\ Settled = Mapped /\ Mapped' = Mapped
  BY <1>1, <1>2, <1>3 DEF Settled, Mapped
<1>5. Shown(scan) \subseteq Cones /\ Shown(obs)' = sight'
  BY <1>1, ShownCones DEF EkfInv, Shown, isOrange
<1> QED BY <1>1, <1>2, <1>3, <1>4, <1>5
        DEF SightInv, InProgress, Accounted, Overflow

\* An observation that changes neither the map nor what is reported as not fitting:
\* an orange one, one dropped by the gate in lap 2, one of a mapped cone.
LEMMA PassedSight ==
    ASSUME EkfInv, SightInv, Associating, obs' = Tail(obs),
           UNCHANGED <<landmark_count, origin, is_first_lap_completed, pc, historyVars>>,
           assoc_stats'.created = assoc_stats.created,
           assoc_stats'.dropped_full = assoc_stats.dropped_full,
           \A a \in batch' \ batch : a.cone = Head(obs).cone /\ ~isOrange(Head(obs)),
           \/ isOrange(Head(obs)) \/ is_first_lap_completed \/ IsMapped(Head(obs).cone)
    PROVE  SightInv' /\ Settled' = Settled /\ Mapped' = Mapped
<1>1. /\ Settled' = Settled /\ Mapped' = Mapped /\ \A c : IsMapped(c)' <=> IsMapped(c)
      /\ sight' = sight
  BY DEF Settled, Mapped, IsMapped, historyVars
<1>2. obs \in Seq(ScanRecord) /\ obs # << >> /\ pc = "associate"
  BY DEF EkfInv, TypeOK, ScanRecord, Associating
<1>3. /\ Shown(obs)' = Shown(Tail(obs)) /\ Shown(Tail(obs)) \subseteq Shown(obs)
      /\ ~isOrange(Head(obs)) => Head(obs).cone \in Shown(obs)
      /\ \A c \in Shown(obs) \ Shown(Tail(obs)) : ~isOrange(Head(obs)) /\ c = Head(obs).cone
  <2>1. Shown(obs)' = Shown(Tail(obs))
    BY DEF Shown, isOrange
  <2> QED BY <2>1, <1>2, ShownOfTail
<1>4. is_first_lap_completed \/ Accounted'
  BY <1>1, <1>2, <1>3 DEF SightInv, InProgress, Accounted
<1>5. \A a \in batch' : a.cone \in sight
  BY <1>2, <1>3 DEF SightInv, InProgress
<1> QED BY <1>1, <1>2, <1>3, <1>4, <1>5 DEF SightInv, InProgress, Overflow

\* A cone that does not fit is reported, and is not mapped.
LEMMA FullSight ==
    ASSUME EkfInv, TruthInv, SightInv, GateFits, Associating, ~isOrange(Head(obs)),
           NEW k \in Slots, Candidate(k, tmp_cone(Head(obs))), full(Head(obs), k),
           UNCHANGED historyVars
    PROVE  SightInv' /\ Settled' = Settled /\ Mapped' = Mapped
<1> DEFINE c0 == Head(obs).cone
<1>1. /\ obs' = Tail(obs) /\ batch' = batch /\ assoc_stats' = counted("dropped_full")
      /\ UNCHANGED <<landmark_count, origin, is_first_lap_completed, pc, historyVars>>
      /\ ~is_first_lap_completed /\ IsNew(Head(obs), k) /\ landmark_count >= N_CONES
  BY DEF full, drop, IsNew
<1>2. /\ assoc_stats'.created = assoc_stats.created
      /\ assoc_stats'.dropped_full = assoc_stats.dropped_full + 1
      /\ assoc_stats.dropped_full \in Nat /\ landmark_count = N_CONES
  <2>1. assoc_stats \in Stats /\ landmark_count \in 0..N_CONES
    BY DEF EkfInv, TypeOK, Stats
  <2>2. assoc_stats.dropped_full \in Nat
    BY <2>1 DEF Stats
  <2>3. /\ counted("dropped_full").created = assoc_stats.created
        /\ counted("dropped_full").dropped_full = assoc_stats.dropped_full + 1
    BY CountedStats DEF EkfInv
  <2> QED BY <1>1, <2>1, <2>2, <2>3, SlotFacts
<1>3. ~IsMapped(c0)
  BY <1>1, NewIsUnmapped DEF IsMapped
<1>4. /\ Settled' = Settled /\ Mapped' = Mapped /\ sight' = sight
      /\ \A c : IsMapped(c)' <=> IsMapped(c)
  BY <1>1, <1>2 DEF Settled, Mapped, IsMapped, historyVars
<1>5. obs \in Seq(ScanRecord) /\ obs # << >> /\ pc = "associate"
  BY DEF EkfInv, TypeOK, ScanRecord, Associating
<1>6. Shown(obs)' \subseteq sight /\ c0 \in sight
  <2>1. Shown(obs)' = Shown(Tail(obs))
    BY <1>1 DEF Shown, isOrange
  <2>2. Shown(Tail(obs)) \subseteq Shown(obs) /\ c0 \in Shown(obs)
    BY <1>5, ShownOfTail
  <2> QED BY <1>5, <2>1, <2>2 DEF SightInv, InProgress
<1>7. Accounted' /\ Overflow'
  BY <1>1, <1>2, <1>3, <1>4, <1>6 DEF Accounted, Overflow
<1> HIDE DEF c0
<1> QED BY <1>1, <1>2, <1>4, <1>5, <1>6, <1>7 DEF SightInv, InProgress

\* A new cone is one the scan shows, and it is now mapped.
LEMMA NewConeSight ==
    ASSUME EkfInv, SightInv, Associating, ~isOrange(Head(obs)),
           NEW k \in Slots, newCone(Head(obs), k), UNCHANGED historyVars
    PROVE  /\ SightInv' /\ Settled' = Settled
           /\ \A j \in Settled : origin'[j] = origin[j] /\ mirror'.lm[j] = mirror.lm[j]
<1> DEFINE o == Head(obs)  n == landmark_count
<1>1. allocate(o) /\ n < N_CONES /\ ~is_first_lap_completed
  BY DEF newCone, IsNew
<1>2. /\ obs' = Tail(obs) /\ n \in Slots /\ n' = n + 1
      /\ Mapped' = Mapped \cup {n} /\ n \notin Mapped /\ Mapped \subseteq Slots
      /\ mirror'.lm = [mirror.lm EXCEPT ![n] = tmp_cone(o)]
      /\ origin' = [origin EXCEPT ![n] = o.cone]
      /\ batch' = batch \cup {[k |-> n, cone |-> o.cone]}
      /\ is_first_lap_completed' = is_first_lap_completed /\ pc' = pc /\ pc = "associate"
  BY <1>1, AllocateFacts
<1>3. /\ assoc_stats'.created = assoc_stats.created + 1
      /\ assoc_stats'.dropped_full = assoc_stats.dropped_full
  <2>1. assoc_stats' = [counted("associated") EXCEPT !.created = @ + 1]
    BY <1>1 DEF allocate
  <2>2. /\ counted("associated") \in Stats
        /\ counted("associated").created = assoc_stats.created
        /\ counted("associated").dropped_full = assoc_stats.dropped_full
    <3>1. counted("associated").dropped_full = assoc_stats.dropped_full + 0
      BY CountedStats DEF EkfInv
    <3>2. assoc_stats.dropped_full \in Nat
      BY DEF EkfInv, TypeOK
    <3> QED BY <3>1, <3>2, CountedStats DEF EkfInv
  <2> QED BY <2>1, <2>2 DEF Stats
<1>4. /\ n \in Nat /\ assoc_stats.created \in Nat /\ assoc_stats.created <= n
      /\ Settled \subseteq Mapped /\ Settled' = Settled
  BY <1>2, <1>3, SettledFacts DEF SightInv, Settled
<1>5. /\ origin'[n] = o.cone
      /\ \A j \in Mapped : origin'[j] = origin[j] /\ mirror'.lm[j] = mirror.lm[j]
  BY <1>2 DEF EkfInv, TypeOK, State
<1>6. obs \in Seq(ScanRecord) /\ obs # << >> /\ sight' = sight
  BY DEF EkfInv, TypeOK, ScanRecord, Associating, historyVars
<1>7. /\ Shown(obs)' = Shown(Tail(obs)) /\ Shown(Tail(obs)) \subseteq Shown(obs)
      /\ o.cone \in Shown(obs)
      /\ \A c \in Shown(obs) \ Shown(Tail(obs)) : c = o.cone
  <2>1. Shown(obs)' = Shown(Tail(obs))
    BY <1>2 DEF Shown, isOrange
  <2> QED BY <2>1, <1>6, ShownOfTail
<1> HIDE DEF o
<1>8. \A c : IsMapped(c) \/ c = o.cone => IsMapped(c)'
  BY <1>2, <1>5 DEF IsMapped
<1>9. o.cone \in sight /\ Shown(obs)' \subseteq sight'
  BY <1>2, <1>6, <1>7 DEF SightInv, InProgress
<1>10. \A j \in Mapped' \ Settled' : origin'[j] \in sight'
  BY <1>2, <1>4, <1>5, <1>6, <1>9 DEF SightInv, InProgress
<1>11. assoc_stats.dropped_full \in Nat /\ ~(assoc_stats.dropped_full > 0)
  BY <1>1, <1>2, SlotFacts DEF EkfInv, TypeOK, SightInv, InProgress, Overflow
<1>12. Accounted' /\ Overflow'
  BY <1>1, <1>2, <1>3, <1>6, <1>7, <1>8, <1>11
  DEF SightInv, InProgress, Accounted, Overflow
<1>13. \A a \in batch' : a.cone \in sight'
  BY <1>2, <1>6, <1>9 DEF SightInv, InProgress
<1>14. assoc_stats'.created <= n' /\ sight' \subseteq Cones
  BY <1>2, <1>3, <1>4, <1>6 DEF SightInv
<1> QED BY <1>2, <1>4, <1>5, <1>9, <1>10, <1>12, <1>13, <1>14 DEF SightInv, InProgress

\* The settled part of the map, as the filter has it, is as it was.
SettledSame == /\ Settled' = Settled
               /\ \A k \in Settled : origin'[k] = origin[k] /\ mirror'.lm[k] = mirror.lm[k]

\* Each way an observation can go keeps track of the scan, and touches nothing that
\* was in the map before it.
LEMMA ObservationSight ==
    ASSUME EkfInv, TruthInv, SightInv, GateFits, processObservation, UNCHANGED historyVars
    PROVE  SightInv' /\ SettledSame
<1> DEFINE o == Head(obs)
<1>1. Associating
  BY DEF processObservation
<1>2. CASE skipOrange(o)
  <2>1. /\ obs' = Tail(obs) /\ isOrange(o) /\ batch' = batch /\ mirror' = mirror
        /\ UNCHANGED <<landmark_count, origin, is_first_lap_completed, pc, assoc_stats>>
    BY <1>2 DEF skipOrange
  <2> QED BY <1>1, <2>1, PassedSight DEF SettledSame
<1>3. ASSUME NEW k \in Slots, considered(o, k) PROVE SightInv' /\ SettledSame
  <2>0. Candidate(k, tmp_cone(o)) /\ ~isOrange(o)
    BY <1>3 DEF considered
  <2>1. ASSUME drop("dropped_gate"), is_first_lap_completed PROVE SightInv' /\ SettledSame
    <3>1. /\ obs' = Tail(obs) /\ batch' = batch /\ mirror' = mirror
          /\ UNCHANGED <<landmark_count, origin, is_first_lap_completed, pc>>
          /\ assoc_stats' = counted("dropped_gate")
      BY <2>1 DEF drop
    <3>2. /\ assoc_stats'.created = assoc_stats.created
          /\ assoc_stats'.dropped_full = assoc_stats.dropped_full + 0
      BY <3>1, CountedStats DEF EkfInv
    <3>3. assoc_stats.dropped_full \in Nat
      BY DEF EkfInv, TypeOK
    <3> QED BY <1>1, <2>1, <3>1, <3>2, <3>3, PassedSight DEF SettledSame
  <2>2. ASSUME associate(o, k), is_first_lap_completed \/ IsMapped(o.cone)
        PROVE  SightInv' /\ SettledSame
    <3>1. /\ obs' = Tail(obs) /\ batch' = batch \cup {[k |-> k, cone |-> o.cone]}
          /\ UNCHANGED <<landmark_count, origin, is_first_lap_completed, pc>>
          /\ mirror' = mirror /\ assoc_stats' = counted("associated")
      BY <2>2 DEF associate
    <3>2. /\ assoc_stats'.created = assoc_stats.created
          /\ assoc_stats'.dropped_full = assoc_stats.dropped_full + 0
      BY <3>1, CountedStats DEF EkfInv
    <3>3. assoc_stats.dropped_full \in Nat
      BY DEF EkfInv, TypeOK
    <3>4. \A a \in batch' \ batch : a.cone = o.cone
      BY <3>1
    <3> HIDE DEF o
    <3>5. SightInv' /\ Settled' = Settled
      BY <1>1, <2>0, <2>2, <3>1, <3>2, <3>3, <3>4, PassedSight DEF o
    <3> QED BY <3>1, <3>5 DEF SettledSame
  <2>3. CASE gateDrop(o, k)
    BY <2>1, <2>3 DEF gateDrop
  <2>4. CASE gatePass(o, k)
    BY <2>2, <2>4 DEF gatePass
  <2>5. CASE existing(o, k)
    <3>1. IsMapped(o.cone)
      BY <1>1, <2>0, <2>5, ExistingRight DEF IsMapped
    <3> QED BY <2>2, <2>5, <3>1 DEF existing
  <2>6. CASE full(o, k)
    <3>1. SightInv' /\ Settled' = Settled
      BY <1>1, <2>0, <2>6, FullSight
    <3> QED BY <2>6, <3>1 DEF SettledSame, full, drop
  <2>7. CASE newCone(o, k)
    BY <1>1, <2>0, <2>7, NewConeSight DEF SettledSame
  <2> QED BY <1>3, <2>3, <2>4, <2>5, <2>6, <2>7 DEF considered
<1> QED BY <1>2, <1>3 DEF processObservation

\* What a joint update leaves alone.
LEMMA JointUpdateFrame ==
    ASSUME jointUpdate
    PROVE  /\ UNCHANGED <<landmark_count, origin, obs, is_first_lap_completed, assoc_stats>>
           /\ pc = "fuse" /\ pc' = "idle"
  BY DEF jointUpdate, fullState, fullStateFailed, rigid, fused

\* update() returns: there is nothing left to keep track of.
LEMMA ReturnedSight ==
    ASSUME SightInv, returned, pc' = "idle", UNCHANGED <<landmark_count, assoc_stats>>
    PROVE  SightInv'
  BY DEF SightInv, returned

\* Every step of a scan in progress keeps track of it.
LEMMA GoesOnSight ==
    ASSUME EkfInv, TruthInv, SightInv, GateFits, goesOn
    PROVE  SightInv'
<1>1. CASE processObservation
  <2>1. pc' # "idle"
    <3>1. pc = "associate" /\ EkfInv
      BY <1>1 DEF processObservation, Associating
    <3> QED BY <1>1, <3>1 DEF processObservation, skipOrange, considered, gateDrop, gatePass,
               existing, full, newCone, drop, associate, allocate
  <2> QED BY <1>1, <2>1, ObservationSight DEF goesOn
<1>2. CASE endOfScan
  <2>1. /\ UNCHANGED <<landmark_count, origin, obs, is_first_lap_completed, assoc_stats, batch>>
        /\ pc = "associate" /\ pc' \in {"idle", "fuse"}
    BY <1>2 DEF endOfScan, leaveLoop
  <2>2. pc' = "fuse" => batch # {}
    BY <1>2 DEF endOfScan, leaveLoop
  <2>3. CASE pc' = "idle"
    BY <2>1, <2>3, ReturnedSight DEF goesOn
  <2>4. CASE pc' = "fuse"
    <3>1. UNCHANGED historyVars /\ sight' = sight
      BY <2>4 DEF goesOn, historyVars
    <3>2. Settled' = Settled /\ Mapped' = Mapped
      BY <2>1, <2>4 DEF Settled, Mapped
    <3>3. Shown(obs)' = Shown(obs) /\ \A c : IsMapped(c)' <=> IsMapped(c)
      BY <2>1, <3>2 DEF Shown, isOrange, IsMapped
    <3> QED BY <2>1, <2>2, <3>1, <3>2, <3>3 DEF SightInv, InProgress, Accounted, Overflow
  <2> QED BY <2>1, <2>3, <2>4
<1>3. CASE jointUpdate
  BY <1>3, JointUpdateFrame, ReturnedSight DEF goesOn
<1> QED BY <1>1, <1>2, <1>3 DEF goesOn, UpdateStep

\* No step loses track of the scan.
LEMMA NextSight ==
    ASSUME EkfInv, TruthInv, SightInv, GateFits, [ScanNext]_scanVars
    PROVE  SightInv'
<1>1. CASE Motion /\ UNCHANGED historyVars
  BY <1>1, SightKept DEF Motion, predict, historyVars
<1>2. ASSUME NEW scan \in Scans, begins(scan) PROVE SightInv'
  BY <1>2, BeginsSight
<1>3. CASE goesOn
  BY <1>3, GoesOnSight
<1>4. CASE setFirstLapCompleted /\ UNCHANGED historyVars
  BY <1>4 DEF setFirstLapCompleted, historyVars, SightInv
<1>5. CASE UNCHANGED scanVars
  BY <1>5, SightKept DEF scanVars, ekfVars, historyVars
<1> QED BY <1>1, <1>2, <1>3, <1>4, <1>5 DEF ScanNext

\* Where the configured distances fit the track, every cone of a scan in progress is
\* mapped, still to come, or reported as not fitting the map.
THEOREM ScanTracked == ScanSpec => [](GateFits => SightInv)
<1>1. ScanInit => SightInv
  BY DEF ScanInit, Init, SightInv, NoStats
<1>2. EkfInv /\ TruthInv /\ (GateFits => SightInv) /\ [ScanNext]_scanVars
        => (GateFits => SightInv)'
  <2>1. GateFits' <=> GateFits
    BY DEF GateFits, GapOver
  <2> QED BY <2>1, NextSight
<1> QED BY <1>1, <1>2, ScanImplementsFilter, EkfInvariant, EkfTruth, PTL DEF ScanSpec

-----------------------------------------------------------------------------
(* The contract *)

MapNow == {origin[k] : k \in Settled}
EstimatesNow == {<<origin[k], mirror.lm[k]>> : k \in Settled}

\* What moves no settled landmark is nothing to the contract.
LEMMA SameMap ==
    ASSUME SettledSame
    PROVE  MapNow' = MapNow /\ EstimatesNow' = EstimatesNow
  BY DEF SettledSame, MapNow, EstimatesNow

\* The contract counts as this module does.
LEMMA SameCardinality == \A S : Contract!Cardinality(S) = Cardinality(S)
  BY DEF Contract!Cardinality, Cardinality

\* A return of update() is a scan of the contract: what the loop accounted for is
\* mapped or reported, and only a batch moves estimates.
LEMMA AnswerIsScan ==
    ASSUME EkfInv, TruthInv, SightInv, GateFits, MahaFits, EkfInv', TruthInv', SightInv',
           pc # "idle", obs = << >>, pc' = "idle", returned,
           UNCHANGED <<landmark_count, origin, is_first_lap_completed, assoc_stats>>,
           \/ \A k \in Mapped : mirror'.lm[k] = mirror.lm[k]
           \/ batch # {} /\ ~(is_first_lap_completed /\ freeze_map)
    PROVE  Contract!Scan(sight)
<1> DEFINE Same == \A k \in Mapped : mirror'.lm[k] = mirror.lm[k]
<1>1. /\ Mapped' = Mapped /\ \A c : IsMapped(c)' <=> IsMapped(c)
      /\ Shown(obs) = {} /\ InProgress
      /\ answered' = [shown |-> sight, dropped |-> assoc_stats.dropped_full # 0]
  <2>1. Shown(obs) = {}
    BY DEF Shown
  <2> QED BY <2>1 DEF Mapped, IsMapped, SightInv, returned
<1>2. /\ Settled' = Mapped /\ Settled \subseteq Mapped /\ sight \subseteq Cones
      /\ landmark_count \in Nat /\ assoc_stats.created \in Nat
      /\ assoc_stats.dropped_full \in Nat
      /\ assoc_stats.created = 0 => Settled = Mapped
  BY <1>1, SettledFacts DEF EkfInv, TypeOK, SightInv, Settled, Mapped
<1>3. MapNow' = {origin[k] : k \in Mapped} /\ \A c : IsMapped(c) <=> c \in MapNow'
  BY <1>1, <1>2 DEF MapNow, IsMapped
<1>4. MapNow \subseteq MapNow' /\ MapNow' \subseteq MapNow \cup sight
  BY <1>1, <1>2, <1>3 DEF MapNow, InProgress
<1>5. Same /\ Settled = Mapped => EstimatesNow' = EstimatesNow
  BY <1>1, <1>2 DEF EstimatesNow
<1>6. batch # {} /\ ~Lost => sight \cap MapNow' # {}
  <2> SUFFICES ASSUME NEW a \in batch, ~Lost PROVE a.cone \in sight \cap MapNow'
    OBVIOUS
  <2>1. a.k \in Mapped /\ origin[a.k] = a.cone
    BY DEF TruthInv, BatchMapped, NoMerge
  <2> QED BY <1>1, <1>3, <2>1 DEF InProgress
<1>7. Settled # Mapped => sight \cap MapNow' # {}
  BY <1>1, <1>2, <1>3 DEF InProgress
<1>8. CASE is_first_lap_completed
  <2>1. assoc_stats.created = 0 /\ assoc_stats.dropped_full = 0
    BY <1>8, <1>2 DEF EkfInv, TypeOK, Ledger
  <2>2. Settled = Mapped /\ MapNow' = MapNow
    BY <1>2, <1>3, <2>1 DEF MapNow
  <2>3. Lost => EstimatesNow' = EstimatesNow
    BY <1>2, <2>2 DEF Lost, EstimatesNow, Mapped
  <2>4. freeze_map \/ sight \cap MapNow = {} => EstimatesNow' = EstimatesNow
    BY <1>5, <1>6, <1>8, <2>2, <2>3
  <2>5. answered'.dropped = FALSE
    <3>1. (assoc_stats.dropped_full # 0) = FALSE
      BY <2>1, Zenon
    <3>2. answered' = [shown |-> sight, dropped |-> FALSE]
      BY <1>1, <3>1, Zenon
    <3> QED BY <3>2
  <2>6. Contract!Localising(sight)
    BY <2>2, <2>4, <2>5, Zenon DEF Contract!Localising, MapNow, EstimatesNow
  <2> QED BY <1>1, <1>8, <2>6 DEF Contract!Scan
<1>9. CASE ~is_first_lap_completed
  <2>1. Contract!Cardinality(MapNow') = landmark_count /\ landmark_count <= N_CONES
    BY <1>3, MapSize, SameCardinality DEF EkfInv, TypeOK, TruthInv
  <2>2. \/ sight \subseteq MapNow'
        \/ landmark_count = N_CONES /\ assoc_stats.dropped_full > 0
    BY <1>1, <1>3, <1>9 DEF InProgress, Accounted
  <2>3. assoc_stats.dropped_full > 0 => ~(sight \subseteq MapNow')
    BY <1>1, <1>3 DEF InProgress, Overflow
  <2>4. ~Lost
    BY <1>9 DEF Lost
  <2>5. sight \cap MapNow' = {} => EstimatesNow' = EstimatesNow
    BY <1>5, <1>6, <1>7, <2>4
  <2>6. Contract!Grows(sight) /\ Contract!Fits
    BY <1>4, <2>1 DEF Contract!Grows, Contract!Fits, MapNow
  <2>7. Contract!Complete(sight) <=> sight \subseteq MapNow'
    BY DEF Contract!Complete, MapNow
  <2>8. Contract!Full <=> landmark_count = N_CONES
    BY <2>1 DEF Contract!Full, MapNow
  <2>9. Contract!Mapping(sight)
    BY <1>1, <1>2, <2>2, <2>3, <2>5, <2>6, <2>7, <2>8
    DEF Contract!Mapping, MapNow, EstimatesNow
  <2> QED BY <1>1, <1>9, <2>9 DEF Contract!Scan
<1> QED BY <1>8, <1>9

\* A step that touches nothing the contract sees.
LEMMA Unseen ==
    ASSUME SettledSame, UNCHANGED <<is_first_lap_completed, answered>>
    PROVE  UNCHANGED Contract!vars
<1>1. MapNow' = MapNow /\ EstimatesNow' = EstimatesNow
  BY SameMap
<1> QED BY <1>1 DEF Contract!vars, MapNow, EstimatesNow

\* Every step of a scan in progress is unseen, but for the one that ends it.
LEMMA GoesOnMaps ==
    ASSUME EkfInv, TruthInv, SightInv, GateFits, MahaFits, EkfInv', TruthInv', SightInv', goesOn
    PROVE  UNCHANGED Contract!vars \/ Contract!Scan(sight)
<1>1. CASE processObservation
  <2>1. pc' # "idle" /\ is_first_lap_completed' = is_first_lap_completed
    <3>1. pc = "associate"
      BY <1>1 DEF processObservation, Associating
    <3> QED BY <1>1, <3>1 DEF processObservation, skipOrange, considered, gateDrop, gatePass,
               existing, full, newCone, drop, associate, allocate
  <2>2. UNCHANGED historyVars
    BY <2>1 DEF goesOn
  <2> QED BY <1>1, <2>1, <2>2, ObservationSight, Unseen DEF historyVars
<1>2. CASE endOfScan
  <2>1. /\ UNCHANGED <<landmark_count, origin, is_first_lap_completed, assoc_stats, mirror>>
        /\ pc = "associate" /\ obs = << >> /\ pc' \in {"idle", "fuse"}
    BY <1>2 DEF endOfScan, leaveLoop
  <2>2. CASE pc' = "idle"
    BY <2>1, <2>2, AnswerIsScan DEF goesOn
  <2>3. CASE pc' = "fuse"
    <3>1. UNCHANGED answered
      BY <2>3 DEF goesOn, historyVars
    <3>2. SettledSame
      BY <2>1, <2>3 DEF SettledSame, Settled
    <3> QED BY <2>1, <3>1, <3>2, Unseen
  <2> QED BY <2>1, <2>2, <2>3
<1>3. CASE jointUpdate
  <2>1. /\ UNCHANGED <<landmark_count, origin, is_first_lap_completed, assoc_stats>>
        /\ pc = "fuse" /\ pc' = "idle" /\ obs = << >> /\ batch # {}
    BY <1>3, JointUpdateFrame DEF EkfInv, Phases, SightInv
  <2>2. mirror'.lm = mirror.lm \/ ~rigidMap
    BY <1>3, FullStateFailedEkfInv, RigidEkfInv DEF jointUpdate, fullState
  <2>3. returned
    BY <2>1 DEF goesOn
  <2> QED BY <2>1, <2>2, <2>3, AnswerIsScan DEF rigidMap
<1> QED BY <1>1, <1>2, <1>3 DEF goesOn, UpdateStep

\* Step by step the filter, with its history, is the contract.
LEMMA NextMaps ==
    ASSUME EkfInv, TruthInv, SightInv, GateFits, MahaFits, [ScanNext]_scanVars
    PROVE  Contract!Next \/ UNCHANGED Contract!vars
<1>1. GateFits' /\ EkfInv' /\ TruthInv' /\ SightInv'
  BY ScanStep, NextEkfInv, NextTruth, NextSight DEF GateFits, GapOver
<1>2. CASE Motion /\ UNCHANGED historyVars
  <2>1. mirror'.lm = mirror.lm
    BY <1>2, PredictEkfInv DEF Motion
  <2>2. UNCHANGED <<landmark_count, origin, is_first_lap_completed, assoc_stats, pc, answered>>
    BY <1>2 DEF Motion, predict, historyVars
  <2>3. SettledSame
    BY <2>1, <2>2 DEF SettledSame, Settled
  <2> QED BY <2>2, <2>3, Unseen
<1>3. ASSUME NEW scan \in Scans, begins(scan) PROVE UNCHANGED Contract!vars
  <2>1. UNCHANGED <<mirror, origin, is_first_lap_completed, answered>>
    BY <1>3 DEF begins, update
  <2>2. SettledSame
    BY <1>3, <2>1, BeginsSight DEF SettledSame
  <2> QED BY <2>1, <2>2, Unseen
<1>4. CASE goesOn
  <2>1. sight \subseteq Cones
    BY DEF SightInv
  <2>2. UNCHANGED Contract!vars \/ Contract!Scan(sight)
    BY <1>1, <1>4, GoesOnMaps
  <2>3. sight \in SUBSET Cones
    BY <2>1
  <2>4. Contract!Scan(sight) => \E shown \in SUBSET Cones : Contract!Scan(shown)
    BY <2>3 DEF Contract!Scan, Contract!Localising, Contract!Mapping, Contract!Grows,
                Contract!Fits, Contract!Full, Contract!Complete
  <2> QED BY <2>2, <2>4 DEF Contract!Next
<1>5. CASE setFirstLapCompleted /\ UNCHANGED historyVars
  <2>1. /\ UNCHANGED <<landmark_count, origin, mirror, assoc_stats, pc, answered>>
        /\ is_first_lap_completed'
    BY <1>5 DEF setFirstLapCompleted, historyVars
  <2>2. SettledSame
    BY <2>1 DEF SettledSame, Settled
  <2>3. MapNow' = MapNow /\ EstimatesNow' = EstimatesNow
    BY <2>2, SameMap
  <2>4. is_first_lap_completed' = TRUE
    BY <1>5 DEF setFirstLapCompleted
  <2>5. Contract!LapOver
    BY <2>1, <2>3, <2>4 DEF Contract!LapOver, MapNow, EstimatesNow
  <2> QED BY <2>5 DEF Contract!Next
<1>6. CASE UNCHANGED scanVars
  <2>1. UNCHANGED <<landmark_count, origin, is_first_lap_completed, mirror, assoc_stats, pc,
                    answered>>
    BY <1>6 DEF scanVars, ekfVars, historyVars
  <2>2. SettledSame
    BY <2>1 DEF SettledSame, Settled
  <2> QED BY <2>1, <2>2, Unseen
<1> QED BY <1>2, <1>3, <1>4, <1>5, <1>6 DEF ScanNext

\* The filter keeps its contract, for every track the configured distances fit, every
\* capacity and every length of scan: in lap 1 what a scan shows is in the map when
\* update() returns or reported as not fitting, after it the map is the same for ever,
\* and what no scan has shown does not move (EKFOdom::update, ekf_odom.cpp:81-368).
THEOREM EkfKeepsContract == ScanSpec => KeepsContract
<1>1. ScanInit => Contract!Init
  <2> SUFFICES ASSUME ScanInit PROVE Contract!Init
    OBVIOUS
  <2>1. /\ landmark_count = 0 /\ pc = "idle" /\ is_first_lap_completed = FALSE
        /\ answered = [shown |-> {}, dropped |-> FALSE]
    BY DEF ScanInit, Init, Unanswered
  <2>2. Settled = {}
    BY <2>1 DEF Settled
  <2> QED BY <2>1, <2>2 DEF Contract!Init
<1>2. EkfInv /\ TruthInv /\ (GateFits => SightInv) /\ [ScanNext]_scanVars
        => [GateFits /\ MahaFits => Contract!Next]_(Contract!vars)
  BY NextMaps
<1> QED BY <1>1, <1>2, ScanImplementsFilter, ScanTracked, EkfInvariant, EkfTruth, PTL
        DEF ScanSpec, KeepsContract

\* On such a track the specification of the filter implements FilterContract.
THEOREM EkfImplementsContract == GateFits /\ MahaFits => (ScanSpec => Contract!Spec)
<1> SUFFICES ASSUME GateFits, MahaFits PROVE ScanSpec => Contract!Spec
  OBVIOUS
<1>1. [GateFits /\ MahaFits => Contract!Next]_(Contract!vars) => [Contract!Next]_(Contract!vars)
  OBVIOUS
<1> QED BY <1>1, EkfKeepsContract, PTL DEF KeepsContract, Contract!Spec
=============================================================================
