---------------------------- MODULE EkfOdomProofs ----------------------------
(***************************************************************************)
(* The filter of EkfOdom for every track, capacity, error bound and length *)
(* of scan.  EkfInv is what update() keeps step by step about its own      *)
(* state; TruthInv adds how far the estimates are from the truth, which is *)
(* what makes association right.                                           *)
(***************************************************************************)
EXTENDS EkfOdom, TLAPS, WellFoundedInduction

ScanRecord == [cone : Cones, range : Int, color : ScanColors]

\* Outside the loop there is nothing left to associate, outside update() no batch.
Phases == /\ pc # "associate" => obs = << >>
          /\ pc = "idle" => batch = {}

\* A mapped landmark comes from a cone.
OriginsKnown == \A k \in Mapped : origin[k] \in Cones

EkfInv == TypeOK /\ Phases /\ OriginsKnown /\ MirrorCoherent /\ Ledger

-----------------------------------------------------------------------------
(* The operators *)

\* The arrays have a slot, and the variance is a number.
LEMMA SlotFacts ==
    /\ N_CONES \in Nat \ {0}
    /\ 0 \in Slots
    /\ Sigmas \subseteq Nat /\ 0 \in Sigmas /\ 1 \in Sigmas
    /\ Slots \subseteq Nat
  BY EkfAssumption, BackendAssumption DEF Slots, Sigmas

\* Poses, motions and errors are places on the line.
LEMMA AllPosesAreIntegers == AllPoses \subseteq Int /\ Moves \subseteq Int /\ Errors \subseteq Int
  BY EkfAssumption DEF AllPoses, Moves, Around, Errors

\* What the backend hands out is a state, equal to its own on the mapped part.
LEMMA SyncState ==
    ASSUME TypeOK, NEW b \in State
    PROVE  /\ syncFromBackend(b) \in State
           /\ syncFromBackend(b).pose = b.pose /\ syncFromBackend(b).sigma = b.sigma
           /\ \A k \in Mapped : syncFromBackend(b).lm[k] = b.lm[k]
           /\ (\A k \in Mapped : mirror.lm[k] = b.lm[k]) => syncFromBackend(b).lm = mirror.lm
<1> DEFINE lm == downloadLandmarks(b, landmark_count, mirror.lm)
<1>1. /\ lm \in [Slots -> Int]
      /\ \A k \in Slots : lm[k] = IF k < landmark_count THEN b.lm[k] ELSE mirror.lm[k]
  BY DEF TypeOK, State, downloadLandmarks
<1>2. syncFromBackend(b) = [b EXCEPT !.lm = lm]
  BY DEF syncFromBackend
<1>3. landmark_count \in 0..N_CONES /\ Mapped \subseteq Slots
  BY SlotFacts DEF TypeOK, Mapped, Slots
<1>4. \A k \in Slots : k < landmark_count <=> k \in Mapped
  BY <1>3 DEF Mapped, Slots
<1>5. mirror.lm \in [Slots -> Int]
  BY DEF TypeOK, State
<1> HIDE DEF lm
<1>6. (\A k \in Mapped : mirror.lm[k] = b.lm[k]) => lm = mirror.lm
  BY <1>1, <1>4, <1>5
<1> QED BY <1>1, <1>2, <1>3, <1>4, <1>6 DEF State

Stats == [observed : Nat, associated : Nat, created : Nat,
          dropped_gate : Nat, dropped_full : Nat]

\* The counters after one observation, field by field.
LEMMA CountedStats ==
    ASSUME TypeOK, NEW outcome \in {"associated", "dropped_gate", "dropped_full"}
    PROVE  /\ counted(outcome) \in Stats /\ assoc_stats \in Stats
           /\ counted(outcome).observed = assoc_stats.observed + 1
           /\ counted(outcome).created = assoc_stats.created
           /\ counted(outcome).associated =
                assoc_stats.associated + IF outcome = "associated" THEN 1 ELSE 0
           /\ counted(outcome).dropped_gate =
                assoc_stats.dropped_gate + IF outcome = "dropped_gate" THEN 1 ELSE 0
           /\ counted(outcome).dropped_full =
                assoc_stats.dropped_full + IF outcome = "dropped_full" THEN 1 ELSE 0
<1> DEFINE a == [assoc_stats EXCEPT !.observed = @ + 1]
<1>1. assoc_stats \in Stats
  BY DEF TypeOK, Stats
<1>2. /\ a \in Stats
      /\ a.observed = assoc_stats.observed + 1 /\ a.created = assoc_stats.created
      /\ a.associated = assoc_stats.associated /\ a.dropped_gate = assoc_stats.dropped_gate
      /\ a.dropped_full = assoc_stats.dropped_full
  BY <1>1 DEF Stats
<1>3. counted(outcome) = [a EXCEPT ![outcome] = assoc_stats[outcome] + 1]
  BY DEF counted
<1> HIDE DEF a
<1>4. CASE outcome = "associated"
  <2>1. counted(outcome) = [a EXCEPT !.associated = assoc_stats.associated + 1]
    BY <1>3, <1>4
  <2> QED BY <1>1, <1>2, <1>4, <2>1 DEF Stats
<1>5. CASE outcome = "dropped_gate"
  <2>1. counted(outcome) = [a EXCEPT !.dropped_gate = assoc_stats.dropped_gate + 1]
    BY <1>3, <1>5
  <2> QED BY <1>1, <1>2, <1>5, <2>1 DEF Stats
<1>6. CASE outcome = "dropped_full"
  <2>1. counted(outcome) = [a EXCEPT !.dropped_full = assoc_stats.dropped_full + 1]
    BY <1>3, <1>6
  <2> QED BY <1>1, <1>2, <1>6, <2>1 DEF Stats
<1> QED BY <1>4, <1>5, <1>6

\* Votes stay numbers.
LEMMA VotesTyped ==
    ASSUME NEW votes \in [ColorIds -> Nat], NEW id
    PROVE  setColor(votes, id) \in [ColorIds -> Nat] /\ NoVotes \in [ColorIds -> Nat]
  BY DEF setColor, NoVotes

\* An observation leaves the loop's sequence.
LEMMA TailOfSequence ==
    ASSUME NEW S, NEW q \in Seq(S), q # << >>
    PROVE  /\ Tail(q) \in Seq(S) /\ Head(q) \in S
           /\ \A i \in DOMAIN Tail(q) : i + 1 \in DOMAIN q /\ Tail(q)[i] = q[i + 1]
  OBVIOUS

\* What is left of a scan is a scan.
LEMMA TailOfScan ==
    ASSUME TypeOK, obs # << >>
    PROVE  Tail(obs) \in Seq(ScanRecord) /\ Head(obs) \in ScanRecord
<1>1. obs \in Seq(ScanRecord)
  BY DEF TypeOK, ScanRecord
<1> QED BY <1>1, TailOfSequence

-----------------------------------------------------------------------------
(* EkfInv, action by action *)

\* The filter starts at the origin with no landmark.
LEMMA InitEkfInv == Init => EkfInv
<1> SUFFICES ASSUME Init PROVE EkfInv
  OBVIOUS
<1>1. created \in State /\ landmark_count = 0 /\ Mapped = {}
  BY SlotFacts DEF created, State, Init, Mapped
<1>2. NoVotes \in [ColorIds -> Nat]
  BY DEF NoVotes
<1>3. TypeOK
  BY <1>1, <1>2, SlotFacts, EkfAssumption DEF Init, TypeOK, NoStats
<1> QED BY <1>1, <1>3
        DEF Init, EkfInv, Phases, OriginsKnown, MirrorCoherent, Ledger, NoStats

\* predict() moves the pose of the mirror and of the backend alike.
LEMMA PredictEkfInv ==
    ASSUME EkfInv, NEW mv \in Moves, NEW drift \in Errors, NEW sigma \in Sigmas,
           predict(mv, drift, sigma)
    PROVE  EkfInv' /\ mirror'.lm = mirror.lm /\ backend'.lm = backend.lm
<1>1. mv \in Int /\ drift \in Int
  BY AllPosesAreIntegers
<1>2. backend \in State /\ mirror \in State
  BY DEF EkfInv, TypeOK
<1>3. /\ backend' = [backend EXCEPT !.pose = @ + (mv + drift), !.sigma = sigma]
      /\ mirror' = syncFromBackend(backend')
      /\ car' = car + mv /\ car' \in Track
  BY DEF predict, motionPropagate
<1>4. backend' \in State /\ backend'.lm = backend.lm
  <2>1. backend.pose \in Int /\ backend.lm \in [Slots -> Int]
    BY <1>2 DEF State
  <2>2. backend' = [pose |-> backend.pose + (mv + drift), lm |-> backend.lm, sigma |-> sigma]
    BY <1>2, <1>3 DEF State
  <2> QED BY <1>1, <2>1, <2>2 DEF State
<1>5. /\ landmark_count' = landmark_count /\ s' = s /\ assoc_stats' = assoc_stats
      /\ is_first_lap_completed' = is_first_lap_completed /\ pc' = pc /\ obs' = obs
      /\ batch' = batch /\ origin' = origin /\ seen' = seen /\ scans' = scans
      /\ Mapped' = Mapped
  BY DEF predict, Mapped
<1>6. /\ mirror' \in State /\ mirror'.pose = backend'.pose /\ mirror'.sigma = backend'.sigma
      /\ \A k \in Mapped : mirror'.lm[k] = backend'.lm[k]
      /\ mirror'.lm = mirror.lm
  <2>1. \A k \in Mapped : mirror.lm[k] = backend'.lm[k]
    BY <1>4 DEF EkfInv, MirrorCoherent
  <2> QED BY <2>1, <1>3, <1>4, SyncState DEF EkfInv
<1> QED BY <1>3, <1>4, <1>5, <1>6
        DEF EkfInv, TypeOK, Phases, OriginsKnown, MirrorCoherent, Ledger

\* A scan is what the car sees from where it is.
LEMMA ScanFacts ==
    ASSUME TypeOK, NEW scan \in Scans
    PROVE  /\ scan \in Seq(ScanRecord)
           /\ \A i \in DOMAIN scan : scan[i].range = ConeAt[scan[i].cone] - car
<1> DEFINE Seen == {o \in [cone : Cones, range : {ConeAt[c] - car : c \in Cones},
                           color : ScanColors] : o.range = ConeAt[o.cone] - car}
<1>1. PICK n \in 0..MaxScan : scan \in [1..n -> Seen]
  BY DEF Scans
<1>2. Seen \subseteq ScanRecord /\ \A o \in Seen : o.range = ConeAt[o.cone] - car
  BY EkfAssumption DEF TypeOK, ScanRecord
<1> HIDE DEF Seen
<1>3. n \in Nat /\ DOMAIN scan = 1..n
  BY <1>1, EkfAssumption
<1> QED BY <1>1, <1>2, <1>3

\* update() starts with an empty batch and a clean count.
LEMMA UpdateEkfInv ==
    ASSUME EkfInv, NEW scan \in Scans, update(scan)
    PROVE  EkfInv'
<1>1. scan \in Seq(ScanRecord)
  BY ScanFacts DEF EkfInv
<1>2. /\ obs' = scan /\ batch' = {} /\ assoc_stats' = NoStats /\ pc' = "associate"
      /\ scans' \in 0..MaxScans
      /\ car' = car /\ mirror' = mirror /\ backend' = backend /\ s' = s
      /\ landmark_count' = landmark_count /\ origin' = origin /\ seen' = seen
      /\ is_first_lap_completed' = is_first_lap_completed
      /\ Mapped' = Mapped
  BY EkfAssumption DEF update, EkfInv, TypeOK, Mapped
<1> QED BY <1>1, <1>2
        DEF EkfInv, TypeOK, Phases, OriginsKnown, MirrorCoherent, Ledger, NoStats, ScanRecord

\* An orange cone is counted and dropped.
LEMMA SkipEkfInv ==
    ASSUME EkfInv, Associating, skipOrange(Head(obs))
    PROVE  EkfInv'
<1>1. obs' = Tail(obs) /\ obs' \in Seq(ScanRecord) /\ pc = "associate"
  BY TailOfScan DEF skipOrange, Associating, EkfInv
<1>2. /\ car' = car /\ mirror' = mirror /\ backend' = backend /\ s' = s
      /\ landmark_count' = landmark_count /\ origin' = origin /\ seen' = seen
      /\ is_first_lap_completed' = is_first_lap_completed /\ pc' = pc
      /\ assoc_stats' = assoc_stats /\ batch' = batch /\ scans' = scans
      /\ Mapped' = Mapped
  BY DEF skipOrange, Mapped
<1> QED BY <1>1, <1>2
        DEF EkfInv, TypeOK, Phases, OriginsKnown, MirrorCoherent, Ledger, ScanRecord

\* A drop at the gate happens in lap 2 and one for a full map in lap 1: the ledger
\* of lap 2 has neither a drop for a full map nor a creation.
LEMMA DropEkfInv ==
    ASSUME EkfInv, Associating, NEW outcome \in {"dropped_gate", "dropped_full"},
           drop(outcome),
           outcome = "dropped_full" => ~is_first_lap_completed
    PROVE  EkfInv'
<1>1. obs' = Tail(obs) /\ obs' \in Seq(ScanRecord) /\ pc = "associate"
  BY TailOfScan DEF drop, Associating, EkfInv
<1>2. /\ car' = car /\ mirror' = mirror /\ backend' = backend /\ s' = s
      /\ landmark_count' = landmark_count /\ origin' = origin /\ seen' = seen
      /\ is_first_lap_completed' = is_first_lap_completed /\ pc' = pc
      /\ batch' = batch /\ scans' = scans
      /\ Mapped' = Mapped
  BY DEF drop, Mapped
<1>3. assoc_stats' \in Stats /\ Ledger'
  <2>1. assoc_stats' = counted(outcome)
    BY DEF drop
  <2>2. /\ assoc_stats' \in Stats /\ assoc_stats \in Stats
        /\ assoc_stats'.observed = assoc_stats.observed + 1
        /\ assoc_stats'.created = assoc_stats.created
        /\ assoc_stats'.associated = assoc_stats.associated
        /\ \/ /\ assoc_stats'.dropped_gate = assoc_stats.dropped_gate + 1
              /\ assoc_stats'.dropped_full = assoc_stats.dropped_full
           \/ /\ ~is_first_lap_completed
              /\ assoc_stats'.dropped_gate = assoc_stats.dropped_gate
              /\ assoc_stats'.dropped_full = assoc_stats.dropped_full + 1
    <3>1. CASE outcome = "dropped_gate" BY <3>1, <2>1, CountedStats DEF EkfInv, Stats
    <3>2. CASE outcome = "dropped_full" BY <3>2, <2>1, CountedStats DEF EkfInv, Stats
    <3> QED BY <3>1, <3>2
  <2>3. /\ assoc_stats'.observed \in Nat /\ assoc_stats.observed \in Nat
        /\ assoc_stats.associated \in Nat /\ assoc_stats.created \in Nat
        /\ assoc_stats.dropped_gate \in Nat /\ assoc_stats.dropped_full \in Nat
    BY <2>2 DEF Stats
  <2>4. assoc_stats'.observed = assoc_stats'.associated + assoc_stats'.dropped_gate
                                    + assoc_stats'.dropped_full
    BY <2>2, <2>3 DEF EkfInv, Ledger
  <2>5. is_first_lap_completed =>
            assoc_stats'.created + assoc_stats'.dropped_full = 0
    BY <2>2, <2>3, <1>1 DEF EkfInv, Ledger
  <2>6. assoc_stats'.created <= assoc_stats'.associated
    BY <2>2, <2>3 DEF EkfInv, Ledger
  <2> QED BY <2>2, <2>4, <2>5, <2>6, <1>2 DEF Ledger
<1> QED BY <1>1, <1>2, <1>3
        DEF EkfInv, TypeOK, Phases, OriginsKnown, MirrorCoherent, ScanRecord, Stats

\* An association is counted and joins the batch.
LEMMA AssociateEkfInv ==
    ASSUME EkfInv, Associating, NEW k \in Slots, associate(Head(obs), k)
    PROVE  EkfInv'
<1> DEFINE o == Head(obs)
<1>1. obs' = Tail(obs) /\ obs' \in Seq(ScanRecord) /\ pc = "associate" /\ o \in ScanRecord
  BY TailOfScan DEF associate, Associating, EkfInv
<1>2. /\ car' = car /\ mirror' = mirror /\ backend' = backend
      /\ landmark_count' = landmark_count /\ origin' = origin /\ scans' = scans
      /\ is_first_lap_completed' = is_first_lap_completed /\ pc' = pc
      /\ Mapped' = Mapped
  BY DEF associate, Mapped
<1>3. assoc_stats' \in Stats /\ Ledger'
  <2>1. assoc_stats' = counted("associated")
    BY DEF associate
  <2>2. /\ assoc_stats' \in Stats /\ assoc_stats \in Stats
        /\ assoc_stats'.observed = assoc_stats.observed + 1
        /\ assoc_stats'.created = assoc_stats.created
        /\ assoc_stats'.associated = assoc_stats.associated + 1
        /\ assoc_stats'.dropped_gate = assoc_stats.dropped_gate
        /\ assoc_stats'.dropped_full = assoc_stats.dropped_full
    BY <2>1, CountedStats DEF EkfInv, Stats
  <2> QED BY <2>2, <1>1, <1>2 DEF EkfInv, Ledger, Stats
<1>4. s' \in [Slots -> [ColorIds -> Nat]] /\ seen' \in [Slots -> Nat]
  <2>1. setColor(s[k], o.color) \in [ColorIds -> Nat]
    BY VotesTyped DEF EkfInv, TypeOK
  <2>2. s' = [s EXCEPT ![k] = setColor(s[k], o.color)] /\ seen' = [seen EXCEPT ![k] = @ + 1]
    BY DEF associate
  <2> QED BY <2>1, <2>2 DEF EkfInv, TypeOK
<1>5. batch' \subseteq [k : Slots, cone : Cones]
  <2>1. batch' = batch \cup {[k |-> k, cone |-> o.cone]} /\ o.cone \in Cones
    BY <1>1 DEF associate, ScanRecord
  <2> QED BY <2>1 DEF EkfInv, TypeOK
<1> QED BY <1>1, <1>2, <1>3, <1>4, <1>5
        DEF EkfInv, TypeOK, Phases, OriginsKnown, MirrorCoherent, ScanRecord, Stats

\* What an insertion changes, slot by slot.
LEMMA AllocateFacts ==
    ASSUME EkfInv, Associating, allocate(Head(obs)), landmark_count < N_CONES
    PROVE  /\ Head(obs) \in ScanRecord /\ obs' = Tail(obs) /\ obs' \in Seq(ScanRecord)
           /\ pc = "associate" /\ pc' = pc
           /\ landmark_count \in Slots /\ landmark_count' = landmark_count + 1
           /\ Mapped' = Mapped \cup {landmark_count} /\ landmark_count \notin Mapped
           /\ Mapped \subseteq Slots
           /\ tmp_cone(Head(obs)) \in Int
           /\ mirror' \in State /\ backend' \in State
           /\ mirror'.pose = mirror.pose /\ mirror'.sigma = mirror.sigma
           /\ backend'.pose = backend.pose /\ backend'.sigma = backend.sigma
           /\ mirror'.lm = [mirror.lm EXCEPT ![landmark_count] = tmp_cone(Head(obs))]
           /\ backend'.lm = [backend.lm EXCEPT ![landmark_count] = tmp_cone(Head(obs))]
           /\ origin' = [origin EXCEPT ![landmark_count] = Head(obs).cone]
           /\ batch' = batch \cup {[k |-> landmark_count, cone |-> Head(obs).cone]}
           /\ car' = car /\ is_first_lap_completed' = is_first_lap_completed
           /\ scans' = scans
<1> DEFINE o == Head(obs)  n == landmark_count
<1>1. o \in ScanRecord /\ Tail(obs) \in Seq(ScanRecord)
  BY TailOfScan DEF Associating, EkfInv
<1>2. n \in Slots /\ n \in Nat /\ Mapped \subseteq Slots /\ n \notin Mapped
  BY SlotFacts DEF EkfInv, TypeOK, Slots, Mapped
<1>3. n' = n + 1 /\ Mapped' = Mapped \cup {n}
  BY <1>2 DEF allocate, Mapped
<1>4. /\ mirror \in State /\ backend \in State
      /\ mirror.pose \in Int /\ mirror.lm \in [Slots -> Int] /\ backend.lm \in [Slots -> Int]
  BY DEF EkfInv, TypeOK, State
<1>5. tmp_cone(o) \in Int
  BY <1>1, <1>4 DEF tmp_cone, ScanRecord
<1>6. /\ mirror' = [mirror EXCEPT !.lm = [mirror.lm EXCEPT ![n] = tmp_cone(o)]]
      /\ backend' = [backend EXCEPT !.lm = [backend.lm EXCEPT ![n] = tmp_cone(o)]]
  BY DEF allocate, insertLandmark
<1>7. /\ [mirror.lm EXCEPT ![n] = tmp_cone(o)] \in [Slots -> Int]
      /\ [backend.lm EXCEPT ![n] = tmp_cone(o)] \in [Slots -> Int]
  BY <1>4, <1>5
<1> QED BY <1>1, <1>2, <1>3, <1>4, <1>5, <1>6, <1>7 DEF allocate, Associating, State

\* A new landmark goes to the mirror and to the backend, if there is room.
LEMMA NewConeEkfInv ==
    ASSUME EkfInv, Associating, NEW k \in Slots, newCone(Head(obs), k)
    PROVE  EkfInv'
<1> DEFINE o == Head(obs)  n == landmark_count
<1>1. allocate(o) /\ n < N_CONES /\ ~is_first_lap_completed
  BY DEF newCone, IsNew
<1> USE <1>1
<1>2. /\ obs' \in Seq(ScanRecord) /\ o \in ScanRecord /\ pc' = pc /\ pc = "associate"
      /\ n \in Slots /\ n' = n + 1 /\ Mapped' = Mapped \cup {n} /\ n \notin Mapped
      /\ Mapped \subseteq Slots /\ tmp_cone(o) \in Int
      /\ mirror' \in State /\ backend' \in State
      /\ is_first_lap_completed' = is_first_lap_completed /\ scans' = scans /\ car' = car
  BY AllocateFacts
<1>3. MirrorCoherent'
  <2>1. mirror'.pose = backend'.pose /\ mirror'.sigma = backend'.sigma
    BY AllocateFacts DEF EkfInv, MirrorCoherent
  <2>2. ASSUME NEW j \in Mapped' PROVE mirror'.lm[j] = backend'.lm[j]
    <3>1. /\ mirror'.lm = [mirror.lm EXCEPT ![n] = tmp_cone(o)]
          /\ backend'.lm = [backend.lm EXCEPT ![n] = tmp_cone(o)]
          /\ mirror.lm \in [Slots -> Int] /\ backend.lm \in [Slots -> Int]
      BY AllocateFacts DEF EkfInv, TypeOK, State
    <3> QED BY <3>1, <1>2 DEF EkfInv, MirrorCoherent
  <2> QED BY <2>1, <2>2 DEF MirrorCoherent
<1>4. OriginsKnown' /\ origin' \in [Slots -> Cones \cup {NoCone}]
  <2>1. origin' = [origin EXCEPT ![n] = o.cone] /\ o.cone \in Cones
    BY <1>2, AllocateFacts DEF ScanRecord
  <2> QED BY <2>1, <1>2 DEF EkfInv, OriginsKnown, TypeOK
<1>5. assoc_stats' \in Stats /\ Ledger'
  <2> DEFINE c == counted("associated")
  <2>1. /\ c \in Stats /\ assoc_stats \in Stats
        /\ c.observed = assoc_stats.observed + 1 /\ c.created = assoc_stats.created
        /\ c.associated = assoc_stats.associated + 1
        /\ c.dropped_gate = assoc_stats.dropped_gate /\ c.dropped_full = assoc_stats.dropped_full
    BY CountedStats DEF EkfInv, Stats
  <2>2. assoc_stats' = [c EXCEPT !.created = c.created + 1]
    BY DEF allocate
  <2> HIDE DEF c
  <2>3. /\ assoc_stats' \in Stats
        /\ assoc_stats'.observed = assoc_stats.observed + 1
        /\ assoc_stats'.created = assoc_stats.created + 1
        /\ assoc_stats'.associated = assoc_stats.associated + 1
        /\ assoc_stats'.dropped_gate = assoc_stats.dropped_gate
        /\ assoc_stats'.dropped_full = assoc_stats.dropped_full
    BY <2>1, <2>2 DEF Stats
  <2> QED BY <2>1, <2>3, <1>2 DEF EkfInv, Ledger, Stats
<1>6. s' \in [Slots -> [ColorIds -> Nat]] /\ seen' \in [Slots -> Nat]
  <2>1. setColor(NoVotes, o.color) \in [ColorIds -> Nat]
    BY VotesTyped DEF NoVotes
  <2>2. s' = [s EXCEPT ![n] = setColor(NoVotes, o.color)] /\ seen' = [seen EXCEPT ![n] = 1]
    BY DEF allocate
  <2> QED BY <2>1, <2>2 DEF EkfInv, TypeOK
<1>7. batch' \subseteq [k : Slots, cone : Cones]
  <2>1. batch' = batch \cup {[k |-> n, cone |-> o.cone]} /\ o.cone \in Cones
    BY <1>2, AllocateFacts DEF ScanRecord
  <2> QED BY <2>1, <1>2 DEF EkfInv, TypeOK
<1>8. n' \in 0..N_CONES
  BY <1>2, SlotFacts DEF EkfInv, TypeOK
<1> QED BY <1>2, <1>3, <1>4, <1>5, <1>6, <1>7, <1>8
        DEF EkfInv, TypeOK, Phases, ScanRecord, Stats

\* A scan with nothing to fuse ends there.
LEMMA EndOfScanEkfInv ==
    ASSUME EkfInv, endOfScan
    PROVE  EkfInv'
<1>1. /\ car' = car /\ mirror' = mirror /\ backend' = backend /\ s' = s
      /\ landmark_count' = landmark_count /\ origin' = origin /\ seen' = seen
      /\ is_first_lap_completed' = is_first_lap_completed
      /\ assoc_stats' = assoc_stats /\ batch' = batch /\ scans' = scans
      /\ obs' = obs /\ obs = << >> /\ pc = "associate" /\ Mapped' = Mapped
      /\ pc' \in {"idle", "fuse"} /\ (pc' = "idle" => batch = {})
  BY DEF endOfScan, leaveLoop, Mapped
<1> QED BY <1>1
        DEF EkfInv, TypeOK, Phases, OriginsKnown, MirrorCoherent, Ledger

\* The estimates a joint update may produce are positions.
LEMMA EstimatesTyped ==
    ASSUME EkfInv, NEW errors \in [Slots -> Errors]
    PROVE  /\ Estimated(errors) \in [Slots -> Int]
           /\ \A k \in Mapped : /\ k \in Slots /\ ConeAt[origin[k]] \in Int /\ errors[k] \in Int
                                /\ Estimated(errors)[k] = ConeAt[origin[k]] + errors[k]
<1>1. \A k \in Mapped : origin[k] \in Cones /\ k \in Slots
  BY SlotFacts DEF EkfInv, OriginsKnown, TypeOK, Mapped, Slots
<1>2. \A k \in Slots : errors[k] \in Int
  BY AllPosesAreIntegers
<1> QED BY <1>1, <1>2, EkfAssumption DEF Estimated

\* The joint update: the steps agree on everything but x and P.
LEMMA FusedEkfInv ==
    ASSUME EkfInv, fused, mirror' \in State, backend' \in State, MirrorCoherent'
    PROVE  EkfInv'
<1>1. /\ car' = car /\ s' = s
      /\ landmark_count' = landmark_count /\ origin' = origin /\ seen' = seen
      /\ is_first_lap_completed' = is_first_lap_completed
      /\ assoc_stats' = assoc_stats /\ batch' = {} /\ scans' = scans
      /\ obs' = obs /\ pc = "fuse" /\ pc' = "idle" /\ Mapped' = Mapped
  BY DEF fused, Mapped
<1> QED BY <1>1 DEF EkfInv, TypeOK, Phases, OriginsKnown, Ledger

\* The full-state update leaves mirror and backend where the gain puts them.
LEMMA FullStateFacts ==
    ASSUME EkfInv, NEW pose \in AllPoses, NEW errors \in [Slots -> Errors], NEW sigma \in Sigmas,
           fullState(pose, errors, sigma)
    PROVE  /\ mirror' \in State /\ backend' \in State
           /\ mirror'.pose = pose /\ backend'.pose = pose
           /\ mirror'.sigma = backend'.sigma
           /\ \A k \in Mapped : /\ mirror'.lm[k] = backend'.lm[k]
                                /\ backend'.lm[k] = ConeAt[origin[k]] + errors[k]
           /\ Mapped' = Mapped
<1> DEFINE est == Estimated(errors)
           lm == downloadLandmarks([lm |-> est], landmark_count, backend.lm)
<1>1. /\ est \in [Slots -> Int] /\ Mapped \subseteq Slots
      /\ \A k \in Mapped : est[k] = ConeAt[origin[k]] + errors[k]
  BY EstimatesTyped
<1>2. backend' = [pose |-> pose, sigma |-> sigma, lm |-> lm] /\ mirror' = syncFromBackend(backend')
  BY DEF fullState, batchUpdateFullState
<1>3. lm \in [Slots -> Int] /\ \A k \in Mapped : lm[k] = est[k]
  <2>1. backend.lm \in [Slots -> Int]
    BY DEF EkfInv, TypeOK, State
  <2>2. \A k \in Mapped : k < landmark_count
    BY SlotFacts DEF EkfInv, TypeOK, Mapped
  <2> HIDE DEF est
  <2> QED BY <2>1, <2>2, <1>1 DEF downloadLandmarks
<1> HIDE DEF est, lm
<1>4. backend' \in State
  BY <1>2, <1>3, AllPosesAreIntegers DEF State
<1>5. /\ mirror' \in State /\ mirror'.pose = backend'.pose /\ mirror'.sigma = backend'.sigma
      /\ \A k \in Mapped : mirror'.lm[k] = backend'.lm[k]
  BY <1>2, <1>4, SyncState DEF EkfInv
<1>6. Mapped' = Mapped
  BY DEF fullState, fused, Mapped
<1> QED BY <1>1, <1>2, <1>3, <1>4, <1>5, <1>6

\* The full-state update keeps the mirrors coherent.
LEMMA FullStateEkfInv ==
    ASSUME EkfInv, NEW pose \in AllPoses, NEW errors \in [Slots -> Errors], NEW sigma \in Sigmas,
           fullState(pose, errors, sigma)
    PROVE  EkfInv'
<1>1. fused
  BY DEF fullState
<1>2. MirrorCoherent'
  BY FullStateFacts DEF MirrorCoherent
<1> QED BY <1>1, <1>2, FullStateFacts, FusedEkfInv

\* A failed one too: the mirrors are read back.
LEMMA FullStateFailedEkfInv ==
    ASSUME EkfInv, fullStateFailed
    PROVE  EkfInv' /\ mirror'.pose = backend.pose /\ mirror'.lm = mirror.lm /\ backend' = backend
<1>1. fused /\ mirror' = syncFromBackend(backend) /\ backend' = backend /\ backend \in State
  BY DEF fullStateFailed, EkfInv, TypeOK
<1>2. Mapped' = Mapped
  BY <1>1 DEF fused, Mapped
<1>3. \A k \in Mapped : mirror.lm[k] = backend.lm[k]
  BY DEF EkfInv, MirrorCoherent
<1>4. /\ mirror' \in State /\ mirror'.pose = backend.pose /\ mirror'.sigma = backend.sigma
      /\ mirror'.lm = mirror.lm
  BY <1>1, <1>3, SyncState DEF EkfInv
<1>5. MirrorCoherent'
  BY <1>1, <1>2, <1>3, <1>4 DEF MirrorCoherent
<1> QED BY <1>1, <1>4, <1>5, FusedEkfInv

\* The rigid update writes the pose back and leaves the landmarks.
LEMMA RigidEkfInv ==
    ASSUME EkfInv, NEW pose \in AllPoses, NEW sigma \in Sigmas, rigid(pose, sigma)
    PROVE  EkfInv' /\ mirror'.pose = pose /\ mirror'.lm = mirror.lm /\ backend'.lm = backend.lm
<1>1. /\ fused
      /\ mirror' = [mirror EXCEPT !.pose = pose, !.sigma = sigma]
      /\ backend' = uploadPoseBlock3x3(uploadPose3(backend, pose), sigma)
  BY DEF rigid
<1>2. mirror \in State /\ backend \in State /\ pose \in Int
  BY AllPosesAreIntegers DEF EkfInv, TypeOK
<1>3. mirror' = [pose |-> pose, lm |-> mirror.lm, sigma |-> sigma]
  BY <1>1, <1>2 DEF State
<1>4. backend' = [pose |-> pose, lm |-> backend.lm, sigma |-> sigma]
  <2>1. uploadPose3(backend, pose) = [pose |-> pose, lm |-> backend.lm, sigma |-> backend.sigma]
    BY <1>2 DEF uploadPose3, State
  <2> QED BY <1>1, <2>1 DEF uploadPoseBlock3x3
<1>5. mirror' \in State /\ backend' \in State
  BY <1>2, <1>3, <1>4 DEF State
<1>6. MirrorCoherent'
  <2>1. Mapped' = Mapped
    BY <1>1 DEF fused, Mapped
  <2> QED BY <2>1, <1>3, <1>4 DEF EkfInv, MirrorCoherent
<1> QED BY <1>1, <1>3, <1>4, <1>5, <1>6, FusedEkfInv

\* The lap flag is set between callbacks.
LEMMA SetFirstLapEkfInv ==
    ASSUME EkfInv, setFirstLapCompleted
    PROVE  EkfInv'
<1>1. /\ car' = car /\ mirror' = mirror /\ backend' = backend /\ s' = s
      /\ landmark_count' = landmark_count /\ origin' = origin /\ seen' = seen
      /\ is_first_lap_completed' = TRUE
      /\ assoc_stats' = assoc_stats /\ batch' = batch /\ scans' = scans
      /\ obs' = obs /\ pc = "idle" /\ pc' = pc /\ Mapped' = Mapped
  BY DEF setFirstLapCompleted, Mapped
<1> QED BY <1>1
        DEF EkfInv, TypeOK, Phases, OriginsKnown, MirrorCoherent, Ledger

\* Nothing happens.
LEMMA StutterEkfInv ==
    ASSUME EkfInv, UNCHANGED ekfVars
    PROVE  EkfInv' /\ Mapped' = Mapped
  BY DEF ekfVars, Mapped, EkfInv, TypeOK, Phases, OriginsKnown, MirrorCoherent, Ledger

\* Each way an observation can go keeps the invariant.
LEMMA ObservationEkfInv ==
    ASSUME EkfInv, processObservation
    PROVE  EkfInv'
<1>1. Associating
  BY DEF processObservation
<1>2. CASE skipOrange(Head(obs))
  BY <1>1, <1>2, SkipEkfInv
<1>3. ASSUME NEW k \in Slots, considered(Head(obs), k) PROVE EkfInv'
  <2>1. CASE gateDrop(Head(obs), k)
    BY <1>1, <2>1, DropEkfInv DEF gateDrop
  <2>2. CASE gatePass(Head(obs), k)
    BY <1>1, <2>2, AssociateEkfInv DEF gatePass
  <2>3. CASE existing(Head(obs), k)
    BY <1>1, <2>3, AssociateEkfInv DEF existing
  <2>4. CASE full(Head(obs), k)
    BY <1>1, <2>4, DropEkfInv DEF full, IsNew
  <2>5. CASE newCone(Head(obs), k)
    BY <1>1, <2>5, NewConeEkfInv
  <2> QED BY <1>3, <2>1, <2>2, <2>3, <2>4, <2>5 DEF considered
<1> QED BY <1>2, <1>3 DEF processObservation

\* Each way the joint update can go keeps the invariant.
LEMMA JointUpdateEkfInv ==
    ASSUME EkfInv, jointUpdate
    PROVE  EkfInv'
  BY FullStateEkfInv, FullStateFailedEkfInv, RigidEkfInv DEF jointUpdate

\* No step breaks the invariant.
LEMMA NextEkfInv ==
    ASSUME EkfInv, [Next]_ekfVars
    PROVE  EkfInv'
<1>1. CASE Motion
  BY <1>1, PredictEkfInv DEF Motion
<1>2. CASE NewScan
  BY <1>2, UpdateEkfInv DEF NewScan
<1>3. CASE UpdateStep
  BY <1>3, ObservationEkfInv, EndOfScanEkfInv, JointUpdateEkfInv DEF UpdateStep
<1>4. CASE setFirstLapCompleted
  BY <1>4, SetFirstLapEkfInv
<1>5. CASE UNCHANGED ekfVars
  BY <1>5, StutterEkfInv
<1> QED BY <1>1, <1>2, <1>3, <1>4, <1>5 DEF Next

\* Types, coherent mirrors and the ledger, together.
THEOREM EkfInvariant == Spec => []EkfInv
<1>1. Init => EkfInv
  BY InitEkfInv
<1>2. EkfInv /\ [Next]_ekfVars => EkfInv'
  BY NextEkfInv
<1> QED BY <1>1, <1>2, PTL DEF Spec

\* TypeOK: no slot outside the arrays is ever read or written, whatever is seen
\* (N_CONES, ekf_odom.cpp:200).
THEOREM EkfTypeOK == Spec => []TypeOK
<1>1. EkfInv => TypeOK
  BY DEF EkfInv
<1> QED BY <1>1, EkfInvariant, PTL

\* The mirrors are the backend's state between any two steps of any call.
THEOREM EkfMirrorCoherent == Spec => []MirrorCoherent
<1>1. EkfInv => MirrorCoherent
  BY DEF EkfInv
<1> QED BY <1>1, EkfInvariant, PTL

\* The diagnostics add up in the middle of a scan too.
THEOREM EkfLedger == Spec => []Ledger
<1>1. EkfInv => Ledger
  BY DEF EkfInv
<1> QED BY <1>1, EkfInvariant, PTL

-----------------------------------------------------------------------------
(* The map after lap 1 *)

FrozenStep ==
    is_first_lap_completed =>
         /\ landmark_count' = landmark_count /\ is_first_lap_completed'
         /\ freeze_map => mirror'.lm = mirror.lm /\ backend'.lm = backend.lm

\* After lap 1 an observation maps nothing.
LEMMA ObservationFrozen ==
    ASSUME EkfInv, processObservation
    PROVE  FrozenStep
<1>1. CASE skipOrange(Head(obs))
  BY <1>1 DEF skipOrange, FrozenStep, EkfInv, TypeOK
<1>2. ASSUME NEW k \in Slots, considered(Head(obs), k) PROVE FrozenStep
  <2>1. is_first_lap_completed => gateDrop(Head(obs), k) \/ gatePass(Head(obs), k)
    BY <1>2 DEF considered, existing, full, newCone, IsNew
  <2> QED BY <2>1 DEF gateDrop, gatePass, drop, associate, FrozenStep
<1> QED BY <1>1, <1>2 DEF processObservation

\* setFirstLapCompleted is never undone; new cones need lap 1, and with freeze_map
\* the joint update of lap 2 is the rigid one.
LEMMA NextFrozen ==
    ASSUME EkfInv, [Next]_ekfVars
    PROVE  FrozenStep
<1>1. CASE Motion
  BY <1>1, PredictEkfInv DEF Motion, predict, FrozenStep
<1>2. CASE NewScan
  BY <1>2 DEF NewScan, update, FrozenStep
<1>3. CASE processObservation
  BY <1>3, ObservationFrozen
<1>4. CASE endOfScan
  BY <1>4 DEF endOfScan, leaveLoop, FrozenStep
<1>5. CASE jointUpdate
  <2>1. fused => /\ landmark_count' = landmark_count
                 /\ is_first_lap_completed' = is_first_lap_completed
    BY DEF fused
  <2>2. ASSUME NEW pose \in AllPoses, NEW errors \in [Slots -> Errors], NEW sigma \in Sigmas,
               fullState(pose, errors, sigma)
        PROVE  FrozenStep
    BY <2>1, <2>2 DEF fullState, rigidMap, FrozenStep
  <2>3. CASE fullStateFailed
    BY <2>1, <2>3, FullStateFailedEkfInv DEF fullStateFailed, FrozenStep
  <2>4. ASSUME NEW pose \in AllPoses, NEW sigma \in Sigmas, rigid(pose, sigma)
        PROVE  FrozenStep
    BY <2>1, <2>4, RigidEkfInv DEF rigid, FrozenStep
  <2> QED BY <1>5, <2>2, <2>3, <2>4 DEF jointUpdate
<1>6. CASE setFirstLapCompleted
  BY <1>6 DEF setFirstLapCompleted, FrozenStep
<1>7. CASE UNCHANGED ekfVars
  BY <1>7 DEF ekfVars, FrozenStep
<1> QED BY <1>1, <1>2, <1>3, <1>4, <1>5, <1>6, <1>7 DEF Next, UpdateStep

\* After lap 1 the map keeps its landmarks, and with freeze_map their places.
THEOREM EkfFrozenMap == Spec => FrozenMap
<1>1. EkfInv /\ [Next]_ekfVars => [FrozenStep]_ekfVars
  BY NextFrozen
<1> QED BY <1>1, EkfInvariant, PTL DEF Spec, FrozenMap, FrozenStep

-----------------------------------------------------------------------------
(* How far the estimates are from the truth *)

\* A filter told that lap 1 is over before it mapped anything matches what it sees
\* with nothing, and its pose can be anywhere.
Lost == is_first_lap_completed /\ landmark_count = 0

Located == ~Lost => Near(mirror.pose, car)
LandmarksNear == \A k \in Mapped : Near(mirror.lm[k], ConeAt[origin[k]])
ScanTrue == \A i \in DOMAIN obs : obs[i].range = ConeAt[obs[i].cone] - car
BatchMapped == ~Lost => \A a \in batch : a.k \in Mapped

TruthInv == Located /\ LandmarksNear /\ ScanTrue /\ BatchMapped /\ NoDuplicate /\ NoMerge

\* The configured distances and the cones' places are numbers.
LEMMA Numbers ==
    /\ PoseError \in Nat /\ Floor \in Nat /\ SigmaScale \in Nat /\ Cap \in Nat
    /\ MahaGate \in Nat /\ MeasNoise \in Nat /\ MaxSigma \in Nat
    /\ \A c \in Cones : ConeAt[c] \in Int
    /\ Sigmas \subseteq Nat /\ \A sigma \in Sigmas : sigma <= MaxSigma
  BY EkfAssumption DEF Sigmas

\* Near, without the absolute value.
LEMMA NearMeans ==
    ASSUME NEW p \in Int, NEW q \in Int
    PROVE  Near(p, q) <=> p - q <= PoseError /\ q - p <= PoseError
  BY Numbers DEF Near, Abs

\* The product of distances is in the order of the distances.
LEMMA Squares ==
    ASSUME NEW a \in Nat, NEW b \in Nat, a <= b
    PROVE  a * a <= b * b
<1>1. a * a <= a * b /\ a * b <= b * b
  BY SMT
<1> QED BY <1>1, SMT

\* The radius is between its floor and its widest.
LEMMA Radius ==
    ASSUME NEW sigma \in Sigmas
    PROVE  /\ new_cone_radius(sigma) \in Int
           /\ Floor <= new_cone_radius(sigma) /\ new_cone_radius(sigma) <= WidestRadius
<1>1. SigmaScale * sigma \in Nat
  BY Numbers
<1> QED BY <1>1, Numbers DEF new_cone_radius, WidestRadius

\* An observation of a cone lands within twice the error of a landmark of it, and
\* further than any radius that fits the track from a landmark of another.
LEMMA ObservedDistance ==
    ASSUME EkfInv, TruthInv, Associating, ~Lost, NEW k \in Mapped
    PROVE  LET o == Head(obs)
               d == Distance(k, tmp_cone(o))
           IN  /\ d \in Nat /\ o.cone \in Cones /\ origin[k] \in Cones
               /\ origin[k] = o.cone => d <= 2 * PoseError
               /\ Abs(ConeAt[origin[k]] - ConeAt[o.cone]) \in Nat
               /\ Abs(ConeAt[origin[k]] - ConeAt[o.cone]) - 2 * PoseError <= d
<1> DEFINE o == Head(obs)
<1>1. o \in ScanRecord /\ o.range = ConeAt[o.cone] - car
  <2>1. obs \in Seq(ScanRecord) /\ obs # << >>
    BY DEF EkfInv, TypeOK, ScanRecord, Associating
  <2>2. o = obs[1] /\ 1 \in DOMAIN obs
    BY <2>1
  <2> QED BY <2>1, <2>2, TailOfScan DEF TruthInv, ScanTrue, EkfInv
<1>2. /\ o.cone \in Cones /\ origin[k] \in Cones /\ k \in Slots /\ car \in Int
      /\ mirror.pose \in Int /\ mirror.lm[k] \in Int
      /\ ConeAt[o.cone] \in Int /\ ConeAt[origin[k]] \in Int
  <2>1. o.cone \in Cones /\ origin[k] \in Cones
    BY <1>1 DEF ScanRecord, EkfInv, OriginsKnown
  <2>2. k \in Slots
    BY SlotFacts DEF EkfInv, TypeOK, Mapped, Slots
  <2>3. car \in Int
    BY EkfAssumption DEF EkfInv, TypeOK
  <2>4. mirror.pose \in Int /\ mirror.lm \in [Slots -> Int]
    BY DEF EkfInv, TypeOK, State
  <2> HIDE DEF o
  <2> QED BY <2>1, <2>2, <2>3, <2>4, Numbers
<1>3. /\ mirror.pose - car <= PoseError /\ car - mirror.pose <= PoseError
      /\ mirror.lm[k] - ConeAt[origin[k]] <= PoseError
      /\ ConeAt[origin[k]] - mirror.lm[k] <= PoseError
  BY <1>2, NearMeans DEF TruthInv, Located, LandmarksNear
<1>4. tmp_cone(o) = mirror.pose + (ConeAt[o.cone] - car)
  BY <1>1 DEF tmp_cone
<1> HIDE DEF o
<1> QED BY <1>2, <1>3, <1>4, Numbers DEF Distance, Abs, o

\* At first the estimate is the truth.
LEMMA InitTruth == Init => TruthInv
<1> SUFFICES ASSUME Init PROVE TruthInv
  OBVIOUS
<1>1. landmark_count = 0 /\ Mapped = {}
  BY DEF Init, Mapped
<1>2. Located
  <2>1. mirror.pose = 0 /\ car \in Int /\ 0 - PoseError <= car /\ car <= 0 + PoseError
    BY Numbers, EkfAssumption DEF Init, created, Around
  <2> QED BY <2>1, NearMeans, Numbers DEF Located
<1> QED BY <1>1, <1>2
        DEF Init, TruthInv, LandmarksNear, ScanTrue, BatchMapped, NoDuplicate, NoMerge

\* What leaves the map, its origins and the batch alone keeps what is said of them.
LEMMA MapKept ==
    ASSUME TruthInv, landmark_count' = landmark_count, origin' = origin,
           batch' = batch \/ batch' = {},
           is_first_lap_completed' = is_first_lap_completed
    PROVE  BatchMapped' /\ NoDuplicate' /\ NoMerge' /\ Mapped' = Mapped /\ (Lost' <=> Lost)
<1>1. Mapped' = Mapped /\ (Lost' <=> Lost)
  BY DEF Mapped, Lost
<1> QED BY <1>1 DEF TruthInv, BatchMapped, NoDuplicate, NoMerge

\* A motion keeps the pose near the truth, as LIMO's drift is assumed to.
LEMMA PredictTruth ==
    ASSUME EkfInv, TruthInv, NEW mv \in Moves, NEW drift \in Errors, NEW sigma \in Sigmas,
           predict(mv, drift, sigma)
    PROVE  TruthInv'
<1>1. mirror'.lm = mirror.lm /\ mirror'.pose = backend'.pose /\ EkfInv'
  BY PredictEkfInv DEF EkfInv, MirrorCoherent
<1>2. obs' = << >> /\ origin' = origin /\ landmark_count' = landmark_count /\ batch' = batch
      /\ is_first_lap_completed' = is_first_lap_completed
  BY DEF predict, EkfInv, Phases
<1>3. backend'.pose = backend.pose + mv + drift /\ car' = car + mv
  <2>1. backend \in State /\ mv \in Int /\ drift \in Int /\ backend.pose \in Int
    BY AllPosesAreIntegers DEF EkfInv, TypeOK, State
  <2>2. /\ backend' = [backend EXCEPT !.pose = @ + (mv + drift), !.sigma = sigma]
        /\ car' = car + mv
    BY DEF predict, motionPropagate
  <2> QED BY <2>1, <2>2 DEF State
<1>4. ~Lost => Near(mirror'.pose, car')
  BY <1>1, <1>3 DEF TruthInv, Located, EkfInv, MirrorCoherent, predict
<1>5. BatchMapped' /\ NoDuplicate' /\ NoMerge' /\ Mapped' = Mapped /\ (Lost' <=> Lost)
  BY <1>2, MapKept
<1>6. LandmarksNear'
  BY <1>1, <1>2, <1>5 DEF TruthInv, LandmarksNear
<1>7. ScanTrue'
  BY <1>2 DEF ScanTrue
<1> QED BY <1>4, <1>5, <1>6, <1>7 DEF TruthInv, Located

\* A scan shows what is there.
LEMMA UpdateTruth ==
    ASSUME EkfInv, TruthInv, NEW scan \in Scans, update(scan)
    PROVE  TruthInv'
<1>1. /\ obs' = scan /\ origin' = origin /\ landmark_count' = landmark_count /\ batch' = {}
      /\ is_first_lap_completed' = is_first_lap_completed /\ mirror' = mirror /\ car' = car
  BY DEF update
<1>2. BatchMapped' /\ NoDuplicate' /\ NoMerge' /\ Mapped' = Mapped /\ (Lost' <=> Lost)
  BY <1>1, MapKept
<1>3. ScanTrue'
  BY <1>1, ScanFacts DEF EkfInv, ScanTrue
<1> QED BY <1>1, <1>2, <1>3 DEF TruthInv, Located, LandmarksNear

\* The rest of the scan is as true as the scan.
LEMMA RestOfScan ==
    ASSUME EkfInv, TruthInv, Associating, obs' = Tail(obs), car' = car
    PROVE  ScanTrue'
<1>1. obs \in Seq(ScanRecord) /\ obs # << >>
  BY DEF EkfInv, TypeOK, ScanRecord, Associating
<1>2. \A i \in DOMAIN Tail(obs) : i + 1 \in DOMAIN obs /\ Tail(obs)[i] = obs[i + 1]
  BY <1>1, TailOfSequence
<1> QED BY <1>2 DEF TruthInv, ScanTrue

\* An observation that is passed over changes no estimate.
LEMMA DropTruth ==
    ASSUME EkfInv, TruthInv, Associating, obs' = Tail(obs),
           UNCHANGED <<car, mirror, landmark_count, is_first_lap_completed, batch, origin>>
    PROVE  TruthInv'
<1>1. BatchMapped' /\ NoDuplicate' /\ NoMerge' /\ Mapped' = Mapped /\ (Lost' <=> Lost)
  BY MapKept
<1>2. ScanTrue'
  BY RestOfScan
<1> QED BY <1>1, <1>2 DEF TruthInv, Located, LandmarksNear

\* Association is right when the pair it adds is: in lap 1 because the radius fits
\* between two cones, in lap 2 because the gate does.
LEMMA AssociateTruth ==
    ASSUME EkfInv, TruthInv, Associating, NEW k \in Slots, associate(Head(obs), k),
           ~Lost => k \in Mapped,
           GateFits /\ (is_first_lap_completed => MahaFits) /\ k \in Mapped
               => origin[k] = Head(obs).cone
    PROVE  TruthInv'
<1> DEFINE pair == [k |-> k, cone |-> Head(obs).cone]
<1>1. /\ car' = car /\ mirror' = mirror /\ origin' = origin /\ landmark_count' = landmark_count
      /\ is_first_lap_completed' = is_first_lap_completed
      /\ obs' = Tail(obs) /\ batch' = batch \cup {pair}
      /\ Mapped' = Mapped /\ (Lost' <=> Lost)
  BY DEF associate, Mapped, Lost
<1>2. pair.k = k /\ pair.cone = Head(obs).cone
  OBVIOUS
<1> HIDE DEF pair
<1>3. BatchMapped'
  BY <1>1, <1>2 DEF TruthInv, BatchMapped
<1>4. NoMerge'
  <2> SUFFICES ASSUME GateFits, is_first_lap_completed => MahaFits,
                      NEW a \in batch', a.k \in Mapped
               PROVE  origin[a.k] = a.cone
    BY <1>1 DEF NoMerge, GateFits, GapOver, MahaFits
  <2>1. CASE a \in batch
    BY <2>1 DEF TruthInv, NoMerge
  <2>2. CASE a = pair
    BY <2>2, <1>2
  <2> QED BY <1>1, <2>1, <2>2
<1>5. NoDuplicate' /\ Located' /\ LandmarksNear'
  BY <1>1 DEF TruthInv, NoDuplicate, Located, LandmarksNear
<1>6. ScanTrue'
  BY <1>1, RestOfScan
<1> QED BY <1>3, <1>4, <1>5, <1>6 DEF TruthInv

\* The candidate is no further than any mapped landmark.
LEMMA CandidateNearest ==
    ASSUME landmark_count # 0, NEW p, NEW k, Candidate(k, p)
    PROVE  k \in Mapped /\ \A j \in Mapped : Distance(k, p) <= Distance(j, p)
  BY DEF Candidate, IsNearest

\* In lap 1 a landmark within the radius is the observed cone's own.
LEMMA ExistingRight ==
    ASSUME EkfInv, TruthInv, Associating, NEW k \in Slots,
           existing(Head(obs), k), Candidate(k, tmp_cone(Head(obs)))
    PROVE  k \in Mapped /\ (GateFits => origin[k] = Head(obs).cone)
<1> DEFINE o == Head(obs)
<1>1. ~Lost /\ landmark_count # 0 /\ ~(new_cone_radius(mirror.sigma) < Distance(k, tmp_cone(o)))
  BY DEF existing, IsNew, Lost
<1>2. k \in Mapped
  BY <1>1, CandidateNearest
<1>3. mirror.sigma \in Sigmas /\ WidestRadius \in Int
  BY Numbers DEF EkfInv, TypeOK, State, WidestRadius
<1>4. GateFits /\ origin[k] # o.cone
        => Abs(ConeAt[origin[k]] - ConeAt[o.cone]) - 2 * PoseError > WidestRadius
  BY <1>1, <1>2, ObservedDistance DEF GateFits, GapOver
<1>5. /\ Distance(k, tmp_cone(o)) \in Nat
      /\ Abs(ConeAt[origin[k]] - ConeAt[o.cone]) \in Nat
      /\ Abs(ConeAt[origin[k]] - ConeAt[o.cone]) - 2 * PoseError <= Distance(k, tmp_cone(o))
  BY <1>1, <1>2, ObservedDistance
<1>6. Distance(k, tmp_cone(o)) <= WidestRadius
  BY <1>1, <1>3, <1>5, Radius
<1> QED BY <1>2, <1>3, <1>4, <1>5, <1>6, Numbers

\* sigma is at most MaxSigma, so the gate is at most the one MahaFits speaks of.
LEMMA GateBounds ==
    ASSUME EkfInv
    PROVE  LET gate == MahaGate * (mirror.sigma * mirror.sigma + MeasNoise)
           IN  /\ gate \in Nat
               /\ MahaGate * MeasNoise <= gate
               /\ gate <= MahaGate * (MaxSigma * MaxSigma + MeasNoise)
<1>1. mirror.sigma \in Nat /\ mirror.sigma <= MaxSigma /\ MaxSigma \in Nat
      /\ MahaGate \in Nat /\ MeasNoise \in Nat
  BY Numbers DEF EkfInv, TypeOK, State
<1>2. mirror.sigma * mirror.sigma <= MaxSigma * MaxSigma
  BY <1>1, Squares
<1>3. mirror.sigma * mirror.sigma \in Nat /\ MaxSigma * MaxSigma \in Nat
  BY <1>1
<1>4. \A a, b, g \in Nat : a <= b => g * a <= g * b
  BY SMT
<1> QED BY <1>1, <1>2, <1>3, <1>4

\* In lap 2 a landmark that passes the gate is the observed cone's own.
LEMMA GatePassRight ==
    ASSUME EkfInv, TruthInv, Associating, NEW k \in Slots,
           gatePass(Head(obs), k), Candidate(k, tmp_cone(Head(obs)))
    PROVE  /\ ~Lost => k \in Mapped
           /\ GateFits /\ MahaFits /\ k \in Mapped => origin[k] = Head(obs).cone
<1> DEFINE o == Head(obs)
           d == Distance(k, tmp_cone(o))
<1>1. is_first_lap_completed /\ ~FailsGate(k, tmp_cone(o))
  BY DEF gatePass
<1>2. ~Lost => k \in Mapped
  BY <1>1, CandidateNearest DEF Lost
<1>3. ASSUME GateFits, MahaFits, k \in Mapped, origin[k] # o.cone
      PROVE  FALSE
  <2> DEFINE g == Abs(ConeAt[origin[k]] - ConeAt[o.cone]) - 2 * PoseError
             gate == MahaGate * (mirror.sigma * mirror.sigma + MeasNoise)
             widest == MahaGate * (MaxSigma * MaxSigma + MeasNoise)
  <2>1. ~Lost
    BY <1>3, SlotFacts DEF Lost, Mapped
  <2>2. /\ d \in Nat /\ o.cone \in Cones /\ origin[k] \in Cones
        /\ Abs(ConeAt[origin[k]] - ConeAt[o.cone]) \in Nat /\ g <= d
    BY <1>3, <2>1, ObservedDistance
  <2>3. g > 2 * PoseError /\ g * g > widest
    BY <1>3, <2>2 DEF GateFits, GapOver, MahaFits
  <2>4. g \in Nat
    BY <2>2, <2>3, Numbers
  <2>5. gate \in Nat /\ gate <= widest /\ widest \in Nat
    BY GateBounds, Numbers
  <2>6. ~(d * d > gate)
    BY <1>1 DEF FailsGate
  <2> HIDE DEF g, gate, widest, d
  <2>7. g * g <= d * d /\ g * g \in Nat /\ d * d \in Nat
    BY <2>2, <2>4, Squares
  <2> QED BY <2>3, <2>5, <2>6, <2>7
<1> QED BY <1>2, <1>3

\* A mapped cone is nearer than any radius: what is new is not mapped.
LEMMA NewIsUnmapped ==
    ASSUME EkfInv, TruthInv, Associating, NEW k \in Slots, GateFits,
           IsNew(Head(obs), k), Candidate(k, tmp_cone(Head(obs)))
    PROVE  \A j \in Mapped : origin[j] # Head(obs).cone
<1> DEFINE o == Head(obs)
<1> SUFFICES ASSUME NEW j \in Mapped, origin[j] = o.cone PROVE FALSE
  OBVIOUS
<1>1. ~Lost /\ landmark_count # 0
  BY SlotFacts DEF IsNew, Lost, Mapped
<1>2. k \in Mapped /\ Distance(k, tmp_cone(o)) <= Distance(j, tmp_cone(o))
  BY <1>1, CandidateNearest
<1>3. new_cone_radius(mirror.sigma) < Distance(k, tmp_cone(o))
  BY <1>1 DEF IsNew
<1>4. /\ Distance(k, tmp_cone(o)) \in Nat /\ Distance(j, tmp_cone(o)) \in Nat
      /\ Distance(j, tmp_cone(o)) <= 2 * PoseError
  BY <1>1, <1>2, ObservedDistance
<1>5. mirror.sigma \in Sigmas
  BY DEF EkfInv, TypeOK, State
<1>6. new_cone_radius(mirror.sigma) \in Int /\ Floor <= new_cone_radius(mirror.sigma)
  BY <1>5, Radius
<1> QED BY <1>2, <1>3, <1>4, <1>6, Numbers DEF GateFits

\* A cone that is mapped as new was not mapped before.
LEMMA NewConeTruth ==
    ASSUME EkfInv, TruthInv, Associating, NEW k \in Slots,
           newCone(Head(obs), k), Candidate(k, tmp_cone(Head(obs)))
    PROVE  TruthInv'
<1> DEFINE o == Head(obs)  n == landmark_count
           pair == [k |-> n, cone |-> o.cone]
<1>1. IsNew(o, k) /\ allocate(o) /\ n < N_CONES /\ ~is_first_lap_completed /\ ~Lost
  BY DEF newCone, IsNew, Lost
<1>2. /\ o \in ScanRecord /\ obs' = Tail(obs) /\ n \in Slots
      /\ Mapped' = Mapped \cup {n} /\ n \notin Mapped /\ Mapped \subseteq Slots
      /\ tmp_cone(o) \in Int /\ mirror'.pose = mirror.pose
      /\ mirror'.lm = [mirror.lm EXCEPT ![n] = tmp_cone(o)]
      /\ origin' = [origin EXCEPT ![n] = o.cone]
      /\ batch' = batch \cup {pair} /\ car' = car
      /\ is_first_lap_completed' = is_first_lap_completed
  BY <1>1, AllocateFacts
<1>3. /\ origin'[n] = o.cone /\ mirror'.lm[n] = tmp_cone(o)
      /\ \A j \in Mapped : origin'[j] = origin[j] /\ mirror'.lm[j] = mirror.lm[j]
  BY <1>2 DEF EkfInv, TypeOK, State
<1>4. pair.k = n /\ pair.cone = o.cone
  OBVIOUS
<1> HIDE DEF pair
<1>5. Located' /\ ~Lost'
  BY <1>1, <1>2 DEF TruthInv, Located, Lost
<1>6. LandmarksNear'
  <2>1. o.range = ConeAt[o.cone] - car /\ o.cone \in Cones
    <3>1. obs \in Seq(ScanRecord) /\ obs # << >>
      BY DEF EkfInv, TypeOK, ScanRecord, Associating
    <3>2. o = obs[1] /\ 1 \in DOMAIN obs
      BY <3>1
    <3> QED BY <1>2, <3>2 DEF TruthInv, ScanTrue, ScanRecord
  <2>2. mirror.pose \in Int /\ car \in Int /\ ConeAt[o.cone] \in Int
    BY <2>1, Numbers, EkfAssumption DEF EkfInv, TypeOK, State
  <2>3. Near(mirror.pose, car)
    BY <1>1 DEF TruthInv, Located
  <2>4. tmp_cone(o) = mirror.pose + (ConeAt[o.cone] - car)
    BY <2>1 DEF tmp_cone
  <2> HIDE DEF o
  <2>5. Near(tmp_cone(o), ConeAt[o.cone])
    BY <2>2, <2>3, <2>4, NearMeans, Numbers
  <2>6. ASSUME NEW j \in Mapped PROVE Near(mirror'.lm[j], ConeAt[origin'[j]])
    BY <1>3 DEF TruthInv, LandmarksNear
  <2> QED BY <1>2, <1>3, <2>5, <2>6 DEF LandmarksNear
<1>7. ScanTrue'
  BY <1>2, RestOfScan
<1>8. BatchMapped'
  BY <1>1, <1>2, <1>4 DEF TruthInv, BatchMapped
<1>9. NoMerge'
  <2> SUFFICES ASSUME GateFits, is_first_lap_completed => MahaFits,
                      NEW a \in batch', a.k \in Mapped'
               PROVE  origin'[a.k] = a.cone
    BY <1>2 DEF NoMerge, GateFits, GapOver, MahaFits
  <2>1. CASE a \in batch
    <3>1. a.k \in Mapped
      BY <1>1, <2>1 DEF TruthInv, BatchMapped
    <3> QED BY <1>3, <2>1, <3>1 DEF TruthInv, NoMerge
  <2>2. CASE a = pair
    BY <1>3, <1>4, <2>2
  <2> QED BY <1>2, <2>1, <2>2
<1>10. NoDuplicate'
  <2> SUFFICES ASSUME GateFits, NEW i \in Mapped', NEW j \in Mapped', i # j
               PROVE  origin'[i] # origin'[j]
    BY DEF NoDuplicate, GateFits, GapOver
  <2>1. \A q \in Mapped : origin[q] # o.cone
    BY <1>1, NewIsUnmapped
  <2>2. CASE i \in Mapped /\ j \in Mapped
    BY <1>3, <2>2 DEF TruthInv, NoDuplicate
  <2> QED BY <1>2, <1>3, <2>1, <2>2
<1> QED BY <1>5, <1>6, <1>7, <1>8, <1>9, <1>10 DEF TruthInv

\* Each way an observation can go keeps the map true.
LEMMA ObservationTruth ==
    ASSUME EkfInv, TruthInv, processObservation
    PROVE  TruthInv'
<1>1. Associating
  BY DEF processObservation
<1>2. CASE skipOrange(Head(obs))
  BY <1>1, <1>2, DropTruth DEF skipOrange
<1>3. ASSUME NEW k \in Slots, considered(Head(obs), k) PROVE TruthInv'
  <2>0. Candidate(k, tmp_cone(Head(obs)))
    BY <1>3 DEF considered
  <2>1. CASE gateDrop(Head(obs), k)
    BY <1>1, <2>1, DropTruth DEF gateDrop, drop
  <2>2. CASE gatePass(Head(obs), k)
    <3>1. is_first_lap_completed /\ associate(Head(obs), k)
      BY <2>2 DEF gatePass
    <3> QED BY <1>1, <2>0, <2>2, <3>1, GatePassRight, AssociateTruth
  <2>3. CASE existing(Head(obs), k)
    BY <1>1, <2>0, <2>3, ExistingRight, AssociateTruth DEF existing
  <2>4. CASE full(Head(obs), k)
    BY <1>1, <2>4, DropTruth DEF full, drop
  <2>5. CASE newCone(Head(obs), k)
    BY <1>1, <2>0, <2>5, NewConeTruth
  <2> QED BY <1>3, <2>1, <2>2, <2>3, <2>4, <2>5 DEF considered
<1> QED BY <1>2, <1>3 DEF processObservation

\* An empty batch changes no estimate.
LEMMA EndOfScanTruth ==
    ASSUME TruthInv, endOfScan
    PROVE  TruthInv'
<1>1. /\ car' = car /\ mirror' = mirror /\ obs' = obs /\ batch' = batch /\ origin' = origin
      /\ landmark_count' = landmark_count
      /\ is_first_lap_completed' = is_first_lap_completed
  BY DEF endOfScan, leaveLoop
<1>2. BatchMapped' /\ NoDuplicate' /\ NoMerge' /\ Mapped' = Mapped /\ (Lost' <=> Lost)
  BY <1>1, MapKept
<1> QED BY <1>1, <1>2 DEF TruthInv, Located, LandmarksNear, ScanTrue

\* The batch of a filter that is not lost is within the map, so that the joint
\* update stays around the truth.
LEMMA PosteriorNear ==
    ASSUME EkfInv, TruthInv, ~Lost, NEW pose \in Posteriors
    PROVE  Near(pose, car)
<1>1. pose \in Around(car) /\ car \in Int
  BY EkfAssumption DEF TruthInv, BatchMapped, Posteriors, OutOfMap, EkfInv, TypeOK
<1> QED BY <1>1, NearMeans, Numbers DEF Around

\* A joint update that leaves the estimates near the truth keeps the map true.
LEMMA FusedTruth ==
    ASSUME EkfInv, TruthInv, fused, ~Lost => Near(mirror'.pose, car), LandmarksNear'
    PROVE  TruthInv'
<1>1. /\ car' = car /\ obs' = << >> /\ batch' = {} /\ origin' = origin
      /\ landmark_count' = landmark_count
      /\ is_first_lap_completed' = is_first_lap_completed
  BY DEF fused, EkfInv, Phases
<1>2. BatchMapped' /\ NoDuplicate' /\ NoMerge' /\ Mapped' = Mapped /\ (Lost' <=> Lost)
  BY <1>1, MapKept
<1>3. ScanTrue'
  BY <1>1 DEF ScanTrue
<1> QED BY <1>1, <1>2, <1>3 DEF TruthInv, Located

\* Each joint update does.
LEMMA JointUpdateTruth ==
    ASSUME EkfInv, TruthInv, jointUpdate
    PROVE  TruthInv'
<1>0. fused => Mapped' = Mapped /\ origin' = origin
  BY DEF fused, Mapped
<1>1. ASSUME NEW pose \in AllPoses, NEW errors \in [Slots -> Errors], NEW sigma \in Sigmas,
             fullState(pose, errors, sigma)
      PROVE  TruthInv'
  <2>1. fused /\ pose \in Posteriors
    BY <1>1 DEF fullState
  <2>2. /\ mirror'.pose = pose /\ Mapped' = Mapped /\ origin' = origin
        /\ \A k \in Mapped : mirror'.lm[k] = ConeAt[origin[k]] + errors[k]
    BY <1>0, <1>1, <2>1, FullStateFacts
  <2>3. LandmarksNear'
    <3> SUFFICES ASSUME NEW k \in Mapped PROVE Near(ConeAt[origin[k]] + errors[k], ConeAt[origin[k]])
      BY <2>2 DEF LandmarksNear
    <3>1. k \in Slots /\ ConeAt[origin[k]] \in Int
      BY <1>1, EstimatesTyped
    <3>2. errors[k] \in -PoseError..PoseError
      BY <3>1 DEF Errors
    <3> QED BY <3>1, <3>2, NearMeans, Numbers
  <2> QED BY <2>1, <2>2, <2>3, PosteriorNear, FusedTruth
<1>2. CASE fullStateFailed
  <2>1. fused /\ mirror'.pose = mirror.pose /\ mirror'.lm = mirror.lm
    BY <1>2, FullStateFailedEkfInv DEF fullStateFailed, EkfInv, MirrorCoherent
  <2>2. LandmarksNear'
    BY <1>0, <2>1 DEF TruthInv, LandmarksNear
  <2> QED BY <2>1, <2>2, FusedTruth DEF TruthInv, Located
<1>3. ASSUME NEW pose \in AllPoses, NEW sigma \in Sigmas, rigid(pose, sigma)
      PROVE  TruthInv'
  <2>1. fused /\ pose \in Posteriors
    BY <1>3 DEF rigid
  <2>2. mirror'.pose = pose /\ mirror'.lm = mirror.lm
    BY <1>3, RigidEkfInv
  <2>3. LandmarksNear'
    BY <1>0, <2>1, <2>2 DEF TruthInv, LandmarksNear
  <2> QED BY <2>1, <2>2, <2>3, PosteriorNear, FusedTruth
<1> QED BY <1>1, <1>2, <1>3 DEF jointUpdate

\* The lap flag moves nothing.
LEMMA SetFirstLapTruth ==
    ASSUME EkfInv, TruthInv, setFirstLapCompleted
    PROVE  TruthInv'
<1>1. /\ car' = car /\ mirror' = mirror /\ obs' = obs /\ batch' = {} /\ origin' = origin
      /\ landmark_count' = landmark_count /\ is_first_lap_completed' /\ Mapped' = Mapped
      /\ batch = {}
  BY DEF setFirstLapCompleted, EkfInv, Phases, Mapped
<1>2. ~Lost' => ~Lost
  BY <1>1 DEF Lost
<1>3. BatchMapped' /\ NoMerge'
  BY <1>1 DEF BatchMapped, NoMerge
<1> QED BY <1>1, <1>2, <1>3 DEF TruthInv, Located, LandmarksNear, ScanTrue, NoDuplicate

\* No step parts the map from the track.
LEMMA NextTruth ==
    ASSUME EkfInv, TruthInv, [Next]_ekfVars
    PROVE  TruthInv'
<1>1. CASE Motion
  BY <1>1, PredictTruth DEF Motion
<1>2. CASE NewScan
  BY <1>2, UpdateTruth DEF NewScan
<1>3. CASE UpdateStep
  BY <1>3, ObservationTruth, EndOfScanTruth, JointUpdateTruth DEF UpdateStep
<1>4. CASE setFirstLapCompleted
  BY <1>4, SetFirstLapTruth
<1>5. CASE UNCHANGED ekfVars
  <2>1. UNCHANGED <<car, mirror, obs, batch, origin, landmark_count, is_first_lap_completed>>
    BY <1>5 DEF ekfVars
  <2>2. BatchMapped' /\ NoDuplicate' /\ NoMerge' /\ Mapped' = Mapped /\ (Lost' <=> Lost)
    BY <2>1, MapKept
  <2> QED BY <2>1, <2>2 DEF TruthInv, Located, LandmarksNear, ScanTrue
<1> QED BY <1>1, <1>2, <1>3, <1>4, <1>5 DEF Next

\* Every landmark is near the cone it was made for, one for each.
THEOREM EkfTruth == Spec => []TruthInv
<1>1. Init => TruthInv
  BY InitTruth
<1>2. EkfInv /\ TruthInv /\ [Next]_ekfVars => TruthInv'
  BY NextTruth
<1> QED BY <1>1, <1>2, EkfInvariant, PTL DEF Spec

\* No cone is mapped twice, on any track whose cones and errors the configured
\* floor fits, however far pose_sigma grows.
THEOREM EkfNoDuplicate == Spec => []NoDuplicate
<1>1. TruthInv => NoDuplicate
  BY DEF TruthInv
<1> QED BY <1>1, EkfTruth, PTL

\* No observation is fused with another cone's landmark.
THEOREM EkfNoMerge == Spec => []NoMerge
<1>1. TruthInv => NoMerge
  BY DEF TruthInv
<1> QED BY <1>1, EkfTruth, PTL

-----------------------------------------------------------------------------
(* Recognition *)

\* The candidate for an observation of a mapped cone is its own landmark, within
\* twice the error.
LEMMA CandidateIsOwn ==
    ASSUME EkfInv, TruthInv, Associating, GateFits, IsMapped(Head(obs).cone),
           NEW k \in Slots, Candidate(k, tmp_cone(Head(obs)))
    PROVE  /\ ~Lost /\ k \in Mapped /\ origin[k] = Head(obs).cone
           /\ Distance(k, tmp_cone(Head(obs))) \in Nat
           /\ Distance(k, tmp_cone(Head(obs))) <= 2 * PoseError
<1> DEFINE o == Head(obs)
<1>1. PICK j \in Mapped : origin[j] = o.cone
  BY DEF IsMapped
<1>2. ~Lost /\ landmark_count # 0
  BY SlotFacts DEF Lost, Mapped
<1>3. k \in Mapped /\ Distance(k, tmp_cone(o)) <= Distance(j, tmp_cone(o))
  BY <1>2, CandidateNearest
<1>4. /\ Distance(j, tmp_cone(o)) \in Nat /\ Distance(j, tmp_cone(o)) <= 2 * PoseError
      /\ Distance(k, tmp_cone(o)) \in Nat
      /\ Abs(ConeAt[origin[k]] - ConeAt[o.cone]) \in Nat
      /\ Abs(ConeAt[origin[k]] - ConeAt[o.cone]) - 2 * PoseError <= Distance(k, tmp_cone(o))
      /\ o.cone \in Cones /\ origin[k] \in Cones
  BY <1>1, <1>2, <1>3, ObservedDistance
<1>5. origin[k] # o.cone
        => Abs(ConeAt[origin[k]] - ConeAt[o.cone]) - 2 * PoseError > 2 * PoseError
  BY <1>4 DEF GateFits, GapOver
<1> HIDE DEF o
<1>6. Distance(k, tmp_cone(o)) <= 2 * PoseError
  BY <1>3, <1>4, Numbers
<1>7. origin[k] = o.cone
  BY <1>4, <1>5, <1>6, Numbers
<1> QED BY <1>2, <1>3, <1>4, <1>6, <1>7 DEF o

\* MahaCovers: what is within twice the error passes the gate, whatever sigma is.
LEMMA OwnPassesGate ==
    ASSUME EkfInv, MahaCovers, NEW k, NEW p, Distance(k, p) \in Nat,
           Distance(k, p) <= 2 * PoseError
    PROVE  ~FailsGate(k, p)
<1> DEFINE d == Distance(k, p)
           gate == MahaGate * (mirror.sigma * mirror.sigma + MeasNoise)
<1>1. MahaGate * MeasNoise <= gate /\ gate \in Nat /\ MahaGate * MeasNoise \in Nat
  BY GateBounds, Numbers
<1>2. d * d <= (2 * PoseError) * (2 * PoseError)
  BY Squares, Numbers
<1>3. (2 * PoseError) * (2 * PoseError) = 4 * PoseError * PoseError
  BY Numbers
<1>4. 4 * PoseError * PoseError <= MahaGate * MeasNoise
  BY DEF MahaCovers
<1>5. d * d \in Nat /\ 4 * PoseError * PoseError \in Nat
  BY Numbers
<1>6. FailsGate(k, p) <=> d * d > gate
  BY DEF FailsGate
<1> HIDE DEF d, gate
<1> QED BY <1>1, <1>2, <1>3, <1>4, <1>5, <1>6

\* A mapped cone that is seen joins the batch with its own landmark.
LEMMA ObservationRecognised ==
    ASSUME EkfInv, TruthInv, processObservation, GateFits, MahaCovers,
           ~isOrange(Head(obs)), IsMapped(Head(obs).cone)
    PROVE  \E k \in Mapped : /\ origin[k] = Head(obs).cone
                            /\ [k |-> k, cone |-> Head(obs).cone] \in batch'
<1> DEFINE o == Head(obs)
<1>1. PICK k \in Slots : considered(o, k)
  BY DEF processObservation, skipOrange
<1>2. Associating /\ Candidate(k, tmp_cone(o))
  BY <1>1 DEF processObservation, considered
<1>3. /\ k \in Mapped /\ origin[k] = o.cone
      /\ Distance(k, tmp_cone(o)) \in Nat /\ Distance(k, tmp_cone(o)) <= 2 * PoseError
  BY <1>2, CandidateIsOwn
<1>4. ~gateDrop(o, k)
  BY <1>3, OwnPassesGate DEF gateDrop
<1>5. ~IsNew(o, k)
  BY <1>2, <1>3, NewIsUnmapped
<1>6. associate(o, k)
  BY <1>1, <1>4, <1>5 DEF considered, gatePass, existing, full, newCone
<1>7. [k |-> k, cone |-> o.cone] \in batch'
  BY <1>6 DEF associate
<1> QED BY <1>3, <1>7

\* So does every step that looks at an observation.
LEMMA NextRecognised ==
    ASSUME EkfInv, TruthInv, Next
    PROVE  RecognisedStep
<1> SUFFICES ASSUME GateFits, MahaCovers, Associating, ~isOrange(Head(obs)),
                    IsMapped(Head(obs).cone)
             PROVE  \E k \in Mapped : /\ origin[k] = Head(obs).cone
                                     /\ [k |-> k, cone |-> Head(obs).cone] \in batch'
  BY DEF RecognisedStep
<1>1. pc = "associate" /\ obs # << >>
  BY DEF Associating
<1>2. ~Motion /\ ~NewScan /\ ~setFirstLapCompleted
  BY <1>1 DEF Motion, predict, NewScan, update, setFirstLapCompleted
<1>3. ~endOfScan /\ ~jointUpdate
  BY <1>1 DEF endOfScan, leaveLoop, jointUpdate, fullState, fullStateFailed, rigid, fused
<1>4. processObservation
  BY <1>2, <1>3 DEF Next, UpdateStep
<1> QED BY <1>4, ObservationRecognised

\* A cone in the map is fused with its own landmark whenever it is seen, in any lap
\* and with a map that is full.
THEOREM EkfRecognised == Spec => Recognised
<1>1. EkfInv /\ TruthInv /\ [Next]_ekfVars => [RecognisedStep]_ekfVars
  BY NextRecognised
<1> QED BY <1>1, EkfInvariant, EkfTruth, PTL DEF Spec, Recognised

\* What the comment on the cap leaves out is the error of the estimates: where the
\* spacing leaves room for that too, no two cones are merged in lap 1, however far P
\* diverges.
THEOREM EkfNeverMerged == Spec => [](GateFits => NeverMerged)
<1>1. TruthInv => (GateFits => NeverMerged)
  BY DEF TruthInv, BatchMapped, Lost, NoMerge, NeverMerged
<1> QED BY <1>1, EkfTruth, PTL

-----------------------------------------------------------------------------
(* update() ends *)

\* The order of the numbers, as the relation the library's theorems speak of.
LessNat == {pair \in Nat \X Nat : pair[1] < pair[2]}

LEMMA LessNatWellFounded == IsWellFoundedOn(LessNat, Nat)
  BY NatLessThanWellFounded DEF OpToRel, LessNat

\* A set of numbers has a least one.
LEMMA LeastNumber ==
    ASSUME NEW T \in SUBSET Nat, T # {}
    PROVE  \E m \in T : \A n \in T : m <= n
<1>1. \A n \in T : n \in Nat
  OBVIOUS
<1>2. PICK m \in T : \A n \in T : <<n, m>> \notin LessNat
  BY LessNatWellFounded, WFMin
<1>3. \A n \in T : ~(n < m)
  BY <1>1, <1>2 DEF LessNat
<1> QED BY <1>1, <1>3

\* The loop over the landmarks leaves exactly one index in k, however many are
\* equally near.
LEMMA NearestIsUnique ==
    ASSUME EkfInv, NEW p \in Int
    PROVE  \E k \in Slots : Candidate(k, p) /\ \A j \in Slots : Candidate(j, p) => j = k
<1>1. CASE landmark_count = 0
  BY <1>1, SlotFacts DEF Candidate
<1>2. CASE landmark_count # 0
  <2>1. /\ Mapped \subseteq Slots /\ Mapped \subseteq Nat /\ Mapped # {}
        /\ \A k \in Mapped : Distance(k, p) \in Nat
    <3>1. landmark_count \in 0..N_CONES /\ mirror.lm \in [Slots -> Int]
      BY DEF EkfInv, TypeOK, State
    <3>2. 0 \in Mapped /\ Mapped \subseteq Slots
      BY <1>2, <3>1, SlotFacts DEF Mapped, Slots
    <3>3. \A k \in Slots : mirror.lm[k] - p \in Int
      BY <3>1
    <3> QED BY <3>2, <3>3, SlotFacts DEF Distance, Abs
  <2> DEFINE distances == {Distance(j, p) : j \in Mapped}
  <2>2. PICK d \in distances : \A e \in distances : d <= e
    <3>1. distances \in SUBSET Nat /\ distances # {}
      BY <2>1
    <3> HIDE DEF distances
    <3> QED BY <3>1, LeastNumber
  <2> DEFINE nearest == {j \in Mapped : Distance(j, p) = d}
  <2>3. PICK k \in nearest : \A j \in nearest : k <= j
    <3>1. nearest \in SUBSET Nat /\ nearest # {}
      BY <2>1
    <3> HIDE DEF nearest
    <3> QED BY <3>1, LeastNumber
  <2>4. IsNearest(k, p)
    <3> SUFFICES ASSUME NEW j \in Mapped
                 PROVE  /\ Distance(k, p) <= Distance(j, p)
                        /\ j < k => Distance(k, p) < Distance(j, p)
      BY DEF IsNearest
    <3>1. d <= Distance(j, p) /\ Distance(k, p) = d
      BY <2>2
    <3>2. j < k => Distance(j, p) # d
      BY <2>1, <2>3
    <3> QED BY <2>1, <3>1, <3>2
  <2>5. ASSUME NEW j \in Mapped, IsNearest(j, p) PROVE j = k
    <3>1. j \in Nat /\ k \in Nat /\ k \in Mapped
          /\ Distance(j, p) \in Nat /\ Distance(k, p) \in Nat
      BY <2>1
    <3> QED BY <2>4, <2>5, <3>1 DEF IsNearest
  <2> QED BY <1>2, <2>1, <2>4, <2>5 DEF Candidate, IsNearest
<1> QED BY <1>1, <1>2

\* Every observation is decided, and in one way: the association loop is never stuck
\* and leaves nothing open, whatever the distances.
Decided == Associating => \E k \in Slots :
              /\ Candidate(k, tmp_cone(Head(obs)))
              /\ \A j \in Slots : Candidate(j, tmp_cone(Head(obs))) => j = k

THEOREM EkfDecided == Spec => []Decided
<1>1. EkfInv => Decided
  <2> SUFFICES ASSUME EkfInv, Associating
               PROVE  \E k \in Slots : /\ Candidate(k, tmp_cone(Head(obs)))
                                       /\ \A j \in Slots : Candidate(j, tmp_cone(Head(obs))) => j = k
    BY DEF Decided
  <2>1. Head(obs) \in ScanRecord /\ mirror.pose \in Int
    BY TailOfScan DEF Associating, EkfInv, TypeOK, State
  <2>2. tmp_cone(Head(obs)) \in Int
    BY <2>1 DEF tmp_cone, ScanRecord
  <2> QED BY <2>2, NearestIsUnique
<1> QED BY <1>1, EkfInvariant, PTL

\* The steps a call of update() may still take.
Remaining == CASE pc = "associate" -> Len(obs) + 2 [] pc = "fuse" -> 1 [] OTHER -> 0

\* Each step of update() leaves fewer of them: a call ends after at most one step per
\* observation and two more.
Advances == Remaining \in Nat /\ (UpdateStep => Remaining' < Remaining)

THEOREM EkfReturns == Spec => [][Advances]_ekfVars
<1>1. EkfInv => Advances
  <2> SUFFICES ASSUME EkfInv PROVE Advances
    OBVIOUS
  <2>1. obs \in Seq(ScanRecord) /\ Len(obs) \in Nat /\ pc \in {"idle", "associate", "fuse"}
    BY DEF EkfInv, TypeOK, ScanRecord
  <2>2. ASSUME processObservation PROVE Remaining' < Remaining
    <3>1. pc = "associate" /\ obs # << >>
      BY <2>2 DEF processObservation, Associating
    <3>2. obs' = Tail(obs) /\ pc' = "associate"
      BY <2>2, <3>1 DEF processObservation, skipOrange, considered, gateDrop, gatePass,
         existing, full, newCone, drop, associate, allocate
    <3>3. Len(obs') = Len(obs) - 1
      BY <2>1, <3>1, <3>2
    <3> QED BY <2>1, <3>1, <3>2, <3>3 DEF Remaining
  <2>3. ASSUME endOfScan PROVE Remaining' < Remaining
    <3>1. pc = "associate" /\ pc' \in {"idle", "fuse"}
      BY <2>3 DEF endOfScan, leaveLoop
    <3> QED BY <2>1, <3>1 DEF Remaining
  <2>4. ASSUME jointUpdate PROVE Remaining' < Remaining
    <3>1. pc = "fuse" /\ pc' = "idle"
      BY <2>4 DEF jointUpdate, fullState, fullStateFailed, rigid, fused
    <3> QED BY <3>1 DEF Remaining
  <2> QED BY <2>1, <2>2, <2>3, <2>4 DEF Advances, UpdateStep, Remaining
<1> QED BY <1>1, EkfInvariant, PTL DEF Spec
=============================================================================
