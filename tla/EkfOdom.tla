------------------------------ MODULE EkfOdom -------------------------------
(***************************************************************************)
(* EKFOdom (ekf_odom.cpp): predict(), and update() as the steps it takes:  *)
(* one per observation of the scan (data association), then the joint      *)
(* update of what was associated.                                          *)
(*                                                                         *)
(* Space is a line.  The state the filter estimates is the car's position  *)
(* on it and the landmarks' ; an observation of cone c is the signed range *)
(* from the true position of the car to the cone.  What the Kalman gain    *)
(* computes is left open: a joint update leaves the estimates anywhere     *)
(* within PoseError of the truth, and the association logic is checked     *)
(* against every such outcome.  pose_sigma is the standard deviation the   *)
(* gates read from P_pose_.                                                *)
(***************************************************************************)
EXTENDS Integers, Sequences, FiniteSets, ColorLogic, EkfBackend

CONSTANTS
    Cones,            \* the cones of the track
    ConeAt,           \* [Cones -> Int], where they stand
    Track,            \* the positions the car can be at
    PoseError,        \* bound on the error of the estimates
    MaxSigma,         \* bound on pose_sigma
    Floor,            \* max_new_cone_dist
    SigmaScale,       \* new_cone_sigma_scale_
    Cap,              \* new_cone_dist_cap_
    MahaGate,         \* assoc_maha_gate_
    MeasNoise,        \* R_, the variance of a range
    freeze_map,       \* freeze_map_
    ScanColors,       \* the colour ids scans carry
    MaxScan,          \* bound on the observations of a scan
    MaxScans          \* bound on the number of scans

NoCone == "no cone"

ASSUME EkfAssumption ==
    /\ ConeAt \in [Cones -> Int] /\ NoCone \notin Cones
    /\ Track \subseteq Int
    /\ {PoseError, MaxSigma, Floor, SigmaScale, Cap, MahaGate, MeasNoise} \subseteq Nat
    /\ MaxSigma > 0
    /\ freeze_map \in BOOLEAN
    /\ ScanColors \subseteq Classified
    /\ MaxScan \in Nat /\ MaxScans \in Nat

VARIABLES
    car,          \* the truth: where the car is
    mirror,       \* host mirrors: x_ (pose and landmark means) and P_pose_
    backend,      \* the same, in the backend that owns the state
    landmark_count,
    s,            \* the colour votes of the landmarks
    is_first_lap_completed,
    assoc_stats,  \* AssocStats
    pc,           \* the step update() is at, "idle" when it is not running
    obs,          \* the observations of the scan still to be associated
    batch,        \* batch_obs: the associations of this scan
    origin,       \* history: the cone a landmark was created from
    seen,         \* history: how often a landmark has been associated
    scans         \* history: number of scans

ekfVars == <<car, mirror, backend, landmark_count, s, is_first_lap_completed,
             assoc_stats, pc, obs, batch, origin, seen, scans>>

Mapped == 0..(landmark_count - 1)
Abs(n) == IF n < 0 THEN -n ELSE n
Near(p, q) == Abs(p - q) <= PoseError
Around(p) == (p - PoseError)..(p + PoseError)
AllPoses == UNION {Around(p) : p \in Track}

Observation == [cone : Cones, range : Int, color : ScanColors]
NoStats == [observed |-> 0, associated |-> 0, created |-> 0,
            dropped_gate |-> 0, dropped_full |-> 0]

Init == /\ car \in Track \cap Around(0)
        /\ mirror = created
        /\ backend = created
        /\ landmark_count = 0
        /\ s = [k \in Slots |-> NoVotes]
        /\ is_first_lap_completed = FALSE
        /\ assoc_stats = NoStats
        /\ pc = "idle"
        /\ obs = << >>
        /\ batch = {}
        /\ origin = [k \in Slots |-> NoCone]
        /\ seen = [k \in Slots |-> 0]
        /\ scans = 0

-----------------------------------------------------------------------------
(* The radii and gates of data association *)

\* Mutants of new_cone_radius: uncertainty narrows it; no cap.
narrowing_radius(sigma) == Floor - SigmaScale * sigma
uncapped_radius(sigma) == Floor + SigmaScale * sigma

\* new_cone_radius: the floor widened by the uncertainty and capped; a cap
\* below the floor yields to it.
new_cone_radius(sigma) ==
    LET widened == Floor + SigmaScale * sigma
        capped == IF widened > Cap THEN Cap ELSE widened
    IN  IF capped < Floor THEN Floor ELSE capped

\* Where the observation lands when projected through the current pose.
tmp_cone(o) == mirror.pose + o.range

Distance(k, p) == Abs(mirror.lm[k] - p)

\* The nearest neighbour; of equally near ones, the first.
IsNearest(k, p) ==
    /\ k \in Mapped
    /\ \A j \in Mapped : /\ Distance(k, p) <= Distance(j, p)
                         /\ j < k => Distance(k, p) < Distance(j, p)

\* The index the loop over the landmarks leaves in k: 0 if there is none.
Candidate(k, p) == IF landmark_count = 0 THEN k = 0 ELSE IsNearest(k, p)

\* Mutant of FailsGate: S without the measurement noise.
FailsNoiselessGate(k, p) ==
    Distance(k, p) * Distance(k, p) > MahaGate * mirror.sigma * mirror.sigma

\* The Mahalanobis gate, d2 > assoc_maha_gate_ with S = P + R.
FailsGate(k, p) ==
    Distance(k, p) * Distance(k, p)
        > MahaGate * (mirror.sigma * mirror.sigma + MeasNoise)

-----------------------------------------------------------------------------
(* predict *)

\* The mirrors refreshed from a backend state: of the landmarks, the mapped.
syncFromBackend(b) ==
    [b EXCEPT !.lm = downloadLandmarks(b, landmark_count, mirror.lm)]

\* The car moves and LIMO reports the increment, off by its drift.  Motion
\* noise and the rotation of the covariance leave pose_sigma anywhere.
predict(move, drift, sigma) ==
    /\ pc = "idle"
    /\ car + move \in Track
    /\ backend.pose + move + drift \in AllPoses
    /\ Near(backend.pose, car) => Near(backend.pose + move + drift, car + move)
    /\ car' = car + move
    /\ backend' = motionPropagate(backend, move + drift, sigma)
    /\ mirror' = syncFromBackend(backend')
    /\ UNCHANGED <<landmark_count, s, is_first_lap_completed, assoc_stats, pc,
                   obs, batch, origin, seen, scans>>

-----------------------------------------------------------------------------
(* update: the association loop *)

\* A scan: what the car sees of the cones from where it is.
Scans == UNION {[1..n -> {o \in [cone : Cones, range : {ConeAt[c] - car : c \in Cones},
                                 color : ScanColors] :
                              o.range = ConeAt[o.cone] - car}] : n \in 0..MaxScan}

\* Mutant of update: the diagnostics of the previous scan are kept.
updateKeepingStats(scan) ==
    /\ pc = "idle"
    /\ scans < MaxScans
    /\ obs' = scan
    /\ batch' = {}
    /\ pc' = "associate"
    /\ scans' = scans + 1
    /\ UNCHANGED <<car, mirror, backend, landmark_count, s, assoc_stats,
                   is_first_lap_completed, origin, seen>>

update(scan) ==
    /\ pc = "idle"
    /\ scans < MaxScans
    /\ obs' = scan
    /\ batch' = {}
    /\ assoc_stats' = NoStats
    /\ pc' = "associate"
    /\ scans' = scans + 1
    /\ UNCHANGED <<car, mirror, backend, landmark_count, s,
                   is_first_lap_completed, origin, seen>>

Associating == pc = "associate" /\ obs # << >>
isOrange(o) == o.color \in {orangeCone, orangeBigCone}

\* Orange cones are discarded before they are counted.
skipOrange(o) ==
    /\ isOrange(o)
    /\ obs' = Tail(obs)
    /\ UNCHANGED <<car, mirror, backend, landmark_count, s, is_first_lap_completed,
                   assoc_stats, pc, batch, origin, seen, scans>>

counted(outcome) == [assoc_stats EXCEPT !.observed = @ + 1, ![outcome] = @ + 1]

\* A drop: nothing but the diagnostics is left of the observation.
drop(outcome) ==
    /\ assoc_stats' = counted(outcome)
    /\ obs' = Tail(obs)
    /\ UNCHANGED <<car, mirror, backend, landmark_count, s, is_first_lap_completed,
                   pc, batch, origin, seen, scans>>

\* Mutant of associate: a sighting that contradicts the colour starts the votes
\* again.
associateRecounting(o, k) ==
    /\ s' = [s EXCEPT ![k] = setColor(IF o.color = getConeColorAndCount(@).color
                                        THEN @ ELSE NoVotes, o.color)]
    /\ seen' = [seen EXCEPT ![k] = @ + 1]
    /\ assoc_stats' = counted("associated")
    /\ batch' = batch \cup {[k |-> k, cone |-> o.cone]}
    /\ obs' = Tail(obs)
    /\ UNCHANGED <<car, mirror, backend, landmark_count, is_first_lap_completed,
                   pc, origin, scans>>

\* The observation is fused with landmark k, and votes for its colour.
associate(o, k) ==
    /\ s' = [s EXCEPT ![k] = setColor(@, o.color)]
    /\ seen' = [seen EXCEPT ![k] = @ + 1]
    /\ assoc_stats' = counted("associated")
    /\ batch' = batch \cup {[k |-> k, cone |-> o.cone]}
    /\ obs' = Tail(obs)
    /\ UNCHANGED <<car, mirror, backend, landmark_count, is_first_lap_completed,
                   pc, origin, scans>>

\* Lap 2+: the nearest landmark, if the observation passes its gate.
gateDrop(o, k) == /\ is_first_lap_completed
                  /\ FailsGate(k, tmp_cone(o))
                  /\ drop("dropped_gate")

gatePass(o, k) == /\ is_first_lap_completed
                  /\ ~FailsGate(k, tmp_cone(o))
                  /\ associate(o, k)

\* Lap 1: a cone further than the radius from every landmark is new.
IsNew(o, k) ==
    /\ ~is_first_lap_completed
    /\ landmark_count = 0 \/ new_cone_radius(mirror.sigma) < Distance(k, tmp_cone(o))

existing(o, k) == /\ ~is_first_lap_completed
                  /\ ~IsNew(o, k)
                  /\ associate(o, k)

\* Mutant of full: a full map drops the known cones too.
fullIsBlind(o, k) == /\ ~is_first_lap_completed
                     /\ landmark_count >= N_CONES
                     /\ drop("dropped_full")

full(o, k) == /\ IsNew(o, k)
              /\ landmark_count >= N_CONES
              /\ drop("dropped_full")

allocate(o) ==
    /\ landmark_count' = landmark_count + 1
    /\ mirror' = [mirror EXCEPT !.lm[landmark_count] = tmp_cone(o)]
    /\ backend' = insertLandmark(backend, landmark_count, tmp_cone(o))
    /\ s' = [s EXCEPT ![landmark_count] = setColor(NoVotes, o.color)]
    /\ origin' = [origin EXCEPT ![landmark_count] = o.cone]
    /\ seen' = [seen EXCEPT ![landmark_count] = 1]
    /\ assoc_stats' = [counted("associated") EXCEPT !.created = @ + 1]
    /\ batch' = batch \cup {[k |-> landmark_count, cone |-> o.cone]}
    /\ obs' = Tail(obs)
    /\ UNCHANGED <<car, is_first_lap_completed, pc, scans>>

\* Mutant of newCone: no capacity check.
newConeUnchecked(o, k) == IsNew(o, k) /\ allocate(o)

newCone(o, k) == IsNew(o, k) /\ landmark_count < N_CONES /\ allocate(o)

considered(o, k) ==
    /\ ~isOrange(o)
    /\ Candidate(k, tmp_cone(o))
    /\ gateDrop(o, k) \/ gatePass(o, k) \/ existing(o, k) \/ full(o, k) \/ newCone(o, k)

processObservation ==
    /\ Associating
    /\ skipOrange(Head(obs)) \/ \E k \in Slots : considered(Head(obs), k)

leaveLoop(next) ==
    /\ pc = "associate"
    /\ obs = << >>
    /\ pc' = next
    /\ UNCHANGED <<car, mirror, backend, landmark_count, s, is_first_lap_completed,
                   assoc_stats, obs, batch, origin, seen, scans>>

\* Mutant of endOfScan: nothing to fuse, no return.
endOfScanStuck == leaveLoop(IF batch = {} THEN "associate" ELSE "fuse")

\* The loop is over: an empty batch returns, the rest goes to the joint update.
endOfScan == leaveLoop(IF batch = {} THEN "idle" ELSE "fuse")

-----------------------------------------------------------------------------
(* update: the joint update *)

\* A landmark that was never mapped is where x_ was initialised, at the origin,
\* and past the last column of the full-state Jacobian: what the joint update
\* makes of an association with it can be anything.
OutOfMap == \E a \in batch : a.k \notin Mapped
Posteriors == IF OutOfMap THEN AllPoses ELSE Around(car)

\* Mutant of rigidMap: the parameter is inverted.
rigidUnlessFrozen == is_first_lap_completed /\ ~freeze_map

rigidMap == is_first_lap_completed /\ freeze_map

fused == /\ pc = "fuse"
         /\ pc' = "idle"
         /\ batch' = {}
         /\ UNCHANGED <<car, landmark_count, s, is_first_lap_completed, assoc_stats,
                        obs, origin, seen, scans>>

\* The mapped landmarks, off by these errors.
Estimated(errors) ==
    [k \in Slots |-> IF k \in Mapped THEN ConeAt[origin[k]] + errors[k] ELSE 0]

\* Full state: the backend moves the pose and every mapped landmark, and the
\* mirrors follow.
fullState(pose, errors, sigma) ==
    /\ fused
    /\ ~rigidMap
    /\ pose \in Posteriors
    /\ sigma <= backend.sigma
    /\ backend' = batchUpdateFullState(backend, landmark_count, pose, Estimated(errors), sigma)
    /\ mirror' = syncFromBackend(backend')

\* The backend fails and, as its interface says, leaves its state unchanged.
fullStateFailed == /\ fused
                   /\ ~rigidMap
                   /\ mirror' = syncFromBackend(backend)
                   /\ UNCHANGED backend

\* Mutant of rigid: the corrected pose is not uploaded.
rigidHostOnly(pose, sigma) ==
    /\ fused
    /\ rigidMap
    /\ pose \in Posteriors
    /\ sigma <= mirror.sigma
    /\ mirror' = [mirror EXCEPT !.pose = pose, !.sigma = sigma]
    /\ backend' = uploadPoseBlock3x3(backend, sigma)

\* Rigid map: the host corrects the pose and its covariance, and uploads both.
rigid(pose, sigma) ==
    /\ fused
    /\ rigidMap
    /\ pose \in Posteriors
    /\ sigma <= mirror.sigma
    /\ mirror' = [mirror EXCEPT !.pose = pose, !.sigma = sigma]
    /\ backend' = uploadPoseBlock3x3(uploadPose3(backend, pose), sigma)

\* setFirstLapCompleted(true), from the map publisher.
setFirstLapCompleted ==
    /\ pc = "idle"
    /\ is_first_lap_completed' = TRUE
    /\ UNCHANGED <<car, mirror, backend, landmark_count, s, assoc_stats, pc, obs,
                   batch, origin, seen, scans>>

-----------------------------------------------------------------------------

Errors == -PoseError..PoseError
Moves == {p - q : p, q \in Track}
Sigmas == 0..MaxSigma

jointUpdate ==
    \/ \E pose \in AllPoses, errors \in [Slots -> Errors], sigma \in Sigmas :
            fullState(pose, errors, sigma)
    \/ fullStateFailed
    \/ \E pose \in AllPoses, sigma \in Sigmas : rigid(pose, sigma)

Motion == \E move \in Moves, drift \in Errors, sigma \in Sigmas : predict(move, drift, sigma)
NewScan == \E scan \in Scans : update(scan)

\* The steps of a call of update() in progress.
UpdateStep == processObservation \/ endOfScan \/ jointUpdate

Next == Motion \/ NewScan \/ UpdateStep \/ setFirstLapCompleted

Spec == Init /\ [][Next]_ekfVars

-----------------------------------------------------------------------------
(* Properties *)

State == [pose : Int, lm : [Slots -> Int], sigma : Sigmas]
TypeOK == /\ car \in Track
          /\ mirror \in State /\ backend \in State
          /\ landmark_count \in 0..N_CONES
          /\ s \in [Slots -> [ColorIds -> Nat]]
          /\ is_first_lap_completed \in BOOLEAN
          /\ assoc_stats \in [observed : Nat, associated : Nat, created : Nat,
                              dropped_gate : Nat, dropped_full : Nat]
          /\ pc \in {"idle", "associate", "fuse"}
          /\ obs \in Seq([cone : Cones, range : Int, color : ScanColors])
          /\ batch \subseteq [k : Slots, cone : Cones]
          /\ origin \in [Slots -> Cones \cup {NoCone}]
          /\ seen \in [Slots -> Nat]
          /\ scans \in 0..MaxScans

\* What the configured distances must satisfy for association to be right: the
\* floor covers the error of an observation of a mapped cone, and no radius or
\* gate reaches from one cone to the next.
WidestRadius == IF Cap < Floor THEN Floor ELSE Cap
GapOver(d) == \A c1, c2 \in Cones : c1 # c2 => Abs(ConeAt[c1] - ConeAt[c2]) - 2 * PoseError > d
GateFits ==
    /\ 2 * PoseError <= Floor
    /\ GapOver(WidestRadius) /\ GapOver(2 * PoseError)

\* No cone is mapped twice: the runaway new_cone_sigma_scale_ exists to prevent
\* (ekf_odom.hpp:63-79).
NoDuplicate ==
    GateFits => \A j, k \in Mapped : j # k => origin[j] # origin[k]

\* Every association of a scan is with the landmark of the cone that was seen.
\* In lap 2+ this needs the Mahalanobis gate to fit between two cones as well.
MahaFits == \A c1, c2 \in Cones :
    c1 # c2 => LET d == Abs(ConeAt[c1] - ConeAt[c2]) - 2 * PoseError
               IN  d * d > MahaGate * (MaxSigma * MaxSigma + MeasNoise)
NoMerge ==
    GateFits /\ (is_first_lap_completed => MahaFits)
        => \A a \in batch : a.k \in Mapped => origin[a.k] = a.cone

\* A mapped cone is recognised whenever it is seen: its observation is never
\* gated out, dropped for a full map or taken for a new cone.
MahaCovers == 4 * PoseError * PoseError <= MahaGate * MeasNoise
IsMapped(c) == \E k \in Mapped : origin[k] = c
RecognisedStep ==
    LET c == Head(obs).cone
    IN  GateFits /\ MahaCovers /\ Associating /\ obs' = Tail(obs)
            /\ ~isOrange(Head(obs)) /\ IsMapped(c)
            => \E k \in Mapped : origin[k] = c /\ [k |-> k, cone |-> c] \in batch'
Recognised == [][RecognisedStep]_ekfVars

\* The diagnostics account for every observation that was considered, and the
\* landmarks created are the ones the map grew by.
Ledger ==
    /\ assoc_stats.observed = assoc_stats.associated + assoc_stats.dropped_gate
                                + assoc_stats.dropped_full
    /\ assoc_stats.created <= assoc_stats.associated
    /\ is_first_lap_completed /\ pc # "idle" => assoc_stats.created + assoc_stats.dropped_full = 0

\* The mirrors association and publishing read are the backend's state.
MirrorCoherent ==
    /\ mirror.pose = backend.pose /\ mirror.sigma = backend.sigma
    /\ \A k \in Mapped : mirror.lm[k] = backend.lm[k]

\* After lap 1 the map neither grows nor shrinks, and with freeze_map no
\* landmark moves, whatever is observed.
FrozenMap ==
    [][is_first_lap_completed =>
         /\ landmark_count' = landmark_count /\ is_first_lap_completed'
         /\ freeze_map => mirror'.lm = mirror.lm /\ backend'.lm = backend.lm]_ekfVars

\* "The cap keeps it below the physical cone spacing so a diverged P can never
\* merge two distinct cones" (ekf_odom.hpp:74-76).
CapBelowSpacing ==
    \A c1, c2 \in Cones : c1 # c2 => WidestRadius < Abs(ConeAt[c1] - ConeAt[c2])
NeverMerged ==
    CapBelowSpacing /\ ~is_first_lap_completed
        => \A a \in batch : origin[a.k] = a.cone
=============================================================================
