---------------------------- MODULE OdometryPath ----------------------------
(***************************************************************************)
(* The path a FAST-LIMO message takes through the node                     *)
(* (fastLimoDataCallback): LimoMotionAdapter turns it into an increment,   *)
(* the command queue holds it for the late-arrival window, the filter      *)
(* predicts with it, and OdometryPublisher publishes the filter's pose and *)
(* the correction track -> odom.  conesCallback corrects the filter in     *)
(* between.  The timer of the TF callback group re-broadcasts the last     *)
(* correction from the executor's second thread; what the two threads share*)
(* is last_tf_.  A callback is split where it drains, and where publish()  *)
(* takes the lock and where it has written last_tf_ and releases it.       *)
(***************************************************************************)
EXTENDS Integers, Sequences, PlanarPose

CONSTANTS
    gate_on_limo_calibration,
    Window,         \* late_arrival_window_ns, in LIMO periods
    ConfiguredFrame,\* input_odom_frame_id and output_child_frame_id, empty when
    ConfiguredChild,\* they are left to be inherited
    tf_from_timer,  \* tf_republish_hz > 0
    NaN,            \* a pose with a component that is not finite
    Moves,          \* environment: the motion of the car in a LIMO period,
    Anchors,        \* the poses LIMO can come out of a calibration with,
    Covariances,    \* the variances it reports once calibrated,
    FrameIds,       \* the frame ids and child frame ids of its messages,
    ChildIds,
    Shifts,         \* what a cone update can do to the filter's pose,
    Glitches,       \* whether LIMO may publish NaN,
    MaxRestarts,    \* how often LIMO restarts,
    MaxFrames,      \* bound on the number of LIMO messages
    MaxUpdates      \* bound on the number of cone scans

ASSUME PathAssumption ==
    /\ {gate_on_limo_calibration, tf_from_timer, Glitches} \subseteq BOOLEAN
    /\ {Window, MaxRestarts, MaxFrames, MaxUpdates} \subseteq Nat
    /\ NaN \notin Pose
    /\ {ConfiguredFrame, ConfiguredChild} \cup FrameIds \cup ChildIds \subseteq STRING
    /\ Moves \subseteq Pose /\ Anchors \subseteq Pose /\ Shifts \subseteq Pose
    /\ Covariances \subseteq Nat \ {0}

VARIABLES
    limo,         \* FAST-LIMO: its pose, whether it is calibrated, restarts
    adapter,      \* LimoMotionAdapter: prev_pose_, prev_cov_, its two latches
    queue,        \* the buffered commands, oldest first
    newest,       \* newest_: the stamp of the newest LIMO message, in periods.
                  \* (The few that push nothing come before anything is pushed
                  \* with a stamp above 0, and find nothing to drain.)
    updates,      \* number of cone scans so far
    ekf,          \* the filter's pose
    P,            \* and its variance
    frames,       \* odom_frame_id_ and child_frame_id_ of the publisher, and
                  \* child_frame_resolved_
    last_tf,      \* last_tf_, as a set: empty until have_tf_
    copy,         \* the copy of last_tf_ the timer callback has taken, as a set:
                  \* empty when none is in progress
    sent,         \* the transform broadcast last, as a set
    odom,         \* the pose published last, as a set
    computed,     \* history: the corrections publish() has computed
    pc,           \* the subscription callback in progress; "store" is the LIMO one
                  \* while publish() holds tf_mutex_
    msg,          \* the LIMO message received last
    reanchored,   \* history: since the last publish() a scan was fused or the
                  \* motion reference was seeded
    reference     \* history: the kind of frame prev_pose_ was taken from

filterVars == <<ekf, P>>
outVars == <<frames, last_tf, copy, sent, odom, computed>>
pathVars == <<limo, adapter, queue, newest, updates, filterVars, outVars, pc, msg,
              reanchored, reference>>

isFinite(p) == p # NaN

Init == /\ limo = [pose |-> Origin, calibrated |-> FALSE, restarts |-> 0]
        /\ adapter = [prev_pose |-> Origin, prev_cov |-> 0, initialized |-> FALSE,
                      calibrated |-> ~gate_on_limo_calibration]
        /\ queue = << >>
        /\ newest = 0
        /\ updates = 0
        /\ ekf = Origin
        /\ P = 1
        /\ frames = [odom |-> ConfiguredFrame, child |-> ConfiguredChild, resolved |-> FALSE]
        /\ last_tf = {}
        /\ copy = {}
        /\ sent = {}
        /\ odom = {}
        /\ computed = {}
        /\ pc = "idle"
        /\ msg = [pose |-> Origin, cov |-> 0, frame |-> "", child |-> ""]
        /\ reanchored = FALSE
        /\ reference = "none"

-----------------------------------------------------------------------------
(* FAST-LIMO: the messages it may publish next *)

wrapped(p) == [p EXCEPT !.h = normalizeAngle(@)]

\* While it calibrates: literal defaults, whatever the car does.
Calibrating(pose, cov) ==
    ~limo.calibrated /\ pose = Origin /\ cov = 0 /\ UNCHANGED limo

CalibrationEnds(pose, cov) ==
    /\ ~limo.calibrated
    /\ pose \in Anchors /\ cov \in Covariances
    /\ limo' = [limo EXCEPT !.pose = pose, !.calibrated = TRUE]

Tracking(pose, cov) ==
    /\ limo.calibrated
    /\ \E k \in Moves : pose = wrapped(move(limo.pose, k))
    /\ cov \in Covariances
    /\ limo' = [limo EXCEPT !.pose = pose]

Glitch(pose, cov) ==
    Glitches /\ limo.calibrated /\ pose = NaN /\ cov \in Covariances /\ UNCHANGED limo

Publishes(pose, cov) == \/ Calibrating(pose, cov) \/ CalibrationEnds(pose, cov)
                        \/ Tracking(pose, cov) \/ Glitch(pose, cov)

NextPoses == Anchors \cup {Origin, NaN} \cup {wrapped(move(limo.pose, k)) : k \in Moves}

\* LIMO is restarted: it calibrates again, and starts from another anchor.
LimoRestarts == /\ limo.calibrated /\ limo.restarts < MaxRestarts
                /\ limo' = [pose |-> Origin, calibrated |-> FALSE,
                            restarts |-> limo.restarts + 1]
                /\ UNCHANGED <<adapter, queue, newest, updates, filterVars, outVars, pc, msg,
                               reanchored, reference>>

-----------------------------------------------------------------------------
(* LimoMotionAdapter *)

isUncalibratedFrame(m) == m.pose = Origin /\ m.cov = 0

\* Mutant of Dropped: every frame is consumed.
DroppedNever(m) == FALSE

Dropped(m) == ~adapter.calibrated /\ isUncalibratedFrame(m)

\* Mutant of covIncrement: not clamped.
covDifference(m) == m.cov - adapter.prev_cov

\* LIMO's variance counts only when it grows.
covIncrement(m) == IF m.cov > adapter.prev_cov THEN m.cov - adapter.prev_cov ELSE 0

motion(m) == [delta |-> IF isFinite(adapter.prev_pose) /\ isFinite(m.pose)
                          THEN increment(adapter.prev_pose, m.pose) ELSE NaN,
              cov |-> covIncrement(m)]

\* convert(), and the push of the increment it returns: none for a frame of the
\* calibration, none for the first one after it, which is only the reference.
convert(m) ==
    \/ /\ Dropped(m)
       /\ UNCHANGED <<adapter, queue, reference, reanchored>>
    \/ /\ ~Dropped(m)
       /\ adapter' = [prev_pose |-> m.pose, prev_cov |-> m.cov,
                      initialized |-> TRUE, calibrated |-> TRUE]
       /\ reference' = IF isUncalibratedFrame(m) THEN "placeholder" ELSE "real"
       /\ queue' = IF adapter.initialized
                     THEN Append(queue, [kind |-> "Predict", stamp |-> newest', inc |-> motion(m)])
                     ELSE queue
       /\ reanchored' = (reanchored \/ ~adapter.initialized)

-----------------------------------------------------------------------------
(* The callbacks *)

\* Mutant of resolveFrames: the parent follows every message.
resolveEachTime(m) ==
    frames' = [odom |-> IF m.frame # "" THEN m.frame ELSE frames.odom,
               child |-> frames.child, resolved |-> frames.resolved]

\* The child frame is inherited from the first message, the TF parent from the
\* first one that names it, unless they are configured.
resolveFrames(m) ==
    frames' = [odom |-> IF frames.odom = "" THEN m.frame ELSE frames.odom,
               child |-> IF ConfiguredChild = "" /\ ~frames.resolved THEN m.child
                                                                     ELSE frames.child,
               resolved |-> ConfiguredChild = ""]

fastLimoDataCallback(m) ==
    /\ pc = "idle"
    /\ newest < MaxFrames
    /\ newest' = newest + 1
    /\ Publishes(m.pose, m.cov)
    /\ resolveFrames(m)
    /\ convert(m)
    /\ pc' = "limo"
    /\ msg' = m
    /\ UNCHANGED <<updates, filterVars, last_tf, copy, sent, odom, computed>>

\* Mutant of Gated: scans are taken from the start.
GatedNever == FALSE

Gated == gate_on_limo_calibration /\ ~adapter.calibrated

\* A scan that arrives before LIMO is calibrated is dropped.
conesCallback ==
    /\ pc = "idle"
    /\ updates < MaxUpdates
    /\ updates' = updates + 1
    /\ IF Gated THEN UNCHANGED <<queue, pc>>
       ELSE /\ queue' = Append(queue, [kind |-> "Update", stamp |-> newest])
            /\ pc' = "cones"
    /\ UNCHANGED <<limo, adapter, newest, filterVars, outVars, msg, reanchored, reference>>

\* Mutant of Horizon: one period short.
HorizonShort == IF newest > Window + 1 THEN newest - Window - 1 ELSE 0

Horizon == IF newest > Window THEN newest - Window ELSE 0
Ready == queue # << >> /\ Head(queue).stamp <= Horizon

\* Mutant of drainPredict: LIMO's variance replaces the filter's.
drainPredictAbsolute ==
    /\ pc \in {"limo", "cones"} /\ Ready /\ Head(queue).kind = "Predict"
    /\ LET inc == Head(queue).inc
       IN  /\ ekf' = IF isFinite(ekf) /\ isFinite(inc.delta) THEN move(ekf, inc.delta) ELSE NaN
           /\ P' = inc.cov
    /\ queue' = Tail(queue)
    /\ UNCHANGED <<limo, adapter, newest, updates, outVars, pc, msg, reanchored, reference>>

\* EKFOdom::predict with the first command of the queue.
drainPredict ==
    /\ pc \in {"limo", "cones"} /\ Ready /\ Head(queue).kind = "Predict"
    /\ LET inc == Head(queue).inc
       IN  /\ ekf' = IF isFinite(ekf) /\ isFinite(inc.delta) THEN move(ekf, inc.delta) ELSE NaN
           /\ P' = P + inc.cov
    /\ queue' = Tail(queue)
    /\ UNCHANGED <<limo, adapter, newest, updates, outVars, pc, msg, reanchored, reference>>

\* EKFOdom::update: the cones shift the pose and shrink its variance.
drainUpdate(shift, shrunk) ==
    /\ pc \in {"limo", "cones"} /\ Ready /\ Head(queue).kind = "Update"
    /\ ekf' = IF isFinite(ekf) THEN move(ekf, shift) ELSE NaN
    /\ P' = shrunk
    /\ reanchored' = TRUE
    /\ queue' = Tail(queue)
    /\ UNCHANGED <<limo, adapter, newest, updates, outVars, pc, msg, reference>>

transform == [edge |-> IF isFinite(ekf) /\ isFinite(msg.pose) THEN correction(ekf, msg.pose)
                                                              ELSE NaN,
              child |-> frames.odom]

\* Mutant of Publishable: only the message is looked at.
PublishableUnlookedAt == isFinite(msg.pose)

Publishable == isFinite(ekf) /\ isFinite(msg.pose)
Stores == Publishable /\ frames.odom # ""

\* OdometryPublisher::publish, at the end of the LIMO callback.  When there is a
\* correction to store it takes tf_mutex_ first.
lockTf == /\ pc = "limo" /\ ~Ready /\ Stores
          /\ pc' = "store"
          /\ UNCHANGED <<limo, adapter, queue, newest, updates, filterVars, outVars, msg,
                         reanchored, reference>>

\* It stores the correction, releases the lock, and sends what it has to send.
publish ==
    /\ pc = (IF Stores THEN "store" ELSE "limo") /\ ~Ready
    /\ pc' = "idle"
    /\ odom' = IF Publishable THEN {ekf} ELSE odom
    /\ last_tf' = IF Stores THEN {transform} ELSE last_tf
    /\ computed' = IF Stores THEN computed \cup {transform} ELSE computed
    /\ sent' = IF Stores /\ ~tf_from_timer THEN {transform} ELSE sent
    /\ reanchored' = (reanchored /\ ~Publishable)
    /\ UNCHANGED <<limo, adapter, queue, newest, updates, filterVars, frames, copy, msg, reference>>

conesReturn == /\ pc = "cones" /\ ~Ready
               /\ pc' = "idle"
               /\ UNCHANGED <<limo, adapter, queue, newest, updates, filterVars, outVars, msg,
                              reanchored, reference>>

\* Mutant of Locked: the timer does not take tf_mutex_.
LockedNever == FALSE

Locked == pc = "store"

\* A read of last_tf_ that overlaps the write of publish() can return the rotation of
\* one correction with the translation of the other.
Torn == {[edge |-> [t.edge EXCEPT !.h = u.edge.h], child |-> t.child] :
            t \in last_tf \cup {transform}, u \in last_tf \cup {transform}}

Seen == IF pc = "store" THEN Torn ELSE last_tf

\* The timer, on the second thread, whatever the first one is doing: it copies
\* last_tf_ under the lock, and sends the copy without.
republishTf == /\ tf_from_timer /\ ~Locked
               /\ last_tf # {} /\ copy = {}
               /\ \E t \in Seen : copy' = {t}
               /\ UNCHANGED <<limo, adapter, queue, newest, updates, filterVars, frames, last_tf,
                              sent, odom, computed, pc, msg, reanchored, reference>>

sendTransform == /\ copy # {}
                 /\ sent' = copy
                 /\ copy' = {}
                 /\ UNCHANGED <<limo, adapter, queue, newest, updates, filterVars, frames, last_tf,
                                odom, computed, pc, msg, reanchored, reference>>

Limo == \E pose \in NextPoses, cov \in Covariances \cup {0}, f \in FrameIds, c \in ChildIds :
            fastLimoDataCallback([pose |-> pose, cov |-> cov, frame |-> f, child |-> c])
Cones == \E shift \in Shifts, shrunk \in 0..P : drainUpdate(shift, shrunk)

\* All the messages of the run are in, and what is left idles.
Quiet == pc = "idle" /\ newest = MaxFrames /\ UNCHANGED pathVars

Next == \/ Limo \/ conesCallback
        \/ drainPredict \/ Cones \/ lockTf \/ publish \/ conesReturn
        \/ LimoRestarts \/ republishTf \/ sendTransform \/ Quiet

Spec == Init /\ [][Next]_pathVars

-----------------------------------------------------------------------------
(* Properties *)

PoseOrNaN == Pose \cup {NaN}
Transform == [edge : PoseOrNaN, child : STRING]
Increment == [delta : PoseOrNaN, cov : Nat]
IsCommand(c) == \/ c \in [kind : {"Predict"}, stamp : 0..newest, inc : Increment]
                \/ c \in [kind : {"Update"}, stamp : 0..newest]
TypeOK == /\ limo.pose \in Pose /\ limo.calibrated \in BOOLEAN
          /\ adapter.prev_pose \in PoseOrNaN /\ adapter.prev_cov \in Nat
          /\ \A i \in DOMAIN queue : IsCommand(queue[i])
          /\ newest \in 0..MaxFrames /\ updates \in 0..MaxUpdates
          /\ ekf \in PoseOrNaN /\ P \in Nat
          /\ last_tf \cup copy \cup sent \cup computed \subseteq Transform
          /\ odom \subseteq PoseOrNaN
          /\ pc \in {"idle", "limo", "store", "cones"}

\* "between two cone updates ... the correction is genuinely piecewise constant"
\* (odometry_publisher.hpp:183-186): unless a scan was fused or the reference
\* seeded since the last publish(), a LIMO message leaves the transform as it
\* is, however the car moves and turns.
PiecewiseConstant == [][last_tf # {} /\ ~reanchored => last_tf' = last_tf]_pathVars

\* Before LIMO is calibrated nothing reaches the filter: no motion, no scan.
\* The first real frame is only a reference.
NothingBeforeCalibration ==
    gate_on_limo_calibration /\ ~adapter.initialized =>
        /\ ekf = Origin /\ P = 1
        /\ \A i \in DOMAIN queue : queue[i].kind = "Update" => adapter.calibrated

\* What LIMO publishes while it calibrates is never consumed as odometry, "a
\* runtime change or a LIMO restart" included (limo_motion_adapter.hpp:76-83).
PlaceholderDropped == gate_on_limo_calibration => reference # "placeholder"

\* What the latch of the adapter does promise: no frame of LIMO's first
\* calibration is ever the reference an increment is taken from.
FirstPlaceholderDropped == limo.restarts = 0 => PlaceholderDropped

\* Whatever LIMO publishes, and whatever the filter has come to, no transform
\* and no odometry that is not finite leaves the node.
OnlyFinite == /\ \A t \in last_tf \cup sent : isFinite(t.edge)
              /\ \A p \in odom : isFinite(p)

\* "Only ever publishes a correction that was computed as a MATCHED PAIR in publish()"
\* (odometry_publisher.hpp:201-202): wherever in a callback the timer fires, what it
\* copies and sends is one whole correction, never parts of two.
OnlyComputed == last_tf \cup copy \cup sent \subseteq computed

\* The tree below track does not change its shape: the transform keeps the child
\* it was first broadcast with, whatever the messages after it are named.
TreeStable == [][\A t \in sent, u \in sent' : t.child = u.child]_pathVars

\* "odom_in must be the same measurement the filter was just updated with, which
\* it is" (odometry_publisher.hpp:58-60): when publish() reads the filter, no
\* increment of the message is left in the queue.
MatchedPair == pc = "limo" /\ ~Ready => \A i \in DOMAIN queue : queue[i].kind # "Predict"

\* LIMO's own relocalisation never makes the filter more certain: predict() does
\* not shrink the variance.
MotionKeepsVariance ==
    [][queue # << >> /\ Head(queue).kind = "Predict" /\ queue' = Tail(queue)
         => P' >= P]_pathVars

\* "Re-stamping it asserts 'this correction is still current', which is true"
\* (odometry_publisher.hpp:187-188): what the timer takes between two callbacks
\* is the correction of the filter's pose with respect to the last LIMO pose.
CurrentStep == republishTf /\ pc = "idle" /\ isFinite(ekf) /\ isFinite(msg.pose)
                 => \A t \in copy' : SamePose(t.edge, correction(ekf, msg.pose))
CurrentWhenRestamped == [][CurrentStep]_pathVars
=============================================================================
