------------------------- MODULE OdometryPathProofs -------------------------
(***************************************************************************)
(* What leaves the node on the odometry path, for every motion of the car, *)
(* every fault of FAST-LIMO the model allows and any number of messages.   *)
(* The heart of the last part is that the reference of the next increment  *)
(* is always the pose the last correction was computed from; the algebra   *)
(* of MotionKeepsCorrection does the rest.                                 *)
(***************************************************************************)
EXTENDS OdometryPath, TLAPS

-----------------------------------------------------------------------------
(* Planar poses *)

\* The node wraps its angles in three places, each in a way of its own:
\* LimoMotionAdapter into half turns, EKFOdom into full turns, and the publisher not
\* at all.  That they agree, for every pose and every number of turns driven, is what
\* makes the transform track -> odom independent of the motion.

\* Wrapping an increment keeps the heading and brings it within half a turn.
LEMMA normalizeAngleWraps ==
    ASSUME NEW a \in Int
    PROVE  /\ normalizeAngle(a) \in -2..2
           /\ normalizeAngle(a) % 4 = a % 4
  BY SMTT(30) DEF normalizeAngle

\* Wrapping the filter's heading keeps it and brings it within a full turn.
LEMMA normalizeYawWraps ==
    ASSUME NEW a \in Int
    PROVE  /\ normalizeYaw(a) \in -4..4
           /\ normalizeYaw(a) % 4 = a % 4
  BY SMTT(30) DEF normalizeYaw

\* Headings that agree up to full turns can be exchanged in a sum.
LEMMA SumModTurn ==
    ASSUME NEW a \in Int, NEW b \in Int, NEW c \in Int, NEW d \in Int,
           a % 4 = b % 4, c % 4 = d % 4
    PROVE  /\ (a + c) % 4 = (b + d) % 4
           /\ (a - c) % 4 = (b - d) % 4
  BY SMTT(30)

\* Sine and cosine do not tell full turns apart.
LEMMA TrigPeriod ==
    ASSUME NEW a \in Int, NEW b \in Int, a % 4 = b % 4
    PROVE  Cos(a) = Cos(b) /\ Sin(a) = Sin(b)
  BY DEF Cos, Sin

\* A heading is one of the four quarter turns.
LEMMA QuarterTurns ==
    ASSUME NEW a \in Int
    PROVE  \/ a % 4 = 0 /\ Cos(a) = 1 /\ Sin(a) = 0
           \/ a % 4 = 1 /\ Cos(a) = 0 /\ Sin(a) = 1
           \/ a % 4 = 2 /\ Cos(a) = -1 /\ Sin(a) = 0
           \/ a % 4 = 3 /\ Cos(a) = 0 /\ Sin(a) = -1
  BY DEF Cos, Sin

\* The sine and cosine of a difference of two headings.
LEMMA TrigDifference ==
    ASSUME NEW a \in Int, NEW b \in Int
    PROVE  /\ Cos(a - b) = Cos(a) * Cos(b) + Sin(a) * Sin(b)
           /\ Sin(a - b) = Sin(a) * Cos(b) - Cos(a) * Sin(b)
<1>1. (a - b) % 4 = ((a % 4) - (b % 4)) % 4
  BY SumModTurn
<1>2. ASSUME a % 4 \in 0..3, b % 4 \in 0..3,
             NEW i \in 0..3, NEW j \in 0..3, a % 4 = i, b % 4 = j
      PROVE  /\ Cos(a - b) = Cos(a) * Cos(b) + Sin(a) * Sin(b)
             /\ Sin(a - b) = Sin(a) * Cos(b) - Cos(a) * Sin(b)
  BY <1>1, <1>2, SMTT(30) DEF Cos, Sin
<1> QED BY <1>2

\* What the node computes from poses are poses.
LEMMA PosesClosed ==
    ASSUME NEW p \in Pose, NEW q \in Pose
    PROVE  /\ increment(p, q) \in Pose
           /\ move(p, q) \in Pose
           /\ correction(p, q) \in Pose
<1>1. \A a \in Int : Cos(a) \in Int /\ Sin(a) \in Int
  BY DEF Cos, Sin
<1>2. \A a \in Int : normalizeAngle(a) \in Int /\ normalizeYaw(a) \in Int
  BY normalizeAngleWraps, normalizeYawWraps
<1>3. /\ p.x \in Int /\ p.y \in Int /\ p.h \in Int
      /\ q.x \in Int /\ q.y \in Int /\ q.h \in Int
      /\ p.h - q.h \in Int /\ q.h - p.h \in Int /\ p.h + q.h \in Int
  BY DEF Pose
<1>4. increment(p, q) \in Pose
  BY <1>1, <1>2, <1>3 DEF Pose, increment
<1>5. move(p, q) \in Pose
  BY <1>1, <1>2, <1>3 DEF Pose, move
<1>6. correction(p, q) \in Pose
  BY <1>1, <1>3 DEF Pose, correction
<1> QED BY <1>4, <1>5, <1>6

-----------------------------------------------------------------------------

\* The correction carries LIMO's pose onto the filter's: a listener that
\* composes track -> odom with LIMO's odom -> base gets the corrected pose.
THEOREM CorrectionMeetsFilter ==
    ASSUME NEW c \in Pose, NEW l \in Pose
    PROVE  SamePose(move(correction(c, l), l), c)
<1> DEFINE yaw == c.h - l.h
           t == correction(c, l)
<1>1. /\ c.x \in Int /\ c.y \in Int /\ c.h \in Int
      /\ l.x \in Int /\ l.y \in Int /\ l.h \in Int /\ yaw \in Int
  BY DEF Pose
<1>2. /\ t.h \in Int /\ t.h % 4 = yaw % 4
      /\ Cos(t.h) = Cos(yaw) /\ Sin(t.h) = Sin(yaw)
  <2>1. t.h = yaw % 4
    BY DEF correction
  <2>2. t.h \in Int /\ t.h % 4 = yaw % 4
    BY <1>1, <2>1
  <2> QED BY <1>1, <2>2, TrigPeriod
<1>3. (normalizeYaw(t.h + l.h)) % 4 = c.h % 4
  <2>1. (t.h + l.h) % 4 = (yaw + l.h) % 4
    BY <1>1, <1>2, SumModTurn
  <2> QED BY <1>1, <1>2, <2>1, normalizeYawWraps
<1>4. move(t, l).x = c.x /\ move(t, l).y = c.y
  <2>1. /\ t.x = c.x - (l.x * Cos(yaw) - l.y * Sin(yaw))
        /\ t.y = c.y - (l.x * Sin(yaw) + l.y * Cos(yaw))
    BY DEF correction
  <2>2. /\ move(t, l).x = t.x + Cos(yaw) * l.x - Sin(yaw) * l.y
        /\ move(t, l).y = t.y + Sin(yaw) * l.x + Cos(yaw) * l.y
    BY <1>2 DEF move
  <2> HIDE DEF yaw, t
  <2> QED BY <1>1, <2>1, <2>2, QuarterTurns
<1> QED BY <1>3, <1>4 DEF SamePose, move

\* Motion does not change the correction: however far the car drives and turns
\* from l to m, predicting with the increment and correcting for the new LIMO
\* pose gives the transform of before.
THEOREM MotionKeepsCorrection ==
    ASSUME NEW c \in Pose, NEW l \in Pose, NEW m \in Pose
    PROVE  correction(move(c, increment(l, m)), m) = correction(c, l)
<1> DEFINE k == increment(l, m)
           d == move(c, k)
           before == c.h - l.h
           after == d.h - m.h
<1>1. /\ c.x \in Int /\ c.y \in Int /\ c.h \in Int
      /\ l.x \in Int /\ l.y \in Int /\ l.h \in Int
      /\ m.x \in Int /\ m.y \in Int /\ m.h \in Int
      /\ k \in Pose /\ d \in Pose
  BY PosesClosed DEF Pose
<1>2. d.h \in Int /\ before \in Int /\ after \in Int /\ k.h \in Int
  BY <1>1 DEF Pose
<1>3. after % 4 = before % 4
  <2>1. k.h % 4 = (m.h - l.h) % 4
    BY <1>1, normalizeAngleWraps DEF increment
  <2>2. d.h % 4 = (c.h + k.h) % 4
    BY <1>1, <1>2, normalizeYawWraps DEF move
  <2>3. (c.h + k.h) % 4 = (c.h + (m.h - l.h)) % 4
    BY <1>1, <1>2, <2>1, SumModTurn
  <2>4. (d.h - m.h) % 4 = ((c.h + (m.h - l.h)) - m.h) % 4
    BY <1>1, <1>2, <2>2, <2>3, SumModTurn
  <2>5. (c.h + (m.h - l.h)) - m.h = c.h - l.h
    BY <1>1
  <2> QED BY <2>4, <2>5
<1>4. Cos(after) = Cos(before) /\ Sin(after) = Sin(before)
  BY <1>2, <1>3, TrigPeriod
<1>5. /\ k.x = Cos(l.h) * (m.x - l.x) + Sin(l.h) * (m.y - l.y)
      /\ k.y = Cos(l.h) * (m.y - l.y) - Sin(l.h) * (m.x - l.x)
  BY DEF increment
<1>6. /\ d.x = c.x + Cos(c.h) * k.x - Sin(c.h) * k.y
      /\ d.y = c.y + Sin(c.h) * k.x + Cos(c.h) * k.y
  BY DEF move
<1>7. /\ Cos(before) = Cos(c.h) * Cos(l.h) + Sin(c.h) * Sin(l.h)
      /\ Sin(before) = Sin(c.h) * Cos(l.h) - Cos(c.h) * Sin(l.h)
  BY <1>1, TrigDifference
<1>8. /\ d.x - (m.x * Cos(before) - m.y * Sin(before))
           = c.x - (l.x * Cos(before) - l.y * Sin(before))
      /\ d.y - (m.x * Sin(before) + m.y * Cos(before))
           = c.y - (l.x * Sin(before) + l.y * Cos(before))
  <2> HIDE DEF before, d, k
  <2> QED BY <1>1, <1>5, <1>6, <1>7, QuarterTurns, SMTT(60)
<1> QED BY <1>3, <1>4, <1>8 DEF correction

-----------------------------------------------------------------------------
(* The odometry path *)

Commands == [kind : {"Predict"}, stamp : 0..newest, inc : Increment]
              \cup [kind : {"Update"}, stamp : 0..newest]

Message == [pose : PoseOrNaN, cov : Nat, frame : STRING, child : STRING]

\* The types, with those of the records TypeOK only looks into.
Types ==
    /\ limo \in [pose : Pose, calibrated : BOOLEAN, restarts : Nat]
    /\ adapter \in [prev_pose : PoseOrNaN, prev_cov : Nat, initialized : BOOLEAN,
                    calibrated : BOOLEAN]
    /\ queue \in Seq(Commands)
    /\ newest \in 0..MaxFrames
    /\ updates \in 0..MaxUpdates
    /\ ekf \in PoseOrNaN
    /\ P \in Nat
    /\ frames \in [odom : STRING, child : STRING, resolved : BOOLEAN]
    /\ last_tf \subseteq Transform
    /\ copy \subseteq Transform
    /\ sent \subseteq Transform
    /\ computed \subseteq Transform
    /\ odom \subseteq PoseOrNaN
    /\ pc \in {"idle", "limo", "store", "cones"}
    /\ msg.pose \in PoseOrNaN
    /\ reanchored \in BOOLEAN

\* The first frame that is consumed opens the calibration gate and is the first
\* reference; until then nothing has happened to the filter.
Closed ==
    gate_on_limo_calibration =>
        /\ adapter.calibrated = adapter.initialized
        /\ ~adapter.initialized => ekf = Origin /\ P = 1 /\ queue = << >>

\* All transforms out have the child frame of the publisher, which has a name.
Named == \A t \in last_tf \cup copy \cup sent : t.child = frames.odom /\ t.child # ""

\* What the timer has copied is as finite as what it was copied from.
CopyFinite == \A t \in copy : isFinite(t.edge)

\* The reference of the next increment is the pose of the last message, whether
\* it was consumed or dropped.
ReferenceIsLast ==
    /\ adapter.prev_pose = msg.pose
    /\ ~adapter.initialized => adapter.prev_pose = Origin
    /\ ~gate_on_limo_calibration => adapter.calibrated

PathInv == Types /\ Closed /\ Named /\ OnlyFinite /\ CopyFinite /\ ReferenceIsLast

-----------------------------------------------------------------------------
(* Steps *)

\* What is finite is a pose.
LEMMA FiniteIsPose ==
    ASSUME NEW p \in PoseOrNaN, isFinite(p)
    PROVE  p \in Pose
  BY DEF PoseOrNaN, isFinite

\* The transform of a finite message has the filter's child frame.
LEMMA TransformTyped ==
    ASSUME Types
    PROVE  /\ transform \in Transform
           /\ transform.child = frames.odom
           /\ isFinite(ekf) /\ isFinite(msg.pose)
                => transform.edge = correction(ekf, msg.pose) /\ isFinite(transform.edge)
<1>1. frames.odom \in STRING /\ ekf \in PoseOrNaN /\ msg.pose \in PoseOrNaN
  BY DEF Types, Message
<1>2. isFinite(ekf) /\ isFinite(msg.pose) => correction(ekf, msg.pose) \in Pose
  BY <1>1, FiniteIsPose, PosesClosed
<1>3. transform.edge \in PoseOrNaN
  BY <1>2 DEF transform, PoseOrNaN
<1>4. \A p \in Pose : isFinite(p)
  BY PathAssumption DEF isFinite
<1> QED BY <1>1, <1>2, <1>3, <1>4 DEF transform, Transform

\* What FAST-LIMO publishes is a message, and leaves its state one.
LEMMA PublishesTyped ==
    ASSUME Types, NEW pose, NEW cov, Publishes(pose, cov)
    PROVE  /\ pose \in PoseOrNaN /\ cov \in Nat
           /\ limo' \in [pose : Pose, calibrated : BOOLEAN, restarts : Nat]
<1>1. Origin \in Pose /\ limo.pose \in Pose
  BY DEF Origin, Pose, Types
<1>2. \A k \in Moves : wrapped(move(limo.pose, k)) \in Pose
  <2> SUFFICES ASSUME NEW k \in Moves PROVE wrapped(move(limo.pose, k)) \in Pose
    OBVIOUS
  <2>1. move(limo.pose, k) \in Pose
    BY <1>1, PosesClosed, PathAssumption
  <2>2. move(limo.pose, k).h \in Int
    BY <2>1 DEF Pose
  <2>3. normalizeAngle(move(limo.pose, k).h) \in Int
    BY <2>2, normalizeAngleWraps
  <2> HIDE DEF move
  <2> QED BY <2>1, <2>3 DEF wrapped, Pose
<1>3. CASE Calibrating(pose, cov)
  BY <1>1, <1>3 DEF Calibrating, PoseOrNaN, Types
<1>4. CASE CalibrationEnds(pose, cov)
  BY <1>4, PathAssumption DEF CalibrationEnds, PoseOrNaN, Types
<1>5. CASE Tracking(pose, cov)
  BY <1>2, <1>5, PathAssumption DEF Tracking, PoseOrNaN, Types
<1>6. CASE Glitch(pose, cov)
  BY <1>6, PathAssumption DEF Glitch, PoseOrNaN, Types
<1> QED BY <1>3, <1>4, <1>5, <1>6 DEF Publishes

\* The increment of a message is finite exactly when both its poses are.
LEMMA MotionTyped ==
    ASSUME Types, NEW m \in Message
    PROVE  /\ motion(m) \in Increment
           /\ isFinite(motion(m).delta) => isFinite(adapter.prev_pose) /\ isFinite(m.pose)
           /\ isFinite(adapter.prev_pose) /\ isFinite(m.pose)
                => motion(m).delta = increment(adapter.prev_pose, m.pose)
<1>1. adapter.prev_pose \in PoseOrNaN /\ adapter.prev_cov \in Nat
      /\ m.pose \in PoseOrNaN /\ m.cov \in Nat
  BY DEF Types, Message
<1>2. covIncrement(m) \in Nat
  BY <1>1 DEF covIncrement
<1>3. isFinite(adapter.prev_pose) /\ isFinite(m.pose)
        => increment(adapter.prev_pose, m.pose) \in Pose
  BY <1>1, FiniteIsPose, PosesClosed
<1> QED BY <1>2, <1>3 DEF motion, Increment, PoseOrNaN, isFinite

\* A message brings its callback as far as the drain: the adapter has taken it
\* as the next reference, or dropped it, and its increment is in the queue.
LEMMA LimoStep ==
    ASSUME PathInv, NEW m, fastLimoDataCallback(m),
           m.frame \in STRING, m.child \in STRING,
           m = [pose |-> m.pose, cov |-> m.cov, frame |-> m.frame, child |-> m.child]
    PROVE  PathInv' /\ m \in Message
<1>1. m \in Message /\ limo' \in [pose : Pose, calibrated : BOOLEAN, restarts : Nat]
  BY PublishesTyped DEF PathInv, fastLimoDataCallback, Message
<1>2. /\ newest' = newest + 1 /\ newest' \in 0..MaxFrames /\ newest \in Nat
      /\ pc' = "limo" /\ msg' = m
      /\ UNCHANGED <<updates, ekf, P, last_tf, copy, sent, odom, computed>>
      /\ convert(m) /\ resolveFrames(m)
  BY PathAssumption DEF fastLimoDataCallback, PathInv, Types, filterVars
<1>3. /\ frames' \in [odom : STRING, child : STRING, resolved : BOOLEAN]
      /\ frames.odom # "" => frames'.odom = frames.odom
  BY <1>2, PathAssumption DEF resolveFrames, PathInv, Types
<1>4. queue \in Seq(Commands')
  <2>1. Commands \subseteq Commands'
    BY <1>2 DEF Commands
  <2> QED BY <2>1 DEF PathInv, Types
<1>5. CASE Dropped(m)
  <2>1. UNCHANGED <<adapter, queue, reference, reanchored>>
    BY <1>2, <1>5 DEF convert
  <2>2. Types'
    BY <1>1, <1>2, <1>3, <1>4, <2>1
       DEF PathInv, Types, Message, Transform, PoseOrNaN
  <2>3. m.pose = Origin /\ adapter.prev_pose = Origin
    BY <1>5 DEF Dropped, isUncalibratedFrame, PathInv, ReferenceIsLast, Closed
  <2> QED BY <1>1, <1>2, <1>3, <2>1, <2>2, <2>3
          DEF PathInv, Closed, Named, OnlyFinite, CopyFinite, ReferenceIsLast
<1>6. CASE ~Dropped(m)
  <2>1. /\ adapter' = [prev_pose |-> m.pose, prev_cov |-> m.cov,
                       initialized |-> TRUE, calibrated |-> TRUE]
        /\ queue' = IF adapter.initialized
                      THEN Append(queue, [kind |-> "Predict", stamp |-> newest', inc |-> motion(m)])
                      ELSE queue
        /\ reanchored' = (reanchored \/ ~adapter.initialized)
    BY <1>2, <1>6 DEF convert
  <2>2. queue' \in Seq(Commands')
    <3>1. [kind |-> "Predict", stamp |-> newest', inc |-> motion(m)] \in Commands'
      <4>1. motion(m) \in Increment /\ newest' \in 0..newest'
        BY <1>1, <1>2, MotionTyped DEF PathInv
      <4>2. Increment' = Increment
        BY DEF Increment, PoseOrNaN
      <4> HIDE DEF motion, Increment
      <4> QED BY <4>1, <4>2 DEF Commands
    <3> QED BY <1>4, <2>1, <3>1
  <2>3. Types'
    BY <1>1, <1>2, <1>3, <2>1, <2>2
       DEF PathInv, Types, Message, Transform, PoseOrNaN
  <2> QED BY <1>1, <1>2, <1>3, <2>1, <2>3
          DEF PathInv, Closed, Named, OnlyFinite, CopyFinite, ReferenceIsLast
<1> QED BY <1>1, <1>5, <1>6

\* A scan is queued, or dropped at the gate.
LEMMA ScanStep == PathInv /\ conesCallback => PathInv'
<1> SUFFICES ASSUME PathInv, conesCallback PROVE PathInv'
  OBVIOUS
<1>1. /\ updates' = updates + 1 /\ updates' \in 0..MaxUpdates
      /\ UNCHANGED <<limo, adapter, newest, filterVars, outVars, msg, reanchored>>
      /\ pc' \in {"idle", "limo", "store", "cones"}
  BY PathAssumption DEF conesCallback, PathInv, Types
<1>2. queue' \in Seq(Commands)
  <2>1. [kind |-> "Update", stamp |-> newest] \in Commands
    BY PathAssumption DEF PathInv, Types, Commands
  <2>2. queue' \in {queue, Append(queue, [kind |-> "Update", stamp |-> newest])}
    BY DEF conesCallback
  <2>3. queue \in Seq(Commands)
    BY DEF PathInv, Types
  <2> QED BY <2>1, <2>2, <2>3
<1>3. Closed'
  BY <1>1 DEF conesCallback, Gated, PathInv, Closed, filterVars
<1>4. Types'
  <2>1. Commands' = Commands
    BY <1>1 DEF Commands
  <2> QED BY <1>1, <1>2, <2>1
          DEF PathInv, Types, Message, Transform, PoseOrNaN, filterVars, outVars
<1> QED BY <1>1, <1>3, <1>4 DEF PathInv, Named, OnlyFinite, CopyFinite, ReferenceIsLast, outVars

\* A turn of the drain loop: only the filter and the queue change.
LEMMA DrainStep ==
    ASSUME PathInv,
           drainPredict \/ \E shift \in Shifts, shrunk \in 0..P : drainUpdate(shift, shrunk)
    PROVE  PathInv'
<1>1. /\ queue # << >> /\ queue' = Tail(queue)
      /\ UNCHANGED <<limo, adapter, newest, updates, outVars, pc, msg>>
  BY DEF drainPredict, drainUpdate, Ready
<1>2. /\ queue' \in Seq(Commands') /\ Head(queue) \in Commands
      /\ reanchored' \in BOOLEAN
  <2>1. Commands' = Commands
    BY <1>1 DEF Commands
  <2>2. queue \in Seq(Commands)
    BY DEF PathInv, Types
  <2>3. Tail(queue) \in Seq(Commands) /\ Head(queue) \in Commands
    BY <1>1, <2>2
  <2>4. reanchored' \in BOOLEAN
    BY DEF PathInv, Types, drainPredict, drainUpdate
  <2> QED BY <1>1, <2>1, <2>3, <2>4
<1>3. ekf' \in PoseOrNaN /\ P' \in Nat
  <2>1. CASE drainPredict
    <3> DEFINE inc == Head(queue).inc
    <3>1. inc \in Increment
      BY <1>2, <2>1 DEF drainPredict, Commands
    <3>2. inc.delta \in PoseOrNaN /\ inc.cov \in Nat
      BY <3>1 DEF Increment
    <3>3. isFinite(ekf) /\ isFinite(inc.delta) => move(ekf, inc.delta) \in Pose
      BY <3>2, FiniteIsPose, PosesClosed DEF PathInv, Types
    <3> HIDE DEF inc
    <3> QED BY <2>1, <3>2, <3>3 DEF drainPredict, inc, PathInv, Types, PoseOrNaN
  <2>2. ASSUME NEW shift \in Shifts, NEW shrunk \in 0..P, drainUpdate(shift, shrunk)
        PROVE  ekf' \in PoseOrNaN /\ P' \in Nat
    <3>1. isFinite(ekf) => move(ekf, shift) \in Pose
      BY FiniteIsPose, PosesClosed, PathAssumption DEF PathInv, Types
    <3> QED BY <2>2, <3>1 DEF drainUpdate, PathInv, Types, PoseOrNaN
  <2> QED BY <2>1, <2>2
<1>4. Types'
  BY <1>1, <1>2, <1>3 DEF PathInv, Types, Message, Transform, PoseOrNaN, outVars
<1> QED BY <1>1, <1>4 DEF PathInv, Closed, Named, OnlyFinite, CopyFinite, ReferenceIsLast, outVars

\* The end of the LIMO callback: a pose goes out only if both are finite, a
\* transform only with a name.
LEMMA PublishStep == PathInv /\ publish => PathInv'
<1> SUFFICES ASSUME PathInv, publish PROVE PathInv'
  OBVIOUS
<1> DEFINE finite == isFinite(ekf) /\ isFinite(msg.pose)
<1>1. /\ pc' = "idle"
      /\ odom' = IF finite THEN {ekf} ELSE odom
      /\ last_tf' = IF finite /\ frames.odom # "" THEN {transform} ELSE last_tf
      /\ computed' \in {computed, computed \cup {transform}}
      /\ sent' \in {sent, last_tf'}
      /\ reanchored' = (reanchored /\ ~finite)
      /\ UNCHANGED <<limo, adapter, queue, newest, updates, ekf, P, frames, copy, msg>>
  BY DEF publish, Publishable, Stores, filterVars
<1>2. /\ transform \in Transform /\ transform.child = frames.odom
      /\ finite => isFinite(transform.edge)
  BY TransformTyped DEF PathInv
<1>3. Types'
  <2>1. Commands' = Commands
    BY <1>1 DEF Commands
  <2> HIDE DEF finite
  <2> QED BY <1>1, <1>2, <2>1 DEF PathInv, Types, Message, PoseOrNaN, Transform
<1>4. Named'
  <2> HIDE DEF finite
  <2> QED BY <1>1, <1>2 DEF PathInv, Named
<1>5. OnlyFinite'
  BY <1>1, <1>2 DEF PathInv, OnlyFinite, isFinite
<1> QED BY <1>1, <1>3, <1>4, <1>5 DEF PathInv, Closed, CopyFinite, ReferenceIsLast

\* While publish() holds the lock nobody reads: the timer copies one whole correction.
LEMMA CopyIsWhole ==
    ASSUME republishTf
    PROVE  \E t \in last_tf : copy' = {t}
  BY DEF republishTf, Locked, Seen

\* The other steps: the lock, the end of the cone callback, a LIMO restart, the timer.
LEMMA OtherStep ==
    PathInv /\ (\/ lockTf \/ conesReturn \/ LimoRestarts \/ republishTf
                \/ sendTransform \/ UNCHANGED pathVars) => PathInv'
<1> SUFFICES ASSUME PathInv,
                    \/ lockTf \/ conesReturn \/ LimoRestarts \/ republishTf
                    \/ sendTransform \/ UNCHANGED pathVars
             PROVE  PathInv'
  OBVIOUS
<1>1. /\ UNCHANGED <<adapter, queue, newest, updates, ekf, P, frames, last_tf, odom, computed,
                    msg, reanchored>>
      /\ sent' \in {sent, copy}
      /\ copy' \subseteq copy \cup last_tf
      /\ pc' \in {pc, "idle", "store"}
      /\ limo' \in [pose : Pose, calibrated : BOOLEAN, restarts : Nat]
  <2>1. CASE lockTf \/ conesReturn
    BY <2>1 DEF lockTf, conesReturn, filterVars, outVars, PathInv, Types
  <2>2. CASE LimoRestarts
    <3>1. Origin \in Pose
      BY DEF Origin, Pose
    <3> QED BY <2>2, <3>1 DEF LimoRestarts, filterVars, outVars, PathInv, Types
  <2>3. CASE republishTf
    BY <2>3, CopyIsWhole DEF republishTf, filterVars, PathInv, Types
  <2>4. CASE sendTransform
    BY <2>4 DEF sendTransform, filterVars, PathInv, Types
  <2>5. CASE UNCHANGED pathVars
    BY <2>5 DEF pathVars, filterVars, outVars, PathInv, Types
  <2> QED BY <2>1, <2>2, <2>3, <2>4, <2>5
<1>2. Types'
  <2>1. Commands' = Commands
    BY <1>1 DEF Commands
  <2> QED BY <1>1, <2>1 DEF PathInv, Types, Message, Transform, PoseOrNaN
<1> QED BY <1>1, <1>2 DEF PathInv, Closed, Named, OnlyFinite, CopyFinite, ReferenceIsLast

\* Limo, with the message as a variable of the proof.
LEMMA LimoIsMessage ==
    Limo => \E m : /\ fastLimoDataCallback(m)
                   /\ m.frame \in STRING /\ m.child \in STRING
                   /\ m = [pose |-> m.pose, cov |-> m.cov, frame |-> m.frame, child |-> m.child]
  BY PathAssumption DEF Limo

\* Nothing has been received or published.
LEMMA InitPathInv == Init => PathInv
<1> SUFFICES ASSUME Init PROVE PathInv
  OBVIOUS
<1>1. Origin \in Pose
  BY DEF Origin, Pose
<1>2. queue \in Seq(Commands)
  <2>1. queue = << >>
    BY DEF Init
  <2> QED BY <2>1
<1>3. gate_on_limo_calibration \in BOOLEAN
  BY PathAssumption
<1>4. Types
  <2>1. limo \in [pose : Pose, calibrated : BOOLEAN, restarts : Nat]
    BY <1>1 DEF Init
  <2>2. adapter \in [prev_pose : PoseOrNaN, prev_cov : Nat, initialized : BOOLEAN,
                     calibrated : BOOLEAN]
    BY <1>1, <1>3 DEF Init, PoseOrNaN
  <2>3. frames \in [odom : STRING, child : STRING, resolved : BOOLEAN]
    BY PathAssumption DEF Init
  <2>4. msg.pose \in PoseOrNaN
    BY <1>1 DEF Init, PoseOrNaN
  <2>5. ekf \in PoseOrNaN /\ P \in Nat
    BY <1>1 DEF Init, PoseOrNaN
  <2>6. newest \in 0..MaxFrames /\ updates \in 0..MaxUpdates
    <3>1. MaxFrames \in Nat /\ MaxUpdates \in Nat
      BY PathAssumption
    <3>2. newest = 0 /\ updates = 0
      BY DEF Init
    <3> QED BY <3>1, <3>2
  <2>7. /\ last_tf = {} /\ copy = {} /\ sent = {} /\ odom = {} /\ computed = {}
        /\ pc = "idle" /\ reanchored = FALSE
    BY DEF Init
  <2>8. {} \subseteq Transform /\ {} \subseteq PoseOrNaN
    OBVIOUS
  <2> QED BY <1>2, <2>1, <2>2, <2>3, <2>4, <2>5, <2>6, <2>7, <2>8 DEF Types
<1> QED BY <1>3, <1>4 DEF Init, PathInv, Closed, Named, OnlyFinite, CopyFinite, ReferenceIsLast

\* No message, callback or timer breaks the invariant.
LEMMA NextPathInv == PathInv /\ [Next]_pathVars => PathInv'
<1> SUFFICES ASSUME PathInv, [Next]_pathVars PROVE PathInv'
  OBVIOUS
<1>1. CASE Limo
  BY <1>1, LimoIsMessage, LimoStep
<1>2. CASE conesCallback
  BY <1>2, ScanStep
<1>3. CASE drainPredict \/ Cones
  BY <1>3, DrainStep DEF Cones
<1>4. CASE publish
  BY <1>4, PublishStep
<1>5. CASE \/ lockTf \/ conesReturn \/ LimoRestarts \/ republishTf \/ sendTransform
           \/ Quiet \/ UNCHANGED pathVars
  BY <1>5, OtherStep DEF Quiet
<1> QED BY <1>1, <1>2, <1>3, <1>4, <1>5 DEF Next

\* The invariant holds of every reachable state.
THEOREM PathInvariant == Spec => []PathInv
  BY InitPathInv, NextPathInv, PTL DEF Spec

-----------------------------------------------------------------------------
(* What holds for every window and every fault *)

\* The types hold.
THEOREM PathTypeOK == Spec => []TypeOK
<1>1. PathInv => TypeOK
  BY DEF PathInv, Types, TypeOK, IsCommand, Commands
<1> QED BY <1>1, PathInvariant, PTL

\* Nothing that is not finite is published or broadcast.
THEOREM PathOnlyFinite == Spec => []OnlyFinite
<1>1. PathInv => OnlyFinite
  BY DEF PathInv
<1> QED BY <1>1, PathInvariant, PTL

\* What is out is a correction publish() has computed, whole, wherever the timer fires.
THEOREM PathOnlyComputed == Spec => []OnlyComputed
<1>1. Init => OnlyComputed
  BY DEF Init, OnlyComputed
<1>2. OnlyComputed /\ [Next]_pathVars => OnlyComputed'
  <2> SUFFICES ASSUME OnlyComputed, [Next]_pathVars PROVE OnlyComputed'
    OBVIOUS
  <2>1. CASE publish
    <3>1. /\ copy' = copy /\ computed \subseteq computed'
          /\ Stores => transform \in computed'
          /\ last_tf' = IF Stores THEN {transform} ELSE last_tf
          /\ sent' = IF Stores /\ ~tf_from_timer THEN {transform} ELSE sent
      BY <2>1 DEF publish
    <3> HIDE DEF Stores, transform
    <3> QED BY <3>1 DEF OnlyComputed
  <2>2. CASE republishTf
    BY <2>2, CopyIsWhole DEF republishTf, OnlyComputed
  <2>3. CASE sendTransform
    BY <2>3 DEF sendTransform, OnlyComputed
  <2>4. CASE Limo
    BY <2>4, LimoIsMessage DEF fastLimoDataCallback, OnlyComputed
  <2>5. CASE ~publish /\ ~republishTf /\ ~sendTransform /\ ~Limo
    BY <2>5 DEF Next, conesCallback, drainPredict, Cones, drainUpdate, lockTf, conesReturn,
                LimoRestarts, Quiet, pathVars, outVars, OnlyComputed
  <2> QED BY <2>1, <2>2, <2>3, <2>4, <2>5
<1> QED BY <1>1, <1>2, PTL DEF Spec

\* The filter is untouched until the first calibrated frame is the reference.
THEOREM PathNothingBeforeCalibration == Spec => []NothingBeforeCalibration
<1>1. PathInv => NothingBeforeCalibration
  BY DEF PathInv, Closed, NothingBeforeCalibration
<1> QED BY <1>1, PathInvariant, PTL

\* The child of the transform never changes once one is out.
THEOREM PathTreeStable == Spec => TreeStable
<1>1. PathInv /\ PathInv' /\ [Next]_pathVars
        => [\A t \in sent, u \in sent' : t.child = u.child]_pathVars
  <2> SUFFICES ASSUME PathInv, PathInv', [Next]_pathVars,
                      NEW t \in sent, NEW u \in sent'
               PROVE  t.child = u.child
    OBVIOUS
  <2>1. t.child = frames.odom /\ frames.odom # "" /\ u.child = frames'.odom
    BY DEF PathInv, Named
  <2>2. frames'.odom = frames.odom
    <3>1. CASE Limo
      <4>1. PICK m : fastLimoDataCallback(m)
        BY <3>1, LimoIsMessage
      <4> QED BY <2>1, <4>1 DEF fastLimoDataCallback, resolveFrames
    <3>2. CASE ~Limo
      BY <3>2 DEF Next, conesCallback, drainPredict, Cones, drainUpdate, publish, lockTf,
                  conesReturn, LimoRestarts, republishTf, sendTransform, Quiet, pathVars, outVars
    <3> QED BY <3>1, <3>2
  <2> QED BY <2>1, <2>2
<1> QED BY <1>1, PathInvariant, PTL DEF Spec, TreeStable

\* predict() does not shrink the variance.
THEOREM PathMotionKeepsVariance == Spec => MotionKeepsVariance
<1>1. PathInv /\ [Next]_pathVars
        => [queue # << >> /\ Head(queue).kind = "Predict" /\ queue' = Tail(queue)
              => P' >= P]_pathVars
  <2> SUFFICES ASSUME PathInv, [Next]_pathVars,
                      queue # << >>, Head(queue).kind = "Predict", queue' = Tail(queue)
               PROVE  P' >= P
    OBVIOUS
  <2>1. P \in Nat /\ Head(queue) \in Commands
    BY DEF PathInv, Types
  <2>2. CASE drainPredict
    <3>1. Head(queue).inc.cov \in Nat
      BY <2>1, <2>2 DEF drainPredict, Commands, Increment
    <3> QED BY <2>1, <2>2, <3>1 DEF drainPredict
  <2>3. ~Cones
    BY DEF Cones, drainUpdate
  <2>4. CASE Limo
    <3>1. P' = P
      BY <2>4, LimoIsMessage DEF fastLimoDataCallback, filterVars
    <3> QED BY <2>1, <3>1
  <2>5. CASE ~Limo /\ ~drainPredict
    <3>1. P' = P
      BY <2>3, <2>5 DEF Next, conesCallback, publish, lockTf, conesReturn, LimoRestarts,
                        republishTf, sendTransform, Quiet, pathVars, filterVars
    <3> QED BY <2>1, <3>1
  <2> QED BY <2>2, <2>4, <2>5
<1> QED BY <1>1, PathInvariant, PTL DEF Spec, MotionKeepsVariance

-----------------------------------------------------------------------------
(* Until LIMO restarts *)

\* While LIMO has not been restarted it is calibrated exactly when the adapter
\* has seen it calibrated.
NeverAgain ==
    limo.restarts = 0 /\ gate_on_limo_calibration =>
        /\ limo.calibrated = adapter.initialized
        /\ reference # "placeholder"

\* No frame of LIMO's first calibration is consumed.
THEOREM PathPlaceholderDropped == Spec => []FirstPlaceholderDropped
<1>1. Init => NeverAgain
  <2> SUFFICES ASSUME Init PROVE NeverAgain
    OBVIOUS
  <2>1. /\ limo.restarts = 0 /\ limo.calibrated = FALSE /\ adapter.initialized = FALSE
        /\ reference = "none"
    BY DEF Init
  <2> QED BY <2>1 DEF NeverAgain
<1>2. PathInv /\ NeverAgain /\ [Next]_pathVars => NeverAgain'
  <2> SUFFICES ASSUME PathInv, NeverAgain, [Next]_pathVars PROVE NeverAgain'
    OBVIOUS
  <2>1. CASE Limo
    <3>1. PICK m : fastLimoDataCallback(m)
      BY <2>1, LimoIsMessage
    <3>2. convert(m) /\ Publishes(m.pose, m.cov)
      BY <3>1 DEF fastLimoDataCallback
    <3>3. limo \in [pose : Pose, calibrated : BOOLEAN, restarts : Nat]
      BY DEF PathInv, Types
    <3>4. limo'.restarts = limo.restarts
      BY <3>2, <3>3 DEF Publishes, Calibrating, CalibrationEnds, Tracking, Glitch
    <3>5. ASSUME limo.restarts = 0, gate_on_limo_calibration
          PROVE  limo'.calibrated = adapter'.initialized /\ reference' # "placeholder"
      <4>1. adapter.calibrated = adapter.initialized /\ limo.calibrated = adapter.initialized
        BY <3>5 DEF PathInv, Closed, NeverAgain
      <4>2. CASE Calibrating(m.pose, m.cov)
        <5>1. Dropped(m)
          BY <4>1, <4>2 DEF Calibrating, Dropped, isUncalibratedFrame
        <5>2. UNCHANGED <<limo, adapter, reference>>
          BY <3>2, <4>2, <5>1 DEF Calibrating, convert
        <5> QED BY <3>5, <4>1, <5>2 DEF NeverAgain
      <4>3. CASE ~Calibrating(m.pose, m.cov)
        <5>1. m.cov \in Nat \ {0} /\ limo'.calibrated = TRUE
          BY <3>2, <3>3, <4>3, PathAssumption DEF Publishes, CalibrationEnds, Tracking, Glitch
        <5>2. ~isUncalibratedFrame(m) /\ ~Dropped(m)
          BY <5>1 DEF isUncalibratedFrame, Dropped
        <5>3. adapter'.initialized = TRUE /\ reference' = "real"
          BY <3>2, <5>2 DEF convert
        <5> QED BY <5>1, <5>3
      <4> QED BY <4>2, <4>3
    <3> QED BY <3>4, <3>5 DEF NeverAgain
  <2>2. CASE LimoRestarts
    <3>1. limo.restarts \in Nat
      BY DEF PathInv, Types
    <3>2. limo'.restarts # 0
      BY <2>2, <3>1 DEF LimoRestarts
    <3> QED BY <3>2 DEF NeverAgain
  <2>3. CASE ~Limo /\ ~LimoRestarts
    <3>2. UNCHANGED <<limo, adapter, reference>>
      BY <2>3 DEF Next, conesCallback, drainPredict, Cones, drainUpdate, publish, lockTf,
                        conesReturn, republishTf, sendTransform, Quiet, pathVars
    <3> QED BY <3>2 DEF NeverAgain
  <2> QED BY <2>1, <2>2, <2>3
<1>3. NeverAgain => FirstPlaceholderDropped
  BY DEF NeverAgain, FirstPlaceholderDropped, PlaceholderDropped
<1> QED BY <1>1, <1>2, <1>3, PathInvariant, PTL DEF Spec

-----------------------------------------------------------------------------
(* What needs a window of 0 *)

\* Nothing waits: between callbacks the queue is empty, and a callback finds
\* at most the one command it has pushed.
NothingWaits ==
    /\ pc = "idle" => queue = << >>
    /\ queue # << >> => /\ Len(queue) = 1
                        /\ pc = "limo" => Head(queue).kind = "Predict"
                        /\ pc = "cones" => Head(queue).kind = "Update"
                        /\ pc \in {"limo", "cones"}

correctionOf(pose) == [edge |-> correction(pose, msg.pose), child |-> frames.odom]

\* The transform out is the one the filter's pose and the last message give,
\* the increment that is still queued included.
Held ==
    last_tf # {} /\ ~reanchored =>
        IF pc = "limo" /\ queue # << >>
          THEN isFinite(ekf) /\ isFinite(Head(queue).inc.delta)
                 => last_tf = {correctionOf(move(ekf, Head(queue).inc.delta))}
          ELSE isFinite(ekf) /\ isFinite(msg.pose) => last_tf = {correctionOf(ekf)}

\* With a window of 0 whatever is buffered is ready.
LEMMA ReadyAtOnce ==
    ASSUME Window = 0, Types
    PROVE  Ready <=> queue # << >>
<1> SUFFICES ASSUME queue # << >> PROVE Head(queue).stamp <= Horizon
  BY DEF Ready
<1>1. newest \in Nat
  BY PathAssumption DEF Types
<1>2. queue \in Seq(Commands)
  BY DEF Types
<1>3. Head(queue) \in Commands
  BY <1>2
<1>4. Head(queue).stamp \in 0..newest
  BY <1>3 DEF Commands
<1> QED BY <1>1, <1>4 DEF Horizon

\* With a window of 0 each callback empties the queue it fills.
LEMMA NothingWaitsStep ==
    ASSUME Window = 0, PathInv, NothingWaits, [Next]_pathVars
    PROVE  NothingWaits'
<1>1. queue \in Seq(Commands) /\ (Ready <=> queue # << >>)
  BY ReadyAtOnce DEF PathInv, Types
<1>2. CASE Limo
  <2>1. PICK m : fastLimoDataCallback(m)
    BY <1>2, LimoIsMessage
  <2>2. pc' = "limo" /\ queue = << >> /\ convert(m)
    BY <2>1 DEF fastLimoDataCallback, NothingWaits
  <2>3. \/ queue' = << >>
        \/ queue' = << [kind |-> "Predict", stamp |-> newest', inc |-> motion(m)] >>
    <3> HIDE DEF motion
    <3> QED BY <2>2 DEF convert
  <2> DEFINE c == [kind |-> "Predict", stamp |-> newest', inc |-> motion(m)]
  <2>4. c.kind = "Predict"
    OBVIOUS
  <2> HIDE DEF c
  <2>5. queue' # << >> => Len(queue') = 1 /\ Head(queue') = c
    BY <2>3 DEF c
  <2> QED BY <2>2, <2>4, <2>5 DEF NothingWaits
<1>3. CASE conesCallback
  <2>1. \/ queue' = << >> /\ pc' = "idle"
        \/ queue' = << [kind |-> "Update", stamp |-> newest] >> /\ pc' = "cones"
    BY <1>3 DEF conesCallback, NothingWaits
  <2>2. queue' # << >> => Len(queue') = 1 /\ Head(queue').kind = "Update"
    BY <2>1
  <2> QED BY <2>1, <2>2 DEF NothingWaits
<1>4. CASE drainPredict \/ Cones
  <2>1. queue # << >> /\ queue' = Tail(queue) /\ Len(queue) = 1
    BY <1>4 DEF drainPredict, Cones, drainUpdate, Ready, NothingWaits
  <2>2. queue' = << >>
    BY <1>1, <2>1
  <2> QED BY <2>2 DEF NothingWaits
<1>5. CASE publish \/ lockTf \/ conesReturn
  <2>1. queue' = queue /\ queue = << >>
    BY <1>1, <1>5 DEF publish, lockTf, conesReturn
  <2> QED BY <2>1 DEF NothingWaits
<1>6. CASE LimoRestarts \/ republishTf \/ sendTransform \/ Quiet \/ UNCHANGED pathVars
  <2>1. pc' = pc /\ queue' = queue
    BY <1>6 DEF LimoRestarts, republishTf, sendTransform, Quiet, pathVars
  <2> QED BY <2>1 DEF NothingWaits
<1> QED BY <1>2, <1>3, <1>4, <1>5, <1>6 DEF Next

\* With a window of 0 the transform out stays what filter and message give.
LEMMA HeldStep ==
    ASSUME Window = 0, PathInv, NothingWaits, Held, [Next]_pathVars
    PROVE  Held'
<1>1. /\ queue \in Seq(Commands) /\ (Ready <=> queue # << >>)
      /\ ekf \in PoseOrNaN /\ msg.pose \in PoseOrNaN
      /\ ~isFinite(NaN)
  BY ReadyAtOnce DEF PathInv, Types, isFinite
<1>2. CASE Limo
  <2>1. PICK m : /\ fastLimoDataCallback(m)
                 /\ m.frame \in STRING /\ m.child \in STRING
                 /\ m = [pose |-> m.pose, cov |-> m.cov, frame |-> m.frame, child |-> m.child]
    BY <1>2, LimoIsMessage
  <2>2. /\ pc = "idle" /\ pc' = "limo" /\ msg' = m /\ queue = << >>
        /\ last_tf' = last_tf /\ ekf' = ekf
        /\ convert(m) /\ resolveFrames(m) /\ m \in Message
    BY <2>1, LimoStep DEF fastLimoDataCallback, filterVars, NothingWaits
  <2>3. SUFFICES ASSUME last_tf # {}, ~reanchored'
                 PROVE  Held'
    BY <2>2 DEF Held
  <2>4. frames'.odom = frames.odom
    BY <2>2, <2>3 DEF PathInv, Named, resolveFrames
  <2>5. ~reanchored
    BY <2>2, <2>3 DEF convert
  <2>6. isFinite(ekf) /\ isFinite(msg.pose) => last_tf = {correctionOf(ekf)}
    BY <2>2, <2>3, <2>5 DEF Held
  <2>7. CASE Dropped(m)
    <3>1. queue' = << >> /\ m.pose = msg.pose
      BY <2>2, <2>7 DEF convert, Dropped, isUncalibratedFrame, PathInv, Closed, ReferenceIsLast
    <3> QED BY <2>2, <2>4, <2>6, <3>1 DEF Held, correctionOf
  <2>8. CASE ~Dropped(m)
    <3> DEFINE delta == motion(m).delta
               c == [kind |-> "Predict", stamp |-> newest', inc |-> motion(m)]
    <3>1. adapter.initialized
      BY <2>2, <2>3, <2>8 DEF convert
    <3>2. queue' = << c >>
      <4> HIDE DEF motion
      <4> QED BY <2>2, <2>8, <3>1 DEF convert
    <3>3. c.inc = motion(m)
      <4> HIDE DEF motion
      <4> QED OBVIOUS
    <3>4. Head(queue').inc = motion(m) /\ queue' # << >>
      <4> HIDE DEF c
      <4> QED BY <3>2, <3>3
    <3>5. ASSUME isFinite(ekf), isFinite(delta)
          PROVE  last_tf = {[edge |-> correction(move(ekf, delta), m.pose),
                             child |-> frames.odom]}
      <4>1. /\ isFinite(msg.pose) /\ isFinite(m.pose)
            /\ delta = increment(msg.pose, m.pose)
        BY <2>2, <3>5, MotionTyped DEF PathInv, ReferenceIsLast
      <4>2. ekf \in Pose /\ msg.pose \in Pose /\ m.pose \in Pose
        BY <1>1, <2>2, <3>5, <4>1, FiniteIsPose DEF Message
      <4>3. correction(move(ekf, delta), m.pose) = correction(ekf, msg.pose)
        BY <4>1, <4>2, MotionKeepsCorrection
      <4> QED BY <2>6, <3>5, <4>1, <4>3 DEF correctionOf
    <3> HIDE DEF delta
    <3>6. Held'
      <4>1. isFinite(ekf') /\ isFinite(Head(queue').inc.delta)
              => last_tf' = {[edge |-> correction(move(ekf', Head(queue').inc.delta), msg'.pose),
                              child |-> frames'.odom]}
        BY <2>2, <2>4, <3>4, <3>5 DEF delta
      <4> QED BY <2>2, <3>4, <4>1 DEF Held, correctionOf
    <3> QED BY <3>6
  <2> QED BY <2>7, <2>8
<1>3. CASE conesCallback
  <2>1. /\ UNCHANGED <<last_tf, ekf, msg, frames, reanchored>>
        /\ pc = "idle" /\ pc' # "limo"
    BY <1>3 DEF conesCallback, filterVars, outVars
  <2> QED BY <2>1 DEF Held, correctionOf
<1>4. CASE drainPredict
  <2> DEFINE delta == Head(queue).inc.delta
  <2>1. pc = "limo" /\ queue # << >> /\ Len(queue) = 1
    BY <1>4 DEF drainPredict, Ready, NothingWaits
  <2>2. queue' = << >>
    BY <1>1, <1>4, <2>1 DEF drainPredict
  <2>3. /\ UNCHANGED <<last_tf, frames, msg, reanchored>>
        /\ ekf' = IF isFinite(ekf) /\ isFinite(delta) THEN move(ekf, delta) ELSE NaN
    BY <1>4 DEF drainPredict, outVars
  <2> HIDE DEF delta
  <2>4. last_tf # {} /\ ~reanchored /\ isFinite(ekf')
          => last_tf = {[edge |-> correction(ekf', msg.pose), child |-> frames.odom]}
    BY <1>1, <2>1, <2>3 DEF Held, correctionOf, delta
  <2> QED BY <2>2, <2>3, <2>4 DEF Held, correctionOf
<1>5. CASE Cones
  <2>1. reanchored' = TRUE
    BY <1>5 DEF Cones, drainUpdate
  <2> QED BY <2>1 DEF Held
<1>6. CASE publish
  <2> DEFINE finite == isFinite(ekf) /\ isFinite(msg.pose)
  <2>1. /\ pc' = "idle" /\ queue = << >>
        /\ last_tf' = IF finite /\ frames.odom # "" THEN {transform} ELSE last_tf
        /\ reanchored' = (reanchored /\ ~finite)
        /\ UNCHANGED <<ekf, frames, msg>>
    BY <1>1, <1>6 DEF publish, Publishable, Stores, filterVars
  <2>2. finite => transform = correctionOf(ekf)
    BY DEF transform, correctionOf
  <2>3. frames.odom = "" => last_tf = {}
    BY DEF PathInv, Named
  <2> QED BY <2>1, <2>2, <2>3 DEF Held, correctionOf
<1>7. CASE lockTf \/ conesReturn
  <2>1. /\ UNCHANGED <<last_tf, ekf, msg, frames, reanchored, queue>>
        /\ queue = << >>
    BY <1>1, <1>7 DEF lockTf, conesReturn, filterVars, outVars
  <2> QED BY <2>1 DEF Held, correctionOf
<1>8. CASE LimoRestarts \/ republishTf \/ sendTransform \/ Quiet \/ UNCHANGED pathVars
  <2>1. UNCHANGED <<last_tf, ekf, msg, frames, reanchored, pc, queue>>
    BY <1>8 DEF LimoRestarts, republishTf, sendTransform, Quiet, pathVars, filterVars, outVars
  <2> QED BY <2>1 DEF Held, correctionOf
<1> QED BY <1>2, <1>3, <1>4, <1>5, <1>6, <1>7, <1>8 DEF Next

\* Without a window the filter and the transform agree with the last message at
\* every step.
LEMMA WindowZeroInvariant ==
    ASSUME Window = 0
    PROVE  Spec => [](NothingWaits /\ Held)
<1>1. Init => NothingWaits /\ Held
  BY DEF Init, NothingWaits, Held
<1>2. PathInv /\ NothingWaits /\ Held /\ [Next]_pathVars => NothingWaits' /\ Held'
  BY NothingWaitsStep, HeldStep
<1> QED BY <1>1, <1>2, PathInvariant, PTL DEF Spec

\* Without a window publish() reads the filter when the increment of its
\* message has been absorbed.
THEOREM PathMatchedPair ==
    ASSUME Window = 0
    PROVE  Spec => []MatchedPair
<1>1. PathInv /\ NothingWaits => MatchedPair
  <2> SUFFICES ASSUME PathInv, ~Ready PROVE MatchedPair
    BY DEF MatchedPair
  <2>1. queue = << >>
    BY ReadyAtOnce DEF PathInv
  <2> QED BY <2>1 DEF MatchedPair
<1> QED BY <1>1, WindowZeroInvariant, PathInvariant, PTL

\* Without a window the transform changes only where a scan was fused or the
\* motion reference was seeded, however the car drives and turns.
THEOREM PathPiecewiseConstant ==
    ASSUME Window = 0
    PROVE  Spec => PiecewiseConstant
<1>1. PathInv /\ NothingWaits /\ Held /\ [Next]_pathVars
        => [last_tf # {} /\ ~reanchored => last_tf' = last_tf]_pathVars
  <2> SUFFICES ASSUME PathInv, NothingWaits, Held, [Next]_pathVars,
                      last_tf # {}, ~reanchored
               PROVE  last_tf' = last_tf
    OBVIOUS
  <2>1. CASE publish
    <3>1. queue = << >>
      BY <2>1, ReadyAtOnce DEF publish, PathInv
    <3>2. isFinite(ekf) /\ isFinite(msg.pose) => last_tf = {correctionOf(ekf)}
      BY <3>1 DEF Held
    <3>3. isFinite(ekf) /\ isFinite(msg.pose) => transform = correctionOf(ekf)
      BY DEF transform, correctionOf
    <3> QED BY <2>1, <3>2, <3>3 DEF publish, Publishable, Stores
  <2>2. CASE Limo
    BY <2>2, LimoIsMessage DEF fastLimoDataCallback
  <2>3. CASE ~publish /\ ~Limo
    BY <2>3 DEF Next, conesCallback, drainPredict, Cones, drainUpdate, lockTf, conesReturn, LimoRestarts,
                republishTf, sendTransform, Quiet, pathVars, outVars
  <2> QED BY <2>1, <2>2, <2>3
<1> QED BY <1>1, WindowZeroInvariant, PathInvariant, PTL DEF Spec, PiecewiseConstant

\* What the timer re-stamps is the current correction as long as no scan was fused
\* since the last publish(): a scan is the only thing path_stale can be due to.
THEOREM PathCurrentUntilAScan ==
    ASSUME Window = 0
    PROVE  Spec => [][~reanchored => CurrentStep]_pathVars
<1>1. NothingWaits /\ Held => (~reanchored => CurrentStep)
  <2> SUFFICES ASSUME NothingWaits, Held, ~reanchored, republishTf, pc = "idle",
                      isFinite(ekf), isFinite(msg.pose), NEW t \in copy'
               PROVE  SamePose(t.edge, correction(ekf, msg.pose))
    BY DEF CurrentStep
  <2>1. t \in last_tf
    BY CopyIsWhole
  <2>2. last_tf = {correctionOf(ekf)}
    BY <2>1 DEF NothingWaits, Held
  <2>3. t.edge = correction(ekf, msg.pose)
    BY <2>1, <2>2 DEF correctionOf
  <2> QED BY <2>3 DEF SamePose
<1> QED BY <1>1, WindowZeroInvariant, PTL DEF Spec
=============================================================================
