----------------------------- MODULE PlanarPose -----------------------------
(***************************************************************************)
(* Planar poses as the node composes them: the relative increment of       *)
(* LimoMotionAdapter::convert, the motion EKFOdom::predict adds, and the   *)
(* correction of OdometryPublisher::publish.  Positions are on the integer *)
(* grid and headings are counted in quarter turns, so that sines, cosines  *)
(* and the wrapping of angles are exact: pi is 2.                          *)
(***************************************************************************)
EXTENDS Integers

Pose == [x : Int, y : Int, h : Int]
Origin == [x |-> 0, y |-> 0, h |-> 0]

Cos(h) == IF h % 4 = 0 THEN 1 ELSE IF h % 4 = 2 THEN -1 ELSE 0
Sin(h) == IF h % 4 = 1 THEN 1 ELSE IF h % 4 = 3 THEN -1 ELSE 0

\* while (a > pi) a -= 2 pi; while (a < -pi) a += 2 pi
normalizeAngle(a) == IF a > 2 THEN ((a + 1) % 4) - 1
                     ELSE IF a < -2 THEN ((a + 2) % 4) - 2 ELSE a

\* while (a > 2 pi) a -= 2 pi; while (a < -2 pi) a += 2 pi
normalizeYaw(a) == IF a > 4 THEN ((a - 1) % 4) + 1
                   ELSE IF a < -4 THEN (a % 4) - 4 ELSE a

\* Mutant of increment: the displacement stays in the world frame.
incrementUnrotated(p, q) ==
    [x |-> q.x - p.x, y |-> q.y - p.y, h |-> normalizeAngle(q.h - p.h)]

\* The motion from p to q in the body frame of p.
increment(p, q) ==
    LET dx == q.x - p.x
        dy == q.y - p.y
    IN  [x |-> Cos(p.h) * dx + Sin(p.h) * dy,
         y |-> Cos(p.h) * dy - Sin(p.h) * dx,
         h |-> normalizeAngle(q.h - p.h)]

\* The pose reached from p by an increment given in its body frame.
move(p, k) == [x |-> p.x + Cos(p.h) * k.x - Sin(p.h) * k.y,
               y |-> p.y + Sin(p.h) * k.x + Cos(p.h) * k.y,
               h |-> normalizeYaw(p.h + k.h)]

\* The transform that takes the raw pose l to the corrected pose c.  Its
\* heading leaves as a quaternion, which does not tell full turns apart.
correction(c, l) ==
    LET yaw == c.h - l.h
    IN  [x |-> c.x - (l.x * Cos(yaw) - l.y * Sin(yaw)),
         y |-> c.y - (l.x * Sin(yaw) + l.y * Cos(yaw)),
         h |-> yaw % 4]

\* Two poses a transform listener cannot tell apart.
SamePose(p, q) == p.x = q.x /\ p.y = q.y /\ p.h % 4 = q.h % 4
=============================================================================
