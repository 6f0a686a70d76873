----------------------------- MODULE EkfBackend -----------------------------
(***************************************************************************)
(* The state an IEkfBackend owns and its operations, as CpuBackend         *)
(* (backend/cpu_backend.cpp) has them, on the line EkfOdom models: the     *)
(* pose, the landmark means, and pose_sigma, the standard deviation read   *)
(* from the pose block of P.                                               *)
(***************************************************************************)
EXTENDS Integers

CONSTANT N_CONES      \* capacity of the map

ASSUME BackendAssumption == N_CONES \in Nat \ {0}

Slots == 0..(N_CONES - 1)

\* x = 0, P = blockdiag(I3, INF I)
created == [pose |-> 0, lm |-> [k \in Slots |-> 0], sigma |-> 1]

motionPropagate(b, d, sigma) == [b EXCEPT !.pose = @ + d, !.sigma = sigma]

insertLandmark(b, k, m) == [b EXCEPT !.lm[k] = m]

uploadPose3(b, pose) == [b EXCEPT !.pose = pose]

uploadPoseBlock3x3(b, sigma) == [b EXCEPT !.sigma = sigma]

\* The first count landmark means, over the ones the caller has.
downloadLandmarks(b, count, lm) == [k \in Slots |-> IF k < count THEN b.lm[k] ELSE lm[k]]

\* x += K nu; P -= K H P, on the active part: the gain is left open, so the
\* outcome is given.
batchUpdateFullState(b, count, pose, lm, sigma) ==
    [pose |-> pose, sigma |-> sigma, lm |-> downloadLandmarks([lm |-> lm], count, b.lm)]
=============================================================================
