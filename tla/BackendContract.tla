--------------------------- MODULE BackendContract ---------------------------
(***************************************************************************)
(* What the filter gets from a backend (backend/ekf_backend.hpp), in terms *)
(* of which calls the state mean x and the covariance P have absorbed.  A  *)
(* motion, an inserted landmark and a correction of the pose are absorbed  *)
(* whole.  A joint update is absorbed whole, or not at all, or, of the     *)
(* CUDA peer alone, by the mean alone; never by the covariance alone,      *)
(* which would make the filter sure of what it has not used.  A device     *)
(* that is lost takes the state with it.                                   *)
(***************************************************************************)
CONSTANTS
    Calls,      \* the calls of the filter: [by, n]
    Spoiled     \* what P holds once a motion went in with another's factors

VARIABLES
    mean,       \* the calls x has absorbed
    cov,        \* the calls P has absorbed
    reachable   \* the state can still be read and written

vars == <<mean, cov, reachable>>

Init == mean = {} /\ cov = {} /\ reachable = TRUE

New(c) == reachable /\ c \notin mean \cup cov

Motion(c) == /\ c.by = "predict" /\ New(c)
             /\ mean' = mean \cup {c}
             /\ cov' \in {cov \cup {c}, cov \cup {Spoiled}}
             /\ UNCHANGED reachable

Insertion(c) == /\ c.by = "insert" /\ New(c)
                /\ mean' = mean \cup {c}
                /\ UNCHANGED <<cov, reachable>>

Correction(c) == /\ c.by \in {"update", "rigid"} /\ New(c)
                 /\ mean' = mean \cup {c}
                 /\ \/ cov' = cov \cup {c}
                    \/ c.by = "update" /\ cov' = cov
                 /\ UNCHANGED reachable

Loss == reachable /\ reachable' = FALSE /\ mean' = {} /\ cov' = {}

Next == Loss \/ \E c \in Calls : Motion(c) \/ Insertion(c) \/ Correction(c)

Spec == Init /\ [][Next]_vars
=============================================================================
