----------------------------- MODULE CudaBackend -----------------------------
(***************************************************************************)
(* The backend of EKFOdom as makeEkfBackend builds it: the CUDA peer       *)
(* (backend/cuda_backend.cu) if it comes up, the CPU peer otherwise, with  *)
(* the calls EKFOdom makes and the refresh of its mirrors after them.      *)
(*                                                                         *)
(* A call is the sequence of steps it takes on the device.  A step of the  *)
(* CUDA peer can be refused: any step once the device is lost, which it    *)
(* may be at any moment and then stays (a fault of work already launched   *)
(* included), and the steps of Refusable while it is up.  The batch update *)
(* checks its steps, the other calls do not.  The CPU peer takes the same  *)
(* steps on the host and none is refused.                                  *)
(*                                                                         *)
(* A buffer holds what was written into it, <<what, call>>: a product of   *)
(* anything but this call's factors is junk.  x and P accumulate what the  *)
(* calls add to them.                                                      *)
(*                                                                         *)
(* Of P the constructor rewrites the diagonal only, once it has warmed the *)
(* libraries up.  So the warm-up is also followed entry by entry: filled   *)
(* names, for each matrix, the entries <<row, column>> that may hold       *)
(* something other than zero.                                              *)
(***************************************************************************)
EXTENDS Integers, FiniteSets

CONSTANTS
    dim,          \* rows and columns of P: 3 + 2 * N_CONES
    max_two_m,    \* rows the scratch buffers are allocated for at first
    RowCounts,    \* the two_m of scans
    Refusable,    \* the steps that may be refused while the device is up
    MaxCalls      \* bound on the calls of the filter

\* cuBLAS and cuSOLVER allocate workspaces, and so do the scratch buffers: they
\* can be refused on a device that is up.  Copies and launches cannot.
LibraryCalls == {"grow", "gemmHP", "gemmS", "getrf", "getrs", "gemvX", "gemmP",
                 "gemmRows", "gemmCols"}

ASSUME CudaAssumption ==
    /\ dim \in Nat /\ dim >= 3
    /\ max_two_m \in Nat \ {0}
    /\ RowCounts \subseteq Nat
    /\ Refusable \subseteq LibraryCalls
    /\ MaxCalls \in Nat

Resident == {"x", "P"}
ScratchOrder == [H |-> 1, S |-> 2, nu |-> 3, HP |-> 4, Kt |-> 5, ipiv |-> 6, work |-> 7]
Sized == DOMAIN ScratchOrder
Buffers == Resident \cup {"H", "S", "nu", "HP", "Kt", "G", "tmp", "tmp2"}

VARIABLES
    peer,       \* the backend in use; "none" until the factory has one
    device,     \* "up" or "lost"
    rows,       \* the measurement rows each scratch buffer has room for
    cap_two_m,
    dev,        \* what the buffers of the backend hold
    filled,     \* in the warm-up: the entries of its matrices that may be nonzero
    mirror,     \* what EKFOdom's x_ and P_pose_ hold
    pc,         \* the step the call in progress is at
    call,       \* that call: [by, n]
    two_m,      \* the rows of its scan
    answer,     \* what batchUpdateFullState returned
    before,     \* history: x and P when the call started
    refused     \* history: the products of motions that were refused

cudaVars == <<peer, device, rows, cap_two_m, dev, filled, mirror, pc, call, two_m,
              answer, before, refused>>

NoCall == [by |-> "none", n |-> 0]
WarmUp == [by |-> "warmUp", n |-> 0]
Kinds == {"predict", "insert", "update", "rigid"}
Calls == [by : Kinds, n : 1..MaxCalls]
Empty == [b \in Buffers |-> {}]

Matrices == {"P", "H", "S", "HP", "Kt", "G", "tmp", "tmp2"}
Entries == (0..dim - 1) \X (0..dim - 1)
AllZero == [b \in Matrices |-> {}]

Init == /\ peer = "none" /\ device = "up"
        /\ rows = [b \in Sized |-> 0] /\ cap_two_m = 0
        /\ dev = Empty /\ filled = AllZero /\ before = [x |-> {}, P |-> {}]
        /\ mirror = [x |-> {}, P |-> {}]
        /\ pc = "construct" /\ call = NoCall /\ two_m = 0
        /\ answer = FALSE /\ refused = {}

-----------------------------------------------------------------------------
(* Steps *)

Completes == peer = "cpu" \/ device = "up"
MayRefuse == peer = "cuda" /\ (device = "lost" \/ pc \in Refusable)

BatchSteps == {"upH", "upR", "upNu", "gemmHP", "gemmS", "copyKt", "getrf", "getrs",
               "gemvX", "gemmP", "batchSync"}
MotionSteps == {"upG", "gemmRows", "putRows", "gemmCols", "putCols", "poseDiag",
                "compose", "covDiag", "setVec", "upPose", "upBlock"}

\* Mutants of Checked: a status that is not looked at, of a product, of the
\* synchronisation.
CheckedButS == BatchSteps \ {"gemmS"}
CheckedButSync == BatchSteps \ {"batchSync"}

\* The steps behind CK, BK and SK.
Checked == BatchSteps

\* Where EKFOdom, or the constructor, goes on after batchUpdateFullState.
AfterBatch == IF call = WarmUp THEN "upG" ELSE "downX"

\* The step that follows.
After ==
    [upH |-> "upR", upR |-> "upNu", upNu |-> "gemmHP", gemmHP |-> "gemmS",
     gemmS |-> "copyKt", copyKt |-> "getrf", getrf |-> "getrs", getrs |-> "gemvX",
     gemvX |-> "gemmP", gemmP |-> "batchSync", batchSync |-> AfterBatch,
     upG |-> "gemmRows", gemmRows |-> "putRows", putRows |-> "gemmCols",
     gemmCols |-> "putCols", putCols |-> "poseDiag", poseDiag |-> "compose",
     compose |-> IF call = WarmUp THEN "restore" ELSE "covDiag", covDiag |-> "downX",
     setVec |-> "idle", downX |-> "downP",
     downP |-> IF call.by = "update" THEN "upPose" ELSE "idle",
     upPose |-> IF call.by = "rigid" THEN "upBlock" ELSE "idle", upBlock |-> "idle"]

\* The buffer holds what this call has to find in it.
Holds(b, what) == <<what, call>> \in dev[b]

produced(fresh, what) == {<<IF fresh THEN what ELSE "junk", call>>}

Diagonal == {p \in Entries : p[1] = p[2]}
PoseDiagonal == {p \in Diagonal : p[1] < 3}
Transposed(A) == {<<p[2], p[1]>> : p \in A}
Product(A, B) ==
    {p \in Entries : \E j \in 0..dim - 1 : <<p[1], j>> \in A /\ <<j, p[2]>> \in B}

\* Mutant of WarmUpH: the throwaway measurement is of two coordinates at once.
WarmUpHTwo == {p \in Entries : p[1] = 0 /\ p[2] < 2}

\* The throwaway update of the warm-up: its H and its R.
WarmUpH == {p \in Entries : p[1] = 0 /\ p[2] = 0}
WarmUpR == {p \in Diagonal : p[1] < 2}

\* The entries of a step's result that may be nonzero.  The G of the warm-up is the
\* identity; the factors of a diagonal S are diagonal, those of another may be full.
Support(name) ==
    LET f == filled IN
    CASE name = "upH" -> WarmUpH
      [] name = "upR" -> WarmUpR
      [] name = "gemmHP" -> Product(f["H"], f["P"])
      [] name = "gemmS" -> f["S"] \cup Product(f["HP"], Transposed(f["H"]))
      [] name = "copyKt" -> f["HP"]
      [] name = "getrf" -> IF f["S"] \subseteq Diagonal THEN f["S"]
                              ELSE {p \in Entries : p[1] < 2 /\ p[2] < 2}
      [] name = "getrs" -> Product(f["S"], f["Kt"])
      [] name = "gemmP" -> f["P"] \cup Product(Transposed(f["Kt"]), f["HP"])
      [] name = "upG" -> PoseDiagonal
      [] name = "gemmRows" -> Product(f["G"], f["P"])
      [] name = "putRows" -> {p \in f["P"] : p[1] >= 3} \cup f["tmp"]
      [] name = "gemmCols" -> Product(f["P"], Transposed(f["G"]))
      [] name = "putCols" -> {p \in f["P"] : p[2] >= 3} \cup f["tmp2"]
      [] name = "poseDiag" -> f["P"] \cup PoseDiagonal

others == <<peer, device, rows, cap_two_m, mirror, call, two_m, before>>

step(name, b, contents) ==
    /\ pc = name /\ Completes
    /\ dev' = [dev EXCEPT ![b] = contents]
    /\ filled' = IF call = WarmUp /\ b \in Matrices
                   THEN [filled EXCEPT ![b] = Support(name)] ELSE filled
    /\ pc' = After[name]
    /\ UNCHANGED <<others, answer, refused>>

\* A result replaces what a scratch buffer held, and adds to x and P.
writes(name, b, fresh, what) == step(name, b, produced(fresh, what))
adds(name, b, fresh, what) == step(name, b, dev[b] \cup produced(fresh, what))

upH == writes("upH", "H", TRUE, "H")
upR == writes("upR", "S", TRUE, "R")
upNu == writes("upNu", "nu", TRUE, "nu")

\* Mutant of gemmHP: beta = 1.
gemmHPAdding == adds("gemmHP", "HP", Holds("H", "H"), "HP")

gemmHP == writes("gemmHP", "HP", Holds("H", "H"), "HP")
gemmS == writes("gemmS", "S", Holds("HP", "HP") /\ Holds("H", "H") /\ Holds("S", "R"), "S")
copyKt == writes("copyKt", "Kt", Holds("HP", "HP"), "HP")
getrf == writes("getrf", "S", Holds("S", "S"), "LU")
getrs == writes("getrs", "Kt", Holds("S", "LU") /\ Holds("Kt", "HP"), "K")

\* Mutant of gemvX: beta = 0.
gemvXOverwriting == writes("gemvX", "x", Holds("Kt", "K") /\ Holds("nu", "nu"), "mean")

gemvX == adds("gemvX", "x", Holds("Kt", "K") /\ Holds("nu", "nu"), "mean")
gemmP == adds("gemmP", "P", Holds("Kt", "K") /\ Holds("HP", "HP"), "update")

\* The work launched is done: the update is acknowledged.
batchSync == /\ pc = "batchSync" /\ Completes
             /\ answer' = TRUE
             /\ pc' = AfterBatch
             /\ UNCHANGED <<others, dev, filled, refused>>

batchUpdateFullState == \/ upH \/ upR \/ upNu \/ gemmHP \/ gemmS \/ copyKt
                        \/ getrf \/ getrs \/ gemvX \/ gemmP \/ batchSync

fails(next) == /\ pc \in Checked /\ MayRefuse
               /\ answer' = FALSE
               /\ pc' = next
               /\ UNCHANGED <<others, dev, filled, refused>>

\* Mutant of batchFails: update() returns with the failure.
batchFailsReturning == fails(IF call = WarmUp THEN "upG" ELSE "idle")

\* A checked step is refused: the call returns false where it stands.
batchFails == fails(AfterBatch)

upG == writes("upG", "G", TRUE, "G")
gemmRows == writes("gemmRows", "tmp", Holds("G", "G"), "rows")
putRows == adds("putRows", "P", Holds("tmp", "rows"), "rows")
gemmCols == writes("gemmCols", "tmp2", Holds("G", "G") /\ Holds("P", "rows"), "cols")
putCols == adds("putCols", "P", Holds("tmp2", "cols"), "cols")
poseDiag == adds("poseDiag", "P", TRUE, "noise")
compose == adds("compose", "x", TRUE, "mean")
covDiag == adds("covDiag", "P", TRUE, "limo")

motionPropagate == \/ upG \/ gemmRows \/ putRows \/ gemmCols \/ putCols
                   \/ poseDiag \/ compose \/ covDiag

setVec == adds("setVec", "x", TRUE, "mean")
upPose == step("upPose", "x", mirror.x)
upBlock == step("upBlock", "P", mirror.P)
writeBack == setVec \/ upPose \/ upBlock

\* A step nobody checks is refused: the call goes on without its result.
skipped == /\ pc \in (BatchSteps \cup MotionSteps) \ Checked /\ MayRefuse
           /\ answer' = (pc = "batchSync" \/ answer)
           /\ refused' = IF pc \in MotionSteps /\ device = "up" THEN refused \cup {call}
                                                              ELSE refused
           /\ pc' = After[pc]
           /\ UNCHANGED <<others, dev, filled>>

-----------------------------------------------------------------------------
(* Construction *)

\* Mutant of alloc_scratch: the capacity is noted before the buffers are there.
alloc_scratchEarly(done) ==
    /\ rows' = [b \in Sized |-> IF ScratchOrder[b] <= done THEN two_m ELSE rows[b]]
    /\ cap_two_m' = two_m

\* alloc_scratch: the first done buffers are resized; the capacity follows when
\* all are.
alloc_scratch(done) ==
    /\ rows' = [b \in Sized |-> IF ScratchOrder[b] <= done THEN two_m ELSE rows[b]]
    /\ cap_two_m' = IF done = 7 THEN two_m ELSE cap_two_m

\* The device comes up; the constructor goes on to warm the libraries up with a
\* throwaway update of two rows and a motion.
construct ==
    /\ pc = "construct" /\ device = "up"
    /\ peer' = "cuda"
    /\ rows' = [b \in Sized |-> max_two_m] /\ cap_two_m' = max_two_m
    /\ filled' = [filled EXCEPT !["P"] = Diagonal]
    /\ call' = WarmUp /\ two_m' = 2
    /\ pc' = "batch"
    /\ UNCHANGED <<device, dev, mirror, answer, before, refused>>

\* Any of the setup calls fails, or the build has no CUDA, or the device is gone
\* after the warm-up: the factory returns the CPU peer.
fallBack ==
    /\ \/ pc = "construct"
       \/ pc = "restore" /\ device = "lost"
    /\ peer' = "cpu"
    /\ dev' = Empty /\ filled' = AllZero /\ refused' = {}
    /\ call' = NoCall
    /\ pc' = "idle"
    /\ UNCHANGED <<device, rows, cap_two_m, mirror, two_m, answer, before>>

constructed(contents) ==
    /\ pc = "restore" /\ device = "up"
    /\ dev' = contents /\ filled' = AllZero /\ refused' = {}
    /\ call' = NoCall
    /\ pc' = "idle"
    /\ UNCHANGED <<peer, device, rows, cap_two_m, mirror, two_m, answer, before>>

\* k_init_diag rewrites the diagonal of P, and x is set to zero: what the warm-up did
\* to P is undone if all of it is on the diagonal.
restore == constructed([dev EXCEPT !["x"] = {},
                                   !["P"] = IF filled["P"] \subseteq Diagonal THEN {} ELSE @])

-----------------------------------------------------------------------------
(* The calls of EKFOdom *)

enter(by, next) ==
    /\ pc = "idle" /\ call.n < MaxCalls
    /\ call' = [by |-> by, n |-> call.n + 1]
    /\ before' = [x |-> dev.x, P |-> dev.P]
    /\ pc' = next
    /\ UNCHANGED <<peer, device, rows, cap_two_m, dev, filled, answer, refused>>

predict == enter("predict", "upG") /\ UNCHANGED <<mirror, two_m>>

marked(m, b, what) == [m EXCEPT ![b] = @ \cup {<<what, call'>>}]

\* A new landmark: into x_, then to the backend.
insertLandmark == /\ enter("insert", "setVec")
                  /\ mirror' = marked(mirror, "x", "mean")
                  /\ UNCHANGED two_m

\* The full-state joint update of a scan.
fullState == /\ enter("update", "batch")
             /\ two_m' \in RowCounts
             /\ UNCHANGED mirror

\* The rigid-map update: on the mirrors, then written back.
rigid == /\ enter("rigid", "upPose")
         /\ mirror' = marked(marked(mirror, "x", "mean"), "P", "update")
         /\ UNCHANGED two_m

Grows == peer = "cuda" /\ two_m > cap_two_m
scratchOthers == <<peer, device, dev, filled, mirror, call, two_m, before, refused>>

\* The scan fits the scratch buffers, or they grow.
begin == /\ pc = "batch"
         /\ IF Grows THEN device = "up" /\ alloc_scratch(7)
                     ELSE UNCHANGED <<rows, cap_two_m>>
         /\ pc' = "upH"
         /\ UNCHANGED <<scratchOthers, answer>>

\* The allocation fails after some of the buffers.
growFails == /\ pc = "batch" /\ Grows
             /\ device = "lost" \/ "grow" \in Refusable
             /\ \E done \in 0..6 : alloc_scratch(done)
             /\ answer' = FALSE
             /\ pc' = AfterBatch
             /\ UNCHANGED scratchOthers

Garbage == {<<"garbage", NoCall>>}

\* syncFromBackend: a download that fails leaves what the host buffer held.
download(name, b) ==
    /\ pc = name
    /\ mirror' = [mirror EXCEPT ![b] = IF Completes THEN dev[b] ELSE Garbage]
    /\ pc' = After[name]
    /\ UNCHANGED <<peer, device, rows, cap_two_m, dev, filled, call, two_m, answer, before,
                   refused>>

syncFromBackend == download("downX", "x") \/ download("downP", "P")

Lose == /\ device = "up" /\ peer = "cuda"
        /\ device' = "lost"
        /\ UNCHANGED <<peer, rows, cap_two_m, dev, filled, mirror, pc, call, two_m, answer,
                       before, refused>>

Quiet == pc = "idle" /\ call.n = MaxCalls /\ UNCHANGED cudaVars

Next == \/ construct \/ fallBack \/ restore
        \/ predict \/ insertLandmark \/ fullState \/ rigid
        \/ begin \/ growFails \/ batchUpdateFullState \/ batchFails
        \/ motionPropagate \/ writeBack \/ skipped \/ syncFromBackend
        \/ Lose \/ Quiet

Spec == Init /\ [][Next]_cudaVars

-----------------------------------------------------------------------------
(* Properties *)

InUse == pc \in BatchSteps /\ peer = "cuda"
AllCalls == Calls \cup {NoCall, WarmUp}
What == {"H", "R", "nu", "HP", "S", "LU", "K", "G", "rows", "cols", "noise", "limo",
         "mean", "update", "junk", "garbage"}
TypeOK == /\ peer \in {"none", "cuda", "cpu"} /\ device \in {"up", "lost"}
          /\ rows \in [Sized -> Nat] /\ cap_two_m \in Nat
          /\ dev \in [Buffers -> SUBSET (What \X AllCalls)]
          /\ \A b \in Buffers \ Resident : Cardinality(dev[b]) <= 1
          /\ filled \in [Matrices -> SUBSET Entries]
          /\ mirror \in [Resident -> SUBSET (What \X AllCalls)]
          /\ pc \in {"construct", "restore", "idle", "batch", "downX", "downP"}
                        \cup BatchSteps \cup MotionSteps
          /\ call \in AllCalls /\ two_m \in Nat
          /\ answer \in BOOLEAN

\* No scan is written past a scratch buffer, whatever growth failed before it.
BuffersFit == InUse => \A b \in Sized : two_m <= rows[b]

\* A backend the factory hands out is in the state EKFOdom's mirrors start from: the
\* warm-up has written nothing that the constructor does not write over ("these
\* mirrors start consistent with it", ekf_odom.cpp:24-25).
StartsClean == pc = "idle" /\ call.n = 0 => dev.x = {} /\ dev.P = {}

\* Between calls the mirrors hold what the backend holds, after an update that
\* failed too, as long as the backend can be read.
MirrorFresh ==
    pc = "idle" /\ Completes => mirror.x = dev.x /\ mirror.P = dev.P

\* Nothing computed from the factors of another call gets into the state, except
\* through a product of a motion that was refused without anyone looking.
JunkTraced ==
    pc # "restore" /\ call # WarmUp =>
        \A b \in Resident, c \in Calls : <<"junk", c>> \in dev[b] => c \in refused

\* An update is acknowledged only when the device has done all of it.
Acknowledged == pc \in BatchSteps /\ pc' \notin BatchSteps /\ answer'
WholeUpdate == Completes /\ <<"mean", call>> \in dev.x /\ <<"update", call>> \in dev.P
TrueIsWhole == [][Acknowledged => WholeUpdate]_cudaVars

\* What the filter gets from the backend, seen between calls.
Settled == IF pc = "idle" THEN dev ELSE before
Absorbed(c) == CASE c.by = "predict" -> {"rows", "cols", "noise", "limo"}
                 [] c.by = "insert" -> {"nothing"}
                 [] OTHER -> {"update"}
Reachable == ~(peer = "cuda" /\ device = "lost" /\ call # WarmUp)
Contract == INSTANCE BackendContract WITH
    Spoiled <- NoCall,
    mean <- IF Reachable THEN {c \in Calls : <<"mean", c>> \in Settled.x} ELSE {},
    cov <- IF Reachable
             THEN {c \in Calls : \A what \in Absorbed(c) : <<what, c>> \in Settled.P}
                    \cup (IF \E c \in Calls : <<"junk", c>> \in Settled.P
                            THEN {NoCall} ELSE {})
             ELSE {},
    reachable <- Reachable
PeerContract == Contract!Spec

\* "@return false on any CUDA/cuBLAS/cuSOLVER failure (state left unchanged)"
\* (cuda_backend.hpp:67).
FailureLeavesState ==
    pc = "downX" /\ call.by = "update" /\ ~answer
        => dev.x = before.x /\ dev.P = before.P
=============================================================================
