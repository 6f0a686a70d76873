-------------------------- MODULE CudaBackendProofs --------------------------
(***************************************************************************)
(* What CudaBackend promises for every size of scan, every set of steps    *)
(* that may be refused and any number of calls.  CallShape says which call *)
(* a step can belong to; the rest of the invariant says, step by step,     *)
(* what the buffers and the mirrors hold.                                  *)
(***************************************************************************)
EXTENDS CudaBackend, TLAPS

UpdateSteps == {"batch"} \cup BatchSteps
WarmMotion == {"upG", "gemmRows", "putRows", "gemmCols", "putCols", "poseDiag", "compose"}

CallShape ==
    /\ call \in AllCalls
    /\ peer = "none" => pc = "construct"
    /\ pc = "construct" => call = NoCall
    /\ call = NoCall => pc \in {"construct", "idle"}
    /\ call = WarmUp => peer = "cuda" /\ pc \in UpdateSteps \cup WarmMotion \cup {"restore"}
    /\ pc = "restore" => call = WarmUp
    /\ pc \in UpdateSteps => call = WarmUp \/ call.by = "update"
    /\ pc \in WarmMotion => call = WarmUp \/ call.by = "predict"
    /\ pc = "covDiag" => call.by = "predict"
    /\ pc = "setVec" => call.by = "insert"
    /\ pc \in {"downX", "downP"} => call.by \in {"predict", "update"}
    /\ pc = "upPose" => call.by \in {"update", "rigid"}
    /\ pc = "upBlock" => call.by = "rigid"

\* The throwaway calls of the construction are none of the filter's.
LEMMA CallFacts ==
    /\ NoCall.by = "none" /\ NoCall.n = 0 /\ WarmUp.by = "warmUp" /\ WarmUp.n = 0
    /\ NoCall # WarmUp /\ NoCall \notin Calls /\ WarmUp \notin Calls
    /\ \A c \in Calls : /\ c.by \in {"predict", "insert", "update", "rigid"}
                        /\ c.n \in Nat /\ c.n > 0 /\ c.n <= MaxCalls
    /\ \A c \in AllCalls : c.n \in Nat /\ c.n <= MaxCalls
    /\ MaxCalls \in Nat
  BY CudaAssumption DEF NoCall, WarmUp, Calls, AllCalls, Kinds

\* The order of the steps, one by one.
LEMMA AfterFacts ==
    /\ After["upH"] = "upR" /\ After["upR"] = "upNu" /\ After["upNu"] = "gemmHP"
    /\ After["gemmHP"] = "gemmS" /\ After["gemmS"] = "copyKt" /\ After["copyKt"] = "getrf"
    /\ After["getrf"] = "getrs" /\ After["getrs"] = "gemvX" /\ After["gemvX"] = "gemmP"
    /\ After["gemmP"] = "batchSync" /\ After["batchSync"] = AfterBatch
    /\ After["upG"] = "gemmRows" /\ After["gemmRows"] = "putRows"
    /\ After["putRows"] = "gemmCols" /\ After["gemmCols"] = "putCols"
    /\ After["putCols"] = "poseDiag" /\ After["poseDiag"] = "compose"
    /\ After["compose"] = IF call = WarmUp THEN "restore" ELSE "covDiag"
    /\ After["covDiag"] = "downX" /\ After["setVec"] = "idle"
    /\ After["downX"] = "downP"
    /\ After["downP"] = IF call.by = "update" THEN "upPose" ELSE "idle"
    /\ After["upPose"] = IF call.by = "rigid" THEN "upBlock" ELSE "idle"
    /\ After["upBlock"] = "idle"
  BY DEF After

\* The steps of a batch update are the checked ones.
LEMMA StepSets ==
    /\ BatchSteps = {"upH", "upR", "upNu", "gemmHP", "gemmS", "copyKt", "getrf", "getrs",
                     "gemvX", "gemmP", "batchSync"}
    /\ (BatchSteps \cup MotionSteps) \ Checked = MotionSteps
    /\ MotionSteps = WarmMotion \cup {"covDiag", "setVec", "upPose", "upBlock"}
    /\ MotionSteps \cap BatchSteps = {}
  BY DEF BatchSteps, MotionSteps, Checked, WarmMotion

\* A call entered from "idle".
LEMMA EnterFacts ==
    ASSUME CallShape, NEW by \in Kinds, NEW next, enter(by, next)
    PROVE  /\ pc = "idle" /\ pc' = next /\ call' \in Calls /\ call'.by = by
           /\ call' # NoCall /\ call' # WarmUp /\ call # WarmUp
           /\ UNCHANGED <<peer, device, rows, cap_two_m, dev, answer, refused>>
           /\ before' = [x |-> dev.x, P |-> dev.P]
<1>1. call' = [by |-> by, n |-> call.n + 1] /\ call.n < MaxCalls /\ call.n \in Nat
  BY CallFacts DEF enter, CallShape
<1>2. call' \in Calls
  BY <1>1, CallFacts DEF Calls
<1> QED BY <1>1, <1>2, CallFacts DEF enter, CallShape, UpdateSteps, BatchSteps, WarmMotion

\* The steps that change neither the peer nor the call only have to keep to After.
LEMMA SameCallShape ==
    ASSUME CallShape, peer' = peer, call' = call, pc # "construct", pc # "idle",
           pc # "restore",
           \/ pc' = After[pc] /\ pc # "batch"
           \/ pc = "batch" /\ pc' = "upH"
           \/ pc \in UpdateSteps /\ pc' = AfterBatch
           \/ pc' = pc,
           pc \in UpdateSteps \cup MotionSteps \cup {"downX", "downP"}
    PROVE  CallShape'
  BY AfterFacts, CallFacts
  DEF CallShape, UpdateSteps, BatchSteps, WarmMotion, MotionSteps, AfterBatch

\* Every step of a call on the device is a step() or the synchronisation.
LEMMA DeviceStep ==
    ASSUME NEW name, NEW b, NEW contents, step(name, b, contents)
    PROVE  /\ pc = name /\ Completes /\ pc' = After[name]
           /\ dev' = [dev EXCEPT ![b] = contents]
           /\ UNCHANGED <<peer, device, rows, cap_two_m, mirror, call, two_m, before,
                          answer, refused>>
  BY DEF step, others

\* A step on the device completes, belongs to the call in progress, and leaves the bookkeeping alone.
LEMMA DeviceShape ==
    ASSUME CallShape, batchUpdateFullState \/ motionPropagate \/ writeBack
    PROVE  /\ CallShape' /\ Completes
           /\ pc \in BatchSteps \cup MotionSteps /\ pc' = After[pc]
           /\ UNCHANGED <<peer, device, rows, cap_two_m, mirror, call, two_m, before, refused>>
<1>1. /\ Completes /\ pc \in BatchSteps \cup MotionSteps /\ pc' = After[pc]
      /\ UNCHANGED <<peer, device, rows, cap_two_m, mirror, call, two_m, before, refused>>
  <2>1. CASE batchUpdateFullState
    <3>1. CASE batchSync
      BY <3>1, AfterFacts DEF batchSync, others, BatchSteps
    <3>2. CASE ~batchSync
      BY <2>1, <3>2, DeviceStep DEF batchUpdateFullState, upH, upR, upNu, gemmHP, gemmS, copyKt,
         getrf, getrs, gemvX, gemmP, writes, adds, BatchSteps
    <3> QED BY <3>1, <3>2
  <2>2. CASE motionPropagate
    BY <2>2, DeviceStep DEF motionPropagate, upG, gemmRows, putRows, gemmCols, putCols, poseDiag,
       compose, covDiag, writes, adds, MotionSteps
  <2>3. CASE writeBack
    BY <2>3, DeviceStep DEF writeBack, setVec, upPose, upBlock, adds, MotionSteps
  <2> QED BY <2>1, <2>2, <2>3
<1>2. pc # "construct" /\ pc # "idle" /\ pc # "restore" /\ pc # "batch"
  BY <1>1 DEF BatchSteps, MotionSteps
<1>3. CallShape'
  BY <1>1, <1>2, SameCallShape DEF UpdateSteps
<1> QED BY <1>1, <1>3

\* A refused step nobody checks is one of a motion or a write-back; it changes nothing.
LEMMA SkippedFacts ==
    ASSUME skipped
    PROVE  /\ pc \in MotionSteps /\ pc' = After[pc] /\ MayRefuse
           /\ UNCHANGED <<peer, device, rows, cap_two_m, mirror, call, two_m, before, dev>>
           /\ refused' = IF device = "up" THEN refused \cup {call} ELSE refused
<1>1. pc \in MotionSteps
  BY StepSets DEF skipped
<1>2. pc' = After[pc] /\ MayRefuse
  BY DEF skipped
<1>3. UNCHANGED <<peer, device, rows, cap_two_m, mirror, call, two_m, before, dev>>
  BY DEF skipped, others
<1>4. refused' = IF device = "up" THEN refused \cup {call} ELSE refused
  BY <1>1 DEF skipped
<1> QED BY <1>1, <1>2, <1>3, <1>4

\* No step strays into a call of another kind.
LEMMA NextCallShape ==
    ASSUME CallShape, [Next]_cudaVars
    PROVE  CallShape'
<1>1. CASE construct
  BY <1>1, CallFacts DEF construct, CallShape, UpdateSteps, BatchSteps, WarmMotion, AllCalls
<1>2. CASE fallBack
  BY <1>2, CallFacts DEF fallBack, CallShape, UpdateSteps, BatchSteps, WarmMotion, AllCalls
<1>3. CASE restore
  BY <1>3, CallFacts DEF restore, constructed, CallShape, UpdateSteps, BatchSteps, WarmMotion,
     AllCalls
<1>4. CASE predict \/ insertLandmark \/ fullState \/ rigid
  <2> USE DEF Kinds
  <2>1. CASE predict
    <3>1. enter("predict", "upG")
      BY <2>1 DEF predict
    <3> QED BY <3>1, EnterFacts DEF CallShape, UpdateSteps, BatchSteps, WarmMotion, AllCalls
  <2>2. CASE insertLandmark
    <3>1. enter("insert", "setVec")
      BY <2>2 DEF insertLandmark
    <3> QED BY <3>1, EnterFacts DEF CallShape, UpdateSteps, BatchSteps, WarmMotion, AllCalls
  <2>3. CASE fullState
    <3>1. enter("update", "batch")
      BY <2>3 DEF fullState
    <3> QED BY <3>1, EnterFacts DEF CallShape, UpdateSteps, BatchSteps, WarmMotion, AllCalls
  <2>4. CASE rigid
    <3>1. enter("rigid", "upPose")
      BY <2>4 DEF rigid
    <3> QED BY <3>1, EnterFacts DEF CallShape, UpdateSteps, BatchSteps, WarmMotion, AllCalls
  <2> QED BY <1>4, <2>1, <2>2, <2>3, <2>4
<1>5. CASE begin \/ growFails
  BY <1>5, SameCallShape DEF begin, growFails, scratchOthers, UpdateSteps, BatchSteps
<1>6. CASE batchUpdateFullState \/ motionPropagate \/ writeBack
  BY <1>6, DeviceShape
<1>7. CASE batchFails \/ skipped
  <2>1. /\ peer' = peer /\ call' = call /\ pc \in BatchSteps \cup MotionSteps
        /\ pc' = After[pc] \/ (pc \in UpdateSteps /\ pc' = AfterBatch)
    <3>1. CASE batchFails
      BY <3>1 DEF batchFails, fails, others, Checked, UpdateSteps
    <3>2. CASE skipped
      BY <3>2, SkippedFacts
    <3> QED BY <1>7, <3>1, <3>2
  <2> QED BY <2>1, SameCallShape DEF UpdateSteps, BatchSteps, MotionSteps
<1>8. CASE syncFromBackend
  BY <1>8, SameCallShape DEF syncFromBackend, download
<1>9. CASE Lose \/ Quiet \/ UNCHANGED cudaVars
  BY <1>9 DEF Lose, Quiet, cudaVars, CallShape
<1> QED BY <1>1, <1>2, <1>3, <1>4, <1>5, <1>6, <1>7, <1>8, <1>9 DEF Next

\* The construction has no call.
LEMMA InitCallShape == Init => CallShape
  BY CallFacts DEF Init, CallShape, UpdateSteps, BatchSteps, WarmMotion, AllCalls

\* Every step belongs to a call of its kind.
THEOREM CudaCallShape == Spec => []CallShape
<1>1. Init => CallShape
  BY InitCallShape
<1>2. CallShape /\ [Next]_cudaVars => CallShape'
  BY NextCallShape
<1> QED BY <1>1, <1>2, PTL DEF Spec

-----------------------------------------------------------------------------
(* The matrices of the warm-up *)

\* Every matrix the warm-up works on is diagonal.
WarmUpDiagonal == filled \in [Matrices -> SUBSET Diagonal]

\* A product of two diagonal matrices, and a transposed one, is diagonal.
LEMMA DiagonalProduct ==
    ASSUME NEW A \in SUBSET Diagonal, NEW B \in SUBSET Diagonal
    PROVE  Product(A, B) \subseteq Diagonal
<1> SUFFICES ASSUME NEW p \in Product(A, B) PROVE p[1] = p[2]
  BY DEF Product, Diagonal
<1>1. PICK j \in 0..dim - 1 : <<p[1], j>> \in A /\ <<j, p[2]>> \in B
  BY DEF Product
<1>2. <<p[1], j>> \in Diagonal /\ <<j, p[2]>> \in Diagonal
  BY <1>1
<1> QED BY <1>2 DEF Diagonal

LEMMA DiagonalTransposed ==
    ASSUME NEW A \in SUBSET Diagonal
    PROVE  Transposed(A) \subseteq Diagonal
<1> SUFFICES ASSUME NEW p \in A PROVE <<p[2], p[1]>> \in Diagonal
  BY DEF Transposed
<1> QED BY DEF Diagonal, Entries

\* What the steps of the warm-up put into a matrix is diagonal.
WarmUpWrites == {"upH", "upR", "gemmHP", "gemmS", "copyKt", "getrf", "getrs", "gemmP", "upG",
                 "gemmRows", "putRows", "gemmCols", "putCols", "poseDiag"}
LEMMA SupportDiagonal ==
    ASSUME WarmUpDiagonal, NEW name \in WarmUpWrites
    PROVE  Support(name) \subseteq Diagonal
<1>1. \A b \in Matrices : filled[b] \in SUBSET Diagonal
  BY DEF WarmUpDiagonal
<1>2. /\ filled["P"] \in SUBSET Diagonal /\ filled["H"] \in SUBSET Diagonal
      /\ filled["S"] \in SUBSET Diagonal /\ filled["HP"] \in SUBSET Diagonal
      /\ filled["Kt"] \in SUBSET Diagonal /\ filled["G"] \in SUBSET Diagonal
      /\ filled["tmp"] \in SUBSET Diagonal /\ filled["tmp2"] \in SUBSET Diagonal
  BY <1>1 DEF Matrices
<1>3. /\ WarmUpH \subseteq Diagonal /\ WarmUpR \subseteq Diagonal
      /\ PoseDiagonal \subseteq Diagonal
  BY DEF WarmUpH, WarmUpR, PoseDiagonal, Diagonal
<1>4. CASE name \in {"upH", "upR", "copyKt", "upG", "poseDiag"}
  BY <1>2, <1>3, <1>4 DEF Support
<1>5. CASE name \in {"gemmHP", "getrs", "gemmRows"}
  BY <1>2, <1>5, DiagonalProduct DEF Support
<1>6. CASE name = "gemmS"
  <2>1. Product(filled["HP"], Transposed(filled["H"])) \subseteq Diagonal
    BY <1>2, DiagonalProduct, DiagonalTransposed
  <2> QED BY <1>2, <1>6, <2>1 DEF Support
<1>7. CASE name = "getrf"
  BY <1>2, <1>7 DEF Support
<1>8. CASE name = "gemmP"
  <2>1. Product(Transposed(filled["Kt"]), filled["HP"]) \subseteq Diagonal
    BY <1>2, DiagonalProduct, DiagonalTransposed
  <2> QED BY <1>2, <1>8, <2>1 DEF Support
<1>9. CASE name = "gemmCols"
  <2>1. Product(filled["P"], Transposed(filled["G"])) \subseteq Diagonal
    BY <1>2, DiagonalProduct, DiagonalTransposed
  <2> QED BY <1>9, <2>1 DEF Support
<1>10. CASE name \in {"putRows", "putCols"}
  BY <1>2, <1>10 DEF Support
<1> QED BY <1>4, <1>5, <1>6, <1>7, <1>8, <1>9, <1>10 DEF WarmUpWrites

\* A step of the warm-up keeps them diagonal; the other calls are not followed.
LEMMA StepDiagonal ==
    ASSUME WarmUpDiagonal, NEW name, NEW b, NEW contents, step(name, b, contents),
           call = WarmUp /\ b \in Matrices => name \in WarmUpWrites
    PROVE  WarmUpDiagonal'
<1>1. CASE call = WarmUp /\ b \in Matrices
  <2>1. Support(name) \in SUBSET Diagonal
    BY <1>1, SupportDiagonal
  <2>2. filled' = [filled EXCEPT ![b] = Support(name)]
    BY <1>1 DEF step
  <2> QED BY <2>1, <2>2 DEF WarmUpDiagonal
<1>2. CASE ~(call = WarmUp /\ b \in Matrices)
  BY <1>2 DEF step, WarmUpDiagonal
<1> QED BY <1>1, <1>2

LEMMA NextWarmUpDiagonal ==
    ASSUME CallShape, WarmUpDiagonal, [Next]_cudaVars
    PROVE  WarmUpDiagonal'
<1>1. CASE construct
  BY <1>1 DEF construct, WarmUpDiagonal
<1>2. CASE fallBack \/ restore
  BY <1>2 DEF fallBack, restore, constructed, AllZero, WarmUpDiagonal
<1>3. CASE batchUpdateFullState
  <2>1. CASE batchSync
    BY <2>1 DEF batchSync, WarmUpDiagonal
  <2>2. CASE upNu \/ gemvX
    <3>1. "nu" \notin Matrices /\ "x" \notin Matrices
      BY DEF Matrices
    <3> QED BY <2>2, <3>1, StepDiagonal DEF upNu, gemvX, writes, adds
  <2>3. CASE upH \/ upR \/ gemmHP \/ gemmS \/ copyKt \/ getrf \/ getrs \/ gemmP
    BY <2>3, StepDiagonal
    DEF upH, upR, gemmHP, gemmS, copyKt, getrf, getrs, gemmP, writes, adds, WarmUpWrites
  <2> QED BY <1>3, <2>1, <2>2, <2>3 DEF batchUpdateFullState
<1>4. CASE motionPropagate
  <2>1. CASE compose
    <3>1. "x" \notin Matrices
      BY DEF Matrices
    <3> QED BY <2>1, <3>1, StepDiagonal DEF compose, adds
  <2>2. CASE covDiag
    <3>1. call # WarmUp
      BY <2>2, DeviceStep DEF covDiag, adds, CallShape, UpdateSteps, BatchSteps, WarmMotion
    <3> QED BY <2>2, <3>1, StepDiagonal DEF covDiag, adds
  <2>3. CASE upG \/ gemmRows \/ putRows \/ gemmCols \/ putCols \/ poseDiag
    BY <2>3, StepDiagonal
    DEF upG, gemmRows, putRows, gemmCols, putCols, poseDiag, writes, adds, WarmUpWrites
  <2> QED BY <1>4, <2>1, <2>2, <2>3 DEF motionPropagate
<1>5. CASE writeBack
  <2>1. call # WarmUp
    BY <1>5, DeviceStep DEF writeBack, setVec, upPose, upBlock, adds, CallShape, UpdateSteps,
       BatchSteps, WarmMotion
  <2> QED BY <1>5, <2>1, StepDiagonal DEF writeBack, setVec, upPose, upBlock, adds
<1>6. CASE batchFails \/ skipped \/ begin \/ growFails \/ syncFromBackend
  BY <1>6 DEF batchFails, fails, skipped, begin, growFails, scratchOthers, syncFromBackend,
     download, WarmUpDiagonal
<1>7. CASE predict \/ insertLandmark \/ fullState \/ rigid
  BY <1>7 DEF predict, insertLandmark, fullState, rigid, enter, WarmUpDiagonal
<1>8. CASE Lose \/ Quiet \/ UNCHANGED cudaVars
  BY <1>8 DEF Lose, Quiet, cudaVars, WarmUpDiagonal
<1> QED BY <1>1, <1>2, <1>3, <1>4, <1>5, <1>6, <1>7, <1>8 DEF Next

\* The throwaway update and motion never fill an entry of P off its diagonal, the only
\* part of P the constructor writes again.
THEOREM CudaWarmUpDiagonal == Spec => []WarmUpDiagonal
<1>1. Init => WarmUpDiagonal
  BY DEF Init, AllZero, WarmUpDiagonal
<1>2. CallShape /\ WarmUpDiagonal /\ [Next]_cudaVars => WarmUpDiagonal'
  BY NextWarmUpDiagonal
<1> QED BY <1>1, <1>2, CudaCallShape, PTL DEF Spec

-----------------------------------------------------------------------------
(* The scratch buffers *)

\* The capacity is never above what the smallest buffer has room for: it follows
\* the buffers, and a growth that stops half way leaves it behind them.
RowsInv == /\ rows \in [Sized -> Nat] /\ cap_two_m \in Nat /\ two_m \in Nat
           /\ \A b \in Sized : cap_two_m <= rows[b]
           /\ BuffersFit

\* There are seven scratch buffers, in an order.
LEMMA ScratchOrders == \A b \in Sized : ScratchOrder[b] \in Nat /\ ScratchOrder[b] <= 7
  BY DEF Sized, ScratchOrder

\* A growth that stops half way leaves the capacity below every buffer.
LEMMA GrowthFits ==
    ASSUME RowsInv, two_m > cap_two_m, NEW done \in 0..7, alloc_scratch(done)
    PROVE  /\ rows' \in [Sized -> Nat] /\ cap_two_m' \in Nat
           /\ \A b \in Sized : cap_two_m' <= rows'[b]
           /\ done = 7 => \A b \in Sized : two_m <= rows'[b]
<1>1. /\ rows' = [b \in Sized |-> IF ScratchOrder[b] <= done THEN two_m ELSE rows[b]]
      /\ cap_two_m' = IF done = 7 THEN two_m ELSE cap_two_m
  BY DEF alloc_scratch
<1>2. \A b \in Sized : rows'[b] = IF ScratchOrder[b] <= done THEN two_m ELSE rows[b]
  BY <1>1
<1>3. \A b \in Sized : rows[b] \in Nat /\ cap_two_m <= rows[b]
  BY DEF RowsInv
<1> QED BY <1>1, <1>2, <1>3, ScratchOrders DEF RowsInv

\* No call leaves the capacity above a buffer.
LEMMA NextRows ==
    ASSUME CallShape, RowsInv, [Next]_cudaVars
    PROVE  RowsInv'
<1>1. CASE construct
  <2>1. /\ \A b \in Sized : rows'[b] = max_two_m
        /\ rows' \in [Sized -> Nat] /\ cap_two_m' = max_two_m /\ max_two_m \in Nat
        /\ two_m' = 2 /\ pc' = "batch"
    BY <1>1, CudaAssumption DEF construct
  <2> QED BY <2>1 DEF RowsInv, BuffersFit, InUse, BatchSteps
<1>2. CASE begin
  <2>1. CASE Grows
    <3>1. alloc_scratch(7) /\ two_m' = two_m /\ two_m > cap_two_m
      BY <1>2, <2>1 DEF begin, Grows, scratchOthers
    <3> QED BY <3>1, GrowthFits DEF RowsInv, BuffersFit
  <2>2. CASE ~Grows
    <3>1. UNCHANGED <<rows, cap_two_m, two_m, peer>>
      BY <1>2, <2>2 DEF begin, scratchOthers
    <3>2. peer = "cuda" => two_m <= cap_two_m
      BY <2>2 DEF Grows, RowsInv
    <3> QED BY <3>1, <3>2 DEF RowsInv, BuffersFit, InUse
  <2> QED BY <2>1, <2>2
<1>3. CASE growFails
  <2>1. PICK done \in 0..6 : alloc_scratch(done)
    BY <1>3 DEF growFails
  <2>2. two_m > cap_two_m /\ two_m' = two_m /\ pc' \notin BatchSteps
    BY <1>3, AfterFacts DEF growFails, Grows, scratchOthers, AfterBatch, BatchSteps
  <2> QED BY <2>1, <2>2, GrowthFits DEF RowsInv, BuffersFit, InUse
<1>4. CASE predict \/ insertLandmark \/ fullState \/ rigid
  <2>1. rows' = rows /\ cap_two_m' = cap_two_m /\ pc' \notin BatchSteps
    BY <1>4 DEF predict, insertLandmark, fullState, rigid, enter, BatchSteps
  <2>2. two_m' \in Nat
    BY <1>4, CudaAssumption DEF predict, insertLandmark, fullState, rigid, RowsInv
  <2> QED BY <2>1, <2>2 DEF RowsInv, BuffersFit, InUse
<1>5. CASE \/ batchUpdateFullState \/ motionPropagate \/ writeBack
           \/ batchFails \/ skipped
  <2>1. UNCHANGED <<rows, cap_two_m, two_m, peer>> /\ (pc' \in BatchSteps => pc \in BatchSteps)
    <3>1. CASE batchUpdateFullState \/ motionPropagate \/ writeBack
      BY <3>1, DeviceShape, AfterFacts DEF BatchSteps, MotionSteps
    <3>2. CASE batchFails \/ skipped
      BY <3>2, AfterFacts, StepSets
      DEF batchFails, fails, skipped, others, Checked, AfterBatch, MotionSteps
    <3> QED BY <1>5, <3>1, <3>2
  <2> QED BY <2>1 DEF RowsInv, BuffersFit, InUse
<1>6. CASE fallBack \/ restore \/ syncFromBackend
  <2>1. UNCHANGED <<rows, cap_two_m, two_m>> /\ pc' \notin BatchSteps
    BY <1>6, AfterFacts
    DEF fallBack, restore, constructed, syncFromBackend, download, BatchSteps
  <2> QED BY <2>1 DEF RowsInv, BuffersFit, InUse
<1>7. CASE Lose \/ Quiet \/ UNCHANGED cudaVars
  BY <1>7 DEF Lose, Quiet, cudaVars, RowsInv, BuffersFit, InUse
<1> QED BY <1>1, <1>2, <1>3, <1>4, <1>5, <1>6, <1>7 DEF Next

\* The capacity bounds every buffer, through every sequence of scan sizes and of
\* growths that fail anywhere.
THEOREM CudaRows == Spec => []RowsInv
<1>1. Init => RowsInv
  BY DEF Init, RowsInv, BuffersFit, InUse, BatchSteps
<1>2. CallShape /\ RowsInv /\ [Next]_cudaVars => RowsInv'
  BY NextRows
<1> QED BY <1>1, <1>2, CudaCallShape, PTL DEF Spec

\* No scan is written past a scratch buffer, for every sequence of scan sizes and
\* of growths that fail anywhere.
THEOREM CudaBuffersFit == Spec => []BuffersFit
<1>1. RowsInv => BuffersFit
  BY DEF RowsInv
<1> QED BY <1>1, CudaRows, PTL

-----------------------------------------------------------------------------
(* What the buffers hold *)

Contents == SUBSET (What \X AllCalls)

\* A scratch buffer holds one thing at most.
DevTyped == /\ dev \in [Buffers -> Contents]
            /\ \A b \in Buffers \ Resident : dev[b] = {} \/ \E e : dev[b] = {e}
            /\ mirror \in [Resident -> Contents]
            /\ before \in [Resident -> Contents]

\* A product is its result or junk.
LEMMA ProducedTyped ==
    ASSUME call \in AllCalls, NEW fresh \in BOOLEAN, NEW what \in What
    PROVE  /\ produced(fresh, what) \in Contents
           /\ produced(fresh, what) = {<<IF fresh THEN what ELSE "junk", call>>}
  BY DEF produced, Contents, What

\* The step leaves c in buffer b, and the rest alone.
Leaves(name, b, c) ==
    /\ DevTyped' /\ pc = name /\ pc' = After[name] /\ Completes
    /\ dev'[b] = c
    /\ \A o \in Buffers \ {b} : dev'[o] = dev[o]
    /\ UNCHANGED <<peer, device, mirror, call, two_m, before, answer, refused>>

\* A product into a scratch buffer replaces what was there.
LEMMA WriteFacts ==
    ASSUME DevTyped, CallShape, NEW name, NEW b \in Buffers \ Resident, NEW fresh \in BOOLEAN,
           NEW what \in What, writes(name, b, fresh, what)
    PROVE  Leaves(name, b, {<<IF fresh THEN what ELSE "junk", call>>})
<1>1. step(name, b, produced(fresh, what)) /\ call \in AllCalls
  BY DEF writes, CallShape
<1>2. /\ dev' = [dev EXCEPT ![b] = produced(fresh, what)]
      /\ UNCHANGED <<mirror, before>>
  BY <1>1, DeviceStep
<1>3. /\ dev' \in [Buffers -> Contents]
      /\ dev'[b] = {<<IF fresh THEN what ELSE "junk", call>>}
      /\ \A o \in Buffers \ {b} : dev'[o] = dev[o]
  BY <1>1, <1>2, ProducedTyped DEF DevTyped
<1>4. DevTyped'
  BY <1>2, <1>3 DEF DevTyped
<1> QED BY <1>1, <1>3, <1>4, DeviceStep DEF Leaves

\* A product into x or P adds to what was there.
LEMMA AddFacts ==
    ASSUME DevTyped, CallShape, NEW name, NEW b \in Resident, NEW fresh \in BOOLEAN,
           NEW what \in What, adds(name, b, fresh, what)
    PROVE  Leaves(name, b, dev[b] \cup {<<IF fresh THEN what ELSE "junk", call>>})
<1>1. step(name, b, dev[b] \cup produced(fresh, what)) /\ call \in AllCalls /\ b \in Buffers
  BY DEF adds, CallShape, Buffers
<1>2. /\ dev' = [dev EXCEPT ![b] = dev[b] \cup produced(fresh, what)]
      /\ UNCHANGED <<mirror, before>>
  BY <1>1, DeviceStep
<1>3. dev[b] \cup produced(fresh, what) \in Contents
  BY <1>1, ProducedTyped DEF DevTyped, Contents
<1>4. /\ dev' \in [Buffers -> Contents]
      /\ dev'[b] = dev[b] \cup {<<IF fresh THEN what ELSE "junk", call>>}
      /\ \A o \in Buffers \ {b} : dev'[o] = dev[o]
  BY <1>1, <1>2, <1>3, ProducedTyped DEF DevTyped
<1>5. DevTyped'
  BY <1>2, <1>4 DEF DevTyped
<1> QED BY <1>1, <1>4, <1>5, DeviceStep DEF Leaves

\* upPose and upBlock put a mirror in the place of a buffer.
LEMMA UploadFacts ==
    ASSUME DevTyped, NEW name, NEW b \in Resident, step(name, b, mirror[b])
    PROVE  Leaves(name, b, mirror[b])
<1>1. b \in Buffers /\ dev' = [dev EXCEPT ![b] = mirror[b]] /\ UNCHANGED <<mirror, before>>
  BY DeviceStep DEF Buffers
<1>2. /\ dev' \in [Buffers -> Contents] /\ dev'[b] = mirror[b]
      /\ \A o \in Buffers \ {b} : dev'[o] = dev[o]
  BY <1>1 DEF DevTyped
<1>3. DevTyped'
  BY <1>1, <1>2 DEF DevTyped
<1> QED BY <1>2, <1>3, DeviceStep DEF Leaves

\* The buffers and what they can hold, spelled out.
LEMMA BufferSets ==
    /\ Buffers = {"x", "P", "H", "S", "nu", "HP", "Kt", "G", "tmp", "tmp2"}
    /\ Resident = {"x", "P"}
    /\ What = {"H", "R", "nu", "HP", "S", "LU", "K", "G", "rows", "cols", "noise", "limo",
               "mean", "update", "junk", "garbage"}
  BY DEF Buffers, Resident, What

-----------------------------------------------------------------------------
(* The batch update works on its own factors *)

\* Every step of the batch update is checked, so that at each the factors it needs
\* are there.
Factors ==
    /\ pc \in {"upR", "upNu", "gemmHP", "gemmS"} => Holds("H", "H")
    /\ pc \in {"upNu", "gemmHP", "gemmS"} => Holds("S", "R")
    /\ pc \in {"gemmHP", "gemmS", "copyKt", "getrf", "getrs", "gemvX"} => Holds("nu", "nu")
    /\ pc \in {"gemmS", "copyKt", "getrf", "getrs", "gemvX", "gemmP"} => Holds("HP", "HP")
    /\ pc \in {"copyKt", "getrf"} => Holds("S", "S")
    /\ pc = "getrs" => Holds("S", "LU")
    /\ pc \in {"getrf", "getrs"} => Holds("Kt", "HP")
    /\ pc \in {"gemvX", "gemmP"} => Holds("Kt", "K")
    /\ pc \in {"gemmP", "batchSync"} => Holds("x", "mean")
    /\ pc = "batchSync" => Holds("P", "update")

\* A step of the batch update finds its factors, and leaves the next one's.
LEMMA BatchResults ==
    ASSUME DevTyped, Factors, CallShape
    PROVE  /\ upH => Leaves("upH", "H", {<<"H", call>>})
           /\ upR => Leaves("upR", "S", {<<"R", call>>})
           /\ upNu => Leaves("upNu", "nu", {<<"nu", call>>})
           /\ gemmHP => Leaves("gemmHP", "HP", {<<"HP", call>>})
           /\ gemmS => Leaves("gemmS", "S", {<<"S", call>>})
           /\ copyKt => Leaves("copyKt", "Kt", {<<"HP", call>>})
           /\ getrf => Leaves("getrf", "S", {<<"LU", call>>})
           /\ getrs => Leaves("getrs", "Kt", {<<"K", call>>})
           /\ gemvX => Leaves("gemvX", "x", dev["x"] \cup {<<"mean", call>>})
           /\ gemmP => Leaves("gemmP", "P", dev["P"] \cup {<<"update", call>>})
<1>0. /\ {"H", "S", "nu", "HP", "Kt"} \subseteq Buffers \ Resident
      /\ "x" \in Resident /\ "P" \in Resident
      /\ {"H", "R", "nu", "HP", "S", "LU", "K", "mean", "update"} \subseteq What
  BY BufferSets
<1> DEFINE fHP == Holds("H", "H")
           fS == Holds("HP", "HP") /\ Holds("H", "H") /\ Holds("S", "R")
           fKt == Holds("HP", "HP")
           fLU == Holds("S", "S")
           fK == Holds("S", "LU") /\ Holds("Kt", "HP")
           fX == Holds("Kt", "K") /\ Holds("nu", "nu")
           fP == Holds("Kt", "K") /\ Holds("HP", "HP")
<1>1. upH => Leaves("upH", "H", {<<"H", call>>})
  BY <1>0, WriteFacts DEF upH
<1>2. upR => Leaves("upR", "S", {<<"R", call>>})
  BY <1>0, WriteFacts DEF upR
<1>3. upNu => Leaves("upNu", "nu", {<<"nu", call>>})
  BY <1>0, WriteFacts DEF upNu
<1>4. ASSUME gemmHP PROVE Leaves("gemmHP", "HP", {<<"HP", call>>})
  <2>1. fHP = TRUE
    BY <1>4 DEF gemmHP, writes, step, Factors
  <2>2. writes("gemmHP", "HP", TRUE, "HP")
    BY <1>4, <2>1 DEF gemmHP
  <2> QED BY <1>0, <2>2, WriteFacts
<1>5. ASSUME gemmS PROVE Leaves("gemmS", "S", {<<"S", call>>})
  <2>1. fS = TRUE
    BY <1>5 DEF gemmS, writes, step, Factors
  <2>2. writes("gemmS", "S", TRUE, "S")
    BY <1>5, <2>1 DEF gemmS
  <2> QED BY <1>0, <2>2, WriteFacts
<1>6. ASSUME copyKt PROVE Leaves("copyKt", "Kt", {<<"HP", call>>})
  <2>1. fKt = TRUE
    BY <1>6 DEF copyKt, writes, step, Factors
  <2>2. writes("copyKt", "Kt", TRUE, "HP")
    BY <1>6, <2>1 DEF copyKt
  <2> QED BY <1>0, <2>2, WriteFacts
<1>7. ASSUME getrf PROVE Leaves("getrf", "S", {<<"LU", call>>})
  <2>1. fLU = TRUE
    BY <1>7 DEF getrf, writes, step, Factors
  <2>2. writes("getrf", "S", TRUE, "LU")
    BY <1>7, <2>1 DEF getrf
  <2> QED BY <1>0, <2>2, WriteFacts
<1>8. ASSUME getrs PROVE Leaves("getrs", "Kt", {<<"K", call>>})
  <2>1. fK = TRUE
    BY <1>8 DEF getrs, writes, step, Factors
  <2>2. writes("getrs", "Kt", TRUE, "K")
    BY <1>8, <2>1 DEF getrs
  <2> QED BY <1>0, <2>2, WriteFacts
<1>9. ASSUME gemvX PROVE Leaves("gemvX", "x", dev["x"] \cup {<<"mean", call>>})
  <2>1. fX = TRUE
    BY <1>9 DEF gemvX, adds, step, Factors
  <2>2. adds("gemvX", "x", TRUE, "mean")
    BY <1>9, <2>1 DEF gemvX
  <2> QED BY <1>0, <2>2, AddFacts
<1>10. ASSUME gemmP PROVE Leaves("gemmP", "P", dev["P"] \cup {<<"update", call>>})
  <2>1. fP = TRUE
    BY <1>10 DEF gemmP, adds, step, Factors
  <2>2. adds("gemmP", "P", TRUE, "update")
    BY <1>10, <2>1 DEF gemmP
  <2> QED BY <1>0, <2>2, AddFacts
<1> QED BY <1>1, <1>2, <1>3, <1>4, <1>5, <1>6, <1>7, <1>8, <1>9, <1>10

\* The next step's factors are there, and no junk has got into x or P.
NoNewJunk == \A b \in Resident, c \in AllCalls :
                <<"junk", c>> \in dev'[b] => <<"junk", c>> \in dev[b]

\* Each checked step of the batch update leaves the next one its factors.
LEMMA BatchStepFactors ==
    ASSUME DevTyped, Factors, CallShape, batchUpdateFullState
    PROVE  DevTyped' /\ Factors' /\ NoNewJunk /\ UNCHANGED <<call, refused, mirror>>
<1> USE BufferSets, AfterFacts, BatchResults
<1>1. CASE upH
  BY <1>1 DEF Leaves, Factors, Holds, NoNewJunk
<1>2. CASE upR
  BY <1>2 DEF Leaves, Factors, Holds, NoNewJunk
<1>3. CASE upNu
  BY <1>3 DEF Leaves, Factors, Holds, NoNewJunk
<1>4. CASE gemmHP
  BY <1>4 DEF Leaves, Factors, Holds, NoNewJunk
<1>5. CASE gemmS
  BY <1>5 DEF Leaves, Factors, Holds, NoNewJunk
<1>6. CASE copyKt
  BY <1>6 DEF Leaves, Factors, Holds, NoNewJunk
<1>7. CASE getrf
  BY <1>7 DEF Leaves, Factors, Holds, NoNewJunk
<1>8. CASE getrs
  BY <1>8 DEF Leaves, Factors, Holds, NoNewJunk
<1>9. CASE gemvX
  BY <1>9 DEF Leaves, Factors, Holds, NoNewJunk
<1>10. CASE gemmP
  BY <1>10 DEF Leaves, Factors, Holds, NoNewJunk
<1>11. CASE batchSync
  <2>1. pc' = AfterBatch /\ UNCHANGED <<dev, mirror, before, call, refused>>
    BY <1>11 DEF batchSync, others
  <2> QED BY <2>1 DEF DevTyped, AfterBatch, Factors, NoNewJunk
<1> QED BY <1>1, <1>2, <1>3, <1>4, <1>5, <1>6, <1>7, <1>8, <1>9, <1>10, <1>11
        DEF batchUpdateFullState

-----------------------------------------------------------------------------
(* Motions, and the mirrors *)

\* A motion's steps are not checked.  While the backend completes, only a product can
\* have been refused before this step, and then the call is on record.
MotionFactors ==
    Completes =>
        /\ pc \in {"gemmRows", "putRows", "gemmCols"} => Holds("G", "G")
        /\ pc = "putRows" => Holds("tmp", "rows") \/ call \in refused
        /\ pc = "gemmCols" => Holds("P", "rows") \/ call \in refused
        /\ pc = "putCols" => Holds("tmp2", "cols") \/ call \in refused

JunkKnown == \A b \in Resident, c \in Calls :
                <<"junk", c>> \in dev[b] \cup mirror[b] => c \in refused

\* How far the refresh of the mirrors has come.
MirrorPath ==
    /\ call.n = 0 => mirror["x"] = {} /\ mirror["P"] = {}
    /\ Completes =>
        /\ pc \in {"downP", "upBlock"} => mirror["x"] = dev["x"]
        /\ pc = "idle" \/ (pc = "upPose" /\ call.by = "update")
              => mirror["x"] = dev["x"] /\ mirror["P"] = dev["P"]
        /\ pc = "setVec" => /\ mirror["x"] = dev["x"] \cup {<<"mean", call>>}
                            /\ mirror["P"] = dev["P"]
    /\ StartsClean

CudaInv == /\ CallShape /\ DevTyped /\ Factors /\ MotionFactors /\ JunkKnown /\ MirrorPath

\* The outcome of a product: itself, or junk if the call is on record.
Outcome(name, b, old, what) ==
    \E w \in {what, "junk"} : /\ w = "junk" => call \in refused
                             /\ Leaves(name, b, old \cup {<<w, call>>})

\* What each step of a motion and of a write-back leaves, its factors there or refused.
LEMMA MotionResults ==
    ASSUME DevTyped, MotionFactors, CallShape
    PROVE  /\ upG => Leaves("upG", "G", {<<"G", call>>})
           /\ gemmRows => Leaves("gemmRows", "tmp", {<<"rows", call>>})
           /\ putRows => Outcome("putRows", "P", dev["P"], "rows")
           /\ gemmCols => Outcome("gemmCols", "tmp2", {}, "cols")
           /\ putCols => Outcome("putCols", "P", dev["P"], "cols")
           /\ poseDiag => Leaves("poseDiag", "P", dev["P"] \cup {<<"noise", call>>})
           /\ compose => Leaves("compose", "x", dev["x"] \cup {<<"mean", call>>})
           /\ covDiag => Leaves("covDiag", "P", dev["P"] \cup {<<"limo", call>>})
           /\ setVec => Leaves("setVec", "x", dev["x"] \cup {<<"mean", call>>})
           /\ upPose => Leaves("upPose", "x", mirror["x"])
           /\ upBlock => Leaves("upBlock", "P", mirror["P"])
<1>0. /\ {"G", "tmp", "tmp2"} \subseteq Buffers \ Resident
      /\ "x" \in Resident /\ "P" \in Resident
      /\ {"G", "rows", "cols", "noise", "limo", "mean"} \subseteq What
  BY BufferSets
<1>1. upG => Leaves("upG", "G", {<<"G", call>>})
  BY <1>0, WriteFacts DEF upG
<1>2. ASSUME gemmRows PROVE Leaves("gemmRows", "tmp", {<<"rows", call>>})
  <2>1. Holds("G", "G") = TRUE
    BY <1>2 DEF gemmRows, writes, step, MotionFactors
  <2>2. writes("gemmRows", "tmp", TRUE, "rows")
    BY <1>2, <2>1 DEF gemmRows
  <2> QED BY <1>0, <2>2, WriteFacts
<1>3. ASSUME putRows PROVE Outcome("putRows", "P", dev["P"], "rows")
  <2> DEFINE f == Holds("tmp", "rows")
  <2>1. pc = "putRows" /\ Completes
    BY <1>3 DEF putRows, adds, step
  <2>2. CASE f
    <3>1. f = TRUE
      BY <2>2 DEF Holds
    <3>2. adds("putRows", "P", TRUE, "rows")
      BY <1>3, <3>1 DEF putRows
    <3>3. Leaves("putRows", "P", dev["P"] \cup {<<"rows", call>>})
      BY <1>0, <3>2, AddFacts
    <3> QED BY <3>3 DEF Outcome
  <2>3. CASE ~f
    <3>1. f = FALSE
      BY <2>3 DEF Holds
    <3>2. adds("putRows", "P", FALSE, "rows")
      BY <1>3, <3>1 DEF putRows
    <3>3. Leaves("putRows", "P", dev["P"] \cup {<<"junk", call>>})
      BY <1>0, <3>2, AddFacts
    <3>4. call \in refused
      BY <2>1, <2>3 DEF MotionFactors
    <3> QED BY <3>3, <3>4 DEF Outcome
  <2> QED BY <2>2, <2>3
<1>4. ASSUME gemmCols PROVE Outcome("gemmCols", "tmp2", {}, "cols")
  <2> DEFINE f == Holds("G", "G") /\ Holds("P", "rows")
  <2>1. pc = "gemmCols" /\ Completes
    BY <1>4 DEF gemmCols, writes, step
  <2>2. CASE f
    <3>1. f = TRUE
      BY <2>2
    <3>2. writes("gemmCols", "tmp2", TRUE, "cols")
      BY <1>4, <3>1 DEF gemmCols
    <3>3. Leaves("gemmCols", "tmp2", {<<"cols", call>>})
      BY <1>0, <3>2, WriteFacts
    <3>4. {} \cup {<<"cols", call>>} = {<<"cols", call>>}
      OBVIOUS
    <3> QED BY <3>3, <3>4 DEF Outcome
  <2>3. CASE ~f
    <3>1. f = FALSE
      BY <2>3
    <3>2. writes("gemmCols", "tmp2", FALSE, "cols")
      BY <1>4, <3>1 DEF gemmCols
    <3>3. Leaves("gemmCols", "tmp2", {} \cup {<<"junk", call>>})
      BY <1>0, <3>2, WriteFacts
    <3>4. call \in refused
      BY <2>1, <2>3 DEF MotionFactors
    <3> QED BY <3>3, <3>4 DEF Outcome
  <2> QED BY <2>2, <2>3
<1>5. ASSUME putCols PROVE Outcome("putCols", "P", dev["P"], "cols")
  <2> DEFINE f == Holds("tmp2", "cols")
  <2>1. pc = "putCols" /\ Completes
    BY <1>5 DEF putCols, adds, step
  <2>2. CASE f
    <3>1. f = TRUE
      BY <2>2 DEF Holds
    <3>2. adds("putCols", "P", TRUE, "cols")
      BY <1>5, <3>1 DEF putCols
    <3>3. Leaves("putCols", "P", dev["P"] \cup {<<"cols", call>>})
      BY <1>0, <3>2, AddFacts
    <3> QED BY <3>3 DEF Outcome
  <2>3. CASE ~f
    <3>1. f = FALSE
      BY <2>3 DEF Holds
    <3>2. adds("putCols", "P", FALSE, "cols")
      BY <1>5, <3>1 DEF putCols
    <3>3. Leaves("putCols", "P", dev["P"] \cup {<<"junk", call>>})
      BY <1>0, <3>2, AddFacts
    <3>4. call \in refused
      BY <2>1, <2>3 DEF MotionFactors
    <3> QED BY <3>3, <3>4 DEF Outcome
  <2> QED BY <2>2, <2>3
<1>6. /\ poseDiag => Leaves("poseDiag", "P", dev["P"] \cup {<<"noise", call>>})
      /\ compose => Leaves("compose", "x", dev["x"] \cup {<<"mean", call>>})
      /\ covDiag => Leaves("covDiag", "P", dev["P"] \cup {<<"limo", call>>})
      /\ setVec => Leaves("setVec", "x", dev["x"] \cup {<<"mean", call>>})
  BY <1>0, AddFacts DEF poseDiag, compose, covDiag, setVec
<1>7. /\ upPose => Leaves("upPose", "x", mirror["x"])
      /\ upBlock => Leaves("upBlock", "P", mirror["P"])
  BY <1>0, UploadFacts DEF upPose, upBlock
<1> QED BY <1>1, <1>2, <1>3, <1>4, <1>5, <1>6, <1>7

\* A call has a number; only the filter's are above 0.
LEMMA CallOfPc ==
    ASSUME CallShape
    PROVE  call \in AllCalls /\ call.n \in Nat /\ (call.n = 0 <=> call \in {NoCall, WarmUp})
<1>1. call \in Calls \/ call = NoCall \/ call = WarmUp
  BY DEF CallShape, AllCalls
<1> QED BY <1>1, CallFacts DEF CallShape

\* The batch update keeps the invariant: its factors are its own.
LEMMA BatchInv ==
    ASSUME CudaInv, batchUpdateFullState
    PROVE  CudaInv'
<1>1. /\ CallShape' /\ DevTyped' /\ Factors' /\ NoNewJunk
      /\ UNCHANGED <<peer, device, call, refused, mirror>>
      /\ pc \in BatchSteps /\ pc' = After[pc]
  <2>1. pc \in BatchSteps
    BY DEF batchUpdateFullState, upH, upR, upNu, gemmHP, gemmS, copyKt, getrf, getrs, gemvX,
       gemmP, batchSync, writes, adds, step, BatchSteps
  <2> QED BY <2>1, BatchStepFactors, DeviceShape DEF CudaInv
<1>2. pc' \in BatchSteps \cup {"upG", "downX"}
  BY <1>1, AfterFacts, StepSets DEF AfterBatch
<1>3. MotionFactors'
  BY <1>2, StepSets DEF MotionFactors
<1>4. JunkKnown'
  <2>1. Calls \subseteq AllCalls
    BY DEF AllCalls
  <2> QED BY <1>1, <2>1 DEF JunkKnown, NoNewJunk, CudaInv
<1>5. MirrorPath'
  BY <1>1, <1>2, StepSets DEF MirrorPath, CudaInv, StartsClean
<1> QED BY <1>1, <1>3, <1>4, <1>5 DEF CudaInv

\* A step that leaves b in Resident as c, known junk at most.
LEMMA JunkAdded ==
    ASSUME JunkKnown, NEW b \in Resident, NEW c, NEW name, Leaves(name, b, c),
           refused' = refused, mirror' = mirror,
           \A d \in Calls : <<"junk", d>> \in c => d \in refused
    PROVE  JunkKnown'
  BY BufferSets DEF JunkKnown, Leaves

\* Junk in a scratch buffer is not in the state.
LEMMA JunkElsewhere ==
    ASSUME JunkKnown, NEW b \in Buffers \ Resident, NEW c, NEW name, Leaves(name, b, c)
    PROVE  JunkKnown'
  BY BufferSets DEF JunkKnown, Leaves

\* The union with what one step adds has no other junk than before or its own.
LEMMA UnionJunk ==
    ASSUME NEW old, NEW w, NEW d, <<"junk", d>> \in old \cup {<<w, call>>}
    PROVE  <<"junk", d>> \in old \/ (w = "junk" /\ d = call)
  OBVIOUS

\* A motion keeps the invariant: junk it adds is of a call on record.
LEMMA MotionInv ==
    ASSUME CudaInv, motionPropagate
    PROVE  CudaInv'
<1> USE AfterFacts, BufferSets
<1>1. /\ CallShape' /\ Completes
      /\ UNCHANGED <<peer, device, call, refused, mirror>>
  BY DeviceShape DEF CudaInv
<1>2. CallShape /\ DevTyped /\ MotionFactors /\ JunkKnown /\ MirrorPath
  BY DEF CudaInv
<1>3. PICK name \in {"upG", "gemmRows", "putRows", "gemmCols", "putCols", "poseDiag",
                     "compose", "covDiag"} : pc = name /\ pc' = After[name]
  BY DEF motionPropagate, upG, gemmRows, putRows, gemmCols, putCols, poseDiag, compose, covDiag,
     writes, adds, step
<1>4. pc' \in {"gemmRows", "putRows", "gemmCols", "putCols", "poseDiag", "compose", "restore",
              "covDiag", "downX"}
  BY <1>3
<1>5. Factors' /\ MirrorPath'
  BY <1>1, <1>2, <1>4 DEF Factors, MirrorPath, StartsClean
<1>6. DevTyped' /\ MotionFactors' /\ JunkKnown'
  <2>1. CASE upG
    <3>1. Leaves("upG", "G", {<<"G", call>>})
      BY <1>2, <2>1, MotionResults
    <3>2. DevTyped' /\ MotionFactors'
      BY <1>1, <3>1 DEF Leaves, MotionFactors, Holds
    <3> QED BY <1>2, <3>1, <3>2, JunkElsewhere
  <2>2. CASE gemmRows
    <3>1. Leaves("gemmRows", "tmp", {<<"rows", call>>})
      BY <1>2, <2>2, MotionResults
    <3>2. DevTyped' /\ MotionFactors'
      BY <1>1, <1>2, <3>1 DEF Leaves, MotionFactors, Holds
    <3> QED BY <1>2, <3>1, <3>2, JunkElsewhere
  <2>3. CASE putRows
    <3>1. PICK w \in {"rows", "junk"} :
              /\ w = "junk" => call \in refused
              /\ Leaves("putRows", "P", dev["P"] \cup {<<w, call>>})
      BY <1>2, <2>3, MotionResults DEF Outcome
    <3>2. DevTyped' /\ MotionFactors'
      BY <1>1, <1>2, <3>1 DEF Leaves, MotionFactors, Holds
    <3>3. \A d \in Calls : <<"junk", d>> \in dev["P"] \cup {<<w, call>>} => d \in refused
      BY <1>2, <3>1, UnionJunk DEF JunkKnown
    <3> QED BY <1>1, <1>2, <3>1, <3>2, <3>3, JunkAdded
  <2>4. CASE gemmCols
    <3>1. PICK w \in {"cols", "junk"} :
              /\ w = "junk" => call \in refused
              /\ Leaves("gemmCols", "tmp2", {} \cup {<<w, call>>})
      BY <1>2, <2>4, MotionResults DEF Outcome
    <3>2. DevTyped' /\ MotionFactors'
      BY <1>1, <3>1 DEF Leaves, MotionFactors, Holds
    <3> QED BY <1>2, <3>1, <3>2, JunkElsewhere
  <2>5. CASE putCols
    <3>1. PICK w \in {"cols", "junk"} :
              /\ w = "junk" => call \in refused
              /\ Leaves("putCols", "P", dev["P"] \cup {<<w, call>>})
      BY <1>2, <2>5, MotionResults DEF Outcome
    <3>2. DevTyped' /\ MotionFactors'
      BY <1>1, <3>1 DEF Leaves, MotionFactors
    <3>3. \A d \in Calls : <<"junk", d>> \in dev["P"] \cup {<<w, call>>} => d \in refused
      BY <1>2, <3>1, UnionJunk DEF JunkKnown
    <3> QED BY <1>1, <1>2, <3>1, <3>2, <3>3, JunkAdded
  <2>6. CASE poseDiag
    <3>1. Leaves("poseDiag", "P", dev["P"] \cup {<<"noise", call>>})
      BY <1>2, <2>6, MotionResults
    <3>2. \A d \in Calls : <<"junk", d>> \in dev["P"] \cup {<<"noise", call>>} => d \in refused
      BY <1>2, UnionJunk DEF JunkKnown
    <3>3. DevTyped' /\ MotionFactors'
      BY <1>1, <3>1 DEF Leaves, MotionFactors
    <3> QED BY <1>1, <1>2, <3>1, <3>2, <3>3, JunkAdded
  <2>7. CASE compose
    <3>1. Leaves("compose", "x", dev["x"] \cup {<<"mean", call>>})
      BY <1>2, <2>7, MotionResults
    <3>2. \A d \in Calls : <<"junk", d>> \in dev["x"] \cup {<<"mean", call>>} => d \in refused
      BY <1>2, UnionJunk DEF JunkKnown
    <3>3. DevTyped' /\ MotionFactors'
      BY <1>1, <3>1 DEF Leaves, MotionFactors
    <3> QED BY <1>1, <1>2, <3>1, <3>2, <3>3, JunkAdded
  <2>8. CASE covDiag
    <3>1. Leaves("covDiag", "P", dev["P"] \cup {<<"limo", call>>})
      BY <1>2, <2>8, MotionResults
    <3>2. \A d \in Calls : <<"junk", d>> \in dev["P"] \cup {<<"limo", call>>} => d \in refused
      BY <1>2, UnionJunk DEF JunkKnown
    <3>3. DevTyped' /\ MotionFactors'
      BY <1>1, <3>1 DEF Leaves, MotionFactors
    <3> QED BY <1>1, <1>2, <3>1, <3>2, <3>3, JunkAdded
  <2> QED BY <2>1, <2>2, <2>3, <2>4, <2>5, <2>6, <2>7, <2>8 DEF motionPropagate
<1> QED BY <1>1, <1>5, <1>6 DEF CudaInv

\* A call in progress is one of the filter's, or the warm-up, which does not end in
\* "idle".
LEMMA InProgress ==
    ASSUME CallShape, CallShape', call' = call, pc \notin {"construct", "idle"}
    PROVE  pc' = "idle" => call \in Calls /\ call.n # 0
<1>1. call # NoCall
  BY DEF CallShape
<1>2. pc' = "idle" => call # WarmUp
  BY DEF CallShape, UpdateSteps, BatchSteps, WarmMotion
<1> QED BY <1>1, <1>2, CallOfPc DEF CallShape, AllCalls

\* The write-backs keep the invariant: the mirrors they take hold no unknown junk.
LEMMA WriteBackInv ==
    ASSUME CudaInv, writeBack
    PROVE  CudaInv'
<1> USE AfterFacts, BufferSets
<1>1. /\ CallShape' /\ Completes
      /\ UNCHANGED <<peer, device, call, refused, mirror>>
  BY DeviceShape DEF CudaInv
<1>2. CallShape /\ DevTyped /\ MotionFactors /\ JunkKnown /\ MirrorPath
  BY DEF CudaInv
<1>3. CASE setVec
  <2>1. Leaves("setVec", "x", dev["x"] \cup {<<"mean", call>>})
    BY <1>2, <1>3, MotionResults
  <2>2. pc = "setVec" /\ pc' = "idle" /\ dev'["P"] = dev["P"] /\ DevTyped'
        /\ dev'["x"] = dev["x"] \cup {<<"mean", call>>}
    BY <2>1 DEF Leaves
  <2>3. \A d \in Calls : <<"junk", d>> \in dev["x"] \cup {<<"mean", call>>} => d \in refused
    BY <1>2, UnionJunk DEF JunkKnown
  <2>4. JunkKnown'
    BY <1>1, <1>2, <2>1, <2>3, JunkAdded
  <2>5. call.n # 0
    BY <1>1, <1>2, <2>2, InProgress
  <2>6. MirrorPath'
    BY <1>1, <1>2, <2>2, <2>5 DEF MirrorPath, StartsClean
  <2> QED BY <1>1, <2>2, <2>4, <2>6 DEF CudaInv, Factors, MotionFactors
<1>4. CASE upPose
  <2>1. Leaves("upPose", "x", mirror["x"])
    BY <1>2, <1>4, MotionResults
  <2>2. pc = "upPose" /\ dev'["P"] = dev["P"] /\ DevTyped' /\ dev'["x"] = mirror["x"]
        /\ pc' = IF call.by = "rigid" THEN "upBlock" ELSE "idle"
    BY <2>1 DEF Leaves
  <2>3. \A d \in Calls : <<"junk", d>> \in mirror["x"] => d \in refused
    BY <1>2 DEF JunkKnown
  <2>4. JunkKnown'
    BY <1>1, <1>2, <2>1, <2>3, JunkAdded
  <2>5. pc' = "idle" => call.n # 0
    BY <1>1, <1>2, <2>2, InProgress
  <2>6. pc' = "idle" => call.by = "update"
    BY <1>2, <2>2 DEF CallShape
  <2>7. MirrorPath'
    BY <1>1, <1>2, <2>2, <2>5, <2>6 DEF MirrorPath, StartsClean
  <2> QED BY <1>1, <2>2, <2>4, <2>7 DEF CudaInv, Factors, MotionFactors
<1>5. CASE upBlock
  <2>1. Leaves("upBlock", "P", mirror["P"])
    BY <1>2, <1>5, MotionResults
  <2>2. pc = "upBlock" /\ dev'["x"] = dev["x"] /\ DevTyped' /\ dev'["P"] = mirror["P"]
        /\ pc' = "idle"
    BY <2>1 DEF Leaves
  <2>3. \A d \in Calls : <<"junk", d>> \in mirror["P"] => d \in refused
    BY <1>2 DEF JunkKnown
  <2>4. JunkKnown'
    BY <1>1, <1>2, <2>1, <2>3, JunkAdded
  <2>5. call.n # 0
    BY <1>1, <1>2, <2>2, InProgress
  <2>6. MirrorPath'
    BY <1>1, <1>2, <2>2, <2>5 DEF MirrorPath, StartsClean
  <2> QED BY <1>1, <2>2, <2>4, <2>6 DEF CudaInv, Factors, MotionFactors
<1> QED BY <1>3, <1>4, <1>5 DEF writeBack

\* A refusal leaves everything as it is.  On a device that is up only the two
\* products of a motion can be refused unseen; on one that is lost nothing is
\* promised.
LEMMA SkippedInv ==
    ASSUME CudaInv, skipped
    PROVE  CudaInv'
<1> USE AfterFacts
<1>1. /\ pc \in MotionSteps /\ pc' = After[pc] /\ MayRefuse /\ CallShape'
      /\ UNCHANGED <<peer, device, call, mirror, before, dev>>
      /\ refused' = IF device = "up" THEN refused \cup {call} ELSE refused
  BY SkippedFacts, NextCallShape DEF CudaInv, Next
<1>2. CallShape /\ DevTyped /\ MotionFactors /\ JunkKnown /\ MirrorPath
  BY DEF CudaInv
<1>3. DevTyped' /\ Factors' /\ JunkKnown'
  <2>1. pc' \notin BatchSteps
    BY <1>1, StepSets DEF MotionSteps
  <2>2. Factors'
    BY <2>1, StepSets DEF Factors
  <2>3. refused \subseteq refused'
    BY <1>1
  <2> QED BY <1>1, <1>2, <2>2, <2>3 DEF DevTyped, JunkKnown
<1>4. pc' = "idle" => call.n # 0
  BY <1>1, <1>2, InProgress DEF MotionSteps
<1>5. CASE device = "lost"
  <2>1. ~Completes'
    BY <1>1, <1>5 DEF MayRefuse, Completes
  <2> QED BY <1>1, <1>2, <1>3, <1>4, <2>1
          DEF CudaInv, MotionFactors, MirrorPath, StartsClean
<1>6. CASE device # "lost"
  <2>1. pc \in {"gemmRows", "gemmCols"} /\ peer = "cuda"
    BY <1>1, <1>6, CudaAssumption DEF MayRefuse, MotionSteps, LibraryCalls
  <2>2. pc' \in {"putRows", "putCols"} /\ (Completes' <=> Completes)
        /\ (pc' = "putRows" => pc = "gemmRows")
    BY <1>1, <2>1 DEF Completes
  <2>3. Completes => call \in refused'
    BY <1>1, <2>1 DEF Completes
  <2>4. MotionFactors'
    BY <1>1, <1>2, <2>2, <2>3 DEF MotionFactors, Holds
  <2>5. MirrorPath'
    BY <1>1, <1>2, <2>2 DEF MirrorPath, StartsClean
  <2> QED BY <1>1, <1>3, <2>4, <2>5 DEF CudaInv
<1> QED BY <1>5, <1>6

\* The steps that touch no buffer and no mirror and lead to none of the points the
\* invariant speaks of.
LEMMA PlainInv ==
    ASSUME CudaInv, CallShape', UNCHANGED <<peer, device, call, mirror, before, dev, refused>>,
           pc' \in {"batch", "upH", "upG", "downX"}
    PROVE  CudaInv'
<1>1. CallShape /\ DevTyped /\ JunkKnown /\ MirrorPath
  BY DEF CudaInv
<1>2. Factors' /\ MotionFactors'
  BY DEF Factors, MotionFactors
<1>3. DevTyped' /\ JunkKnown' /\ MirrorPath'
  BY <1>1 DEF DevTyped, JunkKnown, MirrorPath, StartsClean
<1> QED BY <1>2, <1>3 DEF CudaInv

\* The scratch growth and a batch update that gives up leave the buffers alone.
LEMMA EndOfBatchInv ==
    ASSUME CudaInv, begin \/ growFails \/ batchFails
    PROVE  CudaInv'
<1>1. UNCHANGED <<peer, device, call, mirror, before, dev, refused>>
  BY DEF begin, growFails, batchFails, fails, others, scratchOthers
<1>2. pc' \in {"upH", "upG", "downX"}
  BY DEF begin, growFails, batchFails, fails, AfterBatch
<1>3. CallShape'
  BY NextCallShape DEF CudaInv, Next
<1> QED BY <1>1, <1>2, <1>3, PlainInv

\* Rewriting the diagonal of P and all of x undoes the warm-up.
LEMMA RestoredClean ==
    ASSUME DevTyped, WarmUpDiagonal, restore
    PROVE  dev'["x"] = {} /\ dev'["P"] = {}
<1>1. filled["P"] \subseteq Diagonal
  BY DEF WarmUpDiagonal, Matrices
<1>2. dev' = [[dev EXCEPT !["x"] = {}] EXCEPT !["P"] = {}]
  BY <1>1 DEF restore, constructed
<1> QED BY <1>2, BufferSets DEF DevTyped

\* The warm-up is overwritten, or the CPU peer takes its place.
LEMMA ConstructionInv ==
    ASSUME CudaInv, WarmUpDiagonal, construct \/ fallBack \/ restore
    PROVE  CudaInv'
<1> USE BufferSets
<1>1. CallShape' /\ mirror' = mirror /\ before' = before
  BY NextCallShape DEF CudaInv, Next, construct, fallBack, restore, constructed
<1>2. CallShape /\ DevTyped /\ JunkKnown /\ MirrorPath
  BY DEF CudaInv
<1>3. mirror["x"] = {} /\ mirror["P"] = {} /\ call.n = 0
  <2>1. call \in {NoCall, WarmUp}
    BY <1>2 DEF construct, fallBack, restore, constructed, CallShape
  <2> QED BY <1>2, <2>1, CallFacts DEF MirrorPath
<1>4. \A d : <<"junk", d>> \notin mirror["x"] \cup mirror["P"]
  BY <1>3
<1>5. call' \in {NoCall, WarmUp} /\ call'.n = 0
  BY CallFacts DEF construct, fallBack, restore, constructed
<1>6. CASE construct
  <2>1. dev' = dev /\ refused' = refused /\ pc' = "batch"
    BY <1>6 DEF construct
  <2> QED BY <1>1, <1>2, <1>3, <2>1
          DEF CudaInv, DevTyped, Factors, MotionFactors, JunkKnown, MirrorPath, StartsClean
<1>7. CASE fallBack
  <2>1. dev' = [b \in Buffers |-> {}] /\ pc' = "idle"
    BY <1>7 DEF fallBack, Empty
  <2>2. dev'["x"] = {} /\ dev'["P"] = {} /\ DevTyped'
    BY <1>1, <1>2, <2>1 DEF DevTyped, Contents
  <2> QED BY <1>1, <1>3, <1>4, <2>1, <2>2
          DEF CudaInv, Factors, MotionFactors, JunkKnown, MirrorPath, StartsClean
<1>8. CASE restore
  <2>0. filled["P"] \subseteq Diagonal
    BY DEF WarmUpDiagonal, Matrices
  <2>1. dev' = [[dev EXCEPT !["x"] = {}] EXCEPT !["P"] = {}] /\ pc' = "idle"
    BY <1>8, <2>0 DEF restore, constructed
  <2>2. dev'["x"] = {} /\ dev'["P"] = {} /\ DevTyped'
    BY <1>1, <1>2, <1>8, <2>1, RestoredClean DEF DevTyped, Contents
  <2> QED BY <1>1, <1>3, <1>4, <2>1, <2>2
          DEF CudaInv, Factors, MotionFactors, JunkKnown, MirrorPath, StartsClean
<1> QED BY <1>6, <1>7, <1>8

\* The mirrors a call leaves before its first step: the filter's own calls mark them.
LEMMA CallInv ==
    ASSUME CudaInv, NEW by \in Kinds, NEW next \in {"upG", "setVec", "batch", "upPose"},
           enter(by, next), CallShape', mirror' \in [Resident -> Contents],
           \A d \in Calls, b \in Resident : <<"junk", d>> \in mirror'[b] => <<"junk", d>> \in mirror[b],
           next = "setVec" => /\ mirror'["x"] = mirror["x"] \cup {<<"mean", call'>>}
                              /\ mirror'["P"] = mirror["P"],
           next = "upPose" => by = "rigid"
    PROVE  CudaInv'
<1>1. CallShape /\ DevTyped /\ JunkKnown /\ MirrorPath
  BY DEF CudaInv
<1>2. /\ pc = "idle" /\ pc' = next /\ call' \in Calls /\ call'.by = by
      /\ UNCHANGED <<peer, device, dev, refused>>
      /\ before' = [x |-> dev.x, P |-> dev.P]
  BY <1>1, EnterFacts
<1>3. call'.n # 0
  BY <1>2, CallFacts
<1>4. DevTyped'
  <2>1. dev["x"] \in Contents /\ dev["P"] \in Contents
    BY <1>1, BufferSets DEF DevTyped
  <2>2. before' \in [Resident -> Contents]
    BY <1>2, <2>1, BufferSets
  <2> QED BY <1>1, <1>2, <2>2 DEF DevTyped
<1>5. Factors' /\ MotionFactors'
  BY <1>2 DEF Factors, MotionFactors
<1>6. JunkKnown'
  BY <1>1, <1>2 DEF JunkKnown
<1>7. MirrorPath'
  BY <1>1, <1>2, <1>3 DEF MirrorPath, StartsClean, Completes
<1> QED BY <1>4, <1>5, <1>6, <1>7 DEF CudaInv

\* What a call writes into a mirror is added to it.
LEMMA MarkedFacts ==
    ASSUME NEW m \in [Resident -> Contents], NEW b \in Resident, NEW what \in What \ {"junk"},
           call' \in AllCalls
    PROVE  /\ marked(m, b, what) \in [Resident -> Contents]
           /\ marked(m, b, what)[b] = m[b] \cup {<<what, call'>>}
           /\ \A o \in Resident \ {b} : marked(m, b, what)[o] = m[o]
           /\ \A d \in Calls, o \in Resident :
                  <<"junk", d>> \in marked(m, b, what)[o] => <<"junk", d>> \in m[o]
<1>1. marked(m, b, what) = [m EXCEPT ![b] = m[b] \cup {<<what, call'>>}]
  BY DEF marked
<1>2. m[b] \cup {<<what, call'>>} \in Contents
  BY DEF Contents
<1>3. /\ marked(m, b, what) \in [Resident -> Contents]
      /\ marked(m, b, what)[b] = m[b] \cup {<<what, call'>>}
      /\ \A o \in Resident \ {b} : marked(m, b, what)[o] = m[o]
  BY <1>1, <1>2
<1>4. \A d : <<"junk", d>> # <<what, call'>>
  OBVIOUS
<1> QED BY <1>3, <1>4

\* A call starts from mirrors that hold what the backend holds.
LEMMA CallsInv ==
    ASSUME CudaInv, predict \/ insertLandmark \/ fullState \/ rigid
    PROVE  CudaInv'
<1>1. CallShape' /\ CallShape /\ mirror \in [Resident -> Contents]
  BY NextCallShape DEF CudaInv, Next, DevTyped
<1>2. /\ "x" \in Resident /\ "P" \in Resident /\ Resident = {"x", "P"}
      /\ "mean" \in What \ {"junk"} /\ "update" \in What \ {"junk"} /\ call' \in AllCalls
  BY <1>1, BufferSets DEF CallShape
<1>3. CASE predict
  <2>1. enter("predict", "upG") /\ mirror' = mirror
    BY <1>3 DEF predict
  <2> QED BY <1>1, <2>1, CallInv DEF Kinds
<1>4. CASE insertLandmark
  <2>1. enter("insert", "setVec") /\ mirror' = marked(mirror, "x", "mean")
    BY <1>4 DEF insertLandmark
  <2>2. /\ mirror' \in [Resident -> Contents]
        /\ mirror'["x"] = mirror["x"] \cup {<<"mean", call'>>}
        /\ mirror'["P"] = mirror["P"]
        /\ \A d \in Calls, b \in Resident :
               <<"junk", d>> \in mirror'[b] => <<"junk", d>> \in mirror[b]
    BY <1>1, <1>2, <2>1, MarkedFacts
  <2> QED BY <1>1, <2>1, <2>2, CallInv DEF Kinds
<1>5. CASE fullState
  <2>1. enter("update", "batch") /\ mirror' = mirror
    BY <1>5 DEF fullState
  <2> QED BY <1>1, <2>1, CallInv DEF Kinds
<1>6. CASE rigid
  <2> DEFINE m == marked(mirror, "x", "mean")
  <2>1. enter("rigid", "upPose") /\ mirror' = marked(m, "P", "update")
    BY <1>6 DEF rigid
  <2>2. /\ m \in [Resident -> Contents]
        /\ \A d \in Calls, b \in Resident : <<"junk", d>> \in m[b] => <<"junk", d>> \in mirror[b]
    BY <1>1, <1>2, MarkedFacts
  <2> HIDE DEF m
  <2>3. /\ mirror' \in [Resident -> Contents]
        /\ \A d \in Calls, b \in Resident : <<"junk", d>> \in mirror'[b] => <<"junk", d>> \in m[b]
    BY <1>2, <2>1, <2>2, MarkedFacts
  <2> QED BY <1>1, <2>1, <2>2, <2>3, CallInv DEF Kinds
<1> QED BY <1>3, <1>4, <1>5, <1>6

\* A download copies a buffer, or garbage; no junk comes of it.
LEMMA RefreshInv ==
    ASSUME CudaInv, syncFromBackend
    PROVE  CudaInv'
<1> USE AfterFacts, BufferSets
<1>1. /\ CallShape' /\ CallShape /\ DevTyped /\ JunkKnown /\ MirrorPath
  BY NextCallShape DEF CudaInv, Next
<1>2. ASSUME NEW name \in {"downX", "downP"}, NEW b \in Resident, download(name, b)
      PROVE  /\ pc = name /\ pc' = After[name] /\ mirror' \in [Resident -> Contents]
             /\ mirror'[b] = IF Completes THEN dev[b] ELSE Garbage
             /\ \A o \in Resident \ {b} : mirror'[o] = mirror[o]
             /\ UNCHANGED <<peer, device, dev, call, before, refused>>
  <2>1. Garbage \in Contents /\ dev[b] \in Contents
    BY <1>1 DEF Garbage, Contents, AllCalls, DevTyped, Buffers
  <2> QED BY <1>1, <1>2, <2>1 DEF download, DevTyped
<1>3. PICK name \in {"downX", "downP"}, b \in Resident :
         download(name, b) /\ (name = "downX" <=> b = "x")
  BY DEF syncFromBackend
<1>4. /\ pc = name /\ pc' = After[name] /\ mirror' \in [Resident -> Contents]
      /\ mirror'[b] = IF Completes THEN dev[b] ELSE Garbage
      /\ \A o \in Resident \ {b} : mirror'[o] = mirror[o]
      /\ UNCHANGED <<peer, device, dev, call, before, refused>>
  BY <1>2, <1>3
<1>5. call.n # 0
  <2>1. call.by \in {"predict", "update"}
    BY <1>1, <1>4 DEF CallShape
  <2> QED BY <1>1, <2>1, CallOfPc, CallFacts
<1>6. DevTyped'
  BY <1>1, <1>4 DEF DevTyped
<1>7. JunkKnown'
  <2>1. \A d : <<"junk", d>> \notin Garbage
    BY DEF Garbage
  <2> QED BY <1>1, <1>4, <2>1 DEF JunkKnown
<1>8. pc' \in {"downP", "upPose", "idle"}
  BY <1>4
<1>9. Factors' /\ MotionFactors'
  BY <1>8 DEF Factors, MotionFactors
<1>10. MirrorPath'
  <2>1. Completes' <=> Completes
    BY <1>4 DEF Completes
  <2> QED BY <1>1, <1>3, <1>4, <1>5, <1>8, <2>1 DEF MirrorPath, StartsClean
<1> QED BY <1>1, <1>6, <1>7, <1>9, <1>10 DEF CudaInv

\* A lost device takes the promises with it.
LEMMA LossInv ==
    ASSUME CudaInv, Lose
    PROVE  CudaInv'
<1>1. /\ device' = "lost" /\ peer = "cuda"
      /\ UNCHANGED <<peer, pc, dev, mirror, call, before, refused>>
  BY DEF Lose
<1>2. ~Completes'
  BY <1>1 DEF Completes
<1>3. CallShape'
  BY NextCallShape DEF CudaInv, Next
<1>4. Factors'
  BY <1>1 DEF CudaInv, Factors, Holds
<1> QED BY <1>1, <1>2, <1>3, <1>4
        DEF CudaInv, DevTyped, MotionFactors, JunkKnown, MirrorPath, StartsClean

\* Nothing happens.
LEMMA StutterInv ==
    ASSUME CudaInv, UNCHANGED cudaVars
    PROVE  CudaInv'
<1>1. UNCHANGED <<peer, device, pc, dev, mirror, call, before, refused>>
  BY DEF cudaVars
<1>2. Factors' /\ MotionFactors'
  BY <1>1 DEF CudaInv, Factors, MotionFactors, Holds, Completes
<1> QED BY <1>1, <1>2
        DEF CudaInv, CallShape, DevTyped, JunkKnown, MirrorPath, StartsClean, Completes

\* The buffers and the mirrors hold, at each step, what the step relies on.
THEOREM CudaInvariant == Spec => []CudaInv
<1>1. Init => CudaInv
  <2> SUFFICES ASSUME Init PROVE CudaInv
    OBVIOUS
  <2> USE BufferSets
  <2>1. CallShape
    BY InitCallShape
  <2>2. /\ dev = [b \in Buffers |-> {}] /\ mirror = [x |-> {}, P |-> {}]
        /\ before = [x |-> {}, P |-> {}] /\ pc = "construct"
    BY DEF Init, Empty
  <2>3. DevTyped
    BY <2>2 DEF DevTyped, Contents
  <2>4. Factors /\ MotionFactors /\ JunkKnown /\ MirrorPath
    BY <2>2 DEF Factors, MotionFactors, JunkKnown, MirrorPath, StartsClean
  <2> QED BY <2>1, <2>3, <2>4 DEF CudaInv
<1>2. CudaInv /\ WarmUpDiagonal /\ [Next]_cudaVars => CudaInv'
  <2> SUFFICES ASSUME CudaInv, WarmUpDiagonal, [Next]_cudaVars PROVE CudaInv'
    OBVIOUS
  <2> QED BY BatchInv, MotionInv, WriteBackInv, SkippedInv, EndOfBatchInv, ConstructionInv,
             CallsInv, RefreshInv, LossInv, StutterInv DEF Next, Quiet
<1> QED BY <1>1, <1>2, CudaWarmUpDiagonal, PTL DEF Spec

\* A backend the factory hands out holds nothing of the warm-up: what that wrote is on
\* the diagonal of P and in x, and both are written over.
THEOREM CudaStartsClean == Spec => []StartsClean
<1>1. CudaInv => StartsClean
  BY DEF CudaInv, MirrorPath
<1> QED BY <1>1, CudaInvariant, PTL

\* Between calls the mirrors hold what the backend holds, as long as it can be read.
THEOREM CudaMirrorFresh == Spec => []MirrorFresh
<1>1. CudaInv => MirrorFresh
  BY DEF CudaInv, MirrorPath, MirrorFresh
<1> QED BY <1>1, CudaInvariant, PTL

\* Only a refused product of a motion puts into the state what its call has not
\* computed: the batch update never does, wherever it fails.
THEOREM CudaJunkTraced == Spec => []JunkTraced
<1>1. CudaInv => JunkTraced
  BY DEF CudaInv, JunkKnown, JunkTraced
<1> QED BY <1>1, CudaInvariant, PTL

\* The only step that ends the batch update with TRUE is its synchronisation.
LEMMA AcknowledgedWhole ==
    ASSUME CudaInv, [Next]_cudaVars, Acknowledged
    PROVE  WholeUpdate
<1>1. pc \in BatchSteps /\ pc' \notin BatchSteps /\ answer'
  BY DEF Acknowledged
<1>2. CASE batchUpdateFullState
  <2>1. Completes /\ pc' = After[pc]
    BY <1>2, DeviceShape DEF CudaInv
  <2>2. pc = "batchSync"
    BY <1>1, <2>1, AfterFacts, StepSets
  <2> QED BY <2>1, <2>2, BufferSets DEF CudaInv, Factors, Holds, WholeUpdate
<1>3. CASE batchFails
  BY <1>1, <1>3 DEF batchFails, fails
<1>4. CASE motionPropagate \/ writeBack \/ skipped
  <2>1. pc \in MotionSteps
    BY <1>4, SkippedFacts
    DEF motionPropagate, upG, gemmRows, putRows, gemmCols, putCols, poseDiag, compose, covDiag,
        writeBack, setVec, upPose, upBlock, writes, adds, step, MotionSteps
  <2> QED BY <1>1, <2>1, StepSets
<1>5. CASE Lose \/ Quiet \/ UNCHANGED cudaVars
  BY <1>1, <1>5 DEF Lose, Quiet, cudaVars
<1>6. CASE \/ construct \/ fallBack \/ restore \/ predict \/ insertLandmark \/ fullState
           \/ rigid \/ begin \/ growFails \/ syncFromBackend
  <2>1. pc \in {"construct", "restore", "idle", "batch", "downX", "downP"}
    BY <1>6 DEF construct, fallBack, restore, constructed, predict, insertLandmark, fullState,
       rigid, enter, begin, growFails, syncFromBackend, download
  <2> QED BY <1>1, <2>1 DEF BatchSteps
<1> QED BY <1>2, <1>3, <1>4, <1>5, <1>6 DEF Next

\* An acknowledged update is in x and in P, whole.
THEOREM CudaTrueIsWhole == Spec => TrueIsWhole
<1>1. CudaInv /\ [Next]_cudaVars => [Acknowledged => WholeUpdate]_cudaVars
  BY AcknowledgedWhole
<1> QED BY <1>1, CudaInvariant, PTL DEF Spec, TrueIsWhole
=============================================================================
