------------------------- MODULE CudaContractProofs --------------------------
(***************************************************************************)
(* CudaBackend implements BackendContract, for every size of scan, every   *)
(* set of steps that may be refused and any number of calls.  The invariant*)
(* says how far the call in progress has come: what x and P hold is what   *)
(* they held before it, with the results of the steps behind it.           *)
(***************************************************************************)
EXTENDS CudaBackendProofs, FiniteSetTheorems

Early == {"batch", "upH", "upR", "upNu", "gemmHP", "gemmS", "copyKt", "getrf", "getrs",
          "gemvX", "upG", "gemmRows", "putRows", "setVec"}

Adds(b, what) == dev[b] = before[b] \cup {<<what, call>>}
Same(b) == dev[b] = before[b]

\* The two products of a motion, each its result or junk.
Products == {"rows", "junk"} \X {"cols", "junk"}

Stage ==
    Completes /\ call \in Calls =>
        /\ pc \in Early => Same("x") /\ Same("P")
        /\ pc \in {"gemmCols", "putCols"} =>
               Same("x") /\ \E w \in {"rows", "junk"} : Adds("P", w)
        /\ pc = "poseDiag" =>
               Same("x") /\ \E w \in Products :
                   dev["P"] = before["P"] \cup {<<w[1], call>>, <<w[2], call>>}
        /\ pc = "compose" =>
               Same("x") /\ \E w \in Products :
                   dev["P"] = before["P"] \cup {<<w[1], call>>, <<w[2], call>>, <<"noise", call>>}
        /\ pc = "covDiag" =>
               Adds("x", "mean") /\ \E w \in Products :
                   dev["P"] = before["P"] \cup {<<w[1], call>>, <<w[2], call>>, <<"noise", call>>}
        /\ pc \in {"downX", "downP"} /\ call.by = "predict" =>
               Adds("x", "mean") /\ \E w \in Products :
                   dev["P"] = before["P"] \cup {<<w[1], call>>, <<w[2], call>>, <<"noise", call>>,
                                                <<"limo", call>>}
        /\ pc = "gemmP" => Adds("x", "mean") /\ Same("P")
        /\ pc = "batchSync" => Adds("x", "mean") /\ Adds("P", "update")
        /\ pc \in {"downX", "downP", "upPose"} /\ call.by = "update" =>
               \/ Same("x") /\ Same("P")
               \/ Adds("x", "mean") /\ Same("P")
               \/ Adds("x", "mean") /\ Adds("P", "update")
        /\ pc = "upPose" /\ call.by = "rigid" => Same("x") /\ Same("P")
        /\ pc = "upBlock" => Adds("x", "mean") /\ Same("P")
        /\ pc \in {"upPose", "upBlock"} /\ call.by = "rigid" =>
               /\ mirror["x"] = before["x"] \cup {<<"mean", call>>}
               /\ mirror["P"] = before["P"] \cup {<<"update", call>>}

\* What the state holds is of this call or of earlier ones.
Numbered ==
    /\ \A b \in Resident, c \in Calls, w \in What : <<w, c>> \in dev[b] => c.n <= call.n
    /\ pc # "idle" /\ call \in Calls =>
           \A b \in Resident, c \in Calls, w \in What : <<w, c>> \in before[b] => c.n < call.n
    /\ call \notin Calls => before["x"] = {} /\ before["P"] = {}
    /\ pc = "construct" => peer = "none"
    /\ peer \in {"none", "cuda", "cpu"} /\ device \in {"up", "lost"}

ContractInv == CudaInv /\ Stage /\ Numbered /\ WarmUpDiagonal

\* A step of the device finds the stage before it and leaves the one after.
LEMMA BatchStage ==
    ASSUME ContractInv, batchUpdateFullState
    PROVE  Stage'
<1> USE BufferSets, AfterFacts
<1>1. /\ DevTyped /\ Factors /\ CallShape /\ Stage /\ CallShape'
      /\ UNCHANGED <<peer, device, call, before, mirror>>
      /\ pc \in BatchSteps /\ pc' = After[pc]
  <2>1. pc \in BatchSteps
    BY DEF batchUpdateFullState, upH, upR, upNu, gemmHP, gemmS, copyKt, getrf, getrs, gemvX,
       gemmP, batchSync, writes, adds, step, BatchSteps
  <2> QED BY <2>1, DeviceShape, BatchStepFactors DEF ContractInv, CudaInv
<1>2. /\ Completes' <=> Completes
      /\ call \in Calls => call.by = "update" /\ AfterBatch = "downX"
  BY <1>1, CallFacts DEF Completes, CallShape, UpdateSteps, AfterBatch
<1>3. CASE upH \/ upR \/ upNu \/ gemmHP \/ gemmS \/ copyKt \/ getrf \/ getrs
  <2>1. dev'["x"] = dev["x"] /\ dev'["P"] = dev["P"]
        /\ pc \in Early /\ pc' \in Early \ {"setVec"}
    BY <1>1, <1>3, BatchResults DEF Leaves, Early
  <2> QED BY <1>1, <1>2, <2>1 DEF Stage, Early, Same
<1>4. CASE gemvX
  <2>1. /\ dev'["x"] = dev["x"] \cup {<<"mean", call>>} /\ dev'["P"] = dev["P"]
        /\ pc = "gemvX" /\ pc' = "gemmP"
    BY <1>1, <1>4, BatchResults DEF Leaves
  <2> QED BY <1>1, <1>2, <2>1 DEF Stage, Early, Same, Adds
<1>5. CASE gemmP
  <2>1. /\ dev'["x"] = dev["x"] /\ dev'["P"] = dev["P"] \cup {<<"update", call>>}
        /\ pc = "gemmP" /\ pc' = "batchSync"
    BY <1>1, <1>5, BatchResults DEF Leaves
  <2> QED BY <1>1, <1>2, <2>1 DEF Stage, Early, Same, Adds
<1>6. CASE batchSync
  <2>1. dev' = dev /\ pc = "batchSync" /\ pc' = AfterBatch
    BY <1>6 DEF batchSync
  <2> QED BY <1>1, <1>2, <2>1 DEF Stage, Early, Same, Adds
<1> QED BY <1>3, <1>4, <1>5, <1>6 DEF batchUpdateFullState

\* A motion goes through its stages: rows, columns, noise, mean, LIMO's covariance.
LEMMA MotionStage ==
    ASSUME ContractInv, motionPropagate
    PROVE  Stage'
<1> USE BufferSets, AfterFacts
<1>1. /\ DevTyped /\ MotionFactors /\ CallShape /\ Stage
      /\ UNCHANGED <<peer, device, call, before, mirror>>
      /\ Completes
  BY DeviceShape DEF ContractInv, CudaInv
<1>2. CASE call \notin Calls
  BY <1>1, <1>2 DEF Stage
<1>3. ASSUME call \in Calls PROVE Stage'
  <2>1. call # WarmUp
    BY <1>3, CallFacts
  <2>2. CASE upG \/ gemmRows \/ gemmCols
    <3>1. /\ dev'["x"] = dev["x"] /\ dev'["P"] = dev["P"]
          /\ pc \in {"upG", "gemmRows", "gemmCols"} /\ pc' = After[pc]
      BY <1>1, <2>2, MotionResults DEF Leaves, Outcome
    <3> QED BY <1>1, <1>3, <3>1 DEF Stage, Early, Same, Adds
  <2>3. CASE putRows
    <3>1. PICK w \in {"rows", "junk"} : Leaves("putRows", "P", dev["P"] \cup {<<w, call>>})
      BY <1>1, <2>3, MotionResults DEF Outcome
    <3>2. /\ dev'["x"] = dev["x"] /\ dev'["P"] = dev["P"] \cup {<<w, call>>}
          /\ pc = "putRows" /\ pc' = "gemmCols"
      BY <3>1 DEF Leaves
    <3> QED BY <1>1, <1>3, <3>2 DEF Stage, Early, Same, Adds
  <2>4. CASE putCols
    <3>1. PICK w2 \in {"cols", "junk"} : Leaves("putCols", "P", dev["P"] \cup {<<w2, call>>})
      BY <1>1, <2>4, MotionResults DEF Outcome
    <3>2. /\ dev'["x"] = dev["x"] /\ dev'["P"] = dev["P"] \cup {<<w2, call>>}
          /\ pc = "putCols" /\ pc' = "poseDiag"
      BY <3>1 DEF Leaves
    <3>3. PICK w1 \in {"rows", "junk"} : Same("x") /\ Adds("P", w1)
      BY <1>1, <1>3, <3>2 DEF Stage
    <3>4. <<w1, w2>> \in Products /\ dev'["x"] = before["x"]
          /\ dev'["P"] = before["P"] \cup {<<w1, call>>, <<w2, call>>}
      BY <3>2, <3>3 DEF Products, Same, Adds
    <3>5. \E w \in Products : dev'["P"] = before["P"] \cup {<<w[1], call>>, <<w[2], call>>}
      BY <3>4
    <3> QED BY <1>1, <1>3, <3>2, <3>4, <3>5 DEF Stage, Early, Same
  <2>5. CASE poseDiag
    <3>1. /\ dev'["x"] = dev["x"] /\ dev'["P"] = dev["P"] \cup {<<"noise", call>>}
          /\ pc = "poseDiag" /\ pc' = "compose"
      BY <1>1, <2>5, MotionResults DEF Leaves
    <3>2. PICK w \in Products :
             Same("x") /\ dev["P"] = before["P"] \cup {<<w[1], call>>, <<w[2], call>>}
      BY <1>1, <1>3, <3>1 DEF Stage
    <3>3. dev'["P"] = before["P"] \cup {<<w[1], call>>, <<w[2], call>>, <<"noise", call>>}
      BY <3>1, <3>2
    <3> QED BY <1>1, <1>3, <3>1, <3>2, <3>3 DEF Stage, Early, Same
  <2>6. CASE compose
    <3>1. /\ dev'["x"] = dev["x"] \cup {<<"mean", call>>} /\ dev'["P"] = dev["P"]
          /\ pc = "compose" /\ pc' = "covDiag"
      BY <1>1, <2>1, <2>6, MotionResults DEF Leaves
    <3> QED BY <1>1, <1>3, <3>1 DEF Stage, Early, Same, Adds
  <2>7. CASE covDiag
    <3>1. /\ dev'["x"] = dev["x"] /\ dev'["P"] = dev["P"] \cup {<<"limo", call>>}
          /\ pc = "covDiag" /\ pc' = "downX"
      BY <1>1, <2>7, MotionResults DEF Leaves
    <3>2. PICK w \in Products : /\ Adds("x", "mean")
             /\ dev["P"] = before["P"] \cup {<<w[1], call>>, <<w[2], call>>, <<"noise", call>>}
      BY <1>1, <1>3, <3>1 DEF Stage
    <3>3. dev'["P"] = before["P"] \cup {<<w[1], call>>, <<w[2], call>>, <<"noise", call>>,
                                        <<"limo", call>>}
      BY <3>1, <3>2
    <3>4. call.by = "predict"
      BY <1>1, <3>1 DEF CallShape
    <3> QED BY <1>1, <1>3, <3>1, <3>2, <3>3, <3>4 DEF Stage, Early, Same, Adds
  <2> QED BY <2>2, <2>3, <2>4, <2>5, <2>6, <2>7 DEF motionPropagate
<1> QED BY <1>2, <1>3

\* A write-back puts back what the host has: the mean, or the mean and the block.
LEMMA WriteBackStage ==
    ASSUME ContractInv, writeBack
    PROVE  Stage'
<1> USE BufferSets, AfterFacts
<1>1. /\ DevTyped /\ MotionFactors /\ CallShape /\ Stage
      /\ UNCHANGED <<peer, device, call, before, mirror>>
      /\ Completes
  BY DeviceShape DEF ContractInv, CudaInv
<1>2. CASE setVec
  <2>1. pc' = "idle"
    BY <1>2 DEF setVec, adds, step
  <2> QED BY <2>1 DEF Stage, Early
<1>3. CASE upPose
  <2>1. /\ dev'["x"] = mirror["x"] /\ dev'["P"] = dev["P"] /\ pc = "upPose"
        /\ pc' = IF call.by = "rigid" THEN "upBlock" ELSE "idle"
    BY <1>1, <1>3, MotionResults DEF Leaves
  <2> QED BY <1>1, <2>1 DEF Stage, Early, Same, Adds
<1>4. CASE upBlock
  <2>1. pc' = "idle"
    BY <1>4 DEF upBlock, step
  <2> QED BY <2>1 DEF Stage, Early
<1> QED BY <1>2, <1>3, <1>4 DEF writeBack

\* A motion whose product is refused goes through its stages with junk.
LEMMA SkippedStage ==
    ASSUME ContractInv, skipped
    PROVE  Stage'
<1> USE AfterFacts
<1>1. /\ pc \in MotionSteps /\ pc' = After[pc] /\ MayRefuse /\ Stage
      /\ UNCHANGED <<peer, device, call, mirror, before, dev>>
  BY SkippedFacts DEF ContractInv
<1>2. CASE device = "lost"
  <2>1. ~Completes'
    BY <1>1, <1>2 DEF MayRefuse, Completes
  <2> QED BY <2>1 DEF Stage
<1>3. CASE device # "lost"
  <2>1. pc \in {"gemmRows", "gemmCols"}
    BY <1>1, <1>3, CudaAssumption DEF MayRefuse, MotionSteps, LibraryCalls
  <2>2. pc' = IF pc = "gemmRows" THEN "putRows" ELSE "putCols"
    BY <1>1, <2>1
  <2> QED BY <1>1, <2>1, <2>2 DEF Stage, Early, Same, Adds, Completes
<1> QED BY <1>2, <1>3

\* A batch update that gives up leaves both, the mean alone, or neither.
LEMMA EndOfBatchStage ==
    ASSUME ContractInv, begin \/ growFails \/ batchFails
    PROVE  Stage'
<1>1. /\ UNCHANGED <<peer, device, call, mirror, before, dev>>
      /\ pc \in UpdateSteps /\ pc' \in {"upH", AfterBatch}
      /\ (pc' = "upH" => pc = "batch") /\ Stage /\ CallShape
  BY DEF begin, growFails, batchFails, fails, others, scratchOthers, Checked, UpdateSteps,
         ContractInv, CudaInv, AfterBatch
<1>2. call \in Calls => call.by = "update" /\ AfterBatch = "downX"
  BY <1>1, CallFacts DEF CallShape, AfterBatch
<1>3. CASE pc' = "upH"
  BY <1>1, <1>3 DEF Stage, Early, Same, Completes
<1>4. CASE pc' = AfterBatch
  <2> SUFFICES ASSUME Completes', call' \in Calls PROVE Stage'
    BY DEF Stage
  <2>1. pc' = "downX" /\ call.by = "update" /\ call' = call
    BY <1>1, <1>2, <1>4
  <2>2. Completes /\ call \in Calls
    BY <1>1 DEF Completes
  <2>3. \/ Same("x") /\ Same("P")
        \/ Adds("x", "mean") /\ Same("P")
        \/ Adds("x", "mean") /\ Adds("P", "update")
    <3>1. pc \in Early \/ pc = "gemmP" \/ pc = "batchSync"
      BY <1>1 DEF UpdateSteps, BatchSteps, Early
    <3> QED BY <1>1, <2>2, <3>1 DEF Stage
  <2> QED BY <1>1, <2>1, <2>3 DEF Stage, Early, Same, Adds
<1> QED BY <1>1, <1>3, <1>4

\* The downloads change no buffer.
LEMMA RefreshStage ==
    ASSUME ContractInv, syncFromBackend
    PROVE  Stage'
<1> USE AfterFacts
<1>1. /\ UNCHANGED <<peer, device, call, before, dev>> /\ Stage /\ CallShape
      /\ \/ pc = "downX" /\ pc' = "downP"
         \/ pc = "downP" /\ pc' = IF call.by = "update" THEN "upPose" ELSE "idle"
  BY DEF syncFromBackend, download, ContractInv, CudaInv
<1>2. Completes' <=> Completes
  BY <1>1 DEF Completes
<1>3. call.by \in {"predict", "update"}
  BY <1>1 DEF CallShape
<1> QED BY <1>1, <1>2, <1>3 DEF Stage, Early, Same, Adds

\* A call starts from what the state was before it.
LEMMA CallsStage ==
    ASSUME ContractInv, predict \/ insertLandmark \/ fullState \/ rigid
    PROVE  /\ Stage' /\ pc = "idle" /\ pc' # "idle" /\ call' \in Calls /\ call'.n = call.n + 1
           /\ before'["x"] = dev["x"] /\ before'["P"] = dev["P"]
           /\ UNCHANGED <<peer, device, dev>> /\ call # WarmUp
<1>1. CallShape /\ DevTyped /\ MirrorPath /\ mirror \in [Resident -> Contents]
  BY DEF ContractInv, CudaInv, DevTyped
<1>2. PICK by \in Kinds, next \in {"upG", "setVec", "batch", "upPose"} :
          /\ enter(by, next)
          /\ by = "predict" => next = "upG"
          /\ by = "insert" => next = "setVec"
          /\ by = "update" => next = "batch"
          /\ by = "rigid" => next = "upPose" /\ rigid
  <2>1. CASE predict
    BY <2>1 DEF predict, Kinds
  <2>2. CASE insertLandmark
    BY <2>2 DEF insertLandmark, Kinds
  <2>3. CASE fullState
    BY <2>3 DEF fullState, Kinds
  <2>4. CASE rigid
    BY <2>4 DEF rigid, Kinds
  <2> QED BY <2>1, <2>2, <2>3, <2>4
<1>3. /\ pc = "idle" /\ pc' = next /\ call' \in Calls /\ call'.by = by
      /\ call'.n = call.n + 1 /\ call # WarmUp
      /\ UNCHANGED <<peer, device, dev>>
      /\ before' = [x |-> dev.x, P |-> dev.P]
  <2>1. call'.n = call.n + 1
    BY <1>2 DEF enter
  <2> QED BY <1>1, <1>2, <2>1, EnterFacts
<1>4. before'["x"] = dev["x"] /\ before'["P"] = dev["P"]
  BY <1>3
<1>5. Completes' /\ by = "rigid" =>
          /\ mirror'["x"] = before'["x"] \cup {<<"mean", call'>>}
          /\ mirror'["P"] = before'["P"] \cup {<<"update", call'>>}
  <2> SUFFICES ASSUME Completes', by = "rigid"
               PROVE  /\ mirror'["x"] = dev["x"] \cup {<<"mean", call'>>}
                      /\ mirror'["P"] = dev["P"] \cup {<<"update", call'>>}
    BY <1>4
  <2>1. mirror["x"] = dev["x"] /\ mirror["P"] = dev["P"]
    BY <1>1, <1>3 DEF MirrorPath, Completes
  <2> DEFINE m == marked(mirror, "x", "mean")
  <2>2. mirror' = marked(m, "P", "update")
    BY <1>2 DEF rigid
  <2>3. /\ "x" \in Resident /\ "P" \in Resident /\ "x" # "P" /\ call' \in AllCalls
        /\ "mean" \in What \ {"junk"} /\ "update" \in What \ {"junk"}
    BY <1>3, BufferSets DEF AllCalls
  <2>4. /\ m \in [Resident -> Contents]
        /\ m["x"] = mirror["x"] \cup {<<"mean", call'>>} /\ m["P"] = mirror["P"]
    BY <1>1, <2>3, MarkedFacts
  <2> HIDE DEF m
  <2>5. /\ mirror'["x"] = m["x"] /\ mirror'["P"] = m["P"] \cup {<<"update", call'>>}
    BY <2>2, <2>3, <2>4, MarkedFacts
  <2> QED BY <2>1, <2>4, <2>5
<1>6. next \in Early \cup {"upPose"} /\ (next = "upPose" => by = "rigid")
  BY <1>2 DEF Early, Kinds
<1>7. Stage'
  BY <1>3, <1>4, <1>5, <1>6 DEF Stage, Early, Same, Adds
<1>8. pc' # "idle"
  BY <1>3
<1> QED BY <1>3, <1>4, <1>7, <1>8

\* Every step keeps to the stages of its call.
LEMMA NextStage ==
    ASSUME ContractInv, [Next]_cudaVars
    PROVE  Stage'
<1>1. CASE construct \/ fallBack \/ restore
  <2>1. call' \in {NoCall, WarmUp}
    BY <1>1 DEF construct, fallBack, restore, constructed
  <2> QED BY <2>1, CallFacts DEF Stage
<1>2. CASE Lose
  <2>1. ~Completes'
    BY <1>2 DEF Lose, Completes
  <2> QED BY <2>1 DEF Stage
<1>3. CASE Quiet \/ UNCHANGED cudaVars
  <2>1. UNCHANGED <<peer, device, pc, call, before, mirror, dev>>
    BY <1>3 DEF Quiet, cudaVars
  <2> QED BY <2>1 DEF ContractInv, Stage, Early, Same, Adds, Completes
<1> QED BY <1>1, <1>2, <1>3, BatchStage, MotionStage, WriteBackStage, SkippedStage,
           EndOfBatchStage, RefreshStage, CallsStage DEF Next

\* A step of the device adds to the state in the name of this call alone.
OwnResults == \A b \in Resident, c \in Calls, w \in What :
                  <<w, c>> \in dev'[b] => <<w, c>> \in dev[b] \/ c = call

\* The device adds to the state in the name of the call in progress alone.
LEMMA DeviceResults ==
    ASSUME ContractInv, batchUpdateFullState \/ motionPropagate \/ writeBack
    PROVE  OwnResults
<1> USE BufferSets
<1>1. /\ DevTyped /\ Factors /\ MotionFactors /\ CallShape /\ MirrorPath /\ Stage
      /\ call' = call /\ Completes
  BY DeviceShape DEF ContractInv, CudaInv
<1>2. CASE batchUpdateFullState
  <2>1. CASE batchSync
    BY <2>1 DEF batchSync, OwnResults
  <2>2. CASE ~batchSync
    <3>1. /\ dev'["x"] = dev["x"] \/ dev'["x"] = dev["x"] \cup {<<"mean", call>>}
          /\ dev'["P"] = dev["P"] \/ dev'["P"] = dev["P"] \cup {<<"update", call>>}
      BY <1>1, <1>2, <2>2, BatchResults DEF batchUpdateFullState, Leaves
    <3> QED BY <3>1 DEF OwnResults
  <2> QED BY <2>1, <2>2
<1>3. CASE motionPropagate
  <2>1. \A b \in Resident : dev'[b] = dev[b] \/ \E w \in What : dev'[b] = dev[b] \cup {<<w, call>>}
    BY <1>1, <1>3, MotionResults DEF motionPropagate, Leaves, Outcome
  <2> QED BY <2>1 DEF OwnResults
<1>4. CASE setVec
  <2>1. dev'["x"] = dev["x"] \cup {<<"mean", call>>} /\ dev'["P"] = dev["P"]
    BY <1>1, <1>4, MotionResults DEF Leaves
  <2> QED BY <2>1 DEF OwnResults
<1>5. CASE upPose \/ upBlock
  <2>1. pc \in {"upPose", "upBlock"} /\ call.by \in {"update", "rigid"}
        /\ (pc = "upBlock" => call.by = "rigid")
    BY <1>1, <1>5 DEF upPose, upBlock, step, CallShape
  <2>2. call \in Calls
    BY <1>1, <2>1, CallFacts DEF CallShape, AllCalls
  <2>3. /\ upPose => dev'["x"] = mirror["x"] /\ dev'["P"] = dev["P"] /\ pc = "upPose"
        /\ upBlock => dev'["x"] = dev["x"] /\ dev'["P"] = mirror["P"] /\ pc = "upBlock"
    BY <1>1, MotionResults DEF Leaves
  <2>4. pc = "upPose" => mirror["x"] \subseteq dev["x"] \cup {<<"mean", call>>}
    BY <1>1, <2>1, <2>2 DEF MirrorPath, Stage, Same
  <2>5. pc = "upBlock" => mirror["P"] \subseteq dev["P"] \cup {<<"update", call>>}
    BY <1>1, <2>1, <2>2 DEF Stage, Same
  <2> QED BY <1>5, <2>3, <2>4, <2>5 DEF OwnResults
<1> QED BY <1>2, <1>3, <1>4, <1>5 DEF writeBack

\* No call number is used twice.
LEMMA NextNumbered ==
    ASSUME ContractInv, [Next]_cudaVars
    PROVE  Numbered'
<1>0. /\ Numbered /\ CallShape /\ DevTyped /\ WarmUpDiagonal
  BY DEF ContractInv, CudaInv
<1>1. CASE construct
  <2>1. /\ UNCHANGED <<dev, before, device>> /\ call = NoCall /\ call' = WarmUp
        /\ pc' = "batch" /\ peer' = "cuda"
    BY <1>0, <1>1 DEF construct, CallShape
  <2> QED BY <1>0, <2>1, CallFacts DEF Numbered
<1>2. CASE fallBack \/ restore
  <2>1. call \in {NoCall, WarmUp}
    BY <1>0, <1>2 DEF fallBack, restore, constructed, CallShape
  <2>2. /\ call' = NoCall /\ pc' = "idle" /\ UNCHANGED <<before, device>>
        /\ peer' \in {peer, "cpu"}
    BY <1>2 DEF fallBack, restore, constructed
  <2>3. dev'["x"] = {} /\ dev'["P"] = {}
    <3>1. CASE fallBack
      BY <3>1, BufferSets DEF fallBack, Empty
    <3>2. CASE restore
      BY <1>0, <3>2, RestoredClean
    <3> QED BY <1>2, <3>1, <3>2
  <2> QED BY <1>0, <2>1, <2>2, <2>3, CallFacts, BufferSets DEF Numbered
<1>3. CASE predict \/ insertLandmark \/ fullState \/ rigid
  <2>1. /\ pc' # "idle" /\ call' \in Calls /\ call'.n = call.n + 1 /\ call.n \in Nat
        /\ before'["x"] = dev["x"] /\ before'["P"] = dev["P"]
        /\ UNCHANGED <<peer, device, dev>> /\ pc' # "construct"
    <3>1. pc' # "construct"
      BY <1>3 DEF predict, insertLandmark, fullState, rigid, enter
    <3> QED BY <1>0, <1>3, <3>1, CallsStage, CallOfPc
  <2>2. \A c \in Calls : c.n \in Nat
    BY CallFacts
  <2>3. \A b \in Resident, c \in Calls, w \in What : <<w, c>> \in dev[b] => c.n <= call.n
    BY <1>0 DEF Numbered
  <2>4. \A b \in Resident, c \in Calls, w \in What : <<w, c>> \in dev'[b] => c.n <= call'.n
    BY <2>1, <2>2, <2>3
  <2>5. \A b \in Resident : before'[b] = dev[b]
    BY <2>1, BufferSets
  <2>6. \A b \in Resident, c \in Calls, w \in What : <<w, c>> \in before'[b] => c.n < call'.n
    BY <2>1, <2>2, <2>3, <2>5
  <2>7. peer' \in {"none", "cuda", "cpu"} /\ device' \in {"up", "lost"}
    BY <1>0, <2>1 DEF Numbered
  <2> QED BY <2>1, <2>4, <2>6, <2>7 DEF Numbered
<1>4. CASE batchUpdateFullState \/ motionPropagate \/ writeBack
  <2>1. /\ OwnResults /\ UNCHANGED <<peer, device, call, before>>
        /\ pc \in BatchSteps \cup MotionSteps /\ pc' = After[pc]
    BY <1>0, <1>4, DeviceResults, DeviceShape
  <2>2. pc # "idle" /\ pc' # "construct"
    BY <2>1, AfterFacts, StepSets DEF AfterBatch, MotionSteps
  <2>3. call.n \in Nat
    BY <1>0, CallOfPc
  <2> QED BY <1>0, <2>1, <2>2, <2>3 DEF Numbered, OwnResults
<1>5. CASE begin \/ growFails \/ batchFails \/ skipped \/ syncFromBackend
  <2>1. UNCHANGED <<peer, device, call, before, dev>> /\ pc # "idle" /\ pc' # "construct"
    <3>1. CASE begin \/ growFails \/ batchFails
      BY <3>1 DEF begin, growFails, batchFails, fails, others, scratchOthers, Checked, BatchSteps,
         AfterBatch
    <3>2. CASE skipped
      BY <3>2, SkippedFacts, AfterFacts DEF MotionSteps
    <3>3. CASE syncFromBackend
      BY <3>3, AfterFacts DEF syncFromBackend, download
    <3> QED BY <1>5, <3>1, <3>2, <3>3
  <2> QED BY <1>0, <2>1 DEF Numbered
<1>6. CASE Lose
  <2>1. UNCHANGED <<peer, call, before, dev, pc>> /\ device' = "lost"
    BY <1>6 DEF Lose
  <2> QED BY <1>0, <2>1 DEF Numbered
<1>7. CASE Quiet \/ UNCHANGED cudaVars
  <2>1. UNCHANGED <<peer, device, call, before, dev, pc>>
    BY <1>7 DEF Quiet, cudaVars
  <2> QED BY <1>0, <2>1 DEF Numbered
<1> QED BY <1>1, <1>2, <1>3, <1>4, <1>5, <1>6, <1>7 DEF Next

\* Before the first call there is nothing.
LEMMA InitContractInv == Init => Stage /\ Numbered
<1> SUFFICES ASSUME Init PROVE Stage /\ Numbered
  OBVIOUS
<1>1. /\ call = NoCall /\ pc = "construct" /\ peer = "none" /\ device = "up"
      /\ dev["x"] = {} /\ dev["P"] = {} /\ before["x"] = {} /\ before["P"] = {}
  BY BufferSets DEF Init, Empty
<1> QED BY <1>1, CallFacts, BufferSets DEF Stage, Numbered

\* At each step x and P are what they were before the call, with the results so far.
THEOREM CudaContractInvariant == Spec => []ContractInv
<1>1. CudaInv /\ WarmUpDiagonal /\ Init => ContractInv
  BY InitContractInv DEF ContractInv
<1>2. ContractInv /\ CudaInv' /\ WarmUpDiagonal' /\ [Next]_cudaVars => ContractInv'
  BY NextStage, NextNumbered DEF ContractInv
<1> QED BY <1>1, <1>2, CudaInvariant, CudaWarmUpDiagonal, PTL DEF Spec

-----------------------------------------------------------------------------
(* An update that fails *)

\* An update that has returned false has left x and P as they were.
FailedLeaves ==
    /\ Completes /\ call \in Calls /\ call.by = "update"
    /\ pc \in {"downX", "downP", "upPose"} /\ ~answer
    => Same("x") /\ Same("P")

\* If the last product is not refused, what is refused while the device is up comes
\* before the gain is applied to x.
LEMMA RefusedEarly ==
    ASSUME ContractInv, "gemmP" \notin Refusable, Completes, call \in Calls,
           growFails \/ batchFails
    PROVE  Same("x") /\ Same("P")
<1>1. CASE growFails
  BY <1>1 DEF growFails, ContractInv, Stage, Early
<1>2. CASE batchFails
  <2>1. pc \in BatchSteps /\ pc \in Refusable
    BY <1>2 DEF batchFails, fails, Checked, MayRefuse, Completes
  <2>2. pc \in Early
    BY <2>1, CudaAssumption DEF LibraryCalls, BatchSteps, Early
  <2> QED BY <2>2 DEF ContractInv, Stage
<1> QED BY <1>1, <1>2

\* Between the failure and the end of the update x and P are only read.
LEMMA NextFailedLeaves ==
    ASSUME ContractInv, "gemmP" \notin Refusable, FailedLeaves, [Next]_cudaVars
    PROVE  FailedLeaves'
<1> SUFFICES ASSUME Completes', call' \in Calls, call'.by = "update",
                    pc' \in {"downX", "downP", "upPose"}, ~answer'
             PROVE  Same("x")' /\ Same("P")'
  BY DEF FailedLeaves
<1> USE AfterFacts
<1>1. CASE growFails \/ batchFails
  <2>1. UNCHANGED <<peer, device, call, before, dev>>
    BY <1>1 DEF growFails, batchFails, fails, others, scratchOthers
  <2> QED BY <1>1, <2>1, RefusedEarly DEF Completes, Same
<1>2. CASE syncFromBackend \/ Quiet \/ UNCHANGED cudaVars
  <2>1. /\ UNCHANGED <<peer, device, call, before, dev, answer>>
        /\ pc \in {"downX", "downP", "upPose"}
    BY <1>2 DEF syncFromBackend, download, Quiet, cudaVars
  <2> QED BY <2>1 DEF FailedLeaves, Completes, Same
<1>3. CASE Lose
  BY <1>3 DEF Lose, Completes
<1>4. CASE construct \/ fallBack \/ restore
  BY <1>4, CallFacts DEF construct, fallBack, restore, constructed
<1>5. CASE predict \/ insertLandmark \/ fullState \/ rigid
  BY <1>5 DEF predict, insertLandmark, fullState, rigid, enter
<1>6. CASE begin
  BY <1>6 DEF begin
<1>7. CASE batchUpdateFullState
  BY <1>7 DEF batchUpdateFullState, upH, upR, upNu, gemmHP, gemmS, copyKt, getrf, getrs,
     gemvX, gemmP, batchSync, writes, adds, step
<1>8. CASE motionPropagate \/ skipped
  <2>1. /\ pc \in MotionSteps /\ pc' = After[pc] /\ call' = call /\ CallShape
    BY <1>8, SkippedFacts DEF ContractInv, CudaInv, motionPropagate, upG, gemmRows, putRows,
       gemmCols, putCols, poseDiag, compose, covDiag, writes, adds, step, others, MotionSteps
  <2>2. pc \in {"covDiag", "compose"}
    BY <2>1 DEF MotionSteps
  <2> QED BY <2>1, <2>2, CallFacts DEF CallShape
<1>9. CASE writeBack
  BY <1>9 DEF writeBack, setVec, upPose, upBlock, adds, step
<1> QED BY <1>1, <1>2, <1>3, <1>4, <1>5, <1>6, <1>7, <1>8, <1>9 DEF Next

\* "state left unchanged" holds of an update that fails on a device that is up, if it
\* is not the product that updates P that failed: the finding needs that one, or a
\* lost device (CudaBackend::batchUpdateFullState).
THEOREM CudaFailureLeavesState ==
    ASSUME "gemmP" \notin Refusable
    PROVE  Spec => [](Completes => FailureLeavesState)
<1>1. Init => FailedLeaves
  BY DEF Init, FailedLeaves
<1>2. ContractInv /\ FailedLeaves /\ [Next]_cudaVars => FailedLeaves'
  BY NextFailedLeaves
<1>3. ContractInv /\ FailedLeaves => (Completes => FailureLeavesState)
  <2> SUFFICES ASSUME ContractInv, FailedLeaves, Completes, pc = "downX",
                      call.by = "update", ~answer
               PROVE  dev.x = before.x /\ dev.P = before.P
    BY DEF FailureLeavesState
  <2>1. call \in Calls
    BY CallFacts DEF ContractInv, CudaInv, CallShape, AllCalls
  <2> QED BY <2>1 DEF FailedLeaves, Same
<1> QED BY <1>1, <1>2, <1>3, CudaContractInvariant, PTL DEF Spec

-----------------------------------------------------------------------------
(* The types *)

Places == {"construct", "restore", "idle", "batch", "downX", "downP"}
              \cup BatchSteps \cup MotionSteps
PlainTypes == pc \in Places /\ answer \in BOOLEAN

\* A step leads to a step, and the answer is TRUE or FALSE.
LEMMA NextPlain ==
    ASSUME CallShape, PlainTypes, [Next]_cudaVars
    PROVE  PlainTypes'
<1>1. CASE batchUpdateFullState \/ motionPropagate \/ writeBack
  <2>1. pc' = After[pc] /\ pc \in BatchSteps \cup MotionSteps
        /\ answer' \in BOOLEAN
    <3>1. CASE batchSync
      BY <1>1, <3>1, DeviceShape DEF batchSync, PlainTypes
    <3>2. CASE ~batchSync
      BY <1>1, <3>2, DeviceShape DEF batchUpdateFullState, upH, upR, upNu, gemmHP, gemmS, copyKt,
         getrf, getrs, gemvX, gemmP, motionPropagate, upG, gemmRows, putRows, gemmCols, putCols,
         poseDiag, compose, covDiag, writeBack, setVec, upPose, upBlock, writes, adds, step,
         PlainTypes
    <3> QED BY <3>1, <3>2
  <2>2. CASE pc \in BatchSteps
    BY <2>1, <2>2, AfterFacts DEF PlainTypes, Places, BatchSteps, MotionSteps, AfterBatch
  <2>3. CASE pc \in MotionSteps
    BY <2>1, <2>3, AfterFacts DEF PlainTypes, Places, MotionSteps
  <2> QED BY <2>1, <2>2, <2>3
<1>2. CASE skipped
  <2>1. pc' = After[pc] /\ pc \in MotionSteps
    BY <1>2, SkippedFacts
  <2>2. answer' \in BOOLEAN
    BY <1>2 DEF skipped, PlainTypes
  <2> QED BY <2>1, <2>2, AfterFacts DEF PlainTypes, Places, MotionSteps
<1>3. CASE begin \/ growFails \/ batchFails
  BY <1>3 DEF begin, growFails, batchFails, fails, AfterBatch, PlainTypes, Places, BatchSteps,
     MotionSteps
<1>4. CASE syncFromBackend
  BY <1>4, AfterFacts DEF syncFromBackend, download, PlainTypes, Places, MotionSteps
<1>5. CASE construct \/ fallBack \/ restore
  BY <1>5 DEF construct, fallBack, restore, constructed, PlainTypes, Places
<1>6. CASE predict \/ insertLandmark \/ fullState \/ rigid
  BY <1>6 DEF predict, insertLandmark, fullState, rigid, enter, PlainTypes, Places, MotionSteps
<1>7. CASE Lose \/ Quiet \/ UNCHANGED cudaVars
  BY <1>7 DEF Lose, Quiet, cudaVars, PlainTypes
<1> QED BY <1>1, <1>2, <1>3, <1>4, <1>5, <1>6, <1>7 DEF Next

\* The types of the peer, with no scratch buffer holding two things at once.
THEOREM CudaTypeOK == Spec => []TypeOK
<1>1. Init => PlainTypes
  BY DEF Init, PlainTypes, Places
<1>2. CallShape /\ PlainTypes /\ [Next]_cudaVars => PlainTypes'
  BY NextPlain
<1>3. RowsInv /\ PlainTypes /\ ContractInv => TypeOK
  <2> SUFFICES ASSUME RowsInv, PlainTypes, ContractInv PROVE TypeOK
    OBVIOUS
  <2>1. /\ peer \in {"none", "cuda", "cpu"} /\ device \in {"up", "lost"}
    BY DEF ContractInv, Numbered
  <2>2. \A b \in Buffers \ Resident : Cardinality(dev[b]) <= 1
    <3> SUFFICES ASSUME NEW b \in Buffers \ Resident PROVE Cardinality(dev[b]) <= 1
      OBVIOUS
    <3>1. dev[b] = {} \/ \E e : dev[b] = {e}
      BY DEF ContractInv, CudaInv, DevTyped
    <3>2. Cardinality(dev[b]) \in {0, 1}
      BY <3>1, FS_EmptySet, FS_Singleton
    <3> QED BY <3>2
  <2>3. /\ dev \in [Buffers -> SUBSET (What \X AllCalls)]
        /\ mirror \in [Resident -> SUBSET (What \X AllCalls)] /\ call \in AllCalls
    BY DEF ContractInv, CudaInv, DevTyped, Contents, CallShape
  <2>4. filled \in [Matrices -> SUBSET Entries]
    BY DEF ContractInv, WarmUpDiagonal, Diagonal
  <2> QED BY <2>1, <2>2, <2>3, <2>4 DEF TypeOK, RowsInv, PlainTypes, Places
<1> QED BY <1>1, <1>2, <1>3, CudaCallShape, CudaRows, CudaContractInvariant, PTL DEF Spec

-----------------------------------------------------------------------------
(* The refinement *)

MeanOf(xs) == {c \in Calls : <<"mean", c>> \in xs}
CovOf(ps) == {c \in Calls : \A what \in Absorbed(c) : <<what, c>> \in ps}
                 \cup (IF \E c \in Calls : <<"junk", c>> \in ps THEN {NoCall} ELSE {})

\* A result in x is a call the mean has absorbed.
LEMMA MeanGrows ==
    ASSUME NEW xs, NEW c \in Calls
    PROVE  MeanOf(xs \cup {<<"mean", c>>}) = MeanOf(xs) \cup {c}
  BY DEF MeanOf

\* What P holds of a call that it has absorbed, by kind.
LEMMA AbsorbedBy ==
    ASSUME NEW c \in Calls
    PROVE  /\ c.by = "predict" => Absorbed(c) = {"rows", "cols", "noise", "limo"}
           /\ c.by = "insert" => Absorbed(c) = {"nothing"}
           /\ c.by \in {"update", "rigid"} => Absorbed(c) = {"update"}
  BY DEF Absorbed

\* A correction in P is a call the covariance has absorbed.
LEMMA CovUpdated ==
    ASSUME NEW ps, NEW c \in Calls, c.by \in {"update", "rigid"}
    PROVE  CovOf(ps \cup {<<"update", c>>}) = CovOf(ps) \cup {c}
<1> DEFINE qs == ps \cup {<<"update", c>>}
<1>1. \A d \in Calls : <<"junk", d>> \in qs <=> <<"junk", d>> \in ps
  OBVIOUS
<1>2. \A d \in Calls : \A w : <<w, d>> \in qs <=> <<w, d>> \in ps \/ (w = "update" /\ d = c)
  OBVIOUS
<1>3. Absorbed(c) = {"update"}
  BY AbsorbedBy
<1>4. {d \in Calls : \A w \in Absorbed(d) : <<w, d>> \in qs}
          = {d \in Calls : \A w \in Absorbed(d) : <<w, d>> \in ps} \cup {c}
  BY <1>2, <1>3
<1> QED BY <1>1, <1>4 DEF CovOf

\* A motion is absorbed whole, or leaves P spoiled.
LEMMA CovMoved ==
    ASSUME NEW ps, NEW c \in Calls, c.by = "predict", NEW w \in Products,
           \A what \in What : <<what, c>> \notin ps
    PROVE  CovOf(ps \cup {<<w[1], c>>, <<w[2], c>>, <<"noise", c>>, <<"limo", c>>})
               \in {CovOf(ps) \cup {c}, CovOf(ps) \cup {NoCall}}
<1> DEFINE qs == ps \cup {<<w[1], c>>, <<w[2], c>>, <<"noise", c>>, <<"limo", c>>}
           Whole(s) == {d \in Calls : \A v \in Absorbed(d) : <<v, d>> \in s}
<1>1. w[1] \in {"rows", "junk"} /\ w[2] \in {"cols", "junk"}
  BY DEF Products
<1>2. Absorbed(c) = {"rows", "cols", "noise", "limo"}
  BY AbsorbedBy
<1>3. \A d \in Calls : \A v : d # c => (<<v, d>> \in qs <=> <<v, d>> \in ps)
  OBVIOUS
<1>4. \A v \in What : <<v, c>> \in qs <=> v \in {w[1], w[2], "noise", "limo"}
  OBVIOUS
<1>5. c \notin Whole(ps)
  BY <1>2, BufferSets
<1>6. CASE w[1] = "rows" /\ w[2] = "cols"
  <2>1. \A d \in Calls : <<"junk", d>> \in qs <=> <<"junk", d>> \in ps
    BY <1>6
  <2>2. Whole(qs) = Whole(ps) \cup {c}
    BY <1>2, <1>3, <1>4, <1>6, BufferSets
  <2> QED BY <2>1, <2>2 DEF CovOf
<1>7. CASE w[1] = "junk" \/ w[2] = "junk"
  <2>1. <<"junk", c>> \in qs
    BY <1>7
  <2>2. c \notin Whole(qs)
    BY <1>1, <1>2, <1>4, <1>7, BufferSets
  <2>3. Whole(qs) = Whole(ps)
    BY <1>3, <1>5, <2>2
  <2> QED BY <2>1, <2>3 DEF CovOf
<1> QED BY <1>1, <1>6, <1>7

\* A call that ends has done what its kind is to do.
LEMMA FinishedCalls ==
    ASSUME ContractInv, [Next]_cudaVars, pc # "idle", pc' = "idle", call \in Calls, Reachable
    PROVE  /\ UNCHANGED <<peer, device, call>>
           /\ \/ call.by = "insert" /\ dev'["P"] = before["P"]
                 /\ dev'["x"] = before["x"] \cup {<<"mean", call>>}
              \/ call.by = "predict" /\ dev'["x"] = before["x"] \cup {<<"mean", call>>}
                 /\ \E w \in Products :
                        dev'["P"] = before["P"] \cup {<<w[1], call>>, <<w[2], call>>,
                                                      <<"noise", call>>, <<"limo", call>>}
              \/ call.by = "update" /\ dev'["x"] = before["x"] /\ dev'["P"] = before["P"]
              \/ call.by = "update" /\ dev'["x"] = before["x"] \cup {<<"mean", call>>}
                 /\ dev'["P"] \in {before["P"], before["P"] \cup {<<"update", call>>}}
              \/ call.by = "rigid" /\ dev'["x"] = before["x"] \cup {<<"mean", call>>}
                 /\ dev'["P"] = before["P"] \cup {<<"update", call>>}
<1>1. /\ DevTyped /\ MotionFactors /\ CallShape /\ MirrorPath /\ Stage /\ Numbered
  BY DEF ContractInv, CudaInv
<1>2. (Completes /\ device # "lost") \/ peer = "cpu"
  BY <1>1, CallFacts DEF Reachable, Numbered, Completes, CallShape
<1>3. Completes
  BY <1>2 DEF Completes
<1>4. CASE writeBack
  <2>1. UNCHANGED <<peer, device, call>>
    BY <1>1, <1>4, DeviceShape
  <2>2. CASE setVec
    <3>1. dev'["x"] = dev["x"] \cup {<<"mean", call>>} /\ dev'["P"] = dev["P"] /\ pc = "setVec"
      BY <1>1, <2>2, MotionResults, BufferSets DEF Leaves
    <3> QED BY <1>1, <1>3, <2>1, <3>1 DEF Stage, Early, Same, CallShape
  <2>3. CASE upPose
    <3>1. dev'["x"] = mirror["x"] /\ dev'["P"] = dev["P"] /\ pc = "upPose"
          /\ pc' = After["upPose"]
      BY <1>1, <2>3, MotionResults, BufferSets DEF Leaves
    <3>2. call.by = "update"
      BY <1>1, <3>1, AfterFacts DEF CallShape
    <3>3. mirror["x"] = dev["x"]
      BY <1>1, <1>3, <3>1, <3>2 DEF MirrorPath
    <3> QED BY <1>1, <1>3, <2>1, <3>1, <3>2, <3>3 DEF Stage, Same, Adds
  <2>4. CASE upBlock
    <3>1. dev'["x"] = dev["x"] /\ dev'["P"] = mirror["P"] /\ pc = "upBlock"
      BY <1>1, <2>4, MotionResults, BufferSets DEF Leaves
    <3> QED BY <1>1, <1>3, <2>1, <3>1 DEF Stage, Same, Adds, CallShape
  <2> QED BY <1>4, <2>2, <2>3, <2>4 DEF writeBack
<1>5. CASE syncFromBackend
  <2>1. /\ UNCHANGED <<peer, device, call, dev>> /\ pc = "downP" /\ call.by = "predict"
    BY <1>1, <1>5, AfterFacts DEF syncFromBackend, download, CallShape
  <2> QED BY <1>1, <1>3, <2>1 DEF Stage, Adds
<1>6. ~(batchUpdateFullState \/ motionPropagate)
  <2>1. CASE batchUpdateFullState \/ motionPropagate
    <3>1. pc' = After[pc] /\ pc \in BatchSteps \cup WarmMotion \cup {"covDiag"}
      BY <2>1, AfterFacts DEF batchUpdateFullState, motionPropagate, upH, upR, upNu, gemmHP,
         gemmS, copyKt, getrf, getrs, gemvX, gemmP, batchSync, upG, gemmRows, putRows, gemmCols,
         putCols, poseDiag, compose, covDiag, writes, adds, step, BatchSteps, WarmMotion
    <3> QED BY <3>1, AfterFacts DEF BatchSteps, WarmMotion, AfterBatch
  <2> QED BY <2>1
<1>7. ~skipped
  <2>1. CASE skipped
    <3>1. pc \in MotionSteps /\ pc' = After[pc] /\ MayRefuse
      BY <2>1, SkippedFacts
    <3>2. pc \in LibraryCalls
      BY <1>2, <3>1, CudaAssumption DEF MayRefuse
    <3>3. pc \in {"gemmRows", "gemmCols"}
      BY <3>1, <3>2 DEF MotionSteps, LibraryCalls
    <3> QED BY <3>1, <3>3, AfterFacts
  <2> QED BY <2>1
<1>8. ~(begin \/ growFails \/ batchFails \/ Lose \/ Quiet \/ UNCHANGED cudaVars)
  BY DEF begin, growFails, batchFails, fails, Lose, Quiet, cudaVars, AfterBatch
<1>9. ~(construct \/ fallBack \/ restore)
  BY <1>1, CallFacts DEF construct, fallBack, restore, constructed, CallShape
<1>10. ~(predict \/ insertLandmark \/ fullState \/ rigid)
  BY DEF predict, insertLandmark, fullState, rigid, enter
<1> QED BY <1>4, <1>5, <1>6, <1>7, <1>8, <1>9, <1>10 DEF Next

AbsMean == IF Reachable THEN MeanOf(Settled["x"]) ELSE {}
AbsCov == IF Reachable THEN CovOf(Settled["P"]) ELSE {}

\* A device that is lost in use stays lost: the factory decides once.
LEMMA ReachableLost ==
    ASSUME ContractInv, [Next]_cudaVars, ~Reachable
    PROVE  ~Reachable'
<1>1. CallShape /\ peer = "cuda" /\ device = "lost" /\ call # WarmUp
  BY DEF ContractInv, CudaInv, Reachable
<1>2. pc # "construct" /\ pc # "restore"
  <2>1. pc # "restore"
    BY <1>1 DEF CallShape
  <2>2. pc # "construct"
    BY <1>1 DEF ContractInv, Numbered
  <2> QED BY <2>1, <2>2
<1>3. CASE predict \/ insertLandmark \/ fullState \/ rigid
  <2>1. UNCHANGED <<peer, device>> /\ call' \in Calls
    BY <1>3, CallsStage
  <2> QED BY <1>1, <2>1, CallFacts DEF Reachable
<1>4. CASE ~(predict \/ insertLandmark \/ fullState \/ rigid)
  <2>1. CASE batchUpdateFullState \/ motionPropagate \/ writeBack
    BY <1>1, <2>1, DeviceShape DEF Reachable
  <2>2. CASE skipped
    BY <1>1, <2>2, SkippedFacts DEF Reachable
  <2>3. CASE ~(batchUpdateFullState \/ motionPropagate \/ writeBack \/ skipped)
    <3>1. UNCHANGED <<peer, device, call>>
      BY <1>1, <1>2, <1>4, <2>3 DEF Next, construct, fallBack, restore, constructed, begin,
         growFails, batchFails, fails, others, scratchOthers, syncFromBackend, download, Lose,
         Quiet, cudaVars
    <3> QED BY <1>1, <3>1 DEF Reachable
  <2> QED BY <2>1, <2>2, <2>3
<1> QED BY <1>3, <1>4

\* Between the ends of calls nothing settles.
LEMMA Unsettled ==
    ASSUME ContractInv, [Next]_cudaVars, pc = "idle" \/ pc' # "idle" \/ call \notin Calls
    PROVE  Settled'["x"] = Settled["x"] /\ Settled'["P"] = Settled["P"]
<1>1. CallShape /\ DevTyped /\ Numbered /\ WarmUpDiagonal
  BY DEF ContractInv, CudaInv
<1>2. CASE predict \/ insertLandmark \/ fullState \/ rigid
  BY <1>2, CallsStage DEF Settled
<1>3. CASE construct \/ fallBack \/ restore
  <2>1. call \in {NoCall, WarmUp} /\ UNCHANGED before /\ pc # "idle"
    BY <1>1, <1>3 DEF construct, fallBack, restore, constructed, CallShape
  <2>2. before["x"] = {} /\ before["P"] = {}
    BY <1>1, <2>1, CallFacts DEF Numbered
  <2>3. pc' = "idle" => dev'["x"] = {} /\ dev'["P"] = {}
    <3>1. CASE construct
      BY <3>1 DEF construct
    <3>2. CASE fallBack
      BY <3>2, BufferSets DEF fallBack, Empty
    <3>3. CASE restore
      BY <1>1, <3>3, RestoredClean
    <3> QED BY <1>3, <3>1, <3>2, <3>3
  <2> QED BY <2>1, <2>2, <2>3 DEF Settled
<1>4. CASE batchUpdateFullState \/ motionPropagate \/ writeBack \/ skipped
  <2>1. UNCHANGED <<before, call>> /\ pc \in BatchSteps \cup MotionSteps /\ pc' = After[pc]
    BY <1>1, <1>4, DeviceShape, SkippedFacts
  <2>2. pc # "idle"
    BY <2>1 DEF BatchSteps, MotionSteps
  <2>3. CASE pc' # "idle"
    BY <2>1, <2>2, <2>3 DEF Settled
  <2>4. CASE call \notin Calls
    <3>1. call \in {NoCall, WarmUp}
      BY <1>1, <2>4 DEF CallShape, AllCalls
    <3>2. pc \in BatchSteps \cup WarmMotion
      BY <1>1, <2>1, <3>1, CallFacts DEF CallShape, BatchSteps, MotionSteps, WarmMotion
    <3>3. pc' # "idle"
      BY <2>1, <3>2, AfterFacts DEF BatchSteps, WarmMotion, AfterBatch
    <3> QED BY <2>3, <3>3
  <2> QED BY <2>2, <2>3, <2>4
<1>5. CASE begin \/ growFails \/ batchFails \/ syncFromBackend
  <2>1. UNCHANGED before /\ pc # "idle"
    BY <1>5 DEF begin, growFails, batchFails, fails, others, scratchOthers, Checked, BatchSteps,
       syncFromBackend, download
  <2>2. pc' # "idle" \/ call \in Calls
    <3>1. CASE begin \/ growFails \/ batchFails
      BY <3>1 DEF begin, growFails, batchFails, fails, AfterBatch
    <3>2. CASE syncFromBackend
      <4>1. call.by \in {"predict", "update"}
        BY <1>1, <3>2 DEF syncFromBackend, download, CallShape
      <4> QED BY <1>1, <4>1, CallFacts DEF CallShape, AllCalls
    <3> QED BY <1>5, <3>1, <3>2
  <2> QED BY <2>1, <2>2 DEF Settled
<1>6. CASE Lose \/ Quiet \/ UNCHANGED cudaVars
  <2>1. UNCHANGED <<dev, before, pc>>
    BY <1>6 DEF Lose, Quiet, cudaVars
  <2> QED BY <2>1 DEF Settled
<1> QED BY <1>2, <1>3, <1>4, <1>5, <1>6 DEF Next

AbsStutter == AbsMean' = AbsMean /\ AbsCov' = AbsCov /\ Reachable' = Reachable

\* The step a call ends with is the contract's step for it, or none.
AbsCall(c) ==
    /\ Reachable /\ Reachable' /\ c \notin AbsMean \cup AbsCov
    /\ AbsMean' = AbsMean \cup {c}
    /\ \/ c.by = "predict" /\ AbsCov' \in {AbsCov \cup {c}, AbsCov \cup {NoCall}}
       \/ c.by = "insert" /\ AbsCov' = AbsCov
       \/ c.by \in {"update", "rigid"} /\ AbsCov' = AbsCov \cup {c}
       \/ c.by = "update" /\ AbsCov' = AbsCov

\* The step that ends a call is the contract's step for it, or none if it failed.
LEMMA CallEnds ==
    ASSUME ContractInv, [Next]_cudaVars, pc # "idle", pc' = "idle", call \in Calls, Reachable
    PROVE  AbsStutter \/ AbsCall(call)
<1>1. /\ DevTyped /\ Numbered
  BY DEF ContractInv, CudaInv
<1>2. UNCHANGED <<peer, device, call>> /\ Reachable'
  <2>1. UNCHANGED <<peer, device, call>>
    BY FinishedCalls
  <2> QED BY <2>1 DEF Reachable
<1>3. /\ AbsMean = MeanOf(before["x"]) /\ AbsCov = CovOf(before["P"])
      /\ AbsMean' = MeanOf(dev'["x"]) /\ AbsCov' = CovOf(dev'["P"])
  BY <1>2 DEF AbsMean, AbsCov, Settled, MeanOf, CovOf, Absorbed
<1>4. \A b \in {"x", "P"}, w \in What : <<w, call>> \notin before[b]
  <2>1. call.n \in Nat
    BY CallFacts
  <2>2. \A b \in Resident, c \in Calls, w \in What : <<w, c>> \in before[b] => c.n < call.n
    BY <1>1 DEF Numbered
  <2>3. \A b \in Resident, w \in What : <<w, call>> \in before[b] => call.n < call.n
    BY <2>2
  <2> QED BY <2>1, <2>3, BufferSets
<1>5. call \notin AbsMean
  BY <1>3, <1>4, BufferSets DEF MeanOf
<1>6. call \notin AbsCov
  <2>1. <<"nothing", call>> \notin before["P"]
    BY <1>1, BufferSets DEF DevTyped, Contents
  <2>2. \E w \in Absorbed(call) : <<w, call>> \notin before["P"]
    <3>1. call.by \in {"predict", "insert", "update", "rigid"}
      BY CallFacts
    <3> QED BY <1>4, <2>1, <3>1, AbsorbedBy, BufferSets
  <2> QED BY <1>3, <2>2, CallFacts DEF CovOf
<1>7. CASE call.by = "insert" /\ dev'["P"] = before["P"]
           /\ dev'["x"] = before["x"] \cup {<<"mean", call>>}
  BY <1>2, <1>3, <1>5, <1>6, <1>7, MeanGrows DEF AbsCall
<1>8. CASE call.by = "predict" /\ dev'["x"] = before["x"] \cup {<<"mean", call>>}
           /\ \E w \in Products :
                  dev'["P"] = before["P"] \cup {<<w[1], call>>, <<w[2], call>>,
                                                <<"noise", call>>, <<"limo", call>>}
  <2>1. AbsCov' \in {AbsCov \cup {call}, AbsCov \cup {NoCall}}
    BY <1>3, <1>4, <1>8, CovMoved
  <2> QED BY <1>2, <1>3, <1>5, <1>6, <1>8, <2>1, MeanGrows DEF AbsCall
<1>9. CASE call.by = "update" /\ dev'["x"] = before["x"] /\ dev'["P"] = before["P"]
  BY <1>2, <1>3, <1>9 DEF AbsStutter
<1>10. CASE call.by = "update" /\ dev'["x"] = before["x"] \cup {<<"mean", call>>}
            /\ dev'["P"] \in {before["P"], before["P"] \cup {<<"update", call>>}}
  BY <1>2, <1>3, <1>5, <1>6, <1>10, MeanGrows, CovUpdated DEF AbsCall
<1>11. CASE call.by = "rigid" /\ dev'["x"] = before["x"] \cup {<<"mean", call>>}
            /\ dev'["P"] = before["P"] \cup {<<"update", call>>}
  BY <1>2, <1>3, <1>5, <1>6, <1>11, MeanGrows, CovUpdated DEF AbsCall
<1> QED BY <1>7, <1>8, <1>9, <1>10, <1>11, FinishedCalls

\* Every step is the contract's loss, one of its calls, or none of its business.
LEMMA ContractSteps ==
    ASSUME ContractInv, [Next]_cudaVars
    PROVE  \/ AbsStutter
           \/ Reachable /\ ~Reachable' /\ AbsMean' = {} /\ AbsCov' = {}
           \/ \E c \in Calls : AbsCall(c)
<1>1. CASE ~Reachable
  <2>1. ~Reachable'
    BY <1>1, ReachableLost
  <2>2. (Reachable = FALSE) /\ (Reachable' = FALSE)
    BY <1>1, <2>1 DEF Reachable
  <2>3. AbsMean = {} /\ AbsCov = {} /\ AbsMean' = {} /\ AbsCov' = {}
    BY <1>1, <2>1 DEF AbsMean, AbsCov
  <2> QED BY <2>2, <2>3 DEF AbsStutter
<1>2. CASE Reachable /\ ~Reachable'
  BY <1>2 DEF AbsMean, AbsCov
<1>3. CASE Reachable /\ Reachable'
  <2>1. CASE pc # "idle" /\ pc' = "idle" /\ call \in Calls
    BY <1>3, <2>1, CallEnds
  <2>2. CASE pc = "idle" \/ pc' # "idle" \/ call \notin Calls
    <3>1. Settled'["x"] = Settled["x"] /\ Settled'["P"] = Settled["P"]
      BY <2>2, Unsettled
    <3>2. AbsMean' = AbsMean /\ AbsCov' = AbsCov
      BY <1>3, <3>1 DEF AbsMean, AbsCov, MeanOf, CovOf, Absorbed
    <3> QED BY <1>3, <3>2 DEF AbsStutter
  <2> QED BY <2>1, <2>2
<1> QED BY <1>1, <1>2, <1>3

\* What the filter gets from the backend, of either peer and with every fault, is
\* what BackendContract allows.
THEOREM CudaImplementsContract == Spec => PeerContract
<1>1. Init => Contract!Init
  <2> SUFFICES ASSUME Init PROVE Contract!Init
    OBVIOUS
  <2>1. /\ call = NoCall /\ pc = "construct" /\ peer = "none"
        /\ before.x = {} /\ before.P = {}
    BY DEF Init
  <2>2. Reachable = TRUE /\ Settled.x = {} /\ Settled.P = {}
    BY <2>1 DEF Reachable, Settled
  <2>3. \A c \in Calls : Absorbed(c) # {}
    BY CallFacts, AbsorbedBy
  <2> QED BY <2>2, <2>3 DEF Contract!Init
<1>2. ContractInv /\ [Next]_cudaVars => [Contract!Next]_(Contract!vars)
  <2> SUFFICES ASSUME ContractInv, [Next]_cudaVars PROVE [Contract!Next]_(Contract!vars)
    OBVIOUS
  <2>1. CASE AbsStutter
    BY <2>1 DEF AbsStutter, AbsMean, AbsCov, MeanOf, CovOf, Contract!vars
  <2>2. CASE Reachable /\ ~Reachable' /\ AbsMean' = {} /\ AbsCov' = {}
    BY <2>2 DEF AbsMean, AbsCov, MeanOf, CovOf, Contract!Next, Contract!Loss
  <2>3. CASE \E c \in Calls : AbsCall(c)
    <3>1. PICK c \in Calls : AbsCall(c)
      BY <2>3
    <3>2. Contract!New(c)
      BY <3>1 DEF AbsCall, AbsMean, AbsCov, MeanOf, CovOf, Contract!New
    <3>3. Contract!Motion(c) \/ Contract!Insertion(c) \/ Contract!Correction(c)
      BY <3>1, <3>2 DEF AbsCall, AbsMean, AbsCov, MeanOf, CovOf, Contract!Motion,
         Contract!Insertion, Contract!Correction
    <3> QED BY <3>3 DEF Contract!Next
  <2> QED BY <2>1, <2>2, <2>3, ContractSteps
<1> QED BY <1>1, <1>2, CudaContractInvariant, PTL DEF Spec, PeerContract, Contract!Spec
=============================================================================
