# A TLA+ model of cuda_cone_fused

`cuda_cone_fused` is a ROS 2 node that fuses FAST-LIMO odometry with cones seen
by a LiDAR in an EKF-SLAM filter, and publishes a pose in the `track` frame, the
transform `track -> odom`, and a map of the cones.  This directory holds TLA+
modules of the parts of the node that have state, the TLC configurations that
check them on small instances, and TLAPS proofs of what holds for every
instance.  Paths below are those of the repository, under `src/`.

## 1. The system

### 1.1 Components

| Component | Code | State | Operations |
|---|---|---|---|
| Command queue | `include/.../input/filter_command.hpp` | `buffer_` (multimap by stamp), `newest_` | `push`, `drainUpTo`, `newestStamp` |
| EKF core | `src/ekf_odom.cpp`, `ekf_odom.hpp` | mirrors `x_`, `P_pose_`; `landmark_count`, colour votes `s`, `is_first_lap_completed`, `assoc_stats_` | `predict`, `update`, `setFirstLapCompleted` |
| Backend | `backend/ekf_backend.hpp`, `cpu_backend.*`, `cuda_backend.*` | the authoritative state x and P | `motionPropagate`, `insertLandmark`, `batchUpdateFullState`, `upload*`, `download*` |
| LIMO adapter | `input/limo_motion_adapter.hpp` | `prev_pose_`, `prev_cov_`, `initialized_`, `calibrated_` | `convert` |
| Cone adapter, colours | `input/cone_obs_adapter.hpp`, `input/color_classifier.hpp`, `color_logic.hpp` | votes per landmark | `convert`, `classify`, `setColor`, `getConeColorAndCount` |
| Map publisher | `output/cone_map_publisher.*` | the lap-freeze latch, the live and the frozen marker | `publish` |
| Odometry publisher | `output/odometry_publisher.hpp` | `last_tf_`, `have_tf_`, the frame ids | `publish`, `republishTf`, `setOdomFrame`, `setChildFrame` |
| Node | `src/cuda_cone_fused.cpp`, `cuda_cone_fused_node.cpp` | race status, the components above | three subscription callbacks, the TF timer, `drainQueue` |

### 1.2 How they interact

A LIMO message runs `fastLimoDataCallback`: the adapter turns it into an
increment, the queue takes it, `drainQueue` applies to the filter every command
whose stamp is at or below the horizon (the newest LIMO or cone stamp less the
late-arrival window), and the odometry publisher publishes the filter's pose and
the correction with respect to the message.  A cone message runs
`conesCallback`: gate, conversion, push, drain (`update()` associates the
observations one by one and fuses them together), and the map publisher, which
tells the filter when the first lap is over.  A race status message stores the
lap.  The three subscriptions share one mutually exclusive callback group; the
timer that re-broadcasts the last transform has its own group and runs on the
executor's second thread.

### 1.3 What is hard

* *Order.*  Scans arrive later than the motion they belong between.  The queue
  is to hand the filter stamp order, and how far it does depends on a window, a
  skew and a clamp at zero.
* *Two copies of one state.*  The filter keeps mirrors of what the backend owns;
  insertion, the two update paths and `predict()` each keep them in step in a
  way of their own, and the backend may fail.
* *Association.*  Radii that grow with uncertainty and are capped, against cones
  whose spacing is fixed and a pose in error: a cone mapped twice, or two taken
  for one, is never undone.
* *Latches in several objects.*  The calibration gate, the motion reference, the
  lap-freeze latch, the filter's lap flag, the resolved frame ids.
* *A second thread,* which re-stamps what the first one left.
* *Angles,* wrapped in three places in three ways.
* *Partial failure.*  An update on the device is a chain of calls of which any may
  be refused, some checked and some not, with x written before P.
* *Inputs that go bad:* NaN, placeholders, a LIMO that restarts.

The hazards, with the line at which each bites and the properties that cover
it, are in `PROJECT.json`.

### 1.4 What makes each component correct

* Queue: ordered, exactly-once, nothing held longer or shorter than its window.
* Filter: each mapped cone has one landmark and is associated with it; mirrors
  equal the backend; after lap 1 the map is fixed; each call returns and its
  diagnostics add up.
* Backend: a call is absorbed whole or not at all, with one exception the code
  makes (x without P); no scan outgrows its buffers; the mirrors are read back after a
  failure.
* Map publisher: the snapshot is the map the filter localises against; taken
  once, on the first scan after lap 1; no cone without enough sightings, and
  none that disappears again.
* Odometry path: nothing before calibration; the transform changes with the
  cones and not with the motion; nothing that is not finite, and no transform
  without a name, leaves the node; the TF tree keeps its shape.

## 2. Modules

| Module | Models | Extends / uses |
|---|---|---|
| `CommandQueue` | the queue and the callbacks that feed and drain it | refines `StampOrdered` |
| `StampOrdered` | what the queue promises: ordered, exactly-once delivery | |
| `ColorLogic` | colour ids and votes | |
| `EkfBackend` | the operations of a backend on an abstract state | |
| `EkfOdom` | the filter: `predict`, `update` step by step, lap flag | `ColorLogic`, `EkfBackend` |
| `FilterContract` | what the filter promises the node scan by scan: a set of cones | |
| `EkfScan` | the filter with the history of its scans | `EkfOdom`; refines `FilterContract` |
| `ConeMapPublisher` | the map publisher composed with the filter and the callbacks that drive both | `EkfOdom` |
| `PlanarPose` | increment, motion composition, correction, angle wrapping | |
| `OdometryPath` | LIMO adapter, queue, filter pose, odometry publisher, TF timer, and FAST-LIMO as their environment | `PlanarPose` |
| `CudaBackend` | the CUDA peer step by step, the factory, and the refresh of the filter's mirrors | refines `BackendContract` |
| `BackendContract` | which calls x and P may have absorbed | |
| `ConeFusion` | the three callbacks with the queue between the messages, the filter's map and the map publisher | `CommandQueue`; refines `FilterContract` |
| `MCEkfOdom`, `MCConeMapPublisher`, `MCOdometryPath` | small tracks, motions and messages for TLC | |
| `CommandQueueProofs`, `OdometryPathProofs`, `EkfOdomProofs`, `EkfScanProofs`, `ConeMapPublisherProofs`, `CudaBackendProofs`, `CudaContractProofs`, `ConeFusionProofs` | theorems | TLAPS |

Every definition that models code has its lines in `PROJECT.json` under `map`.
Operators introduced as a *mutant* of another are plausible bugs in it; they are
not part of any specification and serve to test that each property can fail.

### 2.1 CommandQueue

A command is its stamp, kind and arrival number; the multimap's iteration order
is `Before`.  `Arrive` is the part of a callback up to the drain, `drainUpTo`
one turn of the loop, `Return` the loop's exit.  The callbacks of one group
never overlap, hence `callback`.  The environment may deliver stamps up to
`MaxSkew` older than the newest.  `Horizon` is `drainQueue`'s, with its clamp.
What the filter does with a command is left to the other modules: here it is
appended to `applied`.

### 2.2 EkfBackend, EkfOdom

Space is a line and the state is the pose, the landmark means, and `pose_sigma`,
the one number the gates read from the covariance.  What the Kalman gain computes
is left open: a joint update may leave every estimate anywhere within
`PoseError` of the truth.  The association logic is what is checked, against
every such outcome.  Between scans the motion may displace the pose estimate too,
and is assumed not to take it further than `PoseError` from the truth: an
assumption about LIMO's drift, not a property of the code.  The pose is
finite here: what NaN does to association (every distance comparison is false)
is left out, and what it does to the output is in `OdometryPath`.  The
control of `update()` is kept as it is: the orange filter, the nearest
neighbour with its index left at 0 for an empty map, the lap-2 gate, the radius with
its floor and cap, the capacity check, the batch, the early return, the rigid
and the full-state update, and a backend that fails.  `update()` is modelled one
observation per step; nothing else runs in between (one callback group), so the
steps are there for the properties and not for interleaving.  `car`, `origin`,
`seen` are the truth and history.

A failed update is all or nothing here (`fullStateFailed`).  The CUDA peer may
also fail with the mean corrected and P as it was (2.5); to the gates of this
module that is a `fullState` that leaves `pose_sigma` as it is, which is among
its outcomes.

`EkfScan` adds to `EkfOdom` which cones the scan in progress shows and what the
last one that returned reported, and states that, seen from return to return,
the filter is `FilterContract`: one that is told which cones it sees.  There the
map is a set of cones; a scan of lap 1 leaves what it shows in the map unless the map
is full, and says when it is; after lap 1 the map stands still, with
`freeze_map` its estimates too.  The landmarks a scan in progress has created are the
last ones, so what was settled before it is a prefix of the map.

### 2.3 ConeMapPublisher

`conesCallback` starts `update()`; when it has ended, `publish` runs with the
latch, and ends the callback.  LIMO and race status messages come between
callbacks.  The calibration gate is open and the window 0, so that a scan is
fused in its own callback.  A marker is a function from the landmarks shown to position and
colour.

### 2.4 PlanarPose, OdometryPath

Positions are integer grid points and headings quarter turns, so the rotations
and the three ways the code wraps angles (`normalizeAngle` into half turns,
`normalizeYaw` into full turns, the publisher through a quaternion) are exact.
`OdometryPath` follows one LIMO message from FAST-LIMO (calibrating, tracking,
diverging, restarting) to the transform, a scan being only what it does here: it
moves the pose and shrinks the variance.  The callback is split into its start
(frames, adapter, push), the drained commands, and `publish()`, so that the timer
can run at any point of it.  `publish()` is split at the lock of `last_tf_`:
`lockTf` takes it, `publish` stores the transform and goes on.  While it is held
(`Locked`) the timer waits; what a timer that did not would read is `Torn`, half
of one correction and half of another, and `OnlyComputed` says that what it reads
(`Seen`) is always one whole correction.  The timer callback is split where it gives up the
lock: `republishTf` copies `last_tf_` into `copy`, `sendTransform` sends the copy
when a newer transform may have gone out.  The variance stands for each of the three diagonal
entries; `NaN` for any pose with a component that is not finite.

### 2.5 CudaBackend, BackendContract

A call of the filter is the sequence of steps it takes on the device, in the
order of `After`.  A buffer holds what was written into it, named with the call
that wrote it; a product whose factors are not this call's yields junk, so that a
step that is skipped shows downstream.  x and P accumulate.  The batch update
checks its steps and stops at the first that is refused; a motion, an insertion
and a write-back do not check theirs and go on without the result.  What can be
refused while the device is up is what allocates: the growth of the scratch
buffers and the library calls with a workspace (`LibraryCalls`).  Copies and
kernel launches fail only when the device is lost, which it may be at any moment
and then stays.  `construct`, `fallBack` and `restore` are the constructor with
its warm-up and the factory.  The constructor undoes the warm-up by rewriting x
and the diagonal of P only, so the warm-up is followed entry by entry:
`filled` holds the entries of each matrix that may be nonzero, every step
computes its own from its factors' (`Support`), and `restore` starts from clean
if nothing outside the diagonal was filled.  The scratch buffers grow one by one and the
capacity is noted after the last.  The CPU peer takes the same steps, none of
which is refused.

`BackendContract` says which calls x and P have absorbed.  A joint update may be
absorbed by neither, by both, or by x alone, never by P alone; a motion whose
product was refused leaves P spoiled; a lost device ends the promise.

### 2.6 ConeFusion

The composition of the callbacks with the queue and any window: a scan may be
fused by the callback of a LIMO message, several in one drain, or after the latch
has fallen.  The filter is what `EkfOdom` shows it to be, a set of mapped cones,
with a count of how often their estimates have been moved.  A drained scan maps
its new cones in lap 1 while there is room and moves the map until it is frozen.
That this is the same filter is checked on both sides: `EkfScan` implements
`FilterContract`, and so does the filter of this module, whichever callback
drains; what `update()` does here is all the contract allows.
`conesReturn` is the end of `conesCallback`: the capacity warning, the latch and
the map published.

## 3. Runs

`tlc -config <cfg> <module>`; every run ends, all within two minutes.

| Run | Shows | Bounds |
|---|---|---|
| `queue_late` | reordering bounded by `MaxSkew - Window`, nothing lost or repeated, each command held for its window and no longer | window 2, skew 3, four messages, stamps to 5: room for two late scans behind two younger LIMO frames, and for stamps below the window |
| `ekf_lap` | every cone has one landmark and is recognised, mirrors are coherent, the map is frozen after lap 1, the filter implements `FilterContract` | three cones six apart, two slots, pose error 1, two scans of two observations, before or after the lap |
| `map_latch` | the latch, the frozen map, the published cones, a full map, diagnostics that account for every observation | one slot, two cones, three scans of up to two observations with a colour and without one, threshold 2, laps 0 to 2 in any order |
| `path` | the transform changes only where a scan was fused; no placeholder consumed before a restart; the filter has absorbed its message; nothing that is not finite and no renamed frame goes out; what the timer sends is one whole computed correction | four LIMO messages turning 90 and 180 degrees, NaN, one restart, unnamed and renamed frames, one scan, window 0, with the timer |
| `cuda` | the backend implements `BackendContract`; the warm-up leaves nothing behind; mirrors hold what the backend holds; scratch buffers fit; an acknowledged update is whole | construction and three calls of any kind, P of five rows (the pose and one landmark), two and four rows against a capacity of two, every library call refusable, the device lost anywhere |
| `fusion` | stamp order into the filter, the frozen map is the filter's, a published map shows every scan older than the window, the filter implements `FilterContract` | window 1 = skew, four messages, stamps to 2, two cones and one slot, lap 2 reported at any time |
| `ekf_cap` | (violated) a cap below the cone spacing does not keep two cones apart | two cones five apart, cap 4 |
| `map_phantom` | (violated) the latch falls on an empty map and a later scan is fused with landmark 0 | one cone, two scans |
| `path_window` | (violated) with a window `publish()` pairs the message with a filter that has not absorbed it | window 1, three messages |
| `path_restart` | (violated) placeholders of a restarted LIMO are consumed | one restart |
| `path_stale` | (violated) the timer re-stamps a correction from before the last cone update | one scan |
| `cuda_unchanged` | (violated) an update that returns false has already changed x | one update, `gemmP` refusable |

The six violated runs each check one sentence of the repository's comments or
README; the findings in `PROJECT.json` quote it and say what the code does.
A seventh finding needs no run of its own: of a full map the comments say that
"EVERY further observation is dropped" and that the filter "goes permanently
blind" (`ekf_odom.cpp:205-208`, `cuda_cone_fused.cpp:271-274`, the warning at
282-285), and that contradicts `Recognised`, which passes in `ekf_lap` with three
cones for two slots.  A filter that did what they say (`fullIsBlind`) would
break `Recognised` and `KeepsContract` there.

Why the bounds are enough.  Distances, windows and stamps only enter
comparisons, so small integers cover the orders they can be in; two cones are
what duplicates and merges need, and a third what fills a map that has two and
is then asked for more; a scan of two observations reaches the effect
of an insertion on a later observation of the same scan; a second scan reaches
the effect of the first one's joint update; a third, in `map_latch`, one after
the latch.  Four quarter or half turns wrap each of the angles.  Three calls
reach what the second leaves for the third: a buffer grown half way, a factor
of an earlier call.  The proofs lift every safety property from these bounds,
and cover what the runs fix: `freeze_map` and `tf_from_timer` FALSE, windows
above 0, other tracks, capacities and row counts.

*Preconditions.*  `NoDuplicate`, `NoMerge` and `Recognised` presuppose that
the configured distances fit the track (`GateFits`, `MahaFits`, `MahaCovers`:
the floor covers an observation's error, no radius or gate reaches from one cone
to the next).  The instances checked satisfy them; without them the code does not
promise the property, and `ekf_cap` is an instance.

*Fairness.*  `ConeMapPublisher` assumes weak fairness of the steps of a callback in
progress (`updateStep`, `publish`): it is a thread running straight-line code
and bounded loops.  Nothing is assumed of the messages: `ScanAnswered` and
`LatchFalls` start from a scan that has arrived.  The other modules state safety
only.

*Deadlock* is checked throughout.  `Quiet` in `CommandQueue`, `OdometryPath` and
`CudaBackend` is the node idling when the bounded number of messages or calls is
in.

## 4. Proofs

Checked by TLAPS from the named assumptions on the constants alone
(`QueueAssumption`, `PathAssumption`, `BackendAssumption`, `EkfAssumption`,
`PublisherAssumption`, `CudaAssumption`, `FusionAssumption`), which TLC
evaluates in the runs.  Every safety property of a passing run is a theorem.

**CommandQueueProofs.**  For every window, skew and number of messages:
`QueueTypeOK`, `QueueLateness`, `QueueStampOrder`, `QueueExactlyOnce`,
`QueueWindow`, `QueueBoundedLag`, and `QueueImplementsOrdered`, the refinement of
`StampOrdered` when the window covers the skew.  `LatenessBounded` speaks of pairs of applied
commands and says nothing of those a drain will append, so it is not inductive.
`IInv` adds `BufferFollows` (what is buffered is not too old to follow what was
applied), which `Arrive` preserves because of `WindowHeld`: what was applied is at
least a window older than the newest stamp, and an arrival is at most the skew
older.  `SeqUnique` and `SeqCovered` make exactly-once inductive, `Drained` the
bound on the lag.  That a callback comes to its end is proved in two halves
without fairness: `QueueNeverStuck`, as long as something is ready one command
is first (the least stamp, and of those the least arrival number; `LeastNumber`
is the least-number principle, from the well-foundedness of the naturals), and
`QueueDrainEnds`, the buffer is finite and each turn of the loop takes one
command out of it.

**OdometryPathProofs.**  First of the poses alone.  `CorrectionMeetsFilter`: composed with LIMO's pose the
correction gives the filter's.  `MotionKeepsCorrection`: predicting with an
increment and correcting for the new LIMO pose gives the correction of before,
for all poses.  The argument is that the three wrappings agree modulo full turns
and the difference formulas of sine and cosine.
Then of the path, for every set of motions, faults, windows, frame ids
and number of messages: `PathTypeOK`, `PathOnlyFinite`, `PathOnlyComputed`,
`PathTreeStable`, `PathNothingBeforeCalibration`, `PathMotionKeepsVariance`,
`PathPlaceholderDropped` (until LIMO restarts no placeholder is consumed); with a window of 0,
`PathMatchedPair` and `PathPiecewiseConstant`.  The invariant of the last is
`Held`: the transform out is the one that the filter's pose, advanced by the
increment still queued, and the last message give.  It rests on `ReferenceIsLast`
(the adapter's reference is the pose of the last message, dropped or not) and
`MotionKeepsCorrection`.  The conditions are needed: `path_restart` and
`path_window` are the counterexamples.  `PathCurrentUntilAScan` is the other side of
`path_stale`: what the timer re-stamps is current as long as no scan has been
fused since the last transform.

**EkfOdomProofs.**  `EkfInv` (types, `MirrorCoherent`, `Ledger`, what each phase
of `update()` leaves empty) is inductive for every track, capacity and scan, and
gives `EkfTypeOK`, `EkfMirrorCoherent`, `EkfLedger` and `EkfFrozenMap`.  `TruthInv`
adds that every mapped landmark, and the pose, is within `PoseError` of the
truth.  Then `EkfNoDuplicate`: the radius is never below the floor, which is at
least twice the error, so a mapped cone is within it and its observation is not
taken for a new one.  `EkfNoMerge`: the widest radius, and in lap 2 the gate, is
narrower than the gap between two cones less the errors, so the nearest landmark
that passes is the cone's own.  `EkfRecognised`: what is mapped passes the gate, because
its square distance is at most that of twice the error.  All three are under
`GateFits`, `MahaFits` or `MahaCovers`, as stated in the property.
`EkfNeverMerged` turns the finding of `ekf_cap` round: where the distances do fit, the
cap's comment is true.  `EkfDecided`: an observation has exactly one nearest neighbour, so
the loop's choice is never open.  `EkfReturns`: every step of `update()`, a
failed backend call among them, lowers what is left to do (`Remaining`).

**EkfScanProofs.**  `EkfKeepsContract`, and from it `EkfImplementsContract`: on a
track the distances fit the filter implements `FilterContract`, and at every
single step at which they fit it takes a step of it.  The invariant is `SightInv`
(`ScanTracked`): what the scan in progress shows is mapped, still to come, or counted as
dropped, and then the map is full; what the scan created comes after what was
settled.  `MapSize` says the landmarks and the mapped cones are equally many,
from `NoDuplicate`; and the last step of a scan is the contract's step for what
it showed, by the associations `NoMerge` makes the cone's own.

**ConeMapPublisherProofs.**  `MapImplementsFilter`: a step of the composition is a
step of the filter or leaves it alone, so that the theorems above hold of it.
`MapTypes`, `MapSnapshot`, `MapPublishedWasSeen`, `MapLatchFallsOnce`,
`MapNeverUnpublished`.  The invariant ties the publisher's latch to the filter's
lap flag and the votes of a landmark to its associations; that the count of the
winning colour never sinks is `CountGrows`.  `MapAssociatedWithMapped` is the other
side of `map_phantom`: unless the first lap ends on an empty map, no landmark
is used that was never mapped.

**CudaBackendProofs.**  `CudaCallShape` says to which kind of call a step can
belong.  `CudaWarmUpDiagonal`: no step of the warm-up fills an entry off the diagonal
of P, because products and transposes of diagonal matrices are diagonal and the
throwaway measurement is of one coordinate; with it `restore` is the initial
state, for every size of P and whichever steps were refused.  `CudaRows`, and with it `CudaBuffersFit`: the capacity is at most what the smallest
buffer has room for, through any growth that stops half way.  `CudaInv` says
which factors each step finds and how the mirrors follow; it gives
`CudaStartsClean`, `CudaMirrorFresh`, `CudaJunkTraced`, `CudaTrueIsWhole`.

**CudaContractProofs.**  `CudaImplementsContract`: for every sequence of refused
steps and a device lost anywhere the backend implements `BackendContract`.  The
invariant `Stage` says how far the call in progress has come: x and P are what
they were before it with the results of the steps behind it.  `Numbered` makes
each call new.  The step that ends a call is the contract's step for it or a
stutter (`CallEnds`); every other one, but for the loss, is a stutter
(`Unsettled`).  `CudaTypeOK` is here too.  `CudaFailureLeavesState` is the other side of
`cuda_unchanged`: on a device that is up, a failed update has changed nothing
unless it is the product that updates P (`gemmP`) that was refused.

**ConeFusionProofs.**  `FusionImplementsQueue`: seen from the queue the node is
`CommandQueue`, so `FusionStampOrder` and `FusionImplementsOrdered` follow from the
queue's.  `FusionSnapshot`: with `freeze_map` the filter is told when the snapshot
is taken, and neither maps nor moves anything afterwards, whatever is still
buffered.  `FusionPublishedIsCurrent` rests on `ScansMapped`: until the map is
frozen, what a received scan shows is still buffered or in the map, or the map is full.
`FusionKeepsContract`: the filter of this module implements `FilterContract` too,
from `LastKnown` (what was fused last is a scan that arrived).  `UpdateIsAnyFilters`
is the converse, step by step: whatever scan the contract allows is an
`update()` here.  With `EkfImplementsContract` that is the argument
that the results of this module, stated of a set of cones, carry over to the node
with `EkfOdom` in it, on a track the distances fit: each half is proved, the module
that joins them is not written.

**The findings, the other way round.**  Each of the six sentences a run violates is
a theorem under the condition it lacks: `PathMatchedPair` (window 0),
`PathPlaceholderDropped` (no restart), `PathCurrentUntilAScan`, `EkfNeverMerged`,
`MapAssociatedWithMapped`, `CudaFailureLeavesState`.  The seventh, of the full map, is refuted for every
instance by `EkfRecognised`.

**Model-checked only.**  Liveness (`LatchFalls`, `ScanAnswered`), which the proof
system does not do under fairness.  What makes a scan answered is proved as far as
it is safety: `update()` is always decided and each of its steps lowers a
measure (`EkfDecided`, `EkfReturns`), and so is the drain (`QueueNeverStuck`,
`QueueDrainEnds`); that an enabled step is taken is the fairness.

## 5. What is not modelled

* The numbers: Jacobians, gains, covariances beyond `pose_sigma`, and with them
  consistency of the filter.  Two dimensions and heading in `EkfOdom`.
* NaN in association, infinite angles (the wrapping loops would not end), and a
  singular innovation covariance (`devInfo` of the factorisation is not read).
* Of the CUDA peer the destructor, the test hooks and `downloadPoseCov3`, which
  has no caller.
* Parameters, launch and build files: no behaviour after start-up.
* The debug projection and the latency topic: compiled out by default, and they
  change no state.
* Marker shapes, colour components, covariance floors of messages, the polar
  conversion of a point, logging.

Documented behaviour met on the way that the code does not have, beyond the
findings: with the default window of 0 commands are applied in arrival order, the
README's section 8 notwithstanding (`LatenessBounded` gives the exact bound);
the predict count and, with a window, the association statistics a scan logs are
those of its own drain, which need not be about that scan; `cone_time_seen_th` counts votes of the winning colour and not
sightings (`PublishedWasSeen` is the half that holds).

## 6. Plan

Done: every component with state of its own, each with its safety properties
proved; the composition of the callbacks with the queue; the backend against its
contract; the filter against its own, on both sides of it.  What would add to it:

1. A predict and an update that may be spoiled or half absorbed, driving the
   filter through `BackendContract`, to see what association makes of them.
2. Two dimensions and heading in `EkfOdom`, with `PlanarPose`.
3. A module that joins `ConeFusion` and `EkfScan` at `FilterContract`.
