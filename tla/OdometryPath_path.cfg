SPECIFICATION Spec
CONSTANTS
    gate_on_limo_calibration = TRUE
    Window = 0
    ConfiguredFrame <- NoFrame
    ConfiguredChild <- NoFrame
    tf_from_timer = TRUE
    NaN = NaN
    Moves <- Tight
    Anchors <- Gravity
    Covariances <- OneOrTwo
    FrameIds <- SometimesNamed
    ChildIds <- Base
    Shifts <- Aside
    Glitches = TRUE
    MaxRestarts = 1
    MaxFrames = 4
    MaxUpdates = 1
INVARIANTS
    TypeOK
    OnlyFinite
    OnlyComputed
    NothingBeforeCalibration
    MatchedPair
    FirstPlaceholderDropped
PROPERTIES
    TreeStable
    
    PiecewiseConstant
