SPECIFICATION Spec
CONSTANTS
    gate_on_limo_calibration = TRUE
    Window = 0
    ConfiguredFrame <- NoFrame
    ConfiguredChild <- NoFrame
    tf_from_timer = TRUE
    NaN = NaN
    Moves <- Tight
    Anchors <- Gravity
    Covariances <- One
    FrameIds <- Named
    ChildIds <- Base
    Shifts <- Sideways
    Glitches = FALSE
    MaxRestarts = 0
    MaxFrames = 2
    MaxUpdates = 1
PROPERTIES
    CurrentWhenRestamped
