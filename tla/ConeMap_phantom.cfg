SPECIFICATION MapSpec
CONSTANTS
    Cones <- OneCone
    ConeAt <- Single
    Track <- Still
    N_CONES = 2
    PoseError = 1
    MaxSigma = 1
    Floor = 2
    SigmaScale = 1
    Cap = 3
    MahaGate = 2
    MeasNoise = 2
    freeze_map = TRUE
    ScanColors <- OnlyBlue
    MaxScan = 1
    MaxScans = 2
    cone_time_seen_th = 2
    republish_live_for_debug = FALSE
    Laps <- AllLaps
INVARIANTS
    AssociatedWithMapped
