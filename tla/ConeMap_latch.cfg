SPECIFICATION MapSpec
CONSTANTS
    Cones <- TwoCones
    ConeAt <- Apart
    Track <- Still
    N_CONES = 1
    PoseError = 1
    MaxSigma = 1
    Floor = 2
    SigmaScale = 1
    Cap = 3
    MahaGate = 2
    MeasNoise = 2
    freeze_map = TRUE
    ScanColors <- BlueOrUnknown
    MaxScan = 2
    MaxScans = 3
    cone_time_seen_th = 2
    republish_live_for_debug = FALSE
    Laps <- AllLaps
INVARIANTS
    MapTypeOK
    FrozenMapIsTheFiltersMap
    PublishedWasSeen
    Ledger
PROPERTIES
    LatchFallsOnce
    NeverUnpublished
    LatchFalls
    ScanAnswered
