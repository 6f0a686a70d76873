SPECIFICATION ScanSpec
CONSTANTS
    Cones <- ThreeCones
    ConeAt <- Apart
    Track <- StartLine
    N_CONES = 2
    PoseError = 1
    MaxSigma = 2
    Floor = 2
    SigmaScale = 1
    Cap = 3
    MahaGate = 2
    MeasNoise = 2
    freeze_map = TRUE
    ScanColors <- BlueOrOrange
    MaxScan = 2
    MaxScans = 2
INVARIANTS
    NoDuplicate
    NoMerge
    MirrorCoherent
PROPERTIES
    Recognised
    FrozenMap
    KeepsContract
