SPECIFICATION ScanSpec
CONSTANTS
    Cones <- TwoCones
    ConeAt <- Close
    Track <- Still
    N_CONES = 2
    PoseError = 1
    MaxSigma = 2
    Floor = 2
    SigmaScale = 1
    Cap = 4
    MahaGate = 2
    MeasNoise = 2
    freeze_map = TRUE
    ScanColors <- OnlyBlue
    MaxScan = 1
    MaxScans = 2
INVARIANTS
    NeverMerged
