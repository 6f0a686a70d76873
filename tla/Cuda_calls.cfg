SPECIFICATION Spec
CONSTANTS
    dim = 5
    max_two_m = 2
    RowCounts = {2, 4}
    Refusable = {"grow", "gemmHP", "gemmS", "getrf", "getrs", "gemvX", "gemmP", "gemmRows", "gemmCols"}
    MaxCalls = 3
INVARIANTS
    TypeOK
    BuffersFit
    StartsClean
    MirrorFresh
    JunkTraced
PROPERTIES
    TrueIsWhole
    PeerContract
