SPECIFICATION FusionSpec
CONSTANTS
    Window = 1
    MaxSkew = 1
    MaxStamp = 2
    MaxArrivals = 4
    Cones = {"c1", "c2"}
    N_CONES = 1
    freeze_map = TRUE
    Laps = {2}
INVARIANTS
    StampOrder
    SnapshotIsTheMap
PROPERTIES
    OrderedDelivery
    
    KeepsContract
