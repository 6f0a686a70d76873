SPECIFICATION Spec
CONSTANTS
    Window = 2
    MaxSkew = 3
    MaxStamp = 5
    MaxArrivals = 4
INVARIANTS
    TypeOK
    LatenessBounded
    ExactlyOnce
    BoundedLag
    WindowHeld
