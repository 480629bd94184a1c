\* More keys than the limiter tracks, two threads, a lockout longer than the window.
SPECIFICATION Spec
CONSTANTS
    Keys = {k1, k2, k3}
    Workers = {w1, w2}
    None = None
    MaxFailures = 2
    Window = 1
    Lockout = 2
    MaxKeys = 2
    MaxNow = 4
    MaxAttempts = 6
SYMMETRY Symmetry
CHECK_DEADLOCK FALSE
INVARIANTS
    TypeOK
    MemoryBounded
    GuessesBounded
    LockedForCause
PROPERTIES
    LockoutServed
