\* Seat accounting: two tenants, two tokens, three devices, no time passing.
SPECIFICATION Spec
CONSTANTS
    Tenants = {t1, t2}
    Tokens = {k1, k2}
    HW = {h1, h2, h3}
    None = None
    Never = Never
    SeatLimits = {0, 2}
    Windows = {1}
    Graces = {1}
    Quotas = {1, 2}
    Expiries = {Never}
    DefaultLimit = 1
    DefaultWindow = 1
    DefaultGrace = 1
    TicksPerDay = 1
    MaxNow = 0
    MaxUntil = 2
SYMMETRY Symmetry
INVARIANTS
    TypeOK
    SeatConservation
    CapsRespected
    ReferencesIntact
PROPERTIES
    LiveBindingStable
    ImplementsSeatPool
