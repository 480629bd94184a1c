\* Two first activations at the same time, one seat left.
SPECIFICATION StockedSpec
CONSTANTS
    Tenants = {t1, t2}
    Tokens = {k1, k2}
    HW = {h1, h2}
    None = None
    Never = Never
    SeatLimits = {1}
    Windows = {1}
    Graces = {1}
    Quotas = {2}
    Expiries = {Never}
    DefaultLimit = 1
    DefaultWindow = 1
    DefaultGrace = 1
    TicksPerDay = 1
    MaxNow = 0
    MaxUntil = 1
    Workers = {p1, p2}
    Ops = {"cp_activate"}
SYMMETRY Symmetry
INVARIANTS
    CapsRespected
