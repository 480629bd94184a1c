\* Two workers: seats booked, released and reinstated under deletion and registration.
SPECIFICATION StockedSpec
CONSTANTS
    Tenants = {t1, t2}
    Tokens = {k1, k2}
    HW = {h1, h2}
    None = None
    Never = Never
    SeatLimits = {2}
    Windows = {1}
    Graces = {1}
    Quotas = {1}
    Expiries = {Never}
    DefaultLimit = 1
    DefaultWindow = 1
    DefaultGrace = 1
    TicksPerDay = 1
    MaxNow = 0
    MaxUntil = 1
    Workers = {p1, p2}
    Ops = {"cp_activate", "heartbeat", "release_seat", "reinstate", "delete", "create"}
SYMMETRY Symmetry
INVARIANTS
    TxTypeOK
    NeverUndercounted
    ReferencesIntact
