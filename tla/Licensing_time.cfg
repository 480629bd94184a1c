\* Deadlines: one tenant, one token, one device, the clock in half days.
SPECIFICATION Spec
CONSTANTS
    Tenants = {t1}
    Tokens = {k1}
    HW = {h1}
    None = None
    Never = Never
    SeatLimits = {1}
    Windows = {0, 1}
    Graces = {0, 1}
    Quotas = {1}
    Expiries = {Never, 2}
    DefaultLimit = 1
    DefaultWindow = 2
    DefaultGrace = 2
    TicksPerDay = 2
    MaxNow = 10
    MaxUntil = 10
INVARIANTS
    HorizonBounded
    StandingConsistent
    VerdictMatchesDeadline
PROPERTIES
    RevokedIsFrozen
