\* Two workers and one of each row: lock waits and deadlocks.
SPECIFICATION FairSpec
CONSTANTS
    Tenants = {t1}
    Tokens = {k1}
    HW = {h1}
    None = None
    Never = Never
    SeatLimits = {1}
    Windows = {1}
    Graces = {1}
    Quotas = {1}
    Expiries = {Never}
    DefaultLimit = 1
    DefaultWindow = 1
    DefaultGrace = 1
    TicksPerDay = 1
    MaxNow = 0
    MaxUntil = 2
    Workers = {p1, p2}
    Ops = {"cp_activate", "cp_consume_seat", "release_seat", "reinstate", "delete", "payment", "generate_token"}
PROPERTIES
    RequestAnswered
