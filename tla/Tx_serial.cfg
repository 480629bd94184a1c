\* One worker, every operation, from empty tables.
SPECIFICATION TxSpec
CONSTANTS
    Tenants = {t1, t2}
    Tokens = {k1, k2}
    HW = {h1}
    None = None
    Never = Never
    SeatLimits = {1}
    Windows = {1}
    Graces = {1}
    Quotas = {1, 2}
    Expiries = {Never}
    DefaultLimit = 1
    DefaultWindow = 1
    DefaultGrace = 1
    TicksPerDay = 1
    MaxNow = 0
    MaxUntil = 2
    Workers = {p1}
    Ops = {"cp_activate", "public_activate", "cp_consume_seat", "heartbeat", "release_seat", "reinstate", "payment", "patch", "suspend", "reactivate", "delete", "create", "generate_token", "revoke_token"}
SYMMETRY Symmetry
INVARIANTS
    AloneOnlyPatchCrashes
    PaymentsHonoured
PROPERTIES
    SerialImplementsLicensing
