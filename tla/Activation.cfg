\* Two installations on one machine, one at each door, one seat, an unreliable network.
SPECIFICATION ActSpec
CONSTANTS
    Tenants = {t1}
    Tokens = {k1}
    HW = {h1}
    None = None
    Never = Never
    SeatLimits = {1}
    Windows = {1}
    Graces = {0}
    Quotas = {1}
    Expiries = {Never}
    DefaultLimit = 1
    DefaultWindow = 1
    DefaultGrace = 1
    TicksPerDay = 1
    MaxNow = 0
    MaxUntil = 1
    Terminals = {i1, i2}
    Public = {i1}
    HwOf <- OneMachine
    TokenOf <- OneToken
    Keys <- FourKeysEach
    Ext = Ext
    Configured <- DeployedOrDev
    MaxGhosts = 1
INVARIANTS
    ActTypeOK
    OneInstallation
PROPERTIES
    TerminalRecovers
