\* One account, two logins at a time against each other and the CLI.
SPECIFICATION Spec
CONSTANTS
    Admins = {a1}
    Sessions = {s1, s2}
    Workers = {w1, w2}
    None = None
    Idle = 1
    Absolute = 3
    Day = 1
    MaxNow = 2
    MaxSecrets = 2
SYMMETRY Symmetry
CHECK_DEADLOCK FALSE
INVARIANTS
    TypeOK
    CodeUsedOnce
    OnlyRacesOutliveReset
