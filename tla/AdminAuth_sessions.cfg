\* One account through idle time, expiry and housekeeping.
SPECIFICATION Spec
CONSTANTS
    Admins = {a1}
    Sessions = {s1, s2}
    Workers = {w1}
    None = None
    Idle = 1
    Absolute = 3
    Day = 1
    MaxNow = 6
    MaxSecrets = 1
SYMMETRY Symmetry
CHECK_DEADLOCK FALSE
PROPERTIES
    DeadStaysDead
