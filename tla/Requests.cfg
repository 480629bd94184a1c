\* Three callers, three connections and two threads: both pools can run out.
SPECIFICATION FairSpec
CONSTANTS
    Clients = {c1, c2, c3}
    Credentials = {s1}
    None = None
    Threads = 2
    Connections = 3
INVARIANTS
    RequestsTypeOK
    JamNeedsCrowd
    ToldIsCommitted
PROPERTIES
    EveryRequestEnds
    RevocationDrains
