\* Two connection tasks from one address; two accept errors in a row are fatal.
SPECIFICATION FairSpec
CONSTANTS
    Setups <- Settings
    Conn = {c1, c2}
    c1 = c1
    c2 = c2
    FatalErrs = 2
    FailureLimit = 2
    RequestLimit = 1
\* A server that has returned stops.
CHECK_DEADLOCK FALSE
INVARIANTS
    RatesHeld
    ListenersPersist
PROPERTIES
    SilentPeersDropped
    TasksReaped
    Drains
