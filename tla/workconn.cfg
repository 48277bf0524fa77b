\* Two users and the work connections of a client that reconnects once.
SPECIFICATION Spec
CONSTANTS
    Sessions = 2
    Name = {ssh}
    ssh = ssh
    User = {u1, u2}
    u1 = u1
    u2 = u2
    Conn = {w1}
    w1 = w1
    MaxPool = 1
    MaxActive = 2
    None = None
SYMMETRY Symmetry
\* Every connection is used once, so a run of the server may come to rest.
CHECK_DEADLOCK FALSE
INVARIANTS
    TypeOK
    RightWorkConn
    ExclusiveUse
    UniqueIds
PROPERTIES
    Implements
