\* Two work connections compete for a pool of one and two users for one active slot.
SPECIFICATION FairSpec
CONSTANTS
    Sessions = 1
    Name = {ssh}
    ssh = ssh
    User = {u1, u2}
    u1 = u1
    u2 = u2
    Conn = {w1, w2}
    w1 = w1
    w2 = w2
    MaxPool = 1
    MaxActive = 1
    None = None
\* Every connection is used once, so a run of the server may come to rest.
CHECK_DEADLOCK FALSE
INVARIANTS
    PoolSound
PROPERTIES
    UserSettled
    PoolReleased
