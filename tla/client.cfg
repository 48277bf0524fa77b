\* One proxy over two attempts, or two proxies over one; two retry rounds or one.
SPECIFICATION FairSpec
CONSTANTS
    Name = {ssh, web}
    ssh = ssh
    web = web
    MaxConn = 2
    Setups <- Settings
    Cap = 1
    Rounds = 2
    BackoffInit = 1
    BackoffMax = 3
    None = None
\* The attempts are bounded, and a client may return.
CHECK_DEADLOCK FALSE
INVARIANTS
    RegisteredServed
    NoneForgotten
PROPERTIES
    Reconnects
    ShutdownEnds
    NothingLeftBehind
