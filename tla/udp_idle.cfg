\* One peer whose session is swept after it falls idle.
SPECIFICATION FairSpec
CONSTANTS
    Peer = {p1}
    p1 = p1
    MaxSent = 1
    MaxId = 1
    QueueDepth = 1
    MaxPending = 1
    WriteBatch = 1
    None = None
\* Peers send a bounded number of datagrams, so a run of the proxy may come to rest.
CHECK_DEADLOCK FALSE
PROPERTIES
    IdleReleased
