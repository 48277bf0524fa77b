\* Two peers and two work ids; the pending table holds one session.
SPECIFICATION FairSpec
CONSTANTS
    Peer = {p1, p2}
    p1 = p1
    p2 = p2
    MaxSent = 2
    MaxId = 2
    QueueDepth = 2
    MaxPending = 1
    WriteBatch = 1
    None = None
\* Peers send a bounded number of datagrams, so a run of the proxy may come to rest.
CHECK_DEADLOCK FALSE
INVARIANTS
    PendingLinked
    PendingBounded
    SessionServed
    InOrder
PROPERTIES
    PendingSettles
