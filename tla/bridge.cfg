\* Two datagrams to the client and one back, through a connection that holds the
\* client's one.
SPECIFICATION FairSpec
CONSTANTS
    Datagram <- MCDatagram
    Base = 2
    HeaderLen = 2
    MaxLen = 2
    Batch <- MCBatch
    ReadBatch = 2
    Room = 4
    MaxTaken <- MCMaxTaken
    ServerTakes = 2
    ClientTakes = 1
\* A bounded number of datagrams is taken, so both loops may come to wait for good.
CHECK_DEADLOCK FALSE
INVARIANTS
    FramesIntact
    NothingForgotten
PROPERTIES
    Delivered
    StopReleases
