\* A datagram each way, each larger than the connection holds.
SPECIFICATION FairSpec
CONSTANTS
    Datagram <- MCDatagram
    Base = 2
    HeaderLen = 2
    MaxLen = 2
    Batch <- MCBatch
    ReadBatch = 2
    Room = 3
    MaxTaken <- MCMaxTaken
    ServerTakes = 1
    ClientTakes = 1
\* A bounded number of datagrams is taken, so both loops may come to wait for good.
CHECK_DEADLOCK FALSE
PROPERTIES
    StopReleases
