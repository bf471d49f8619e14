\* A healthy client and a stuck one.
CONSTANTS
    c1 = c1
    c2 = c2
    Clients = {c1, c2}
    Stuck = {c2}
    AudioIn = AudioIn
    NoThread = NoThread
    Headers <- RawOnly
    GDTSize = 2
    FrameSizes <- OneFrameSize
    Requests <- AllChannels
    MaxBlocks = 2
    MaxSpurious = 0

SPECIFICATION FairSpec

PROPERTIES
    StopEnds
    WaitingClientIsServed
