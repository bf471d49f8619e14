\* Does a client that came in time ever fault the server?
CONSTANTS
    c1 = c1
    Clients = {c1}
    Stuck = {}
    AudioIn = AudioIn
    NoThread = NoThread
    Headers <- AllHeaders
    GDTSize = 2
    FrameSizes <- TwoFrameSizes
    Requests <- AllChannels
    MaxBlocks = 2
    MaxSpurious = 0

SPECIFICATION Spec

INVARIANTS
    NoFaultAfterStart
