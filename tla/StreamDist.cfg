\* Two clients: mutual exclusion and the refinement.
CONSTANTS
    c1 = c1
    c2 = c2
    Clients = {c1, c2}
    Stuck = {}
    AudioIn = AudioIn
    NoThread = NoThread
    Headers <- AllHeaders
    GDTSize = 2
    FrameSizes <- OneFrameSize
    Requests <- AllAndSecond
    MaxBlocks = 2
    MaxSpurious = 0

SPECIFICATION Spec
SYMMETRY Symmetry

INVARIANTS
    TypeOK
    NoTornBlock
    MutexHeldToCopyOnly

PROPERTIES
    ImplementsBlockStream
