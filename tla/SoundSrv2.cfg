\* Two clients, every compression.
CONSTANTS
    c1 = c1
    c2 = c2
    Clients = {c1, c2}
    AudioIn = AudioIn
    NoThread = NoThread
    Compressions <- AllCompressions
    FragSize = 2
    FrameSizes <- LargeFrames
    MaxBlocks = 2

SPECIFICATION FairSpec

INVARIANTS
    TypeOK
    CopyStaysInBuffers
    RawSentAsCopied
    LateClientIsToldAll

PROPERTIES
    ImplementsBlockStream
    InputDeathStops
