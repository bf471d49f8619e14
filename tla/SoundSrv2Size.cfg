\* Is a compressed block sent with the size it was copied with?
CONSTANTS
    c1 = c1
    Clients = {c1}
    AudioIn = AudioIn
    NoThread = NoThread
    Compressions <- OnlyFLAC
    FragSize = 2
    FrameSizes <- SmallAndLargeFrames
    MaxBlocks = 2

SPECIFICATION Spec

INVARIANTS
    SentAsCopied
