\* One client: every request, spurious wakeups, more blocks.
CONSTANTS
    c1 = c1
    Clients = {c1}
    Stuck = {}
    AudioIn = AudioIn
    NoThread = NoThread
    Headers <- UnevenToo
    GDTSize = 2
    FrameSizes <- TwoFrameSizes
    Requests <- AllAndSecond
    MaxBlocks = 4
    MaxSpurious = 2

SPECIFICATION Spec

INVARIANTS
    LossesAddUp
    LateRawClientServedRight
    FaultNeedsEarlyClientOrFLAC
