\* Two beams, one client, two blocks of input.
CONSTANTS
    c1 = c1
    iProcCount = 2
    Clients = {c1}
    MaxBlocks = 2

SPECIFICATION FairSpec

INVARIANTS
    TypeOK
    SemaphoreCountsQueue
    LiveChannelsAreRight

PROPERTIES
    ImplementsBlockStream
    SlavesDoNotSurvive
    StopEndsUnlessCaught
