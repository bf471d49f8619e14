\* Two connections; a block of two samples, a result of three.
CONSTANTS
    c1 = c1
    c2 = c2
    Clients = {c1, c2}
    lRawDataCount = 2
    lSampleCount = 3

SPECIFICATION FairSpec

INVARIANT
    TypeOK

PROPERTIES
    ShutdownStops
    ProcessesEnd
