\* Two clients and a slot for each; the real server sends two blocks.
CONSTANTS
    c1 = c1
    c2 = c2
    Clients = {c1, c2}
    SoundIn = SoundIn
    NoThread = NoThread
    MaxClients = 2
    MaxBlocks = 2

SPECIFICATION FairSpec

INVARIANTS
    TypeOK
    OwnConnection
    HeaderIsReal
    NoTornBlock

PROPERTIES
    ImplementsBlockStream
    StopEnds
