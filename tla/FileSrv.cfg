\* A client, two files of any kind, three blocks.
CONSTANTS
    c1 = c1
    Clients = {c1}
    Reader = Reader
    NoThread = NoThread
    Kinds <- SoundAndFLAC
    MaxPlays = 2
    MaxBlocks = 3
    MaxSpurious = 1

SPECIFICATION FairSpec

INVARIANTS
    TypeOK
    FilesUsedLocked
    NoTornBlock
    HearsTheFileItIsTold
    RepeatsExplained

PROPERTIES
    ShutdownCompletes
