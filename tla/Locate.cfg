\* Two slaves, one client.
CONSTANTS
    c1 = c1
    iNodeCount = 3
    Sensors = 2
    Clients = {c1}
    MaxResults = 2

SPECIFICATION FairSpec

INVARIANTS
    TypeOK
    EveryResultInOneRound

PROPERTIES
    ResultsMakeRounds
    StopEndsUnlessCaught
