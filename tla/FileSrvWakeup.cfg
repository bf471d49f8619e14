\* Do all clients wake up when the Reader ends?
CONSTANTS
    c1 = c1
    c2 = c2
    Clients = {c1, c2}
    Reader = Reader
    NoThread = NoThread
    Kinds <- Sound
    MaxPlays = 1
    MaxBlocks = 1
    MaxSpurious = 0

SPECIFICATION Spec

SYMMETRY Symmetry

INVARIANTS
    AllWokenUp
