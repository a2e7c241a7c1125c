SPECIFICATION PeersSpec
CONSTANTS
    Processes = {p, q}
    Samples = {1}
    MaxIds = 1
INVARIANTS
    ReadsWhole
    SemaphoreHome
