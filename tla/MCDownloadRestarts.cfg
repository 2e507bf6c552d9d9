SPECIFICATION FairSpec
CONSTANTS
    PieceCount = 2
    PieceLength = 2
    TotalLength = 3
    Bitfields <- AllBitfields
    Peers = {p1, p2, p3}
    Healthy = {p1, p2}
    MaxPeers = 2
    NoPiece = NoPiece
    Faults = {"tamper", "write", "panic", "hang"}
    MaxRestarts = 1
INVARIANTS
    PermitsBalance
    DoneIsStored
    AbortsNoWork
    StalledIsFinal
    HealthyNeverStall
PROPERTIES
    ImplementsPromise
    CheckpointHonest
    Termination
