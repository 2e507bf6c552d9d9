SPECIFICATION Spec
CONSTANTS
    PieceCount = 2
    PieceLength = 2
    TotalLength = 3
    Bitfields <- AllBitfields
    Peers = {p1, p2}
    Healthy = {}
    MaxPeers = 2
    NoPiece = NoPiece
    Faults = {"late_write"}
    MaxRestarts = 0
INVARIANTS
    DoneIsStored
