SPECIFICATION FairSpec
CHECK_DEADLOCK FALSE
CONSTANTS
    PieceCount = 2
    PieceLength = 2
    TotalLength = 3
    Bitfields <- AllBitfields
    Peers = {p1, p2, p3, p4}
    Healthy = {}
    MaxPeers = 2
    NoPiece = NoPiece
    Faults = {"hang"}
    MaxRestarts = 0
PROPERTIES
    PieceCheckpointed
