SPECIFICATION Spec
CONSTANTS
    PieceCount = 3
    PieceLength = 2
    TotalLength = 5
    Bitfields <- AllBitfields
    Peers = {p1, p2}
    Healthy = {}
    MaxPeers = 2
    NoPiece = NoPiece
    Faults = {"io", "write", "late_write", "panic"}
    MaxRestarts = 0
SYMMETRY PeerSymmetry
INVARIANTS
    TypeOK
    ExclusiveClaim
    StalledKeepsProgress
PROPERTIES
    ClaimLostOnlyByFailure
