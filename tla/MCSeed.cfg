SPECIFICATION Spec
CONSTANTS
    Layouts <- MCLayouts
    PieceLength = 3
    MaxWriteErrors = 1
    Clients = {c1, c2}
    MaxPeers = 1
    MaxRequest = 2
    SeedTime = TRUE
    RatioTenths = 5
    NoRatio = NoRatio
    MaxRequests = 2
INVARIANTS
    LandedIsResumable
    ServedRight
    SeedPermits
PROPERTIES
    SeedStops
