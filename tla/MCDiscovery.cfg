SPECIFICATION Spec
CONSTANTS
    Peers = {p1, p2}
    Stale = stale
    URLs <- MCURLs
    Scheme <- MCScheme
    AnnounceList <- MCAnnounceList
    AnnounceURL = "udp1"
    NoURL = "none"
    MagnetURLs <- MCMagnetURLs
    Nodes = {"n1", "n2", "n3"}
    Routers = {"n1"}
    Distance <- MCDistance
    K = 2
    TableSize = 2
    Tids = {1, 2}
    InfoPieces = 2
    MaxClaimed = 3
    FetchLimit = 2
INVARIANTS
    PeersHeard
    VerdictHonest
    HonestPeerTrusted
PROPERTIES
    DiscoveryEnds
