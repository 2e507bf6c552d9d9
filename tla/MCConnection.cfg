SPECIFICATION Spec
CHECK_DEADLOCK FALSE
CONSTANTS
    Kinds <- AllKinds
    MaxPayload = 1
    MaxReceived = 2
    MaxSends = 2
INVARIANTS
    OpenInStep
    FramesInStep
    WireInOrder
PROPERTIES
    HonestPeerConnects
