SPECIFICATION PMSpec
CONSTANTS
    PieceCount = 9
    PieceLength = 4
    TotalLength = 33
    Bitfields <- MCBitfields
INVARIANTS
    CountersExact
    DownloadedExact
    BitfieldRoundTrip
PROPERTIES
    DoneIsFinal
