SPECIFICATION FairSpec
CONSTANTS
    BlockSize = 2
    Pipeline = 2
    PieceLens <- MCPieceLens
    MaxData = 4
INVARIANTS
    PipelineBound
    NeverIdle
    RequestsTile
    AssembledFull
    PanicsOnlyPastEnd
PROPERTIES
    FirstDataKept
    Terminates
