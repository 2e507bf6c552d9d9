SPECIFICATION FairSpec
CONSTANTS
    Downloads = {d1, d2, d3}
    MaxWriteAttempts = 3
    MaxSaves = 2
    MaxKills = 1
INVARIANTS
    TypeOK
    CheckpointSurvives
    RetriesSuffice
    DirectoryCleaned
PROPERTIES
    SaveReturns
