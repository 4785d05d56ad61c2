SPECIFICATION FairSpec
CONSTANTS
    Obs = {"o1", "o3", "o4"}
    Case = {"c1", "c2", "c3"}
    Source = {"f1", "f3", "f4"}
    Statement = {"p", "q", "e"}
    MemId = {"mem_p", "mem_q", "mem_e"}
    NoMem = NoMem
    Observation <- FilesObservation
    RelationOf <- FilesRelation
    Block <- FilesBlock
    FileOf <- FilesFileOf
    Text <- FilesText
    IdOf <- FilesIdOf
    Seed = {}
    SeedSupport <- FilesNone
    SeedConfidence <- FilesNone
    MinConfidence <- FilesMinConfidence
    MinDistinctCases <- FilesMinDistinctCases
    MinDistinctSources <- FilesMinDistinctSources
    MaxConflictRatio = 25
    UnderReviewConflictRatio = 30
    DeprecateConfidenceBelow = 45
    VerifyMinConfidence = 60
    RequireGrounding = TRUE
    TtlDays = 30
    MaxRecords = 5000
    ArchiveExpired = TRUE
    MaxPending = 1
    MaxClock = 0
    MaxCrashes = 1
INVARIANTS DeprecatedArchived
PROPERTIES StagedRowsAreProcessed
