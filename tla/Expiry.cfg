SPECIFICATION Spec
CONSTANTS
    Obs = {"o1", "o2", "o3"}
    Case = {"c1", "c2", "c3"}
    Source = {"f1", "f2", "f3"}
    Statement = {"p", "q"}
    MemId = {"mem_p", "mem_q"}
    NoMem = NoMem
    Observation <- ExpiryObservation
    RelationOf <- ExpiryRelation
    Block <- OneBlock
    FileOf <- AllRules
    Text <- ExpiryText
    IdOf <- ExpiryIdOf
    Seed = {}
    SeedSupport <- ExpiryNone
    SeedConfidence <- ExpiryNone
    MinConfidence <- ExpiryMinConfidence
    MinDistinctCases <- ExpiryMinDistinct
    MinDistinctSources <- ExpiryMinDistinct
    MaxConflictRatio = 25
    UnderReviewConflictRatio = 30
    DeprecateConfidenceBelow = 45
    VerifyMinConfidence = 60
    RequireGrounding = TRUE
    TtlDays = 0
    MaxRecords = 2
    ArchiveExpired = TRUE
    MaxPending = 1
    MaxClock = 2
    MaxCrashes = 1
INVARIANTS OnlyTrustworthyEvidence
PROPERTIES NeverSilentlyDeleted
