SPECIFICATION Spec
CONSTANTS
    Obs = {"o1", "o2", "o3"}
    Case = {"c1", "c2", "c3"}
    Source = {"f1", "f2", "f3"}
    Statement = {"a", "b", "c"}
    MemId = {"mem_a", "mem_b", "mem_c"}
    NoMem = NoMem
    Observation <- ChainObservation
    RelationOf <- ChainRelation
    Block <- OneBlock
    FileOf <- AllRules
    Text <- DocumentedText
    IdOf <- DocumentedIdOf
    Seed = {}
    SeedSupport <- None
    SeedConfidence <- None
    MinConfidence <- Confident
    MinDistinctCases <- Two
    MinDistinctSources <- Two
    MaxConflictRatio = 20
    UnderReviewConflictRatio = 30
    DeprecateConfidenceBelow = 45
    VerifyMinConfidence = 60
    RequireGrounding = TRUE
    TtlDays = 30
    MaxRecords = 5000
    ArchiveExpired = TRUE
    MaxPending = 1
    MaxClock = 0
    MaxCrashes = 0
PROPERTY SettledAddsNothing
