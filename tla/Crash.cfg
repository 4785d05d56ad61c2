SPECIFICATION Spec
CONSTANTS
    Obs = {"o2", "o3", "o5"}
    Case = {"c1", "c2", "c3", "c4", "c5"}
    Source = {"f1", "f2", "f3", "f4"}
    Statement = {"p", "q"}
    MemId = {"mem_p", "mem_q", "rule_p"}
    NoMem = NoMem
    Observation <- LifecycleObservation
    RelationOf <- LifecycleRelation
    Block <- OneBlock
    FileOf <- AllRules
    Text <- LifecycleText
    IdOf <- LifecycleIdOf
    Seed = {"rule_p"}
    SeedSupport <- LifecycleSeedSupport
    SeedConfidence <- LifecycleSeedConfidence
    MinConfidence <- LifecycleMinConfidence
    MinDistinctCases <- LifecycleMinDistinct
    MinDistinctSources <- LifecycleMinDistinct
    MaxConflictRatio = 25
    UnderReviewConflictRatio = 30
    DeprecateConfidenceBelow = 45
    VerifyMinConfidence = 60
    RequireGrounding = TRUE
    TtlDays = 30
    MaxRecords = 5000
    ArchiveExpired = TRUE
    MaxPending = 1
    MaxClock = 0
    MaxCrashes = 2
INVARIANTS SupportIndependent ProcessedAccounted
PROPERTIES ImplementsGoldenMemory
