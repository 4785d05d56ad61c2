SPECIFICATION RunsSpec
CONSTANTS
    Train <- MCTrain
    Phases <- MCPhases
    Variants <- MCVariants
    Foreign <- MCForeign
    Protocols <- MCProtocols
    EveryN = 2
    Resumes <- MCBoth
    Pairs <- MCBoth
    Updates <- MCBoth
    Sources <- MCSources
    MaxCrashes = 2
    MaxTampers = 2
    Types <- MCTypes
    Setups <- MCSetups
INVARIANTS NeverFromOwnGold ResultsFromSnapshot FrozenIsConsolidated
    GoldGuarded ParallelIsSequential ReportComplete
PROPERTIES RunsEnd
CHECK_DEADLOCK FALSE
