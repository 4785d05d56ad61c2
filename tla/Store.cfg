SPECIFICATION StoreSpec
CONSTANTS
    Cases <- MCCases
    Args <- MCArgs
    Memories <- MCMemories
    LongTerm <- MCMemories
    Split <- MCSplit
    Frozen <- MCFrozen
    Override <- MCOverride
    Plans <- MCPlans
    Parties <- MCParties
    Rules <- MCRules
    Learned <- MCLearned
    FirstFiles <- MCFirstFiles
    None = "none"
    MaxStarts = 4
INVARIANTS UsesAccounted SeededOnce
PROPERTIES NothingLost NothingOverwritten StoreGoesOn
CHECK_DEADLOCK FALSE
