SPECIFICATION RecallSpec
CONSTANTS
    Items <- MCItems
    Item <- MCItem
    Similar <- MCSimilar
    ActAlike = {}
    Duplicate = 85
    Contradiction = 75
    UseLlm = TRUE
    FirstActive <- MCActive
    None <- MCNone
    Shortlist = 2
    MaxVerified = 2
    MaxRestarts = 1
    Cases <- RecallCases
    Query <- RecallQuery
    Ids <- RecallIds
    Row <- RecallRow
    Source <- RecallSource
    Unset = "None"
    Semantic <- RecallSemantic
    Equivalent <- RecallEquivalent
    Seeded = {1}
    TopK = 2
    MinSemantic = 5
    MinFinal = 3000
    ActiveOnly = TRUE
    StagedVisible = TRUE
    MaxUses = 1
    MaxRuns = 2
INVARIANTS DecidedStays
PROPERTIES ContradictionTyped GivenIsRight
CHECK_DEADLOCK FALSE
