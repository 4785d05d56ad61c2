SPECIFICATION LessonSpec
CONSTANTS
    Reports <- MCReports
    Golds <- MCGolds
    Feedback <- MCFeedback
    Answers <- MCAnswers
    None = none
    MinConfidence = 60
    Top = 2
    MaxReflections = 2
    Obs <- MCObs
    CaseOf <- MCCaseOf
    SourceOf <- MCSourceOf
    TextOf <- MCTextOf
    ConfidenceOf <- MCConfidenceOf
    GroundedOf <- MCGroundedOf
    Near <- MCNear
    Wordings <- MCWordings
    Alike <- MCAlike
    MinCases = 2
    MinSources = 2
    MinRuleConfidence = 7
    Batches <- MCBatches
INVARIANTS LessonsGrounded Justified
PROPERTIES PromotedStays RulesEvolve
CHECK_DEADLOCK FALSE
