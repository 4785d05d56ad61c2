SPECIFICATION DecisionsSpec
CONSTANTS
    Evidence <- MCEvidence
    Item <- MCItem
    Invented <- MCInvented
    Texts <- MCTexts
    MaxArguments = 2
    TopK = 2
    ArgumentVerifier = {TRUE, FALSE}
    UseQbaf = {TRUE, FALSE}
    ClashResolution = {TRUE, FALSE}
    LlmFails = TRUE
    Claims <- MCClaims
    TypeOf <- MCTypeOf
    Scores = {20, 40, 50, 70, 90}
    Cosmos = FALSE
INVARIANTS VerdictsAreOwn SidesAreAlike
PROPERTIES VerdictFollowsClaims
CHECK_DEADLOCK FALSE
