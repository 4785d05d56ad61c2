SPECIFICATION EvidenceSpec
CONSTANTS
    Settings <- MediaSettings
    Claims <- MCClaims
    Queries <- MCQueries
    MaxQueries = 2
    MaxRecords = 2
    MaxRetries = 1
    MinInterval = 2
    Backoff = 1
    Cooldown = 2
    RetryAfters = {2}
    ThreadCounts = {1, 2}
    MaxArticles = 2
    Caches <- MCCaches
    Images <- Pictures
    Jobs <- PictureJobs
    Distance <- PictureDistance
    Alike <- PictureAlike
    MethodSets <- PictureMethods
    MaxDistance = 10
    MinAlike = 84
    MaxMatches = 5
    MaxVectors = 10
    FaissChanges = FALSE
    MaxCrashes = 2
INVARIANTS NothingHidden IndexTrue LimitsKept
PROPERTY EvidenceComes
CHECK_DEADLOCK FALSE
