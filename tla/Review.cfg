SPECIFICATION Spec
CONSTANTS
    Settings <- MCSettings
    Drafts <- MCDrafts
    Evidence <- MCEvidenceIds
    Found <- MCFound
    MaxDrafts = 1
INVARIANT ReportReflectsReview
PROPERTIES RerunKeeps ReviewedIsVerified
CHECK_DEADLOCK FALSE
