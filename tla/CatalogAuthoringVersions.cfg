SPECIFICATION FairSpec
CONSTANTS
    Owners = {o1}
    Sessions = {s1, s2}
    Keys = {k1, k2}
    Drafts <- MCFewDrafts
    StartVersions = {1}
    None = None
INVARIANTS AppliedOnce StaleIsRefused DraftIsUsedOnce
PROPERTIES IsAnswered RevisionKeepsWorkflow
