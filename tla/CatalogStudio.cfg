SPECIFICATION Spec
CONSTANTS
    Sessions = {s1, s2}
    Variants = {0, 1}
    Jobs = {1, 2, 3}
    Workers = {w1}
    MaxFaults = 1
    ImageDrafts = {1, 2}
    Drafts = {1, 2, 3}
    MediaIds = {1, 2, 3, 4}
    Pair = {a1, a2}
    Field = description
    Sets = {1, 2}
    SuggestionKeys = {q1}
    None = None
SYMMETRY Symmetry
INVARIANTS
    ImagesAreReal
    GalleryIsReadable
    AcceptedIsApplied
    SourceRecordIsTrue
PROPERTIES
    ApprovedIsKept
    VerdictIsFinal
CHECK_DEADLOCK FALSE
