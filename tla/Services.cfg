SPECIFICATION MCSpec
CONSTANTS
    Sessions = {s1, s2}
    Pair = {k1, k2}
    Third = s3
    Jobs = {1, 2, 3}
    Runs = {r1}
    Clients = {c1}
    Workers = {w1}
    Tools = {t1}
    LastBatch = 2
    MaxVersion = 2
    MaxCrashes = 1
    Reader = a1
    ImageIds = {1, 2}
    ImageVariants = 2
    ImageStale = 1
    ImageFaults = 1
    DraftIds = {1, 2, 3, 4}
    Created = {p1}
    Published = {p2}
    ActLimit = 1
    CrashLimit = 1
    Projections <- Recorded
    Spans = {"b1", "b2", "u1", "u2"}
    Events = {"w", "x", "y", "z"}
    BrowserSpans = {"u1", "u2"}
    BrowserEvents = {"v1", "v2"}
    TraceLimit = 5
    Retention = 1
    Horizon = 2
    Raised = Raised
    Accepted = Accepted
    RequestKeys = {k0}
    Principals = {y1}
    Anonymous = Anonymous
    ClientIds = {y2}
    ServerIds = {y3}
    ChatLimit = 3
    LoadKinds = {"rest", "mcp", "cutover", "seed"}
    Today = 2
    OrderLimit = 2
    Beside = {s4}
    VoiceModes = {"field", "catalog"}
    VoiceDrafts = 2
    VoiceEvents = 2
    None = None
    Done = Done
SYMMETRY Symmetry
INVARIANTS
    IndexIsCurrent
    CommandsExclude
    SpansAreOneTree
    StatusIsTrue
    ConversationIsWhole
    LoadsAreWhole
PROPERTIES
    ImageJobIsTrue
    OneSessionIsAdmitted
CHECK_DEADLOCK FALSE
