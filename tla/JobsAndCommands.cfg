SPECIFICATION MCSpec
CONSTANTS
    Jobs = {1, 2, 3}
    Runs = {r1}
    Clients = {c1}
    Workers = {w1, w2}
    Tools = {}
    LastBatch = 2
    MaxVersion = 1
    MaxCrashes = 1
    Askers = {s1}
    Editors = {e1}
    Keys = {k1, k2}
    Drafts = {1, 2, 3, 4, 5}
    NewProducts = {p1, p2}
    PublicProducts = {p3}
    MaxActs = 2
    MaxLost = 0
    None = None
INVARIANTS OneWorkerPerJob
PROPERTIES ImplementsLifecycle QueuedIsClaimed WorkflowKeepsDraft CommandIsAnswered
CHECK_DEADLOCK FALSE
