SPECIFICATION FairSpec
CONSTANTS
    w1 = w1
    w2 = w2
    p1 = p1
    c1 = c1
    c2 = c2
    r1 = r1
    r2 = r2
    Jobs = {1, 2}
    Runs = {r1}
    Clients = {c1}
    Workers = {w1}
    Tools = {}
    LastBatch = 1
    MaxVersion = 1
    MaxCrashes = 1
    None = None
PROPERTIES JobIsFinished
CHECK_DEADLOCK FALSE
