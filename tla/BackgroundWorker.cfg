SPECIFICATION FairSpec
CONSTANTS
    w1 = w1
    r1 = r1
    c1 = c1
    a1 = a1
    ImageIds = {1}
    IndexIds = {1}
    Workers = {w1}
    Readers = {a1}
    Runs = {r1}
    Clients = {c1}
    MaxVariants = 1
    StaleAfter = 0
    MaxFaults = 1
    LastBatch = 1
    MaxVersion = 1
    MaxCrashes = 1
    None = None
PROPERTIES ImplementsImageJobs IndexIsClaimed OrphanIsRecovered
