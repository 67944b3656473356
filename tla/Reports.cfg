SPECIFICATION Spec
CONSTANTS
    Sessions = {s1, s2}
    Names = {k1, k2, k3}
    Bodies = {"b1", "b2"}
    Texts = {"t1", "t2"}
    MaxVersion = 4
    Branches = {"s1"}
    Cores = {"c1", "c2"}
    MaxPackets = 2
    Inventories <- SentRows
    Core = "m1"
    Galleries <- SentMedia
    Structured <- SentContent
    Complete = {"c1"}
    Blank = "c0"
    MaxPublished = 2
    Stocks <- LoadedRows
    TTL = 2
    MaxSize = 2
    MaxLoads = 2
    Horizon = 3
    Catalog <- Shelves
    Home = "home"
    Peers = {"s1", "s2"}
    Now = 9
    Lookback = 2
    Week = 2
    Times = {1, 5, 8}
    Quantities = {2}
    MaxLines = 3
    MinMargin = 50
    MinDrop = 10
    TopK = 2
    Sections = {"a", "b"}
    Revenues = {0, 900, 10000}
    Rates = {30, 80}
    Spaces = {0, 3}
    DiscountRange <- Discounts
    ShiftRange <- Shifts
    Adjustments <- Alone
    MarginFloors = {0, 40}
    Caps = {20}
    None = None
SYMMETRY Symmetry
INVARIANTS
    PerformanceIsTrue
    ProjectionIsSound
    ReportIsTrue
    CatalogHoldsTheRows
    CacheIsHonest
    ReviewIsModerated
PROPERTIES
    ContractsAgree
    StrategyIsFollowed
CHECK_DEADLOCK FALSE
