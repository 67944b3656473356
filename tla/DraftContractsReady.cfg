SPECIFICATION Spec
CONSTANTS
    Inventories <- MCInventories
    Core = "m1"
    Galleries <- MCGalleries
    Structured <- MCStructured
    Complete = {"c1"}
    Blank = "c0"
    MaxVersion = 2
    None = None
INVARIANTS
    ReadyIsPublishable
CHECK_DEADLOCK FALSE
