SPECIFICATION Spec
CONSTANTS
    Commands = {s1}
    Editors = {e1}
    Keys = {k1, k2}
    Drafts = {1, 2, 3, 4}
    NewProducts = {p1}
    PublicProducts = {}
    MaxActs = 1
    MaxCrashes = 0
    None = None
INVARIANTS EditIsNotLost
