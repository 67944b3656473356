SPECIFICATION Spec
CONSTANTS
    Owners = {o1, o2}
    Sessions = {s1, s2}
    Keys = {k1, k2, k3}
    Drafts <- MCDrafts
    StartVersions = {0}
    None = None
SYMMETRY Symmetry
INVARIANTS
    StaleIsRefused
