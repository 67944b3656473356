SPECIFICATION Spec
CONSTANTS
    Assets = {a1, a2}
    Drafts = {1, 2, 3}
    Sessions = {s1, s2}
    None = None
INVARIANTS LineageIsKept
CHECK_DEADLOCK FALSE
