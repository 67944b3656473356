SPECIFICATION Spec
CONSTANTS
    s1 = s1
    s2 = s2
    k1 = k1
    k2 = k2
    k3 = k3
    running = running
    failed = failed
    d1 = d1
    r1 = r1
    r2 = r2
    Sessions = {s1, s2}
    Keys = {k1, k2, k3}
    StartKey = StartKey
    States = {running, failed}
    StartState = StartState
    Drafts = {d1}
    Requests = {r1, r2}
    None = None
SYMMETRY Symmetry
INVARIANTS TimelineDense TimelineIsShown
PROPERTIES RefusedOnlyIfOvertaken ImplementsLog
CHECK_DEADLOCK FALSE
