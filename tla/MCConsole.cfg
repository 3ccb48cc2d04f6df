\* The console against a server that misstates calls: one approval, no other traffic.
CONSTANTS
    Approver = {"bob"}
    Principal = {"alice"}
    Args = {x, y}
    Handler = {h1}
    Skew = 1
    MaxTTL = 2
    TTL = {2}
    Drift = {0}
    MaxDelay = 1
    Forging = TRUE
    MaxTime = 1
    MaxCalls = 1
    MaxLists = 2
SYMMETRY MCSymmetry
SPECIFICATION Spec
INVARIANT SignsTheCallTheySaw
