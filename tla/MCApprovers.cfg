CONSTANTS
    Approver = {"bob"}
    Principal = {"alice"}
    Args = {x, y}
    Handler = {h1, h2}
    Skew = 1
    MaxTTL = 2
    TTL = {2, 5}
    Drift <- MCDrift
    MaxDelay = 1
    Forging = TRUE
    MaxTime = 3
    MaxCalls = 1
    MaxLists = 2
SYMMETRY MCSymmetry
SPECIFICATION Spec
INVARIANTS
    ListedOnce
    ShownIsRecorded
PROPERTY AuthorityLapses
