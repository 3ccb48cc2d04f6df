\* Keys leak and the copy, the anchor file and the store are changed.
SPECIFICATION MCSpec
CONSTANTS
    i1 = i1
    t1 = t1
    p1 = p1
    Ident = {i1}
    Task = {t1}
    Person = {p1}
    Nobody = nobody
    Tool = {tool1}
    Label = {}
    TaskOf <- MCTaskOf
    PrincipalOf <- MCPrincipalOf
    Kid = {k1, k2}
    Other = other
    Skew = 0
    FirstKid = k1
    Retention = 1
    Epoch = 1
    Bucket = TRUE
    MaxRevs = 2
    MaxLog = 3
    MaxTime = 1
    MaxDeeds = 3
INVARIANTS
    NoFalseAlarm
    CheckpointedIsGenuine
    LeakContained
    ConsoleAgrees
    PrintedCommand
    ExposureExact
    StoreBinds
CHECK_DEADLOCK FALSE
