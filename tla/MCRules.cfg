\* One person asks, another answers; two tools tell calls apart.
SPECIFICATION Spec
CONSTANTS
    i1 = i1
    t1 = t1
    p1 = p1
    Ident = {i1}
    Task = {t1}
    Person = {p1, p2}
    Nobody = nobody
    Tool = {tool1, tool2}
    Label = {}
    TaskOf <- MCTaskOf
    PrincipalOf <- MCPrincipalOf
    Kid = {k1}
    Other = other
    Skew = 0
    MaxLog = 4
    Times = {0, 2}
    Expiries = {1, 2, 3}
    MaxLeaves = 6
INVARIANTS
    RulesAgree
    GapsListed
    RootBinds
    PathsExact
CHECK_DEADLOCK FALSE
