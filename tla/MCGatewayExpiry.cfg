SPECIFICATION Spec
CONSTANTS
    i1 = i1
    t1 = t1
    alice = alice
    bob = bob
    read = read
    send = send
    Nobody = Nobody
    Worker = {w1, w2}
    Ident = {i1}
    Task = {t1}
    Person = {alice, bob}
    Approver = {alice, bob}
    Tool = {send}
    Reviewed = {send}
    Fitting = {send}
    Label = {}
    TaskOf <- MCTaskOf
    PrincipalOf <- MCPrincipalOf
    Cedar <- MCCedar
    CredUntil <- MCCredUntil
    Proposal <- MCProposal
    Served = {"pinned"}
    MaxTime = 2
    MaxLog = 3
    MaxStatements = 1
    MaxTTL = 2
    ClockSkew = 1
SYMMETRY Symmetry
INVARIANTS
    ResultsInTime
