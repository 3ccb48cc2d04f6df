SPECIFICATION Spec
CONSTANTS
    i1 = i1
    t1 = t1
    alice = alice
    bob = bob
    read = read
    send = send
    Nobody = Nobody
    Worker = {w1, w2}
    Ident = {i1, i2}
    Task = {t1}
    Person = {alice, bob}
    Approver = {alice, bob}
    Tool = {read, send}
    Reviewed = {read, send}
    Fitting = {read, send}
    Label = {web}
    TaskOf <- MCTaskOf
    PrincipalOf <- MCPrincipalOf
    Cedar <- MCCedar
    CredUntil <- MCCredUntil
    Proposal <- MCProposal
    Served = {"pinned", "changed", "down"}
    MaxTime = 0
    MaxLog = 3
    MaxStatements = 1
    MaxTTL = 2
    ClockSkew = 1
SYMMETRY Symmetry
INVARIANTS
    TypeOK
    ApprovalsBacked
    DeliveredIsRecorded
    IInv
PROPERTIES
    DecidedWithTaint
    RecordedResultEndsCall
    LifeOfCalls
