SPECIFICATION Spec
CONSTANTS
    Proc = {p1, p2, p3}
    Kid = {k1, k2, k3}
    NoKid = NoKid
    Genesis = k1
    MaxSeq = 2
    MaxTime = 1
    MaxLines = 4
    TrustReads = {TRUE, FALSE}
    MaxStarts = 4
SYMMETRY Symmetry
INVARIANTS
    TypeOK
    KeyOnHand
    KidsNamedOnce
    TrustFollows
    Linked
    CurrentIsSigner
PROPERTIES
    OneSigner
CHECK_DEADLOCK FALSE
