CONSTANTS
    Tool <- MCTool
    Http = {"web"}
    Bindings <- MCBindings
    Short = {"pin"}
    Manifest = {m1, m2}
    Volatile <- MCVolatile
    MaxBindings = 2
    MaxVersion = 1
SYMMETRY MCSymmetry
SPECIFICATION MCSpec
INVARIANTS
    CredentialsExact
    EchoRemoved
    RunsAsShown
