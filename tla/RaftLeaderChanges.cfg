CONSTANTS
    n1 = n1
    n2 = n2
    n3 = n3
    a = a
    Node = {n1, n2, n3}
    Command = {a}
    NoOp = NoOp
    None = None
    InitialPeers <- FullMesh
    IndexSpace = 16
    MaxTerm = 3
    MaxLog = 2
    MaxInFlight = 2
    MaxRestarts = 0
    MaxDiskErrors = 0
SPECIFICATION Spec
SYMMETRY Symmetry
CHECK_DEADLOCK FALSE
VIEW LogView
INVARIANTS LogMatching LogInv LeaderCompleteness StateMachineSafety MatchIndexSound 
PROPERTY ImplementsTotalOrder
