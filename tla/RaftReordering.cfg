CONSTANTS
    n1 = n1
    n2 = n2
    n3 = n3
    a = a
    Node = {n1, n2, n3}
    Command = {a}
    NoOp = NoOp
    None = None
    InitialPeers <- FullMesh
    IndexSpace = 16
    MaxTerm = 1
    MaxLog = 3
    MaxInFlight = 3
    MaxRestarts = 0
    MaxDiskErrors = 1
SPECIFICATION Spec
SYMMETRY Symmetry
CHECK_DEADLOCK FALSE
VIEW CommitView
INVARIANTS  CommittedOnMajority
PROPERTY CommittedPrefixStable
