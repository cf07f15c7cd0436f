CONSTANTS
    n1 = n1
    n2 = n2
    n3 = n3
    n4 = n4
    a = a
    Node = {n1, n2, n3, n4}
    Command = {a}
    NoOp = NoOp
    None = None
    InitialPeers <- FullMesh
    IndexSpace = 16
    MaxTerm = 1
    MaxLog = 2
    MaxInFlight = 3
    MaxRestarts = 0
    MaxDiskErrors = 0
SPECIFICATION LeaseSpec
SYMMETRY Symmetry
CHECK_DEADLOCK FALSE
VIEW LeaseView
INVARIANT LeaseFromMajority
