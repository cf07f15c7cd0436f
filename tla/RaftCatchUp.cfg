CONSTANTS
    n1 = n1
    n2 = n2
    n3 = n3
    a = a
    Node = {n1, n2, n3}
    Command = {a}
    NoOp = NoOp
    None = None
    InitialPeers <- FullMesh
    IndexSpace = 16
    MaxTerm = 3
    MaxLog = 1
    MaxInFlight = 2
    MaxRestarts = 1
    MaxDiskErrors = 0
    Chief = n1
    MaxOld = 2
SPECIFICATION CatchUpSpec
INVARIANTS TypeOK NextIndexInRange
PROPERTY EventuallyCaughtUp
