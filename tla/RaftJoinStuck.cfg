CONSTANTS
    n1 = n1
    n2 = n2
    n3 = n3
    a = a
    Node = {n1, n2, n3}
    Command = {a}
    NoOp = NoOp
    None = None
    InitialPeers <- FullMesh
    IndexSpace = 16
    MaxTerm = 1
    MaxLog = 2
    MaxInFlight = 2
    MaxRestarts = 0
    MaxDiskErrors = 0
    Chief = n1
    MaxOld = 0
    Joiner = n3
    EventBuffer = 64
    MaxNotices = 2
SPECIFICATION JoinSpec
PROPERTY EventuallyCaughtUp
