CONSTANTS
    n1 = n1
    n2 = n2
    n3 = n3
    a = a
    Node = {n1, n2, n3}
    Command = {a}
    NoOp = NoOp
    None = None
    InitialPeers <- FullMesh
    IndexSpace = 16
    MaxTerm = 1
    MaxLog = 0
    MaxInFlight = 2
    MaxRestarts = 1
    MaxDiskErrors = 0
    EventBuffer = 1
    MaxNotices = 2
SPECIFICATION MemberSpec
SYMMETRY Symmetry
CHECK_DEADLOCK FALSE
VIEW MemberView
INVARIANTS ElectionSafety ElectionInv
PROPERTIES TermNeverRetreats 
