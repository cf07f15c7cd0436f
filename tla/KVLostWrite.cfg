CONSTANTS
    n1 = n1
    n2 = n2
    n3 = n3
    TheKey = TheKey
    TheValue = TheValue
    Node = {n1, n2, n3}
    Key = {TheKey}
    Value = {TheValue}
    Absent = Absent
    Command <- Commands
    NoOp = NoOp
    None = None
    InitialPeers <- FullMesh
    IndexSpace = 16
    MaxTerm = 2
    MaxLog = 2
    MaxInFlight = 2
    MaxRestarts = 0
    MaxDiskErrors = 0
    MaxReads = 0
SPECIFICATION ServiceSpec
SYMMETRY Symmetry
CHECK_DEADLOCK FALSE
VIEW WriteView
INVARIANT AckedIsApplied
