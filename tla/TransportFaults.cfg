CONSTANTS
    t1 = t1
    t2 = t2
    g1 = g1
    g2 = g2
    o1 = o1
    e1 = e1
    e2 = e2
    d1 = d1
    Zero = Zero
    Addr = {t1, t2}
    Thread = {g1, g2}
    Operator = {o1}
    LogEntry = {e1, e2}
    Data = {d1}
    InboxSize = 1
SPECIFICATION FairSpec
INVARIANTS TransportTypeOK OneOwner 
PROPERTY SendEnds
CHECK_DEADLOCK FALSE
