CONSTANTS
    p = p
    s1 = s1
    s2 = s2
    s3 = s3
    h1 = h1
    h2 = h2
    Target = {p}
    Slot = {s1, s2, s3}
    Handler = {h1, h2}
    MaxBallot = 3
SPECIFICATION FairSpec
CHECK_DEADLOCK FALSE
INVARIANTS ProcessTypeOK OpenAreCached StoreOutlivesHandlers
PROPERTIES  ShutdownCompletes SendersEnd
