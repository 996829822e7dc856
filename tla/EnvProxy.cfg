SPECIFICATION FairSpec
CONSTANTS
    t1 = t1  t2 = t2  t3 = t3
    p1 = p1  p2 = p2
    None = None  Ext = Ext
    Outer = {t1, t2, t3}
    Proxy = {p1, p2}
    ProxyOf <- TwoShare
    JoinInStop = FALSE
    MaxRounds = 1
    MaxNotify = 1
    MaxMsg = 2
INVARIANTS LockModeExclusive AliveWhileUsed
PROPERTIES OuterThreadsGo DeinitEnds
\* Everybody may be done.
CHECK_DEADLOCK FALSE
