SPECIFICATION FairSpec
CONSTANTS
    t1 = t1  t2 = t2  t3 = t3  t4 = t4
    Thread = {t1, t2, t3, t4}
    Readers = 4
    Tickets = 4
INVARIANTS MutualExclusion WritersInOrder
PROPERTIES PhaseFair EveryoneEnters
