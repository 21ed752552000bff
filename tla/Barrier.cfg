CONSTANTS
    Tasks = {t1, t2, t3, t4}
    N = 3
SPECIFICATION FairSpec
INVARIANTS
    TypeOK
    CountIsArrivals
    ReleasedAreWoken
PROPERTY ReleasedReturn
