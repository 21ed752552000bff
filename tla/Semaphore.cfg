CONSTANTS
    Tasks = {t1, t2, t3, t4, t5}
    Permits = 2
SPECIFICATION FairSpec
INVARIANTS
    TypeOK
    PermitsConserved
    SleeperIsReachable
PROPERTY EverySleeperIsWoken
