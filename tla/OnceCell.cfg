CONSTANTS
    Tasks = {t1, t2, t3, t4}
    Empty = Empty
SPECIFICATION FairSpec
INVARIANTS
    TypeOK
    OneSetter
    NoLostWakeup
    ReadyWakesEveryone
PROPERTIES
    ValueIsKept
    EverySleeperIsWoken
