CONSTANTS
    NULL = NULL
    Listeners = {l1, l2, l3}
    Wakers = {w1, w2}
    Tags = {a, b}
    Counts <- MCCounts
    UsizeValues = 8
SPECIFICATION Spec
INVARIANTS
    TypeOK
    LinksFollowArrival
    NotifiedArePrefix
    LatestWakerIsWoken
PROPERTY ImplementsFifo
