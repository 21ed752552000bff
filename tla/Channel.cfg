CONSTANTS
    SenderIds = {s1, s2}
    ReceiverIds = {r1, r2, r3}
    MaxItems = 3
SPECIFICATION FairSpec
INVARIANTS
    TypeOK
    EveryItemInOnePlace
    ClosedWakesEveryone
    ClosedMeansDrained
    OneReceiverIsServed
PROPERTIES
    ImplementsItemFlow
    ClosedRecvResolves
CHECK_DEADLOCK FALSE
