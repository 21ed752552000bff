CONSTANTS
    SenderIds = {s1}
    ReceiverIds = {r1, r2}
    MaxItems = 3
SPECIFICATION Spec
INVARIANT NoStrandedItem
CHECK_DEADLOCK FALSE
