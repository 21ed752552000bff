CONSTANTS
    Readers = {r1, r2}
    Writers = {w1, w2}
SPECIFICATION Spec
INVARIANT NoStrandedWaiter
