CONSTANTS
    Tasks = {t1, t2, t3, t4}
    Permits = 2
SPECIFICATION Spec
INVARIANT NoLostWakeup
