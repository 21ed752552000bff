CONSTANTS
    Tasks = {t1, t2}
    Runners = {r}
    Ticks = {k1, k2}
    Origin = main
    Threads = {x}
    None = None
SPECIFICATION Spec
INVARIANTS
    TypeOK
    
    MainstreamIsWatched
    OnlyDirectTickStrands
\* executor.rs:47: a program may drop its executor and stop.
CHECK_DEADLOCK FALSE
