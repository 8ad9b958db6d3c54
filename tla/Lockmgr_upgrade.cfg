\* An upgrade and an exclusive request wait for the same last share.
CONSTANTS
    t1 = t1
    t2 = t2
    t3 = t3
    t4 = t4
    Threads = {t1, t2, t3}
    Deadlktreat = {}
    NOPROC = NOPROC
    KERNPROC = KERNPROC
    MaxExclusive = 1
CHECK_DEADLOCK FALSE
SPECIFICATION Spec
INVARIANT NoExclusivePanic
