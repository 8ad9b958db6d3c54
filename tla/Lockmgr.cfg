\* Three threads, one of them with TDF_DEADLKTREAT; recursion to two. Everything may come to rest.
CONSTANTS
    t1 = t1
    t2 = t2
    t3 = t3
    t4 = t4
    Threads = {t1, t2, t3}
    Deadlktreat = {t3}
    NOPROC = NOPROC
    KERNPROC = KERNPROC
    MaxExclusive = 2
CHECK_DEADLOCK FALSE
SPECIFICATION FairSpec
INVARIANTS
    LockExact
    UpgradeNotOvertaken
    SleepersBlocked
PROPERTY RequestsServed
