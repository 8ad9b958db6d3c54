\* Four threads; everybody may wait without a timeout, which is no error.
CONSTANTS
    t1 = t1
    t2 = t2
    t3 = t3
    t4 = t4
    Threads = {t1, t2, t3, t4}
    MaxValue = 3
CHECK_DEADLOCK FALSE
SPECIFICATION FairSemaSpec
INVARIANTS
    NoStrandedWaiter
PROPERTY WaitersServed
