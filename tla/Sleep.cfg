\* Three threads, one with every kind of sleep, two channels in one bucket and a condition
\* variable.
\* All of them may sleep without a timeout, for ever: that is no error of theirs.
CONSTANTS
    t1 = t1
    t2 = t2
    t3 = t3
    w1 = w1
    w2 = w2
    cv1 = cv1
    b0 = b0
    Null = Null
    Threads = {t1, t2, t3}
    Idents = {w1, w2}
    CVs = {cv1}
    Buckets = {b0}
    LOOKUP <- OneBucket
    Sleeps <- ManySleeps
CHECK_DEADLOCK FALSE
SPECIFICATION FairSpec
INVARIANTS
    QueuesMatch
    NoLostWakeup
    SleeperHasWaker
    TimeoutSettled
    ResultTellsCause
PROPERTY TimedSleepsEnd
