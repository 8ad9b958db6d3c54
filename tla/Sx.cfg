\* Four threads, two shared holds each; progress needs their names, so no symmetry.
CONSTANTS
    t1 = t1
    t2 = t2
    t3 = t3
    t4 = t4
    Null = Null
    Threads = {t1, t2, t3, t4}
    MaxShare = 2
SPECIFICATION FairSpec
INVARIANTS
    SxExclusion
    NoStrandedReader
    NoStrandedWriter
PROPERTY WaitersDrain
