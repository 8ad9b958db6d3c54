\* ADAPTIVE_MUTEXES: three threads on three CPUs spin on, block on and recurse on one mutex;
\* a CPU for each, so that an idle thread denies nobody a CPU.
CONSTANTS
    t1 = t1
    t2 = t2
    t3 = t3
    t4 = t4
    chain0 = chain0
    chain1 = chain1
    Null = Null
    Threads = {t1, t2, t3}
    Locks <- OneLock
    Chains = {chain0, chain1}
    TC_HASH <- OneHash
    NullChain = chain0
    BasePri <- ThreePris
    Uses <- OneUse
    NCPU = 3
    MaxRecurse = 1
    Adaptive = TRUE
SPECIFICATION FairSpec
INVARIANTS
    MutualExclusion
    WordMatchesHolder
PROPERTY RequestsDrain
