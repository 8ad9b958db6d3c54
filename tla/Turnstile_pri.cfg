\* Three threads of different priorities, two mutexes on two chains, two CPUs.
CONSTANTS
    t1 = t1
    t2 = t2
    t3 = t3
    t4 = t4
    chain0 = chain0
    chain1 = chain1
    Null = Null
    Threads = {t1, t2, t3}
    Locks <- TwoLocks
    Chains = {chain0, chain1}
    TC_HASH <- SplitHash
    NullChain = chain0
    BasePri <- ThreePris
    Uses <- AllUses
    NCPU = 2
    MaxRecurse = 0
    Adaptive = FALSE
SPECIFICATION Spec
INVARIANTS
    NoLostWakeup
    ContestedHasHeir
    TurnstileConservation
    TurnstileFound
    PriorityInheritance
    PriorityReturned
PROPERTY ImplementsMutex
