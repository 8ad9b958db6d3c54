\* Two processes and an open file with flock(2); the six ranges of three bytes that
\* do not end at OFF_MAX. Everything may come to rest.
CONSTANTS
    p1 = p1
    p2 = p2
    p3 = p3
    f1 = f1
    Owners = {p1, p2, f1}
    Flockers = {f1}
    OFF_MAX = 2
    MaxEnd = 1
    MaxLocks = 3
CHECK_DEADLOCK FALSE
SPECIFICATION Spec
SYMMETRY Symmetry2
INVARIANTS
    OwnLocksSorted
    WaitersBlocked
    NoMutualWait
    CallsDoAsAsked
