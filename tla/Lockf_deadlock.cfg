\* Three processes and the six ranges of three bytes that do not end at OFF_MAX.
CONSTANTS
    p1 = p1
    p2 = p2
    p3 = p3
    f1 = f1
    Owners = {p1, p2, p3}
    Flockers = {}
    OFF_MAX = 2
    MaxEnd = 1
    MaxLocks = 4
SPECIFICATION Spec
SYMMETRY Symmetry3
INVARIANT NoWaitCycle
