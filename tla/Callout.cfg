\* An MP-safe callout, one under Giant and one timeout() entry, in two buckets; the int
\* wraps at 4. The clients fall silent at some point, or never.
CONSTANTS
    c1 = c1
    c2 = c2
    s1 = s1
    f1 = f1
    Null = Null
    Callouts = {c1, c2}
    Slots = {s1}
    MPSafe = {c1}
    Ftns = {f1}
    TickMod = 4
    WheelSize = 2
    MaxSteps = 2
    MaxTimeout = 1
    MaxLag = 1
SPECIFICATION FairSpec
INVARIANTS
    WheelWellFormed
    NotMissed
PROPERTIES
    NeverEarly
    WorkIsWanted
    TimeoutsRun
