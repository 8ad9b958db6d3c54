CONSTANTS
    tqh = tqh
    h1 = h1
    h2 = h2
    w1 = w1
    w2 = w2
    w3 = w3
    k1 = k1
    NULL = NULL
    Handlers = {tqh, h1, h2}
    ih_pri <- MCih_pri
    Tasks = {w1, w2, w3, k1}
    SwiTasks = {w1, w2, w3}
    ta_priority <- MCta_priority
    taskqueue_ih = tqh
    MaxPending = 2
CHECK_DEADLOCK FALSE
SPECIFICATION Spec
INVARIANT KthreadNotices
