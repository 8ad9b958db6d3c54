\* Three tasks of two priorities on the swi queue, one on the thread's; two
\* drivers share the other thread. Everything may come to rest.
CONSTANTS
    tqh = tqh
    h1 = h1
    h2 = h2
    w1 = w1
    w2 = w2
    w3 = w3
    k1 = k1
    NULL = NULL
    Handlers = {tqh, h1, h2}
    ih_pri <- MCih_pri
    Tasks = {w1, w2, w3, k1}
    SwiTasks = {w1, w2, w3}
    ta_priority <- MCta_priority
    taskqueue_ih = tqh
    MaxPending = 2
CHECK_DEADLOCK FALSE
SPECIFICATION FairSpec
INVARIANTS
    HandlerAlive
    QueuesOrdered
PROPERTIES
    HandlersServed
    RemovalsReturn
    SwiTasksRun
