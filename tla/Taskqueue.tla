------------------------------ MODULE Taskqueue ------------------------------
(***************************************************************************)
(* Task queues (sys/kern/subr_taskqueue.c) composed with the interrupt     *)
(* thread that serves them: taskqueue_swi, whose enqueue function schedules*)
(* a software interrupt, and taskqueue_thread, whose enqueue function      *)
(* wakes a kernel thread.  taskqueue_swi_giant and taskqueue_fast differ   *)
(* from the first in the locks they use.  taskqueue_free() has no caller.  *)
(*                                                                         *)
(* The one interrupt thread of the model is the queue's own or one that    *)
(* drivers share.  tq_mutex is held over the enqueue function, so the      *)
(* queue of the software interrupt is locked while swi_sched() is under    *)
(* way; tasks run without it.                                              *)
(***************************************************************************)
EXTENDS Ithread

CONSTANTS
    Tasks,
    SwiTasks,       \* the tasks for taskqueue_swi, the others are for taskqueue_thread
    ta_priority,    \* larger first
    taskqueue_ih,   \* the handler of taskqueue_swi
    MaxPending      \* bound on ta_pending

ASSUME TaskqueueAssumption ==
    /\ SwiTasks \subseteq Tasks /\ ta_priority \in [Tasks -> Nat] /\ NULL \notin Tasks
    /\ taskqueue_ih \in Handlers /\ MaxPending \in Nat \ {0}

Queues == {"swi", "thread"}

QueueOf(t) == IF t \in SwiTasks THEN "swi" ELSE "thread"

VARIABLES
    tq_queue,
    ta_pending,
    running,    \* the task that each queue runs, or NULL
    kt_pc       \* taskqueue_kthread: "run", "left" taskqueue_run, or "asleep"

task_vars == <<tq_queue, ta_pending, running, kt_pc>>
vars == <<ithread_vars, task_vars>>

(* The thread of the task queue, with its one handler, or another one. *)
Init ==
    /\ \/ IthreadInit({"IT_SOFT"}, <<taskqueue_ih>>)
       \/ \E flags \in {{}, {"IT_SOFT"}} : IthreadInit(flags, <<>>)
    /\ tq_queue = [q \in Queues |-> <<>>]
    /\ ta_pending = [t \in Tasks |-> 0]
    /\ running = [q \in Queues |-> NULL]
    /\ kt_pc = "run"

OwnThread == owner[taskqueue_ih] = "added"

-----------------------------------------------------------------------------
(* taskqueue_enqueue *)

Locked(q) == q = "swi" /\ source[taskqueue_ih] # "idle"

(* Mutant: the shortcut for equal priorities looks at the wrong end. *)
EnqueuedByHead(q, t) ==
    LET lower == SelectInSeq(q, LAMBDA o : ta_priority[o] < ta_priority[t])
    IN  IF q = <<>> \/ ta_priority[Head(q)] >= ta_priority[t]
        THEN Append(q, t) ELSE InsertAt(q, lower, t)

(* At the end, or before the first task of a lower priority. *)
Enqueued(q, t) ==
    LET lower == SelectInSeq(q, LAMBDA o : ta_priority[o] < ta_priority[t])
    IN  IF q = <<>> \/ ta_priority[Last(q)] >= ta_priority[t]
        THEN Append(q, t) ELSE InsertAt(q, lower, t)

(* A task that is pending is counted. *)
EnqueueAgain(t) ==
    /\ ~Locked(QueueOf(t))
    /\ ta_pending[t] \in 1..MaxPending - 1
    /\ ta_pending' = [ta_pending EXCEPT ![t] = @ + 1]
    /\ UNCHANGED <<ithread_vars, tq_queue, running, kt_pc>>

(* Any other is queued, and the queue's enqueue function called:           *)
(* taskqueue_swi_enqueue begins swi_sched(), taskqueue_thread_enqueue      *)
(* wakes the thread if it sleeps.                                          *)
taskqueue_swi_enqueue == OwnThread /\ Interrupt(taskqueue_ih, FALSE) /\ UNCHANGED kt_pc

taskqueue_thread_enqueue ==
    /\ kt_pc' = IF kt_pc = "asleep" THEN "run" ELSE kt_pc
    /\ UNCHANGED ithread_vars

taskqueue_enqueue(t) ==
    LET q == QueueOf(t)
    IN  /\ ~Locked(q)
        /\ ta_pending[t] = 0
        /\ tq_queue' = [tq_queue EXCEPT ![q] = Enqueued(@, t)]
        /\ ta_pending' = [ta_pending EXCEPT ![t] = 1]
        /\ \/ q = "swi" /\ taskqueue_swi_enqueue
           \/ q = "thread" /\ taskqueue_thread_enqueue
        /\ UNCHANGED running

-----------------------------------------------------------------------------
(* taskqueue_run, in the handler of the interrupt thread or in the kernel  *)
(* thread.                                                                 *)

Running(q) ==
    \/ q = "swi" /\ it_pc = "handler" /\ ih = taskqueue_ih
    \/ q = "thread" /\ kt_pc = "run"

(* Take the first task off and clear its count; it then runs unlocked. *)
TakeTask(q) ==
    /\ Running(q) /\ ~Locked(q) /\ running[q] = NULL /\ tq_queue[q] # <<>>
    /\ running' = [running EXCEPT ![q] = Head(tq_queue[q])]
    /\ tq_queue' = [tq_queue EXCEPT ![q] = Tail(@)]
    /\ ta_pending' = [ta_pending EXCEPT ![Head(tq_queue[q])] = 0]
    /\ UNCHANGED <<ithread_vars, kt_pc>>

TaskReturns(q) ==
    /\ running[q] # NULL
    /\ running' = [running EXCEPT ![q] = NULL]
    /\ UNCHANGED <<ithread_vars, tq_queue, ta_pending, kt_pc>>

(* Mutant: the handler does not see to it that the queue is empty. *)
RunEndsEarly(q) ==
    /\ Running(q) /\ ~Locked(q) /\ running[q] = NULL
    /\ \/ q = "swi" /\ HandlerReturns /\ UNCHANGED kt_pc
       \/ q = "thread" /\ kt_pc' = "left" /\ UNCHANGED ithread_vars
    /\ UNCHANGED <<tq_queue, ta_pending, running>>

(* The queue is empty: the handler returns, or the kernel thread leaves    *)
(* taskqueue_run() ...                                                     *)
RunEnds(q) ==
    /\ Running(q) /\ ~Locked(q) /\ running[q] = NULL /\ tq_queue[q] = <<>>
    /\ \/ q = "swi" /\ HandlerReturns /\ UNCHANGED kt_pc
       \/ q = "thread" /\ kt_pc' = "left" /\ UNCHANGED ithread_vars
    /\ UNCHANGED <<tq_queue, ta_pending, running>>

(* ... and sleeps, with a mutex of its own that no enqueue takes. *)
KthreadSleeps ==
    /\ kt_pc = "left"
    /\ kt_pc' = "asleep"
    /\ UNCHANGED <<ithread_vars, tq_queue, ta_pending, running>>

(* Every other handler just returns. *)
DriverReturns == ih # taskqueue_ih /\ HandlerReturns /\ UNCHANGED task_vars

-----------------------------------------------------------------------------
Enqueue == \E t \in Tasks : taskqueue_enqueue(t) \/ EnqueueAgain(t)

DriverNext ==
    /\ ~OwnThread
    /\ ithread_destroy \/ \E h \in Handlers \ {taskqueue_ih} : Clients(h)
    /\ UNCHANGED task_vars

LoopNext == (Loop /\ UNCHANGED task_vars) \/ DriverReturns

SchedulingNext(h) == Scheduling(h) /\ UNCHANGED task_vars

QueueNext(q) == TakeTask(q) \/ TaskReturns(q) \/ RunEnds(q)

Next ==
    \/ Enqueue \/ DriverNext \/ LoopNext \/ KthreadSleeps
    \/ \E h \in Handlers : SchedulingNext(h)
    \/ \E q \in Queues : QueueNext(q)

Spec == Init /\ [][Next]_vars

(* Fairness: the threads run and get their locks, handlers and tasks       *)
(* return, and an interrupt that has begun to schedule a thread goes on.   *)
Fairness ==
    /\ WF_vars(LoopNext) /\ WF_vars(KthreadSleeps)
    /\ \A h \in Handlers : WF_vars(SchedulingNext(h))
    /\ \A q \in Queues : WF_vars(QueueNext(q))

FairSpec == Spec /\ Fairness

-----------------------------------------------------------------------------
(* Properties. *)

(* A task is on its queue, once, exactly while its count is not zero, and  *)
(* the queue is in the order of priorities, whatever is enqueued again     *)
(* while it waits or while it runs.                                        *)
QueuesOrdered ==
    \A q \in Queues :
        /\ IsInjective(tq_queue[q])
        /\ ToSet(tq_queue[q]) = {t \in Tasks : QueueOf(t) = q /\ ta_pending[t] > 0}
        /\ \A i, j \in 1..Len(tq_queue[q]) :
               i < j => ta_priority[tq_queue[q][i]] >= ta_priority[tq_queue[q][j]]

(* When no more tasks come, all tasks of the software interrupt have been  *)
(* run, although a task may be enqueued at any point of the handler's      *)
(* return and of the thread's way to sleep.                                *)
SwiTasksRun == <>[][~Enqueue]_vars => <>[](tq_queue["swi"] = <<>> /\ running["swi"] = NULL)

(* The same of the thread's queue, as a state: it does not sleep while     *)
(* there is a task for it (taskqueue.9: the enqueue function is called "to *)
(* allow the queue to arrange to be run later").                           *)
KthreadNotices == kt_pc = "asleep" => tq_queue["thread"] = <<>>

=============================================================================
