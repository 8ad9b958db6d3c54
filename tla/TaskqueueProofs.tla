--------------------------- MODULE TaskqueueProofs ---------------------------
(***************************************************************************)
(* Proofs about interrupt threads (Ithread) and the task queues they serve *)
(* (Taskqueue): for any handlers, tasks and priorities, the thread's       *)
(* pointer into its list is never left dangling, and the queues hold the   *)
(* pending tasks, once and in order.                                       *)
(***************************************************************************)
EXTENDS Taskqueue, QueueLemmas

-----------------------------------------------------------------------------
(* The inductive invariant of the interrupt thread. *)

(* The variables of the thread and of its clients. *)
IthreadTypeOK ==
    /\ it_flags \in SUBSET {"IT_SOFT", "IT_DEAD"}
    /\ it_need \in BOOLEAN
    /\ it_handlers \in Seq(Handlers)
    /\ it_pc \in {"iwait", "top", "while", "scan", "remove", "call", "handler", "suspend", "exited"}
    /\ ih \in Handlers \cup {NULL}
    /\ ih_need \in [Handlers -> BOOLEAN]
    /\ ih_dead \in SUBSET Handlers
    /\ owner \in [Handlers -> {"none", "added", "removing", "removed"}]
    /\ source \in [Handlers -> {"idle", "need", "wake"}]

(* The list holds the handlers that were added and are not removed yet. *)
ListMatches ==
    /\ IsInjective(it_handlers)
    /\ ToSet(it_handlers) = {h \in Handlers : owner[h] \in {"added", "removing"}}

(* Outside a pass the thread has no pointer into its list, so that others  *)
(* may change it; in a pass it points to a handler of the list or past it. *)
CursorOnList ==
    /\ it_pc \in {"iwait", "top", "while", "suspend", "exited"} => ih = NULL
    /\ it_pc \in {"remove", "call", "handler"} => ih # NULL
    /\ ih # NULL => ih \in ToSet(it_handlers)

IthreadInv == IthreadTypeOK /\ ListMatches /\ CursorOnList

(* The variables of the task queues. *)
TaskTypeOK ==
    /\ tq_queue \in [Queues -> Seq(Tasks)]
    /\ ta_pending \in [Tasks -> 0..MaxPending]
    /\ running \in [Queues -> Tasks \cup {NULL}]
    /\ kt_pc \in {"run", "left", "asleep"}

TaskqueueInv == IthreadInv /\ TaskTypeOK /\ QueuesOrdered

-----------------------------------------------------------------------------
(* The interrupt thread. *)

(* ithread_add_handler puts the handler somewhere in the list and changes  *)
(* nothing else of it.                                                     *)
LEMMA InsertedProperties ==
    ASSUME IthreadTypeOK, ListMatches, NEW h \in Handlers, owner[h] = "none"
    PROVE  /\ Inserted(h) \in Seq(Handlers)
           /\ ToSet(Inserted(h)) = ToSet(it_handlers) \cup {h}
           /\ IsInjective(Inserted(h))
<1> DEFINE I == {i \in 1..Len(it_handlers) : ih_pri[it_handlers[i]] > ih_pri[h]}
           after == IF I # {} THEN Min(I) ELSE 0
           i == IF after = 0 THEN Len(it_handlers) + 1 ELSE after
<1>1. it_handlers \in Seq(Handlers) /\ Len(it_handlers) \in Nat
  BY LenProperties DEF IthreadTypeOK
<1>2. I # {} => Min(I) \in I
  BY <1>1, MinIsLeast, I \in SUBSET Nat
<1>3. i \in 1..Len(it_handlers) + 1
  BY <1>1, <1>2
<1>4. Inserted(h) = InsertAt(it_handlers, i, h)
  BY DEF Inserted, SelectInSeq
<1>5. h \notin ToSet(it_handlers) /\ IsInjective(it_handlers)
  BY DEF ListMatches
<1> HIDE DEF i
<1> QED BY <1>1, <1>3, <1>4, <1>5, InsertAtProperties

(* Adding a handler. *)
LEMMA AddHandlerStep ==
    ASSUME IthreadInv, NEW h \in Handlers, ithread_add_handler(h)
    PROVE  IthreadInv'
<1>1. /\ it_handlers' \in Seq(Handlers) /\ IsInjective(it_handlers')
      /\ ToSet(it_handlers') = ToSet(it_handlers) \cup {h}
  BY InsertedProperties DEF IthreadInv, ithread_add_handler
<1>2. IthreadTypeOK'
  BY <1>1 DEF IthreadInv, IthreadTypeOK, ithread_add_handler
<1>3. ListMatches'
  BY <1>1 DEF IthreadInv, IthreadTypeOK, ListMatches, ithread_add_handler
<1>4. CursorOnList'
  BY <1>1 DEF IthreadInv, CursorOnList, ithread_add_handler
<1> QED BY <1>2, <1>3, <1>4 DEF IthreadInv

(* Taking handlers off the list, whoever does it. *)
LEMMA HandlerGone ==
    ASSUME IthreadInv, NEW h \in Handlers, it_handlers' = Dequeued(it_handlers, {h})
    PROVE  /\ it_handlers' \in Seq(Handlers) /\ IsInjective(it_handlers')
           /\ ToSet(it_handlers') = ToSet(it_handlers) \ {h}
<1>1. it_handlers \in Seq(Handlers) /\ IsInjective(it_handlers)
  BY DEF IthreadInv, IthreadTypeOK, ListMatches
<1> QED BY <1>1, DequeuedProperties

(* Removing a handler: it goes at once only while the thread is idle, when *)
(* the thread does not point to it.                                        *)
LEMMA RemoveHandlerStep ==
    ASSUME IthreadInv, NEW h \in Handlers, ithread_remove_handler(h)
    PROVE  IthreadInv'
<1>1. CASE it_pc = "iwait" /\ it_handlers' = Dequeued(it_handlers, {h})
           /\ owner' = [owner EXCEPT ![h] = "none"] /\ UNCHANGED <<it_need, ih_dead>>
  <2>1. /\ it_handlers' \in Seq(Handlers) /\ IsInjective(it_handlers')
        /\ ToSet(it_handlers') = ToSet(it_handlers) \ {h}
    BY <1>1, HandlerGone
  <2>2. IthreadTypeOK'
    BY <1>1, <2>1 DEF IthreadInv, IthreadTypeOK, ithread_remove_handler
  <2>3. ListMatches'
    BY <1>1, <2>1 DEF IthreadInv, IthreadTypeOK, ListMatches
  <2>4. CursorOnList'
    BY <1>1 DEF IthreadInv, CursorOnList, ithread_remove_handler
  <2> QED BY <2>2, <2>3, <2>4 DEF IthreadInv
<1>2. CASE ih_dead' = ih_dead \cup {h} /\ it_need' = TRUE
           /\ owner' = [owner EXCEPT ![h] = "removing"] /\ UNCHANGED it_handlers
  <2>1. IthreadTypeOK'
    BY <1>2 DEF IthreadInv, IthreadTypeOK, ithread_remove_handler
  <2>2. ListMatches'
    BY <1>2 DEF IthreadInv, IthreadTypeOK, ListMatches, ithread_remove_handler
  <2>3. CursorOnList'
    BY <1>2 DEF IthreadInv, CursorOnList, ithread_remove_handler
  <2> QED BY <2>1, <2>2, <2>3 DEF IthreadInv
<1> QED BY <1>1, <1>2 DEF ithread_remove_handler

(* What the clients and the interrupts do besides. *)
LEMMA ClientStep ==
    ASSUME IthreadInv, NEW h \in Handlers,
           \/ RemoveReturns(h) \/ ithread_destroy \/ ScheduleNeed(h) \/ ScheduleWake(h)
           \/ \E delay \in BOOLEAN : Interrupt(h, delay)
    PROVE  IthreadInv'
<1> USE DEF IthreadInv, IthreadTypeOK, ListMatches, CursorOnList
<1>1. CASE RemoveReturns(h)
  BY <1>1 DEF RemoveReturns
<1>2. CASE ithread_destroy
  BY <1>2 DEF ithread_destroy
<1>3. CASE ScheduleNeed(h)
  BY <1>3 DEF ScheduleNeed
<1>4. CASE ScheduleWake(h)
  BY <1>4 DEF ScheduleWake
<1>5. ASSUME NEW delay \in BOOLEAN, Interrupt(h, delay) PROVE IthreadInv'
  BY <1>5 DEF Interrupt
<1> QED BY <1>1, <1>2, <1>3, <1>4, <1>5

(* TAILQ_NEXT of a handler is in the list as well. *)
LEMMA NextInList ==
    ASSUME IthreadTypeOK, NEW h
    PROVE  NextOf(h) \in Handlers \cup {NULL} /\ (NextOf(h) # NULL => NextOf(h) \in ToSet(it_handlers))
<1>1. it_handlers \in Seq(Handlers) /\ Len(it_handlers) \in Nat /\ DOMAIN it_handlers = 1..Len(it_handlers)
  BY LenProperties DEF IthreadTypeOK
<1>2. \A i \in 1..Len(it_handlers) - 1 :
         it_handlers[i + 1] \in Handlers /\ it_handlers[i + 1] \in ToSet(it_handlers)
  BY <1>1, ElementOfSeq DEF ToSet
<1> DEFINE i == SelectInSeq(it_handlers, LAMBDA o : o = h)
<1>3. NextOf(h) = IF i \in 1..Len(it_handlers) - 1 THEN it_handlers[i + 1] ELSE NULL
  BY DEF NextOf
<1> HIDE DEF i
<1> QED BY <1>2, <1>3

(* The head of a list is in the list. *)
LEMMA FirstInList ==
    ASSUME NEW q \in Seq(Handlers)
    PROVE  LET first == IF q = <<>> THEN NULL ELSE Head(q)
           IN  first \in Handlers \cup {NULL} /\ (first # NULL => first \in ToSet(q))
BY HeadInQueue

(* The thread's own steps. *)
LEMMA LoopStep ==
    ASSUME IthreadInv, Loop \/ HandlerReturns
    PROVE  IthreadInv'
<1> USE DEF IthreadInv
<1>1. CASE LoopTop \/ Call \/ Suspend
  BY <1>1 DEF IthreadTypeOK, ListMatches, CursorOnList, LoopTop, Call, Suspend
<1>2. CASE LoopWhile
  <2>1. FirstHandler \in Handlers \cup {NULL} /\ (FirstHandler # NULL => FirstHandler \in ToSet(it_handlers))
    BY FirstInList DEF IthreadTypeOK, FirstHandler
  <2> QED BY <1>2, <2>1 DEF LoopWhile, IthreadTypeOK, ListMatches, CursorOnList
<1>3. CASE Scan
  <2>1. NextOf(ih) \in Handlers \cup {NULL} /\ (NextOf(ih) # NULL => NextOf(ih) \in ToSet(it_handlers))
    BY NextInList
  <2>2. IthreadTypeOK'
    BY <1>3, <2>1 DEF Scan, IthreadTypeOK
  <2> QED BY <1>3, <2>1, <2>2 DEF Scan, ListMatches, CursorOnList
<1>4. CASE RemoveDead
  <2>1. ih \in Handlers
    BY <1>4 DEF RemoveDead, IthreadTypeOK, CursorOnList
  <2>2. /\ it_handlers' \in Seq(Handlers) /\ IsInjective(it_handlers')
        /\ ToSet(it_handlers') = ToSet(it_handlers) \ {ih}
    BY <1>4, <2>1, HandlerGone DEF RemoveDead
  <2>3. ih' \in Handlers \cup {NULL} /\ (ih' # NULL => ih' \in ToSet(it_handlers'))
    BY <1>4, <2>2, FirstInList DEF RemoveDead
  <2>4. IthreadTypeOK'
    BY <1>4, <2>2, <2>3 DEF RemoveDead, IthreadTypeOK
  <2>5. ListMatches'
    BY <1>4, <2>1, <2>2 DEF RemoveDead, IthreadTypeOK, ListMatches
  <2>6. CursorOnList'
    BY <1>4, <2>3 DEF RemoveDead, CursorOnList
  <2> QED BY <2>4, <2>5, <2>6
<1>5. CASE HandlerReturns
  <2>1. NextOf(ih) \in Handlers \cup {NULL} /\ (NextOf(ih) # NULL => NextOf(ih) \in ToSet(it_handlers))
    BY NextInList
  <2> QED BY <1>5, <2>1 DEF HandlerReturns, IthreadTypeOK, ListMatches, CursorOnList
<1> QED BY <1>1, <1>2, <1>3, <1>4, <1>5 DEF Loop

-----------------------------------------------------------------------------
(* The queues. *)

(* In the order of priorities. *)
Sorted(q) == \A i, j \in 1..Len(q) : i < j => ta_priority[q[i]] >= ta_priority[q[j]]

(* taskqueue_enqueue keeps the order: the task goes behind all of at least *)
(* its priority and before all of a lower one.                             *)
LEMMA EnqueuedProperties ==
    ASSUME NEW q \in Seq(Tasks), Sorted(q), NEW t \in Tasks
    PROVE  /\ Enqueued(q, t) \in Seq(Tasks)
           /\ ToSet(Enqueued(q, t)) = ToSet(q) \cup {t}
           /\ IsInjective(q) /\ t \notin ToSet(q) => IsInjective(Enqueued(q, t))
           /\ Sorted(Enqueued(q, t))
<1> DEFINE I == {i \in 1..Len(q) : ta_priority[q[i]] < ta_priority[t]}
           lower == IF I # {} THEN Min(I) ELSE 0
<1>1. Len(q) \in Nat /\ (q = <<>> <=> Len(q) = 0) /\ \A i \in 1..Len(q) : q[i] \in Tasks
  BY LenProperties, EmptySeq, ElementOfSeq
<1>2. \A u \in Tasks : ta_priority[u] \in Nat
  BY TaskqueueAssumption
<1>3. CASE q = <<>> \/ ta_priority[Last(q)] >= ta_priority[t]
  <2>1. Enqueued(q, t) = Append(q, t)
    BY <1>3 DEF Enqueued
  <2>2. /\ Len(Append(q, t)) = Len(q) + 1 /\ Append(q, t)[Len(q) + 1] = t
        /\ \A i \in 1..Len(q) : Append(q, t)[i] = q[i]
    BY <1>1, AppendProperties
  <2>3. \A i \in 1..Len(q) : ta_priority[q[i]] >= ta_priority[t]
    <3> SUFFICES ASSUME NEW i \in 1..Len(q) PROVE ta_priority[q[i]] >= ta_priority[t]
      OBVIOUS
    <3>1. Len(q) \in 1..Len(q) /\ q # <<>>
      BY <1>1
    <3>2. ta_priority[q[Len(q)]] >= ta_priority[t]
      BY <1>3, <3>1 DEF Last
    <3>3. ta_priority[q[i]] >= ta_priority[q[Len(q)]]
      BY <1>1, <1>2, <3>1 DEF Sorted
    <3> QED BY <1>1, <1>2, <3>1, <3>2, <3>3
  <2>4. Sorted(Append(q, t))
    BY <1>1, <2>2, <2>3 DEF Sorted
  <2> QED BY <2>1, <2>4, JoinTail
<1>4. CASE ~ (q = <<>> \/ ta_priority[Last(q)] >= ta_priority[t])
  <2>1. Enqueued(q, t) = InsertAt(q, lower, t)
    BY <1>4 DEF Enqueued, SelectInSeq
  <2>2. Len(q) \in I /\ I \in SUBSET Nat
    BY <1>1, <1>2, <1>4 DEF Last
  <2>3. lower \in I /\ \A i \in I : lower <= i
    BY <2>2, MinIsLeast
  <2> HIDE DEF lower
  <2>4. lower \in 1..Len(q) + 1 /\ lower <= Len(q)
    BY <1>1, <2>3
  <2>5. \A i \in 1..Len(q) : i < lower => ta_priority[q[i]] >= ta_priority[t]
    BY <1>1, <1>2, <2>3
  <2>6. \A i \in 1..Len(q) : i >= lower => ta_priority[q[i]] < ta_priority[t]
    <3> SUFFICES ASSUME NEW i \in 1..Len(q), i > lower PROVE ta_priority[q[i]] < ta_priority[t]
      BY <2>3, <1>1
    <3>1. ta_priority[q[lower]] < ta_priority[t] /\ ta_priority[q[lower]] >= ta_priority[q[i]]
      BY <2>3 DEF Sorted
    <3> QED BY <1>1, <1>2, <2>3, <3>1
  <2> DEFINE r == InsertAt(q, lower, t)
  <2>7. /\ Len(r) = Len(q) + 1
        /\ \A k \in 1..Len(q) + 1 :
              r[k] = IF k < lower THEN q[k] ELSE IF k = lower THEN t ELSE q[k - 1]
    BY <2>4, InsertAtElements
  <2> HIDE DEF r
  <2>8. Sorted(r)
    <3> SUFFICES ASSUME NEW i \in 1..Len(q) + 1, NEW j \in 1..Len(q) + 1, i < j
                 PROVE  ta_priority[r[i]] >= ta_priority[r[j]]
      BY <2>7 DEF Sorted
    <3>1. CASE j < lower
      <4>1. r[i] = q[i] /\ r[j] = q[j] /\ i \in 1..Len(q) /\ j \in 1..Len(q)
        BY <3>1, <1>1, <2>4, <2>7
      <4> QED BY <4>1 DEF Sorted
    <3>2. CASE j = lower
      <4>1. r[i] = q[i] /\ r[j] = t /\ i \in 1..Len(q) /\ i < lower
        BY <3>2, <1>1, <2>4, <2>7
      <4> QED BY <4>1, <2>5
    <3>3. CASE j > lower /\ i < lower
      <4>1. r[i] = q[i] /\ r[j] = q[j - 1] /\ i \in 1..Len(q) /\ j - 1 \in 1..Len(q) /\ j - 1 >= lower
        BY <3>3, <1>1, <2>4, <2>7
      <4>2. ta_priority[q[i]] >= ta_priority[t] /\ ta_priority[q[j - 1]] < ta_priority[t]
        BY <4>1, <2>5, <2>6, <3>3
      <4>3. ta_priority[q[i]] \in Nat /\ ta_priority[q[j - 1]] \in Nat /\ ta_priority[t] \in Nat
        BY <4>1, <1>1, <1>2
      <4> QED BY <4>1, <4>2, <4>3
    <3>4. CASE j > lower /\ i = lower
      <4>1. r[i] = t /\ r[j] = q[j - 1] /\ j - 1 \in 1..Len(q) /\ j - 1 >= lower
        BY <3>4, <1>1, <2>4, <2>7
      <4>2. ta_priority[q[j - 1]] < ta_priority[t]
        BY <4>1, <2>6
      <4>3. ta_priority[q[j - 1]] \in Nat /\ ta_priority[t] \in Nat
        BY <4>1, <1>1, <1>2
      <4> QED BY <4>1, <4>2, <4>3
    <3>5. CASE j > lower /\ i > lower
      <4>1. /\ r[i] = q[i - 1] /\ r[j] = q[j - 1]
            /\ i - 1 \in 1..Len(q) /\ j - 1 \in 1..Len(q) /\ i - 1 < j - 1
        BY <3>5, <1>1, <2>4, <2>7
      <4> QED BY <4>1 DEF Sorted
    <3> QED BY <1>1, <2>4, <3>1, <3>2, <3>3, <3>4, <3>5
  <2> QED BY <2>1, <2>4, <2>8, InsertAtProperties DEF r
<1> QED BY <1>3, <1>4

(* Taking the first task keeps the order of the others. *)
LEMMA TailSorted ==
    ASSUME NEW q \in Seq(Tasks), q # <<>>, Sorted(q)
    PROVE  Sorted(Tail(q))
<1>1. /\ Len(q) \in Nat \ {0} /\ Len(Tail(q)) = Len(q) - 1
      /\ \A k \in 1..Len(q) - 1 : Tail(q)[k] = q[k + 1]
  BY LenProperties, EmptySeq, HeadTailProperties
<1> QED BY <1>1 DEF Sorted

(* What QueuesOrdered says of one queue. *)
Ordered(q) ==
    /\ IsInjective(tq_queue[q])
    /\ ToSet(tq_queue[q]) = {t \in Tasks : QueueOf(t) = q /\ ta_pending[t] > 0}
    /\ Sorted(tq_queue[q])

(* QueuesOrdered, queue by queue. *)
LEMMA OrderedQueues == QueuesOrdered <=> \A q \in Queues : Ordered(q)
BY DEF QueuesOrdered, Ordered, Sorted

(* A task that is enqueued again only has its count raised. *)
LEMMA EnqueueAgainStep ==
    ASSUME TaskqueueInv, NEW t \in Tasks, EnqueueAgain(t)
    PROVE  TaskqueueInv'
<1>1. IthreadInv'
  BY DEF TaskqueueInv, EnqueueAgain, ithread_vars, IthreadInv, IthreadTypeOK, ListMatches, CursorOnList
<1>2. TaskTypeOK'
  BY TaskqueueAssumption DEF TaskqueueInv, EnqueueAgain, TaskTypeOK
<1>3. \A u \in Tasks : ta_pending'[u] > 0 <=> ta_pending[u] > 0
  BY TaskqueueAssumption DEF TaskqueueInv, EnqueueAgain, TaskTypeOK
<1>4. QueuesOrdered'
  BY <1>3 DEF TaskqueueInv, EnqueueAgain, QueuesOrdered
<1> QED BY <1>1, <1>2, <1>4 DEF TaskqueueInv

(* A task that was not pending joins its queue in its place. *)
LEMMA EnqueueStep ==
    ASSUME TaskqueueInv, NEW t \in Tasks, taskqueue_enqueue(t)
    PROVE  TaskqueueInv'
<1> DEFINE q == QueueOf(t)
<1>0. q \in Queues /\ TaskTypeOK
  BY DEF QueueOf, Queues, TaskqueueInv
<1>1. IthreadInv'
  <2>1. CASE taskqueue_swi_enqueue
    BY <2>1, TaskqueueAssumption, ClientStep DEF taskqueue_swi_enqueue, TaskqueueInv
  <2>2. CASE taskqueue_thread_enqueue
    BY <2>2 DEF taskqueue_thread_enqueue, TaskqueueInv, ithread_vars, IthreadInv, IthreadTypeOK,
                ListMatches, CursorOnList
  <2> QED BY <2>1, <2>2 DEF taskqueue_enqueue
<1>2. /\ tq_queue' = [tq_queue EXCEPT ![q] = Enqueued(tq_queue[q], t)]
      /\ ta_pending' = [ta_pending EXCEPT ![t] = 1] /\ ta_pending[t] = 0 /\ running' = running
  BY <1>0 DEF taskqueue_enqueue, TaskTypeOK
<1>3. tq_queue[q] \in Seq(Tasks) /\ Ordered(q)
  BY <1>0, OrderedQueues DEF TaskTypeOK, TaskqueueInv
<1>4. t \notin ToSet(tq_queue[q])
  BY <1>2, <1>3 DEF Ordered
<1>5. /\ Enqueued(tq_queue[q], t) \in Seq(Tasks)
      /\ ToSet(Enqueued(tq_queue[q], t)) = ToSet(tq_queue[q]) \cup {t}
      /\ IsInjective(Enqueued(tq_queue[q], t))
      /\ Sorted(Enqueued(tq_queue[q], t))
  BY <1>3, <1>4, EnqueuedProperties DEF Ordered
<1>6. TaskTypeOK'
  <2>1. kt_pc' \in {"run", "left", "asleep"}
    BY <1>0 DEF TaskTypeOK, taskqueue_enqueue, taskqueue_swi_enqueue, taskqueue_thread_enqueue
  <2>2. ta_pending' \in [Tasks -> 0..MaxPending]
    BY <1>0, <1>2, TaskqueueAssumption DEF TaskTypeOK
  <2> HIDE DEF q
  <2> QED BY <1>0, <1>2, <1>5, <2>1, <2>2 DEF TaskTypeOK
<1>7. ASSUME NEW p \in Queues PROVE Ordered(p)'
  <2>1. \A u \in Tasks : ta_pending'[u] > 0 <=> (u = t \/ ta_pending[u] > 0)
    BY <1>0, <1>2 DEF TaskTypeOK
  <2>2. CASE p = q
    <3>1. tq_queue'[p] = Enqueued(tq_queue[q], t)
      BY <1>0, <1>2, <2>2 DEF TaskTypeOK
    <3>2. {u \in Tasks : QueueOf(u) = p /\ ta_pending'[u] > 0} =
          {u \in Tasks : QueueOf(u) = q /\ ta_pending[u] > 0} \cup {t}
      BY <2>1, <2>2
    <3>3. ToSet(tq_queue[q]) = {u \in Tasks : QueueOf(u) = q /\ ta_pending[u] > 0}
      BY <1>3 DEF Ordered
    <3> QED BY <1>5, <3>1, <3>2, <3>3 DEF Ordered
  <2>3. CASE p # q
    <3>1. tq_queue'[p] = tq_queue[p] /\ Ordered(p)
      BY <1>0, <1>2, <2>3, OrderedQueues DEF TaskTypeOK, TaskqueueInv
    <3>2. {u \in Tasks : QueueOf(u) = p /\ ta_pending'[u] > 0} =
          {u \in Tasks : QueueOf(u) = p /\ ta_pending[u] > 0}
      BY <2>1, <2>3
    <3> QED BY <3>1, <3>2 DEF Ordered
  <2> QED BY <2>2, <2>3
<1>8. QueuesOrdered'
  BY <1>7 DEF QueuesOrdered, Ordered, Sorted
<1> QED BY <1>1, <1>6, <1>8 DEF TaskqueueInv

(* taskqueue_run takes the first task: it has no count any more and is not *)
(* on its queue.                                                           *)
LEMMA TakeTaskStep ==
    ASSUME TaskqueueInv, NEW q \in Queues, TakeTask(q)
    PROVE  TaskqueueInv'
<1> DEFINE t == Head(tq_queue[q])
<1>0. TaskTypeOK /\ tq_queue[q] \in Seq(Tasks) /\ tq_queue[q] # <<>> /\ Ordered(q)
  BY OrderedQueues DEF TaskqueueInv, TaskTypeOK, TakeTask
<1>1. /\ t \in Tasks /\ t \in ToSet(tq_queue[q])
      /\ Tail(tq_queue[q]) \in Seq(Tasks)
      /\ ToSet(Tail(tq_queue[q])) = ToSet(tq_queue[q]) \ {t}
      /\ IsInjective(Tail(tq_queue[q]))
  BY <1>0, TailProperties DEF Ordered
<1>2. Sorted(Tail(tq_queue[q]))
  BY <1>0, TailSorted DEF Ordered
<1>3. /\ tq_queue' = [tq_queue EXCEPT ![q] = Tail(tq_queue[q])]
      /\ ta_pending' = [ta_pending EXCEPT ![t] = 0]
      /\ running' = [running EXCEPT ![q] = t]
      /\ UNCHANGED <<ithread_vars, kt_pc>>
  BY <1>0 DEF TakeTask, TaskTypeOK
<1>4. QueueOf(t) = q
  BY <1>0, <1>1 DEF Ordered
<1> HIDE DEF t
<1>5. IthreadInv'
  BY <1>3 DEF TaskqueueInv, ithread_vars, IthreadInv, IthreadTypeOK, ListMatches, CursorOnList
<1>6. TaskTypeOK'
  BY <1>0, <1>1, <1>3, TaskqueueAssumption DEF TaskTypeOK
<1>7. ASSUME NEW p \in Queues PROVE Ordered(p)'
  <2>1. \A u \in Tasks : ta_pending'[u] > 0 <=> (u # t /\ ta_pending[u] > 0)
    BY <1>0, <1>1, <1>3 DEF TaskTypeOK
  <2>2. CASE p = q
    <3>1. tq_queue'[p] = Tail(tq_queue[q])
      BY <1>0, <1>3, <2>2 DEF TaskTypeOK
    <3>2. {u \in Tasks : QueueOf(u) = p /\ ta_pending'[u] > 0} =
          {u \in Tasks : QueueOf(u) = q /\ ta_pending[u] > 0} \ {t}
      BY <2>1, <2>2
    <3>3. ToSet(tq_queue[q]) = {u \in Tasks : QueueOf(u) = q /\ ta_pending[u] > 0}
      BY <1>0 DEF Ordered
    <3> QED BY <1>1, <1>2, <3>1, <3>2, <3>3 DEF Ordered
  <2>3. CASE p # q
    <3>1. tq_queue'[p] = tq_queue[p] /\ Ordered(p)
      BY <1>0, <1>3, <2>3, OrderedQueues DEF TaskTypeOK, TaskqueueInv
    <3>2. {u \in Tasks : QueueOf(u) = p /\ ta_pending'[u] > 0} =
          {u \in Tasks : QueueOf(u) = p /\ ta_pending[u] > 0}
      BY <1>4, <2>1, <2>3
    <3> QED BY <3>1, <3>2 DEF Ordered
  <2> QED BY <2>2, <2>3
<1>8. QueuesOrdered'
  BY <1>7 DEF QueuesOrdered, Ordered, Sorted
<1> QED BY <1>5, <1>6, <1>8 DEF TaskqueueInv

(* A step of the thread or of its clients that leaves the queues alone. *)
LEMMA ThreadOnly ==
    ASSUME TaskqueueInv, IthreadInv', UNCHANGED <<tq_queue, ta_pending, running>>,
           kt_pc' \in {"run", "left", "asleep"}
    PROVE  TaskqueueInv'
<1>1. TaskTypeOK'
  BY DEF TaskqueueInv, TaskTypeOK
<1>2. QueuesOrdered'
  BY DEF TaskqueueInv, QueuesOrdered
<1> QED BY <1>1, <1>2 DEF TaskqueueInv

(* A step that leaves the interrupt thread alone. *)
LEMMA ThreadStands ==
    ASSUME IthreadInv, UNCHANGED ithread_vars
    PROVE  IthreadInv'
BY DEF ithread_vars, IthreadInv, IthreadTypeOK, ListMatches, CursorOnList

(* A task returns, and the queue is served to its end. *)
LEMMA RunStep ==
    ASSUME TaskqueueInv, NEW q \in Queues, TaskReturns(q) \/ RunEnds(q)
    PROVE  TaskqueueInv'
<1>1. CASE TaskReturns(q)
  <2>1. TaskTypeOK'
    BY <1>1 DEF TaskqueueInv, TaskTypeOK, TaskReturns
  <2>2. QueuesOrdered'
    BY <1>1 DEF TaskqueueInv, QueuesOrdered, TaskReturns
  <2> QED BY <1>1, <2>1, <2>2, ThreadStands DEF TaskqueueInv, TaskReturns
<1>2. CASE RunEnds(q)
  <2>1. IthreadInv'
    BY <1>2, LoopStep, ThreadStands DEF TaskqueueInv, RunEnds
  <2>2. kt_pc' \in {"run", "left", "asleep"}
    BY <1>2 DEF TaskqueueInv, TaskTypeOK, RunEnds
  <2> QED BY <1>2, <2>1, <2>2, ThreadOnly DEF RunEnds
<1> QED BY <1>1, <1>2

(* Everything is idle at first. *)
LEMMA InitTaskqueueInv == Init => TaskqueueInv
<1> SUFFICES ASSUME Init PROVE TaskqueueInv
  OBVIOUS
<1>1. ASSUME NEW flags \in SUBSET {"IT_SOFT", "IT_DEAD"}, NEW list \in {<<>>, <<taskqueue_ih>>},
             IthreadInit(flags, list)
      PROVE  IthreadInv
  <2>1. /\ list \in Seq(Handlers) /\ IsInjective(list)
        /\ ToSet(list) \subseteq Handlers
    <3>1. CASE list = <<>>
      BY <3>1 DEF ToSet, IsInjective
    <3>2. CASE list = <<taskqueue_ih>>
      <4>1. taskqueue_ih \in Handlers /\ list = Append(<<>>, taskqueue_ih)
        BY <3>2, TaskqueueAssumption
      <4> QED BY <4>1, SmallQueues
    <3> QED BY <3>1, <3>2
  <2>2. IthreadTypeOK
    BY <1>1, <2>1 DEF IthreadInit, IthreadTypeOK
  <2>3. ListMatches
    BY <1>1, <2>1 DEF IthreadInit, ListMatches
  <2>4. CursorOnList
    BY <1>1 DEF IthreadInit, CursorOnList
  <2> QED BY <2>2, <2>3, <2>4 DEF IthreadInv
<1>2. IthreadInv
  BY <1>1 DEF Init
<1>3. TaskTypeOK
  BY TaskqueueAssumption DEF Init, TaskTypeOK
<1>4. QueuesOrdered
  <2>1. ToSet(<<>>) = {} /\ IsInjective(<<>>) /\ Len(<<>>) = 0
    BY DEF ToSet, IsInjective
  <2> QED BY <2>1 DEF Init, QueuesOrdered
<1> QED BY <1>2, <1>3, <1>4 DEF TaskqueueInv

(* Every step of the drivers, the thread, the interrupts and the queues    *)
(* keeps it.                                                               *)
LEMMA NextTaskqueueInv == TaskqueueInv /\ [Next]_vars => TaskqueueInv'
<1> SUFFICES ASSUME TaskqueueInv, [Next]_vars PROVE TaskqueueInv'
  OBVIOUS
<1>0. IthreadInv /\ kt_pc \in {"run", "left", "asleep"}
  BY DEF TaskqueueInv, TaskTypeOK
<1>1. CASE Enqueue
  BY <1>1, EnqueueStep, EnqueueAgainStep DEF Enqueue
<1>2. CASE DriverNext
  <2>1. IthreadInv'
    <3>1. CASE ithread_destroy
      BY <1>0, <3>1, TaskqueueAssumption, ClientStep
    <3>2. ASSUME NEW h \in Handlers, Clients(h) PROVE IthreadInv'
      BY <1>0, <3>2, AddHandlerStep, RemoveHandlerStep, ClientStep DEF Clients
    <3> QED BY <1>2, <3>1, <3>2 DEF DriverNext
  <2> QED BY <1>0, <1>2, <2>1, ThreadOnly DEF DriverNext, task_vars
<1>3. CASE LoopNext
  <2>1. IthreadInv'
    BY <1>0, <1>3, LoopStep DEF LoopNext, DriverReturns
  <2> QED BY <1>0, <1>3, <2>1, ThreadOnly DEF LoopNext, DriverReturns, task_vars
<1>4. CASE KthreadSleeps
  BY <1>0, <1>4, ThreadStands, ThreadOnly DEF KthreadSleeps
<1>5. ASSUME NEW h \in Handlers, SchedulingNext(h) PROVE TaskqueueInv'
  <2>1. IthreadInv'
    BY <1>0, <1>5, ClientStep DEF SchedulingNext, Scheduling
  <2> QED BY <1>0, <1>5, <2>1, ThreadOnly DEF SchedulingNext, task_vars
<1>6. ASSUME NEW q \in Queues, QueueNext(q) PROVE TaskqueueInv'
  BY <1>6, TakeTaskStep, RunStep DEF QueueNext
<1>7. CASE UNCHANGED vars
  BY <1>0, <1>7, ThreadStands, ThreadOnly DEF vars, task_vars
<1> QED BY <1>1, <1>2, <1>3, <1>4, <1>5, <1>6, <1>7 DEF Next

-----------------------------------------------------------------------------
(* The theorems. *)

(* In every reachable state of an interrupt thread and its task queues the *)
(* inductive invariant holds.                                              *)
THEOREM TaskqueueInvariant == Spec => []TaskqueueInv
BY InitTaskqueueInv, NextTaskqueueInv, PTL DEF Spec

(* HandlerAlive: although ithread_loop() walks its list without a lock, it *)
(* never has a pointer to a handler that ithread_remove_handler() has      *)
(* freed.                                                                  *)
THEOREM HandlersAlive == Spec => []HandlerAlive
<1>1. TaskqueueInv => HandlerAlive
  BY DEF TaskqueueInv, IthreadInv, IthreadTypeOK, ListMatches, CursorOnList, HandlerAlive
<1> QED BY <1>1, TaskqueueInvariant, PTL

(* QueuesOrdered: a queue holds exactly the tasks with a count, once, in   *)
(* the order of their priorities (taskqueue_enqueue, taskqueue_run).       *)
THEOREM QueuesAlwaysOrdered == Spec => []QueuesOrdered
<1>1. TaskqueueInv => QueuesOrdered
  BY DEF TaskqueueInv
<1> QED BY <1>1, TaskqueueInvariant, PTL

=============================================================================
