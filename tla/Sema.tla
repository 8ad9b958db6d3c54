-------------------------------- MODULE Sema ---------------------------------
(***************************************************************************)
(* Counting semaphores (sys/kern/kern_sema.c) on a condition variable.     *)
(*                                                                         *)
(* Every function runs under sema_mtx, so it is one step up to its return  *)
(* or its wait, and the loop round the wait is one step per iteration.     *)
(* The condition variable is used through what Sleep shows of it: a thread *)
(* leaves the queue by cv_signal(), and then returns zero even if its      *)
(* timeout comes as well, or by its timeout, and then returns EWOULDBLOCK. *)
(***************************************************************************)
EXTENDS Integers, Sequences, FiniteSets, SequencesExt, Threads

CONSTANT MaxValue   \* bound: the largest value that is posted to (INT_MAX)

ASSUME SemaAssumption == MaxValue \in Nat

VARIABLES
    sema_value,
    sema_waiters,   \* threads in the loops of _sema_wait and _sema_timedwait
    sema_cv,        \* wait queue of sema_cv
    timed,          \* the threads whose wait has a timeout
    sema_pc         \* "idle", "wait" in the queue, "woken" or "timedout"

sema_vars == <<sema_value, sema_waiters, sema_cv, timed, sema_pc>>

(* sema_init with any value. *)
SemaInit ==
    /\ sema_value \in 0..MaxValue
    /\ sema_waiters = 0
    /\ sema_cv = <<>>
    /\ timed = {}
    /\ sema_pc = [td \in Threads |-> "idle"]

-----------------------------------------------------------------------------
(* cv_signal(&sema->sema_cv) *)
cv_signal ==
    \/ sema_cv = <<>> /\ UNCHANGED <<sema_cv, sema_pc>>
    \/ sema_cv # <<>> /\ sema_cv' = Tail(sema_cv) /\ sema_pc' = [sema_pc EXCEPT ![Head(sema_cv)] = "woken"]

(* Mutant: only the post that makes the value positive signals. *)
SignalsOnce == sema_waiters > 0 /\ sema_value = 0

MustSignal == sema_waiters > 0 /\ sema_value + 1 > 0

(* _sema_post *)
Post(td) ==
    /\ sema_pc[td] = "idle"
    /\ sema_value < MaxValue
    /\ sema_value' = sema_value + 1
    /\ \/ MustSignal /\ cv_signal
       \/ ~MustSignal /\ UNCHANGED <<sema_cv, sema_pc>>
    /\ UNCHANGED <<sema_waiters, timed>>

(* _sema_wait and _sema_timedwait on entry: take one or join the queue. *)
Wait(td, t) ==
    /\ sema_pc[td] = "idle"
    /\ \/ /\ sema_value > 0
          /\ sema_value' = sema_value - 1
          /\ UNCHANGED <<sema_waiters, sema_cv, timed, sema_pc>>
       \/ /\ sema_value = 0
          /\ sema_waiters' = sema_waiters + 1
          /\ sema_cv' = Append(sema_cv, td)
          /\ timed' = IF t THEN timed \cup {td} ELSE timed
          /\ sema_pc' = [sema_pc EXCEPT ![td] = "wait"]
          /\ UNCHANGED sema_value

(* cv_timedwait_end: the timeout finds the thread in the queue. *)
Timeout(td) ==
    /\ td \in timed
    /\ \E i \in 1..Len(sema_cv) : sema_cv[i] = td /\ sema_cv' = RemoveAt(sema_cv, i)
    /\ sema_pc' = [sema_pc EXCEPT ![td] = "timedout"]
    /\ UNCHANGED <<sema_value, sema_waiters, timed>>

(* Back from the wait: take one, if there is one, whether the thread was   *)
(* woken or timed out ...                                                  *)
Take(td) ==
    /\ sema_pc[td] \in {"woken", "timedout"}
    /\ sema_value > 0
    /\ sema_value' = sema_value - 1
    /\ sema_waiters' = sema_waiters - 1
    /\ timed' = timed \ {td}
    /\ sema_pc' = [sema_pc EXCEPT ![td] = "idle"]
    /\ UNCHANGED sema_cv

(* ... or give up after a timeout ... *)
GiveUp(td) ==
    /\ sema_pc[td] = "timedout"
    /\ sema_value = 0
    /\ sema_waiters' = sema_waiters - 1
    /\ timed' = timed \ {td}
    /\ sema_pc' = [sema_pc EXCEPT ![td] = "idle"]
    /\ UNCHANGED <<sema_value, sema_cv>>

(* ... or wait again, since another thread has been quicker. *)
WaitAgain(td) ==
    /\ sema_pc[td] = "woken"
    /\ sema_value = 0
    /\ sema_cv' = Append(sema_cv, td)
    /\ sema_pc' = [sema_pc EXCEPT ![td] = "wait"]
    /\ UNCHANGED <<sema_value, sema_waiters, timed>>

(* _sema_trywait, when it succeeds. *)
Trywait(td) ==
    /\ sema_pc[td] = "idle"
    /\ sema_value > 0
    /\ sema_value' = sema_value - 1
    /\ UNCHANGED <<sema_waiters, sema_cv, timed, sema_pc>>

Call(td) == Post(td) \/ Trywait(td) \/ \E t \in BOOLEAN : Wait(td, t)

Resume(td) == Take(td) \/ GiveUp(td) \/ WaitAgain(td)

SemaNext == \E td \in Threads : Call(td) \/ Resume(td) \/ Timeout(td)

SemaSpec == SemaInit /\ [][SemaNext]_sema_vars

-----------------------------------------------------------------------------
(* Properties. *)

SemaPcValues == {"idle", "wait", "woken", "timedout"}

(* Every variable has its type; the value is never negative. *)
SemaTypeOK ==
    /\ sema_value \in Nat /\ sema_waiters \in Nat
    /\ sema_cv \in Seq(Threads)
    /\ timed \in SUBSET Threads
    /\ sema_pc \in [Threads -> SemaPcValues]

Waiters == {td \in Threads : sema_pc[td] # "idle"}
Woken   == {td \in Threads : sema_pc[td] = "woken"}

(* The count _sema_post() decides on is that of the threads in the loops,  *)
(* and the queue holds those of them that sleep, whatever mix of signals   *)
(* and timeouts took the others out.                                       *)
WaitersMatch ==
    /\ sema_waiters = Cardinality(Waiters)
    /\ ToSet(sema_cv) = {td \in Threads : sema_pc[td] = "wait"} /\ IsInjective(sema_cv)

(* No post is lost on a sleeping thread: while anybody sleeps, there is a  *)
(* woken thread for every unit of the value, although threads that have    *)
(* not waited, and threads that timed out, may take units meant for the    *)
(* woken ones.                                                             *)
NoStrandedWaiter == sema_cv # <<>> => sema_value <= Cardinality(Woken)

SemaInv == SemaTypeOK /\ WaitersMatch /\ NoStrandedWaiter

-----------------------------------------------------------------------------
(* SemaFairness: woken threads run and get sema_mtx, timeouts come. *)
SemaFairness == \A td \in Threads : WF_sema_vars(Resume(td)) /\ WF_sema_vars(Timeout(td))

FairSemaSpec == SemaSpec /\ SemaFairness

(* Once there are no more calls, every thread has its unit or its timeout, *)
(* unless it waits without a timeout and there is no unit left.            *)
WaitersServed ==
    <>[][\A td \in Threads : ~Call(td)]_sema_vars =>
        <>[](\A td \in Waiters : sema_pc[td] = "wait" /\ td \notin timed /\ sema_value = 0)

=============================================================================
