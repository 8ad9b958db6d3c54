-------------------------------- MODULE Sleep --------------------------------
(***************************************************************************)
(* Sleeping and waking up: msleep() and wakeup() of sys/kern/kern_synch.c, *)
(* the condition variables of sys/kern/kern_condvar.c, their timeouts,     *)
(* which race with the wakeup, and the signals that abort a sleep          *)
(* (tdsignal() in sys/kern/kern_sig.c).                                    *)
(*                                                                         *)
(* A section under the spin lock sched_lock is one step, except where a    *)
(* sleeping thread enters: there the lock is held across several steps, to *)
(* show what it keeps others from doing.  A thread's callout is used       *)
(* through what callout_reset() and callout_stop() promise (see Callout).  *)
(*                                                                         *)
(* The processes have one thread each, and the kernel is neither starting  *)
(* up nor panicking.  EINTR stands for ERESTART as well: which of them it  *)
(* is depends on the signal's action.                                      *)
(***************************************************************************)
EXTENDS Naturals, Sequences, FiniteSets, SequencesExt, Queue

CONSTANTS
    Threads,
    Idents,     \* what msleep() sleeps on
    CVs,        \* condition variables
    Buckets,    \* of the sleep queue
    LOOKUP,     \* [Idents -> Buckets]
    Sleeps,     \* the sleeps that each client asks for: channel, with a timeout, interruptible
    Null

ASSUME SleepAssumption ==
    /\ Idents \cap CVs = {} /\ Null \notin Threads \cup Idents \cup CVs
    /\ LOOKUP \in [Idents -> Buckets]
    /\ Sleeps \in [Threads -> SUBSET ((Idents \cup CVs) \X BOOLEAN \X BOOLEAN)]

Chans == Idents \cup CVs

VARIABLES
    slpque,         \* the sleep queues, one per bucket
    cv_waitq,       \* the queue of each condition variable
    td_wchan,       \* what the thread sleeps on, or Null
    td_flags,       \* of SINTR, TIMEOUT, TIMOFAIL and CVWAITQ
    td_state,       \* "running", "sleeping" or "runq"
    td_slpcallout,  \* "off", "pending", or "called": softclock is about to call its function
    signal,         \* the threads with a signal to deliver
    sched_lock,     \* the thread in a section under sched_lock, or Null
    mtx,            \* the owner of the mutex the clients use
    ready,          \* the channels whose condition holds; guarded by mtx
    pc,
    chan, timo, catch, sig, rval,   \* arguments and locals of the sleep
    cause           \* what took the thread off its queue

queueVars == <<slpque, cv_waitq, td_wchan, td_flags, td_state, cause>>
argVars   == <<chan, timo, catch, sig, rval>>
vars == <<queueVars, td_slpcallout, signal, sched_lock, mtx, ready, pc, argVars>>

Flags == {"SINTR", "TIMEOUT", "TIMOFAIL", "CVWAITQ"}

Init ==
    /\ slpque = [b \in Buckets |-> <<>>]
    /\ cv_waitq = [cv \in CVs |-> <<>>]
    /\ td_wchan = [td \in Threads |-> Null]
    /\ td_flags = [td \in Threads |-> {}]
    /\ td_state = [td \in Threads |-> "running"]
    /\ td_slpcallout = [td \in Threads |-> "off"]
    /\ signal = {} /\ sched_lock = Null /\ mtx = Null /\ ready = {}
    /\ pc = [td \in Threads |-> "idle"]
    /\ chan = [td \in Threads |-> Null]
    /\ timo = [td \in Threads |-> FALSE] /\ catch = [td \in Threads |-> FALSE]
    /\ sig = [td \in Threads |-> FALSE]
    /\ rval = [td \in Threads |-> "0"]
    /\ cause = [td \in Threads |-> "none"]

Goto(td, label) == pc' = [pc EXCEPT ![td] = label]

TD_ON_SLEEPQ(td) == td_wchan[td] # Null

SchedLockFree == sched_lock = Null

-----------------------------------------------------------------------------
(* Leaving a queue. *)

(* Mutant: taken off the wrong kind of queue. *)
RemoveFromSlpque(S, why) ==
    /\ slpque' = [b \in Buckets |-> Dequeued(slpque[b], S)]
    /\ cv_waitq' = cv_waitq
    /\ td_wchan' = [td \in Threads |-> IF td \in S THEN Null ELSE td_wchan[td]]
    /\ cause' = [td \in Threads |-> IF td \in S /\ TD_ON_SLEEPQ(td) THEN why ELSE cause[td]]

(* unsleep, cv_waitq_remove: the threads in S leave the queues they are on. *)
Remove_from_queue(S, why) ==
    /\ slpque' = [b \in Buckets |-> Dequeued(slpque[b], S)]
    /\ cv_waitq' = [cv \in CVs |-> Dequeued(cv_waitq[cv], S)]
    /\ td_wchan' = [td \in Threads |-> IF td \in S THEN Null ELSE td_wchan[td]]
    /\ cause' = [td \in Threads |-> IF td \in S /\ TD_ON_SLEEPQ(td) THEN why ELSE cause[td]]

(* Mutant: only a thread that was on a queue is made runnable. *)
RunnableIfQueued(S) ==
    [td \in Threads |-> IF td \in S /\ td_state[td] = "sleeping" /\ TD_ON_SLEEPQ(td)
                        THEN "runq" ELSE td_state[td]]

(* TD_CLR_SLEEPING and setrunnable: a thread that runs already, or is on   *)
(* the run queue, stays as it is.                                          *)
Setrunnable(S) ==
    [td \in Threads |-> IF td \in S /\ td_state[td] = "sleeping" THEN "runq" ELSE td_state[td]]

(* What remains of the flags of a thread that left a queue. *)
Unqueued(S) == [td \in Threads |-> IF td \in S THEN td_flags[td] \ {"CVWAITQ"} ELSE td_flags[td]]

-----------------------------------------------------------------------------
(* The clients: a mutex and a condition for each channel. *)

Lock(td) ==
    /\ pc[td] = "idle" /\ mtx = Null
    /\ mtx' = td
    /\ Goto(td, "own")
    /\ UNCHANGED <<queueVars, td_slpcallout, signal, sched_lock, ready, argVars>>

(* ... and return to user mode, where a signal is delivered. *)
Unlock(td) ==
    /\ pc[td] = "own"
    /\ mtx' = Null
    /\ signal' = signal \ {td}
    /\ Goto(td, "idle")
    /\ UNCHANGED <<queueVars, td_slpcallout, sched_lock, ready, argVars>>

(* Make the condition true and, in the next step, wake everybody. *)
Post(td, ch) ==
    /\ pc[td] = "own"
    /\ ready' = ready \cup {ch}
    /\ chan' = [chan EXCEPT ![td] = ch]
    /\ Goto(td, "post")
    /\ UNCHANGED <<queueVars, td_slpcallout, signal, sched_lock, mtx, timo, catch, sig, rval>>

Consume(td, ch) ==
    /\ pc[td] = "own"
    /\ ch \in ready
    /\ ready' = ready \ {ch}
    /\ UNCHANGED <<queueVars, td_slpcallout, signal, sched_lock, mtx, pc, argVars>>

-----------------------------------------------------------------------------
(* Waking up. *)

(* The queue a thread that sleeps on ch is in, and who of it does. *)
QueueOf(ch) == IF ch \in CVs THEN cv_waitq[ch] ELSE slpque[LOOKUP[ch]]

Sleepers(ch) == Dequeued(QueueOf(ch), {td \in Threads : td_wchan[td] # ch})

Wake(S) ==
    /\ Remove_from_queue(S, "wakeup")
    /\ td_flags' = Unqueued(S)
    /\ td_state' = Setrunnable(S)

(* wakeup, cv_broadcastpri *)
Wakeup(td) ==
    /\ pc[td] = "post"
    /\ SchedLockFree
    /\ Wake(ToSet(Sleepers(chan[td])))
    /\ chan' = [chan EXCEPT ![td] = Null]
    /\ Goto(td, "own")
    /\ UNCHANGED <<td_slpcallout, signal, sched_lock, mtx, ready, timo, catch, sig, rval>>

(* wakeup_one, cv_signal: the thread that has slept longest. *)
Wakeup_one(td, ch) ==
    /\ pc[td] = "own"
    /\ SchedLockFree
    /\ Sleepers(ch) # <<>>
    /\ Wake({Head(Sleepers(ch))})
    /\ UNCHANGED <<td_slpcallout, signal, sched_lock, mtx, ready, pc, argVars>>

-----------------------------------------------------------------------------
(* Going to sleep. *)

(* Mutant: the mutex is dropped before sched_lock is taken. *)
SchedLockLate(td) == UNCHANGED sched_lock

TakeSchedLock(td) == SchedLockFree /\ sched_lock' = td

(* msleep, cv_wait and its variants, called because the condition does not *)
(* hold.                                                                   *)
Msleep(td, ch, t, k) ==
    /\ pc[td] = "own"
    /\ ch \notin ready
    /\ TakeSchedLock(td)
    /\ chan' = [chan EXCEPT ![td] = ch]
    /\ timo' = [timo EXCEPT ![td] = t]
    /\ catch' = [catch EXCEPT ![td] = k]
    /\ sig' = [sig EXCEPT ![td] = FALSE]
    /\ rval' = [rval EXCEPT ![td] = "0"]
    /\ Goto(td, "drop")
    /\ UNCHANGED <<queueVars, td_slpcallout, signal, mtx, ready>>

DropMutex(td) ==
    /\ pc[td] = "drop"
    /\ mtx' = Null
    /\ Goto(td, "enqueue")
    /\ UNCHANGED <<queueVars, td_slpcallout, signal, sched_lock, ready, argVars>>

(* Onto the queue; with a timeout, start it; then either look for signals  *)
(* without sched_lock or sleep.                                            *)
Enqueue(td) ==
    LET ch == chan[td] IN
    /\ pc[td] = "enqueue"
    /\ sched_lock \in {td, Null}
    /\ \/ /\ ch \in Idents
          /\ slpque' = [slpque EXCEPT ![LOOKUP[ch]] = Append(@, td)]
          /\ cv_waitq' = cv_waitq
       \/ /\ ch \in CVs
          /\ cv_waitq' = [cv_waitq EXCEPT ![ch] = Append(@, td)]
          /\ slpque' = slpque
    /\ td_wchan' = [td_wchan EXCEPT ![td] = ch]
    /\ td_flags' = [td_flags EXCEPT ![td] = @ \cup (IF ch \in CVs THEN {"CVWAITQ"} ELSE {})
                                              \cup (IF catch[td] THEN {"SINTR"} ELSE {})]
    /\ td_slpcallout' = [td_slpcallout EXCEPT ![td] = IF timo[td] THEN "pending" ELSE @]
    /\ cause' = [cause EXCEPT ![td] = "none"]
    /\ sched_lock' = Null
    /\ \/ catch[td] /\ Goto(td, "catch") /\ UNCHANGED td_state
       \/ ~catch[td] /\ Goto(td, "asleep") /\ td_state' = [td_state EXCEPT ![td] = "sleeping"]
    /\ UNCHANGED <<signal, mtx, ready, argVars>>

(* cv_switch_catch, and the same in msleep: a signal ends the sleep before *)
(* it begins, and so does a wakeup or timeout that came while sched_lock   *)
(* was free.  PROC_LOCK keeps new signals out until the thread sleeps.     *)
Catch(td) ==
    /\ pc[td] = "catch"
    /\ SchedLockFree
    /\ sig' = [sig EXCEPT ![td] = td \in signal]
    /\ \/ /\ td \in signal
          /\ Remove_from_queue({td}, "abort")
          /\ td_flags' = Unqueued({td})
          /\ sched_lock' = td
          /\ Goto(td, "awake")
          /\ UNCHANGED <<td_state, catch>>
       \/ /\ td \notin signal /\ TD_ON_SLEEPQ(td)
          /\ td_state' = [td_state EXCEPT ![td] = "sleeping"]
          /\ Goto(td, "asleep")
          /\ UNCHANGED <<slpque, cv_waitq, td_wchan, td_flags, cause, sched_lock, catch>>
       \/ /\ td \notin signal /\ ~TD_ON_SLEEPQ(td)
          /\ catch' = [catch EXCEPT ![td] = @ /\ chan[td] \in CVs]
          /\ sched_lock' = td
          /\ Goto(td, "awake")
          /\ UNCHANGED queueVars
    /\ UNCHANGED <<td_slpcallout, signal, mtx, ready, chan, timo, rval>>

(* mi_switch returns, with sched_lock. *)
Resume(td) ==
    /\ pc[td] \in {"asleep", "resync"}
    /\ td_state[td] = "runq"
    /\ SchedLockFree
    /\ sched_lock' = td
    /\ td_state' = [td_state EXCEPT ![td] = "running"]
    /\ Goto(td, IF pc[td] = "asleep" THEN "awake" ELSE "resynced")
    /\ UNCHANGED <<slpque, cv_waitq, td_wchan, td_flags, cause, td_slpcallout, signal, mtx, ready,
                   argVars>>

-----------------------------------------------------------------------------
(* Awake again: settle with the timeout. *)

(* Mutant: callout_stop() is believed to have stopped the timeout. *)
StopAlwaysWorks(td) == FALSE

(* Mutant: a sleep without a timeout asks as well. *)
ForgetsTimo(td) == td_slpcallout[td] # "pending"

(* callout_stop() returned zero: endtsleep() is about to run. *)
TooLateToStop(td) == timo[td] /\ td_slpcallout[td] # "pending"

TimedOut(td) ==
    /\ "TIMEOUT" \in td_flags[td]
    /\ td_flags' = [td_flags EXCEPT ![td] = @ \ {"SINTR", "TIMEOUT"}]
    /\ rval' = [rval EXCEPT ![td] = IF sig[td] /\ chan[td] \in Idents THEN @ ELSE "EWOULDBLOCK"]
    /\ sched_lock' = Null
    /\ Goto(td, "out")
    /\ UNCHANGED <<td_state, td_slpcallout>>

TimeoutCameLate(td) ==
    /\ "TIMEOUT" \notin td_flags[td] /\ "TIMOFAIL" \in td_flags[td]
    /\ td_flags' = [td_flags EXCEPT ![td] = @ \ {"SINTR", "TIMOFAIL"}]
    /\ sched_lock' = Null
    /\ Goto(td, "out")
    /\ UNCHANGED <<td_state, td_slpcallout, rval>>

StopTimeout(td) ==
    /\ td_flags[td] \cap {"TIMEOUT", "TIMOFAIL"} = {}
    /\ ~TooLateToStop(td)
    /\ td_flags' = [td_flags EXCEPT ![td] = @ \ {"SINTR"}]
    /\ td_slpcallout' = [td_slpcallout EXCEPT ![td] = IF @ = "pending" THEN "off" ELSE @]
    /\ sched_lock' = Null
    /\ Goto(td, "out")
    /\ UNCHANGED <<td_state, rval>>

(* Sleep once more, until endtsleep() has run. *)
WaitForTimeout(td) ==
    /\ td_flags[td] \cap {"TIMEOUT", "TIMOFAIL"} = {}
    /\ TooLateToStop(td)
    /\ td_flags' = [td_flags EXCEPT ![td] = @ \ {"SINTR"}]
    /\ td_state' = [td_state EXCEPT ![td] = "sleeping"]
    /\ sched_lock' = Null
    /\ Goto(td, "resync")
    /\ UNCHANGED <<td_slpcallout, rval>>

Awake(td) ==
    /\ pc[td] = "awake"
    /\ \/ TimedOut(td) \/ TimeoutCameLate(td) \/ StopTimeout(td) \/ WaitForTimeout(td)
    /\ UNCHANGED <<slpque, cv_waitq, td_wchan, cause, signal, mtx, ready, chan, timo, catch, sig>>

Resynced(td) ==
    /\ pc[td] = "resynced"
    /\ td_flags' = [td_flags EXCEPT ![td] = @ \ {"TIMOFAIL"}]
    /\ sched_lock' = Null
    /\ Goto(td, "out")
    /\ UNCHANGED <<slpque, cv_waitq, td_wchan, cause, td_state, td_slpcallout, signal, mtx, ready,
                   argVars>>

(* The result: msleep() looks for a signal unless the sleep timed out, the *)
(* interruptible cv waits always do.                                       *)
Out(td) ==
    /\ pc[td] = "out"
    /\ rval' = [rval EXCEPT ![td] =
          IF catch[td] /\ (sig[td] \/ td \in signal) /\ (chan[td] \in CVs \/ @ = "0")
          THEN "EINTR" ELSE @]
    /\ chan' = [chan EXCEPT ![td] = Null]
    /\ timo' = [timo EXCEPT ![td] = FALSE]
    /\ catch' = [catch EXCEPT ![td] = FALSE]
    /\ sig' = [sig EXCEPT ![td] = FALSE]
    /\ Goto(td, "relock")
    /\ UNCHANGED <<queueVars, td_slpcallout, signal, sched_lock, mtx, ready>>

Relock(td) ==
    /\ pc[td] = "relock" /\ mtx = Null
    /\ mtx' = td
    /\ rval' = [rval EXCEPT ![td] = "0"]
    /\ cause' = [cause EXCEPT ![td] = "none"]
    /\ Goto(td, "own")
    /\ UNCHANGED <<slpque, cv_waitq, td_wchan, td_flags, td_state, td_slpcallout, signal, sched_lock,
                   ready, chan, timo, catch, sig>>

-----------------------------------------------------------------------------
(* Timeouts and signals. *)

(* softclock takes the callout off the wheel: it calls one function at a   *)
(* time, and holds no lock that the threads have.                          *)
Expire(td) ==
    /\ td_slpcallout[td] = "pending"
    /\ \A other \in Threads : td_slpcallout[other] # "called"
    /\ td_slpcallout' = [td_slpcallout EXCEPT ![td] = "called"]
    /\ UNCHANGED <<queueVars, signal, sched_lock, mtx, ready, pc, argVars>>

(* Mutant: the timeout of a thread that was woken counts. *)
AlwaysTimeout(td) == "TIMEOUT"

TimeoutFlag(td) == IF TD_ON_SLEEPQ(td) THEN "TIMEOUT" ELSE "TIMOFAIL"

(* endtsleep, cv_timedwait_end *)
Endtsleep(td) ==
    /\ td_slpcallout[td] = "called"
    /\ SchedLockFree
    /\ Remove_from_queue({td}, "timeout")
    /\ td_flags' = [Unqueued({td}) EXCEPT ![td] = @ \cup {TimeoutFlag(td)}]
    /\ td_state' = Setrunnable({td})
    /\ td_slpcallout' = [td_slpcallout EXCEPT ![td] = "off"]
    /\ UNCHANGED <<signal, sched_lock, mtx, ready, pc, argVars>>

(* abortsleep, cv_abort.  cv_abort makes the thread runnable without this  *)
(* test of the queue, but tdsignal calls it for threads on a queue only.   *)
MayAbort(td) == td_flags[td] \cap {"SINTR", "TIMEOUT"} = {"SINTR"} /\ TD_ON_SLEEPQ(td)

(* tdsignal (kern_sig.c:1867-1874 and 1961-2006): abort an interruptible   *)
(* sleep, and that of a stopped thread which has not gone to sleep yet.    *)
PostSignal(td) ==
    /\ SchedLockFree
    /\ pc[td] # "idle" /\ td \notin signal
    /\ signal' = signal \cup {td}
    /\ \/ /\ MayAbort(td)
          /\ Remove_from_queue({td}, "abort")
          /\ td_flags' = Unqueued({td})
          /\ td_state' = Setrunnable({td})
       \/ /\ MayAbort(td) => td_state[td] # "sleeping"
          /\ UNCHANGED queueVars
    /\ UNCHANGED <<td_slpcallout, sched_lock, mtx, ready, pc, argVars>>

-----------------------------------------------------------------------------
ClientCall(td) ==
    \/ Lock(td)
    \/ \E ch \in Chans : Post(td, ch) \/ Consume(td, ch) \/ Wakeup_one(td, ch)
    \/ \E s \in Sleeps[td] : Msleep(td, s[1], s[2], s[3])
    \/ PostSignal(td)

SleepStep(td) ==
    \/ DropMutex(td) \/ Enqueue(td) \/ Catch(td) \/ Resume(td) \/ Awake(td) \/ Resynced(td)
    \/ Out(td) \/ Relock(td)

Step(td) == Unlock(td) \/ Wakeup(td) \/ SleepStep(td)

Softclock(td) == Expire(td) \/ Endtsleep(td)

Next == \E td \in Threads : ClientCall(td) \/ Step(td) \/ Softclock(td)

Spec == Init /\ [][Next]_vars

-----------------------------------------------------------------------------
(* Properties. *)

PcValues == {"idle", "own", "post", "drop", "enqueue", "catch", "asleep", "awake", "resync",
             "resynced", "out", "relock"}

(* Every variable has its type. *)
TypeOK ==
    /\ slpque \in [Buckets -> Seq(Threads)] /\ cv_waitq \in [CVs -> Seq(Threads)]
    /\ td_wchan \in [Threads -> Chans \cup {Null}]
    /\ td_flags \in [Threads -> SUBSET Flags]
    /\ td_state \in [Threads -> {"running", "sleeping", "runq"}]
    /\ td_slpcallout \in [Threads -> {"off", "pending", "called"}]
    /\ signal \in SUBSET Threads /\ ready \in SUBSET Chans
    /\ sched_lock \in Threads \cup {Null} /\ mtx \in Threads \cup {Null}
    /\ pc \in [Threads -> PcValues]
    /\ chan \in [Threads -> Chans \cup {Null}]
    /\ timo \in [Threads -> BOOLEAN] /\ catch \in [Threads -> BOOLEAN] /\ sig \in [Threads -> BOOLEAN]
    /\ rval \in [Threads -> {"0", "EWOULDBLOCK", "EINTR"}]
    /\ cause \in [Threads -> {"none", "wakeup", "timeout", "abort"}]

(* td_wchan and TDF_CVWAITQ say on which queue a thread is, and it is      *)
(* there once: wakeups, timeouts and signals all rely on them.             *)
QueuesMatch ==
    /\ TypeOK
    /\ \A b \in Buckets : IsInjective(slpque[b])
         /\ ToSet(slpque[b]) = {td \in Threads : td_wchan[td] \in Idents /\ LOOKUP[td_wchan[td]] = b}
    /\ \A cv \in CVs : IsInjective(cv_waitq[cv])
         /\ ToSet(cv_waitq[cv]) = {td \in Threads : td_wchan[td] = cv}
    /\ \A td \in Threads : "CVWAITQ" \in td_flags[td] <=> td_wchan[td] \in CVs

(* No wakeup is lost: a thread is on the queue of a channel whose          *)
(* condition holds only while the thread that made it true is about to     *)
(* wake it.  The condition was tested under a mutex that the sleeper       *)
(* drops before it is on the queue.                                        *)
NoLostWakeup ==
    \A td \in Threads : td_wchan[td] \in ready =>
        \E poster \in Threads : pc[poster] = "post" /\ chan[poster] = td_wchan[td]

(* A thread that is switched out can be woken: it is on a queue, or its    *)
(* timeout is about to run.                                                *)
SleeperHasWaker ==
    \A td \in Threads : td_state[td] = "sleeping" =>
        TD_ON_SLEEPQ(td) \/ (pc[td] = "resync" /\ td_slpcallout[td] = "called")

(* A timeout is settled before the sleep returns, so that it cannot hit    *)
(* the thread's next sleep: its callout is neither pending nor about to    *)
(* run, and the flags it sets are clear.                                   *)
TimeoutSettled ==
    \A td \in Threads : pc[td] \in {"idle", "own", "post", "drop", "enqueue", "out", "relock"} =>
        /\ td_slpcallout[td] = "off"
        /\ td_flags[td] = {}

(* The result tells how the sleep ended: EWOULDBLOCK is a timeout and no   *)
(* wakeup, and zero is not one.                                            *)
ResultTellsCause ==
    \A td \in Threads : pc[td] = "relock" =>
        /\ rval[td] = "EWOULDBLOCK" => cause[td] = "timeout"
        /\ rval[td] = "0" => cause[td] = "wakeup"

-----------------------------------------------------------------------------
(* Fairness: threads run, the mutex is released, the clock ticks.          *)
Fairness == \A td \in Threads : WF_vars(Step(td)) /\ WF_vars(Softclock(td))

FairSpec == Spec /\ Fairness

(* Once the clients make no more calls, every sleep with a timeout returns *)
(* and nobody is left in the second sleep.                                 *)
TimedSleepsEnd ==
    <>[][\A td \in Threads : ~ClientCall(td)]_vars =>
        <>[](\A td \in Threads : pc[td] = "idle" \/ (pc[td] = "asleep" /\ ~timo[td]))

=============================================================================
