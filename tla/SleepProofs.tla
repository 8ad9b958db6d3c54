----------------------------- MODULE SleepProofs -----------------------------
(***************************************************************************)
(* Proofs about sleeping and waking up (Sleep): for any threads, channels  *)
(* and hash function, the queues are what td_wchan says, no wakeup is      *)
(* lost, whoever is switched out has someone to wake it, timeouts do not   *)
(* reach into the next sleep, and the result tells what ended the sleep.   *)
(***************************************************************************)
EXTENDS Sleep, QueueLemmas

-----------------------------------------------------------------------------
(* The inductive invariant. *)

(* Who holds which lock where. *)
LocksHeld ==
    \A td \in Threads :
        /\ sched_lock = td <=> pc[td] \in {"drop", "enqueue", "awake", "resynced"}
        /\ mtx = td <=> pc[td] \in {"own", "post", "drop"}

(* The queues and td_wchan agree: QueuesMatch without the flag. *)
QueuesAgree ==
    /\ \A b \in Buckets : IsInjective(slpque[b])
         /\ ToSet(slpque[b]) = {td \in Threads : td_wchan[td] \in Idents /\ LOOKUP[td_wchan[td]] = b}
    /\ \A cv \in CVs : IsInjective(cv_waitq[cv])
         /\ ToSet(cv_waitq[cv]) = {td \in Threads : td_wchan[td] = cv}

(* A thread on a queue is in msleep() and has not been woken; one that is  *)
(* switched out waits for its wakeup or, the second time, for its timeout. *)
QueueState(td) ==
    /\ chan[td] = Null <=> pc[td] \in {"idle", "own", "relock"}
    /\ td_wchan[td] # Null =>
         pc[td] \in {"catch", "asleep"} /\ td_wchan[td] = chan[td] /\ cause[td] = "none"
    /\ "CVWAITQ" \in td_flags[td] <=> td_wchan[td] \in CVs
    /\ td_state[td] = "running" <=> pc[td] \notin {"asleep", "resync"}
    /\ pc[td] = "asleep" => (td_state[td] = "sleeping" <=> td_wchan[td] # Null)
    /\ pc[td] = "resync" => (td_state[td] = "sleeping" <=> td_slpcallout[td] = "called")

(* A timeout has been asked for, and has not yet run exactly while neither *)
(* of its flags is set.                                                    *)
TimeoutState(td) ==
    LET flags == td_flags[td] \cap {"TIMEOUT", "TIMOFAIL"} IN
    /\ pc[td] \in {"idle", "own", "post", "drop", "enqueue", "out", "relock"} =>
         td_slpcallout[td] = "off" /\ td_flags[td] = {}
    /\ pc[td] \in {"catch", "asleep", "awake"} =>
         /\ flags # {"TIMEOUT", "TIMOFAIL"}
         /\ ~timo[td] => td_slpcallout[td] = "off" /\ flags = {}
         /\ timo[td] => (td_slpcallout[td] = "off" <=> flags # {})
         /\ "TIMEOUT" \in flags <=> cause[td] = "timeout"
    /\ pc[td] = "resync" =>
         \/ td_slpcallout[td] = "called" /\ td_flags[td] = {}
         \/ td_slpcallout[td] = "off" /\ td_flags[td] = {"TIMOFAIL"}
    /\ pc[td] = "resynced" => td_slpcallout[td] = "off" /\ td_flags[td] = {"TIMOFAIL"}

(* What the result will say is what has taken the thread off its queue. *)
ResultState(td) ==
    /\ pc[td] \in {"catch", "asleep", "awake", "resync", "resynced", "out"} =>
         /\ td_wchan[td] = Null => cause[td] # "none"
         /\ cause[td] = "abort" => catch[td] /\ td \in signal
    /\ pc[td] \notin {"out", "relock"} => rval[td] = "0"
    /\ sig[td] => pc[td] \in {"awake", "resync", "resynced", "out"} /\ catch[td] /\ td \in signal
    /\ pc[td] = "catch" => catch[td]
    /\ pc[td] \in {"catch", "asleep"} => ("SINTR" \in td_flags[td] => catch[td])
    /\ pc[td] \in {"resync", "resynced"} => cause[td] # "timeout"
    /\ pc[td] = "out" =>
         /\ rval[td] # "EINTR"
         /\ rval[td] = "EWOULDBLOCK" => cause[td] = "timeout"
         /\ rval[td] = "0" /\ cause[td] = "timeout" => sig[td] /\ chan[td] \in Idents
    /\ pc[td] = "relock" =>
         /\ rval[td] = "EWOULDBLOCK" => cause[td] = "timeout"
         /\ rval[td] = "0" => cause[td] = "wakeup"

(* The channel a thread sleeps on or has made up its mind to sleep on. *)
Going(td) == IF pc[td] \in {"drop", "enqueue"} THEN chan[td] ELSE td_wchan[td]

(* Nobody sleeps, or is about to, on a channel whose condition holds,      *)
(* unless its poster is still to call wakeup().                            *)
NobodyForgotten ==
    \A td \in Threads : Going(td) \in ready =>
        \E poster \in Threads : pc[poster] = "post" /\ chan[poster] = Going(td)



(* Everything that is said of one thread. *)
ThreadOK(td) == QueueState(td) /\ TimeoutState(td) /\ ResultState(td)

-----------------------------------------------------------------------------
(* What the queues' operations do. *)

(* Taking threads off their queues (unsleep, cv_waitq_remove) leaves the   *)
(* queues in agreement with td_wchan.                                      *)
LEMMA RemovalKeepsQueues ==
    ASSUME TypeOK, QueuesAgree, NEW S \in SUBSET Threads,
           NEW why \in {"wakeup", "timeout", "abort"}, Remove_from_queue(S, why)
    PROVE  /\ QueuesAgree'
           /\ slpque' \in [Buckets -> Seq(Threads)] /\ cv_waitq' \in [CVs -> Seq(Threads)]
           /\ td_wchan' \in [Threads -> Chans \cup {Null}]
           /\ cause' \in [Threads -> {"none", "wakeup", "timeout", "abort"}]
           /\ \A o \in Threads :
                /\ td_wchan'[o] = IF o \in S THEN Null ELSE td_wchan[o]
                /\ cause'[o] = IF o \in S /\ td_wchan[o] # Null THEN why ELSE cause[o]
<1>1. /\ slpque \in [Buckets -> Seq(Threads)] /\ cv_waitq \in [CVs -> Seq(Threads)]
      /\ td_wchan \in [Threads -> Chans \cup {Null}]
      /\ cause \in [Threads -> {"none", "wakeup", "timeout", "abort"}]
  BY DEF TypeOK
<1>2. /\ \A b \in Buckets : slpque'[b] = Dequeued(slpque[b], S)
      /\ slpque' = [b \in Buckets |-> slpque'[b]]
      /\ \A cv \in CVs : cv_waitq'[cv] = Dequeued(cv_waitq[cv], S)
      /\ cv_waitq' = [cv \in CVs |-> cv_waitq'[cv]]
  BY DEF Remove_from_queue
<1>3. \A o \in Threads :
         /\ td_wchan'[o] = IF o \in S THEN Null ELSE td_wchan[o]
         /\ cause'[o] = IF o \in S /\ td_wchan[o] # Null THEN why ELSE cause[o]
  BY DEF Remove_from_queue, TD_ON_SLEEPQ
<1>4. /\ td_wchan' \in [Threads -> Chans \cup {Null}]
      /\ cause' \in [Threads -> {"none", "wakeup", "timeout", "abort"}]
  BY <1>1 DEF Remove_from_queue
<1>5. \A q \in Seq(Threads) :
         /\ Dequeued(q, S) \in Seq(Threads)
         /\ ToSet(Dequeued(q, S)) = ToSet(q) \ S
         /\ IsInjective(q) => IsInjective(Dequeued(q, S))
  BY DequeuedProperties
<1>6. ASSUME NEW b \in Buckets
      PROVE  /\ slpque'[b] \in Seq(Threads) /\ IsInjective(slpque'[b])
             /\ ToSet(slpque'[b]) =
                  {o \in Threads : td_wchan'[o] \in Idents /\ LOOKUP[td_wchan'[o]] = b}
  <2>1. /\ slpque[b] \in Seq(Threads) /\ IsInjective(slpque[b])
        /\ ToSet(slpque[b]) = {o \in Threads : td_wchan[o] \in Idents /\ LOOKUP[td_wchan[o]] = b}
    BY <1>1 DEF QueuesAgree
  <2>2. /\ slpque'[b] \in Seq(Threads) /\ IsInjective(slpque'[b])
        /\ ToSet(slpque'[b]) = ToSet(slpque[b]) \ S
    BY <2>1, <1>2, <1>5
  <2>3. {o \in Threads : td_wchan'[o] \in Idents /\ LOOKUP[td_wchan'[o]] = b} =
        {o \in Threads : td_wchan[o] \in Idents /\ LOOKUP[td_wchan[o]] = b} \ S
    BY <1>3, SleepAssumption
  <2> QED BY <2>1, <2>2, <2>3
<1>7. ASSUME NEW cv \in CVs
      PROVE  /\ cv_waitq'[cv] \in Seq(Threads) /\ IsInjective(cv_waitq'[cv])
             /\ ToSet(cv_waitq'[cv]) = {o \in Threads : td_wchan'[o] = cv}
  <2>1. /\ cv_waitq[cv] \in Seq(Threads) /\ IsInjective(cv_waitq[cv])
        /\ ToSet(cv_waitq[cv]) = {o \in Threads : td_wchan[o] = cv}
    BY <1>1 DEF QueuesAgree
  <2>2. /\ cv_waitq'[cv] \in Seq(Threads) /\ IsInjective(cv_waitq'[cv])
        /\ ToSet(cv_waitq'[cv]) = ToSet(cv_waitq[cv]) \ S
    BY <2>1, <1>2, <1>5
  <2>3. {o \in Threads : td_wchan'[o] = cv} = {o \in Threads : td_wchan[o] = cv} \ S
    BY <1>3, SleepAssumption
  <2> QED BY <2>1, <2>2, <2>3
<1>8. slpque' \in [Buckets -> Seq(Threads)] /\ cv_waitq' \in [CVs -> Seq(Threads)]
  BY <1>2, <1>6, <1>7
<1>9. QueuesAgree'
  BY <1>6, <1>7 DEF QueuesAgree
<1> QED BY <1>3, <1>4, <1>8, <1>9

(* The sleepers that wakeup() finds are all that sleep on the channel.     *)
LEMMA SleepersFound ==
    ASSUME TypeOK, QueuesAgree, NEW ch \in Chans
    PROVE  /\ Sleepers(ch) \in Seq(Threads)
           /\ ToSet(Sleepers(ch)) = {o \in Threads : td_wchan[o] = ch}
<1> DEFINE others == {o \in Threads : td_wchan[o] # ch}
<1>1. QueueOf(ch) \in Seq(Threads) /\ {o \in Threads : td_wchan[o] = ch} \subseteq ToSet(QueueOf(ch))
  <2>1. CASE ch \in CVs
    BY <2>1 DEF QueueOf, TypeOK, QueuesAgree
  <2>2. CASE ch \notin CVs
    <3>1. ch \in Idents /\ LOOKUP[ch] \in Buckets /\ QueueOf(ch) = slpque[LOOKUP[ch]]
      BY <2>2, SleepAssumption DEF QueueOf, Chans
    <3> QED BY <3>1 DEF TypeOK, QueuesAgree
  <2> QED BY <2>1, <2>2
<1>2. ToSet(QueueOf(ch)) \subseteq Threads
  BY <1>1, ToSetEmpty
<1>3. /\ Dequeued(QueueOf(ch), others) \in Seq(Threads)
      /\ ToSet(Dequeued(QueueOf(ch), others)) = ToSet(QueueOf(ch)) \ others
  BY <1>1, DequeuedProperties
<1>4. ToSet(QueueOf(ch)) \ others = {o \in Threads : td_wchan[o] = ch}
  BY <1>1, <1>2
<1>5. Sleepers(ch) = Dequeued(QueueOf(ch), others)
  BY DEF Sleepers
<1> QED BY <1>3, <1>4, <1>5

(* A thread of which nothing changes stays as it should be. *)
LEMMA OthersStand ==
    ASSUME NEW o, ThreadOK(o),
           td_wchan'[o] = td_wchan[o], td_flags'[o] = td_flags[o], td_state'[o] = td_state[o],
           td_slpcallout'[o] = td_slpcallout[o], pc'[o] = pc[o], chan'[o] = chan[o],
           timo'[o] = timo[o], catch'[o] = catch[o], sig'[o] = sig[o], rval'[o] = rval[o],
           cause'[o] = cause[o], o \in signal => o \in signal'
    PROVE  ThreadOK(o)'
BY DEF ThreadOK, QueueState, TimeoutState, ResultState

(* The inductive invariant. *)
SleepInv ==
    /\ TypeOK /\ LocksHeld /\ QueuesAgree /\ NobodyForgotten
    /\ \A td \in Threads : ThreadOK(td)

(* A step that leaves the queues alone leaves them in agreement. *)
LEMMA QueuesStand ==
    ASSUME QueuesAgree, UNCHANGED <<slpque, cv_waitq, td_wchan>>
    PROVE  QueuesAgree'
BY DEF QueuesAgree

(* Nobody is forgotten by a step that makes no condition true, puts nobody *)
(* on the way to a queue and lets every poster be.                         *)
LEMMA ForgetsNobody ==
    ASSUME NobodyForgotten, ready' \subseteq ready,
           \A o \in Threads : Going(o)' \in ready' => Going(o)' = Going(o),
           \A o \in Threads : pc[o] = "post" => pc'[o] = "post" /\ chan'[o] = chan[o]
    PROVE  NobodyForgotten'
<1> SUFFICES ASSUME NEW o \in Threads, Going(o)' \in ready'
             PROVE  \E p \in Threads : pc'[p] = "post" /\ chan'[p] = Going(o)'
  BY DEF NobodyForgotten
<1>1. Going(o) \in ready /\ Going(o)' = Going(o)
  OBVIOUS
<1>2. PICK p \in Threads : pc[p] = "post" /\ chan[p] = Going(o)
  BY <1>1 DEF NobodyForgotten
<1> QED BY <1>1, <1>2

-----------------------------------------------------------------------------
(* The clients. *)

(* lock: nothing but the mutex changes. *)
LEMMA LockStep ==
    ASSUME SleepInv, NEW td \in Threads, Lock(td)
    PROVE  SleepInv'
<1>1. TypeOK'
  BY DEF TypeOK, PcValues, Flags, SleepInv, Lock, Goto, queueVars, argVars
<1>2. LocksHeld'
  BY SleepAssumption DEF LocksHeld, TypeOK, SleepInv, Lock, Goto, queueVars, argVars
<1>3. QueuesAgree'
  BY QueuesStand DEF SleepInv, Lock, Goto, queueVars, argVars
<1>4. NobodyForgotten'
  BY ForgetsNobody DEF Going, TypeOK, SleepInv, Lock, Goto, queueVars, argVars
<1>5. ASSUME NEW o \in Threads PROVE ThreadOK(o)'
  <2>1. CASE o = td
    <3>1. /\ TypeOK /\ ThreadOK(td) /\ pc[td] = "idle"
      BY DEF SleepInv, Lock, Goto, queueVars, argVars
    <3>2. /\ pc'[td] = "own"
          /\ td_wchan'[td] = td_wchan[td] /\ td_flags'[td] = td_flags[td]
          /\ td_state'[td] = td_state[td] /\ td_slpcallout'[td] = td_slpcallout[td]
          /\ chan'[td] = chan[td] /\ timo'[td] = timo[td] /\ catch'[td] = catch[td]
          /\ sig'[td] = sig[td] /\ rval'[td] = rval[td] /\ cause'[td] = cause[td]
          /\ signal' = signal
      BY DEF SleepInv, TypeOK, Lock, Goto, queueVars, argVars
    <3>3. QueueState(td)'
      BY <3>1, <3>2, SleepAssumption DEF ThreadOK, QueueState, TimeoutState, TypeOK, Chans
    <3>4. TimeoutState(td)'
      BY <3>1, <3>2, SleepAssumption DEF ThreadOK, QueueState, TimeoutState, TypeOK, Chans, Flags
    <3>5. ResultState(td)'
      BY <3>1, <3>2, SleepAssumption DEF ThreadOK, QueueState, TimeoutState, ResultState, TypeOK, Chans
    <3> QED BY <2>1, <3>3, <3>4, <3>5 DEF ThreadOK
  <2>2. CASE o # td
    BY <2>2, OthersStand DEF TypeOK, SleepInv, Lock, Goto, queueVars, argVars
  <2> QED BY <2>1, <2>2
<1> QED BY <1>1, <1>2, <1>3, <1>4, <1>5 DEF SleepInv

(* unlock: a signal is delivered to a thread that does not sleep. *)
LEMMA UnlockStep ==
    ASSUME SleepInv, NEW td \in Threads, Unlock(td)
    PROVE  SleepInv'
<1>1. TypeOK'
  BY DEF TypeOK, PcValues, Flags, SleepInv, Unlock, Goto, queueVars, argVars
<1>2. LocksHeld'
  BY SleepAssumption DEF LocksHeld, TypeOK, SleepInv, Unlock, Goto, queueVars, argVars
<1>3. QueuesAgree'
  BY QueuesStand DEF SleepInv, Unlock, Goto, queueVars, argVars
<1>4. NobodyForgotten'
  BY ForgetsNobody DEF Going, TypeOK, SleepInv, Unlock, Goto, queueVars, argVars
<1>5. ASSUME NEW o \in Threads PROVE ThreadOK(o)'
  <2>1. CASE o = td
    <3>1. /\ TypeOK /\ ThreadOK(td) /\ pc[td] = "own"
      BY DEF SleepInv, Unlock, Goto, queueVars, argVars
    <3>2. /\ pc'[td] = "idle"
          /\ signal' \subseteq signal
          /\ td_wchan'[td] = td_wchan[td] /\ td_flags'[td] = td_flags[td]
          /\ td_state'[td] = td_state[td] /\ td_slpcallout'[td] = td_slpcallout[td]
          /\ chan'[td] = chan[td] /\ timo'[td] = timo[td] /\ catch'[td] = catch[td]
          /\ sig'[td] = sig[td] /\ rval'[td] = rval[td] /\ cause'[td] = cause[td]
      BY DEF SleepInv, TypeOK, Unlock, Goto, queueVars, argVars
    <3>3. QueueState(td)'
      BY <3>1, <3>2, SleepAssumption DEF ThreadOK, QueueState, TimeoutState, TypeOK, Chans
    <3>4. TimeoutState(td)'
      BY <3>1, <3>2, SleepAssumption DEF ThreadOK, QueueState, TimeoutState, TypeOK, Chans, Flags
    <3>5. ResultState(td)'
      BY <3>1, <3>2, SleepAssumption DEF ThreadOK, QueueState, TimeoutState, ResultState, TypeOK, Chans
    <3> QED BY <2>1, <3>3, <3>4, <3>5 DEF ThreadOK
  <2>2. CASE o # td
    BY <2>2, OthersStand DEF TypeOK, SleepInv, Unlock, Goto, queueVars, argVars
  <2> QED BY <2>1, <2>2
<1> QED BY <1>1, <1>2, <1>3, <1>4, <1>5 DEF SleepInv

(* post: the condition comes true under the mutex, which keeps every other *)
(* poster away; those that sleep on the channel have their poster now.     *)
LEMMA PostStep ==
    ASSUME SleepInv, NEW td \in Threads, NEW ch \in Chans, Post(td, ch)
    PROVE  SleepInv'
<1> USE DEF SleepInv, Post, Goto, queueVars
<1>1. TypeOK'
  BY DEF TypeOK, PcValues
<1>2. LocksHeld'
  BY SleepAssumption DEF LocksHeld, TypeOK
<1>3. QueuesAgree'
  BY QueuesStand
<1>4. NobodyForgotten'
  <2> SUFFICES ASSUME NEW o \in Threads, Going(o)' \in ready'
               PROVE  \E p \in Threads : pc'[p] = "post" /\ chan'[p] = Going(o)'
    BY DEF NobodyForgotten
  <2>1. Going(o)' = Going(o)
    BY DEF Going, TypeOK, ThreadOK, QueueState
  <2>2. ~ \E p \in Threads : pc[p] = "post"
    BY DEF LocksHeld
  <2>3. Going(o) \notin ready
    BY <2>2 DEF NobodyForgotten
  <2>4. Going(o)' = ch
    BY <2>1, <2>3
  <2> QED BY <2>4 DEF TypeOK
<1>5. ASSUME NEW o \in Threads PROVE ThreadOK(o)'
  <2>1. CASE o = td
    BY <2>1, SleepAssumption DEF ThreadOK, QueueState, TimeoutState, ResultState, TypeOK, Chans
  <2>2. CASE o # td
    BY <2>2, OthersStand DEF TypeOK
  <2> QED BY <2>1, <2>2
<1> QED BY <1>1, <1>2, <1>3, <1>4, <1>5

(* consume: a condition that no longer holds forgets nobody. *)
LEMMA ConsumeStep ==
    ASSUME SleepInv, NEW td \in Threads, NEW ch \in Chans, Consume(td, ch)
    PROVE  SleepInv'
<1>1. TypeOK'
  BY DEF TypeOK, PcValues, Flags, SleepInv, Consume, queueVars, argVars
<1>2. LocksHeld'
  BY SleepAssumption DEF LocksHeld, TypeOK, SleepInv, Consume, queueVars, argVars
<1>3. QueuesAgree'
  BY QueuesStand DEF SleepInv, Consume, queueVars, argVars
<1>4. NobodyForgotten'
  BY ForgetsNobody DEF Going, TypeOK, SleepInv, Consume, queueVars, argVars
<1>5. ASSUME NEW o \in Threads PROVE ThreadOK(o)'
  <2>1. CASE o = td
    <3>1. /\ TypeOK /\ ThreadOK(td) /\ pc[td] = "own"
      BY DEF SleepInv, Consume, queueVars, argVars
    <3>2. /\ td_wchan'[td] = td_wchan[td] /\ td_flags'[td] = td_flags[td]
          /\ td_state'[td] = td_state[td] /\ td_slpcallout'[td] = td_slpcallout[td]
          /\ chan'[td] = chan[td] /\ timo'[td] = timo[td] /\ catch'[td] = catch[td]
          /\ sig'[td] = sig[td] /\ rval'[td] = rval[td] /\ cause'[td] = cause[td]
          /\ signal' = signal /\ pc'[td] = pc[td]
      BY DEF SleepInv, TypeOK, Consume, queueVars, argVars
    <3>3. QueueState(td)'
      BY <3>1, <3>2, SleepAssumption DEF ThreadOK, QueueState, TimeoutState, TypeOK, Chans
    <3>4. TimeoutState(td)'
      BY <3>1, <3>2, SleepAssumption DEF ThreadOK, QueueState, TimeoutState, TypeOK, Chans, Flags
    <3>5. ResultState(td)'
      BY <3>1, <3>2, SleepAssumption DEF ThreadOK, QueueState, TimeoutState, ResultState, TypeOK, Chans
    <3> QED BY <2>1, <3>3, <3>4, <3>5 DEF ThreadOK
  <2>2. CASE o # td
    BY <2>2, OthersStand DEF TypeOK, SleepInv, Consume, queueVars, argVars
  <2> QED BY <2>1, <2>2
<1> QED BY <1>1, <1>2, <1>3, <1>4, <1>5 DEF SleepInv

-----------------------------------------------------------------------------
(* Going to sleep. *)

(* msleep: the channel's condition does not hold when the thread makes up *)
(* its mind, and it has sched_lock before it lets the mutex go.            *)
LEMMA MsleepStep ==
    ASSUME SleepInv, NEW td \in Threads, NEW s \in Sleeps[td], Msleep(td, s[1], s[2], s[3])
    PROVE  SleepInv'
<1>0. s[1] \in Chans /\ s[2] \in BOOLEAN /\ s[3] \in BOOLEAN
  BY SleepAssumption DEF Chans
<1>1. TypeOK'
  BY <1>0 DEF TypeOK, PcValues, SleepInv, Msleep, TakeSchedLock, Goto, queueVars
<1>2. LocksHeld'
  BY SleepAssumption DEF LocksHeld, TypeOK, SleepInv, Msleep, TakeSchedLock, SchedLockFree, Goto, queueVars
<1>3. QueuesAgree'
  BY QueuesStand DEF SleepInv, Msleep, TakeSchedLock, SchedLockFree, Goto, queueVars
<1>4. NobodyForgotten'
  BY ForgetsNobody DEF Going, TypeOK, SleepInv, Msleep, TakeSchedLock, SchedLockFree, Goto, queueVars
<1>5. ASSUME NEW o \in Threads PROVE ThreadOK(o)'
  <2>1. CASE o = td
    <3>1. /\ TypeOK /\ ThreadOK(td) /\ pc[td] = "own" /\ s[1] \in Chans
      BY <1>0 DEF SleepInv, Msleep, TakeSchedLock, SchedLockFree, Goto, queueVars
    <3>2. /\ pc'[td] = "drop"
          /\ chan'[td] = s[1]
          /\ timo'[td] = s[2]
          /\ catch'[td] = s[3]
          /\ sig'[td] = FALSE
          /\ rval'[td] = "0"
          /\ td_wchan'[td] = td_wchan[td] /\ td_flags'[td] = td_flags[td]
          /\ td_state'[td] = td_state[td] /\ td_slpcallout'[td] = td_slpcallout[td]
          /\ cause'[td] = cause[td] /\ signal' = signal
      BY DEF SleepInv, TypeOK, Msleep, TakeSchedLock, SchedLockFree, Goto, queueVars
    <3>3. QueueState(td)'
      BY <3>1, <3>2, SleepAssumption DEF ThreadOK, QueueState, TimeoutState, TypeOK, Chans
    <3>4. TimeoutState(td)'
      BY <3>1, <3>2, SleepAssumption DEF ThreadOK, QueueState, TimeoutState, TypeOK, Chans, Flags
    <3>5. ResultState(td)'
      BY <3>1, <3>2, SleepAssumption DEF ThreadOK, QueueState, TimeoutState, ResultState, TypeOK, Chans
    <3> QED BY <2>1, <3>3, <3>4, <3>5 DEF ThreadOK
  <2>2. CASE o # td
    BY <2>2, OthersStand DEF TypeOK, SleepInv, Msleep, TakeSchedLock, SchedLockFree, Goto, queueVars
  <2> QED BY <2>1, <2>2
<1> QED BY <1>1, <1>2, <1>3, <1>4, <1>5 DEF SleepInv

(* drop: the mutex goes, sched_lock stays. *)
LEMMA DropMutexStep ==
    ASSUME SleepInv, NEW td \in Threads, DropMutex(td)
    PROVE  SleepInv'
<1>1. TypeOK'
  BY DEF TypeOK, PcValues, Flags, SleepInv, DropMutex, Goto, queueVars, argVars
<1>2. LocksHeld'
  BY SleepAssumption DEF LocksHeld, TypeOK, SleepInv, DropMutex, Goto, queueVars, argVars
<1>3. QueuesAgree'
  BY QueuesStand DEF SleepInv, DropMutex, Goto, queueVars, argVars
<1>4. NobodyForgotten'
  BY ForgetsNobody DEF Going, TypeOK, SleepInv, DropMutex, Goto, queueVars, argVars
<1>5. ASSUME NEW o \in Threads PROVE ThreadOK(o)'
  <2>1. CASE o = td
    <3>1. /\ TypeOK /\ ThreadOK(td) /\ pc[td] = "drop"
      BY DEF SleepInv, DropMutex, Goto, queueVars, argVars
    <3>2. /\ pc'[td] = "enqueue"
          /\ td_wchan'[td] = td_wchan[td] /\ td_flags'[td] = td_flags[td]
          /\ td_state'[td] = td_state[td] /\ td_slpcallout'[td] = td_slpcallout[td]
          /\ chan'[td] = chan[td] /\ timo'[td] = timo[td] /\ catch'[td] = catch[td]
          /\ sig'[td] = sig[td] /\ rval'[td] = rval[td] /\ cause'[td] = cause[td]
          /\ signal' = signal
      BY DEF SleepInv, TypeOK, DropMutex, Goto, queueVars, argVars
    <3>3. QueueState(td)'
      BY <3>1, <3>2, SleepAssumption DEF ThreadOK, QueueState, TimeoutState, TypeOK, Chans
    <3>4. TimeoutState(td)'
      BY <3>1, <3>2, SleepAssumption DEF ThreadOK, QueueState, TimeoutState, TypeOK, Chans, Flags
    <3>5. ResultState(td)'
      BY <3>1, <3>2, SleepAssumption DEF ThreadOK, QueueState, TimeoutState, ResultState, TypeOK, Chans
    <3> QED BY <2>1, <3>3, <3>4, <3>5 DEF ThreadOK
  <2>2. CASE o # td
    BY <2>2, OthersStand DEF TypeOK, SleepInv, DropMutex, Goto, queueVars, argVars
  <2> QED BY <2>1, <2>2
<1> QED BY <1>1, <1>2, <1>3, <1>4, <1>5 DEF SleepInv

(* mi_switch returns. *)
LEMMA ResumeStep ==
    ASSUME SleepInv, NEW td \in Threads, Resume(td)
    PROVE  SleepInv'
<1>1. TypeOK'
  BY DEF TypeOK, PcValues, Flags, SleepInv, Resume, SchedLockFree, Goto, queueVars, argVars
<1>2. LocksHeld'
  BY SleepAssumption DEF LocksHeld, TypeOK, SleepInv, Resume, SchedLockFree, Goto, queueVars, argVars
<1>3. QueuesAgree'
  BY QueuesStand DEF SleepInv, Resume, SchedLockFree, Goto, queueVars, argVars
<1>4. NobodyForgotten'
  BY ForgetsNobody DEF Going, TypeOK, SleepInv, Resume, SchedLockFree, Goto, queueVars, argVars
<1>5. ASSUME NEW o \in Threads PROVE ThreadOK(o)'
  <2>1. CASE o = td
    <3>1. /\ TypeOK /\ ThreadOK(td) /\ pc[td] \in {"asleep", "resync"} /\ td_state[td] = "runq"
      BY DEF SleepInv, Resume, SchedLockFree, Goto, queueVars, argVars
    <3>2. /\ pc'[td] = IF pc[td] = "asleep" THEN "awake" ELSE "resynced"
          /\ td_state'[td] = "running"
          /\ td_wchan'[td] = td_wchan[td] /\ td_flags'[td] = td_flags[td]
          /\ td_slpcallout'[td] = td_slpcallout[td] /\ chan'[td] = chan[td]
          /\ timo'[td] = timo[td] /\ catch'[td] = catch[td] /\ sig'[td] = sig[td]
          /\ rval'[td] = rval[td] /\ cause'[td] = cause[td] /\ signal' = signal
      BY DEF SleepInv, TypeOK, Resume, SchedLockFree, Goto, queueVars, argVars
    <3>3. QueueState(td)'
      BY <3>1, <3>2, SleepAssumption DEF ThreadOK, QueueState, TimeoutState, TypeOK, Chans
    <3>4. TimeoutState(td)'
      BY <3>1, <3>2, SleepAssumption DEF ThreadOK, QueueState, TimeoutState, TypeOK, Chans, Flags
    <3>5. ResultState(td)'
      BY <3>1, <3>2, SleepAssumption DEF ThreadOK, QueueState, TimeoutState, ResultState, TypeOK, Chans
    <3> QED BY <2>1, <3>3, <3>4, <3>5 DEF ThreadOK
  <2>2. CASE o # td
    BY <2>2, OthersStand DEF TypeOK, SleepInv, Resume, SchedLockFree, Goto, queueVars, argVars
  <2> QED BY <2>1, <2>2
<1> QED BY <1>1, <1>2, <1>3, <1>4, <1>5 DEF SleepInv

-----------------------------------------------------------------------------
(* Awake again. *)

(* An awake thread has at most one flag of its timeout, and the flags that *)
(* are cleared on each of the ways out are all that were set.              *)
LEMMA AwakeFlags ==
    ASSUME TypeOK, NEW td \in Threads, ThreadOK(td), pc[td] = "awake"
    PROVE  /\ "TIMEOUT" \in td_flags[td] =>
                td_flags[td] \ {"SINTR", "TIMEOUT"} = {} /\ td_slpcallout[td] = "off"
           /\ "TIMEOUT" \notin td_flags[td] /\ "TIMOFAIL" \in td_flags[td] =>
                td_flags[td] \ {"SINTR", "TIMOFAIL"} = {} /\ td_slpcallout[td] = "off"
           /\ td_flags[td] \cap {"TIMEOUT", "TIMOFAIL"} = {} =>
                td_flags[td] \ {"SINTR"} = {} /\ (timo[td] <=> td_slpcallout[td] # "off")
<1>1. td_wchan[td] = Null /\ "CVWAITQ" \notin td_flags[td]
  BY SleepAssumption DEF ThreadOK, QueueState
<1>2. \A f \in td_flags[td] : f \in {"SINTR", "TIMEOUT", "TIMOFAIL"}
  <2>1. td_flags[td] \subseteq {"SINTR", "TIMEOUT", "TIMOFAIL", "CVWAITQ"}
    BY DEF TypeOK, Flags
  <2> QED BY <1>1, <2>1
<1>3. ~ ("TIMEOUT" \in td_flags[td] /\ "TIMOFAIL" \in td_flags[td])
  <2>1. td_flags[td] \cap {"TIMEOUT", "TIMOFAIL"} # {"TIMEOUT", "TIMOFAIL"}
    BY DEF ThreadOK, TimeoutState
  <2> QED BY <2>1
<1>4. /\ ~timo[td] => td_slpcallout[td] = "off"
      /\ td_flags[td] \cap {"TIMEOUT", "TIMOFAIL"} = {} <=> (timo[td] => td_slpcallout[td] # "off")
  BY DEF ThreadOK, TimeoutState
<1> QED BY <1>2, <1>3, <1>4

(* The timeout came first. *)
LEMMA TimedOutStep ==
    ASSUME SleepInv, NEW td \in Threads, pc[td] = "awake", TimedOut(td),
           UNCHANGED <<slpque, cv_waitq, td_wchan, cause, signal, mtx, ready, chan, timo, catch, sig>>
    PROVE  SleepInv'
<1>1. TypeOK'
  BY DEF TypeOK, PcValues, Flags, SleepInv, TimedOut, Goto
<1>2. LocksHeld'
  BY SleepAssumption DEF LocksHeld, TypeOK, SleepInv, TimedOut, Goto
<1>3. QueuesAgree'
  BY QueuesStand DEF SleepInv, TimedOut, Goto
<1>4. NobodyForgotten'
  BY ForgetsNobody DEF Going, TypeOK, SleepInv, TimedOut, Goto
<1>5. ASSUME NEW o \in Threads PROVE ThreadOK(o)'
  <2>1. CASE o = td
    <3>1. /\ TypeOK /\ ThreadOK(td) /\ pc[td] = "awake" /\ "TIMEOUT" \in td_flags[td]
      BY DEF SleepInv, TimedOut, Goto
    <3>2. /\ pc'[td] = "out"
          /\ td_flags'[td] = td_flags[td] \ {"SINTR", "TIMEOUT"}
          /\ rval'[td] = IF sig[td] /\ chan[td] \in Idents THEN rval[td] ELSE "EWOULDBLOCK"
          /\ td_wchan'[td] = td_wchan[td] /\ td_state'[td] = td_state[td]
          /\ td_slpcallout'[td] = td_slpcallout[td] /\ chan'[td] = chan[td]
          /\ timo'[td] = timo[td] /\ catch'[td] = catch[td] /\ sig'[td] = sig[td]
          /\ cause'[td] = cause[td] /\ signal' = signal
      BY DEF SleepInv, TypeOK, TimedOut, Goto
    <3>3. td_flags'[td] = {}
      BY <3>1, <3>2, AwakeFlags
    <3>4. QueueState(td)'
      BY <3>1, <3>2, <3>3, SleepAssumption DEF ThreadOK, QueueState, TimeoutState, TypeOK, Chans
    <3>5. TimeoutState(td)'
      BY <3>1, <3>2, <3>3, AwakeFlags DEF TimeoutState, TypeOK
    <3>6. ResultState(td)'
      BY <3>1, <3>2, <3>3, SleepAssumption DEF ThreadOK, QueueState, TimeoutState, ResultState, TypeOK, Chans
    <3> QED BY <2>1, <3>4, <3>5, <3>6 DEF ThreadOK
  <2>2. CASE o # td
    BY <2>2, OthersStand DEF TypeOK, SleepInv, TimedOut, Goto
  <2> QED BY <2>1, <2>2
<1> QED BY <1>1, <1>2, <1>3, <1>4, <1>5 DEF SleepInv

(* It came after something else. *)
LEMMA TimeoutCameLateStep ==
    ASSUME SleepInv, NEW td \in Threads, pc[td] = "awake", TimeoutCameLate(td),
           UNCHANGED <<slpque, cv_waitq, td_wchan, cause, signal, mtx, ready, chan, timo, catch, sig>>
    PROVE  SleepInv'
<1>1. TypeOK'
  BY DEF TypeOK, PcValues, Flags, SleepInv, TimeoutCameLate, Goto
<1>2. LocksHeld'
  BY SleepAssumption DEF LocksHeld, TypeOK, SleepInv, TimeoutCameLate, Goto
<1>3. QueuesAgree'
  BY QueuesStand DEF SleepInv, TimeoutCameLate, Goto
<1>4. NobodyForgotten'
  BY ForgetsNobody DEF Going, TypeOK, SleepInv, TimeoutCameLate, Goto
<1>5. ASSUME NEW o \in Threads PROVE ThreadOK(o)'
  <2>1. CASE o = td
    <3>1. /\ TypeOK /\ ThreadOK(td) /\ pc[td] = "awake" /\ "TIMEOUT" \notin td_flags[td] /\ "TIMOFAIL" \in td_flags[td]
      BY DEF SleepInv, TimeoutCameLate, Goto
    <3>2. /\ pc'[td] = "out"
          /\ td_flags'[td] = td_flags[td] \ {"SINTR", "TIMOFAIL"}
          /\ td_wchan'[td] = td_wchan[td] /\ td_state'[td] = td_state[td]
          /\ td_slpcallout'[td] = td_slpcallout[td] /\ chan'[td] = chan[td]
          /\ timo'[td] = timo[td] /\ catch'[td] = catch[td] /\ sig'[td] = sig[td]
          /\ rval'[td] = rval[td] /\ cause'[td] = cause[td] /\ signal' = signal
      BY DEF SleepInv, TypeOK, TimeoutCameLate, Goto
    <3>3. td_flags'[td] = {}
      BY <3>1, <3>2, AwakeFlags
    <3>4. QueueState(td)'
      BY <3>1, <3>2, <3>3, SleepAssumption DEF ThreadOK, QueueState, TimeoutState, TypeOK, Chans
    <3>5. TimeoutState(td)'
      BY <3>1, <3>2, <3>3, AwakeFlags DEF TimeoutState, TypeOK
    <3>6. ResultState(td)'
      BY <3>1, <3>2, <3>3, SleepAssumption DEF ThreadOK, QueueState, TimeoutState, ResultState, TypeOK, Chans
    <3> QED BY <2>1, <3>4, <3>5, <3>6 DEF ThreadOK
  <2>2. CASE o # td
    BY <2>2, OthersStand DEF TypeOK, SleepInv, TimeoutCameLate, Goto
  <2> QED BY <2>1, <2>2
<1> QED BY <1>1, <1>2, <1>3, <1>4, <1>5 DEF SleepInv

(* It has not come, or was never asked for. *)
LEMMA StopTimeoutStep ==
    ASSUME SleepInv, NEW td \in Threads, pc[td] = "awake", StopTimeout(td),
           UNCHANGED <<slpque, cv_waitq, td_wchan, cause, signal, mtx, ready, chan, timo, catch, sig>>
    PROVE  SleepInv'
<1>1. TypeOK'
  BY DEF TypeOK, PcValues, Flags, SleepInv, StopTimeout, Goto, TooLateToStop
<1>2. LocksHeld'
  BY SleepAssumption DEF LocksHeld, TypeOK, SleepInv, StopTimeout, Goto, TooLateToStop
<1>3. QueuesAgree'
  BY QueuesStand DEF SleepInv, StopTimeout, Goto, TooLateToStop
<1>4. NobodyForgotten'
  BY ForgetsNobody DEF Going, TypeOK, SleepInv, StopTimeout, Goto, TooLateToStop
<1>5. ASSUME NEW o \in Threads PROVE ThreadOK(o)'
  <2>1. CASE o = td
    <3>1. /\ TypeOK /\ ThreadOK(td) /\ pc[td] = "awake" /\ td_flags[td] \cap {"TIMEOUT", "TIMOFAIL"} = {} /\ (timo[td] => td_slpcallout[td] = "pending")
      BY DEF SleepInv, StopTimeout, Goto, TooLateToStop
    <3>2. /\ pc'[td] = "out"
          /\ td_flags'[td] = td_flags[td] \ {"SINTR"}
          /\ td_slpcallout'[td] = IF td_slpcallout[td] = "pending" THEN "off" ELSE td_slpcallout[td]
          /\ td_wchan'[td] = td_wchan[td] /\ td_state'[td] = td_state[td]
          /\ chan'[td] = chan[td] /\ timo'[td] = timo[td] /\ catch'[td] = catch[td]
          /\ sig'[td] = sig[td] /\ rval'[td] = rval[td] /\ cause'[td] = cause[td]
          /\ signal' = signal
      BY DEF SleepInv, TypeOK, StopTimeout, Goto, TooLateToStop
    <3>3. td_flags'[td] = {}
      BY <3>1, <3>2, AwakeFlags
    <3>4. QueueState(td)'
      BY <3>1, <3>2, <3>3, SleepAssumption DEF ThreadOK, QueueState, TimeoutState, TypeOK, Chans
    <3>5. TimeoutState(td)'
      BY <3>1, <3>2, <3>3, AwakeFlags DEF TimeoutState, TypeOK
    <3>6. ResultState(td)'
      BY <3>1, <3>2, <3>3, SleepAssumption DEF ThreadOK, QueueState, TimeoutState, ResultState, TypeOK, Chans
    <3> QED BY <2>1, <3>4, <3>5, <3>6 DEF ThreadOK
  <2>2. CASE o # td
    BY <2>2, OthersStand DEF TypeOK, SleepInv, StopTimeout, Goto, TooLateToStop
  <2> QED BY <2>1, <2>2
<1> QED BY <1>1, <1>2, <1>3, <1>4, <1>5 DEF SleepInv

(* It is about to run: sleep until it has. *)
LEMMA WaitForTimeoutStep ==
    ASSUME SleepInv, NEW td \in Threads, pc[td] = "awake", WaitForTimeout(td),
           UNCHANGED <<slpque, cv_waitq, td_wchan, cause, signal, mtx, ready, chan, timo, catch, sig>>
    PROVE  SleepInv'
<1>1. TypeOK'
  BY DEF TypeOK, PcValues, Flags, SleepInv, WaitForTimeout, Goto, TooLateToStop
<1>2. LocksHeld'
  BY SleepAssumption DEF LocksHeld, TypeOK, SleepInv, WaitForTimeout, Goto, TooLateToStop
<1>3. QueuesAgree'
  BY QueuesStand DEF SleepInv, WaitForTimeout, Goto, TooLateToStop
<1>4. NobodyForgotten'
  BY ForgetsNobody DEF Going, TypeOK, SleepInv, WaitForTimeout, Goto, TooLateToStop
<1>5. ASSUME NEW o \in Threads PROVE ThreadOK(o)'
  <2>1. CASE o = td
    <3>1. /\ TypeOK /\ ThreadOK(td) /\ pc[td] = "awake" /\ td_flags[td] \cap {"TIMEOUT", "TIMOFAIL"} = {} /\ timo[td] /\ td_slpcallout[td] # "pending"
      BY DEF SleepInv, WaitForTimeout, Goto, TooLateToStop
    <3>2. /\ pc'[td] = "resync"
          /\ td_flags'[td] = td_flags[td] \ {"SINTR"}
          /\ td_state'[td] = "sleeping"
          /\ td_wchan'[td] = td_wchan[td] /\ td_slpcallout'[td] = td_slpcallout[td]
          /\ chan'[td] = chan[td] /\ timo'[td] = timo[td] /\ catch'[td] = catch[td]
          /\ sig'[td] = sig[td] /\ rval'[td] = rval[td] /\ cause'[td] = cause[td]
          /\ signal' = signal
      BY DEF SleepInv, TypeOK, WaitForTimeout, Goto, TooLateToStop
    <3>3. td_flags'[td] = {}
      BY <3>1, <3>2, AwakeFlags
    <3>4. QueueState(td)'
      BY <3>1, <3>2, <3>3, SleepAssumption DEF ThreadOK, QueueState, TimeoutState, TypeOK, Chans
    <3>5. TimeoutState(td)'
      BY <3>1, <3>2, <3>3, AwakeFlags DEF TimeoutState, TypeOK
    <3>6. ResultState(td)'
      BY <3>1, <3>2, <3>3, SleepAssumption DEF ThreadOK, QueueState, TimeoutState, ResultState, TypeOK, Chans
    <3> QED BY <2>1, <3>4, <3>5, <3>6 DEF ThreadOK
  <2>2. CASE o # td
    BY <2>2, OthersStand DEF TypeOK, SleepInv, WaitForTimeout, Goto, TooLateToStop
  <2> QED BY <2>1, <2>2
<1> QED BY <1>1, <1>2, <1>3, <1>4, <1>5 DEF SleepInv

(* The timeout has run. *)
LEMMA ResyncedStep ==
    ASSUME SleepInv, NEW td \in Threads, Resynced(td)
    PROVE  SleepInv'
<1>1. TypeOK'
  BY DEF TypeOK, PcValues, Flags, SleepInv, Resynced, Goto, argVars
<1>2. LocksHeld'
  BY SleepAssumption DEF LocksHeld, TypeOK, SleepInv, Resynced, Goto, argVars
<1>3. QueuesAgree'
  BY QueuesStand DEF SleepInv, Resynced, Goto, argVars
<1>4. NobodyForgotten'
  BY ForgetsNobody DEF Going, TypeOK, SleepInv, Resynced, Goto, argVars
<1>5. ASSUME NEW o \in Threads PROVE ThreadOK(o)'
  <2>1. CASE o = td
    <3>1. /\ TypeOK /\ ThreadOK(td) /\ pc[td] = "resynced"
      BY DEF SleepInv, Resynced, Goto, argVars
    <3>2. /\ pc'[td] = "out"
          /\ td_flags'[td] = td_flags[td] \ {"TIMOFAIL"}
          /\ td_wchan'[td] = td_wchan[td] /\ td_state'[td] = td_state[td]
          /\ td_slpcallout'[td] = td_slpcallout[td] /\ chan'[td] = chan[td]
          /\ timo'[td] = timo[td] /\ catch'[td] = catch[td] /\ sig'[td] = sig[td]
          /\ rval'[td] = rval[td] /\ cause'[td] = cause[td] /\ signal' = signal
      BY DEF SleepInv, TypeOK, Resynced, Goto, argVars
    <3>3. QueueState(td)'
      BY <3>1, <3>2, SleepAssumption DEF ThreadOK, QueueState, TimeoutState, TypeOK, Chans
    <3>4. TimeoutState(td)'
      BY <3>1, <3>2, SleepAssumption DEF ThreadOK, QueueState, TimeoutState, TypeOK, Chans, Flags
    <3>5. ResultState(td)'
      BY <3>1, <3>2, SleepAssumption DEF ThreadOK, QueueState, TimeoutState, ResultState, TypeOK, Chans
    <3> QED BY <2>1, <3>3, <3>4, <3>5 DEF ThreadOK
  <2>2. CASE o # td
    BY <2>2, OthersStand DEF TypeOK, SleepInv, Resynced, Goto, argVars
  <2> QED BY <2>1, <2>2
<1> QED BY <1>1, <1>2, <1>3, <1>4, <1>5 DEF SleepInv

(* out: the result is settled. *)
LEMMA OutStep ==
    ASSUME SleepInv, NEW td \in Threads, Out(td)
    PROVE  SleepInv'
<1>1. TypeOK'
  BY DEF TypeOK, PcValues, Flags, SleepInv, Out, Goto, queueVars
<1>2. LocksHeld'
  BY SleepAssumption DEF LocksHeld, TypeOK, SleepInv, Out, Goto, queueVars
<1>3. QueuesAgree'
  BY QueuesStand DEF SleepInv, Out, Goto, queueVars
<1>4. NobodyForgotten'
  BY ForgetsNobody DEF Going, TypeOK, SleepInv, Out, Goto, queueVars
<1>5. ASSUME NEW o \in Threads PROVE ThreadOK(o)'
  <2>1. CASE o = td
    <3>1. /\ TypeOK /\ ThreadOK(td) /\ pc[td] = "out"
      BY DEF SleepInv, Out, Goto, queueVars
    <3>2. /\ pc'[td] = "relock"
          /\ rval'[td] = IF catch[td] /\ (sig[td] \/ td \in signal) /\ (chan[td] \in CVs \/ rval[td] = "0")
                        THEN "EINTR" ELSE rval[td]
          /\ chan'[td] = Null
          /\ timo'[td] = FALSE
          /\ catch'[td] = FALSE
          /\ sig'[td] = FALSE
          /\ td_wchan'[td] = td_wchan[td] /\ td_flags'[td] = td_flags[td]
          /\ td_state'[td] = td_state[td] /\ td_slpcallout'[td] = td_slpcallout[td]
          /\ cause'[td] = cause[td] /\ signal' = signal
      BY DEF SleepInv, TypeOK, Out, Goto, queueVars
    <3>3. QueueState(td)'
      BY <3>1, <3>2, SleepAssumption DEF ThreadOK, QueueState, TimeoutState, TypeOK, Chans
    <3>4. TimeoutState(td)'
      BY <3>1, <3>2, SleepAssumption DEF ThreadOK, QueueState, TimeoutState, TypeOK, Chans, Flags
    <3>5. ResultState(td)'
      BY <3>1, <3>2, SleepAssumption DEF ThreadOK, QueueState, TimeoutState, ResultState, TypeOK, Chans
    <3> QED BY <2>1, <3>3, <3>4, <3>5 DEF ThreadOK
  <2>2. CASE o # td
    BY <2>2, OthersStand DEF TypeOK, SleepInv, Out, Goto, queueVars
  <2> QED BY <2>1, <2>2
<1> QED BY <1>1, <1>2, <1>3, <1>4, <1>5 DEF SleepInv

(* relock: back with the mutex. *)
LEMMA RelockStep ==
    ASSUME SleepInv, NEW td \in Threads, Relock(td)
    PROVE  SleepInv'
<1>1. TypeOK'
  BY DEF TypeOK, PcValues, Flags, SleepInv, Relock, Goto
<1>2. LocksHeld'
  BY SleepAssumption DEF LocksHeld, TypeOK, SleepInv, Relock, Goto
<1>3. QueuesAgree'
  BY QueuesStand DEF SleepInv, Relock, Goto
<1>4. NobodyForgotten'
  BY ForgetsNobody DEF Going, TypeOK, SleepInv, Relock, Goto
<1>5. ASSUME NEW o \in Threads PROVE ThreadOK(o)'
  <2>1. CASE o = td
    <3>1. /\ TypeOK /\ ThreadOK(td) /\ pc[td] = "relock"
      BY DEF SleepInv, Relock, Goto
    <3>2. /\ pc'[td] = "own"
          /\ rval'[td] = "0"
          /\ cause'[td] = "none"
          /\ td_wchan'[td] = td_wchan[td] /\ td_flags'[td] = td_flags[td]
          /\ td_state'[td] = td_state[td] /\ td_slpcallout'[td] = td_slpcallout[td]
          /\ chan'[td] = chan[td] /\ timo'[td] = timo[td] /\ catch'[td] = catch[td]
          /\ sig'[td] = sig[td] /\ signal' = signal
      BY DEF SleepInv, TypeOK, Relock, Goto
    <3>3. QueueState(td)'
      BY <3>1, <3>2, SleepAssumption DEF ThreadOK, QueueState, TimeoutState, TypeOK, Chans
    <3>4. TimeoutState(td)'
      BY <3>1, <3>2, SleepAssumption DEF ThreadOK, QueueState, TimeoutState, TypeOK, Chans, Flags
    <3>5. ResultState(td)'
      BY <3>1, <3>2, SleepAssumption DEF ThreadOK, QueueState, TimeoutState, ResultState, TypeOK, Chans
    <3> QED BY <2>1, <3>3, <3>4, <3>5 DEF ThreadOK
  <2>2. CASE o # td
    BY <2>2, OthersStand DEF TypeOK, SleepInv, Relock, Goto
  <2> QED BY <2>1, <2>2
<1> QED BY <1>1, <1>2, <1>3, <1>4, <1>5 DEF SleepInv

-----------------------------------------------------------------------------
(* Timeouts and signals. *)

(* softclock takes the callout. *)
LEMMA ExpireStep ==
    ASSUME SleepInv, NEW td \in Threads, Expire(td)
    PROVE  SleepInv'
<1>1. TypeOK'
  BY DEF TypeOK, PcValues, Flags, SleepInv, Expire, queueVars, argVars
<1>2. LocksHeld'
  BY SleepAssumption DEF LocksHeld, TypeOK, SleepInv, Expire, queueVars, argVars
<1>3. QueuesAgree'
  BY QueuesStand DEF SleepInv, Expire, queueVars, argVars
<1>4. NobodyForgotten'
  BY ForgetsNobody DEF Going, TypeOK, SleepInv, Expire, queueVars, argVars
<1>5. ASSUME NEW o \in Threads PROVE ThreadOK(o)'
  <2>1. CASE o = td
    <3>1. /\ TypeOK /\ ThreadOK(td) /\ td_slpcallout[td] = "pending"
      BY DEF SleepInv, Expire, queueVars, argVars
    <3>2. /\ td_slpcallout'[td] = "called"
          /\ td_wchan'[td] = td_wchan[td] /\ td_flags'[td] = td_flags[td]
          /\ td_state'[td] = td_state[td] /\ chan'[td] = chan[td] /\ timo'[td] = timo[td]
          /\ catch'[td] = catch[td] /\ sig'[td] = sig[td] /\ rval'[td] = rval[td]
          /\ cause'[td] = cause[td] /\ signal' = signal /\ pc'[td] = pc[td]
      BY DEF SleepInv, TypeOK, Expire, queueVars, argVars
    <3>3. QueueState(td)'
      BY <3>1, <3>2, SleepAssumption DEF ThreadOK, QueueState, TimeoutState, TypeOK, Chans
    <3>4. TimeoutState(td)'
      BY <3>1, <3>2, SleepAssumption DEF ThreadOK, QueueState, TimeoutState, TypeOK, Chans, Flags
    <3>5. ResultState(td)'
      BY <3>1, <3>2, SleepAssumption DEF ThreadOK, QueueState, TimeoutState, ResultState, TypeOK, Chans
    <3> QED BY <2>1, <3>3, <3>4, <3>5 DEF ThreadOK
  <2>2. CASE o # td
    BY <2>2, OthersStand DEF TypeOK, SleepInv, Expire, queueVars, argVars
  <2> QED BY <2>1, <2>2
<1> QED BY <1>1, <1>2, <1>3, <1>4, <1>5 DEF SleepInv

(* wakeup, wakeup_one and their like: the threads in S, which all are on   *)
(* queues, go.                                                             *)
LEMMA WokenThreads ==
    ASSUME SleepInv, NEW S \in SUBSET Threads, \A o \in S : td_wchan[o] # Null,
           Wake(S), UNCHANGED <<td_slpcallout, signal, timo, catch, sig, rval>>,
           \A o \in S : pc'[o] = pc[o] /\ chan'[o] = chan[o],
           NEW o \in S
    PROVE  ThreadOK(o)'
<1>1. TypeOK /\ QueuesAgree /\ ThreadOK(o) /\ o \in Threads
  BY DEF SleepInv
<1>2. td_wchan'[o] = Null /\ cause'[o] = "wakeup"
  BY <1>1, RemovalKeepsQueues DEF Wake
<1>3. /\ td_flags'[o] = td_flags[o] \ {"CVWAITQ"}
      /\ td_state'[o] = IF td_state[o] = "sleeping" THEN "runq" ELSE td_state[o]
  BY <1>1 DEF Wake, Unqueued, Setrunnable
<1>4. /\ pc'[o] = pc[o] /\ chan'[o] = chan[o] /\ td_slpcallout'[o] = td_slpcallout[o]
      /\ timo'[o] = timo[o] /\ catch'[o] = catch[o] /\ sig'[o] = sig[o] /\ rval'[o] = rval[o]
      /\ signal' = signal
  OBVIOUS
<1>5. pc[o] \in {"catch", "asleep"} /\ cause[o] = "none" /\ td_wchan[o] # Null
  BY <1>1 DEF ThreadOK, QueueState
<1>6. QueueState(o)'
  BY <1>1, <1>2, <1>3, <1>4, <1>5, SleepAssumption DEF ThreadOK, QueueState, TypeOK, Chans
<1>7. TimeoutState(o)'
  <2>1. td_flags'[o] \cap {"TIMEOUT", "TIMOFAIL"} = td_flags[o] \cap {"TIMEOUT", "TIMOFAIL"}
    BY <1>3
  <2> QED BY <1>1, <1>2, <1>4, <1>5, <2>1 DEF ThreadOK, TimeoutState
<1>8. ResultState(o)'
  BY <1>1, <1>2, <1>3, <1>4, <1>5 DEF ThreadOK, ResultState
<1> QED BY <1>6, <1>7, <1>8 DEF ThreadOK

(* What a wakeup of the threads in S changes, and that it changes nothing  *)
(* of any other thread.                                                    *)
LEMMA WakeTypes ==
    ASSUME SleepInv, NEW S \in SUBSET Threads, Wake(S)
    PROVE  /\ slpque' \in [Buckets -> Seq(Threads)] /\ cv_waitq' \in [CVs -> Seq(Threads)]
           /\ td_wchan' \in [Threads -> Chans \cup {Null}]
           /\ td_flags' \in [Threads -> SUBSET Flags]
           /\ td_state' \in [Threads -> {"running", "sleeping", "runq"}]
           /\ cause' \in [Threads -> {"none", "wakeup", "timeout", "abort"}]
           /\ QueuesAgree'
           /\ \A o \in Threads : td_wchan'[o] = IF o \in S THEN Null ELSE td_wchan[o]
           /\ \A o \in Threads \ S : td_flags'[o] = td_flags[o] /\ td_state'[o] = td_state[o]
                                     /\ cause'[o] = cause[o]
<1>1. TypeOK /\ QueuesAgree
  BY DEF SleepInv
<1>2. td_flags' \in [Threads -> SUBSET Flags] /\ td_state' \in [Threads -> {"running", "sleeping", "runq"}]
  BY <1>1 DEF Wake, Unqueued, Setrunnable, TypeOK
<1>3. \A o \in Threads \ S : td_flags'[o] = td_flags[o] /\ td_state'[o] = td_state[o]
  BY DEF Wake, Unqueued, Setrunnable
<1> QED BY <1>1, <1>2, <1>3, RemovalKeepsQueues DEF Wake

(* wakeup, cv_broadcast: all that sleep on the channel go, so that the     *)
(* poster may forget about it.                                             *)
LEMMA WakeupStep ==
    ASSUME SleepInv, NEW td \in Threads, Wakeup(td)
    PROVE  SleepInv'
<1> DEFINE S == ToSet(Sleepers(chan[td]))
<1>1. chan[td] \in Chans /\ pc[td] = "post"
  BY DEF SleepInv, ThreadOK, QueueState, TypeOK, Wakeup
<1>2. S = {o \in Threads : td_wchan[o] = chan[td]}
  BY <1>1, SleepersFound DEF SleepInv
<1>3. S \in SUBSET Threads /\ \A o \in S : td_wchan[o] # Null /\ o # td
  BY <1>1, <1>2, SleepAssumption DEF Chans, SleepInv, ThreadOK, QueueState
<1>4. Wake(S)
  BY DEF Wakeup
<1> HIDE DEF S
<1>5. TypeOK'
  BY <1>3, <1>4, WakeTypes DEF SleepInv, TypeOK, PcValues, Wakeup, Goto
<1>6. LocksHeld'
  BY SleepAssumption DEF LocksHeld, TypeOK, SleepInv, Wakeup, Goto
<1>7. QueuesAgree'
  BY <1>3, <1>4, WakeTypes
<1>8. NobodyForgotten'
  <2> SUFFICES ASSUME NEW o \in Threads, Going(o)' \in ready'
               PROVE  FALSE
    BY DEF NobodyForgotten
  <2>1. pc[o] \notin {"drop", "enqueue"}
    BY SleepAssumption DEF SleepInv, LocksHeld, Wakeup, SchedLockFree
  <2>2. Going(o)' = td_wchan'[o] /\ Going(o) = td_wchan[o]
    BY <2>1, <1>1 DEF Going, SleepInv, TypeOK, Wakeup, Goto
  <2>3. o \notin S /\ td_wchan'[o] = td_wchan[o]
    BY <2>2, <1>3, <1>4, WakeTypes, SleepAssumption DEF SleepInv, TypeOK, Wakeup, Chans
  <2>4. PICK p \in Threads : pc[p] = "post" /\ chan[p] = td_wchan[o]
    BY <2>2, <2>3 DEF SleepInv, NobodyForgotten, Wakeup
  <2>5. p = td
    BY <2>4, <1>1 DEF SleepInv, LocksHeld
  <2> QED BY <1>2, <2>3, <2>4, <2>5
<1>9. ASSUME NEW o \in Threads PROVE ThreadOK(o)'
  <2>1. CASE o = td
    <3>1. TypeOK /\ ThreadOK(td) /\ td \notin S
      BY <1>3 DEF SleepInv
    <3>2. /\ td_wchan'[td] = td_wchan[td] /\ td_flags'[td] = td_flags[td]
          /\ td_state'[td] = td_state[td] /\ cause'[td] = cause[td]
      BY <3>1, <1>3, <1>4, WakeTypes
    <3>3. /\ pc'[td] = "own" /\ chan'[td] = Null /\ td_slpcallout'[td] = td_slpcallout[td]
          /\ timo'[td] = timo[td] /\ catch'[td] = catch[td] /\ sig'[td] = sig[td]
          /\ rval'[td] = rval[td] /\ signal' = signal
      BY <3>1 DEF Wakeup, Goto, TypeOK
    <3> QED BY <2>1, <3>1, <3>2, <3>3, <1>1
            DEF ThreadOK, QueueState, TimeoutState, ResultState
  <2>2. CASE o \in S
    BY <2>2, <1>3, <1>4, WokenThreads DEF Wakeup, Goto, SleepInv, TypeOK
  <2>3. CASE o \notin S /\ o # td
    <3>1. /\ td_wchan'[o] = td_wchan[o] /\ td_flags'[o] = td_flags[o]
          /\ td_state'[o] = td_state[o] /\ cause'[o] = cause[o]
      BY <2>3, <1>3, <1>4, WakeTypes
    <3>2. /\ pc'[o] = pc[o] /\ chan'[o] = chan[o] /\ td_slpcallout'[o] = td_slpcallout[o]
          /\ timo'[o] = timo[o] /\ catch'[o] = catch[o] /\ sig'[o] = sig[o]
          /\ rval'[o] = rval[o] /\ signal' = signal
      BY <2>3 DEF Wakeup, Goto, SleepInv, TypeOK
    <3> QED BY <3>1, <3>2, OthersStand DEF SleepInv
  <2> QED BY <2>1, <2>2, <2>3
<1> QED BY <1>5, <1>6, <1>7, <1>8, <1>9 DEF SleepInv

(* wakeup_one, cv_signal: one of them goes.                                *)
LEMMA WakeupOneStep ==
    ASSUME SleepInv, NEW td \in Threads, NEW ch \in Chans, Wakeup_one(td, ch)
    PROVE  SleepInv'
<1> DEFINE S == {Head(Sleepers(ch))}
<1>1. /\ Sleepers(ch) \in Seq(Threads) /\ Sleepers(ch) # <<>>
      /\ ToSet(Sleepers(ch)) = {o \in Threads : td_wchan[o] = ch}
  BY SleepersFound DEF SleepInv, Wakeup_one
<1>2. Head(Sleepers(ch)) \in ToSet(Sleepers(ch))
  BY <1>1, HeadInQueue
<1>3. S \in SUBSET Threads /\ \A o \in S : td_wchan[o] # Null
  BY <1>1, <1>2, SleepAssumption DEF Chans
<1>4. Wake(S)
  BY DEF Wakeup_one
<1> HIDE DEF S
<1>5. TypeOK'
  BY <1>3, <1>4, WakeTypes DEF SleepInv, TypeOK, Wakeup_one, argVars
<1>6. LocksHeld'
  BY DEF LocksHeld, SleepInv, Wakeup_one
<1>7. QueuesAgree'
  BY <1>3, <1>4, WakeTypes
<1>8. NobodyForgotten'
  <2>1. ASSUME NEW o \in Threads, Going(o)' \in ready' PROVE Going(o)' = Going(o)
    <3>1. td_wchan'[o] = IF o \in S THEN Null ELSE td_wchan[o]
      BY <1>3, <1>4, WakeTypes
    <3>2. Null \notin ready' /\ chan' = chan /\ pc' = pc
      BY SleepAssumption DEF SleepInv, TypeOK, Chans, Wakeup_one, argVars
    <3> QED BY <2>1, <3>1, <3>2 DEF Going
  <2> QED BY <2>1, ForgetsNobody DEF SleepInv, Wakeup_one, argVars
<1>9. ASSUME NEW o \in Threads PROVE ThreadOK(o)'
  <2>1. CASE o \in S
    BY <2>1, <1>3, <1>4, WokenThreads DEF Wakeup_one, argVars
  <2>2. CASE o \notin S
    BY <2>2, <1>3, <1>4, WakeTypes, OthersStand DEF SleepInv, Wakeup_one, argVars
  <2> QED BY <2>1, <2>2
<1> QED BY <1>5, <1>6, <1>7, <1>8, <1>9 DEF SleepInv

-----------------------------------------------------------------------------
(* One thread leaves its queue by itself, by its timeout or by a signal. *)

(* RemovalKeepsQueues for a single thread. *)
LEMMA RemoveOne ==
    ASSUME SleepInv, NEW td \in Threads, NEW why \in {"wakeup", "timeout", "abort"},
           Remove_from_queue({td}, why)
    PROVE  /\ QueuesAgree'
           /\ slpque' \in [Buckets -> Seq(Threads)] /\ cv_waitq' \in [CVs -> Seq(Threads)]
           /\ td_wchan' \in [Threads -> Chans \cup {Null}]
           /\ cause' \in [Threads -> {"none", "wakeup", "timeout", "abort"}]
           /\ td_wchan'[td] = Null
           /\ cause'[td] = IF td_wchan[td] # Null THEN why ELSE cause[td]
           /\ \A o \in Threads \ {td} : td_wchan'[o] = td_wchan[o] /\ cause'[o] = cause[o]
<1>1. TypeOK /\ QueuesAgree /\ {td} \in SUBSET Threads
  BY DEF SleepInv
<1>2. \A o \in Threads :
         /\ td_wchan'[o] = IF o \in {td} THEN Null ELSE td_wchan[o]
         /\ cause'[o] = IF o \in {td} /\ td_wchan[o] # Null THEN why ELSE cause[o]
  BY <1>1, RemovalKeepsQueues
<1>3. /\ td_wchan'[td] = Null
      /\ cause'[td] = IF td_wchan[td] # Null THEN why ELSE cause[td]
      /\ \A o \in Threads \ {td} : td_wchan'[o] = td_wchan[o] /\ cause'[o] = cause[o]
  BY <1>2
<1> QED BY <1>1, <1>3, RemovalKeepsQueues

(* catch: a signal is pending, so that the thread does not sleep. *)
LEMMA CatchSignalStep ==
    ASSUME SleepInv, NEW td \in Threads,
           pc[td] = "catch", SchedLockFree, td \in signal,
           sig' = [sig EXCEPT ![td] = td \in signal],
           Remove_from_queue({td}, "abort"), td_flags' = Unqueued({td}),
           sched_lock' = td, Goto(td, "awake"), UNCHANGED <<td_state, catch>>,
           UNCHANGED <<td_slpcallout, signal, mtx, ready, chan, timo, rval>>
    PROVE  SleepInv'
<1>1. TypeOK'
  BY RemoveOne DEF SleepInv, TypeOK, PcValues, Goto, Unqueued
<1>2. LocksHeld'
  BY SleepAssumption DEF SleepInv, LocksHeld, TypeOK, Goto, SchedLockFree
<1>3. QueuesAgree'
  BY RemoveOne
<1>4. NobodyForgotten'
  <2>1. ASSUME NEW o \in Threads, Going(o)' \in ready' PROVE Going(o)' = Going(o)
    <3>1. td_wchan'[o] = IF o = td THEN Null ELSE td_wchan[o]
      BY RemoveOne
    <3>2. Null \notin ready' /\ chan' = chan
      BY SleepAssumption DEF SleepInv, TypeOK, Chans, Goto
    <3>3. pc'[o] \in {"drop", "enqueue"} <=> pc[o] \in {"drop", "enqueue"}
      BY DEF SleepInv, TypeOK, Goto
    <3> QED BY <2>1, <3>1, <3>2, <3>3 DEF Going
  <2> QED BY <2>1, ForgetsNobody DEF SleepInv, TypeOK, Goto
<1>5. ASSUME NEW o \in Threads PROVE ThreadOK(o)'
  <2>1. CASE o = td
    <3>1. /\ pc'[td] = "awake" /\ sig'[td] = TRUE /\ td_state'[td] = td_state[td]
          /\ td_slpcallout'[td] = td_slpcallout[td] /\ chan'[td] = chan[td]
          /\ timo'[td] = timo[td] /\ catch'[td] = catch[td] /\ rval'[td] = rval[td]
          /\ signal' = signal /\ td_flags'[td] = td_flags[td] \ {"CVWAITQ"}
      BY DEF SleepInv, TypeOK, Goto, Unqueued
    <3>2. td_wchan'[td] = Null /\ cause'[td] = IF td_wchan[td] # Null THEN "abort" ELSE cause[td]
      BY RemoveOne
    <3>3. TypeOK /\ ThreadOK(td)
      BY DEF SleepInv
    <3>4. td_flags'[td] \cap {"TIMEOUT", "TIMOFAIL"} = td_flags[td] \cap {"TIMEOUT", "TIMOFAIL"}
      BY <3>1
    <3>5. QueueState(td)'
      BY <3>1, <3>2, <3>3, SleepAssumption DEF ThreadOK, QueueState, Chans
    <3>6. TimeoutState(td)'
      BY <3>1, <3>2, <3>3, <3>4 DEF ThreadOK, QueueState, TimeoutState
    <3>7. ResultState(td)'
      BY <3>1, <3>2, <3>3 DEF ThreadOK, QueueState, ResultState
    <3> QED BY <2>1, <3>5, <3>6, <3>7 DEF ThreadOK
  <2>2. CASE o # td
    <3>1. td_wchan'[o] = td_wchan[o] /\ cause'[o] = cause[o]
      BY <2>2, RemoveOne
    <3>2. td_flags'[o] = td_flags[o] /\ sig'[o] = sig[o] /\ pc'[o] = pc[o]
      BY <2>2 DEF SleepInv, TypeOK, Goto, Unqueued
    <3> QED BY <3>1, <3>2, OthersStand DEF SleepInv
  <2> QED BY <2>1, <2>2
<1> QED BY <1>1, <1>2, <1>3, <1>4, <1>5 DEF SleepInv

(* endtsleep, cv_timedwait_end: a thread that was on its queue is told     *)
(* that it timed out, any other that its timeout came late.                *)
LEMMA EndtsleepStep ==
    ASSUME SleepInv, NEW td \in Threads, Endtsleep(td)
    PROVE  SleepInv'
<1>0. Remove_from_queue({td}, "timeout")
  BY DEF Endtsleep
<1>1. TypeOK'
  <2>1. td_state' \in [Threads -> {"running", "sleeping", "runq"}]
    BY DEF Endtsleep, Setrunnable, SleepInv, TypeOK
  <2>2. td_flags' \in [Threads -> SUBSET Flags]
    BY DEF Endtsleep, Unqueued, TimeoutFlag, SleepInv, TypeOK, Flags
  <2> QED BY <1>0, <2>1, <2>2, RemoveOne DEF SleepInv, TypeOK, Endtsleep, argVars
<1>2. LocksHeld'
  BY DEF SleepInv, LocksHeld, Endtsleep
<1>3. QueuesAgree'
  BY <1>0, RemoveOne
<1>4. NobodyForgotten'
  <2>1. ASSUME NEW o \in Threads, Going(o)' \in ready' PROVE Going(o)' = Going(o)
    <3>1. td_wchan'[o] = IF o = td THEN Null ELSE td_wchan[o]
      BY <1>0, RemoveOne
    <3>2. Null \notin ready' /\ chan' = chan
      BY SleepAssumption DEF SleepInv, TypeOK, Chans, Endtsleep, argVars
    <3>3. pc'[o] \in {"drop", "enqueue"} <=> pc[o] \in {"drop", "enqueue"}
      BY DEF SleepInv, TypeOK, Endtsleep, argVars
    <3> QED BY <2>1, <3>1, <3>2, <3>3 DEF Going
  <2> QED BY <2>1, ForgetsNobody DEF SleepInv, Endtsleep, argVars
<1>5. ASSUME NEW o \in Threads PROVE ThreadOK(o)'
  <2>1. CASE o = td
    <3>1. /\ td_flags'[td] = (td_flags[td] \ {"CVWAITQ"}) \cup
                               {IF td_wchan[td] # Null THEN "TIMEOUT" ELSE "TIMOFAIL"}
          /\ td_state'[td] = IF td_state[td] = "sleeping" THEN "runq" ELSE td_state[td]
          /\ td_slpcallout'[td] = "off"
          /\ pc'[td] = pc[td] /\ chan'[td] = chan[td] /\ timo'[td] = timo[td]
          /\ catch'[td] = catch[td] /\ sig'[td] = sig[td] /\ rval'[td] = rval[td]
          /\ signal' = signal
      BY DEF SleepInv, TypeOK, Endtsleep, Unqueued, Setrunnable, TimeoutFlag, TD_ON_SLEEPQ, argVars
    <3>2. td_wchan'[td] = Null /\ cause'[td] = IF td_wchan[td] # Null THEN "timeout" ELSE cause[td]
      BY <1>0, RemoveOne
    <3>3. TypeOK /\ ThreadOK(td) /\ td_slpcallout[td] = "called"
      BY DEF SleepInv, Endtsleep
    <3>4. pc[td] \in {"catch", "asleep", "resync"}
      <4>1. pc[td] # "awake"
        BY SleepAssumption DEF SleepInv, LocksHeld, Endtsleep, SchedLockFree
      <4> QED BY <3>3, <4>1 DEF ThreadOK, TimeoutState, TypeOK, PcValues
    <3>5. td_flags[td] \cap {"TIMEOUT", "TIMOFAIL"} = {}
      BY <3>3, <3>4 DEF ThreadOK, TimeoutState
    <3>6. td_flags'[td] \cap {"TIMEOUT", "TIMOFAIL"} =
            {IF td_wchan[td] # Null THEN "TIMEOUT" ELSE "TIMOFAIL"}
      BY <3>1, <3>5
    <3>7. QueueState(td)'
      BY <3>1, <3>2, <3>3, <3>4, SleepAssumption DEF ThreadOK, QueueState, Chans, TypeOK
    <3>8. TimeoutState(td)'
      <4>1. CASE pc[td] = "resync"
        <5>1. td_flags[td] = {} /\ td_wchan[td] = Null
          BY <3>3, <4>1 DEF ThreadOK, QueueState, TimeoutState
        <5>2. td_flags'[td] = {"TIMOFAIL"}
          BY <3>1, <5>1
        <5> QED BY <3>1, <4>1, <5>2 DEF TimeoutState
      <4>2. CASE pc[td] \in {"catch", "asleep"}
        <5>1. timo[td] /\ (td_wchan[td] = Null => cause[td] # "timeout")
          BY <3>3, <4>2, <3>5 DEF ThreadOK, TimeoutState, TypeOK
        <5>2. /\ td_flags'[td] \cap {"TIMEOUT", "TIMOFAIL"} # {"TIMEOUT", "TIMOFAIL"}
              /\ td_flags'[td] \cap {"TIMEOUT", "TIMOFAIL"} # {}
              /\ "TIMEOUT" \in td_flags'[td] \cap {"TIMEOUT", "TIMOFAIL"} <=> td_wchan[td] # Null
          BY <3>6
        <5> QED BY <3>1, <3>2, <4>2, <5>1, <5>2 DEF TimeoutState
      <4> QED BY <3>4, <4>1, <4>2
    <3>9. ResultState(td)'
      BY <3>1, <3>2, <3>3, <3>4 DEF ThreadOK, QueueState, TimeoutState, ResultState
    <3> QED BY <2>1, <3>7, <3>8, <3>9 DEF ThreadOK
  <2>2. CASE o # td
    <3>1. td_wchan'[o] = td_wchan[o] /\ cause'[o] = cause[o]
      BY <1>0, <2>2, RemoveOne
    <3>2. /\ td_flags'[o] = td_flags[o] /\ td_state'[o] = td_state[o]
          /\ td_slpcallout'[o] = td_slpcallout[o]
      BY <2>2 DEF SleepInv, TypeOK, Endtsleep, Unqueued, Setrunnable
    <3> QED BY <3>1, <3>2, OthersStand DEF SleepInv, Endtsleep, argVars
  <2> QED BY <2>1, <2>2
<1> QED BY <1>1, <1>2, <1>3, <1>4, <1>5 DEF SleepInv

(* abortsleep, cv_abort: a signal ends an interruptible sleep. *)
LEMMA AbortStep ==
    ASSUME SleepInv, NEW td \in Threads, SchedLockFree, MayAbort(td),
           signal' = signal \cup {td},
           Remove_from_queue({td}, "abort"), td_flags' = Unqueued({td}),
           td_state' = Setrunnable({td}),
           UNCHANGED <<td_slpcallout, sched_lock, mtx, ready, pc, argVars>>
    PROVE  SleepInv'
<1>1. TypeOK'
  <2>1. td_state' \in [Threads -> {"running", "sleeping", "runq"}]
    BY DEF Setrunnable, SleepInv, TypeOK
  <2>2. td_flags' \in [Threads -> SUBSET Flags]
    BY DEF Unqueued, SleepInv, TypeOK, Flags
  <2> QED BY <2>1, <2>2, RemoveOne DEF SleepInv, TypeOK, argVars
<1>2. LocksHeld'
  BY DEF SleepInv, LocksHeld
<1>3. QueuesAgree'
  BY RemoveOne
<1>4. NobodyForgotten'
  <2>1. ASSUME NEW o \in Threads, Going(o)' \in ready' PROVE Going(o)' = Going(o)
    <3>1. td_wchan'[o] = IF o = td THEN Null ELSE td_wchan[o]
      BY RemoveOne
    <3>2. Null \notin ready' /\ chan' = chan
      BY SleepAssumption DEF SleepInv, TypeOK, Chans, argVars
    <3> QED BY <2>1, <3>1, <3>2 DEF Going
  <2> QED BY <2>1, ForgetsNobody DEF SleepInv, argVars
<1>5. ASSUME NEW o \in Threads PROVE ThreadOK(o)'
  <2>1. CASE o = td
    <3>1. /\ td_flags'[td] = td_flags[td] \ {"CVWAITQ"}
          /\ td_state'[td] = IF td_state[td] = "sleeping" THEN "runq" ELSE td_state[td]
          /\ td_slpcallout'[td] = td_slpcallout[td]
          /\ pc'[td] = pc[td] /\ chan'[td] = chan[td] /\ timo'[td] = timo[td]
          /\ catch'[td] = catch[td] /\ sig'[td] = sig[td] /\ rval'[td] = rval[td]
          /\ td \in signal'
      BY DEF SleepInv, TypeOK, Unqueued, Setrunnable, argVars
    <3>2. td_wchan[td] # Null /\ "SINTR" \in td_flags[td]
      BY DEF MayAbort, TD_ON_SLEEPQ
    <3>3. td_wchan'[td] = Null /\ cause'[td] = "abort"
      BY <3>2, RemoveOne
    <3>4. TypeOK /\ ThreadOK(td)
      BY DEF SleepInv
    <3>5. pc[td] \in {"catch", "asleep"} /\ cause[td] = "none" /\ catch[td]
      BY <3>2, <3>4 DEF ThreadOK, QueueState, ResultState
    <3>6. td_flags'[td] \cap {"TIMEOUT", "TIMOFAIL"} = td_flags[td] \cap {"TIMEOUT", "TIMOFAIL"}
      BY <3>1
    <3>7. QueueState(td)'
      BY <3>1, <3>2, <3>3, <3>4, <3>5, SleepAssumption DEF ThreadOK, QueueState, Chans, TypeOK
    <3>8. TimeoutState(td)'
      BY <3>1, <3>3, <3>4, <3>5, <3>6 DEF ThreadOK, TimeoutState
    <3>9. ResultState(td)'
      BY <3>1, <3>3, <3>4, <3>5 DEF ThreadOK, ResultState
    <3> QED BY <2>1, <3>7, <3>8, <3>9 DEF ThreadOK
  <2>2. CASE o # td
    <3>1. td_wchan'[o] = td_wchan[o] /\ cause'[o] = cause[o]
      BY <2>2, RemoveOne
    <3>2. td_flags'[o] = td_flags[o] /\ td_state'[o] = td_state[o] /\ (o \in signal => o \in signal')
      BY <2>2 DEF SleepInv, TypeOK, Unqueued, Setrunnable
    <3> QED BY <3>1, <3>2, OthersStand DEF SleepInv, argVars
  <2> QED BY <2>1, <2>2
<1> QED BY <1>1, <1>2, <1>3, <1>4, <1>5 DEF SleepInv

(* tdsignal: abort the sleep, or leave the signal to be found. *)
LEMMA PostSignalStep ==
    ASSUME SleepInv, NEW td \in Threads, PostSignal(td)
    PROVE  SleepInv'
<1>1. CASE MayAbort(td) /\ Remove_from_queue({td}, "abort")
           /\ td_flags' = Unqueued({td}) /\ td_state' = Setrunnable({td})
  BY <1>1, AbortStep DEF PostSignal
<1>2. CASE UNCHANGED queueVars
  <2> USE <1>2
  <2>1. TypeOK'
    BY DEF SleepInv, TypeOK, PostSignal, queueVars, argVars
  <2>2. LocksHeld'
    BY DEF SleepInv, LocksHeld, PostSignal
  <2>3. QueuesAgree'
    BY QueuesStand DEF SleepInv, queueVars
  <2>4. NobodyForgotten'
    BY DEF SleepInv, NobodyForgotten, Going, PostSignal, queueVars, argVars
  <2>5. ASSUME NEW o \in Threads PROVE ThreadOK(o)'
    BY OthersStand DEF SleepInv, PostSignal, queueVars, argVars
  <2> QED BY <2>1, <2>2, <2>3, <2>4, <2>5 DEF SleepInv
<1> QED BY <1>1, <1>2 DEF PostSignal

-----------------------------------------------------------------------------
(* Onto the queue, and asleep. *)

(* msleep and cv_wait put the thread at the end of one queue. *)
LEMMA JoinKeepsQueues ==
    ASSUME TypeOK, QueuesAgree, NEW td \in Threads, NEW ch \in Chans, td_wchan[td] = Null,
           \/ /\ ch \in Idents
              /\ slpque' = [slpque EXCEPT ![LOOKUP[ch]] = Append(@, td)]
              /\ cv_waitq' = cv_waitq
           \/ /\ ch \in CVs
              /\ cv_waitq' = [cv_waitq EXCEPT ![ch] = Append(@, td)]
              /\ slpque' = slpque,
           td_wchan' = [td_wchan EXCEPT ![td] = ch]
    PROVE  /\ QueuesAgree'
           /\ slpque' \in [Buckets -> Seq(Threads)] /\ cv_waitq' \in [CVs -> Seq(Threads)]
<1>1. /\ slpque \in [Buckets -> Seq(Threads)] /\ cv_waitq \in [CVs -> Seq(Threads)]
      /\ \A o \in Threads : td_wchan'[o] = IF o = td THEN ch ELSE td_wchan[o]
      /\ td_wchan[td] \notin Idents /\ td_wchan[td] \notin CVs
  BY SleepAssumption DEF TypeOK
<1>2. \A q \in Seq(Threads) :
         /\ Append(q, td) \in Seq(Threads)
         /\ ToSet(Append(q, td)) = ToSet(q) \cup {td}
         /\ IsInjective(q) /\ td \notin ToSet(q) => IsInjective(Append(q, td))
  BY JoinTail
<1>3. ASSUME NEW b \in Buckets
      PROVE  /\ slpque'[b] \in Seq(Threads) /\ IsInjective(slpque'[b])
             /\ ToSet(slpque'[b]) =
                  {o \in Threads : td_wchan'[o] \in Idents /\ LOOKUP[td_wchan'[o]] = b}
  <2>1. /\ slpque[b] \in Seq(Threads) /\ IsInjective(slpque[b])
        /\ ToSet(slpque[b]) = {o \in Threads : td_wchan[o] \in Idents /\ LOOKUP[td_wchan[o]] = b}
        /\ td \notin ToSet(slpque[b])
    BY <1>1 DEF QueuesAgree
  <2>2. CASE ch \in Idents /\ b = LOOKUP[ch]
    <3>1. slpque'[b] = Append(slpque[b], td)
      BY <2>2, <1>1, SleepAssumption
    <3>2. {o \in Threads : td_wchan'[o] \in Idents /\ LOOKUP[td_wchan'[o]] = b} =
          {o \in Threads : td_wchan[o] \in Idents /\ LOOKUP[td_wchan[o]] = b} \cup {td}
      BY <2>2, <1>1
    <3> QED BY <1>2, <2>1, <3>1, <3>2
  <2>3. CASE ~ (ch \in Idents /\ b = LOOKUP[ch])
    <3>1. slpque'[b] = slpque[b]
      BY <2>3, <1>1, SleepAssumption
    <3>2. {o \in Threads : td_wchan'[o] \in Idents /\ LOOKUP[td_wchan'[o]] = b} =
          {o \in Threads : td_wchan[o] \in Idents /\ LOOKUP[td_wchan[o]] = b}
      BY <2>3, <1>1
    <3> QED BY <2>1, <3>1, <3>2
  <2> QED BY <2>2, <2>3
<1>4. ASSUME NEW cv \in CVs
      PROVE  /\ cv_waitq'[cv] \in Seq(Threads) /\ IsInjective(cv_waitq'[cv])
             /\ ToSet(cv_waitq'[cv]) = {o \in Threads : td_wchan'[o] = cv}
  <2>1. /\ cv_waitq[cv] \in Seq(Threads) /\ IsInjective(cv_waitq[cv])
        /\ ToSet(cv_waitq[cv]) = {o \in Threads : td_wchan[o] = cv}
        /\ td \notin ToSet(cv_waitq[cv])
    BY <1>1 DEF QueuesAgree
  <2>2. CASE ch = cv
    <3>1. cv_waitq'[cv] = Append(cv_waitq[cv], td)
      BY <2>2, <1>1, SleepAssumption
    <3>2. {o \in Threads : td_wchan'[o] = cv} = {o \in Threads : td_wchan[o] = cv} \cup {td}
      BY <2>2, <1>1
    <3> QED BY <1>2, <2>1, <3>1, <3>2
  <2>3. CASE ch # cv
    <3>1. cv_waitq'[cv] = cv_waitq[cv]
      BY <2>3, <1>1
    <3>2. {o \in Threads : td_wchan'[o] = cv} = {o \in Threads : td_wchan[o] = cv}
      BY <2>3, <1>1
    <3> QED BY <2>1, <3>1, <3>2
  <2> QED BY <2>2, <2>3
<1>5. slpque' \in [Buckets -> Seq(Threads)] /\ cv_waitq' \in [CVs -> Seq(Threads)]
  <2>1. slpque' = [b \in Buckets |-> slpque'[b]] /\ cv_waitq' = [cv \in CVs |-> cv_waitq'[cv]]
    BY <1>1
  <2> QED BY <2>1, <1>3, <1>4
<1> QED BY <1>3, <1>4, <1>5 DEF QueuesAgree

(* The thread is on its queue before sched_lock is let go, and so it is    *)
(* found by whoever makes its condition true.                              *)
LEMMA EnqueueStep ==
    ASSUME SleepInv, NEW td \in Threads, Enqueue(td)
    PROVE  SleepInv'
<1>0. /\ TypeOK /\ ThreadOK(td) /\ pc[td] = "enqueue" /\ chan[td] \in Chans /\ td_wchan[td] = Null
      /\ td_flags[td] = {} /\ td_slpcallout[td] = "off"
  <2>1. TypeOK /\ ThreadOK(td) /\ pc[td] = "enqueue"
    BY DEF SleepInv, Enqueue
  <2> QED BY <2>1 DEF TypeOK, ThreadOK, QueueState, TimeoutState
<1>1. QueuesAgree' /\ slpque' \in [Buckets -> Seq(Threads)] /\ cv_waitq' \in [CVs -> Seq(Threads)]
  BY <1>0, JoinKeepsQueues DEF SleepInv, Enqueue
<1>2. TypeOK'
  <2>1. td_flags' \in [Threads -> SUBSET Flags]
    BY <1>0 DEF Enqueue, TypeOK, Flags
  <2>2. pc' \in [Threads -> PcValues] /\ td_state' \in [Threads -> {"running", "sleeping", "runq"}]
    BY <1>0 DEF Enqueue, Goto, TypeOK, PcValues
  <2>3. /\ td_wchan' \in [Threads -> Chans \cup {Null}]
        /\ td_slpcallout' \in [Threads -> {"off", "pending", "called"}]
        /\ cause' \in [Threads -> {"none", "wakeup", "timeout", "abort"}]
    BY <1>0 DEF Enqueue, TypeOK
  <2> QED BY <1>0, <1>1, <2>1, <2>2, <2>3 DEF Enqueue, TypeOK, argVars
<1>3. pc'[td] = (IF catch[td] THEN "catch" ELSE "asleep")
      /\ \A o \in Threads \ {td} : pc'[o] = pc[o]
  BY <1>0 DEF Enqueue, Goto, TypeOK
<1>4. LocksHeld'
  BY <1>0, <1>3, SleepAssumption DEF SleepInv, LocksHeld, Enqueue
<1>5. NobodyForgotten'
  <2>1. \A o \in Threads : Going(o)' = Going(o)
    BY <1>0, <1>3 DEF Going, Enqueue, TypeOK, argVars
  <2>2. \A o \in Threads : pc[o] = "post" => pc'[o] = "post"
    BY <1>0, <1>3
  <2> QED BY <2>1, <2>2, ForgetsNobody DEF SleepInv, Enqueue, argVars
<1>6. ASSUME NEW o \in Threads PROVE ThreadOK(o)'
  <2>1. CASE o = td
    <3>1. /\ td_wchan'[td] = chan[td] /\ cause'[td] = "none"
          /\ td_flags'[td] = (IF chan[td] \in CVs THEN {"CVWAITQ"} ELSE {})
                                \cup (IF catch[td] THEN {"SINTR"} ELSE {})
          /\ td_slpcallout'[td] = IF timo[td] THEN "pending" ELSE "off"
          /\ td_state'[td] = IF catch[td] THEN td_state[td] ELSE "sleeping"
          /\ chan'[td] = chan[td] /\ timo'[td] = timo[td] /\ catch'[td] = catch[td]
          /\ sig'[td] = sig[td] /\ rval'[td] = rval[td] /\ signal' = signal
      BY <1>0 DEF Enqueue, TypeOK, argVars
    <3>2. /\ td_flags'[td] \cap {"TIMEOUT", "TIMOFAIL"} = {}
          /\ "CVWAITQ" \in td_flags'[td] <=> chan[td] \in CVs
          /\ "SINTR" \in td_flags'[td] <=> catch[td]
      BY <3>1
    <3>3. QueueState(td)'
      BY <1>0, <1>3, <3>1, <3>2, SleepAssumption DEF ThreadOK, QueueState, Chans
    <3>4. TimeoutState(td)'
      BY <1>0, <1>3, <3>1, <3>2 DEF ThreadOK, TimeoutState, TypeOK
    <3>5. ResultState(td)'
      BY <1>0, <1>3, <3>1, <3>2, SleepAssumption DEF ThreadOK, ResultState, Chans
    <3> QED BY <2>1, <3>3, <3>4, <3>5 DEF ThreadOK
  <2>2. CASE o # td
    <3>1. /\ td_wchan'[o] = td_wchan[o] /\ cause'[o] = cause[o] /\ td_flags'[o] = td_flags[o]
          /\ td_slpcallout'[o] = td_slpcallout[o] /\ td_state'[o] = td_state[o]
      BY <2>2, <1>0 DEF Enqueue, TypeOK
    <3> QED BY <2>2, <1>3, <3>1, OthersStand DEF SleepInv, Enqueue, argVars
  <2> QED BY <2>1, <2>2
<1> QED BY <1>1, <1>2, <1>4, <1>5, <1>6 DEF SleepInv

(* catch: no signal and no wakeup yet, so that the thread sleeps. *)
LEMMA CatchSleepStep ==
    ASSUME SleepInv, NEW td \in Threads, pc[td] = "catch", SchedLockFree, td \notin signal,
           sig' = [sig EXCEPT ![td] = td \in signal],
           TD_ON_SLEEPQ(td), td_state' = [td_state EXCEPT ![td] = "sleeping"], Goto(td, "asleep"),
           UNCHANGED <<slpque, cv_waitq, td_wchan, td_flags, cause, sched_lock, catch>>,
           UNCHANGED <<td_slpcallout, signal, mtx, ready, chan, timo, rval>>
    PROVE  SleepInv'
<1>1. TypeOK'
  BY DEF TypeOK, PcValues, Flags, SleepInv, TD_ON_SLEEPQ, SchedLockFree, Goto
<1>2. LocksHeld'
  BY SleepAssumption DEF LocksHeld, TypeOK, SleepInv, TD_ON_SLEEPQ, SchedLockFree, Goto
<1>3. QueuesAgree'
  BY QueuesStand DEF SleepInv, TD_ON_SLEEPQ, SchedLockFree, Goto
<1>4. NobodyForgotten'
  BY ForgetsNobody DEF Going, TypeOK, SleepInv, TD_ON_SLEEPQ, SchedLockFree, Goto
<1>5. ASSUME NEW o \in Threads PROVE ThreadOK(o)'
  <2>1. CASE o = td
    <3>1. /\ TypeOK /\ ThreadOK(td) /\ pc[td] = "catch" /\ td_wchan[td] # Null
      BY DEF SleepInv, TD_ON_SLEEPQ, SchedLockFree, Goto
    <3>2. /\ pc'[td] = "asleep"
          /\ td_state'[td] = "sleeping"
          /\ ~sig'[td]
          /\ td_wchan'[td] = td_wchan[td] /\ td_flags'[td] = td_flags[td]
          /\ td_slpcallout'[td] = td_slpcallout[td] /\ chan'[td] = chan[td]
          /\ timo'[td] = timo[td] /\ catch'[td] = catch[td] /\ rval'[td] = rval[td]
          /\ cause'[td] = cause[td] /\ signal' = signal
      BY DEF SleepInv, TypeOK, TD_ON_SLEEPQ, SchedLockFree, Goto
    <3>3. QueueState(td)'
      BY <3>1, <3>2, SleepAssumption DEF ThreadOK, QueueState, TimeoutState, TypeOK, Chans
    <3>4. TimeoutState(td)'
      BY <3>1, <3>2, SleepAssumption DEF ThreadOK, QueueState, TimeoutState, TypeOK, Chans, Flags
    <3>5. ResultState(td)'
      BY <3>1, <3>2, SleepAssumption DEF ThreadOK, QueueState, TimeoutState, ResultState, TypeOK, Chans
    <3> QED BY <2>1, <3>3, <3>4, <3>5 DEF ThreadOK
  <2>2. CASE o # td
    BY <2>2, OthersStand DEF TypeOK, SleepInv, TD_ON_SLEEPQ, SchedLockFree, Goto
  <2> QED BY <2>1, <2>2
<1> QED BY <1>1, <1>2, <1>3, <1>4, <1>5 DEF SleepInv

(* catch: the wakeup came while sched_lock was free. *)
LEMMA CatchWokenStep ==
    ASSUME SleepInv, NEW td \in Threads, pc[td] = "catch", SchedLockFree, td \notin signal,
           sig' = [sig EXCEPT ![td] = td \in signal],
           ~TD_ON_SLEEPQ(td), catch' = [catch EXCEPT ![td] = @ /\ chan[td] \in CVs],
           sched_lock' = td, Goto(td, "awake"), UNCHANGED queueVars,
           UNCHANGED <<td_slpcallout, signal, mtx, ready, chan, timo, rval>>
    PROVE  SleepInv'
<1>1. TypeOK'
  BY DEF TypeOK, PcValues, Flags, SleepInv, TD_ON_SLEEPQ, SchedLockFree, Goto, queueVars
<1>2. LocksHeld'
  BY SleepAssumption DEF LocksHeld, TypeOK, SleepInv, TD_ON_SLEEPQ, SchedLockFree, Goto, queueVars
<1>3. QueuesAgree'
  BY QueuesStand DEF SleepInv, TD_ON_SLEEPQ, SchedLockFree, Goto, queueVars
<1>4. NobodyForgotten'
  BY ForgetsNobody DEF Going, TypeOK, SleepInv, TD_ON_SLEEPQ, SchedLockFree, Goto, queueVars
<1>5. ASSUME NEW o \in Threads PROVE ThreadOK(o)'
  <2>1. CASE o = td
    <3>1. /\ TypeOK /\ ThreadOK(td) /\ pc[td] = "catch" /\ td_wchan[td] = Null /\ td \notin signal
      BY DEF SleepInv, TD_ON_SLEEPQ, SchedLockFree, Goto, queueVars
    <3>2. /\ pc'[td] = "awake"
          /\ catch'[td] = (catch[td] /\ chan[td] \in CVs)
          /\ ~sig'[td]
          /\ td_wchan'[td] = td_wchan[td] /\ td_flags'[td] = td_flags[td]
          /\ td_state'[td] = td_state[td] /\ td_slpcallout'[td] = td_slpcallout[td]
          /\ chan'[td] = chan[td] /\ timo'[td] = timo[td] /\ rval'[td] = rval[td]
          /\ cause'[td] = cause[td] /\ signal' = signal
      BY DEF SleepInv, TypeOK, TD_ON_SLEEPQ, SchedLockFree, Goto, queueVars
    <3>3. QueueState(td)'
      BY <3>1, <3>2, SleepAssumption DEF ThreadOK, QueueState, TimeoutState, TypeOK, Chans
    <3>4. TimeoutState(td)'
      BY <3>1, <3>2, SleepAssumption DEF ThreadOK, QueueState, TimeoutState, TypeOK, Chans, Flags
    <3>5. ResultState(td)'
      BY <3>1, <3>2, SleepAssumption DEF ThreadOK, QueueState, TimeoutState, ResultState, TypeOK, Chans
    <3> QED BY <2>1, <3>3, <3>4, <3>5 DEF ThreadOK
  <2>2. CASE o # td
    BY <2>2, OthersStand DEF TypeOK, SleepInv, TD_ON_SLEEPQ, SchedLockFree, Goto, queueVars
  <2> QED BY <2>1, <2>2
<1> QED BY <1>1, <1>2, <1>3, <1>4, <1>5 DEF SleepInv

(* catch: the three outcomes together. *)
LEMMA CatchStep ==
    ASSUME SleepInv, NEW td \in Threads, Catch(td)
    PROVE  SleepInv'
BY CatchSignalStep, CatchSleepStep, CatchWokenStep DEF Catch

(* awake: its four outcomes together. *)
LEMMA AwakeStep ==
    ASSUME SleepInv, NEW td \in Threads, Awake(td)
    PROVE  SleepInv'
BY TimedOutStep, TimeoutCameLateStep, StopTimeoutStep, WaitForTimeoutStep DEF Awake

-----------------------------------------------------------------------------
(* The theorems. *)

(* Everything is idle at first. *)
LEMMA InitSleepInv == Init => SleepInv
<1> SUFFICES ASSUME Init PROVE SleepInv
  OBVIOUS
<1>1. ToSet(<<>>) = {} /\ IsInjective(<<>>)
  BY DEF ToSet, IsInjective
<1>2. TypeOK
  BY DEF Init, TypeOK, PcValues, Flags
<1>3. LocksHeld
  BY SleepAssumption DEF Init, LocksHeld
<1>4. QueuesAgree
  BY <1>1, SleepAssumption DEF Init, QueuesAgree
<1>5. NobodyForgotten
  BY DEF Init, NobodyForgotten
<1>6. ASSUME NEW td \in Threads PROVE ThreadOK(td)
  BY SleepAssumption DEF Init, ThreadOK, QueueState, TimeoutState, ResultState
<1> QED BY <1>2, <1>3, <1>4, <1>5, <1>6 DEF SleepInv

(* Every step of a client, of a sleeping thread or of softclock keeps it.  *)
LEMMA NextSleepInv == SleepInv /\ [Next]_vars => SleepInv'
<1> SUFFICES ASSUME SleepInv, [Next]_vars PROVE SleepInv'
  OBVIOUS
<1>1. ASSUME NEW td \in Threads, ClientCall(td) PROVE SleepInv'
  <2>1. CASE Lock(td) BY <2>1, LockStep
  <2>2. ASSUME NEW ch \in Chans, Post(td, ch) PROVE SleepInv' BY <2>2, PostStep
  <2>3. ASSUME NEW ch \in Chans, Consume(td, ch) PROVE SleepInv' BY <2>3, ConsumeStep
  <2>4. ASSUME NEW ch \in Chans, Wakeup_one(td, ch) PROVE SleepInv' BY <2>4, WakeupOneStep
  <2>5. ASSUME NEW s \in Sleeps[td], Msleep(td, s[1], s[2], s[3]) PROVE SleepInv'
    BY <2>5, MsleepStep
  <2>6. CASE PostSignal(td) BY <2>6, PostSignalStep
  <2> QED BY <1>1, <2>1, <2>2, <2>3, <2>4, <2>5, <2>6 DEF ClientCall
<1>2. ASSUME NEW td \in Threads, Step(td) PROVE SleepInv'
  <2>1. CASE Unlock(td) BY <2>1, UnlockStep
  <2>2. CASE Wakeup(td) BY <2>2, WakeupStep
  <2>3. CASE SleepStep(td)
    BY <2>3, DropMutexStep, EnqueueStep, CatchStep, ResumeStep, AwakeStep, ResyncedStep,
       OutStep, RelockStep DEF SleepStep
  <2> QED BY <1>2, <2>1, <2>2, <2>3 DEF Step
<1>3. ASSUME NEW td \in Threads, Softclock(td) PROVE SleepInv'
  BY <1>3, ExpireStep, EndtsleepStep DEF Softclock
<1>4. CASE UNCHANGED vars
  <2> USE <1>4 DEF vars, queueVars, argVars
  <2>1. TypeOK' BY DEF SleepInv, TypeOK
  <2>2. LocksHeld' BY DEF SleepInv, LocksHeld
  <2>3. QueuesAgree' BY QueuesStand DEF SleepInv
  <2>4. NobodyForgotten' BY DEF SleepInv, NobodyForgotten, Going
  <2>5. ASSUME NEW o \in Threads PROVE ThreadOK(o)' BY OthersStand DEF SleepInv
  <2> QED BY <2>1, <2>2, <2>3, <2>4, <2>5 DEF SleepInv
<1> QED BY <1>1, <1>2, <1>3, <1>4 DEF Next

(* In every reachable state of sleeping and waking up, for any threads,    *)
(* channels, buckets and sleeps, the inductive invariant holds.            *)
THEOREM SleepInvariant == Spec => []SleepInv
BY InitSleepInv, NextSleepInv, PTL DEF Spec

(* QueuesMatch: what td_wchan and TDF_CVWAITQ say of a thread is where it  *)
(* is, once (msleep, cv_wait, unsleep, cv_waitq_remove).                   *)
THEOREM QueuesAlwaysMatch == Spec => []QueuesMatch
<1>1. SleepInv => QueuesMatch
  BY DEF SleepInv, QueuesAgree, QueuesMatch, ThreadOK, QueueState
<1> QED BY <1>1, SleepInvariant, PTL

(* NoLostWakeup: msleep() takes sched_lock before it drops the mutex, so   *)
(* that no wakeup() falls between the test and the sleep.                  *)
THEOREM NoWakeupIsLost == Spec => []NoLostWakeup
<1>1. SleepInv => NoLostWakeup
  <2> SUFFICES ASSUME SleepInv, NEW td \in Threads, td_wchan[td] \in ready
               PROVE  \E poster \in Threads : pc[poster] = "post" /\ chan[poster] = td_wchan[td]
    BY DEF NoLostWakeup
  <2>1. td_wchan[td] # Null
    BY SleepAssumption DEF SleepInv, TypeOK, Chans
  <2>2. Going(td) = td_wchan[td]
    BY <2>1 DEF SleepInv, ThreadOK, QueueState, Going
  <2> QED BY <2>2 DEF SleepInv, NobodyForgotten
<1> QED BY <1>1, SleepInvariant, PTL

(* SleeperHasWaker: whoever is switched out is on a queue or waits for a   *)
(* timeout that is about to run.                                           *)
THEOREM SleepersHaveWakers == Spec => []SleeperHasWaker
<1>1. SleepInv => SleeperHasWaker
  BY DEF SleepInv, ThreadOK, QueueState, SleeperHasWaker, TD_ON_SLEEPQ
<1> QED BY <1>1, SleepInvariant, PTL

(* TimeoutSettled: msleep() and cv_timedwait() return only when the        *)
(* timeout cannot reach the thread's next sleep.                           *)
THEOREM TimeoutsSettled == Spec => []TimeoutSettled
<1>1. SleepInv => TimeoutSettled
  BY DEF SleepInv, ThreadOK, TimeoutState, TimeoutSettled
<1> QED BY <1>1, SleepInvariant, PTL

(* ResultTellsCause: EWOULDBLOCK is a timeout that came first, and zero a  *)
(* wakeup that did, in msleep() and in the cv waits.                       *)
THEOREM ResultsTellCauses == Spec => []ResultTellsCause
<1>1. SleepInv => ResultTellsCause
  BY DEF SleepInv, ThreadOK, ResultState, ResultTellsCause
<1> QED BY <1>1, SleepInvariant, PTL

=============================================================================
