------------------------------- MODULE Callout -------------------------------
(***************************************************************************)
(* Timeouts: the callout wheel (sys/kern/kern_timeout.c), the clock        *)
(* interrupt that advances it (hardclock() in sys/kern/kern_clock.c) and   *)
(* the software interrupt thread that runs it (swi_sched() and             *)
(* ithread_loop() in sys/kern/kern_intr.c).                                *)
(*                                                                         *)
(* Everything between two releases of the spin lock callout_lock is one    *)
(* step, except that softclock() takes one step per entry it looks at:     *)
(* while pc = "scan" it has the lock and nobody else touches the wheel.    *)
(*                                                                         *)
(* Time is an int that wraps: ticks, softticks and c_time count modulo     *)
(* TickMod.                                                                *)
(***************************************************************************)
EXTENDS Integers, Sequences, FiniteSets, SequencesExt, Queue

CONSTANTS
    Callouts,     \* callouts their clients own (callout_init)
    Slots,        \* the callouts of the timeout() table (CALLOUT_LOCAL_ALLOC)
    MPSafe,       \* the callouts with CALLOUT_MPSAFE
    Ftns,         \* the (function, argument) pairs given to timeout()
    Null,         \* NULL
    TickMod,      \* 2^32: the values of an int
    WheelSize,    \* callwheelsize, a smaller power of two
    MaxSteps,     \* MAX_SOFTCLOCK_STEPS
    MaxTimeout,   \* bound: the longest timeout asked for (INT_MAX)
    MaxLag        \* bound: how far softclock falls behind the clock

ASSUME CalloutAssumption ==
    /\ Callouts \cap Slots = {} /\ Null \notin Callouts \cup Slots \cup Ftns
    /\ MPSafe \subseteq Callouts
    /\ IsFiniteSet(Callouts) /\ IsFiniteSet(Slots)
    /\ WheelSize \in Nat \ {0} /\ TickMod \in Nat /\ TickMod % WheelSize = 0
    /\ MaxSteps \in Nat \ {0}
    /\ MaxTimeout \in Nat \ {0} /\ MaxLag \in Nat \ {0}
    /\ WheelSize + MaxTimeout + MaxLag <= TickMod

All == Callouts \cup Slots

VARIABLES
    ticks,          \* the clock
    softticks,      \* the last tick softclock has taken up
    callwheel,      \* the buckets
    callfree,       \* free entries of the timeout() table
    pending,        \* callouts with CALLOUT_PENDING
    active,         \* callouts with CALLOUT_ACTIVE
    c_time,         \* the tick a callout is due at
    c_func,         \* what it calls
    nextsoftcheck,  \* where softclock will go on
    it_need, ih_need,   \* work for the clock thread, for its softclock handler
    pc,             \* where the clock thread is
    curticks, c, steps, \* locals of softclock()
    cur,            \* the callout whose function it calls
    hpc,            \* where hardclock() is
    left,           \* clock ticks until the callout should run
    wanted          \* client callouts that were set and neither stopped nor served since

wheelVars == <<callwheel, callfree, pending, active, c_time, c_func>>
swiVars   == <<it_need, ih_need>>
softVars  == <<pc, curticks, c, steps, cur>>
vars == <<ticks, softticks, wheelVars, nextsoftcheck, swiVars, softVars, hpc, left, wanted>>

Tick == 0..(TickMod - 1)

Succ(t) == (t + 1) % TickMod

Bucket(t) == t % WheelSize   \* t & callwheelmask

(* kern_timeout_callwheel_init and start_softintr: everything is idle. *)
Init ==
    /\ ticks = 0 /\ softticks = 0
    /\ callwheel = [b \in 0..(WheelSize - 1) |-> <<>>]
    /\ callfree = SetToSeq(Slots)
    /\ pending = {} /\ active = {}
    /\ c_time = [x \in All |-> 0] /\ c_func = [x \in All |-> Null]
    /\ nextsoftcheck = Null
    /\ it_need = FALSE /\ ih_need = FALSE
    /\ pc = "iwait" /\ curticks = 0 /\ c = Null /\ steps = 0 /\ cur = Null
    /\ hpc = "idle"
    /\ left = [x \in All |-> 0] /\ wanted = {}

CalloutLockFree == pc # "scan"

-----------------------------------------------------------------------------
(* The wheel. *)

First(q) == IF q = <<>> THEN Null ELSE Head(q)

(* TAILQ_NEXT(x, c_links.tqe) *)
TAILQ_NEXT(x) ==
    LET q == callwheel[Bucket(c_time[x])]
        i == CHOOSE j \in DOMAIN q : q[j] = x
    IN  IF i = Len(q) THEN Null ELSE q[i + 1]

Unlinked(x) == [callwheel EXCEPT ![Bucket(c_time[x])] = Dequeued(@, {x})]

CursorUnmoved(x) == nextsoftcheck   \* mutant: softclock's place is not protected

(* callout_stop() of the entry softclock goes on with moves softclock on. *)
CursorWithout(x) == IF nextsoftcheck = x THEN TAILQ_NEXT(x) ELSE nextsoftcheck

(* callout_stop *)
callout_stop(x) ==
    /\ pending' = pending \ {x}
    /\ active' = active \ {x}
    /\ \/ x \notin pending /\ UNCHANGED <<nextsoftcheck, callwheel, c_func, callfree>>
       \/ /\ x \in pending
          /\ nextsoftcheck' = CursorWithout(x)
          /\ callwheel' = Unlinked(x)
          /\ c_func' = [c_func EXCEPT ![x] = Null]
          /\ callfree' = IF x \in Slots THEN <<x>> \o callfree ELSE callfree
    /\ wanted' = wanted \ {x}
    /\ left' = [left EXCEPT ![x] = 0]
    /\ UNCHANGED c_time

KeepsZero(to_ticks) == to_ticks   \* mutant: a timeout of zero ticks is let through

AtLeastOne(to_ticks) == IF to_ticks <= 0 THEN 1 ELSE to_ticks

(* callout_reset takes a pending callout out of the wheel first. *)
WheelWithout(x) == IF x \in pending THEN Unlinked(x) ELSE callwheel

(* callout_reset *)
callout_reset(x, to_ticks, ftn) ==
    LET t == (ticks + AtLeastOne(to_ticks)) % TickMod IN
    /\ nextsoftcheck' = IF x \in pending THEN CursorWithout(x) ELSE nextsoftcheck
    /\ callwheel' = [WheelWithout(x) EXCEPT ![Bucket(t)] = Append(@, x)]
    /\ pending' = pending \cup {x}
    /\ active' = active \cup {x}
    /\ c_time' = [c_time EXCEPT ![x] = t]
    /\ c_func' = [c_func EXCEPT ![x] = ftn]
    /\ left' = [left EXCEPT ![x] = AtLeastOne(to_ticks)]
    /\ wanted' = wanted \cup ({x} \cap Callouts)

-----------------------------------------------------------------------------
(* The clients, which include the functions that softclock calls. *)

Reset(x, to_ticks, ftn) ==
    /\ CalloutLockFree
    /\ callout_reset(x, to_ticks, ftn)
    /\ UNCHANGED <<ticks, softticks, callfree, swiVars, softVars, hpc>>

Stop(x) ==
    /\ CalloutLockFree
    /\ callout_stop(x)
    /\ UNCHANGED <<ticks, softticks, swiVars, softVars, hpc>>

(* timeout(); with an empty table it panics. *)
Timeout(to_ticks, ftn) ==
    /\ CalloutLockFree
    /\ callfree # <<>>
    /\ callfree' = Tail(callfree)
    /\ callout_reset(Head(callfree), to_ticks, ftn)
    /\ UNCHANGED <<ticks, softticks, swiVars, softVars, hpc>>

(* untimeout() with any handle timeout() has returned. *)
Untimeout(x, ftn) ==
    /\ CalloutLockFree
    /\ c_func[x] = ftn
    /\ callout_stop(x)
    /\ UNCHANGED <<ticks, softticks, swiVars, softVars, hpc>>

-----------------------------------------------------------------------------
(* hardclock *)

CatchUp == Succ(softticks) = Succ(ticks)

Hardclock ==
    LET q == callwheel[Bucket(Succ(ticks))] IN
    /\ hpc = "idle"
    /\ CalloutLockFree
    /\ (ticks - softticks) % TickMod < MaxLag
    /\ ticks' = Succ(ticks)
    /\ left' = [x \in All |-> IF left[x] > 0 THEN left[x] - 1 ELSE 0]
    /\ \/ q # <<>> /\ hpc' = "swi" /\ UNCHANGED softticks
       \/ q = <<>> /\ CatchUp /\ softticks' = Succ(ticks) /\ UNCHANGED hpc
       \/ q = <<>> /\ ~CatchUp /\ UNCHANGED <<softticks, hpc>>
    /\ UNCHANGED <<wheelVars, nextsoftcheck, swiVars, softVars, wanted>>

(* swi_sched(): mark the handler, mark the thread, and wake the thread if  *)
(* it waits.                                                               *)
SwiSched ==
    /\ \/ hpc = "swi" /\ ih_need' = TRUE /\ hpc' = "schedule" /\ UNCHANGED <<it_need, pc>>
       \/ hpc = "schedule" /\ it_need' = TRUE /\ hpc' = "wake" /\ UNCHANGED <<ih_need, pc>>
       \/ /\ hpc = "wake"
          /\ pc' = IF pc = "iwait" THEN "loop" ELSE pc
          /\ hpc' = "idle"
          /\ UNCHANGED swiVars
    /\ UNCHANGED <<ticks, softticks, wheelVars, nextsoftcheck, curticks, c, steps, cur,
                   left, wanted>>

-----------------------------------------------------------------------------
(* The clock thread: ithread_loop ... *)

Goto(label) == pc' = label

(* Mutant: the thread does not look at it_need again under sched_lock. *)
SuspendUnchecked ==
    /\ pc = "suspend"
    /\ Goto("iwait")
    /\ UNCHANGED swiVars

(* Under sched_lock: wait for the next interrupt unless it has come. *)
Suspend ==
    /\ pc = "suspend"
    /\ Goto(IF it_need THEN "loop" ELSE "iwait")
    /\ UNCHANGED swiVars

IthreadLoop ==
    /\ \/ pc = "loop" /\ it_need /\ it_need' = FALSE /\ Goto("handlers") /\ UNCHANGED ih_need
       \/ pc = "loop" /\ ~it_need /\ Goto("suspend") /\ UNCHANGED swiVars
       \/ pc = "handlers" /\ ih_need /\ ih_need' = FALSE /\ Goto("softclock") /\ UNCHANGED it_need
       \/ pc = "handlers" /\ ~ih_need /\ Goto("loop") /\ UNCHANGED swiVars
       \/ Suspend
    /\ UNCHANGED <<ticks, softticks, wheelVars, nextsoftcheck, curticks, c, steps, cur,
                   hpc, left, wanted>>

(* ... and softclock. *)

Enter ==
    /\ pc = "softclock"
    /\ Goto("scan")
    /\ c' = Null /\ steps' = 0
    /\ UNCHANGED <<ticks, softticks, wheelVars, nextsoftcheck, swiVars, curticks, cur, hpc,
                   left, wanted>>

(* The end of a bucket: on to the next tick, or out. *)
NextTick ==
    /\ pc = "scan" /\ c = Null
    /\ softticks # ticks
    /\ softticks' = Succ(softticks)
    /\ curticks' = softticks'
    /\ c' = First(callwheel[Bucket(softticks')])
    /\ UNCHANGED <<ticks, wheelVars, nextsoftcheck, swiVars, pc, steps, cur, hpc, left, wanted>>

Leave ==
    /\ pc = "scan" /\ c = Null
    /\ softticks = ticks
    /\ nextsoftcheck' = Null
    /\ Goto("loop")
    /\ curticks' = 0
    /\ UNCHANGED <<ticks, softticks, wheelVars, swiVars, c, steps, cur, hpc, left, wanted>>

DueByBucket(x) == Bucket(c_time[x]) = Bucket(curticks)   \* mutant: any round of the wheel

Due(x) == c_time[x] = curticks

(* An entry of another round of the wheel is passed over; after MaxSteps   *)
(* of them the lock is dropped for a moment.                               *)
Skip ==
    LET next == TAILQ_NEXT(c) IN
    /\ pc = "scan" /\ c # Null
    /\ ~Due(c)
    /\ \/ /\ steps + 1 < MaxSteps
          /\ c' = next
          /\ steps' = steps + 1
          /\ UNCHANGED <<pc, nextsoftcheck>>
       \/ /\ steps + 1 >= MaxSteps
          /\ nextsoftcheck' = next
          /\ Goto("unlocked")
          /\ c' = Null /\ steps' = 0
    /\ UNCHANGED <<ticks, softticks, wheelVars, swiVars, curticks, cur, hpc, left, wanted>>

(* A due callout leaves the wheel before its function is called, without   *)
(* the lock.                                                               *)
Fire ==
    /\ pc = "scan" /\ c # Null
    /\ Due(c)
    /\ nextsoftcheck' = TAILQ_NEXT(c)
    /\ callwheel' = Unlinked(c)
    /\ c_func' = [c_func EXCEPT ![c] = Null]
    /\ pending' = pending \ {c}
    /\ \/ c \in Slots /\ active' = active \ {c} /\ callfree' = <<c>> \o callfree
       \/ c \notin Slots /\ UNCHANGED <<active, callfree>>
    /\ cur' = c
    /\ Goto(IF c \in MPSafe THEN "run" ELSE "giant")
    /\ c' = Null /\ steps' = 0
    /\ UNCHANGED <<ticks, softticks, c_time, swiVars, curticks, hpc, left, wanted>>

(* Giant may be held by anyone for any time; mtx_lock() returns (see       *)
(* Turnstile).                                                             *)
TakeGiant ==
    /\ pc = "giant"
    /\ Goto("run")
    /\ UNCHANGED <<ticks, softticks, wheelVars, nextsoftcheck, swiVars, curticks, c, steps, cur, hpc,
                   left, wanted>>

(* Mutant: the handler trusts callout_stop() to have kept it from running. *)
UncheckedHandler(x) == TRUE

(* A handler of the tcp_timer.c kind, under the lock its clients hold when *)
(* they stop or set the callout: it looks whether it is still meant.       *)
StillMeant(x) == x \notin pending /\ x \in active

(* The function runs, and returns. *)
Handler ==
    /\ pc = "run"
    /\ IF cur \in Callouts /\ StillMeant(cur)
       THEN active' = active \ {cur} /\ wanted' = wanted \ {cur}
       ELSE UNCHANGED <<active, wanted>>
    /\ cur' = Null
    /\ Goto("unlocked")
    /\ UNCHANGED <<ticks, softticks, callwheel, callfree, pending, c_time, c_func, nextsoftcheck,
                   swiVars, curticks, c, steps, hpc, left>>

(* Take callout_lock back and go on where nextsoftcheck says. *)
Relock ==
    /\ pc = "unlocked"
    /\ c' = nextsoftcheck
    /\ Goto("scan")
    /\ UNCHANGED <<ticks, softticks, wheelVars, nextsoftcheck, swiVars, curticks, steps, cur,
                   hpc, left, wanted>>

-----------------------------------------------------------------------------
ClientCall ==
    \/ \E x \in Callouts, to_ticks \in 0..MaxTimeout, ftn \in Ftns : Reset(x, to_ticks, ftn)
    \/ \E x \in Callouts : Stop(x)
    \/ \E to_ticks \in 0..MaxTimeout, ftn \in Ftns : Timeout(to_ticks, ftn)
    \/ \E x \in Slots, ftn \in Ftns : Untimeout(x, ftn)

ClockThread ==
    \/ IthreadLoop \/ Enter \/ NextTick \/ Leave \/ Skip \/ Fire \/ TakeGiant \/ Handler \/ Relock

Next == ClientCall \/ Hardclock \/ SwiSched \/ ClockThread

Spec == Init /\ [][Next]_vars

-----------------------------------------------------------------------------
(* Properties. *)

PcValues == {"iwait", "loop", "handlers", "suspend", "softclock", "scan", "unlocked", "giant", "run"}

(* Every variable has its type. *)
TypeOK ==
    /\ ticks \in Tick /\ softticks \in Tick /\ curticks \in Tick
    /\ callwheel \in [0..(WheelSize - 1) -> Seq(All)]
    /\ callfree \in Seq(Slots)
    /\ pending \in SUBSET All /\ active \in SUBSET All /\ wanted \in SUBSET Callouts
    /\ c_time \in [All -> Tick] /\ c_func \in [All -> Ftns \cup {Null}]
    /\ nextsoftcheck \in All \cup {Null} /\ c \in All \cup {Null} /\ cur \in All \cup {Null}
    /\ it_need \in BOOLEAN /\ ih_need \in BOOLEAN
    /\ pc \in PcValues /\ hpc \in {"idle", "swi", "schedule", "wake"}
    /\ steps \in 0..(MaxSteps - 1)
    /\ left \in [All -> 0..MaxTimeout]

(* A callout is linked into the wheel exactly while CALLOUT_PENDING is     *)
(* set, once, in the bucket of its time, however often it is set again     *)
(* from any context; an entry of the timeout() table is free or pending    *)
(* and never twice on the free list, although softclock frees it before    *)
(* its function has run; and whatever is stopped or set again while        *)
(* softclock has dropped the lock, the place where it goes on is an entry  *)
(* of the bucket it is working on.                                         *)
WheelWellFormed ==
    /\ TypeOK
    /\ \A b \in DOMAIN callwheel :
         /\ IsInjective(callwheel[b])
         /\ ToSet(callwheel[b]) = {x \in pending : Bucket(c_time[x]) = b}
    /\ IsInjective(callfree) /\ ToSet(callfree) = Slots \ pending
    /\ pc \in {"unlocked", "giant", "run"} /\ nextsoftcheck # Null =>
          nextsoftcheck \in pending /\ Bucket(c_time[nextsoftcheck]) = Bucket(curticks)
    /\ c # Null => c \in pending /\ Bucket(c_time[c]) = Bucket(curticks)

(* softclock has yet to come to tick t. *)
Ahead(t) == (t - softticks - 1) % TickMod < (ticks - softticks) % TickMod

(* softclock is in the bucket of x and has not passed it. *)
NotPassed(x) ==
    LET q      == callwheel[Bucket(curticks)]
        cursor == IF pc = "scan" THEN c ELSE nextsoftcheck
    IN  /\ pc \in {"scan", "unlocked", "giant", "run"}
        /\ Due(x)
        /\ \E i, j \in DOMAIN q : i <= j /\ q[i] = cursor /\ q[j] = x

(* No timeout is missed: a callout whose time has come is still ahead of   *)
(* softclock, although hardclock() advances softticks as well and the      *)
(* wheel changes whenever softclock drops the lock.                        *)
NotMissed == \A x \in pending : left[x] = 0 => Ahead(c_time[x]) \/ NotPassed(x)

(* A function is never called before as many clock interrupts as were      *)
(* asked for.                                                              *)
NeverEarly == [][\A x \in All : cur' = x /\ cur # x => left[x] = 0]_vars

(* callout_stop() cannot call a function back that softclock is about to   *)
(* call.  A handler that looks at the two flags under its clients' lock    *)
(* does its work all the same only for a callout that was not stopped, and *)
(* only when its latest time has come.                                     *)
WorkIsWanted ==
    [][\A x \in Callouts : pc = "run" /\ pc' # pc /\ cur = x /\ StillMeant(x) =>
          x \in wanted /\ left[x] = 0]_vars

-----------------------------------------------------------------------------
(* Fairness: interrupts keep coming, and the clock thread is scheduled and *)
(* gets Giant when it asks for it.                                         *)
Fairness == WF_vars(Hardclock) /\ WF_vars(SwiSched) /\ WF_vars(ClockThread)

FairSpec == Spec /\ Fairness

(* Once the clients are quiet every timeout that was set comes to pass.    *)
TimeoutsRun == <>[][~ClientCall]_vars => <>[](pending = {} /\ wanted = {})

=============================================================================
