# TLA+ verification of the FreeBSD 5.2 kernel's synchronization and timing core

The repository is the FreeBSD 5.2 source tree (`src/freebsd/`) with notes on how
it boots. This project models the part of the kernel that everything else rests
on, and that no test can cover interleaving by interleaving: how threads on
several CPUs exclude each other, wait, are woken, time out and are interrupted.
All paths below are relative to `src/freebsd/sys/`.

## 1. Inventory

| component | files | state | operations |
|---|---|---|---|
| sleep mutexes | `kern/kern_mutex.c`, `sys/mutex.h` | the lock word (owner, CONTESTED, RECURSED), `mtx_recurse` | `mtx_lock`, `mtx_trylock`, `mtx_unlock`, their slow paths |
| turnstiles | `kern/subr_turnstile.c` | hash chains, queues of blocked and pending threads, spare turnstiles, lent priorities | `turnstile_wait`, `claim`, `signal`, `unpend`, `propagate_priority` |
| shared/exclusive locks | `kern/kern_sx.c` | `sx_cnt`, two wait counts, two condition variables | `sx_slock`, `sx_xlock`, try, unlock, upgrade, downgrade |
| callouts | `kern/kern_timeout.c`, `sys/callout.h` | the callout wheel, the free list of `timeout()` entries, `softticks`, softclock's cursor | `timeout`, `untimeout`, `callout_reset`, `callout_stop`, `softclock` |
| clock interrupt | `kern/kern_clock.c` | `ticks` | `hardclock` |
| sleep queues | `kern/kern_synch.c` | `slpque`, `td_wchan`, `td_flags`, `td_slpcallout` | `msleep`, `wakeup`, `wakeup_one`, `endtsleep`, `abortsleep` |
| condition variables | `kern/kern_condvar.c` | `cv_waitq`, the same thread fields | `cv_wait`, `cv_wait_sig`, `cv_timedwait`, `cv_timedwait_sig`, `cv_signal`, `cv_broadcast` |
| counting semaphores | `kern/kern_sema.c` | `sema_value`, `sema_waiters` | post, wait, timedwait, trywait |
| interrupt threads | `kern/kern_intr.c` | the handler list, `it_need`, `ih_need`, IT_DEAD, IH_DEAD | add and remove a handler, schedule, `ithread_loop`, create, destroy |
| task queues | `kern/subr_taskqueue.c` | the queue in priority order, `ta_pending` | `taskqueue_enqueue`, `taskqueue_run`, the queues' threads |
| lockmgr locks | `kern/kern_lock.c` | shared, exclusive and wait counts, the LK_WANT flags | `lockmgr` with its seven requests, `acquire`, `acquiredrain` |
| advisory file locks | `kern/kern_lockf.c` | the list of ranges of a file and the requests blocked on each | set, clear, split, merge, wait, deadlock detection |
| user mutexes, pipes | `kern/kern_umtx.c`, `kern/sys_pipe.c` | | candidates |
| spin mutexes, scheduler, WITNESS, processes, VM, VFS, network, drivers, boot code, userland, contributed code | | | not modelled; reasons in `PROJECT.json` |

How they interact:

- A mutex that is taken makes its waiters block on a turnstile. The turnstile
  code lends priorities and puts threads back on the run queue.
- `sx` locks and semaphores use a mutex and condition variables.
- `msleep()` and the timed condition variable waits start a callout for the
  thread (`td_slpcallout`). Its function races with the wakeup and with signals.
- `softclock()` runs in a software interrupt thread that `hardclock()` schedules.
  It takes the mutex Giant for callouts that are not MP-safe.
- Task queues are served by a software interrupt thread or by a kernel thread
  that sleeps with `msleep()`. Drivers add and remove handlers of interrupt
  threads while these run.
- `lockmgr()` sleeps with `msleep()` under a pool mutex; vnodes, buffers and the
  VM map are locked with it. Advisory locks sleep with `tsleep()` under Giant.

What is hard: a lock word changed by compare-and-set on several CPUs; turnstiles
that are handed from thread to thread and attached to another lock while a
pointer to them is still in use; a wakeup that comes before the sleep; handlers
that run with the lock dropped while the list they came from changes; a timeout
that can no longer be stopped; a tick count that wraps; wait counts that include
threads already woken; requests that fail after they have kept others waiting;
ranges that are split and merged while requests are blocked on them. `PROJECT.json` lists each of these under `hazards`, with
its line and the properties that would catch it.

## 2. Modules

| module | models | proved in |
|---|---|---|
| `MutexSpec` | what mutexes promise (abstract) | |
| `Turnstile` | mutexes, turnstiles and the scheduler's contract | `TurnstileProofs` |
| `Threads` | the threads that use sx locks and semaphores | |
| `Sx` | sx locks on condition variables | `CondvarProofs` |
| `Callout` | callout wheel, clock interrupt, clock thread | `CalloutProofs` |
| `Sleep` | sleep queues, condition variables, timeouts, signals | `SleepProofs` |
| `Sema` | semaphores on a condition variable | `CondvarProofs` |
| `Ithread` | interrupt threads and their handlers | `TaskqueueProofs` |
| `Taskqueue` | task queues, composed with `Ithread` | `TaskqueueProofs` |
| `Lockmgr` | lockmgr locks | `LockmgrProofs` |
| `LockfSpec` | what advisory locks promise, byte by byte (abstract) | |
| `Lockf` | the list of range locks of a file | `LockfProofs` |
| `Queue` | TAILQ_REMOVE, used by `Sleep`, `Callout` and `Ithread` | `QueueLemmas` |
| `QueueLemmas` | lemmas about inserting into and removing from queues | itself |
| `MC*` | instances for TLC | |

The modules compose by contract. `Turnstile` shows that `mtx_lock()` and
`mtx_unlock()` implement `MutexSpec`; the other modules take a mutex to be that.
`Callout` shows what `callout_reset()` and `callout_stop()` guarantee; `Sleep`
uses a thread's callout through exactly that (off, pending, or about to be
called and no longer to be stopped). `Sleep` shows that no wakeup of a condition
variable is lost; `Sx`, `Sema`, `Lockmgr`, `Taskqueue` and `Lockf` take a wait to
be one step under that promise. `Taskqueue` EXTENDS `Ithread`: the handler of the
software interrupt is the run of the queue. `Lockf` implements `LockfSpec`, whose
state is what each owner holds on each byte, call by call.

### Turnstile

One step is one atomic operation on the lock word or one section under a spin
lock, so threads on different CPUs interleave as on an SMP machine. `mtx_lock[m]`
is a record of the owner and the two flag bits. The chain locks and `sched_lock`
are variables because sections under them contain a step on another lock;
`td_contested_lock` is always innermost, so its sections are part of the step
around them. `pc` gives the place in the code:

- `mtx_lock`: `idle -> obtain -> lookup -> {claim -> claimpri | cmpset -> {spin | wait -> block -> prop -> sort -> blocked}} -> obtain`;
- `mtx_unlock`: `idle -> ulookup -> unpend -> unpendpri -> uswitch -> uyield -> idle`.

`held` counts what the clients hold; it appears in no guard of the mutex code
except that only a holder calls `mtx_unlock()`. The model is of a kernel with
INVARIANTS, which clears `ts_lockobj` when a turnstile is handed back
(`subr_turnstile.c:634`). `turnstile_wakeup()` has no caller in this kernel. The
recursion count and its bit change in one step because only the owner writes
them. Failed try operations change nothing and are stuttering steps. Clients take
mutexes in the order WITNESS enforces, which is why deadlock can be checked. No
mutex of an instance is Giant, for which nobody spins (`kern_mutex.c:446`), and no
client releases a mutex in a critical section, where it would not yield
(`kern_mutex.c:601`).

### Sx

Each function is a step under the internal mutex `sx_lock`; a wait splits it
into the step that goes to sleep and the one that goes on after waking. The
count of waiters is raised before `cv_wait()` and lowered after it within one
section, so a thread that has to wait again keeps its count.

### Callout

`ticks` and `c_time` are integers modulo `TickMod`, as the C ints wrap, and the
wheel has `WheelSize` buckets. `callout_lock` is held during the sections of
softclock's scan; a function runs without it. `hardclock`, `swi_sched`,
`ithread_loop` and `softclock` are modelled up to the two flags `it_need` and
`ih_need`. The wait for Giant (`pc = "giant"`) may take any time, since every
other part of the kernel may hold it. Handlers check `callout_pending` and
`callout_active` the way `netinet/tcp_timer.c` does. `left` and `wanted` are
history: the clock interrupts still to come, and whether the client means the
callout to run.

### Sleep

Clients hold a mutex, test or set the condition of a channel, and sleep or wake.
A sleep is the sequence of `sched_lock` sections of `msleep()` and of the four
condition variable waits, which share their structure; where they differ (the
result after a timeout, when signals are looked for) the model distinguishes
them. `mtx_unlock()` inside the `sched_lock` section is a step of its own: the
mutex is free before the thread is on the queue, and only `sched_lock` keeps the
waker out. `cause` is history. Processes have one thread; `EINTR` stands for
`ERESTART` as well.

### Sema

Each function is a step under `sema_mtx`, with waits split as in `Sx`. A timeout
takes a thread off the queue; the thread notices when it runs again.

### Ithread and Taskqueue

The thread walks its list of handlers without a lock, so each look at `it_need`,
`ih_need` and IT_DEAD is a step (`LoopTop`, `LoopWhile`, `Scan`), and so are the
two halves of `ithread_schedule()`: `it_need` is set first, then `sched_lock`
taken. Removal under `it_lock` and `sched_lock` is one step up to its sleep.
A handler that was freed can be added again: that is how the memory is reused.
That nobody adds a handler to a thread that was destroyed is the clients' part: the
code does not look. Hardware and software threads differ in the test of `ih_need`
(IT_SOFT).
`Taskqueue` adds the tasks: `tq_mutex` is held over the enqueue function, a task
runs without it, and `taskqueue_thread`'s kernel thread takes two steps from the
end of `taskqueue_run()` to its sleep.

### Lockmgr

Everything runs under the interlock, so a request is one step up to its return,
its sleep or its spin in `apause()`, and one step from there on. `lk` is the
`struct lock`; `rq` says in which `acquire()` a thread is (`shared`, `excl1` for
the LK_WANT_EXCL flag, `excl2` for shares and upgrades to go, `upgrade`,
`drain`). Any sleep may fail, by LK_TIMELOCK, a signal or LK_SLEEPFAIL. `shares`
is history: the shared locks each thread was granted, of which the lock keeps
only the number. `abandoned` is history too: a request that had a LK_WANT flag
has failed since the last wakeup.

### Lockf

A step is a system call up to its end or its sleep. `lf` is the list as the code
keeps it, the locks of all owners in one list; each lock has the requests that
are blocked on it. `SetRound` and `ClearRound` are one turn of the loops of
`lf_setlock()` and `lf_clearlock()`, with the code's six cases of overlap (0 is no
overlap, after which the loop is left); `Loop` takes turns until it is left, with
the place of the new lock (`at`), the lock to look on from, and the requests that
`lf_wakelock()` has woken. `lf_setlock` and `lf_clearlock` say what such a call
leaves; `SetLock`, `Unlock` and `Retry` are the steps that make it. The number
behind an offset wraps as an `off_t` does (`NextOffset`), which matters for a range
that ends at OFF_MAX; `MaxEnd` bounds where ranges end (see *Known deviations*).

`LockfSpec` knows no list. `Requested` says what is held after an owner has asked
for a type on a range: that type on the range if nobody else conflicts there
(`Free`), nothing on it if a flock(2) owner has to wait for an exclusive lock, since
that gives up its shared one first (`kern_lockf.c:285`), and what was held before
otherwise. `Cleared` says the same of an unlock. All leave every other byte and
owner alone. `CallsDoAsAsked` compares the outcome of every call that an owner could
make, or is about to try again, with these, for its own owner, type and range;
`ImplementsBytes` adds that no other step changes what is held otherwise.

## 3. Runs

| run | instance | what it shows |
|---|---|---|
| `turnstile_pri` | 3 threads of 3 priorities, 2 mutexes on 2 chains, 2 CPUs | No wakeup is lost, a contested free mutex has an heir, turnstiles are neither lost nor shared, the assertions of the code hold, priorities are lent and returned, and the whole refines `MutexSpec` |
| `turnstile_adaptive` | 3 threads, 1 mutex, 3 CPUs, `ADAPTIVE_MUTEXES`, recursion | The same for spinning waiters and recursion: exclusion, word and holder agree; and requests drain |
| `sx` | 4 threads, up to 2 shared holds each | Exclusion, exact counts, nobody sleeps without a waker; waiters drain |
| `callout` | an MP-safe callout, one under Giant and a `timeout()` entry, ints mod 4, 2 buckets | The wheel and the table stay intact, no timeout is missed or early, a handler that checks the flags works only when wanted, and every timeout that stays set is called |
| `sleep` | 3 threads, 2 channels in a bucket and a condition variable, every kind of sleep | Queues and flags agree, no lost wakeup, every sleeper has a waker, timeouts do not outlive their sleep, results are right; timed sleeps end |
| `sema` | 4 threads, value up to 3 | Nobody sleeps while a unit is there for the taking; waiters are served |
| `taskqueue` | 3 tasks of 2 priorities on the swi queue, 1 on the thread's; 2 drivers on the other thread | No handler is used after it was freed, the queue is in order and agrees with the counts, no interrupt is lost, removals return, tasks run |
| `taskqueue_thread` | the same | *violation*: the queue's thread sleeps with a task on its queue |
| `lockmgr` | 3 threads, one with TDF_DEADLKTREAT, recursion to 2 | Flags and counts are exact, an accepted upgrade is alone, nobody sleeps without a cause, waiters are served |
| `lockmgr_upgrade` | 3 threads | *violation*: an upgrade and an exclusive request are both granted, which panics |
| `lockf` | 2 processes and a flock(2) file, the 6 ranges of 3 bytes that do not end at OFF_MAX, the list up to 3 locks when a request comes | Ranges are sorted and disjoint, sleepers are on the list of a lock that blocks them, no two wait for each other, and every call does to every byte what `LockfSpec` says of that call |
| `lockf_deadlock` | 3 processes | *violation*: three processes wait in a circle |

### What the violations say

Each contradicts a sentence of the code or of its manual (quoted in
`PROJECT.json` under `findings`).

- `lockmgr_upgrade`: an exclusive request waits for the last share, whose holder
  upgrades. The request is woken when the share goes, but the upgrade has been
  granted by the time it looks; it looks for LK_WANT_UPGRADE and shares and not
  for LK_HAVE_EXCL, and the second grant panics. The passing run `lockmgr` stops
  at the panic and shows that all else is right up to there.
- `taskqueue_thread`: `taskqueue_kthread()` sleeps under a mutex that
  `taskqueue_enqueue()` does not take, so a wakeup between the end of
  `taskqueue_run()` and the sleep is lost. It lasts until another task comes.
- `lockf_deadlock`: the search for cycles never leaves the first thread, and so
  finds only cycles of two, which `NoMutualWait` confirms.

### Known deviations without a run

Met while modelling and confirmed with TLC or by reading, but without a run of
their own in this project:

- `subr_turnstile.c:208` against the comment at `:543`: a thread that has queued
  itself but still runs gets a priority lent, and its place in the queue is not
  adjusted, so `turnstile_signal()` need not take the most urgent waiter. This
  needs four threads. With five, `turnstile_claim()` and `turnstile_unpend()`,
  which look at the first waiter only, leave an owner less urgent than a later
  waiter of its mutex: an owner releases the mutex and takes it again before the
  woken thread does, while the first thread left in the queue is a less urgent one
  (a schedule of 49 steps, found with TLC). `PriorityInheritance` is therefore
  stated, and proved, of the first waiter. The effect is a bounded priority
  inversion, not a lost wakeup.
- `subr_turnstile.c:155` against the comment at `:139`: between
  `turnstile_signal()` and `turnstile_unpend()` a turnstile can be recycled for
  another lock, and a waiter still on its way to block reads its owner and lends
  its priority to a thread that holds nothing it waits for, until that thread's
  next contested release. Needs four threads on four CPUs.
- `kern_sx.c:119` against the comment at `:222`: readers that overlap enter past
  a waiting writer and may starve it, under any fairness of the scheduler.
- `kern_timeout.c:374` against `timeout(9)`: for a callout that needs Giant,
  `callout_stop()` may return 0 before the function has started.
- `kern_intr.c:525` against the comment at `:339`: a handler removed from a
  software interrupt thread that is running is only taken off if it is also
  scheduled, because `ih_need` is tested before IH_DEAD; otherwise
  `ithread_remove_handler()` sleeps for ever. `RemovalsReturn` states the case in
  which it does return.
- `kern_intr.c:232` against `ithread(9)`: a thread that is destroyed after its
  test of IT_DEAD and before its sleep finds `it_need` clear, sleeps, and does not
  terminate.
- `kern_lock.c:338` and `:395`: a request that fails clears its LK_WANT flag and
  wakes nobody. Whoever sleeps because of the flag waits for the next release;
  `SleepersBlocked` and `RequestsServed` except exactly this (`abandoned`).
- `kern_lockf.c:731`, and 377, 434, 488, 508 and 715, against `fcntl(2)`:
  `lf_advlock()` accepts a range whose last byte is OFF_MAX (lines 146 to 149). Cut
  out of an own lock that runs to the end of the file it makes `lf_end + 1` overflow,
  and the piece behind it begins at a negative offset, covers the whole file and
  overlaps the lock before it. With `MaxEnd = 2` in `Lockf.cfg`, that is, `MaxEnd`
  equal to `OFF_MAX`, TLC finds `OwnLocksSorted` violated in the third state of a
  behaviour and `CallsDoAsAsked` in the second. The run `lockf` and the theorems are
  of ranges that end below OFF_MAX, where both hold.

### Bounds, and why they are enough

Bounds are constants of the modules. `MaxRecurse` 1 reaches both changes of the
recursed bit. Two mutexes and three threads are the smallest chain along which a
priority propagates through a blocked thread; the two deviations named above need
four threads, which is beyond an exhaustive run. In `Callout`, `MaxTimeout` 1 with two buckets and a clock that may
run ahead of softclock puts entries that are due and entries that are not into
one bucket, `TickMod` 4 wraps in every behaviour,
`MaxLag` is how far softclock may fall behind (at 1, the branch of `hardclock()`
that advances `softticks` itself, `kern_clock.c:243`, is covered by the proof only), and `MaxSteps` stands for
`MAX_SOFTCLOCK_STEPS`, after which softclock lets others have the lock.
`CalloutAssumption` asks that one turn of the wheel, the longest timeout and the
lag together fit the clock: the wheel has some thousands of buckets, a timeout is
a positive int, and softclock is not half of the range of an int behind, so that
2^32 has room for them. In
`Sleep`, timeouts and signals are actors of their own; one thread goes through
every kind of sleep, a second sleeps on the same channel or on one in the same
bucket, and the third only wakes and signals. In `Lockmgr`, `MaxExclusive` 2
reaches both ends of recursion, and three threads are an exclusive request, an
upgrade and a share or a drain at once. In `Taskqueue`, `MaxPending` 2
distinguishes a first enqueue from a repeated one, and three tasks of two
priorities reach every place in the queue. In `Lockf`, `OFF_MAX` 2 and
`MaxEnd` 1 give the six ranges of three bytes that do not end at OFF_MAX (two single
bytes, both together, and from each byte to the end of the file), enough for all six
cases of overlap and for a lock to be split in three, and `MaxLocks` bounds the list
when a new request comes. `Callout`,
`Turnstile` and `Sx` are checked for deadlock; in the other modules everybody may
wait without a timeout, or come to rest, and the check is off.

### Fairness

- `Turnstile`: a running thread inside the mutex code goes on, a free CPU takes
  a thread from the run queue, and clients release what they hold. All weak
  fairness; a mutex is not fair and the property only asks that requests drain.
- `Sx`, `Sema`, `Lockmgr`: a woken or spinning thread runs and gets the internal
  mutex; holders (and the I/O that has taken over a lock) release.
- `Taskqueue`: the threads run, handlers and tasks return, and an interrupt that
  has begun to schedule a thread goes on.
- `Callout`: the clock ticks, the clock thread is scheduled and gets Giant.
- `Sleep`: threads run, the mutex is released, timeouts fire.

The liveness properties have the form "if from some point on no client makes a
new call, then ...", because none of these primitives bounds overtaking.

## 4. Proofs

The theorems hold for every value of the constants that the modules' named
assumptions allow.

- **Mutexes** (`TurnstileProofs`, first part). `LockSafe` is inductive (`LockSafety`) for any
  threads, mutexes, hash chains and CPUs, adaptive or not. `MutualExclusion`
  is not inductive by itself: `LockInv` relates the owner in the word to the
  thread that holds the mutex or is on its way in or out of it, and `ChainInv`
  says what a thread that keeps a chain locked knows about the word, above all
  that a mutex found free and contested stays so until it is claimed with a
  plain store. From it follow `MutualExclusionHolds`, `WordMatchesHolderHolds`
  and `MutexRefinement`: every step is a step of `MutexSpec` or invisible.
- **Turnstiles** (`TurnstileProofs`, second part). `TurnstileInv` is inductive
  (`TurnstileSafety`). No property of the turnstiles is inductive by itself,
  because each rests on a pointer that somebody read earlier. `HashInv` says that
  a turnstile is hashed exactly while it has waiters, on the chain of its lock and
  alone there for it; `PlaceInv` and `SpareInv` where the others are, and how many
  spares a queue has; `QueueInv` and `StateInv` that a thread has given its
  turnstile away exactly while it is queued, and how that shows in what the
  scheduler knows of it; `PointerInv` and `SortInv` which of the pointers kept
  from one step to the next are current, and under which lock; `ContestedInv` and
  `UnpendInv` how queue, word and owner go together, with the one exception of a
  release between `turnstile_signal()` and `turnstile_unpend()`; `WakeInv` that a
  thread taken off a queue is in exactly one pending list until it has been put
  on the run queue, or told not to block; `HeirInv` that the list of a freed
  mutex holds a thread that will claim it. `SleepersInv` is needed without
  ADAPTIVE_MUTEXES only, where `_mtx_unlock_sleep()` asserts that it finds a
  turnstile. Four lemmas carry the induction: `LightStep`, for steps that leave
  the queues alone, a lemma for those that only change their order, and
  `JoinFacts` and `SignalFacts`, for the two that move threads. From it follow
  `NoLostWakeupHolds`, `ContestedHasHeirHolds`, `TurnstileConservationHolds` and
  `TurnstileFoundHolds`.
- **Priorities** (`TurnstileProofs`, third part). `PriInv` is inductive on top of
  `TurnstileInv` (`PrioritySafety`). `LoanInv`: whoever runs at a borrowed
  priority still owns a turnstile, or is about to recompute its priority, because
  `turnstile_unpend()` only ever takes a turnstile off the releaser's own list.
  `Covered`: the owner of a queue is as urgent as its first waiter, or that
  waiter has yet to take sched_lock, or the owner has (to claim or to release),
  or some thread that propagates is on its way to this owner. The last case is
  an induction along the chain of blocked owners: each turn of
  `propagate_priority()` moves the obligation to the next queue. From it follow
  `PriorityInheritanceHolds` and `PriorityReturnedHolds`, for chains of any length.
- **Sx locks** (`CondvarProofs`). `SxInv` is inductive for any finite set of threads
  (`SxInvariance`). Exclusion alone is simple; that no reader or writer is
  stranded needs the exact meaning of the two wait counts (sleeping and woken
  threads), because releases decide by them whom to wake.
- **Semaphores** (`CondvarProofs`). `SemaInv` is inductive for any finite set of
  threads (`SemaInvariance`): while anybody sleeps there is a woken thread for
  each unit (`NoStrandedWaiterHolds`).
- **Lockmgr locks** (`LockmgrProofs`). `LockmgrInv` is inductive for any finite
  set of threads and any recursion (`LockmgrInvariance`). It is `LockExact` and
  `UpgradeNotOvertaken` together, with the states a request can be in: that an
  accepted upgrade is not overtaken holds because LK_WANT_UPGRADE is set exactly
  while its thread is in `acquire()`, and the counts are exact only if every way
  into and out of a wait is accounted for. The invariant is stated of a lock
  with one thread taken out (`Free`), as a call finds it that comes back from its
  sleep, and each outcome of `acquire()` puts the thread back.
  `SleepersAlwaysBlocked` adds who may sleep (`BlockedIn`): a step may take a
  sleeper's cause away only if it wakes the sleeper, if the flag was its own and
  was set in the same step, or if it leaves a failed request behind. It needs the
  exact counts, since a release wakes by `lk_waitcount` and an upgrade by the
  LK_WANT flags, and that no request with LK_NOWAIT is ever found waiting.
- **Advisory locks** (`LockfProofs`). `LockfInv` is inductive for any owners,
  offsets and length of the list (`LockfInvariance`), from `LockfAssumption` and, as
  a hypothesis of each theorem, `MaxEnd < OFF_MAX`: no range ends at the last offset,
  without which the properties are false of the code (see *Known deviations*). So no
  `lf_end + 1` wraps (`InvNoWrap`).
  `ListOK` and `SortedBut` say that ranges are not empty and own locks in order;
  `AskInv` that whoever is in `lf_setlock()` has a request; `WaitInv` that only
  sleeping and signalled owners are on lists, each on one at most and a sleeper on
  one, that the lock whose list it is conflicts with the request, and that no two
  processes sleep on each other's locks. The rounds of a loop do not keep the list
  sorted: after cases 3 and 4 the new lock may overlap own locks behind it, which
  later rounds shrink or take off. `SetInv` and `ClearInv` say what holds between
  two rounds (sorted but for the new lock; the own locks still to come begin behind
  it; those passed are done with), and each round that does not leave the loop
  brings it nearer to the end of the list, so that it has been left after the
  rounds that `Loop` takes (`LoopOK`). What a round did to the locks as a set is
  `Effect`: other owners' locks are untouched, exactly the woken requests
  have gone from the lists, those that stay are blocked by a lock of the same
  owner that conflicts, and no byte outside the range has changed. It composes
  over rounds (`EffectTrans`); `Covered`, and for clearing that no own lock
  overlaps, say what the loop leaves inside the range. `WaitersBlockedHolds` and
  `NoMutualWaitHolds` need that a sleeper is on one list, since `WaitsOn`, by which
  the deadlock check follows a request to its lock, is the first such lock.
  `CallsDoAsAskedHolds` reads `Effect` byte by byte for each call: the range is free
  in the table of bytes exactly if `lf_getblock()` finds nothing (`FreeIfNoBlock`),
  `Covered` is that the new lock holds the range, and who waits on a lock does not
  matter to what is held (`WaitersHoldNothing`).
  `BytesRefinement`, that `Lockf` implements `LockfSpec`, follows.

- **Callouts** (`CalloutProofs`). `CalloutInv` is inductive (`CalloutInvariance`)
  for any callouts, wheel size and number of steps. `WheelInv` says that each
  pending callout is in the bucket of its time, where `softclock` looks for it;
  `CursorInv` that the entry softclock goes on with, after it has run a function
  without the lock, is in the bucket it is working on, because `callout_stop()`
  moves it on. `DueInv` is `NotMissed` with the time each callout has left: one
  that is due is in a bucket softclock has still to come to, or at the saved entry
  or behind it (`NoLater`, an order that removing and appending keep). This needs
  two bounds. softclock is at most `MaxLag` behind (`LagInv`); and `hardclock()`,
  which advances `softticks` itself when it has caught up and the bucket is
  empty, cannot take it a whole turn past the bucket softclock stands in while
  that has an entry (`CursorInv` again). Since ticks wrap, all of it rests on
  `CalloutAssumption`. From it follow `WheelStaysWellFormed`,
  `NoTimeoutIsMissed`, and the action properties `NoTimeoutIsEarly` and
  `HandlersWorkWhenWanted`.
- **Sleep queues and condition variables** (`SleepProofs`). `SleepInv` is
  inductive for any threads, channels and condition variables (`SleepInvariant`).
  It says of every thread how its flags, its callout and its wait channel go with
  the place it has reached (`QueueState`, `TimeoutState`, `ResultState`); of the
  queues that they are what the wait channels say (`QueuesAgree`); and of the
  channels that nobody who has decided to sleep is forgotten
  (`NobodyForgotten`), which counts a thread as a sleeper from its test of the
  condition, since only then is it kept when the mutex is dropped before the
  thread is on the queue. All five invariants of the run follow.
- **Interrupt threads and task queues** (`TaskqueueProofs`). `TaskqueueInv` is
  inductive for any handlers and tasks (`TaskqueueInvariant`): the thread has a
  pointer into its list only in a pass, a pass only ends at the end of the list,
  and nobody but the thread takes a handler off while it is in one
  (`CursorOnList`); with `ListMatches` that is `HandlerAlive`. A task queue stays
  sorted because an enqueue walks to the first task of a lower priority
  (`QueuesAlwaysOrdered`).
- **Queues** (`QueueLemmas`). What appending, inserting, removing and taking the
  head do to the elements of a queue, to its order and to the absence of
  duplicates. `Dequeued` is defined by a recursive function; its properties are
  proved by taking the shortest prefix that violates them.

Every invariant that a passing run checks has a theorem, and so have both
refinements (that of `LockfSpec` is proved and not run: the run checks its calls,
`CallsDoAsAsked`). Only model-checked are the liveness properties, which under fairness
are out of the prover's reach. The inductive invariants were checked by TLC on the
instances of the runs before they were proved.

## 5. What is left out

Formatting, tracing (KTR, KTRACE), statistics, profiling and assertions that are
not stated as properties; creation and destruction of locks; start-up (`cold`)
and panic paths; processes with several threads in `Sleep` (`TDF_INTERRUPT`,
`thread_suspend_check`); swapping; priorities other than those turnstiles lend.
Spin locks are taken to work. `transferlockers()`, `taskqueue_free()` and
`turnstile_wakeup()` have no caller in this kernel. Handlers with INTR_FAST are not
called by the interrupt thread. F_GETLK only reads, and a F_SETLK that is refused
changes nothing. Memory allocation in `lf_split()` is taken not to sleep. What the
list does after a range that ends at OFF_MAX has wrapped an offset is modelled but
not checked further: the properties fail there.

The rest of the repository is not modelled: the network stack, VFS and the file
systems, VM, processes and signals, drivers, userland, and the compilers and
other contributed code, which are most of its lines. `PROJECT.json` gives the
reason for each. What is modelled is what all of the kernel rests on.

## 6. Plan

Done: mutexes and turnstiles, sx locks, callouts, sleep queues and condition
variables, semaphores, interrupt threads and task queues, lockmgr locks, advisory
locks. Next, in this order:

1. Pipes (flow control and close) and user mutexes, on the contract of `Sleep`.
2. An abstract reader-writer lock, in the style of `MutexSpec`, that `Sx` and
   `Lockmgr` both implement.
