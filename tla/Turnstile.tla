------------------------------ MODULE Turnstile ------------------------------
(***************************************************************************)
(* Sleep mutexes (sys/kern/kern_mutex.c, sys/sys/mutex.h) and the          *)
(* turnstiles their waiters block on (sys/kern/subr_turnstile.c), at the   *)
(* grain at which the CPUs of an SMP kernel interleave: one step per       *)
(* atomic operation on the lock word and one per critical section of a     *)
(* spin lock.                                                              *)
(*                                                                         *)
(* Two spin locks appear as state because a critical section of theirs     *)
(* contains a step of another lock or of the lock word: the chain locks    *)
(* (tc_lock) and sched_lock.  td_contested_lock is always the innermost    *)
(* lock and never held across another acquisition, so each of its          *)
(* sections is part of the step around it.                                 *)
(*                                                                         *)
(* td_contested, the list of turnstiles of a thread's contested locks, is  *)
(* {ts : ts_owner[ts] = td}: ts_owner and the list change together.        *)
(***************************************************************************)
EXTENDS Integers, Sequences, FiniteSets, SequencesExt

CONSTANTS
    Threads,      \* kernel threads
    Locks,        \* MTX_DEF mutexes, numbers in the lock order WITNESS enforces
    Chains,       \* buckets of the turnstile hash table
    TC_HASH,      \* the bucket of every lock
    NullChain,    \* the bucket a NULL lock object hashes to
    Null,         \* NULL
    BasePri,      \* td_base_pri of every thread; a small number is urgent
    Uses,         \* the mutexes a thread's code works with
    NCPU,         \* CPUs
    MaxRecurse,   \* bound: how often a client recurses on a mutex
    Adaptive      \* options ADAPTIVE_MUTEXES

ASSUME ConstantsAssumption ==
    /\ Null \notin Threads \cup Locks
    /\ Locks \subseteq Nat
    /\ TC_HASH \in [Locks -> Chains]
    /\ NullChain \in Chains
    /\ BasePri \in [Threads -> Nat]
    /\ Uses \in [Threads -> SUBSET Locks]
    /\ NCPU \in Nat
    /\ MaxRecurse \in Nat
    /\ Adaptive \in BOOLEAN

VARIABLES
    mtx_lock,       \* the lock word: owner and its two flag bits
    mtx_recurse,    \* recursion count beside the word
    held,           \* how many times each thread's code holds each mutex
    tc_lock,        \* holder of each chain's spin lock
    sched_lock,     \* holder of sched_lock
    tc_turnstiles,  \* turnstiles hashed on each chain
    ts_blocked,     \* queue of blocked threads of each turnstile
    ts_pending,     \* threads signalled, not yet taken over by turnstile_unpend
    ts_free,        \* spare turnstiles hung off a turnstile
    ts_lockobj,     \* lock the turnstile is attached to
    ts_owner,       \* owner of that lock
    td_turnstile,   \* turnstile in the thread's hands
    td_blocked,     \* turnstile the thread is switched out on
    td_state,       \* "running" on a CPU, on the "runq", or inhibited by a "lock"
    td_priority,    \* current priority
    tsnoblock,      \* threads with TDF_TSNOBLOCK set
    pc,             \* where the thread is in the mutex code
    arg,            \* the mutex it was called with (m)
    word,           \* the lock word it read (v)
    tsp,            \* its turnstile pointer (ts)
    tcp,            \* its chain pointer in propagate_priority (tc)
    peer,           \* the other thread it deals with (td1, or td there)
    pending         \* pending_threads of turnstile_unpend

lockVars  == <<mtx_lock, mtx_recurse, held>>
spinVars  == <<tc_lock, sched_lock>>
tsVars    == <<tc_turnstiles, ts_blocked, ts_pending, ts_free, ts_lockobj, ts_owner>>
schedVars == <<td_blocked, td_state, td_priority, tsnoblock>>
locals    == <<arg, word, tsp, tcp, peer, pending>>
vars == <<lockVars, spinVars, tsVars, td_turnstile, schedVars, pc, locals>>

Turnstiles == Threads   \* turnstile_alloc() makes one for each thread

-----------------------------------------------------------------------------
(* The lock word: the owner and the bits MTX_CONTESTED and MTX_RECURSED. *)

Bit  == {0, 1}
Word == [owner : Threads \cup {Null}, contested : Bit, recursed : Bit]

MTX_UNOWNED   == [owner |-> Null, contested |-> 0, recursed |-> 0]
MTX_CONTESTED == [owner |-> Null, contested |-> 1, recursed |-> 0]
OwnedBy(td)   == [owner |-> td,   contested |-> 0, recursed |-> 0]

mtx_owned(td, m) == mtx_lock[m].owner = td

PcValues == {"idle", "obtain", "lookup", "claim", "claimpri", "cmpset", "spin", "wait",
             "block", "prop", "sort", "blocked", "ulookup", "unpend", "unpendpri",
             "uswitch", "uyield"}

-----------------------------------------------------------------------------
(* Queues. *)

(* The queue with td inserted before the first thread of a lower priority  *)
(* than pri, at the tail when there is none.                               *)
InsertByPri(q, td, pri) ==
    LET later == {i \in DOMAIN q : td_priority[q[i]] > pri}
        at    == IF later = {} THEN Len(q) + 1
                 ELSE CHOOSE i \in later : \A j \in later : i <= j
    IN  InsertAt(q, at, td)

Position(q, td) == CHOOSE i \in DOMAIN q : q[i] = td

(* turnstile_lookup: the turnstile hashed for a lock, if any. *)
turnstile_lookup(m) ==
    LET found == {ts \in tc_turnstiles[TC_HASH[m]] : ts_lockobj[ts] = m}
    IN  IF found = {} THEN Null ELSE CHOOSE ts \in found : TRUE

td_contested(td) == {ts \in Turnstiles : ts_owner[ts] = td}

TC_LOOKUP(lockobj) == IF lockobj = Null THEN NullChain ELSE TC_HASH[lockobj]

-----------------------------------------------------------------------------
(* Every thread starts ready to run, with its own clean turnstile. *)
Init ==
    /\ mtx_lock = [m \in Locks |-> MTX_UNOWNED]
    /\ mtx_recurse = [m \in Locks |-> 0]
    /\ held = [td \in Threads |-> [m \in Locks |-> 0]]
    /\ tc_lock = [c \in Chains |-> Null]
    /\ sched_lock = Null
    /\ tc_turnstiles = [c \in Chains |-> {}]
    /\ ts_blocked = [ts \in Turnstiles |-> <<>>]
    /\ ts_pending = [ts \in Turnstiles |-> {}]
    /\ ts_free = [ts \in Turnstiles |-> {}]
    /\ ts_lockobj = [ts \in Turnstiles |-> Null]
    /\ ts_owner = [ts \in Turnstiles |-> Null]
    /\ td_turnstile = [td \in Threads |-> td]
    /\ td_blocked = [td \in Threads |-> Null]
    /\ td_state = [td \in Threads |-> "runq"]
    /\ td_priority = BasePri
    /\ tsnoblock = {}
    /\ pc = [td \in Threads |-> "idle"]
    /\ arg = [td \in Threads |-> Null]
    /\ word = [td \in Threads |-> MTX_UNOWNED]
    /\ tsp = [td \in Threads |-> Null]
    /\ tcp = [td \in Threads |-> Null]
    /\ peer = [td \in Threads |-> Null]
    /\ pending = [td \in Threads |-> {}]

At(td, label) == pc[td] = label /\ td_state[td] = "running"
Goto(td, label) == pc' = [pc EXCEPT ![td] = label]
Return(td) == Goto(td, "idle") /\ arg' = [arg EXCEPT ![td] = Null]

-----------------------------------------------------------------------------
(* Acquiring. *)

(* The client follows the lock order: it holds nothing that comes after m, *)
(* or m itself, which it may then take again.                              *)
MayLock(td, m) ==
    /\ m \in Uses[td]
    /\ \A h \in Locks : held[td][h] > 0 => h < m \/ held[td][m] \in 1..MaxRecurse
    /\ held[td][m] <= MaxRecurse

(* mtx_lock(m) takes a free word, recurses on an owned one, or else enters *)
(* the loop of _mtx_lock_sleep.                                            *)
MtxLock(td, m) ==
    /\ At(td, "idle")
    /\ MayLock(td, m)
    /\ \/ /\ mtx_lock[m] = MTX_UNOWNED
          /\ mtx_lock' = [mtx_lock EXCEPT ![m] = OwnedBy(td)]
          /\ held' = [held EXCEPT ![td][m] = @ + 1]
          /\ UNCHANGED <<mtx_recurse, pc, arg>>
       \/ /\ mtx_owned(td, m)
          /\ mtx_recurse' = [mtx_recurse EXCEPT ![m] = @ + 1]
          /\ mtx_lock' = [mtx_lock EXCEPT ![m].recursed = 1]
          /\ held' = [held EXCEPT ![td][m] = @ + 1]
          /\ UNCHANGED <<pc, arg>>
       \/ /\ mtx_lock[m] # MTX_UNOWNED /\ ~mtx_owned(td, m)
          /\ Goto(td, "obtain")
          /\ arg' = [arg EXCEPT ![td] = m]
          /\ UNCHANGED lockVars
    /\ UNCHANGED <<spinVars, tsVars, td_turnstile, schedVars, word, tsp, tcp, peer, pending>>

(* Mutant: mtx_trylock() takes a word without owner, cookie or not. *)
TrylockIgnoresCookie(td, m) ==
    /\ At(td, "idle")
    /\ m \in Uses[td]
    /\ mtx_lock[m].owner = Null
    /\ mtx_lock' = [mtx_lock EXCEPT ![m] = OwnedBy(td)]
    /\ held' = [held EXCEPT ![td][m] = @ + 1]
    /\ UNCHANGED <<mtx_recurse, spinVars, tsVars, td_turnstile, schedVars, pc, locals>>

(* mtx_trylock(m): one compare-and-set, no recursion, in any lock order. *)
MtxTrylock(td, m) ==
    /\ At(td, "idle")
    /\ m \in Uses[td]
    /\ mtx_lock[m] = MTX_UNOWNED
    /\ mtx_lock' = [mtx_lock EXCEPT ![m] = OwnedBy(td)]
    /\ held' = [held EXCEPT ![td][m] = @ + 1]
    /\ UNCHANGED <<mtx_recurse, spinVars, tsVars, td_turnstile, schedVars, pc, locals>>

(* while (!_obtain_lock(m, td)) *)
Obtain(td) ==
    LET m == arg[td] IN
    /\ At(td, "obtain")
    /\ \/ /\ mtx_lock[m] = MTX_UNOWNED
          /\ mtx_lock' = [mtx_lock EXCEPT ![m] = OwnedBy(td)]
          /\ held' = [held EXCEPT ![td][m] = @ + 1]
          /\ Return(td)
          /\ UNCHANGED mtx_recurse
       \/ /\ mtx_lock[m] # MTX_UNOWNED
          /\ Goto(td, "lookup")
          /\ UNCHANGED <<lockVars, arg>>
    /\ UNCHANGED <<spinVars, tsVars, td_turnstile, schedVars, word, tsp, tcp, peer, pending>>

(* Lock the chain, look the turnstile up and read the word again.  A word  *)
(* that is free by now sends the thread back to the top of the loop.       *)
Lookup(td) ==
    LET m == arg[td]
        v == mtx_lock[m]
    IN
    /\ At(td, "lookup")
    /\ tc_lock[TC_HASH[m]] = Null
    /\ \/ /\ v = MTX_UNOWNED
          /\ Goto(td, "obtain")
          /\ UNCHANGED <<tc_lock, word, tsp>>
       \/ /\ v # MTX_UNOWNED
          /\ tc_lock' = [tc_lock EXCEPT ![TC_HASH[m]] = td]
          /\ tsp' = [tsp EXCEPT ![td] = turnstile_lookup(m)]
          /\ \/ v = MTX_CONTESTED /\ Goto(td, "claim") /\ UNCHANGED word
             \/ v # MTX_CONTESTED /\ Goto(td, "cmpset") /\ word' = [word EXCEPT ![td] = v]
    /\ UNCHANGED <<lockVars, sched_lock, tsVars, td_turnstile, schedVars, arg, tcp, peer, pending>>

turnstile_setowner(ts, owner) == ts_owner' = [ts_owner EXCEPT ![ts] = owner]

(* The mutex was marked contested on release: store our own word and claim *)
(* the turnstile (turnstile_claim up to the release of the chain lock).    *)
Claim(td) ==
    LET m  == arg[td]
        ts == tsp[td]
    IN
    /\ At(td, "claim")
    /\ mtx_lock' = [mtx_lock EXCEPT ![m] = [OwnedBy(td) EXCEPT !.contested = 1]]
    /\ turnstile_setowner(ts, td)
    /\ peer' = [peer EXCEPT ![td] = Head(ts_blocked[ts])]
    /\ tsp' = [tsp EXCEPT ![td] = Null]
    /\ tc_lock' = [tc_lock EXCEPT ![TC_HASH[m]] = Null]
    /\ Goto(td, "claimpri")
    /\ UNCHANGED <<mtx_recurse, held, sched_lock, tc_turnstiles, ts_blocked, ts_pending,
                   ts_free, ts_lockobj, td_turnstile, schedVars, arg, word, tcp, pending>>

(* The sched_lock section of turnstile_claim: borrow the first waiter's    *)
(* priority, and return from mtx_lock.                                     *)
ClaimPri(td) ==
    LET pri == td_priority[peer[td]] IN
    /\ At(td, "claimpri")
    /\ sched_lock = Null
    /\ td_priority' = [td_priority EXCEPT ![td] = IF pri < @ THEN pri ELSE @]
    /\ held' = [held EXCEPT ![td][arg[td]] = @ + 1]
    /\ peer' = [peer EXCEPT ![td] = Null]
    /\ Return(td)
    /\ UNCHANGED <<mtx_lock, mtx_recurse, spinVars, tsVars, td_turnstile, td_blocked,
                   td_state, tsnoblock, word, tsp, tcp, pending>>

CmpsetUnchecked(td) == FALSE   \* mutant: the bit is set by a plain store

(* The compare-and-set fails when the owner released the mutex, or         *)
(* recursed, after v was read.                                             *)
CmpsetFails(td) == word[td].contested = 0 /\ mtx_lock[arg[td]] # word[td]

(* Mark the word contested unless it is already.  No mutex here is Giant,  *)
(* for which nobody spins.                                                 *)
Cmpset(td) ==
    LET m == arg[td]
        v == word[td]
        fails == CmpsetFails(td)
        spins == Adaptive /\ td_state[v.owner] = "running"
    IN
    /\ At(td, "cmpset")
    /\ \/ /\ fails
          /\ tc_lock' = [tc_lock EXCEPT ![TC_HASH[m]] = Null]
          /\ Goto(td, "obtain")
          /\ word' = [word EXCEPT ![td] = MTX_UNOWNED]
          /\ tsp' = [tsp EXCEPT ![td] = Null]
          /\ UNCHANGED mtx_lock
       \/ /\ ~fails /\ ~spins
          /\ mtx_lock' = [mtx_lock EXCEPT ![m].contested = 1]
          /\ Goto(td, "wait")
          /\ word' = [word EXCEPT ![td] = MTX_UNOWNED]
          /\ UNCHANGED <<tc_lock, tsp>>
       \/ /\ ~fails /\ spins
          /\ mtx_lock' = [mtx_lock EXCEPT ![m].contested = 1]
          /\ tc_lock' = [tc_lock EXCEPT ![TC_HASH[m]] = Null]
          /\ Goto(td, "spin")
          /\ tsp' = [tsp EXCEPT ![td] = Null]
          /\ UNCHANGED word
    /\ UNCHANGED <<mtx_recurse, held, sched_lock, tsVars, td_turnstile, schedVars, arg, tcp,
                   peer, pending>>

(* ADAPTIVE_MUTEXES: spin while the same owner keeps the mutex and a CPU. *)
Spin(td) ==
    LET owner == word[td].owner IN
    /\ At(td, "spin")
    /\ ~(mtx_owned(owner, arg[td]) /\ td_state[owner] = "running")
    /\ Goto(td, "obtain")
    /\ word' = [word EXCEPT ![td] = MTX_UNOWNED]
    /\ UNCHANGED <<lockVars, spinVars, tsVars, td_turnstile, schedVars, arg, tsp, tcp, peer,
                   pending>>

-----------------------------------------------------------------------------
(* Blocking. *)

(* turnstile_wait under the chain lock: bring our own turnstile if the     *)
(* mutex has none, else queue up by priority and donate it.                *)
Wait(td) ==
    LET m   == arg[td]
        own == td_turnstile[td]
        ts  == tsp[td]
    IN
    /\ At(td, "wait")
    /\ \/ /\ ts = Null
          /\ tc_turnstiles' = [tc_turnstiles EXCEPT ![TC_HASH[m]] = @ \cup {own}]
          /\ ts_lockobj' = [ts_lockobj EXCEPT ![own] = m]
          /\ ts_blocked' = [ts_blocked EXCEPT ![own] = Append(@, td)]
          /\ turnstile_setowner(own, mtx_lock[m].owner)
          /\ tsp' = [tsp EXCEPT ![td] = own]
          /\ UNCHANGED ts_free
       \/ /\ ts # Null
          /\ ts_blocked' = [ts_blocked EXCEPT ![ts] = InsertByPri(@, td, td_priority[td])]
          /\ ts_free' = [ts_free EXCEPT ![ts] = @ \cup {own}]
          /\ UNCHANGED <<tc_turnstiles, ts_lockobj, ts_owner, tsp>>
    /\ td_turnstile' = [td_turnstile EXCEPT ![td] = Null]
    /\ tc_lock' = [tc_lock EXCEPT ![TC_HASH[m]] = Null]
    /\ Goto(td, "block")
    /\ UNCHANGED <<lockVars, sched_lock, ts_pending, schedVars, arg, word, tcp, peer, pending>>

(* turnstile_wait under sched_lock: a wakeup that came first cancels the   *)
(* switch; otherwise the thread is inhibited and keeps sched_lock to       *)
(* propagate its priority.                                                 *)
Block(td) ==
    /\ At(td, "block")
    /\ sched_lock = Null
    /\ \/ /\ td \in tsnoblock
          /\ tsnoblock' = tsnoblock \ {td}
          /\ Goto(td, "obtain")
          /\ tsp' = [tsp EXCEPT ![td] = Null]
          /\ UNCHANGED <<sched_lock, td_blocked, td_state>>
       \/ /\ td \notin tsnoblock
          /\ sched_lock' = td
          /\ td_blocked' = [td_blocked EXCEPT ![td] = tsp[td]]
          /\ td_state' = [td_state EXCEPT ![td] = "lock"]
          /\ Goto(td, "prop")
          /\ UNCHANGED <<tsnoblock, tsp>>
    /\ UNCHANGED <<lockVars, tc_lock, tsVars, td_turnstile, td_priority, arg, word, tcp, peer,
                   pending>>

(* propagate_priority is over: mi_switch() gives the CPU away. *)
Switch(td) ==
    /\ sched_lock' = Null
    /\ Goto(td, "blocked")
    /\ tsp' = [tsp EXCEPT ![td] = Null]
    /\ tcp' = [tcp EXCEPT ![td] = Null]
    /\ peer' = [peer EXCEPT ![td] = Null]

(* The head of the loop of propagate_priority.  ts_owner is read with only *)
(* sched_lock held.                                                        *)
Propagate(td) ==
    LET pri   == td_priority[td]
        owner == ts_owner[tsp[td]]
        lends == owner # Null /\ td_priority[owner] > pri
    IN
    /\ pc[td] = "prop"
    /\ \/ /\ ~lends
          /\ Switch(td)
          /\ UNCHANGED td_priority
       \/ /\ lends
          /\ td_state[owner] \in {"running", "runq"}
          /\ td_priority' = [td_priority EXCEPT ![owner] = pri]
          /\ Switch(td)
       \/ /\ lends
          /\ td_state[owner] = "lock"
          /\ td_priority' = [td_priority EXCEPT ![owner] = pri]
          /\ Goto(td, "sort")
          /\ peer' = [peer EXCEPT ![td] = owner]
          /\ tsp' = [tsp EXCEPT ![td] = td_blocked[owner]]
          /\ tcp' = [tcp EXCEPT ![td] = TC_LOOKUP(ts_lockobj[td_blocked[owner]])]
          /\ UNCHANGED sched_lock
    /\ UNCHANGED <<lockVars, tc_lock, tsVars, td_turnstile, td_blocked, td_state, tsnoblock,
                   arg, word, pending>>

(* The rest of the loop, under the chain lock: an owner that has been      *)
(* given a turnstile is being woken; any other moves up in its queue.      *)
Resort(td) ==
    LET pri   == td_priority[td]
        ts    == tsp[td]
        owner == peer[td]
        q     == ts_blocked[ts]
        i     == Position(q, owner)
        stays == i = 1 \/ td_priority[q[i - 1]] <= pri
    IN
    /\ pc[td] = "sort"
    /\ tc_lock[tcp[td]] = Null
    /\ \/ /\ td_turnstile[owner] # Null
          /\ Switch(td)
          /\ UNCHANGED ts_blocked
       \/ /\ td_turnstile[owner] = Null
          /\ ts_blocked' = [ts_blocked EXCEPT
                ![ts] = IF stays THEN @ ELSE InsertByPri(RemoveAt(q, i), owner, pri)]
          /\ Goto(td, "prop")
          /\ tcp' = [tcp EXCEPT ![td] = Null]
          /\ peer' = [peer EXCEPT ![td] = Null]
          /\ UNCHANGED <<sched_lock, tsp>>
    /\ UNCHANGED <<lockVars, tc_lock, tc_turnstiles, ts_pending, ts_free, ts_lockobj, ts_owner,
                   td_turnstile, schedVars, arg, word, pending>>

(* Back from mi_switch() in turnstile_wait: round the loop of              *)
(* _mtx_lock_sleep again.                                                  *)
Resume(td) ==
    /\ At(td, "blocked")
    /\ Goto(td, "obtain")
    /\ UNCHANGED <<lockVars, spinVars, tsVars, td_turnstile, schedVars, locals>>

-----------------------------------------------------------------------------
(* Releasing. *)

StaysRecursed(m) == mtx_lock[m].recursed   \* mutant: MTX_RECURSED is never cleared

(* The recursed bit after _mtx_unlock_sleep() has undone one recursion. *)
Unrecursed(m) == IF mtx_recurse[m] = 1 THEN 0 ELSE mtx_lock[m].recursed

(* mtx_unlock(m): compare-and-set the plain word to free, else             *)
(* _mtx_unlock_sleep, which undoes a recursion or goes for the turnstile.  *)
MtxUnlock(td, m) ==
    /\ At(td, "idle")
    /\ held[td][m] > 0
    /\ held' = [held EXCEPT ![td][m] = @ - 1]
    /\ \/ /\ mtx_lock[m] = OwnedBy(td)
          /\ mtx_lock' = [mtx_lock EXCEPT ![m] = MTX_UNOWNED]
          /\ UNCHANGED <<mtx_recurse, pc, arg>>
       \/ /\ mtx_lock[m] # OwnedBy(td)
          /\ mtx_recurse[m] # 0
          /\ mtx_recurse' = [mtx_recurse EXCEPT ![m] = @ - 1]
          /\ mtx_lock' = [mtx_lock EXCEPT ![m].recursed = Unrecursed(m)]
          /\ UNCHANGED <<pc, arg>>
       \/ /\ mtx_lock[m] # OwnedBy(td)
          /\ mtx_recurse[m] = 0
          /\ Goto(td, "ulookup")
          /\ arg' = [arg EXCEPT ![td] = m]
          /\ UNCHANGED <<mtx_lock, mtx_recurse>>
    /\ UNCHANGED <<spinVars, tsVars, td_turnstile, schedVars, word, tsp, tcp, peer, pending>>

(* _mtx_unlock_sleep with no turnstile hashed (ADAPTIVE_MUTEXES): nobody   *)
(* blocked, they all spun.                                                 *)
UnlockNoSleepers(td) ==
    LET m == arg[td] IN
    /\ At(td, "ulookup")
    /\ tc_lock[TC_HASH[m]] = Null
    /\ Adaptive
    /\ turnstile_lookup(m) = Null
    /\ mtx_lock' = [mtx_lock EXCEPT ![m] = MTX_UNOWNED]
    /\ Return(td)
    /\ UNCHANGED <<mtx_recurse, held, spinVars, tsVars, td_turnstile, schedVars, word, tsp,
                   tcp, peer, pending>>

(* Mutant: the spare turnstile stays on the free list. *)
SignalKeepsSpare(ts, c) ==
    LET td1   == Head(ts_blocked[ts])
        empty == Tail(ts_blocked[ts]) = <<>>
    IN
    /\ ts_blocked' = [ts_blocked EXCEPT ![ts] = Tail(@)]
    /\ ts_pending' = [ts_pending EXCEPT ![ts] = @ \cup {td1}]
    /\ \/ /\ empty
          /\ tc_turnstiles' = [tc_turnstiles EXCEPT ![c] = @ \ {ts}]
          /\ td_turnstile' = [td_turnstile EXCEPT ![td1] = ts]
       \/ /\ ~empty
          /\ \E spare \in ts_free[ts] : td_turnstile' = [td_turnstile EXCEPT ![td1] = spare]
          /\ UNCHANGED tc_turnstiles
    /\ UNCHANGED ts_free

(* turnstile_signal moves the head of the queue to the pending list and    *)
(* hands it a turnstile: this one when the queue runs empty, a spare one   *)
(* otherwise.                                                              *)
turnstile_signal(ts, c) ==
    LET td1   == Head(ts_blocked[ts])
        empty == Tail(ts_blocked[ts]) = <<>>
    IN
    /\ ts_blocked' = [ts_blocked EXCEPT ![ts] = Tail(@)]
    /\ ts_pending' = [ts_pending EXCEPT ![ts] = @ \cup {td1}]
    /\ \/ /\ empty
          /\ tc_turnstiles' = [tc_turnstiles EXCEPT ![c] = @ \ {ts}]
          /\ td_turnstile' = [td_turnstile EXCEPT ![td1] = ts]
          /\ UNCHANGED ts_free
       \/ /\ ~empty
          /\ \E spare \in ts_free[ts] :
                /\ ts_free' = [ts_free EXCEPT ![ts] = @ \ {spare}]
                /\ td_turnstile' = [td_turnstile EXCEPT ![td1] = spare]
          /\ UNCHANGED tc_turnstiles

AlwaysUnowned(ts) == MTX_UNOWNED   \* mutant: the cookie is never stored

(* The word after the signal: free, or the contested cookie while threads  *)
(* stay blocked.                                                           *)
ReleasedWord(ts) == IF Tail(ts_blocked[ts]) = <<>> THEN MTX_UNOWNED ELSE MTX_CONTESTED

(* The contested release: signal one waiter, then free the word, keeping   *)
(* the contested cookie while other threads stay blocked.                  *)
UnlockSignal(td) ==
    LET m  == arg[td]
        ts == turnstile_lookup(m)
    IN
    /\ At(td, "ulookup")
    /\ tc_lock[TC_HASH[m]] = Null
    /\ ts # Null
    /\ tc_lock' = [tc_lock EXCEPT ![TC_HASH[m]] = td]
    /\ turnstile_signal(ts, TC_HASH[m])
    /\ mtx_lock' = [mtx_lock EXCEPT ![m] = ReleasedWord(ts)]
    /\ tsp' = [tsp EXCEPT ![td] = ts]
    /\ peer' = [peer EXCEPT ![td] = Head(ts_blocked[ts])]
    /\ Goto(td, "unpend")
    /\ UNCHANGED <<mtx_recurse, held, sched_lock, ts_lockobj, ts_owner, schedVars, arg, word,
                   tcp, pending>>

(* Mutant: turnstile_unpend leaves the turnstile on the td_contested list. *)
UnpendKeepsOwner(td) ==
    LET ts == tsp[td] IN
    /\ At(td, "unpend")
    /\ pending' = [pending EXCEPT ![td] = ts_pending[ts]]
    /\ ts_pending' = [ts_pending EXCEPT ![ts] = {}]
    /\ ts_lockobj' = [ts_lockobj EXCEPT ![ts] = IF ts_blocked[ts] = <<>> THEN Null ELSE @]
    /\ UNCHANGED ts_owner
    /\ tc_lock' = [tc_lock EXCEPT ![TC_HASH[arg[td]]] = Null]
    /\ tsp' = [tsp EXCEPT ![td] = Null]
    /\ Goto(td, "unpendpri")
    /\ UNCHANGED <<lockVars, sched_lock, tc_turnstiles, ts_blocked, ts_free, td_turnstile,
                   schedVars, arg, word, tcp, peer>>

(* turnstile_unpend up to the release of the chain lock. *)
Unpend(td) ==
    LET ts == tsp[td] IN
    /\ At(td, "unpend")
    /\ pending' = [pending EXCEPT ![td] = ts_pending[ts]]
    /\ ts_pending' = [ts_pending EXCEPT ![ts] = {}]
    /\ ts_lockobj' = [ts_lockobj EXCEPT ![ts] = IF ts_blocked[ts] = <<>> THEN Null ELSE @]
    /\ ts_owner' = [ts_owner EXCEPT ![ts] = Null]
    /\ tc_lock' = [tc_lock EXCEPT ![TC_HASH[arg[td]]] = Null]
    /\ tsp' = [tsp EXCEPT ![td] = Null]
    /\ Goto(td, "unpendpri")
    /\ UNCHANGED <<lockVars, sched_lock, tc_turnstiles, ts_blocked, ts_free, td_turnstile,
                   schedVars, arg, word, tcp, peer>>

LentForgotten(td) == BasePri[td]     \* mutant: other contested locks are forgotten
LentForEver(td)   == td_priority[td]  \* mutant: the priority is never returned

(* The priority a thread is left with when it gives a contested lock up:   *)
(* its base priority, or that of the first waiter of a lock it still has.  *)
LentPri(td) ==
    LET cps == {td_priority[Head(ts_blocked[ts])] : ts \in td_contested(td)}
    IN  CHOOSE p \in cps \cup {BasePri[td]} : \A q \in cps \cup {BasePri[td]} : p <= q

(* turnstile_unpend under sched_lock: give the borrowed priority back and  *)
(* wake the pending threads, or tell the ones still on their way into      *)
(* turnstile_wait not to block.                                            *)
UnpendPri(td) ==
    LET pend    == pending[td]
        blocked == {t \in pend : td_state[t] = "lock"}
    IN
    /\ At(td, "unpendpri")
    /\ sched_lock = Null
    /\ td_priority' = [td_priority EXCEPT ![td] = LentPri(td)]
    /\ td_blocked' = [t \in Threads |-> IF t \in blocked THEN Null ELSE td_blocked[t]]
    /\ td_state' = [t \in Threads |-> IF t \in blocked THEN "runq" ELSE td_state[t]]
    /\ tsnoblock' = tsnoblock \cup (pend \ blocked)
    /\ pending' = [pending EXCEPT ![td] = {}]
    /\ Goto(td, "uswitch")
    /\ UNCHANGED <<lockVars, spinVars, tsVars, td_turnstile, arg, word, tsp, tcp, peer>>

(* The tail of _mtx_unlock_sleep for a client that is not in a critical    *)
(* section: compare priorities without a lock ...                          *)
USwitch(td) ==
    /\ At(td, "uswitch")
    /\ \/ /\ td_priority[peer[td]] >= td_priority[td]
          /\ peer' = [peer EXCEPT ![td] = Null]
          /\ Return(td)
       \/ /\ td_priority[peer[td]] < td_priority[td]
          /\ Goto(td, "uyield")
          /\ UNCHANGED <<peer, arg>>
    /\ UNCHANGED <<lockVars, spinVars, tsVars, td_turnstile, schedVars, word, tsp, tcp, pending>>

(* ... and yield the CPU to a more urgent thread that is not running. *)
UYield(td) ==
    /\ At(td, "uyield")
    /\ sched_lock = Null
    /\ td_state' = [td_state EXCEPT
          ![td] = IF td_state[peer[td]] = "running" THEN @ ELSE "runq"]
    /\ peer' = [peer EXCEPT ![td] = Null]
    /\ Return(td)
    /\ UNCHANGED <<lockVars, spinVars, tsVars, td_turnstile, td_blocked, td_priority, tsnoblock,
                   word, tsp, tcp, pending>>

-----------------------------------------------------------------------------
(* The scheduler, as far as it decides who executes the steps above. *)

HoldsSpin(td) == sched_lock = td \/ \E c \in Chains : tc_lock[c] = td

(* An interrupt schedules an ithread, which takes the CPU of a thread that *)
(* is in no critical section.                                              *)
Preempt(td) ==
    /\ td_state[td] = "running"
    /\ ~HoldsSpin(td)
    /\ sched_lock = Null
    /\ td_state' = [td_state EXCEPT ![td] = "runq"]
    /\ UNCHANGED <<lockVars, spinVars, tsVars, td_turnstile, td_blocked, td_priority,
                   tsnoblock, pc, locals>>

(* A CPU without a thread chooses the most urgent one of the run queue. *)
Dispatch(td) ==
    /\ td_state[td] = "runq"
    /\ sched_lock = Null
    /\ Cardinality({t \in Threads : td_state[t] = "running"}) < NCPU
    /\ \A t \in Threads : td_state[t] = "runq" => td_priority[td] <= td_priority[t]
    /\ td_state' = [td_state EXCEPT ![td] = "running"]
    /\ UNCHANGED <<lockVars, spinVars, tsVars, td_turnstile, td_blocked, td_priority,
                   tsnoblock, pc, locals>>

-----------------------------------------------------------------------------
Client(td) == \E m \in Locks : MtxLock(td, m) \/ MtxTrylock(td, m) \/ MtxUnlock(td, m)

LockStep(td) ==
    \/ Obtain(td) \/ Lookup(td) \/ Claim(td) \/ ClaimPri(td) \/ Cmpset(td) \/ Spin(td)
    \/ Wait(td) \/ Block(td) \/ Propagate(td) \/ Resort(td) \/ Resume(td)

UnlockStep(td) ==
    \/ UnlockNoSleepers(td) \/ UnlockSignal(td) \/ Unpend(td) \/ UnpendPri(td)
    \/ USwitch(td) \/ UYield(td)

Next ==
    \E td \in Threads :
        Client(td) \/ LockStep(td) \/ UnlockStep(td) \/ Preempt(td) \/ Dispatch(td)

Spec == Init /\ [][Next]_vars

-----------------------------------------------------------------------------
(* Properties. *)

LockTypeOK ==
    /\ mtx_lock \in [Locks -> Word]
    /\ mtx_recurse \in [Locks -> Nat]
    /\ held \in [Threads -> [Locks -> Nat]]
    /\ pc \in [Threads -> PcValues]
    /\ arg \in [Threads -> Locks \cup {Null}]
    /\ word \in [Threads -> Word]
    /\ tc_lock \in [Chains -> Threads \cup {Null}]

(* Every variable has the shape of its C counterpart. *)
TypeOK ==
    /\ LockTypeOK
    /\ sched_lock \in Threads \cup {Null}
    /\ tc_turnstiles \in [Chains -> SUBSET Turnstiles]
    /\ ts_blocked \in [Turnstiles -> Seq(Threads)]
    /\ ts_pending \in [Turnstiles -> SUBSET Threads]
    /\ ts_free \in [Turnstiles -> SUBSET Turnstiles]
    /\ ts_lockobj \in [Turnstiles -> Locks \cup {Null}]
    /\ ts_owner \in [Turnstiles -> Threads \cup {Null}]
    /\ td_turnstile \in [Threads -> Turnstiles \cup {Null}]
    /\ td_blocked \in [Threads -> Turnstiles \cup {Null}]
    /\ td_state \in [Threads -> {"running", "runq", "lock"}]
    /\ td_priority \in [Threads -> Nat]
    /\ tsnoblock \in SUBSET Threads
    /\ tsp \in [Threads -> Turnstiles \cup {Null}]
    /\ tcp \in [Threads -> Chains \cup {Null}]
    /\ peer \in [Threads -> Threads \cup {Null}]
    /\ pending \in [Threads -> SUBSET Threads]

(* Between the return of mtx_lock() and the call of mtx_unlock() a thread  *)
(* has the mutex to itself, whichever path the two calls took.             *)
MutualExclusion ==
    \A m \in Locks : \A t, u \in Threads :
        held[t][m] > 0 /\ held[u][m] > 0 => t = u

(* The word, its RECURSED bit and mtx_recurse agree with what the holder   *)
(* did, however other CPUs toggled the CONTESTED bit meanwhile.            *)
WordMatchesHolder ==
    \A td \in Threads, m \in Locks :
        held[td][m] > 0 =>
            /\ mtx_owned(td, m)
            /\ mtx_recurse[m] = held[td][m] - 1
            /\ (mtx_lock[m].recursed = 1) <=> (mtx_recurse[m] > 0)

Queued(td, ts) == td \in ToSet(ts_blocked[ts])

BeingWoken(td) ==
    \/ \E ts \in Turnstiles : td \in ts_pending[ts]
    \/ \E u \in Threads : td \in pending[u]

(* A thread that has left the chain lock to block. *)
Committed(td) == td_state[td] = "lock" \/ (pc[td] = "block" /\ td \notin tsnoblock)

(* No wakeup is lost: a thread that blocks, or is about to, is queued on   *)
(* the turnstile hashed for its mutex, whose word is marked contested so   *)
(* that the release takes the slow path, or it is on its way to the run    *)
(* queue in some turnstile_unpend().                                       *)
NoLostWakeup ==
    \A td \in Threads :
        Committed(td) =>
            \/ /\ mtx_lock[arg[td]].contested = 1
               /\ \E ts \in tc_turnstiles[TC_HASH[arg[td]]] :
                     ts_lockobj[ts] = arg[td] /\ Queued(td, ts)
            \/ BeingWoken(td)

(* A thread that is awake and will try for m without anybody's help. *)
Heir(td, m) ==
    /\ arg[td] = m
    /\ \/ pc[td] \in {"obtain", "lookup", "claim"}
       \/ pc[td] = "blocked" /\ td_state[td] # "lock"
       \/ pc[td] = "block" /\ td \in tsnoblock
       \/ pc[td] \in {"block", "prop", "sort", "blocked"} /\ BeingWoken(td)

(* A mutex released as MTX_CONTESTED, which no fast path can take, always  *)
(* has a woken thread that will claim it for the threads left behind.      *)
ContestedHasHeir ==
    \A m \in Locks :
        mtx_lock[m] = MTX_CONTESTED => \E td \in Threads : Heir(td, m)

(* Turnstiles are lent, never lost or shared: each is in the hands of one  *)
(* thread, or hashed on one chain, or spare on one hashed turnstile; a     *)
(* hashed turnstile has one spare for every waiter but one; and a thread   *)
(* that attaches its own finds it as turnstile_alloc() left it.            *)
TurnstileConservation ==
    /\ TypeOK
    /\ \A ts \in Turnstiles :
          Cardinality({td \in Threads : td_turnstile[td] = ts})
            + Cardinality({c \in Chains : ts \in tc_turnstiles[c]})
            + Cardinality({t \in Turnstiles : ts \in ts_free[t]}) = 1
    /\ \A c \in Chains : \A ts \in tc_turnstiles[c] :
          Len(ts_blocked[ts]) = Cardinality(ts_free[ts]) + 1
    /\ \A td \in Threads :
        pc[td] = "wait" =>
            LET ts == td_turnstile[td] IN
            /\ ts # Null
            /\ ts_blocked[ts] = <<>> /\ ts_pending[ts] = {} /\ ts_free[ts] = {}
            /\ ts_lockobj[ts] = Null /\ ts_owner[ts] = Null

(* What the code takes for granted of the turnstiles it looks up: a        *)
(* contested release or claim finds one, with a waiter in it and the owner *)
(* the caller expects (the MPASSes of _mtx_unlock_sleep(),                 *)
(* turnstile_signal() and turnstile_claim()); turnstile_unpend() reads the *)
(* first waiter of every turnstile on td_contested without checking that   *)
(* there is one; and propagate_priority() reaches the queue the owner is   *)
(* blocked in with that queue's chain locked, although it computed the     *)
(* chain from an unlocked read of ts_lockobj.                              *)
TurnstileFound ==
    \A td \in Threads :
        LET m  == arg[td]
            ts == turnstile_lookup(m)
        IN
        /\ pc[td] = "ulookup" /\ tc_lock[TC_HASH[m]] = Null =>
              \/ ts = Null /\ Adaptive
              \/ ts # Null /\ ts_owner[ts] = td /\ ts_blocked[ts] # <<>>
        /\ pc[td] = "claim" =>
              tsp[td] # Null /\ ts_owner[tsp[td]] = Null /\ ts_blocked[tsp[td]] # <<>>
        /\ pc[td] = "wait" /\ tsp[td] # Null => ts_owner[tsp[td]] = mtx_lock[m].owner
        /\ pc[td] # "unpend" => \A t \in td_contested(td) : ts_blocked[t] # <<>>
        /\ pc[td] = "sort" /\ td_turnstile[peer[td]] = Null =>
              Queued(peer[td], tsp[td]) /\ tsp[td] \in tc_turnstiles[tcp[td]]

(* No thread is between joining a queue and being inhibited, none is       *)
(* propagating a priority and none is about to borrow or return one.       *)
PrioritiesSettled ==
    \A td \in Threads :
        pc[td] \in {"idle", "obtain", "lookup", "claim", "cmpset", "wait", "spin", "blocked"}

(* Priority inheritance: once the priorities are settled, the owner of a   *)
(* contested mutex is at least as urgent as the first thread blocked on    *)
(* it.  It is not always as urgent as the others: a thread whose priority  *)
(* is raised between its joining a queue and its blocking keeps its place. *)
PriorityInheritance ==
    PrioritiesSettled =>
        \A ts \in Turnstiles :
            ts_owner[ts] # Null /\ ts_blocked[ts] # <<>> =>
                td_priority[ts_owner[ts]] <= td_priority[Head(ts_blocked[ts])]

(* A borrowed priority is given back: a thread that runs without any mutex *)
(* of its own has its base priority.                                       *)
PriorityReturned ==
    \A td \in Threads :
        pc[td] = "idle" /\ (\A m \in Locks : held[td][m] = 0) => td_priority[td] = BasePri[td]

-----------------------------------------------------------------------------
(* The promise to the client: see MutexSpec. *)

Acquiring(td) == pc[td] \in {"obtain", "lookup", "claim", "claimpri", "cmpset", "spin", "wait",
                            "block", "prop", "sort", "blocked"}

wants == [td \in Threads |-> IF Acquiring(td) THEN arg[td] ELSE Null]

Mutex == INSTANCE MutexSpec WITH depth <- held, wants <- wants

(* The lock word, the turnstiles and the scheduler together implement      *)
(* mutexes: every step is a step of MutexSpec or invisible to it.          *)
ImplementsMutex == Mutex!Spec

-----------------------------------------------------------------------------
(* Liveness.  A sleep mutex is not fair: a thread that is woken competes   *)
(* with newcomers, so one request may be overtaken for ever.  What the     *)
(* wakeups do guarantee is that requests drain.                            *)

Arrive(td) == Preempt(td) \/ \E m \in Locks : MtxLock(td, m) \/ MtxTrylock(td, m)

Release(td) == \E m \in Locks : MtxUnlock(td, m)

(* A CPU executes the thread it runs, an idle CPU looks at the run queue,  *)
(* and a client that holds a mutex releases it in the end.                 *)
Fairness ==
    \A td \in Threads :
        /\ WF_vars(LockStep(td) \/ UnlockStep(td))
        /\ WF_vars(Dispatch(td))
        /\ WF_vars(Release(td))

FairSpec == Spec /\ Fairness

Idle == \A td \in Threads : pc[td] = "idle" /\ \A m \in Locks : held[td][m] = 0

(* Once no new requests come in, and interrupts leave the CPUs alone,      *)
(* every thread inside mtx_lock() gets its mutex and every mutex ends up   *)
(* free: a lost wakeup, a claim nobody makes or a spin lock left held      *)
(* would stop it.                                                          *)
RequestsDrain == <>[][\A td \in Threads : ~Arrive(td)]_vars => <>[]Idle

-----------------------------------------------------------------------------
(* The inductive invariant, in named parts. *)

Owner(m) == mtx_lock[m].owner
Contested(m) == mtx_lock[m].contested = 1
HoldsChain(td) == tc_lock[TC_HASH[arg[td]]] = td

(* The lock word against its users: the owner in the word holds the mutex, *)
(* counted by mtx_recurse, or is on its way into or out of it.             *)
LockInv ==
    /\ \A td \in Threads, m \in Locks : held[td][m] > 0 =>
          Owner(m) = td /\ mtx_recurse[m] = held[td][m] - 1
    /\ \A td \in Threads, m \in Locks : Owner(m) = td =>
          held[td][m] > 0 \/ (pc[td] \in {"claimpri", "ulookup"} /\ arg[td] = m)
    /\ \A td \in Threads : pc[td] # "idle" => arg[td] \in Locks
    /\ \A td \in Threads : pc[td] \in {"claimpri", "ulookup"} =>
          Owner(arg[td]) = td /\ Contested(arg[td]) /\ mtx_recurse[arg[td]] = 0
    /\ \A td \in Threads : Acquiring(td) \/ pc[td] = "ulookup" => held[td][arg[td]] = 0
    /\ \A m \in Locks : Owner(m) = Null => mtx_lock[m].recursed = 0 /\ mtx_recurse[m] = 0
    /\ \A m \in Locks : mtx_lock[m].recursed = 1 <=> mtx_recurse[m] > 0

(* A claimant and a waiter keep the chain locked, so that the word they    *)
(* decided on stays as they saw it.                                        *)
ChainInv ==
    /\ \A td \in Threads : pc[td] \in {"claim", "cmpset", "wait", "unpend"} => HoldsChain(td)
    /\ \A td \in Threads : pc[td] = "claim" => Owner(arg[td]) = Null /\ Contested(arg[td])
    /\ \A td \in Threads : pc[td] = "cmpset" => word[td].owner \in Threads \ {td}
    /\ \A td \in Threads : pc[td] = "cmpset" /\ word[td].contested = 1 =>
          Contested(arg[td]) /\ Owner(arg[td]) = word[td].owner
    /\ \A td \in Threads : pc[td] = "wait" =>
          Contested(arg[td]) /\ Owner(arg[td]) \in Threads \ {td}

(* The part of the invariant that is about the lock words alone.  It is    *)
(* inductive by itself.                                                    *)
LockSafe == LockTypeOK /\ LockInv /\ ChainInv

=============================================================================
