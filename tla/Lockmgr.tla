------------------------------- MODULE Lockmgr -------------------------------
(***************************************************************************)
(* The lock manager (sys/kern/kern_lock.c): shared and exclusive locks     *)
(* with upgrade, downgrade, recursion, drain and requests that may fail.   *)
(*                                                                         *)
(* lockmgr() runs under lk_interlock, so a call is one step up to its      *)
(* return, its sleep or its spin in apause(), and one step from there on.  *)
(* The flags SHARE_NONZERO and WAIT_NONZERO change with the counts they    *)
(* stand for and are derived from them.  LK_DRAINING is set and never      *)
(* read; transferlockers() has no caller.  msleep() is used through what   *)
(* Sleep shows of it: a thread leaves the queue by wakeup(), or by its     *)
(* timeout or a signal, and finds out when it runs again.                  *)
(***************************************************************************)
EXTENDS Integers, FiniteSets

CONSTANTS
    Threads,        \* kernel threads
    Deadlktreat,    \* the threads with TDF_DEADLKTREAT
    NOPROC,         \* LK_NOPROC: nobody holds the lock exclusively
    KERNPROC,       \* LK_KERNPROC: the kernel does, on behalf of an I/O
    MaxExclusive    \* bound on lk_exclusivecount

ASSUME LockmgrAssumption ==
    /\ IsFiniteSet(Threads) /\ Deadlktreat \subseteq Threads
    /\ NOPROC \notin Threads /\ KERNPROC \notin Threads /\ NOPROC # KERNPROC
    /\ MaxExclusive \in Nat \ {0}

VARIABLES
    lk,         \* struct lock
    pc,         \* "idle", "asleep", "woken", "failed" (off the queue by an error) or "pause"
    rq,         \* the request of a thread in acquire(): its stage and how it waits
    shares,     \* history: the shared locks each thread has been granted
    abandoned,  \* history: a request gave up LK_WANT_* since the last wakeup(lkp)
    panicstr    \* the kernel has panicked

vars == <<lk, pc, rq, shares, abandoned, panicstr>>

Stages == {"shared", "excl1", "excl2", "upgrade", "drain"}

(* With LK_SLEEPFAIL, with LK_NOWAIT or with neither.  Any sleep may end   *)
(* by LK_TIMELOCK or PCATCH: one without them is one where that never      *)
(* happens.                                                                *)
Hows == {"wait", "sleepfail", "nowait"}

NoRequest == [stage |-> "none", how |-> "wait"]

(* lockinit *)
Init ==
    /\ lk = [flags |-> {}, sharecount |-> 0, waitcount |-> 0, exclusivecount |-> 0,
             lockholder |-> NOPROC]
    /\ pc = [td \in Threads |-> "idle"]
    /\ rq = [td \in Threads |-> NoRequest]
    /\ shares = [td \in Threads |-> 0]
    /\ abandoned = FALSE
    /\ panicstr = FALSE

-----------------------------------------------------------------------------
(* The lock. *)

Flags(l) ==
    l.flags \cup (IF l.sharecount > 0 THEN {"SHARE_NONZERO"} ELSE {})
            \cup (IF l.waitcount > 0 THEN {"WAIT_NONZERO"} ELSE {})

LK_ALL == {"HAVE_EXCL", "WANT_EXCL", "WANT_UPGRADE", "SHARE_NONZERO", "WAIT_NONZERO"}

(* Mutant: an exclusive request does not wait for an upgrade. *)
WantedNoUpgrade(td, st) ==
    CASE st = "shared"  -> {"HAVE_EXCL"} \cup
                           (IF td \in Deadlktreat THEN {} ELSE {"WANT_EXCL", "WANT_UPGRADE"})
      [] st = "excl1"   -> {"HAVE_EXCL", "WANT_EXCL"}
      [] st \in {"excl2", "upgrade"} -> {"SHARE_NONZERO"}
      [] st = "drain"   -> LK_ALL

(* Mutant: the second wait of an exclusive request also heeds its own flag. *)
WantedOwn(td, st) ==
    CASE st = "shared"  -> {"HAVE_EXCL"} \cup
                           (IF td \in Deadlktreat THEN {} ELSE {"WANT_EXCL", "WANT_UPGRADE"})
      [] st = "excl1"   -> {"HAVE_EXCL", "WANT_EXCL"}
      [] st = "excl2"   -> {"WANT_EXCL", "WANT_UPGRADE", "SHARE_NONZERO"}
      [] st = "upgrade" -> {"SHARE_NONZERO"}
      [] st = "drain"   -> LK_ALL

(* The flags that keep a thread waiting in each acquire(). *)
Wanted(td, st) ==
    CASE st = "shared"  -> {"HAVE_EXCL"} \cup
                           (IF td \in Deadlktreat THEN {} ELSE {"WANT_EXCL", "WANT_UPGRADE"})
      [] st = "excl1"   -> {"HAVE_EXCL", "WANT_EXCL"}
      [] st = "excl2"   -> {"WANT_UPGRADE", "SHARE_NONZERO"}
      [] st = "upgrade" -> {"SHARE_NONZERO"}
      [] st = "drain"   -> LK_ALL

Blocks(td, st, l) == Flags(l) \cap Wanted(td, st) # {}

sharelock(l, incr)   == [l EXCEPT !.sharecount = @ + incr]
shareunlock(l)       == [l EXCEPT !.sharecount = @ - 1]
SetFlag(l, f)        == [l EXCEPT !.flags = @ \cup {f}]
ClearFlag(l, f)      == [l EXCEPT !.flags = @ \ {f}]

(* shareunlock() wakes the sleepers when the last share goes. *)
ShareunlockWakes(l) == l.sharecount = 1 /\ l.flags \cap {"WANT_EXCL", "WANT_UPGRADE"} # {}

(* The flag a request holds while it is in the acquire() of a stage. *)
WantFlag(st) ==
    CASE st = "excl2" -> {"WANT_EXCL"} [] st = "upgrade" -> {"WANT_UPGRADE"} [] OTHER -> {}

(* LK_HAVE_EXCL for td. *)
MakeHolder(l, td, st) ==
    [l EXCEPT !.flags = (@ \ WantFlag(st)) \cup {"HAVE_EXCL"}, !.lockholder = td, !.exclusivecount = 1]

(* wakeup(lkp) and wakeup(&lkp->lk_flags), on the threads in state p. *)
Sleepers(p) == {td \in Threads : p[td] = "asleep" /\ rq[td].stage # "drain"}
Drainers(p) == {td \in Threads : p[td] = "asleep" /\ rq[td].stage = "drain"}
Wake(p, s)  == [td \in Threads |-> IF td \in s THEN "woken" ELSE p[td]]

-----------------------------------------------------------------------------
(* The common parts of lockmgr(), from lock l and threads in state p. *)

(* The end of every call: wake those who drain if all activity has ended. *)
Finish(l, p) ==
    LET drained == "WAITDRAIN" \in l.flags /\ Flags(l) \cap LK_ALL = {}
    IN  /\ lk' = IF drained THEN ClearFlag(l, "WAITDRAIN") ELSE l
        /\ pc' = IF drained THEN Wake(p, Drainers(p)) ELSE p

(* td returns from lockmgr(). *)
Return(td, l, p) ==
    /\ Finish(l, [p EXCEPT ![td] = "idle"])
    /\ rq' = [rq EXCEPT ![td] = NoRequest]

(* Mutant: a request that fails leaves without looking for those who drain. *)
FailQuietly(td, st, l, p) ==
    /\ lk' = [l EXCEPT !.flags = @ \ WantFlag(st)]
    /\ pc' = [p EXCEPT ![td] = "idle"]
    /\ rq' = [rq EXCEPT ![td] = NoRequest]
    /\ UNCHANGED panicstr

(* Mutant: a request that fails leaves its LK_WANT_* behind. *)
FailKeepsFlag(td, st, l, p) ==
    /\ Return(td, l, p)
    /\ UNCHANGED panicstr

(* Return with an error: the flag goes, nobody is woken. *)
Fail(td, st, l, p) ==
    /\ Return(td, [l EXCEPT !.flags = @ \ WantFlag(st)], p)
    /\ UNCHANGED panicstr

(* Return with the lock. *)
Granted(td, st, l, p) ==
    /\ Return(td, IF st = "shared" THEN sharelock(l, 1) ELSE MakeHolder(l, td, st), p)
    /\ panicstr' = (st \in {"excl2", "upgrade"} /\ l.exclusivecount # 0)

(* Spin in apause(), on SMP and without LK_NOPAUSE, or sleep.              *)
(* acquiredrain() sleeps on &lk_flags and is not counted.                  *)
Wait(td, st, h, l, p, spin) ==
    /\ lk' = IF spin THEN l
             ELSE IF st = "drain" THEN SetFlag(l, "WAITDRAIN")
             ELSE [l EXCEPT !.waitcount = @ + 1]
    /\ pc' = [p EXCEPT ![td] = IF spin THEN "pause" ELSE "asleep"]
    /\ rq' = [rq EXCEPT ![td] = [stage |-> st, how |-> h]]
    /\ UNCHANGED panicstr

(* acquire() and acquiredrain(), entered with lock l (again: from a sleep  *)
(* or a spin in it).                                                       *)
Acquire(td, st, h, again, l, p) ==
    \/ ~Blocks(td, st, l) /\ Granted(td, st, l, p)
    \/ Blocks(td, st, l) /\ h = "nowait" /\ Fail(td, st, l, p)
    \/ Blocks(td, st, l) /\ h # "nowait" /\ \E spin \in {FALSE, ~again} : Wait(td, st, h, l, p, spin)

(* LK_EXCLUSIVE: become the one who wants the lock, then wait for shares   *)
(* and upgrades to finish.                                                 *)
Exclusive(td, h, again, l, p) ==
    \/ /\ Blocks(td, "excl1", l)
       /\ Acquire(td, "excl1", h, again, l, p)
    \/ /\ ~Blocks(td, "excl1", l)
       /\ Acquire(td, "excl2", h, FALSE, SetFlag(l, "WANT_EXCL"), p)

-----------------------------------------------------------------------------
(* The requests.  Clients ask for a lock while they hold none, and give    *)
(* back or convert what they hold.                                         *)

HoldsNone(td) == pc[td] = "idle" /\ shares[td] = 0 /\ lk.lockholder # td

SharedAfter(td, l) ==
    IF Blocks(td, "shared", l) THEN shares ELSE [shares EXCEPT ![td] = @ + 1]

(* LK_SHARED by a thread that does not hold the lock exclusively. *)
Shared(td, h) ==
    /\ HoldsNone(td)
    /\ Acquire(td, "shared", h, FALSE, lk, pc)
    /\ shares' = SharedAfter(td, lk)
    /\ UNCHANGED abandoned

(* LK_EXCLUSIVE *)
Exclusively(td, h) ==
    /\ HoldsNone(td)
    /\ Exclusive(td, h, FALSE, lk, pc)
    /\ UNCHANGED <<shares, abandoned>>

(* LK_EXCLUSIVE with LK_CANRECURSE by the holder. *)
Recurse(td) ==
    /\ pc[td] = "idle" /\ lk.lockholder = td
    /\ lk.exclusivecount < MaxExclusive
    /\ Return(td, [lk EXCEPT !.exclusivecount = @ + 1], pc)
    /\ UNCHANGED <<shares, abandoned, panicstr>>

(* LK_DRAIN *)
Drain(td, h) ==
    /\ HoldsNone(td)
    /\ Acquire(td, "drain", h, FALSE, lk, pc)
    /\ UNCHANGED <<shares, abandoned>>

(* LK_DOWNGRADE, or LK_SHARED by the holder, which adds a share. *)
Downgrade(td, extra) ==
    /\ pc[td] = "idle" /\ lk.lockholder = td
    /\ Return(td, [sharelock(lk, lk.exclusivecount + extra) EXCEPT
                       !.exclusivecount = 0, !.flags = @ \ {"HAVE_EXCL"}, !.lockholder = NOPROC],
              IF lk.waitcount > 0 THEN Wake(pc, Sleepers(pc)) ELSE pc)
    /\ shares' = [shares EXCEPT ![td] = @ + lk.exclusivecount + extra]
    /\ abandoned' = (abandoned /\ lk.waitcount = 0)
    /\ UNCHANGED panicstr

(* LK_UPGRADE and LK_EXCLUPGRADE (excl): the share goes first. *)
Upgrade(td, h, excl) ==
    LET l       == shareunlock(lk)
        busy    == "WANT_UPGRADE" \in lk.flags
        refused == (busy /\ excl) \/ (h = "nowait" /\ (busy \/ l.sharecount > 1))
        woken   == \/ ShareunlockWakes(lk)
                   \/ busy /\ ~refused /\ l.sharecount = 0 /\ l.waitcount > 0
        p       == IF woken THEN Wake(pc, Sleepers(pc)) ELSE pc
    IN  /\ pc[td] = "idle" /\ shares[td] = 1
        /\ \/ refused /\ Fail(td, "shared", l, p)
           \/ ~refused /\ ~busy /\ Acquire(td, "upgrade", h, FALSE, SetFlag(l, "WANT_UPGRADE"), p)
           \/ ~refused /\ busy /\ Exclusive(td, h, FALSE, l, p)
        /\ shares' = [shares EXCEPT ![td] = 0]
        /\ abandoned' = (abandoned /\ ~woken)

(* BUF_KERNPROC: an I/O takes over the exclusive lock of its initiator. *)
BUF_KERNPROC(td) ==
    /\ pc[td] = "idle" /\ lk.lockholder = td
    /\ lk' = [lk EXCEPT !.lockholder = KERNPROC]
    /\ UNCHANGED <<pc, rq, shares, abandoned, panicstr>>

(* LK_RELEASE: the lock without one hold, and whether it wakes the sleepers. *)
Unlocked ==
    IF lk.exclusivecount = 1
    THEN [lk EXCEPT !.flags = @ \ {"HAVE_EXCL"}, !.lockholder = NOPROC, !.exclusivecount = 0]
    ELSE IF lk.exclusivecount > 1 THEN [lk EXCEPT !.exclusivecount = @ - 1]
    ELSE shareunlock(lk)

ReleaseWakes == (lk.exclusivecount = 0 /\ ShareunlockWakes(lk)) \/ lk.waitcount > 0

ReleaseEnd ==
    /\ Finish(Unlocked, IF ReleaseWakes THEN Wake(pc, Sleepers(pc)) ELSE pc)
    /\ abandoned' = (abandoned /\ ~ReleaseWakes)
    /\ UNCHANGED <<rq, panicstr>>

Release(td) ==
    /\ pc[td] = "idle"
    /\ lk.lockholder = td \/ shares[td] > 0
    /\ ReleaseEnd
    /\ shares' = IF lk.exclusivecount = 0 THEN [shares EXCEPT ![td] = @ - 1] ELSE shares

(* biodone() releases the lock that an I/O has taken over. *)
biodone == lk.lockholder = KERNPROC /\ ReleaseEnd /\ UNCHANGED shares

-----------------------------------------------------------------------------
(* msleep() ends by the timeout of the lock or by a signal. *)
SleepFails(td) ==
    /\ pc[td] = "asleep"
    /\ pc' = [pc EXCEPT ![td] = "failed"]
    /\ UNCHANGED <<lk, rq, shares, abandoned, panicstr>>

(* The lock as a thread finds it that comes back from its sleep. *)
Back(td) ==
    IF pc[td] = "pause" \/ rq[td].stage = "drain" THEN lk ELSE [lk EXCEPT !.waitcount = @ - 1]

Errs(td) == pc[td] = "failed" \/ (pc[td] = "woken" /\ rq[td].how = "sleepfail")

(* A thread that slept or spun in acquire() goes on. *)
GiveUp(td) ==
    /\ Errs(td)
    /\ Fail(td, rq[td].stage, Back(td), pc)
    /\ abandoned' = (abandoned \/ rq[td].stage \in {"excl2", "upgrade"})
    /\ UNCHANGED shares

Continue(td) ==
    /\ pc[td] \in {"woken", "pause"} /\ ~Errs(td)
    /\ \/ rq[td].stage = "excl1" /\ Exclusive(td, rq[td].how, TRUE, Back(td), pc)
       \/ rq[td].stage # "excl1" /\ Acquire(td, rq[td].stage, rq[td].how, TRUE, Back(td), pc)
    /\ shares' = IF rq[td].stage = "shared" THEN SharedAfter(td, Back(td)) ELSE shares
    /\ UNCHANGED abandoned

Arrive(td) ==
    \/ \E h \in Hows : \/ Shared(td, h) \/ Exclusively(td, h) \/ Drain(td, h)
                       \/ \E excl \in BOOLEAN : Upgrade(td, h, excl)
    \/ Recurse(td)
    \/ BUF_KERNPROC(td)
    \/ \E extra \in {0, 1} : Downgrade(td, extra)

Next ==
    /\ ~panicstr
    /\ \/ biodone
       \/ \E td \in Threads : Arrive(td) \/ Release(td) \/ SleepFails(td) \/ GiveUp(td) \/ Continue(td)

Spec == Init /\ [][Next]_vars

-----------------------------------------------------------------------------
(* Properties. *)

(* Every variable has its type. *)
TypeOK ==
    /\ lk \in [flags : SUBSET {"HAVE_EXCL", "WANT_EXCL", "WANT_UPGRADE", "WAITDRAIN"},
                sharecount : Nat, waitcount : Nat, exclusivecount : 0..MaxExclusive,
                lockholder : Threads \cup {NOPROC, KERNPROC}]
    /\ pc \in [Threads -> {"idle", "asleep", "woken", "failed", "pause"}]
    /\ rq \in [Threads -> [stage : Stages \cup {"none"}, how : Hows]]
    /\ shares \in [Threads -> Nat]
    /\ abandoned \in BOOLEAN /\ panicstr \in BOOLEAN

InAcquire(st) == {td \in Threads : pc[td] # "idle" /\ rq[td].stage = st}
Counted == {td \in Threads : pc[td] \in {"asleep", "woken", "failed"} /\ rq[td].stage # "drain"}
Shares == UNION {{td} \X (1..shares[td]) : td \in Threads}

(* The lock excludes: while it is held exclusively there is no share, and  *)
(* the flags and counts are exactly those of the threads behind them,      *)
(* however requests fail, spin, upgrade or are handed to the kernel.       *)
LockExact ==
    /\ TypeOK
    /\ ("HAVE_EXCL" \in lk.flags) <=> (lk.exclusivecount > 0)
    /\ ("HAVE_EXCL" \in lk.flags) <=> (lk.lockholder # NOPROC)
    /\ lk.exclusivecount > 0 => lk.sharecount = 0
    /\ lk.sharecount = Cardinality(Shares)
    /\ lk.waitcount = Cardinality(Counted)
    /\ ("WANT_EXCL" \in lk.flags) <=> (InAcquire("excl2") # {})
    /\ ("WANT_UPGRADE" \in lk.flags) <=> (InAcquire("upgrade") # {})
    /\ Cardinality(InAcquire("excl2")) <= 1

(* An accepted upgrade is alone and not overtaken: from the moment its     *)
(* share is given up to its grant or failure nobody holds the lock         *)
(* exclusively ("If the request succeeds, no other processes will have     *)
(* gotten exclusive access ...", lockmgr.h).                               *)
UpgradeNotOvertaken ==
    InAcquire("upgrade") # {} =>
        lk.exclusivecount = 0 /\ Cardinality(InAcquire("upgrade")) = 1

(* No wakeup is lost: nobody sleeps without a cause that a wakeup will     *)
(* follow, unless a request that wanted the lock has given up since the    *)
(* last one; and a thread that drains the lock sleeps only while there is  *)
(* activity, and somebody knows that it has to be woken.                   *)
SleepersBlocked ==
    /\ \A td \in Sleepers(pc) :
         abandoned \/ Flags(lk) \cap (Wanted(td, rq[td].stage) \cup {"HAVE_EXCL"}) # {}
    /\ Drainers(pc) # {} => "WAITDRAIN" \in lk.flags /\ Flags(lk) \cap LK_ALL # {}

(* The panics of lockmgr() that check the lock itself do not come: a lock  *)
(* is granted exclusively only when nobody holds it.                       *)
NoExclusivePanic == ~panicstr

-----------------------------------------------------------------------------
(* Fairness: threads that can run do, holders and I/Os release. *)
Fairness ==
    /\ WF_vars(~panicstr /\ biodone)
    /\ \A td \in Threads :
        /\ WF_vars(~panicstr /\ (GiveUp(td) \/ Continue(td)))
        /\ WF_vars(~panicstr /\ Release(td))

FairSpec == Spec /\ Fairness

(* Once there are no more requests, every thread that waits is served,     *)
(* unless a request has been abandoned and not followed by a release.      *)
RequestsServed ==
    <>[][\A td \in Threads : ~Arrive(td)]_vars =>
        <>[](panicstr \/ abandoned \/ \A td \in Threads : pc[td] = "idle")

=============================================================================
