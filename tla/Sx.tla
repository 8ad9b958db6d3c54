--------------------------------- MODULE Sx ----------------------------------
(***************************************************************************)
(* Shared/exclusive locks (sys/kern/kern_sx.c) on their two condition      *)
(* variables (sys/kern/kern_condvar.c).                                    *)
(*                                                                         *)
(* Every function runs under the mutex sx_lock, so it is one step up to    *)
(* its return or its cv_wait(), and the loop round cv_wait() is one step   *)
(* per iteration.  cv_wait() gives sx_lock up before it joins the wait     *)
(* queue, but under sched_lock, which cv_signal() needs to look at the     *)
(* queue: nobody can see the gap.                                          *)
(***************************************************************************)
EXTENDS Integers, Sequences, FiniteSets, SequencesExt, Threads

CONSTANTS
    MaxShare,   \* bound: how many shared holds a thread has at once
    Null        \* NULL

ASSUME SxAssumption ==
    /\ MaxShare \in Nat
    /\ Null \notin Threads

VARIABLES
    sx_cnt,         \* number of shared holds, -1 while held exclusively
    sx_xholder,     \* the exclusive holder
    sx_shrd_wcnt,   \* threads in the loop of _sx_slock
    sx_excl_wcnt,   \* threads in the loop of _sx_xlock
    shrd_cv,        \* wait queue of sx_shrd_cv; it is only ever emptied
    excl_cv,        \* wait queue of sx_excl_cv, first come first served
    shares,         \* the shared holds of the clients, numbered per thread
    pc              \* where the thread is in the sx code

vars == <<sx_cnt, sx_xholder, sx_shrd_wcnt, sx_excl_wcnt, shrd_cv, excl_cv, shares, pc>>
waitVars == <<sx_shrd_wcnt, sx_excl_wcnt, shrd_cv, excl_cv>>

Share == Threads \X (1..MaxShare)

(* In cv_wait() on either queue, or woken and on the way out of it. *)
PcValues == {"idle", "swait", "swoken", "xwait", "xwoken"}

Init ==
    /\ sx_cnt = 0 /\ sx_xholder = Null
    /\ sx_shrd_wcnt = 0 /\ sx_excl_wcnt = 0
    /\ shrd_cv = {} /\ excl_cv = <<>>
    /\ shares = {}
    /\ pc = [td \in Threads |-> "idle"]

-----------------------------------------------------------------------------
(* cv_signal(&sx->sx_excl_cv) and cv_broadcast(&sx->sx_shrd_cv) *)

cv_signal_excl ==
    /\ \/ excl_cv = <<>> /\ UNCHANGED <<excl_cv, pc>>
       \/ excl_cv # <<>> /\ excl_cv' = Tail(excl_cv) /\ pc' = [pc EXCEPT ![Head(excl_cv)] = "xwoken"]
    /\ UNCHANGED <<sx_shrd_wcnt, sx_excl_wcnt, shrd_cv>>

cv_broadcast_shrd ==
    /\ shrd_cv' = {}
    /\ pc' = [td \in Threads |-> IF td \in shrd_cv THEN "swoken" ELSE pc[td]]
    /\ UNCHANGED <<sx_shrd_wcnt, sx_excl_wcnt, excl_cv>>

NoWakeup == UNCHANGED <<waitVars, pc>>

-----------------------------------------------------------------------------
(* Acquiring. *)

(* The client neither takes a lock it holds exclusively nor asks for an    *)
(* exclusive lock on top of a shared one: both would wait for themselves.  *)
SharesOf(td) == {s \in shares : s[1] = td}
MayShare(td) == pc[td] = "idle" /\ sx_xholder # td
MayExclude(td) == pc[td] = "idle" /\ sx_xholder # td /\ SharesOf(td) = {}

TakeShared(td) ==
    /\ sx_cnt' = sx_cnt + 1
    /\ \E s \in Share \ shares : s[1] = td /\ shares' = shares \cup {s}
    /\ UNCHANGED sx_xholder

TakeExclusive(td) ==
    /\ sx_cnt' = sx_cnt - 1
    /\ sx_xholder' = td
    /\ UNCHANGED shares

(* _sx_slock: take a shared hold, or wait while there is a writer. *)
Slock(td) ==
    /\ MayShare(td)
    /\ \/ /\ sx_cnt >= 0
          /\ TakeShared(td)
          /\ UNCHANGED <<waitVars, pc>>
       \/ /\ sx_cnt < 0
          /\ sx_shrd_wcnt' = sx_shrd_wcnt + 1
          /\ shrd_cv' = shrd_cv \cup {td}
          /\ pc' = [pc EXCEPT ![td] = "swait"]
          /\ UNCHANGED <<sx_cnt, sx_xholder, sx_excl_wcnt, excl_cv, shares>>

(* Back from cv_wait() in _sx_slock: leave the loop or wait again. *)
SlockAgain(td) ==
    /\ pc[td] = "swoken"
    /\ \/ /\ sx_cnt >= 0
          /\ sx_shrd_wcnt' = sx_shrd_wcnt - 1
          /\ TakeShared(td)
          /\ pc' = [pc EXCEPT ![td] = "idle"]
          /\ UNCHANGED <<sx_excl_wcnt, shrd_cv, excl_cv>>
       \/ /\ sx_cnt < 0
          /\ shrd_cv' = shrd_cv \cup {td}
          /\ pc' = [pc EXCEPT ![td] = "swait"]
          /\ UNCHANGED <<sx_cnt, sx_xholder, sx_shrd_wcnt, sx_excl_wcnt, excl_cv, shares>>

(* _sx_xlock: take the lock when it is free, or wait. *)
Xlock(td) ==
    /\ MayExclude(td)
    /\ \/ /\ sx_cnt = 0
          /\ TakeExclusive(td)
          /\ UNCHANGED <<waitVars, pc>>
       \/ /\ sx_cnt # 0
          /\ sx_excl_wcnt' = sx_excl_wcnt + 1
          /\ excl_cv' = Append(excl_cv, td)
          /\ pc' = [pc EXCEPT ![td] = "xwait"]
          /\ UNCHANGED <<sx_cnt, sx_xholder, sx_shrd_wcnt, shrd_cv, shares>>

(* Back from cv_wait() in _sx_xlock. *)
XlockAgain(td) ==
    /\ pc[td] = "xwoken"
    /\ \/ /\ sx_cnt = 0
          /\ sx_excl_wcnt' = sx_excl_wcnt - 1
          /\ TakeExclusive(td)
          /\ pc' = [pc EXCEPT ![td] = "idle"]
          /\ UNCHANGED <<sx_shrd_wcnt, shrd_cv, excl_cv>>
       \/ /\ sx_cnt # 0
          /\ excl_cv' = Append(excl_cv, td)
          /\ pc' = [pc EXCEPT ![td] = "xwait"]
          /\ UNCHANGED <<sx_cnt, sx_xholder, sx_shrd_wcnt, sx_excl_wcnt, shrd_cv, shares>>

TrySlock(td) ==
    /\ MayShare(td)
    /\ sx_cnt >= 0
    /\ TakeShared(td)
    /\ UNCHANGED <<waitVars, pc>>

TryXlock(td) ==
    /\ MayExclude(td)
    /\ sx_cnt = 0
    /\ TakeExclusive(td)
    /\ UNCHANGED <<waitVars, pc>>

-----------------------------------------------------------------------------
(* Releasing. *)

(* Mutant: the count is tested before the release. *)
SunlockTestsTooEarly(td) ==
    /\ pc[td] = "idle"
    /\ \E s \in SharesOf(td) : shares' = shares \ {s}
    /\ sx_cnt' = sx_cnt - 1
    /\ \/ sx_excl_wcnt > 0 /\ sx_cnt = 0 /\ cv_signal_excl
       \/ sx_excl_wcnt > 0 /\ sx_cnt # 0 /\ NoWakeup
       \/ sx_excl_wcnt = 0 /\ sx_shrd_wcnt > 0 /\ cv_broadcast_shrd
       \/ sx_excl_wcnt = 0 /\ sx_shrd_wcnt = 0 /\ NoWakeup
    /\ UNCHANGED sx_xholder

(* _sx_sunlock: the last reader signals a writer; readers are woken only   *)
(* when there is no writer.                                                *)
Sunlock(td) ==
    /\ pc[td] = "idle"
    /\ \E s \in SharesOf(td) : shares' = shares \ {s}
    /\ sx_cnt' = sx_cnt - 1
    /\ \/ sx_excl_wcnt > 0 /\ sx_cnt - 1 = 0 /\ cv_signal_excl
       \/ sx_excl_wcnt > 0 /\ sx_cnt - 1 # 0 /\ NoWakeup
       \/ sx_excl_wcnt = 0 /\ sx_shrd_wcnt > 0 /\ cv_broadcast_shrd
       \/ sx_excl_wcnt = 0 /\ sx_shrd_wcnt = 0 /\ NoWakeup
    /\ UNCHANGED sx_xholder

(* Mutant: a waiting writer has precedence over the readers. *)
XunlockPrefersWriter(td) ==
    /\ pc[td] = "idle" /\ sx_xholder = td
    /\ sx_cnt' = sx_cnt + 1
    /\ sx_xholder' = Null
    /\ IF sx_excl_wcnt > 0 THEN cv_signal_excl ELSE cv_broadcast_shrd
    /\ UNCHANGED shares

(* _sx_xunlock: all waiting readers are woken, or else one writer. *)
Xunlock(td) ==
    /\ pc[td] = "idle" /\ sx_xholder = td
    /\ sx_cnt' = sx_cnt + 1
    /\ sx_xholder' = Null
    /\ \/ sx_shrd_wcnt > 0 /\ cv_broadcast_shrd
       \/ sx_shrd_wcnt = 0 /\ sx_excl_wcnt > 0 /\ cv_signal_excl
       \/ sx_shrd_wcnt = 0 /\ sx_excl_wcnt = 0 /\ NoWakeup
    /\ UNCHANGED shares

(* Mutant: an upgrade succeeds although there are other readers. *)
UpgradeUnchecked(td) ==
    /\ pc[td] = "idle"
    /\ sx_cnt >= 1
    /\ \E s \in SharesOf(td) : shares' = shares \ {s}
    /\ sx_cnt' = -1
    /\ sx_xholder' = td
    /\ UNCHANGED <<waitVars, pc>>

(* _sx_try_upgrade: the only reader becomes the writer. *)
TryUpgrade(td) ==
    /\ pc[td] = "idle"
    /\ sx_cnt = 1
    /\ \E s \in SharesOf(td) : shares' = shares \ {s}
    /\ sx_cnt' = -1
    /\ sx_xholder' = td
    /\ UNCHANGED <<waitVars, pc>>

(* _sx_downgrade: the writer becomes a reader and lets the others in. *)
Downgrade(td) ==
    /\ pc[td] = "idle" /\ sx_xholder = td
    /\ sx_cnt' = 1
    /\ sx_xholder' = Null
    /\ \E s \in Share : s[1] = td /\ shares' = {s}
    /\ \/ sx_shrd_wcnt > 0 /\ cv_broadcast_shrd
       \/ sx_shrd_wcnt = 0 /\ NoWakeup

-----------------------------------------------------------------------------
Arrive(td) == Slock(td) \/ Xlock(td) \/ TrySlock(td) \/ TryXlock(td)
Continue(td) == SlockAgain(td) \/ XlockAgain(td)
Release(td) == Sunlock(td) \/ Xunlock(td)
Convert(td) == TryUpgrade(td) \/ Downgrade(td)

Next == \E td \in Threads : Arrive(td) \/ Continue(td) \/ Release(td) \/ Convert(td)

Spec == Init /\ [][Next]_vars

-----------------------------------------------------------------------------
(* Properties. *)

SharedWaiters == {td \in Threads : pc[td] \in {"swait", "swoken"}}
ExclWaiters == {td \in Threads : pc[td] \in {"xwait", "xwoken"}}

(* Every variable has its type; no count goes below its least value. *)
TypeOK ==
    /\ sx_cnt \in Nat \cup {-1}
    /\ sx_xholder \in Threads \cup {Null}
    /\ sx_shrd_wcnt \in Nat /\ sx_excl_wcnt \in Nat
    /\ shrd_cv \in SUBSET Threads /\ excl_cv \in Seq(Threads)
    /\ shares \in SUBSET Share
    /\ pc \in [Threads -> PcValues]

(* sx_cnt is all the code knows of its readers: it counts them exactly, is *)
(* -1 exactly while there is a writer, and the two exclude each other.     *)
SxExclusion ==
    /\ sx_xholder = Null => sx_cnt = Cardinality(shares)
    /\ sx_xholder # Null => sx_cnt = -1 /\ shares = {}

(* The counts the release paths decide on are those of the threads inside  *)
(* the two loops, woken ones included.                                     *)
CountsMatch ==
    /\ sx_shrd_wcnt = Cardinality(SharedWaiters)
    /\ sx_excl_wcnt = Cardinality(ExclWaiters)
    /\ shrd_cv = {td \in Threads : pc[td] = "swait"}
    /\ ToSet(excl_cv) = {td \in Threads : pc[td] = "xwait"} /\ IsInjective(excl_cv)

(* A reader sleeps only while there is a writer, whose release wakes it. *)
NoStrandedReader == shrd_cv # {} => sx_xholder # Null

(* A writer sleeps only while somebody will signal it: a holder, or a      *)
(* woken thread that is on its way to become one.                          *)
NoStrandedWriter ==
    excl_cv # <<>> => sx_cnt # 0 \/ \E td \in Threads : pc[td] \in {"swoken", "xwoken"}

SxInv == TypeOK /\ SxExclusion /\ CountsMatch /\ NoStrandedReader /\ NoStrandedWriter

-----------------------------------------------------------------------------
(* Fairness: a woken thread runs and gets sx_lock, and a holder releases. *)
Fairness == \A td \in Threads : WF_vars(Continue(td)) /\ WF_vars(Release(td))

FairSpec == Spec /\ Fairness

(* Once nobody asks for the lock any more, everybody who did gets it: the  *)
(* two counts, which include threads already woken, never keep the last    *)
(* release from waking the threads that still sleep.                       *)
WaitersDrain ==
    <>[][\A td \in Threads : ~Arrive(td)]_vars => <>[](SharedWaiters = {} /\ ExclWaiters = {})

=============================================================================
