---------------------------- MODULE CondvarProofs ----------------------------
(***************************************************************************)
(* Proofs about the two locks made of a mutex and condition variables, for *)
(* every finite set of threads: SxInv is inductive as it stands, for any   *)
(* number of shared holds, and so is SemaInv, for any bound on the value.  *)
(***************************************************************************)
EXTENDS Sx, Sema, QueueLemmas, FiniteSetTheorems, TLAPS

-----------------------------------------------------------------------------
(* Shared/exclusive locks: the holders. *)

(* The holds are finitely many. *)
LEMMA FiniteShares ==
    ASSUME shares \in SUBSET Share
    PROVE  IsFiniteSet(shares) /\ Cardinality(shares) \in Nat
<1>1. IsFiniteSet(1..MaxShare)
  BY SxAssumption, FS_Interval
<1>2. IsFiniteSet(Share)
  BY <1>1, ThreadsAssumption, FS_Product DEF Share
<1> QED BY <1>2, FS_Subset, FS_CardinalityType

HoldInv == SxExclusion /\ sx_cnt \in Nat \cup {-1} /\ sx_xholder \in Threads \cup {Null}
           /\ shares \in SUBSET Share

(* A new reader is counted. *)
LEMMA TakeSharedHolds ==
    ASSUME HoldInv, NEW td \in Threads, sx_cnt >= 0, TakeShared(td)
    PROVE  HoldInv' /\ sx_xholder = Null
<1>1. PICK s \in Share \ shares : shares' = shares \cup {s}
  BY DEF TakeShared
<1>2. Cardinality(shares') = Cardinality(shares) + 1
  BY <1>1, FiniteShares, FS_AddElement DEF HoldInv
<1> QED BY <1>1, <1>2, FiniteShares, SxAssumption DEF HoldInv, SxExclusion, TakeShared

(* A free lock has no readers, so a new writer is alone. *)
LEMMA TakeExclusiveHolds ==
    ASSUME HoldInv, NEW td \in Threads, sx_cnt = 0, TakeExclusive(td)
    PROVE  HoldInv' /\ sx_xholder = Null
<1>1. sx_xholder = Null /\ Cardinality(shares) = 0
  BY DEF HoldInv, SxExclusion
<1>2. shares = {}
  BY <1>1, FiniteShares, FS_EmptySet DEF HoldInv
<1> QED BY <1>1, <1>2, SxAssumption DEF HoldInv, SxExclusion, TakeExclusive

(* A reader leaves. *)
LEMMA GiveShared ==
    ASSUME HoldInv, NEW s \in shares
    PROVE  /\ sx_xholder = Null /\ sx_cnt = Cardinality(shares) /\ sx_cnt \in Nat \ {0}
           /\ Cardinality(shares \ {s}) = sx_cnt - 1
           /\ sx_cnt = 1 => shares \ {s} = {}
<1>1. sx_xholder = Null /\ sx_cnt = Cardinality(shares)
  BY DEF HoldInv, SxExclusion
<1>2. Cardinality(shares \ {s}) = Cardinality(shares) - 1 /\ IsFiniteSet(shares \ {s})
  BY FiniteShares, FS_RemoveElement DEF HoldInv
<1>3. Cardinality(shares \ {s}) \in Nat
  BY <1>2, FS_CardinalityType
<1>4. Cardinality(shares \ {s}) = 0 => shares \ {s} = {}
  BY <1>2, FS_EmptySet
<1> QED BY <1>1, <1>2, <1>3, <1>4, FiniteShares DEF HoldInv

(* Every step keeps the count of the readers and the writer right. *)
LEMMA HoldStep ==
    ASSUME HoldInv, NEW td \in Threads,
           Arrive(td) \/ Continue(td) \/ Release(td) \/ Convert(td)
    PROVE  HoldInv'
<1> USE SxAssumption
<1>1. CASE UNCHANGED <<sx_cnt, sx_xholder, shares>>
  BY <1>1 DEF HoldInv, SxExclusion
<1>2. CASE sx_cnt >= 0 /\ TakeShared(td)
  BY <1>2, TakeSharedHolds
<1>3. CASE sx_cnt = 0 /\ TakeExclusive(td)
  BY <1>3, TakeExclusiveHolds
<1>4. CASE Sunlock(td)
  <2>1. PICK s \in shares : shares' = shares \ {s}
    BY <1>4 DEF Sunlock, SharesOf
  <2> QED BY <1>4, <2>1, GiveShared DEF Sunlock, HoldInv, SxExclusion
<1>5. CASE Xunlock(td)
  <2>1. sx_cnt = -1 /\ shares = {} /\ shares' = {} /\ sx_cnt' = 0 /\ sx_xholder' = Null
    BY <1>5 DEF Xunlock, HoldInv, SxExclusion
  <2>2. Cardinality({}) = 0 BY FS_EmptySet
  <2> QED BY <2>1, <2>2 DEF HoldInv, SxExclusion
<1>6. CASE TryUpgrade(td)
  <2>1. PICK s \in shares : shares' = shares \ {s}
    BY <1>6 DEF TryUpgrade, SharesOf
  <2> QED BY <1>6, <2>1, GiveShared DEF TryUpgrade, HoldInv, SxExclusion
<1>7. CASE Downgrade(td)
  <2>1. PICK s \in Share : shares' = {s} /\ sx_cnt' = 1 /\ sx_xholder' = Null
    BY <1>7 DEF Downgrade
  <2>2. Cardinality({s}) = 1 BY FS_Singleton
  <2> QED BY <2>1, <2>2 DEF HoldInv, SxExclusion
<1> QED BY <1>1, <1>2, <1>3, <1>4, <1>5, <1>6, <1>7
     DEF Arrive, Continue, Release, Convert, Slock, Xlock, TrySlock, TryXlock, SlockAgain, XlockAgain

-----------------------------------------------------------------------------
(* The waiters. *)

WaitInv == CountsMatch /\ sx_shrd_wcnt \in Nat /\ sx_excl_wcnt \in Nat
           /\ shrd_cv \in SUBSET Threads /\ excl_cv \in Seq(Threads) /\ pc \in [Threads -> PcValues]

(* The wait counts are the sizes of finite sets. *)
LEMMA FiniteWaiters ==
    ASSUME NEW S \in SUBSET Threads
    PROVE  IsFiniteSet(S) /\ Cardinality(S) \in Nat /\ (Cardinality(S) = 0 <=> S = {})
BY ThreadsAssumption, FS_Subset, FS_CardinalityType, FS_EmptySet

(* A thread joins or leaves the set of threads counted by a wait count, or *)
(* stays in it.                                                            *)
LEMMA CountStep ==
    ASSUME NEW S \in SUBSET Threads, NEW td \in Threads
    PROVE  /\ td \notin S => Cardinality(S \cup {td}) = Cardinality(S) + 1
           /\ td \in S => Cardinality(S \ {td}) = Cardinality(S) - 1
BY FiniteWaiters, FS_AddElement, FS_RemoveElement

(* A step of one thread between stages: what becomes of the waiters. *)
LEMMA PcStep ==
    ASSUME pc \in [Threads -> PcValues], NEW td \in Threads, NEW l \in PcValues,
           pc' = [pc EXCEPT ![td] = l]
    PROVE  /\ pc' \in [Threads -> PcValues]
           /\ SharedWaiters' = IF l \in {"swait", "swoken"} THEN SharedWaiters \cup {td}
                               ELSE SharedWaiters \ {td}
           /\ ExclWaiters' = IF l \in {"xwait", "xwoken"} THEN ExclWaiters \cup {td}
                             ELSE ExclWaiters \ {td}
           /\ {t \in Threads : pc'[t] = "swait"} =
                 IF l = "swait" THEN {t \in Threads : pc[t] = "swait"} \cup {td}
                 ELSE {t \in Threads : pc[t] = "swait"} \ {td}
           /\ {t \in Threads : pc'[t] = "xwait"} =
                 IF l = "xwait" THEN {t \in Threads : pc[t] = "xwait"} \cup {td}
                 ELSE {t \in Threads : pc[t] = "xwait"} \ {td}
BY DEF SharedWaiters, ExclWaiters

(* A thread enters the loop of _sx_slock(). *)
LEMMA ReaderWaits ==
    ASSUME WaitInv, NEW td \in Threads, pc[td] = "idle" \/ pc[td] = "swoken",
           pc' = [pc EXCEPT ![td] = "swait"], shrd_cv' = shrd_cv \cup {td},
           sx_shrd_wcnt' = IF pc[td] = "idle" THEN sx_shrd_wcnt + 1 ELSE sx_shrd_wcnt,
           UNCHANGED <<sx_excl_wcnt, excl_cv>>
    PROVE  WaitInv'
<1>1. /\ pc' \in [Threads -> PcValues]
      /\ SharedWaiters' = SharedWaiters \cup {td} /\ ExclWaiters' = ExclWaiters \ {td}
      /\ {t \in Threads : pc'[t] = "swait"} = {t \in Threads : pc[t] = "swait"} \cup {td}
      /\ {t \in Threads : pc'[t] = "xwait"} = {t \in Threads : pc[t] = "xwait"} \ {td}
  BY PcStep DEF WaitInv, PcValues
<1>2. /\ td \notin ExclWaiters /\ pc[td] # "xwait" /\ SharedWaiters \in SUBSET Threads
      /\ pc[td] = "idle" => td \notin SharedWaiters
      /\ pc[td] = "swoken" => td \in SharedWaiters
  BY DEF ExclWaiters, SharedWaiters
<1>3. sx_shrd_wcnt' = Cardinality(SharedWaiters') /\ sx_shrd_wcnt' \in Nat
  <2>1. CASE pc[td] = "idle"
    BY <2>1, <1>1, <1>2, CountStep DEF WaitInv, CountsMatch
  <2>2. CASE pc[td] = "swoken"
    <3>1. SharedWaiters' = SharedWaiters BY <2>2, <1>1, <1>2
    <3> QED BY <3>1, <2>2 DEF WaitInv, CountsMatch
  <2> QED BY <2>1, <2>2
<1>4. ExclWaiters' = ExclWaiters BY <1>1, <1>2
<1> QED BY <1>1, <1>2, <1>3, <1>4 DEF WaitInv, CountsMatch

(* A thread leaves the loop of _sx_slock(). *)
LEMMA ReaderEnters ==
    ASSUME WaitInv, NEW td \in Threads, pc[td] = "swoken", pc' = [pc EXCEPT ![td] = "idle"],
           sx_shrd_wcnt' = sx_shrd_wcnt - 1, UNCHANGED <<sx_excl_wcnt, excl_cv, shrd_cv>>
    PROVE  WaitInv'
<1>1. /\ pc' \in [Threads -> PcValues]
      /\ SharedWaiters' = SharedWaiters \ {td} /\ ExclWaiters' = ExclWaiters \ {td}
      /\ {t \in Threads : pc'[t] = "swait"} = {t \in Threads : pc[t] = "swait"} \ {td}
      /\ {t \in Threads : pc'[t] = "xwait"} = {t \in Threads : pc[t] = "xwait"} \ {td}
  BY PcStep DEF WaitInv, PcValues
<1>2. /\ td \notin ExclWaiters /\ td \in SharedWaiters /\ SharedWaiters \in SUBSET Threads
      /\ SharedWaiters \ {td} \in SUBSET Threads
  BY DEF ExclWaiters, SharedWaiters
<1>3. sx_shrd_wcnt' = Cardinality(SharedWaiters')
  BY <1>1, <1>2, CountStep DEF WaitInv, CountsMatch
<1>4. sx_shrd_wcnt' \in Nat
  BY <1>1, <1>2, <1>3, FiniteWaiters
<1>5. ExclWaiters' = ExclWaiters BY <1>1, <1>2
<1> QED BY <1>1, <1>2, <1>3, <1>4, <1>5 DEF WaitInv, CountsMatch

(* A thread enters the loop of _sx_xlock(). *)
LEMMA WriterWaits ==
    ASSUME WaitInv, NEW td \in Threads, pc[td] = "idle" \/ pc[td] = "xwoken",
           pc' = [pc EXCEPT ![td] = "xwait"], excl_cv' = Append(excl_cv, td),
           sx_excl_wcnt' = IF pc[td] = "idle" THEN sx_excl_wcnt + 1 ELSE sx_excl_wcnt,
           UNCHANGED <<sx_shrd_wcnt, shrd_cv>>
    PROVE  WaitInv'
<1>1. /\ pc' \in [Threads -> PcValues]
      /\ ExclWaiters' = ExclWaiters \cup {td} /\ SharedWaiters' = SharedWaiters \ {td}
      /\ {t \in Threads : pc'[t] = "swait"} = {t \in Threads : pc[t] = "swait"} \ {td}
      /\ {t \in Threads : pc'[t] = "xwait"} = {t \in Threads : pc[t] = "xwait"} \cup {td}
  BY PcStep DEF WaitInv, PcValues
<1>2. /\ td \notin SharedWaiters /\ pc[td] # "swait" /\ ExclWaiters \in SUBSET Threads
      /\ pc[td] = "idle" => td \notin ExclWaiters
      /\ pc[td] = "xwoken" => td \in ExclWaiters
  BY DEF ExclWaiters, SharedWaiters
<1>3. sx_excl_wcnt' = Cardinality(ExclWaiters') /\ sx_excl_wcnt' \in Nat
  <2>1. CASE pc[td] = "idle"
    BY <2>1, <1>1, <1>2, CountStep DEF WaitInv, CountsMatch
  <2>2. CASE pc[td] = "xwoken"
    <3>1. ExclWaiters' = ExclWaiters BY <2>2, <1>1, <1>2
    <3> QED BY <3>1, <2>2 DEF WaitInv, CountsMatch
  <2> QED BY <2>1, <2>2
<1>4. SharedWaiters' = SharedWaiters BY <1>1, <1>2
<1>5. td \notin ToSet(excl_cv) BY DEF WaitInv, CountsMatch
<1>6. excl_cv' \in Seq(Threads) /\ ToSet(excl_cv') = ToSet(excl_cv) \cup {td} /\ IsInjective(excl_cv')
  BY <1>5, JoinTail DEF WaitInv, CountsMatch
<1> QED BY <1>1, <1>2, <1>3, <1>4, <1>6 DEF WaitInv, CountsMatch

(* A thread leaves the loop of _sx_xlock(). *)
LEMMA WriterEnters ==
    ASSUME WaitInv, NEW td \in Threads, pc[td] = "xwoken", pc' = [pc EXCEPT ![td] = "idle"],
           sx_excl_wcnt' = sx_excl_wcnt - 1, UNCHANGED <<sx_shrd_wcnt, excl_cv, shrd_cv>>
    PROVE  WaitInv'
<1>1. /\ pc' \in [Threads -> PcValues]
      /\ SharedWaiters' = SharedWaiters \ {td} /\ ExclWaiters' = ExclWaiters \ {td}
      /\ {t \in Threads : pc'[t] = "swait"} = {t \in Threads : pc[t] = "swait"} \ {td}
      /\ {t \in Threads : pc'[t] = "xwait"} = {t \in Threads : pc[t] = "xwait"} \ {td}
  BY PcStep DEF WaitInv, PcValues
<1>2. /\ td \notin SharedWaiters /\ td \in ExclWaiters /\ ExclWaiters \in SUBSET Threads
      /\ ExclWaiters \ {td} \in SUBSET Threads
  BY DEF ExclWaiters, SharedWaiters
<1>3. sx_excl_wcnt' = Cardinality(ExclWaiters')
  BY <1>1, <1>2, CountStep DEF WaitInv, CountsMatch
<1>4. sx_excl_wcnt' \in Nat
  BY <1>1, <1>2, <1>3, FiniteWaiters
<1>5. SharedWaiters' = SharedWaiters BY <1>1, <1>2
<1> QED BY <1>1, <1>2, <1>3, <1>4, <1>5 DEF WaitInv, CountsMatch

(* A wait count that is not zero counts somebody. *)
LEMMA CountedWaiters ==
    ASSUME WaitInv
    PROVE  /\ sx_excl_wcnt > 0 => ExclWaiters # {}
           /\ sx_shrd_wcnt > 0 => SharedWaiters # {}
           /\ sx_excl_wcnt = 0 => excl_cv = <<>>
           /\ sx_shrd_wcnt = 0 => shrd_cv = {}
<1>1. ExclWaiters \in SUBSET Threads /\ SharedWaiters \in SUBSET Threads
  BY DEF ExclWaiters, SharedWaiters
<1>2. /\ sx_excl_wcnt = 0 <=> ExclWaiters = {}
      /\ sx_shrd_wcnt = 0 <=> SharedWaiters = {}
  BY <1>1, FiniteWaiters DEF WaitInv, CountsMatch
<1>3. sx_excl_wcnt = 0 => excl_cv = <<>>
  <2>1. sx_excl_wcnt = 0 => ToSet(excl_cv) = {}
    BY <1>2 DEF ExclWaiters, WaitInv, CountsMatch
  <2> QED BY <2>1, ToSetEmpty DEF WaitInv
<1>4. sx_shrd_wcnt = 0 => shrd_cv = {}
  BY <1>2 DEF SharedWaiters, WaitInv, CountsMatch
<1> QED BY <1>2, <1>3, <1>4 DEF WaitInv

(* cv_signal() and cv_broadcast() move threads from a queue to the woken,  *)
(* and find one whenever the count says so and nobody is woken already.    *)
LEMMA SignalWakes ==
    ASSUME WaitInv, cv_signal_excl
    PROVE  /\ WaitInv' /\ UNCHANGED shrd_cv
           /\ sx_excl_wcnt > 0 => \E td \in Threads : pc'[td] = "xwoken"
           /\ \A td \in Threads : pc[td] = "idle" => pc'[td] = "idle"
<1>1. CASE excl_cv = <<>>
  <2>1. UNCHANGED <<waitVars, pc>> BY <1>1 DEF cv_signal_excl, waitVars
  <2>2. sx_excl_wcnt > 0 => ExclWaiters # {}
    BY CountedWaiters
  <2>3. ToSet(excl_cv) = {} BY <1>1, ToSetEmpty DEF WaitInv
  <2>4. sx_excl_wcnt > 0 => \E td \in Threads : pc[td] = "xwoken"
    BY <2>2, <2>3 DEF ExclWaiters, WaitInv, CountsMatch
  <2> QED BY <2>1, <2>4 DEF WaitInv, CountsMatch, waitVars, SharedWaiters, ExclWaiters
<1>2. CASE excl_cv # <<>>
  <2> DEFINE t == Head(excl_cv)
  <2>1. /\ excl_cv' = Tail(excl_cv) /\ pc' = [pc EXCEPT ![t] = "xwoken"]
        /\ UNCHANGED <<sx_shrd_wcnt, sx_excl_wcnt, shrd_cv>>
    BY <1>2 DEF cv_signal_excl
  <2>2. /\ t \in Threads /\ t \in ToSet(excl_cv) /\ excl_cv' \in Seq(Threads)
        /\ ToSet(excl_cv') = ToSet(excl_cv) \ {t} /\ IsInjective(excl_cv')
    BY <1>2, <2>1, TailProperties DEF WaitInv, CountsMatch
  <2>3. pc[t] = "xwait" BY <2>2 DEF WaitInv, CountsMatch
  <2> HIDE DEF t
  <2>4. /\ pc' \in [Threads -> PcValues]
        /\ SharedWaiters' = SharedWaiters \ {t} /\ ExclWaiters' = ExclWaiters \cup {t}
        /\ {u \in Threads : pc'[u] = "swait"} = {u \in Threads : pc[u] = "swait"} \ {t}
        /\ {u \in Threads : pc'[u] = "xwait"} = {u \in Threads : pc[u] = "xwait"} \ {t}
    BY <2>1, <2>2, PcStep DEF WaitInv, PcValues
  <2>5. SharedWaiters' = SharedWaiters /\ ExclWaiters' = ExclWaiters
    BY <2>2, <2>3, <2>4 DEF SharedWaiters, ExclWaiters
  <2>6. WaitInv'
    BY <2>1, <2>2, <2>3, <2>4, <2>5 DEF WaitInv, CountsMatch
  <2>7. pc'[t] = "xwoken" /\ \A u \in Threads : u # t => pc'[u] = pc[u]
    BY <2>1, <2>2 DEF WaitInv
  <2> QED BY <2>1, <2>2, <2>3, <2>6, <2>7
<1> QED BY <1>1, <1>2

(* cv_broadcast wakes everyone that waits.                                 *)
LEMMA BroadcastWakes ==
    ASSUME WaitInv, cv_broadcast_shrd
    PROVE  /\ WaitInv' /\ shrd_cv' = {} /\ UNCHANGED excl_cv
           /\ sx_shrd_wcnt > 0 => \E td \in Threads : pc'[td] = "swoken"
           /\ \A td \in Threads : pc[td] \in {"xwoken", "swoken"} => pc'[td] = pc[td]
<1>1. /\ shrd_cv' = {} /\ UNCHANGED <<sx_shrd_wcnt, sx_excl_wcnt, excl_cv>>
      /\ pc' = [td \in Threads |-> IF td \in shrd_cv THEN "swoken" ELSE pc[td]]
  BY DEF cv_broadcast_shrd
<1>2. /\ pc' \in [Threads -> PcValues]
      /\ \A td \in Threads : pc'[td] = IF pc[td] = "swait" THEN "swoken" ELSE pc[td]
  BY <1>1 DEF WaitInv, CountsMatch, PcValues
<1>3. SharedWaiters' = SharedWaiters /\ ExclWaiters' = ExclWaiters
  BY <1>2 DEF SharedWaiters, ExclWaiters
<1>4. {u \in Threads : pc'[u] = "swait"} = {}
      /\ {u \in Threads : pc'[u] = "xwait"} = {u \in Threads : pc[u] = "xwait"}
  BY <1>2
<1>5. WaitInv' BY <1>1, <1>2, <1>3, <1>4 DEF WaitInv, CountsMatch
<1>6. sx_shrd_wcnt > 0 => SharedWaiters # {}
  BY CountedWaiters
<1>7. sx_shrd_wcnt > 0 => \E td \in Threads : pc'[td] = "swoken"
  BY <1>2, <1>6 DEF SharedWaiters
<1> QED BY <1>1, <1>2, <1>5, <1>7

-----------------------------------------------------------------------------
(* Nobody is stranded. *)

(* A step of a thread that takes the lock, shared or exclusively, without  *)
(* waiting first.                                                          *)
LEMMA TakeStep ==
    ASSUME SxInv, NEW td \in Threads, NoWakeup,
           (sx_cnt >= 0 /\ TakeShared(td)) \/ (sx_cnt = 0 /\ TakeExclusive(td))
    PROVE  WaitInv' /\ NoStrandedReader' /\ NoStrandedWriter'
<1>1. UNCHANGED <<sx_shrd_wcnt, sx_excl_wcnt, shrd_cv, excl_cv, pc>>
  BY DEF NoWakeup, waitVars
<1>2. WaitInv'
  BY <1>1 DEF SxInv, TypeOK, WaitInv, CountsMatch, SharedWaiters, ExclWaiters
<1>3. sx_xholder = Null
  BY TakeSharedHolds, TakeExclusiveHolds DEF SxInv, TypeOK, HoldInv
<1>4. shrd_cv' = {}
  BY <1>1, <1>3 DEF SxInv, NoStrandedReader
<1>5. sx_cnt' # 0
  BY DEF SxInv, TypeOK, TakeShared, TakeExclusive
<1> QED BY <1>2, <1>4, <1>5 DEF NoStrandedReader, NoStrandedWriter

(* _sx_slock(): the reader that sleeps has found a writer. *)
LEMMA SlockStep ==
    ASSUME SxInv, NEW td \in Threads, Slock(td) \/ SlockAgain(td)
    PROVE  WaitInv' /\ NoStrandedReader' /\ NoStrandedWriter'
<1>0. WaitInv /\ HoldInv
  BY DEF SxInv, TypeOK, WaitInv, HoldInv
<1>1. CASE sx_cnt >= 0 /\ Slock(td)
  <2>1. TakeShared(td) /\ NoWakeup
    BY <1>1 DEF Slock, NoWakeup, SxInv, TypeOK
  <2> QED BY <1>1, <2>1, TakeStep
<1>2. CASE sx_cnt >= 0 /\ SlockAgain(td)
  <2>1. /\ TakeShared(td) /\ pc[td] = "swoken" /\ pc' = [pc EXCEPT ![td] = "idle"]
        /\ sx_shrd_wcnt' = sx_shrd_wcnt - 1 /\ UNCHANGED <<sx_excl_wcnt, shrd_cv, excl_cv>>
    BY <1>2 DEF SlockAgain, SxInv, TypeOK
  <2>2. WaitInv' BY <1>0, <2>1, ReaderEnters
  <2>3. shrd_cv' = {}
    BY <1>0, <1>2, <2>1, TakeSharedHolds DEF SxInv, NoStrandedReader
  <2>4. sx_cnt' # 0
    BY <1>2, <2>1 DEF SxInv, TypeOK, TakeShared
  <2> QED BY <2>2, <2>3, <2>4 DEF NoStrandedReader, NoStrandedWriter
<1>3. CASE sx_cnt < 0
  <2>1. /\ pc[td] = "idle" \/ pc[td] = "swoken"
        /\ pc' = [pc EXCEPT ![td] = "swait"] /\ shrd_cv' = shrd_cv \cup {td}
        /\ sx_shrd_wcnt' = IF pc[td] = "idle" THEN sx_shrd_wcnt + 1 ELSE sx_shrd_wcnt
        /\ UNCHANGED <<sx_excl_wcnt, excl_cv, sx_cnt, sx_xholder>>
    BY <1>3 DEF Slock, SlockAgain, MayShare, SxInv, TypeOK
  <2>2. WaitInv' BY <1>0, <2>1, ReaderWaits
  <2>3. sx_xholder # Null
    BY <1>3, FiniteShares DEF SxInv, TypeOK, SxExclusion
  <2>4. sx_xholder' # Null /\ sx_cnt' # 0
    BY <1>3, <2>1, <2>3
  <2> QED BY <2>2, <2>4 DEF NoStrandedReader, NoStrandedWriter
<1> QED BY <1>1, <1>2, <1>3 DEF SxInv, TypeOK

(* _sx_xlock(): the writer that sleeps has found a holder. *)
LEMMA XlockStep ==
    ASSUME SxInv, NEW td \in Threads, Xlock(td) \/ XlockAgain(td)
    PROVE  WaitInv' /\ NoStrandedReader' /\ NoStrandedWriter'
<1>0. WaitInv /\ HoldInv
  BY DEF SxInv, TypeOK, WaitInv, HoldInv
<1>1. CASE sx_cnt = 0 /\ Xlock(td)
  <2>1. TakeExclusive(td) /\ NoWakeup
    BY <1>1 DEF Xlock, NoWakeup
  <2> QED BY <1>1, <2>1, TakeStep
<1>2. CASE sx_cnt = 0 /\ XlockAgain(td)
  <2>1. /\ TakeExclusive(td) /\ pc[td] = "xwoken" /\ pc' = [pc EXCEPT ![td] = "idle"]
        /\ sx_excl_wcnt' = sx_excl_wcnt - 1 /\ UNCHANGED <<sx_shrd_wcnt, shrd_cv, excl_cv>>
    BY <1>2 DEF XlockAgain
  <2>2. WaitInv' BY <1>0, <2>1, WriterEnters
  <2>3. shrd_cv' = {}
    BY <1>0, <1>2, <2>1, TakeExclusiveHolds DEF SxInv, NoStrandedReader
  <2>4. sx_cnt' # 0
    BY <1>2, <2>1 DEF TakeExclusive
  <2> QED BY <2>2, <2>3, <2>4 DEF NoStrandedReader, NoStrandedWriter
<1>3. CASE sx_cnt # 0
  <2>1. /\ pc[td] = "idle" \/ pc[td] = "xwoken"
        /\ pc' = [pc EXCEPT ![td] = "xwait"] /\ excl_cv' = Append(excl_cv, td)
        /\ sx_excl_wcnt' = IF pc[td] = "idle" THEN sx_excl_wcnt + 1 ELSE sx_excl_wcnt
        /\ UNCHANGED <<sx_shrd_wcnt, shrd_cv, sx_cnt, sx_xholder>>
    BY <1>3 DEF Xlock, XlockAgain, MayExclude
  <2>2. WaitInv' BY <1>0, <2>1, WriterWaits
  <2> QED BY <1>3, <2>1, <2>2 DEF SxInv, NoStrandedReader, NoStrandedWriter
<1> QED BY <1>1, <1>2, <1>3

(* _sx_sunlock(): the last reader wakes whoever is left. *)
LEMMA SunlockStep ==
    ASSUME SxInv, NEW td \in Threads, Sunlock(td)
    PROVE  WaitInv' /\ NoStrandedReader' /\ NoStrandedWriter'
<1>0. WaitInv /\ HoldInv
  BY DEF SxInv, TypeOK, WaitInv, HoldInv
<1>1. sx_xholder = Null
  <2>1. PICK s \in shares : TRUE BY DEF Sunlock, SharesOf
  <2> QED BY <1>0, <2>1, GiveShared
<1>2. shrd_cv = {} BY <1>1 DEF SxInv, NoStrandedReader
<1>3. CASE sx_excl_wcnt > 0 /\ sx_cnt - 1 = 0 /\ cv_signal_excl
  BY <1>0, <1>2, <1>3, SignalWakes DEF NoStrandedReader, NoStrandedWriter
<1>4. CASE sx_excl_wcnt > 0 /\ sx_cnt - 1 # 0 /\ NoWakeup
  <2>1. sx_cnt' # 0 BY <1>4 DEF Sunlock
  <2>2. UNCHANGED <<sx_shrd_wcnt, sx_excl_wcnt, shrd_cv, excl_cv, pc>>
    BY <1>4 DEF NoWakeup, waitVars
  <2>3. WaitInv'
    BY <1>0, <2>2 DEF WaitInv, CountsMatch, SharedWaiters, ExclWaiters
  <2> QED BY <1>2, <2>1, <2>2, <2>3 DEF NoStrandedReader, NoStrandedWriter
<1>5. CASE sx_excl_wcnt = 0 /\ cv_broadcast_shrd
  <2>1. excl_cv = <<>> BY <1>0, <1>5, CountedWaiters
  <2> QED BY <1>0, <1>5, <2>1, BroadcastWakes DEF NoStrandedReader, NoStrandedWriter
<1>6. CASE sx_excl_wcnt = 0 /\ NoWakeup
  <2>1. excl_cv = <<>> BY <1>0, <1>6, CountedWaiters
  <2>2. UNCHANGED <<sx_shrd_wcnt, sx_excl_wcnt, shrd_cv, excl_cv, pc>>
    BY <1>6 DEF NoWakeup, waitVars
  <2>3. WaitInv'
    BY <1>0, <2>2 DEF WaitInv, CountsMatch, SharedWaiters, ExclWaiters
  <2> QED BY <1>2, <2>1, <2>2, <2>3 DEF NoStrandedReader, NoStrandedWriter
<1> QED BY <1>3, <1>4, <1>5, <1>6 DEF Sunlock

(* _sx_xunlock(): the readers are all woken, and if there are none a       *)
(* writer is.                                                              *)
LEMMA XunlockStep ==
    ASSUME SxInv, NEW td \in Threads, Xunlock(td)
    PROVE  WaitInv' /\ NoStrandedReader' /\ NoStrandedWriter'
<1>0. WaitInv
  BY DEF SxInv, TypeOK, WaitInv
<1>1. CASE sx_shrd_wcnt > 0 /\ cv_broadcast_shrd
  BY <1>0, <1>1, BroadcastWakes DEF NoStrandedReader, NoStrandedWriter
<1>2. CASE sx_shrd_wcnt = 0 /\ sx_excl_wcnt > 0 /\ cv_signal_excl
  <2>1. shrd_cv = {} BY <1>0, <1>2, CountedWaiters
  <2> QED BY <1>0, <1>2, <2>1, SignalWakes DEF NoStrandedReader, NoStrandedWriter
<1>3. CASE sx_shrd_wcnt = 0 /\ sx_excl_wcnt = 0 /\ NoWakeup
  <2>1. shrd_cv = {} /\ excl_cv = <<>> BY <1>0, <1>3, CountedWaiters
  <2>2. UNCHANGED <<sx_shrd_wcnt, sx_excl_wcnt, shrd_cv, excl_cv, pc>>
    BY <1>3 DEF NoWakeup, waitVars
  <2>3. WaitInv'
    BY <1>0, <2>2 DEF WaitInv, CountsMatch, SharedWaiters, ExclWaiters
  <2> QED BY <2>1, <2>2, <2>3 DEF NoStrandedReader, NoStrandedWriter
<1> QED BY <1>1, <1>2, <1>3 DEF Xunlock

(* The conversions: the lock stays held, and no reader sleeps beside       *)
(* readers.                                                                *)
LEMMA ConvertStep ==
    ASSUME SxInv, NEW td \in Threads, Convert(td)
    PROVE  WaitInv' /\ NoStrandedReader' /\ NoStrandedWriter'
<1>0. WaitInv
  BY DEF SxInv, TypeOK, WaitInv
<1>1. sx_cnt' # 0
  BY DEF Convert, TryUpgrade, Downgrade
<1>2. CASE TryUpgrade(td)
  <2>1. UNCHANGED <<sx_shrd_wcnt, sx_excl_wcnt, shrd_cv, excl_cv, pc>> /\ sx_xholder' # Null
    BY <1>2, SxAssumption DEF TryUpgrade, waitVars
  <2>2. WaitInv'
    BY <1>0, <2>1 DEF WaitInv, CountsMatch, SharedWaiters, ExclWaiters
  <2> QED BY <1>1, <2>1, <2>2 DEF NoStrandedReader, NoStrandedWriter
<1>3. CASE cv_broadcast_shrd
  BY <1>0, <1>1, <1>3, BroadcastWakes DEF NoStrandedReader, NoStrandedWriter
<1>4. CASE sx_shrd_wcnt = 0 /\ NoWakeup
  <2>1. shrd_cv = {} BY <1>0, <1>4, CountedWaiters
  <2>2. UNCHANGED <<sx_shrd_wcnt, sx_excl_wcnt, shrd_cv, excl_cv, pc>>
    BY <1>4 DEF NoWakeup, waitVars
  <2>3. WaitInv'
    BY <1>0, <2>2 DEF WaitInv, CountsMatch, SharedWaiters, ExclWaiters
  <2> QED BY <1>1, <2>1, <2>2, <2>3 DEF NoStrandedReader, NoStrandedWriter
<1> QED BY <1>2, <1>3, <1>4 DEF Convert, Downgrade

-----------------------------------------------------------------------------
(* SxInv holds at the start and every step preserves it. *)
LEMMA SxInvStep ==
    ASSUME SxInv, Next
    PROVE  SxInv'
<1>1. PICK td \in Threads : Arrive(td) \/ Continue(td) \/ Release(td) \/ Convert(td)
  BY DEF Next
<1>2. HoldInv'
  BY <1>1, HoldStep DEF SxInv, TypeOK, HoldInv
<1>3. CASE Slock(td) \/ SlockAgain(td)
  BY <1>2, <1>3, SlockStep DEF SxInv, TypeOK, HoldInv, WaitInv
<1>4. CASE Xlock(td) \/ XlockAgain(td)
  BY <1>2, <1>4, XlockStep DEF SxInv, TypeOK, HoldInv, WaitInv
<1>5. CASE TrySlock(td) \/ TryXlock(td)
  <2>1. NoWakeup /\ ((sx_cnt >= 0 /\ TakeShared(td)) \/ (sx_cnt = 0 /\ TakeExclusive(td)))
    BY <1>5 DEF TrySlock, TryXlock, NoWakeup
  <2> QED BY <1>2, <2>1, TakeStep DEF SxInv, TypeOK, HoldInv, WaitInv
<1>6. CASE Sunlock(td)
  BY <1>2, <1>6, SunlockStep DEF SxInv, TypeOK, HoldInv, WaitInv
<1>7. CASE Xunlock(td)
  BY <1>2, <1>7, XunlockStep DEF SxInv, TypeOK, HoldInv, WaitInv
<1>8. CASE Convert(td)
  BY <1>2, <1>8, ConvertStep DEF SxInv, TypeOK, HoldInv, WaitInv
<1> QED BY <1>1, <1>3, <1>4, <1>5, <1>6, <1>7, <1>8 DEF Arrive, Continue, Release

(* The invariant of sx locks: for any finite number of threads and any     *)
(* number of shared holds, the count and the holder agree, the wait counts *)
(* are those of the waiting threads, and nobody sleeps without a waker.    *)
THEOREM SxInvariance == Spec => []SxInv
<1>1. Init => SxInv
  <2> SUFFICES ASSUME Init PROVE SxInv OBVIOUS
  <2> USE SxAssumption
  <2>1. TypeOK BY DEF Init, TypeOK, PcValues
  <2>2. SxExclusion BY FS_EmptySet DEF Init, SxExclusion
  <2>3. SharedWaiters = {} /\ ExclWaiters = {} BY DEF Init, SharedWaiters, ExclWaiters
  <2>4. ToSet(<<>>) = {} /\ IsInjective(<<>>) BY DEF ToSet, IsInjective
  <2>5. CountsMatch BY <2>3, <2>4, FS_EmptySet DEF Init, CountsMatch
  <2> QED BY <2>1, <2>2, <2>5 DEF Init, SxInv, NoStrandedReader, NoStrandedWriter
<1>2. SxInv /\ [Next]_vars => SxInv'
  <2>1. ASSUME SxInv, UNCHANGED vars PROVE SxInv'
    BY <2>1 DEF SxInv, TypeOK, SxExclusion, CountsMatch, NoStrandedReader, NoStrandedWriter,
       SharedWaiters, ExclWaiters, vars
  <2> QED BY <2>1, SxInvStep
<1> QED BY <1>1, <1>2, PTL DEF Spec

(* The count of the readers is exact, and a writer is alone. *)
THEOREM SxExclusionHolds == Spec => []SxExclusion
<1>1. SxInv => SxExclusion BY DEF SxInv
<1> QED BY <1>1, SxInvariance, PTL

(* No wakeup is lost: a sleeping reader has a writer to wake it. *)
THEOREM NoStrandedReaderHolds == Spec => []NoStrandedReader
<1>1. SxInv => NoStrandedReader BY DEF SxInv
<1> QED BY <1>1, SxInvariance, PTL

(* No wakeup is lost: a sleeping writer has a holder or a woken thread to  *)
(* signal it.                                                              *)
THEOREM NoStrandedWriterHolds == Spec => []NoStrandedWriter
<1>1. SxInv => NoStrandedWriter BY DEF SxInv
<1> QED BY <1>1, SxInvariance, PTL

-----------------------------------------------------------------------------
(* Counting semaphores. *)

Sleeping == {td \in Threads : sema_pc[td] = "wait"}

(* Sets of threads are finite, and grow and shrink by one. *)
LEMMA CountThreads ==
    ASSUME NEW S \in SUBSET Threads
    PROVE  /\ IsFiniteSet(S) /\ Cardinality(S) \in Nat
           /\ Cardinality(S) = 0 <=> S = {}
           /\ \A td \in Threads : td \notin S => Cardinality(S \cup {td}) = Cardinality(S) + 1
           /\ \A td \in Threads : td \in S => Cardinality(S \ {td}) = Cardinality(S) - 1
<1>1. /\ IsFiniteSet(S) /\ Cardinality(S) \in Nat
      /\ Cardinality(S) = 0 <=> S = {}
  BY ThreadsAssumption, FS_Subset, FS_CardinalityType, FS_EmptySet
<1>2. ASSUME NEW td \in Threads, td \notin S
      PROVE  Cardinality(S \cup {td}) = Cardinality(S) + 1
  BY <1>1, <1>2, FS_AddElement
<1>3. ASSUME NEW td \in Threads, td \in S
      PROVE  Cardinality(S \ {td}) = Cardinality(S) - 1
  BY <1>1, <1>3, FS_RemoveElement
<1> QED BY <1>1, <1>2, <1>3

(* What a step of one thread from one stage to another does to the three   *)
(* sets the invariant speaks of.                                           *)
LEMMA StageStep ==
    ASSUME sema_pc \in [Threads -> SemaPcValues], NEW td \in Threads, NEW l \in SemaPcValues,
           sema_pc' = [sema_pc EXCEPT ![td] = l]
    PROVE  /\ sema_pc' \in [Threads -> SemaPcValues]
           /\ Waiters'  = IF l # "idle" THEN Waiters \cup {td} ELSE Waiters \ {td}
           /\ Sleeping' = IF l = "wait" THEN Sleeping \cup {td} ELSE Sleeping \ {td}
           /\ Woken'    = IF l = "woken" THEN Woken \cup {td} ELSE Woken \ {td}
<1>1. sema_pc' \in [Threads -> SemaPcValues] /\ \A t \in Threads : sema_pc'[t] = IF t = td THEN l ELSE sema_pc[t]
  OBVIOUS
<1>2. Waiters' = IF l # "idle" THEN Waiters \cup {td} ELSE Waiters \ {td}
  BY <1>1 DEF Waiters
<1>3. Sleeping' = IF l = "wait" THEN Sleeping \cup {td} ELSE Sleeping \ {td}
  BY <1>1 DEF Sleeping
<1>4. Woken' = IF l = "woken" THEN Woken \cup {td} ELSE Woken \ {td}
  BY <1>1 DEF Woken
<1> QED BY <1>1, <1>2, <1>3, <1>4

(* The facts about the counts that every case uses. *)
LEMMA Counts ==
    ASSUME SemaInv
    PROVE  /\ Waiters \in SUBSET Threads /\ Woken \in SUBSET Threads
           /\ ToSet(sema_cv) = Sleeping /\ IsInjective(sema_cv) /\ sema_cv \in Seq(Threads)
           /\ sema_waiters = Cardinality(Waiters) /\ Cardinality(Woken) \in Nat
           /\ sema_value \in Nat /\ sema_waiters \in Nat
           /\ sema_waiters = 0 => sema_cv = <<>>
<1>1. Waiters \in SUBSET Threads /\ Woken \in SUBSET Threads
  BY DEF Waiters, Woken
<1>2. Cardinality(Woken) \in Nat /\ (sema_waiters = 0 => Waiters = {})
  BY <1>1, CountThreads DEF SemaInv, WaitersMatch
<1>3. Waiters = {} => ToSet(sema_cv) = {}
  BY DEF SemaInv, WaitersMatch, Waiters
<1>4. sema_waiters = 0 => sema_cv = <<>>
  BY <1>2, <1>3, ToSetEmpty DEF SemaInv, SemaTypeOK
<1> QED BY <1>1, <1>2, <1>4 DEF SemaInv, SemaTypeOK, WaitersMatch, Sleeping

(* A thread joins the queue: it has found no unit. *)
LEMMA JoinStep ==
    ASSUME SemaInv, NEW td \in Threads, sema_pc[td] \in {"idle", "woken"}, sema_value = 0,
           sema_cv' = Append(sema_cv, td), sema_pc' = [sema_pc EXCEPT ![td] = "wait"], sema_value' = sema_value,
           sema_waiters' = IF sema_pc[td] = "idle" THEN sema_waiters + 1 ELSE sema_waiters,
           timed' \in SUBSET Threads
    PROVE  SemaInv'
<1>1. /\ sema_pc' \in [Threads -> SemaPcValues]
      /\ Waiters' = Waiters \cup {td} /\ Sleeping' = Sleeping \cup {td} /\ Woken' = Woken \ {td}
  BY StageStep DEF SemaInv, SemaTypeOK, SemaPcValues
<1>2. sema_pc[td] = "idle" <=> td \notin Waiters
  BY DEF Waiters
<1>3. td \notin ToSet(sema_cv)
  BY Counts DEF Sleeping
<1>4. sema_waiters' = Cardinality(Waiters') /\ sema_waiters' \in Nat
  <2>1. CASE sema_pc[td] = "idle"
    BY <1>1, <1>2, <2>1, Counts, CountThreads
  <2>2. CASE sema_pc[td] = "woken"
    <3>1. Waiters' = Waiters BY <1>1, <1>2, <2>2
    <3> QED BY <2>2, <3>1, Counts
  <2> QED BY <2>1, <2>2
<1>5. /\ sema_cv' \in Seq(Threads) /\ IsInjective(sema_cv')
      /\ ToSet(sema_cv') = Sleeping'
  BY <1>1, <1>3, Counts, JoinTail
<1>6. Cardinality(Woken') \in Nat
  <2>1. Woken' \in SUBSET Threads BY <1>1, Counts
  <2> QED BY <2>1, CountThreads
<1> QED BY <1>1, <1>4, <1>5, <1>6, Counts
    DEF SemaInv, SemaTypeOK, WaitersMatch, NoStrandedWaiter, Sleeping

(* A thread leaves the loop, with a unit or without. *)
LEMMA LeaveStep ==
    ASSUME SemaInv, NEW td \in Threads, sema_pc[td] \in {"woken", "timedout"},
           \/ sema_value > 0 /\ sema_value' = sema_value - 1
           \/ sema_value = 0 /\ sema_value' = sema_value,
           sema_waiters' = sema_waiters - 1, timed' = timed \ {td},
           sema_pc' = [sema_pc EXCEPT ![td] = "idle"], UNCHANGED sema_cv
    PROVE  SemaInv'
<1>1. /\ sema_pc' \in [Threads -> SemaPcValues]
      /\ Waiters' = Waiters \ {td} /\ Sleeping' = Sleeping \ {td} /\ Woken' = Woken \ {td}
  BY StageStep DEF SemaInv, SemaTypeOK, SemaPcValues
<1>2. td \in Waiters /\ td \notin Sleeping
  BY DEF Waiters, Sleeping
<1>3. sema_waiters' = Cardinality(Waiters') /\ sema_waiters' \in Nat
  <2>1. Cardinality(Waiters') = Cardinality(Waiters) - 1 /\ Cardinality(Waiters') \in Nat
    <3>1. Waiters' \in SUBSET Threads BY <1>1, Counts
    <3> QED BY <1>1, <1>2, <3>1, Counts, CountThreads
  <2> QED BY <2>1, Counts
<1>4. sema_cv' \in Seq(Threads) /\ IsInjective(sema_cv') /\ ToSet(sema_cv') = Sleeping'
  <2>1. Sleeping' = Sleeping BY <1>1, <1>2
  <2> QED BY <2>1, Counts
<1>5. Cardinality(Woken') \in Nat /\ Cardinality(Woken') >= Cardinality(Woken) - 1
  <2>1. Woken' \in SUBSET Threads BY <1>1, Counts
  <2>2. CASE td \in Woken
    BY <1>1, <2>1, <2>2, Counts, CountThreads
  <2>3. CASE td \notin Woken
    <3>1. Woken' = Woken BY <1>1, <2>3
    <3> QED BY <3>1, Counts
  <2> QED BY <2>2, <2>3
<1>6. sema_value' \in Nat /\ (sema_value' = 0 \/ sema_value' = sema_value - 1)
  BY Counts
<1> QED BY <1>1, <1>3, <1>4, <1>5, <1>6, Counts
    DEF SemaInv, SemaTypeOK, WaitersMatch, NoStrandedWaiter, Sleeping

(* A thread leaves the queue: the first one, woken by a post, ... *)
LEMMA PostStep ==
    ASSUME SemaInv, NEW td \in Threads, Post(td)
    PROVE  SemaInv'
<1>1. /\ sema_value' = sema_value + 1 /\ sema_value' \in Nat
      /\ UNCHANGED <<sema_waiters, timed>>
  BY Counts DEF Post
<1>2. CASE sema_cv = <<>>
  <2>1. UNCHANGED <<sema_cv, sema_pc>>
    BY <1>2 DEF Post, cv_signal
  <2>2. Waiters' = Waiters
    BY <2>1 DEF Waiters
  <2> QED BY <1>1, <1>2, <2>1, <2>2 DEF SemaInv, SemaTypeOK, WaitersMatch, NoStrandedWaiter
<1>3. CASE sema_cv # <<>>
  <2> DEFINE t == Head(sema_cv)
  <2>1. sema_waiters > 0 /\ sema_value + 1 > 0
    BY <1>3, Counts
  <2>2. sema_cv' = Tail(sema_cv) /\ sema_pc' = [sema_pc EXCEPT ![t] = "woken"]
    BY <1>3, <2>1 DEF Post, MustSignal, cv_signal
  <2>3. /\ t \in Threads /\ t \in ToSet(sema_cv) /\ sema_cv' \in Seq(Threads)
        /\ ToSet(sema_cv') = ToSet(sema_cv) \ {t} /\ IsInjective(sema_cv')
    BY <1>3, <2>2, Counts, TailProperties
  <2> HIDE DEF t
  <2>4. sema_pc[t] = "wait"
    BY <2>3, Counts DEF Sleeping
  <2>5. /\ sema_pc' \in [Threads -> SemaPcValues]
        /\ Waiters' = Waiters \cup {t} /\ Sleeping' = Sleeping \ {t} /\ Woken' = Woken \cup {t}
    BY <2>2, <2>3, StageStep DEF SemaInv, SemaTypeOK, SemaPcValues
  <2>6. Waiters' = Waiters /\ t \notin Woken
    BY <2>3, <2>4, <2>5 DEF Waiters, Woken
  <2>7. Cardinality(Woken') = Cardinality(Woken) + 1
    BY <2>3, <2>5, <2>6, Counts, CountThreads
  <2>8. ToSet(sema_cv') = Sleeping'
    BY <2>3, <2>5, Counts
  <2>9. sema_value <= Cardinality(Woken)
    BY <1>3 DEF SemaInv, NoStrandedWaiter
  <2>10. sema_value' <= Cardinality(Woken')
    BY <1>1, <2>7, <2>9, Counts
  <2> QED BY <1>1, <2>3, <2>5, <2>6, <2>8, <2>10, Counts
      DEF SemaInv, SemaTypeOK, WaitersMatch, NoStrandedWaiter, Sleeping
<1> QED BY <1>2, <1>3

(* ... or any, whose time is up. *)
LEMMA TimeoutStep ==
    ASSUME SemaInv, NEW td \in Threads, Timeout(td)
    PROVE  SemaInv'
<1>1. PICK i \in 1..Len(sema_cv) : sema_cv[i] = td /\ sema_cv' = RemoveAt(sema_cv, i)
  BY DEF Timeout
<1>2. sema_pc' = [sema_pc EXCEPT ![td] = "timedout"] /\ UNCHANGED <<sema_value, sema_waiters, timed>>
  BY DEF Timeout
<1>3. /\ sema_cv' \in Seq(Threads) /\ ToSet(sema_cv') = ToSet(sema_cv) \ {td}
      /\ IsInjective(sema_cv')
  BY <1>1, Counts, RemoveAtProperties
<1>4. td \in ToSet(sema_cv) /\ sema_cv # <<>>
  <2>1. DOMAIN sema_cv = 1..Len(sema_cv) BY Counts, LenProperties
  <2>2. td \in ToSet(sema_cv) BY <1>1, <2>1 DEF ToSet
  <2> QED BY <2>2, Counts, ToSetEmpty
<1>5. sema_pc[td] = "wait"
  BY <1>4, Counts DEF Sleeping
<1>6. /\ sema_pc' \in [Threads -> SemaPcValues]
      /\ Waiters' = Waiters \cup {td} /\ Sleeping' = Sleeping \ {td} /\ Woken' = Woken \ {td}
  BY <1>2, StageStep DEF SemaInv, SemaTypeOK, SemaPcValues
<1>7. Waiters' = Waiters /\ Woken' = Woken
  BY <1>5, <1>6 DEF Waiters, Woken
<1>8. ToSet(sema_cv') = Sleeping'
  BY <1>3, <1>6, Counts
<1> QED BY <1>2, <1>3, <1>4, <1>6, <1>7, <1>8, Counts
    DEF SemaInv, SemaTypeOK, WaitersMatch, NoStrandedWaiter, Sleeping

(* A thread that finds a unit at once takes it; the woken ones keep theirs. *)
LEMMA TakeAtOnce ==
    ASSUME SemaInv, sema_value > 0, sema_value' = sema_value - 1,
           UNCHANGED <<sema_waiters, sema_cv, timed, sema_pc>>
    PROVE  SemaInv'
<1>1. Waiters' = Waiters /\ Woken' = Woken
  BY DEF Waiters, Woken
<1>2. sema_value' \in Nat /\ sema_value' <= sema_value
  BY Counts
<1> QED BY <1>1, <1>2, Counts DEF SemaInv, SemaTypeOK, WaitersMatch, NoStrandedWaiter

-----------------------------------------------------------------------------
(* Every step preserves SemaInv. *)
LEMMA SemaInvStep ==
    ASSUME SemaInv, SemaNext
    PROVE  SemaInv'
<1>1. PICK td \in Threads : Call(td) \/ Resume(td) \/ Timeout(td)
  BY DEF SemaNext
<1>2. timed \in SUBSET Threads /\ sema_pc \in [Threads -> SemaPcValues]
  BY DEF SemaInv, SemaTypeOK
<1>3. CASE Post(td)
  BY <1>3, PostStep
<1>4. CASE Trywait(td)
  BY <1>4, TakeAtOnce DEF Trywait
<1>5. ASSUME NEW t \in BOOLEAN, Wait(td, t) PROVE SemaInv'
  <2>1. CASE sema_value > 0
    BY <1>5, <2>1, TakeAtOnce DEF Wait
  <2>2. CASE ~(sema_value > 0)
    <3>1. /\ sema_pc[td] = "idle" /\ sema_value = 0 /\ sema_cv' = Append(sema_cv, td)
          /\ sema_pc' = [sema_pc EXCEPT ![td] = "wait"] /\ sema_value' = sema_value
          /\ sema_waiters' = sema_waiters + 1 /\ timed' \in SUBSET Threads
      BY <1>2, <1>5, <2>2 DEF Wait
    <3> QED BY <3>1, JoinStep
  <2> QED BY <2>1, <2>2
<1>6. CASE Take(td)
  BY <1>6, LeaveStep DEF Take
<1>7. CASE GiveUp(td)
  BY <1>7, LeaveStep DEF GiveUp
<1>8. CASE WaitAgain(td)
  <2>1. /\ sema_pc[td] = "woken" /\ sema_value = 0 /\ sema_cv' = Append(sema_cv, td)
        /\ sema_pc' = [sema_pc EXCEPT ![td] = "wait"] /\ sema_value' = sema_value
        /\ sema_waiters' = sema_waiters /\ timed' \in SUBSET Threads
    BY <1>2, <1>8 DEF WaitAgain
  <2> QED BY <2>1, JoinStep
<1>9. CASE Timeout(td)
  BY <1>9, TimeoutStep
<1> QED BY <1>1, <1>3, <1>4, <1>5, <1>6, <1>7, <1>8, <1>9 DEF Call, Resume

(* The invariant of semaphores (kern_sema.c): for any finite number of     *)
(* threads the wait count and the queue are those of the waiting threads,  *)
(* and no sleeping thread is passed over.                                  *)
THEOREM SemaInvariance == SemaSpec => []SemaInv
<1>1. SemaInit => SemaInv
  <2> SUFFICES ASSUME SemaInit PROVE SemaInv OBVIOUS
  <2> USE SemaAssumption
  <2>1. SemaTypeOK BY DEF SemaInit, SemaTypeOK, SemaPcValues
  <2>2. Waiters = {} BY DEF SemaInit, Waiters
  <2>3. ToSet(<<>>) = {} /\ IsInjective(<<>>) BY DEF ToSet, IsInjective
  <2>4. WaitersMatch BY <2>2, <2>3, FS_EmptySet DEF SemaInit, WaitersMatch
  <2> QED BY <2>1, <2>4 DEF SemaInit, SemaInv, NoStrandedWaiter
<1>2. SemaInv /\ [SemaNext]_sema_vars => SemaInv'
  <2>1. ASSUME SemaInv, UNCHANGED sema_vars PROVE SemaInv'
    BY <2>1 DEF SemaInv, SemaTypeOK, WaitersMatch, NoStrandedWaiter, Waiters, Woken, sema_vars
  <2> QED BY <2>1, SemaInvStep
<1> QED BY <1>1, <1>2, PTL DEF SemaSpec

(* _sema_post() loses no unit on a sleeping thread. *)
THEOREM NoStrandedWaiterHolds == SemaSpec => []NoStrandedWaiter
<1>1. SemaInv => NoStrandedWaiter BY DEF SemaInv
<1> QED BY <1>1, SemaInvariance, PTL

=============================================================================
