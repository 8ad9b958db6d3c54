----------------------------- MODULE LockmgrProofs ----------------------------
(***************************************************************************)
(* Proofs about Lockmgr for every finite set of threads, any recursion and *)
(* any way of waiting: the flags and counts of the lock are exact, an      *)
(* accepted upgrade is not overtaken, and nobody sleeps without a cause.   *)
(*                                                                         *)
(* Exact says of a lock l, threads in states p, requests r and shares sh   *)
(* what LockExact and UpgradeNotOvertaken say of the variables.  A call    *)
(* takes its thread out of the picture (Free), changes the lock, and puts  *)
(* the thread back, so that each part is a lemma about Exact.  BlockedIn   *)
(* says the same way who may sleep.                                        *)
(***************************************************************************)
EXTENDS Lockmgr, FiniteSetTheorems, TLAPS

(* The types of the variables. *)
LockType ==
    [flags : SUBSET {"HAVE_EXCL", "WANT_EXCL", "WANT_UPGRADE", "WAITDRAIN"},
     sharecount : Nat, waitcount : Nat, exclusivecount : 0..MaxExclusive,
     lockholder : Threads \cup {NOPROC, KERNPROC}]
PcType == [Threads -> {"idle", "asleep", "woken", "failed", "pause"}]
RqType == [Threads -> [stage : Stages \cup {"none"}, how : Hows]]

(* The threads in an acquire(), those that lk_waitcount counts, and the     *)
(* shared locks, one pair for each.                                        *)
In(p, r, st) == {td \in Threads : p[td] # "idle" /\ r[td].stage = st}
CountedIn(p, r) ==
    {td \in Threads : p[td] \in {"asleep", "woken", "failed"} /\ r[td].stage # "drain"}
SharesIn(sh) == UNION {{td} \X (1..sh[td]) : td \in Threads}

(* The lock alone, its shares, its threads, its count of sleepers, and its *)
(* LK_WANT flags.                                                          *)
HolderExact(l) ==
    /\ l \in LockType
    /\ ("HAVE_EXCL" \in l.flags) <=> (l.exclusivecount > 0)
    /\ ("HAVE_EXCL" \in l.flags) <=> (l.lockholder # NOPROC)
    /\ l.exclusivecount > 0 => l.sharecount = 0

SharesExact(l, sh) ==
    /\ sh \in [Threads -> Nat]
    /\ IsFiniteSet(SharesIn(sh)) /\ l.sharecount = Cardinality(SharesIn(sh))

ThreadsExact(p, r) ==
    /\ p \in PcType /\ r \in RqType
    /\ \A td \in Threads : IF p[td] = "idle" THEN r[td] = NoRequest ELSE r[td].stage \in Stages

WaitsExact(l, p, r) == l.waitcount = Cardinality(CountedIn(p, r))

WantsExact(l, p, r) ==
    /\ ("WANT_EXCL" \in l.flags) <=> (In(p, r, "excl2") # {})
    /\ ("WANT_UPGRADE" \in l.flags) <=> (In(p, r, "upgrade") # {})
    /\ \A st \in {"excl2", "upgrade"} : \A a, b \in In(p, r, st) : a = b
    /\ In(p, r, "upgrade") # {} => l.exclusivecount = 0

Exact(l, p, r, sh) ==
    /\ HolderExact(l) /\ SharesExact(l, sh) /\ ThreadsExact(p, r)
    /\ WaitsExact(l, p, r) /\ WantsExact(l, p, r)

(* The lock as it is without td. *)
Free(td, l, p, r, sh) == Exact(l, [p EXCEPT ![td] = "idle"], [r EXCEPT ![td] = NoRequest], sh)

(* l without the flag of a request in stage st. *)
Without(l, st) == [l EXCEPT !.flags = @ \ WantFlag(st)]

-----------------------------------------------------------------------------
(* Counting. *)

(* Finite sets of threads. *)
LEMMA FiniteThreads ==
    ASSUME NEW S \in SUBSET Threads
    PROVE  IsFiniteSet(S) /\ Cardinality(S) \in Nat
BY LockmgrAssumption, FS_Subset, FS_CardinalityType

(* A thread is counted or not counted any more. *)
LEMMA CountStep ==
    ASSUME NEW S \in SUBSET Threads, NEW td \in Threads
    PROVE  /\ td \notin S => Cardinality(S \cup {td}) = Cardinality(S) + 1
           /\ td \in S => Cardinality(S \ {td}) = Cardinality(S) - 1
BY FiniteThreads, FS_AddElement, FS_RemoveElement

(* What the holds are. *)
LEMMA SharesInDef ==
    ASSUME NEW sh \in [Threads -> Nat]
    PROVE  \A s : s \in SharesIn(sh) <=> \E td \in Threads : \E i \in 1..sh[td] : s = <<td, i>>
BY DEF SharesIn

(* A share is given. *)
LEMMA AddShare ==
    ASSUME NEW l, NEW sh, NEW td \in Threads, SharesExact(l, sh),
           NEW sh1 \in [Threads -> Nat],
           \A t \in Threads : sh1[t] = IF t = td THEN sh[t] + 1 ELSE sh[t]
    PROVE  /\ IsFiniteSet(SharesIn(sh1))
           /\ Cardinality(SharesIn(sh1)) = l.sharecount + 1
<1>1. sh \in [Threads -> Nat] /\ sh1 \in [Threads -> Nat]
  BY DEF SharesExact
<1>2. \A t \in Threads : sh1[t] = IF t = td THEN sh[t] + 1 ELSE sh[t] BY <1>1
<1>3. sh[td] + 1 \notin 1..sh[td] /\ \A i : i \in 1..(sh[td] + 1) <=> i \in 1..sh[td] \/ i = sh[td] + 1
  BY <1>1
<1>4. \A s : s \in SharesIn(sh1) <=> s \in SharesIn(sh) \/ s = <<td, sh[td] + 1>>
  <2>1. \A s : s \in SharesIn(sh1) <=> \E t \in Threads : \E i \in 1..sh1[t] : s = <<t, i>>
    BY <1>1, SharesInDef
  <2>2. \A s : s \in SharesIn(sh) <=> \E t \in Threads : \E i \in 1..sh[t] : s = <<t, i>>
    BY <1>1, SharesInDef
  <2>3. \A t \in Threads : \A i : i \in 1..sh1[t] <=> i \in 1..sh[t] \/ (t = td /\ i = sh[td] + 1)
    BY <1>2, <1>3
  <2> QED BY <2>1, <2>2, <2>3
<1>5. SharesIn(sh1) = SharesIn(sh) \cup {<<td, sh[td] + 1>>} BY <1>4
<1>6. <<td, sh[td] + 1>> \notin SharesIn(sh) BY <1>1, <1>3, SharesInDef
<1>7. IsFiniteSet(SharesIn(sh)) /\ l.sharecount = Cardinality(SharesIn(sh)) BY DEF SharesExact
<1>8. /\ IsFiniteSet(SharesIn(sh) \cup {<<td, sh[td] + 1>>})
      /\ Cardinality(SharesIn(sh) \cup {<<td, sh[td] + 1>>}) = Cardinality(SharesIn(sh)) + 1
  BY <1>6, <1>7, FS_AddElement
<1> QED BY <1>5, <1>7, <1>8

(* A share is given back; the lock has then been shared. *)
LEMMA DropShare ==
    ASSUME NEW l, NEW sh \in [Threads -> Nat], NEW td \in Threads, SharesExact(l, sh), sh[td] # 0,
           NEW sh1 \in [Threads -> Nat],
           \A t \in Threads : sh1[t] = IF t = td THEN sh[t] - 1 ELSE sh[t]
    PROVE  /\ IsFiniteSet(SharesIn(sh1))
           /\ l.sharecount \in Nat /\ l.sharecount > 0
           /\ Cardinality(SharesIn(sh1)) = l.sharecount - 1
<1>1. sh \in [Threads -> Nat] /\ sh1 \in [Threads -> Nat]
  BY DEF SharesExact
<1>2. \A t \in Threads : sh[t] = IF t = td THEN sh1[t] + 1 ELSE sh1[t] BY <1>1
<1>4. IsFiniteSet(SharesIn(sh1))
  <2>1. \A s : s \in SharesIn(sh1) <=> \E t \in Threads : \E i \in 1..sh1[t] : s = <<t, i>>
    BY <1>1, SharesInDef
  <2>2. \A s : s \in SharesIn(sh) <=> \E t \in Threads : \E i \in 1..sh[t] : s = <<t, i>>
    BY <1>1, SharesInDef
  <2>3. \A t \in Threads : \A i : i \in 1..sh1[t] => i \in 1..sh[t]
    BY <1>1, <1>2
  <2>4. SharesIn(sh1) \subseteq SharesIn(sh) BY <2>1, <2>2, <2>3
  <2> QED BY <2>4, FS_Subset DEF SharesExact
<1>5. SharesExact([sharecount |-> Cardinality(SharesIn(sh1))], sh1)
  BY <1>1, <1>4 DEF SharesExact
<1>6. Cardinality(SharesIn(sh)) = Cardinality(SharesIn(sh1)) + 1
  BY <1>1, <1>2, <1>5, AddShare
<1>7. Cardinality(SharesIn(sh1)) \in Nat BY <1>4, FS_CardinalityType
<1> QED BY <1>1, <1>4, <1>6, <1>7 DEF SharesExact

(* The holds of one thread. *)
LEMMA SharesOfOne ==
    ASSUME NEW td, NEW n \in Nat
    PROVE  IsFiniteSet({td} \X (1..n)) /\ Cardinality({td} \X (1..n)) = n
<1>1. IsFiniteSet(1..n) /\ Cardinality(1..n) = n
  BY FS_Interval
<1>2. IsFiniteSet({td}) /\ Cardinality({td}) = 1
  BY FS_Singleton
<1>3. /\ IsFiniteSet({td} \X (1..n))
      /\ Cardinality({td} \X (1..n)) = Cardinality({td}) * Cardinality(1..n)
  BY <1>1, <1>2, FS_Product
<1>4. 1 * n = n
  OBVIOUS
<1> QED BY <1>1, <1>2, <1>3, <1>4

(* A thread gets shares of a lock that nobody shares. *)
LEMMA FirstShares ==
    ASSUME NEW l, NEW sh, NEW td \in Threads, SharesExact(l, sh), l.sharecount = 0,
           NEW sh1 \in [Threads -> Nat], \A t \in Threads \ {td} : sh1[t] = sh[t]
    PROVE  /\ IsFiniteSet(SharesIn(sh1)) /\ Cardinality(SharesIn(sh1)) = sh1[td]
           /\ sh[td] = 0
<1> DEFINE n == sh1[td]
<1>1. sh \in [Threads -> Nat] /\ n \in Nat
  BY DEF SharesExact
<1>2. SharesIn(sh) = {}
  BY FS_EmptySet DEF SharesExact
<1>3. \A t \in Threads : sh[t] = 0
  <2> SUFFICES ASSUME NEW t \in Threads, sh[t] # 0 PROVE FALSE OBVIOUS
  <2>1. 1 \in 1..sh[t] BY <1>1
  <2>2. <<t, 1>> \in SharesIn(sh) BY <1>1, <2>1, SharesInDef
  <2> QED BY <1>2, <2>2
<1>4. \A t \in Threads : sh1[t] = IF t = td THEN n ELSE 0 BY <1>3
<1> HIDE DEF n
<1>5. SharesIn(sh1) = {td} \X (1..n)
  <2>1. \A s : s \in SharesIn(sh1) <=> \E t \in Threads : \E i \in 1..sh1[t] : s = <<t, i>>
    BY SharesInDef
  <2>2. \A t \in Threads : \A i : i \in 1..sh1[t] <=> t = td /\ i \in 1..n BY <1>1, <1>4
  <2>3. \A s : s \in SharesIn(sh1) <=> \E i \in 1..n : s = <<td, i>> BY <2>1, <2>2
  <2>4. \A s : s \in {td} \X (1..n) <=> \E i \in 1..n : s = <<td, i>> OBVIOUS
  <2> QED BY <2>3, <2>4
<1>6. IsFiniteSet({td} \X (1..n)) /\ Cardinality({td} \X (1..n)) = n
  BY <1>1, SharesOfOne
<1>7. IsFiniteSet(SharesIn(sh1)) /\ Cardinality(SharesIn(sh1)) = n
  BY <1>5, <1>6
<1> QED BY <1>3, <1>7 DEF n

-----------------------------------------------------------------------------
(* Threads come, go and are woken. *)

(* An idle thread can be taken out of the picture. *)
LEMMA IdleFree ==
    ASSUME NEW l, NEW p, NEW r, NEW sh, NEW td \in Threads, Exact(l, p, r, sh), p[td] = "idle"
    PROVE  Free(td, l, p, r, sh)
<1>1. p \in PcType /\ r \in RqType /\ r[td] = NoRequest
  BY DEF Exact, ThreadsExact
<1>2. [p EXCEPT ![td] = "idle"] = p /\ [r EXCEPT ![td] = NoRequest] = r
  BY <1>1 DEF PcType, RqType
<1> QED BY <1>2 DEF Free

(* A wakeup changes nothing that is counted. *)
LEMMA WakeKeeps ==
    ASSUME NEW l, NEW p, NEW r, NEW sh, NEW s \in SUBSET {td \in Threads : p[td] = "asleep"},
           Exact(l, p, r, sh)
    PROVE  Exact(l, Wake(p, s), r, sh)
<1>1. p \in PcType /\ Wake(p, s) \in PcType
  BY DEF Exact, ThreadsExact, Wake, PcType
<1>2. \A td \in Threads : Wake(p, s)[td] = p[td] \/ (p[td] = "asleep" /\ Wake(p, s)[td] = "woken")
  BY DEF Wake
<1>3. CountedIn(Wake(p, s), r) = CountedIn(p, r) /\ \A st : In(Wake(p, s), r, st) = In(p, r, st)
  BY <1>2 DEF CountedIn, In
<1> QED BY <1>1, <1>2, <1>3 DEF Exact, ThreadsExact, WaitsExact, WantsExact

(* The end of a call keeps the lock exact. *)
LEMMA FinishKeeps ==
    ASSUME NEW l, NEW p, NEW r, NEW sh, Exact(l, p, r, sh), Finish(l, p)
    PROVE  Exact(lk', pc', r, sh)
<1>1. Drainers(p) \in SUBSET {td \in Threads : p[td] = "asleep"}
  BY DEF Drainers
<1>2. Exact(l, Wake(p, Drainers(p)), r, sh)
  BY <1>1, WakeKeeps
<1>3. ASSUME NEW p1, Exact(l, p1, r, sh) PROVE Exact(ClearFlag(l, "WAITDRAIN"), p1, r, sh)
  BY <1>3 DEF Exact, HolderExact, SharesExact, WaitsExact, WantsExact, ClearFlag, LockType
<1>4. \/ lk' = l /\ pc' = p
      \/ lk' = ClearFlag(l, "WAITDRAIN") /\ pc' = Wake(p, Drainers(p))
  BY DEF Finish
<1> QED BY <1>2, <1>3, <1>4

(* A thread returns from lockmgr(). *)
LEMMA ReturnKeeps ==
    ASSUME NEW l, NEW p, NEW sh, NEW td \in Threads, Free(td, l, p, rq, sh), Return(td, l, p)
    PROVE  Exact(lk', pc', rq', sh)
<1>1. Finish(l, [p EXCEPT ![td] = "idle"]) /\ rq' = [rq EXCEPT ![td] = NoRequest]
  BY DEF Return
<1>2. Exact(l, [p EXCEPT ![td] = "idle"], rq', sh)
  BY <1>1 DEF Free
<1> QED BY <1>1, <1>2, FinishKeeps

-----------------------------------------------------------------------------
(* acquire(), entered with the flag of its stage set. *)

(* A lock without a flag that it does not have is that lock. *)
LEMMA WithoutNone ==
    ASSUME NEW l \in LockType, NEW st, WantFlag(st) \cap l.flags = {}
    PROVE  Without(l, st) = l
<1>1. l.flags \ WantFlag(st) = l.flags
  OBVIOUS
<1>2. [l EXCEPT !.flags = l.flags] = l
  BY DEF LockType
<1> QED BY <1>1, <1>2 DEF Without

(* A lock granted to share. *)
LEMMA GrantShared ==
    ASSUME NEW l, NEW p, NEW sh, NEW td \in Threads, Free(td, l, p, rq, sh),
           ~Blocks(td, "shared", l), Granted(td, "shared", l, p)
    PROVE  Exact(lk', pc', rq', [sh EXCEPT ![td] = @ + 1]) /\ panicstr' \in BOOLEAN
<1> DEFINE p0 == [p EXCEPT ![td] = "idle"]
           r0 == [rq EXCEPT ![td] = NoRequest]
           sh1 == [sh EXCEPT ![td] = @ + 1]
           l1 == sharelock(l, 1)
<1>1. Exact(l, p0, r0, sh)
  BY DEF Free
<1>2. /\ l1 \in LockType /\ l1.sharecount = l.sharecount + 1
      /\ l1.flags = l.flags /\ l1.waitcount = l.waitcount
      /\ l1.exclusivecount = l.exclusivecount /\ l1.lockholder = l.lockholder
  BY <1>1 DEF Exact, HolderExact, LockType, sharelock
<1>3. "HAVE_EXCL" \notin l.flags
  BY DEF Blocks, Wanted, Flags
<1>4. HolderExact(l1)
  BY <1>1, <1>2, <1>3 DEF Exact, HolderExact, LockType
<1>5. SharesExact(l1, sh1)
  <2>1. sh \in [Threads -> Nat] /\ SharesExact(l, sh)
    BY <1>1 DEF Exact, SharesExact
  <2>2. sh1 \in [Threads -> Nat] /\ \A t \in Threads : sh1[t] = IF t = td THEN sh[t] + 1 ELSE sh[t]
    BY <2>1
  <2> HIDE DEF sh1
  <2> QED BY <1>2, <2>1, <2>2, AddShare DEF SharesExact
<1>6. Exact(l1, p0, r0, sh1)
  BY <1>1, <1>2, <1>4, <1>5 DEF Exact, WaitsExact, WantsExact
<1>7. Return(td, l1, p) /\ panicstr' \in BOOLEAN
  BY DEF Granted
<1> QED BY <1>6, <1>7, ReturnKeeps DEF Free

(* A lock granted exclusively. *)
LEMMA GrantExclusive ==
    ASSUME NEW l \in LockType, NEW p, NEW sh, NEW td \in Threads, NEW st \in {"excl2", "upgrade", "drain"},
           Free(td, Without(l, st), p, rq, sh), ~Blocks(td, st, l), Granted(td, st, l, p)
    PROVE  Exact(lk', pc', rq', sh) /\ panicstr' \in BOOLEAN
<1> DEFINE p0 == [p EXCEPT ![td] = "idle"]
           r0 == [rq EXCEPT ![td] = NoRequest]
           l0 == Without(l, st)
           l1 == MakeHolder(l, td, st)
<1>1. Exact(l0, p0, r0, sh)
  BY DEF Free
<1>2. /\ l0.flags = l.flags \ WantFlag(st) /\ l0.sharecount = l.sharecount
      /\ l0.waitcount = l.waitcount
  BY DEF Without, LockType
<1>3. /\ l1 \in LockType /\ l1.sharecount = l.sharecount
      /\ l1.flags = (l.flags \ WantFlag(st)) \cup {"HAVE_EXCL"} /\ l1.waitcount = l.waitcount
      /\ l1.exclusivecount = 1 /\ l1.lockholder = td
  <2>1. 1 \in 0..MaxExclusive
    BY LockmgrAssumption
  <2>2. (l.flags \ WantFlag(st)) \cup {"HAVE_EXCL"}
            \in SUBSET {"HAVE_EXCL", "WANT_EXCL", "WANT_UPGRADE", "WAITDRAIN"}
    BY DEF LockType
  <2> HIDE DEF LockType
  <2> QED BY <2>1, <2>2 DEF LockType, MakeHolder
<1>4. l.sharecount = 0
  BY DEF Blocks, Wanted, Flags, LK_ALL, LockType
<1>5. "WANT_UPGRADE" \notin l0.flags
  BY <1>2 DEF Blocks, Wanted, Flags, LK_ALL, WantFlag
<1>6. HolderExact(l1)
  BY <1>3, <1>4, LockmgrAssumption DEF HolderExact
<1>7. SharesExact(l1, sh) /\ ThreadsExact(p0, r0) /\ WaitsExact(l1, p0, r0)
  BY <1>1, <1>2, <1>3 DEF Exact, SharesExact, WaitsExact
<1>8. WantsExact(l1, p0, r0)
  BY <1>1, <1>2, <1>3, <1>5 DEF Exact, WantsExact
<1>9. Free(td, l1, p, rq, sh)
  BY <1>6, <1>7, <1>8 DEF Exact, Free
<1>10. Return(td, l1, p) /\ panicstr' \in BOOLEAN
  BY DEF Granted
<1> QED BY <1>9, <1>10, ReturnKeeps

(* A request fails. *)
LEMMA FailKeeps ==
    ASSUME NEW l, NEW p, NEW sh, NEW td \in Threads, NEW st,
           Free(td, Without(l, st), p, rq, sh), Fail(td, st, l, p)
    PROVE  Exact(lk', pc', rq', sh) /\ panicstr' = panicstr
<1>1. Return(td, Without(l, st), p) /\ panicstr' = panicstr
  BY DEF Fail, Without
<1> QED BY <1>1, ReturnKeeps

(* A request waits. *)
LEMMA WaitKeeps ==
    ASSUME NEW l \in LockType, NEW p \in PcType, NEW sh, NEW td \in Threads, NEW st \in Stages, NEW h \in Hows,
           NEW spin \in BOOLEAN, rq \in RqType, WantFlag(st) \subseteq l.flags,
           st = "upgrade" => l.exclusivecount = 0,
           Free(td, Without(l, st), p, rq, sh), Wait(td, st, h, l, p, spin)
    PROVE  Exact(lk', pc', rq', sh) /\ panicstr' = panicstr
<1> DEFINE p0 == [p EXCEPT ![td] = "idle"]
           r0 == [rq EXCEPT ![td] = NoRequest]
           l0 == Without(l, st)
           s == IF spin THEN "pause" ELSE "asleep"
           q == [stage |-> st, how |-> h]
<1>1. Exact(l0, p0, r0, sh)
  BY DEF Free
<1>2. /\ l0 \in LockType /\ l0.flags = l.flags \ WantFlag(st)
      /\ l0.sharecount = l.sharecount /\ l0.waitcount = l.waitcount
      /\ l0.exclusivecount = l.exclusivecount /\ l0.lockholder = l.lockholder
  BY DEF Without, LockType
<1>3. /\ lk' \in LockType
      /\ lk'.flags = l.flags \/ lk'.flags = l.flags \cup {"WAITDRAIN"}
      /\ lk'.sharecount = l.sharecount
      /\ lk'.exclusivecount = l.exclusivecount /\ lk'.lockholder = l.lockholder
      /\ lk'.waitcount = IF s # "pause" /\ q.stage # "drain" THEN l.waitcount + 1 ELSE l.waitcount
  BY DEF Wait, SetFlag, LockType
<1>4. pc' = [p EXCEPT ![td] = s] /\ rq' = [rq EXCEPT ![td] = q] /\ panicstr' = panicstr
  BY DEF Wait
<1>5. /\ pc' \in PcType /\ rq' \in RqType
      /\ p0[td] = "idle" /\ pc'[td] = s /\ rq'[td] = q
      /\ \A t \in Threads \ {td} : p0[t] = pc'[t] /\ r0[t] = rq'[t]
  BY <1>4 DEF PcType, RqType
<1>6. /\ \A st1 : /\ td \notin In(p0, r0, st1)
                  /\ In(pc', rq', st1) = IF st = st1 THEN In(p0, r0, st1) \cup {td} ELSE In(p0, r0, st1)
      /\ td \notin CountedIn(p0, r0)
      /\ CountedIn(pc', rq') = IF s # "pause" /\ st # "drain"
                               THEN CountedIn(p0, r0) \cup {td} ELSE CountedIn(p0, r0)
  <2>1. s # "idle" /\ q.stage = st
    OBVIOUS
  <2> HIDE DEF p0, r0, s, q
  <2>2. pc'[td] # "idle" /\ pc'[td] = s /\ rq'[td].stage = st
    BY <1>5, <2>1
  <2>3. \A st1 : /\ td \notin In(p0, r0, st1)
                 /\ In(pc', rq', st1) = IF st = st1 THEN In(p0, r0, st1) \cup {td} ELSE In(p0, r0, st1)
    BY <1>5, <2>2 DEF In
  <2>4. td \notin CountedIn(p0, r0)
    BY <1>5 DEF CountedIn
  <2>5. CountedIn(pc', rq') = IF pc'[td] # "pause" /\ st # "drain"
                              THEN CountedIn(p0, r0) \cup {td} ELSE CountedIn(p0, r0)
    BY <1>5, <2>2 DEF CountedIn, PcType
  <2> QED BY <2>2, <2>3, <2>4, <2>5
<1>7. HolderExact(lk')
  BY <1>1, <1>2, <1>3 DEF Exact, HolderExact, WantFlag, Stages
<1>8. SharesExact(lk', sh)
  BY <1>1, <1>2, <1>3 DEF Exact, SharesExact
<1>9. ThreadsExact(pc', rq')
  <2> QED BY <1>1, <1>5 DEF Exact, ThreadsExact
<1>10. WaitsExact(lk', pc', rq')
  <2>1. CountedIn(p0, r0) \in SUBSET Threads
    BY DEF CountedIn
  <2>2. Cardinality(CountedIn(p0, r0) \cup {td}) = Cardinality(CountedIn(p0, r0)) + 1
    BY <1>6, <2>1, CountStep
  <2> QED BY <1>1, <1>2, <1>3, <1>6, <2>2 DEF Exact, WaitsExact
<1>11. WantsExact(lk', pc', rq')
  <2>1. WantsExact(l0, p0, r0)
    BY <1>1 DEF Exact
  <2>2. CASE st = "excl2"
    BY <1>2, <1>3, <1>6, <2>1, <2>2 DEF WantsExact, WantFlag
  <2>3. CASE st = "upgrade"
    BY <1>2, <1>3, <1>6, <2>1, <2>3 DEF WantsExact, WantFlag
  <2>4. CASE st \in {"shared", "excl1", "drain"}
    BY <1>2, <1>3, <1>6, <2>1, <2>4 DEF WantsExact, WantFlag
  <2> QED BY <2>2, <2>3, <2>4 DEF Stages
<1> QED BY <1>4, <1>7, <1>8, <1>9, <1>10, <1>11 DEF Exact

(* acquire() and acquiredrain(), whatever their outcome. *)
LEMMA AcquireKeeps ==
    ASSUME NEW l \in LockType, NEW p \in PcType, NEW sh, NEW td \in Threads, NEW st \in Stages, NEW h \in Hows,
           NEW again \in BOOLEAN, rq \in RqType, WantFlag(st) \subseteq l.flags,
           st = "upgrade" => l.exclusivecount = 0,
           st = "excl1" => Blocks(td, st, l),
           Free(td, Without(l, st), p, rq, sh), Acquire(td, st, h, again, l, p)
    PROVE  /\ st = "shared" /\ ~Blocks(td, "shared", l) => Exact(lk', pc', rq', [sh EXCEPT ![td] = @ + 1])
           /\ st # "shared" \/ Blocks(td, "shared", l) => Exact(lk', pc', rq', sh)
           /\ panicstr \in BOOLEAN => panicstr' \in BOOLEAN
<1>1. CASE ~Blocks(td, st, l) /\ Granted(td, st, l, p)
  <2>1. CASE st = "shared"
    <3>1. Free(td, l, p, rq, sh)
      BY <2>1, WithoutNone DEF WantFlag
    <3> QED BY <1>1, <2>1, <3>1, GrantShared
  <2>2. CASE st \in {"excl2", "upgrade", "drain"}
    BY <1>1, <2>2, GrantExclusive
  <2> QED BY <1>1, <2>1, <2>2 DEF Stages
<1>2. CASE Blocks(td, st, l) /\ Fail(td, st, l, p)
  BY <1>2, FailKeeps
<1>3. CASE Blocks(td, st, l) /\ \E spin \in {FALSE, ~again} : Wait(td, st, h, l, p, spin)
  <2>1. PICK spin \in BOOLEAN : Wait(td, st, h, l, p, spin)
    BY <1>3
  <2> QED BY <1>3, <2>1, WaitKeeps
<1> QED BY <1>1, <1>2, <1>3 DEF Acquire

(* acquire() by a thread that has set its LK_WANT_* flag. *)
LEMMA AcquireOther ==
    ASSUME NEW l \in LockType, NEW p \in PcType, NEW sh, NEW td \in Threads, NEW h \in Hows,
           NEW st \in {"excl2", "upgrade"}, rq \in RqType, WantFlag(st) \subseteq l.flags,
           st = "upgrade" => l.exclusivecount = 0,
           Free(td, Without(l, st), p, rq, sh), Acquire(td, st, h, FALSE, l, p)
    PROVE  /\ Exact(lk', pc', rq', sh)
           /\ panicstr \in BOOLEAN => panicstr' \in BOOLEAN
<1>1. st \in Stages /\ st # "shared" /\ st # "excl1" /\ FALSE \in BOOLEAN
  BY DEF Stages
<1> QED BY <1>1, AcquireKeeps

(* The two waits of an exclusive request. *)
LEMMA ExclusiveKeeps ==
    ASSUME NEW l \in LockType, NEW p \in PcType, NEW sh, NEW td \in Threads, NEW h \in Hows,
           NEW again \in BOOLEAN, rq \in RqType,
           Free(td, l, p, rq, sh), Exclusive(td, h, again, l, p)
    PROVE  /\ Exact(lk', pc', rq', sh)
           /\ panicstr \in BOOLEAN => panicstr' \in BOOLEAN
<1>1. CASE Blocks(td, "excl1", l) /\ Acquire(td, "excl1", h, again, l, p)
  <2>1. WantFlag("excl1") = {} /\ "excl1" \in Stages
    BY DEF WantFlag, Stages
  <2>2. Without(l, "excl1") = l
    BY <2>1, WithoutNone
  <2> QED BY <1>1, <2>1, <2>2, AcquireKeeps
<1>2. CASE ~Blocks(td, "excl1", l) /\ Acquire(td, "excl2", h, FALSE, SetFlag(l, "WANT_EXCL"), p)
  <2> DEFINE l1 == SetFlag(l, "WANT_EXCL")
  <2>1. "WANT_EXCL" \notin l.flags
    BY <1>2 DEF Blocks, Wanted, Flags
  <2>2. l1 \in LockType /\ l1.flags = l.flags \cup {"WANT_EXCL"}
    BY DEF SetFlag, LockType
  <2>3. Without(l1, "excl2") = l
    <3>1. (l.flags \cup {"WANT_EXCL"}) \ {"WANT_EXCL"} = l.flags
      BY <2>1
    <3> QED BY <3>1 DEF Without, WantFlag, SetFlag, LockType
  <2>4. WantFlag("excl2") \subseteq l1.flags /\ "excl2" \in Stages
    BY <2>2 DEF WantFlag, Stages
  <2>5. Acquire(td, "excl2", h, FALSE, l1, p) /\ Free(td, Without(l1, "excl2"), p, rq, sh)
    BY <1>2, <2>3
  <2> HIDE DEF l1
  <2> QED BY <2>2, <2>4, <2>5, AcquireOther
<1> QED BY <1>1, <1>2 DEF Exclusive

(* The wait of an upgrade that has just been accepted. *)
LEMMA UpgradeWaitKeeps ==
    ASSUME NEW l \in LockType, NEW p \in PcType, NEW sh, NEW td \in Threads, NEW h \in Hows,
           rq \in RqType, l.exclusivecount = 0, "WANT_UPGRADE" \notin l.flags,
           Free(td, l, p, rq, sh), Acquire(td, "upgrade", h, FALSE, SetFlag(l, "WANT_UPGRADE"), p)
    PROVE  /\ Exact(lk', pc', rq', sh)
           /\ panicstr \in BOOLEAN => panicstr' \in BOOLEAN
<1> DEFINE l1 == SetFlag(l, "WANT_UPGRADE")
<1>1. l1 \in LockType /\ l1.flags = l.flags \cup {"WANT_UPGRADE"} /\ l1.exclusivecount = 0
  BY DEF SetFlag, LockType
<1>2. Without(l1, "upgrade") = l
  <2>1. (l.flags \cup {"WANT_UPGRADE"}) \ {"WANT_UPGRADE"} = l.flags
    OBVIOUS
  <2> QED BY <2>1 DEF Without, WantFlag, SetFlag, LockType
<1>3. WantFlag("upgrade") \subseteq l1.flags /\ "upgrade" \in Stages
  BY <1>1 DEF WantFlag, Stages
<1>4. Acquire(td, "upgrade", h, FALSE, l1, p) /\ Free(td, Without(l1, "upgrade"), p, rq, sh)
  BY <1>2
<1> HIDE DEF l1
<1> QED BY <1>1, <1>3, <1>4, AcquireOther

-----------------------------------------------------------------------------
(* What a thread finds that comes back from its sleep or spin. *)
LEMMA BackFree ==
    ASSUME Exact(lk, pc, rq, shares), NEW td \in Threads, pc[td] # "idle"
    PROVE  /\ Back(td) \in LockType /\ rq[td].stage \in Stages /\ rq[td].how \in Hows
           /\ WantFlag(rq[td].stage) \subseteq Back(td).flags
           /\ rq[td].stage = "upgrade" => Back(td).exclusivecount = 0
           /\ Free(td, Without(Back(td), rq[td].stage), pc, rq, shares)
<1> DEFINE p0 == [pc EXCEPT ![td] = "idle"]
           r0 == [rq EXCEPT ![td] = NoRequest]
           l == Back(td)
           st == rq[td].stage
           l0 == Without(l, st)
<1>1. /\ lk \in LockType /\ pc \in PcType /\ rq \in RqType /\ st \in Stages /\ rq[td].how \in Hows
      /\ HolderExact(lk) /\ SharesExact(lk, shares) /\ ThreadsExact(pc, rq)
      /\ WaitsExact(lk, pc, rq) /\ WantsExact(lk, pc, rq)
  BY DEF Exact, HolderExact, ThreadsExact, RqType
<1>2. /\ p0 \in PcType /\ r0 \in RqType /\ p0[td] = "idle" /\ r0[td] = NoRequest
      /\ \A t \in Threads \ {td} : p0[t] = pc[t] /\ r0[t] = rq[t]
  BY <1>1 DEF PcType, RqType, NoRequest, Hows
<1>3. /\ \A st1 : /\ td \notin In(p0, r0, st1)
                  /\ In(pc, rq, st1) = IF st = st1 THEN In(p0, r0, st1) \cup {td} ELSE In(p0, r0, st1)
      /\ td \notin CountedIn(p0, r0)
      /\ CountedIn(pc, rq) = IF pc[td] # "pause" /\ st # "drain"
                             THEN CountedIn(p0, r0) \cup {td} ELSE CountedIn(p0, r0)
  <2>1. rq[td].stage = st
    OBVIOUS
  <2> HIDE DEF p0, r0, st
  <2>2. \A st1 : /\ td \notin In(p0, r0, st1)
                 /\ In(pc, rq, st1) = IF st = st1 THEN In(p0, r0, st1) \cup {td} ELSE In(p0, r0, st1)
    BY <1>2, <2>1 DEF In
  <2>3. td \notin CountedIn(p0, r0)
    BY <1>2 DEF CountedIn
  <2>4. CountedIn(pc, rq) = IF pc[td] # "pause" /\ st # "drain"
                            THEN CountedIn(p0, r0) \cup {td} ELSE CountedIn(p0, r0)
    BY <1>1, <1>2, <2>1 DEF CountedIn, PcType
  <2> QED BY <2>2, <2>3, <2>4
<1>4. /\ Cardinality(CountedIn(p0, r0)) \in Nat
      /\ lk.waitcount = IF pc[td] # "pause" /\ st # "drain"
                        THEN Cardinality(CountedIn(p0, r0)) + 1 ELSE Cardinality(CountedIn(p0, r0))
  <2>1. CountedIn(p0, r0) \in SUBSET Threads
    BY DEF CountedIn
  <2> QED BY <1>1, <1>3, <2>1, FiniteThreads, CountStep DEF WaitsExact
<1>5. /\ l \in LockType /\ l.flags = lk.flags /\ l.sharecount = lk.sharecount
      /\ l.exclusivecount = lk.exclusivecount /\ l.lockholder = lk.lockholder
      /\ l.waitcount = Cardinality(CountedIn(p0, r0))
  BY <1>1, <1>4 DEF Back, LockType
<1>6. /\ l0 \in LockType /\ l0.flags = lk.flags \ WantFlag(st) /\ l0.sharecount = lk.sharecount
      /\ l0.exclusivecount = lk.exclusivecount /\ l0.lockholder = lk.lockholder
      /\ l0.waitcount = Cardinality(CountedIn(p0, r0))
  <2> HIDE DEF l, p0, r0, st
  <2> QED BY <1>5 DEF Without, LockType, l0
<1>7. WantFlag(st) \subseteq l.flags /\ (st = "upgrade" => l.exclusivecount = 0)
  <2>1. td \in In(pc, rq, st)
    BY DEF In
  <2> QED BY <1>1, <1>5, <2>1 DEF WantsExact, WantFlag, Stages
<1>8. HolderExact(l0)
  BY <1>1, <1>6 DEF HolderExact, WantFlag, Stages
<1>9. SharesExact(l0, shares) /\ WaitsExact(l0, p0, r0)
  BY <1>1, <1>6 DEF SharesExact, WaitsExact
<1>10. ThreadsExact(p0, r0)
  BY <1>1, <1>2 DEF ThreadsExact
<1>11. WantsExact(l0, p0, r0)
  <2>1. /\ In(p0, r0, "excl2") = IF st = "excl2" THEN {} ELSE In(pc, rq, "excl2")
        /\ In(p0, r0, "upgrade") = IF st = "upgrade" THEN {} ELSE In(pc, rq, "upgrade")
    <3> HIDE DEF p0, r0, st
    <3> QED BY <1>1, <1>3 DEF WantsExact
  <2>2. /\ "WANT_EXCL" \in l0.flags <=> "WANT_EXCL" \in lk.flags /\ st # "excl2"
        /\ "WANT_UPGRADE" \in l0.flags <=> "WANT_UPGRADE" \in lk.flags /\ st # "upgrade"
    BY <1>6 DEF WantFlag
  <2> HIDE DEF p0, r0, st, l0
  <2> QED BY <1>1, <1>6, <2>1, <2>2 DEF WantsExact
<1>12. Free(td, l0, pc, rq, shares)
  BY <1>8, <1>9, <1>10, <1>11 DEF Free, Exact
<1> QED BY <1>1, <1>5, <1>7, <1>12

-----------------------------------------------------------------------------
(* The requests. *)

(* The inductive invariant: the lock is exact. *)
LockmgrInv == Exact(lk, pc, rq, shares) /\ abandoned \in BOOLEAN /\ panicstr \in BOOLEAN

(* What the invariant says of the variables and of the lock alone. *)
LEMMA InvTypes ==
    ASSUME LockmgrInv
    PROVE  /\ lk \in LockType /\ pc \in PcType /\ rq \in RqType /\ shares \in [Threads -> Nat]
           /\ HolderExact(lk) /\ SharesExact(lk, shares)
BY DEF LockmgrInv, Exact, HolderExact, SharesExact, ThreadsExact

(* A thread without a request waits for nothing. *)
LEMMA IdleWithout ==
    ASSUME LockmgrInv, NEW td \in Threads, pc[td] = "idle", NEW st, WantFlag(st) = {}
    PROVE  Free(td, Without(lk, st), pc, rq, shares)
<1>1. Without(lk, st) = lk
  BY InvTypes, WithoutNone
<1> QED BY <1>1, IdleFree DEF LockmgrInv

(* LK_SHARED *)
LEMMA SharedKeeps ==
    ASSUME LockmgrInv, NEW td \in Threads, NEW h \in Hows, Shared(td, h)
    PROVE  LockmgrInv'
<1>1. WantFlag("shared") = {} /\ "shared" \in Stages /\ FALSE \in BOOLEAN
  BY DEF WantFlag, Stages
<1>2. Free(td, Without(lk, "shared"), pc, rq, shares)
  BY <1>1, IdleWithout DEF Shared, HoldsNone
<1>3. Acquire(td, "shared", h, FALSE, lk, pc) /\ shares' = SharedAfter(td, lk) /\ abandoned' = abandoned
  BY DEF Shared
<1>4. /\ ~Blocks(td, "shared", lk) => Exact(lk', pc', rq', [shares EXCEPT ![td] = @ + 1])
      /\ Blocks(td, "shared", lk) => Exact(lk', pc', rq', shares)
      /\ panicstr \in BOOLEAN => panicstr' \in BOOLEAN
  BY <1>1, <1>2, <1>3, InvTypes, AcquireKeeps
<1> QED BY <1>3, <1>4 DEF LockmgrInv, SharedAfter

(* LK_EXCLUSIVE *)
LEMMA ExclusivelyKeeps ==
    ASSUME LockmgrInv, NEW td \in Threads, NEW h \in Hows, Exclusively(td, h)
    PROVE  LockmgrInv'
<1>1. Free(td, lk, pc, rq, shares)
  BY IdleFree DEF Exclusively, HoldsNone, LockmgrInv
<1>2. Exclusive(td, h, FALSE, lk, pc) /\ shares' = shares /\ abandoned' = abandoned
  BY DEF Exclusively
<1> QED BY <1>1, <1>2, InvTypes, ExclusiveKeeps DEF LockmgrInv

(* LK_DRAIN *)
LEMMA DrainKeeps ==
    ASSUME LockmgrInv, NEW td \in Threads, NEW h \in Hows, Drain(td, h)
    PROVE  LockmgrInv'
<1>1. WantFlag("drain") = {} /\ "drain" \in Stages /\ FALSE \in BOOLEAN
  BY DEF WantFlag, Stages
<1>2. Free(td, Without(lk, "drain"), pc, rq, shares)
  BY <1>1, IdleWithout DEF Drain, HoldsNone
<1>3. Acquire(td, "drain", h, FALSE, lk, pc) /\ shares' = shares /\ abandoned' = abandoned
  BY DEF Drain
<1>4. /\ Exact(lk', pc', rq', shares)
      /\ panicstr \in BOOLEAN => panicstr' \in BOOLEAN
  BY <1>1, <1>2, <1>3, InvTypes, AcquireKeeps
<1> QED BY <1>3, <1>4 DEF LockmgrInv

(* LK_EXCLUSIVE with LK_CANRECURSE by the holder. *)
LEMMA RecurseKeeps ==
    ASSUME LockmgrInv, NEW td \in Threads, Recurse(td)
    PROVE  LockmgrInv'
<1> DEFINE l == [lk EXCEPT !.exclusivecount = @ + 1]
<1>1. /\ pc[td] = "idle" /\ lk.lockholder = td /\ lk.exclusivecount < MaxExclusive
      /\ Return(td, l, pc) /\ UNCHANGED <<shares, abandoned, panicstr>>
  BY DEF Recurse
<1>2. /\ l \in LockType /\ l.exclusivecount = lk.exclusivecount + 1 /\ l.flags = lk.flags
      /\ l.sharecount = lk.sharecount /\ l.waitcount = lk.waitcount /\ l.lockholder = lk.lockholder
  BY <1>1, InvTypes, LockmgrAssumption DEF LockType
<1>3. lk.exclusivecount > 0
  BY <1>1, InvTypes, LockmgrAssumption DEF HolderExact
<1>4. Exact(l, pc, rq, shares)
  BY <1>2, <1>3 DEF LockmgrInv, Exact, HolderExact, SharesExact, WaitsExact, WantsExact, LockType
<1> HIDE DEF l
<1>5. Free(td, l, pc, rq, shares)
  BY <1>1, <1>4, IdleFree
<1> QED BY <1>1, <1>5, ReturnKeeps DEF LockmgrInv

(* BUF_KERNPROC *)
LEMMA KernprocKeeps ==
    ASSUME LockmgrInv, NEW td \in Threads, BUF_KERNPROC(td)
    PROVE  LockmgrInv'
<1>1. /\ lk.lockholder = td /\ lk' = [lk EXCEPT !.lockholder = KERNPROC]
      /\ UNCHANGED <<pc, rq, shares, abandoned, panicstr>>
  BY DEF BUF_KERNPROC
<1>2. /\ lk' \in LockType /\ lk'.flags = lk.flags /\ lk'.exclusivecount = lk.exclusivecount
      /\ lk'.sharecount = lk.sharecount /\ lk'.waitcount = lk.waitcount /\ lk'.lockholder = KERNPROC
  BY <1>1, InvTypes DEF LockType
<1>3. lk.lockholder # NOPROC /\ KERNPROC # NOPROC
  BY <1>1, LockmgrAssumption
<1>4. HolderExact(lk')
  BY <1>2, <1>3, InvTypes DEF HolderExact
<1>5. Exact(lk', pc, rq, shares)
  BY <1>2, <1>4 DEF LockmgrInv, Exact, SharesExact, WaitsExact, WantsExact
<1> QED BY <1>1, <1>5 DEF LockmgrInv

(* The threads after a wakeup, if there is one. *)
LEMMA WokenKeeps ==
    ASSUME NEW l, NEW sh, Exact(l, pc, rq, sh), NEW b,
           NEW p, p = IF b THEN Wake(pc, Sleepers(pc)) ELSE pc
    PROVE  Exact(l, p, rq, sh) /\ p \in PcType /\ \A td \in Threads : pc[td] = "idle" => p[td] = "idle"
<1>1. Sleepers(pc) \in SUBSET {td \in Threads : pc[td] = "asleep"}
  BY DEF Sleepers
<1>2. Exact(l, Wake(pc, Sleepers(pc)), rq, sh)
  BY <1>1, WakeKeeps
<1>3. \A td \in Threads : pc[td] = "idle" => Wake(pc, Sleepers(pc))[td] = "idle"
  BY DEF Sleepers, Wake
<1>4. Exact(l, p, rq, sh) /\ \A td \in Threads : pc[td] = "idle" => p[td] = "idle"
  BY <1>2, <1>3
<1> QED BY <1>4 DEF Exact, ThreadsExact

(* LK_DOWNGRADE, and LK_SHARED by the holder. *)
LEMMA DowngradeKeeps ==
    ASSUME LockmgrInv, NEW td \in Threads, NEW extra \in {0, 1}, Downgrade(td, extra)
    PROVE  LockmgrInv'
<1> DEFINE n == lk.exclusivecount + extra
           l == [sharelock(lk, n) EXCEPT
                     !.exclusivecount = 0, !.flags = @ \ {"HAVE_EXCL"}, !.lockholder = NOPROC]
           p == IF lk.waitcount > 0 THEN Wake(pc, Sleepers(pc)) ELSE pc
<1>1. /\ pc[td] = "idle" /\ lk.lockholder = td /\ Return(td, l, p)
      /\ shares' = [shares EXCEPT ![td] = @ + lk.exclusivecount + extra]
      /\ abandoned' = (abandoned /\ lk.waitcount = 0) /\ panicstr' = panicstr
  BY DEF Downgrade
<1>2. lk.exclusivecount > 0 /\ lk.sharecount = 0 /\ n \in Nat
  BY <1>1, InvTypes, LockmgrAssumption DEF HolderExact, LockType
<1>3. /\ l.sharecount = n /\ l.exclusivecount = 0 /\ l.flags = lk.flags \ {"HAVE_EXCL"}
      /\ l.lockholder = NOPROC /\ l.waitcount = lk.waitcount /\ l \in LockType
  <2> DEFINE k == sharelock(lk, n)
  <2>1. /\ k \in LockType /\ k.sharecount = n /\ k.flags = lk.flags /\ k.waitcount = lk.waitcount
    <3> HIDE DEF n
    <3> QED BY <1>2, InvTypes DEF sharelock, LockType
  <2>2. /\ 0 \in 0..MaxExclusive
        /\ k.flags \ {"HAVE_EXCL"} \in SUBSET {"HAVE_EXCL", "WANT_EXCL", "WANT_UPGRADE", "WAITDRAIN"}
    BY <2>1, LockmgrAssumption DEF LockType
  <2>3. l = [k EXCEPT !.exclusivecount = 0, !.flags = @ \ {"HAVE_EXCL"}, !.lockholder = NOPROC]
    OBVIOUS
  <2> HIDE DEF k, l, n
  <2> QED BY <2>1, <2>2, <2>3 DEF LockType
<1>4. HolderExact(l)
  BY <1>3 DEF HolderExact
<1>5. SharesExact(l, shares')
  <2>1. shares' \in [Threads -> Nat] /\ \A t \in Threads \ {td} : shares'[t] = shares[t]
    BY <1>1, <1>2, InvTypes DEF LockType
  <2>2. SharesExact(lk, shares)
    BY InvTypes
  <2>3. IsFiniteSet(SharesIn(shares')) /\ Cardinality(SharesIn(shares')) = shares'[td] /\ shares[td] = 0
    <3>1. lk.sharecount = 0
      BY <1>2
    <3> QED BY <2>1, <2>2, <3>1, FirstShares
  <2>4. shares'[td] = n
    BY <1>1, <1>2, <2>3, InvTypes DEF LockType
  <2> HIDE DEF n, l
  <2> QED BY <1>3, <2>1, <2>3, <2>4 DEF SharesExact
<1>6. Exact(l, pc, rq, shares')
  BY <1>3, <1>4, <1>5 DEF LockmgrInv, Exact, WaitsExact, WantsExact
<1> HIDE DEF l
<1>7. Exact(l, p, rq, shares') /\ p[td] = "idle"
  BY <1>1, <1>6, WokenKeeps
<1> HIDE DEF p
<1>8. Exact(lk', pc', rq', shares')
  BY <1>1, <1>7, IdleFree, ReturnKeeps
<1> QED BY <1>1, <1>8 DEF LockmgrInv

(* A share less. *)
LEMMA ShareunlockExact ==
    ASSUME LockmgrInv, NEW td \in Threads, shares[td] # 0, NEW sh1 \in [Threads -> Nat],
           \A t \in Threads : sh1[t] = IF t = td THEN shares[t] - 1 ELSE shares[t]
    PROVE  /\ Exact(shareunlock(lk), pc, rq, sh1)
           /\ shareunlock(lk).exclusivecount = 0 /\ shareunlock(lk).flags = lk.flags
<1> DEFINE l == shareunlock(lk)
<1>1. SharesExact(lk, shares) /\ shares \in [Threads -> Nat]
  BY InvTypes
<1>2. /\ IsFiniteSet(SharesIn(sh1)) /\ lk.sharecount \in Nat /\ lk.sharecount > 0
      /\ Cardinality(SharesIn(sh1)) = lk.sharecount - 1
  BY <1>1, DropShare
<1>3. lk \in LockType /\ HolderExact(lk)
  BY InvTypes
<1>4. /\ l \in LockType /\ l.sharecount = lk.sharecount - 1 /\ l.flags = lk.flags
      /\ l.waitcount = lk.waitcount /\ l.exclusivecount = lk.exclusivecount /\ l.lockholder = lk.lockholder
  BY <1>2, <1>3 DEF shareunlock, LockType
<1>5. lk.exclusivecount = 0
  BY <1>2, <1>3 DEF HolderExact, LockType
<1> HIDE DEF l
<1>6. Exact(l, pc, rq, sh1)
  BY <1>2, <1>3, <1>4, <1>5 DEF LockmgrInv, Exact, HolderExact, SharesExact, WaitsExact, WantsExact
<1> QED BY <1>4, <1>5, <1>6 DEF l

(* LK_UPGRADE and LK_EXCLUPGRADE *)
LEMMA UpgradeKeeps ==
    ASSUME LockmgrInv, NEW td \in Threads, NEW h \in Hows, NEW excl \in BOOLEAN, Upgrade(td, h, excl)
    PROVE  LockmgrInv'
<1> DEFINE l       == shareunlock(lk)
           busy    == "WANT_UPGRADE" \in lk.flags
           refused == (busy /\ excl) \/ (h = "nowait" /\ (busy \/ l.sharecount > 1))
           woken   == \/ ShareunlockWakes(lk)
                      \/ busy /\ ~refused /\ l.sharecount = 0 /\ l.waitcount > 0
           p       == IF woken THEN Wake(pc, Sleepers(pc)) ELSE pc
<1>1. /\ pc[td] = "idle" /\ shares[td] = 1
      /\ \/ Fail(td, "shared", l, p)
         \/ ~busy /\ Acquire(td, "upgrade", h, FALSE, SetFlag(l, "WANT_UPGRADE"), p)
         \/ Exclusive(td, h, FALSE, l, p)
      /\ shares' = [shares EXCEPT ![td] = 0]
      /\ abandoned' = (abandoned /\ ~woken)
  BY DEF Upgrade
<1>2. /\ shares' \in [Threads -> Nat] /\ shares[td] # 0
      /\ \A t \in Threads : shares'[t] = IF t = td THEN shares[t] - 1 ELSE shares[t]
  BY <1>1, InvTypes
<1>3. Exact(l, pc, rq, shares') /\ l.exclusivecount = 0 /\ l.flags = lk.flags
  BY <1>2, ShareunlockExact
<1>4. l \in LockType
  BY <1>3 DEF Exact, HolderExact
<1> HIDE DEF l
<1> HIDE DEF woken
<1>5. Exact(l, p, rq, shares') /\ p \in PcType /\ p[td] = "idle"
  BY <1>1, <1>3, WokenKeeps
<1> HIDE DEF p
<1>6. Free(td, l, p, rq, shares') /\ rq \in RqType /\ panicstr \in BOOLEAN
  BY <1>5, IdleFree, InvTypes DEF LockmgrInv
<1>7. Exact(lk', pc', rq', shares') /\ panicstr' \in BOOLEAN
  <2>1. CASE Fail(td, "shared", l, p)
    <3>1. Without(l, "shared") = l
      BY <1>4, WithoutNone DEF WantFlag
    <3> QED BY <1>6, <2>1, <3>1, FailKeeps
  <2>2. CASE ~busy /\ Acquire(td, "upgrade", h, FALSE, SetFlag(l, "WANT_UPGRADE"), p)
    BY <1>3, <1>4, <1>5, <1>6, <2>2, UpgradeWaitKeeps
  <2>3. CASE Exclusive(td, h, FALSE, l, p)
    BY <1>4, <1>5, <1>6, <2>3, ExclusiveKeeps
  <2> QED BY <1>1, <2>1, <2>2, <2>3
<1> QED BY <1>1, <1>7 DEF LockmgrInv

-----------------------------------------------------------------------------
(* The lock without one hold, and the end of a release. *)
LEMMA ReleaseEndKeeps ==
    ASSUME LockmgrInv, NEW sh, Exact(Unlocked, pc, rq, sh), ReleaseEnd
    PROVE  Exact(lk', pc', rq', sh) /\ abandoned' \in BOOLEAN /\ panicstr' \in BOOLEAN
<1> DEFINE p == IF ReleaseWakes THEN Wake(pc, Sleepers(pc)) ELSE pc
<1>1. Finish(Unlocked, p) /\ rq' = rq /\ panicstr' = panicstr /\ abandoned' = (abandoned /\ ~ReleaseWakes)
  BY DEF ReleaseEnd
<1>2. Exact(Unlocked, p, rq, sh)
  BY WokenKeeps
<1> HIDE DEF p
<1> QED BY <1>1, <1>2, FinishKeeps DEF LockmgrInv

(* The exclusive holds, given back. *)
LEMMA UnlockedExclusive ==
    ASSUME LockmgrInv, lk.exclusivecount > 0
    PROVE  Exact(Unlocked, pc, rq, shares)
<1>1. /\ Unlocked \in LockType /\ Unlocked.sharecount = lk.sharecount /\ Unlocked.waitcount = lk.waitcount
      /\ Unlocked.exclusivecount = lk.exclusivecount - 1
      /\ IF lk.exclusivecount = 1
         THEN Unlocked.flags = lk.flags \ {"HAVE_EXCL"} /\ Unlocked.lockholder = NOPROC
         ELSE Unlocked.flags = lk.flags /\ Unlocked.lockholder = lk.lockholder
  <2>1. lk \in LockType /\ lk.exclusivecount \in 0..MaxExclusive
    BY InvTypes DEF LockType
  <2>2. CASE lk.exclusivecount = 1
    <3>1. Unlocked = [lk EXCEPT !.flags = @ \ {"HAVE_EXCL"}, !.lockholder = NOPROC, !.exclusivecount = 0]
      BY <2>2 DEF Unlocked
    <3>2. 0 \in 0..MaxExclusive /\ 1 - 1 = 0
      BY LockmgrAssumption
    <3> QED BY <2>1, <2>2, <3>1, <3>2 DEF LockType
  <2>3. CASE lk.exclusivecount > 1
    <3>1. Unlocked = [lk EXCEPT !.exclusivecount = @ - 1]
      BY <2>1, <2>3 DEF Unlocked
    <3>2. lk.exclusivecount - 1 \in 0..MaxExclusive /\ lk.exclusivecount # 1
      BY <2>1, <2>3, LockmgrAssumption
    <3> QED BY <2>1, <3>1, <3>2 DEF LockType
  <2> QED BY <2>1, <2>2, <2>3, LockmgrAssumption
<1>2. HolderExact(Unlocked)
  BY <1>1, InvTypes DEF HolderExact, LockType
<1>3. Exact(lk, pc, rq, shares)
  BY DEF LockmgrInv
<1>4. SharesExact(Unlocked, shares) /\ WaitsExact(Unlocked, pc, rq) /\ ThreadsExact(pc, rq)
  BY <1>1, <1>3 DEF Exact, SharesExact, WaitsExact
<1>5. WantsExact(Unlocked, pc, rq)
  BY <1>1, <1>3 DEF Exact, WantsExact
<1> QED BY <1>2, <1>4, <1>5 DEF Exact

(* LK_RELEASE *)
LEMMA ReleaseKeeps ==
    ASSUME LockmgrInv, NEW td \in Threads, Release(td)
    PROVE  LockmgrInv'
<1>1. ReleaseEnd /\ (lk.lockholder = td \/ shares[td] > 0)
  BY DEF Release
<1>2. CASE lk.exclusivecount > 0
  <2>1. shares' = shares
    BY <1>2 DEF Release
  <2> QED BY <1>1, <1>2, <2>1, UnlockedExclusive, ReleaseEndKeeps DEF LockmgrInv
<1>3. CASE lk.exclusivecount = 0
  <2>1. shares' = [shares EXCEPT ![td] = @ - 1] /\ Unlocked = shareunlock(lk)
    BY <1>3 DEF Release, Unlocked
  <2>2. shares[td] > 0
    BY <1>1, <1>3, InvTypes, LockmgrAssumption DEF HolderExact
  <2>3. /\ shares' \in [Threads -> Nat] /\ shares[td] # 0
        /\ \A t \in Threads : shares'[t] = IF t = td THEN shares[t] - 1 ELSE shares[t]
    BY <2>1, <2>2, InvTypes
  <2>4. Exact(shareunlock(lk), pc, rq, shares')
    BY <2>3, ShareunlockExact
  <2>5. Exact(Unlocked, pc, rq, shares')
    BY <2>1, <2>4
  <2> QED BY <1>1, <2>5, ReleaseEndKeeps DEF LockmgrInv
<1> QED BY <1>2, <1>3, InvTypes DEF LockType

(* The release of a lock that an I/O has taken over. *)
LEMMA BiodoneKeeps ==
    ASSUME LockmgrInv, biodone
    PROVE  LockmgrInv'
<1>1. lk.lockholder = KERNPROC /\ ReleaseEnd /\ shares' = shares
  BY DEF biodone
<1>2. lk.exclusivecount > 0
  BY <1>1, InvTypes, LockmgrAssumption DEF HolderExact
<1> QED BY <1>1, <1>2, UnlockedExclusive, ReleaseEndKeeps DEF LockmgrInv

-----------------------------------------------------------------------------
(* The steps of a thread that sleeps or spins. *)
LEMMA SleepFailsKeeps ==
    ASSUME LockmgrInv, NEW td \in Threads, SleepFails(td)
    PROVE  LockmgrInv'
<1>1. /\ pc[td] = "asleep" /\ pc' = [pc EXCEPT ![td] = "failed"]
      /\ UNCHANGED <<lk, rq, shares, abandoned, panicstr>>
  BY DEF SleepFails
<1>2. pc' \in PcType /\ pc'[td] = "failed" /\ \A t \in Threads \ {td} : pc'[t] = pc[t]
  BY <1>1, InvTypes DEF PcType
<1>3. CountedIn(pc', rq) = CountedIn(pc, rq) /\ \A st : In(pc', rq, st) = In(pc, rq, st)
  BY <1>1, <1>2 DEF CountedIn, In
<1>4. ThreadsExact(pc', rq)
  BY <1>1, <1>2 DEF LockmgrInv, Exact, ThreadsExact
<1> QED BY <1>1, <1>3, <1>4 DEF LockmgrInv, Exact, WaitsExact, WantsExact

(* A request fails after its sleep. *)
LEMMA GiveUpKeeps ==
    ASSUME LockmgrInv, NEW td \in Threads, GiveUp(td)
    PROVE  LockmgrInv'
<1>1. /\ Fail(td, rq[td].stage, Back(td), pc) /\ shares' = shares
      /\ abandoned' = (abandoned \/ rq[td].stage \in {"excl2", "upgrade"})
  BY DEF GiveUp
<1>2. pc[td] # "idle"
  BY DEF GiveUp, Errs
<1>3. Free(td, Without(Back(td), rq[td].stage), pc, rq, shares)
  BY <1>2, BackFree DEF LockmgrInv
<1>4. Exact(lk', pc', rq', shares) /\ panicstr' = panicstr
  BY <1>1, <1>3, FailKeeps
<1> QED BY <1>1, <1>4 DEF LockmgrInv

(* A request goes on after its sleep or spin. *)
LEMMA ContinueKeeps ==
    ASSUME LockmgrInv, NEW td \in Threads, Continue(td)
    PROVE  LockmgrInv'
<1> DEFINE l  == Back(td)
           st == rq[td].stage
<1>1. /\ pc[td] \in {"woken", "pause"} /\ abandoned' = abandoned
      /\ shares' = IF st = "shared" THEN SharedAfter(td, l) ELSE shares
      /\ \/ st = "excl1" /\ Exclusive(td, rq[td].how, TRUE, l, pc)
         \/ st # "excl1" /\ Acquire(td, st, rq[td].how, TRUE, l, pc)
  BY DEF Continue
<1>2. /\ l \in LockType /\ st \in Stages /\ rq[td].how \in Hows
      /\ WantFlag(st) \subseteq l.flags /\ (st = "upgrade" => l.exclusivecount = 0)
      /\ Free(td, Without(l, st), pc, rq, shares)
  BY <1>1, BackFree DEF LockmgrInv
<1> HIDE DEF l, st
<1>3. CASE st = "excl1" /\ Exclusive(td, rq[td].how, TRUE, l, pc)
  <2>1. Without(l, st) = l
    BY <1>2, <1>3, WithoutNone DEF WantFlag
  <2>2. Free(td, l, pc, rq, shares) /\ TRUE \in BOOLEAN
    BY <1>2, <2>1
  <2>3. Exact(lk', pc', rq', shares) /\ panicstr' \in BOOLEAN
    BY <1>2, <1>3, <2>2, InvTypes, ExclusiveKeeps DEF LockmgrInv
  <2> QED BY <1>1, <1>3, <2>3 DEF LockmgrInv
<1>4. CASE st # "excl1" /\ Acquire(td, st, rq[td].how, TRUE, l, pc)
  <2>1. /\ st = "shared" /\ ~Blocks(td, "shared", l) => Exact(lk', pc', rq', [shares EXCEPT ![td] = @ + 1])
        /\ st # "shared" \/ Blocks(td, "shared", l) => Exact(lk', pc', rq', shares)
        /\ panicstr' \in BOOLEAN
    <3>1. TRUE \in BOOLEAN /\ panicstr \in BOOLEAN
      BY DEF LockmgrInv
    <3> QED BY <1>2, <1>4, <3>1, InvTypes, AcquireKeeps
  <2> QED BY <1>1, <2>1 DEF LockmgrInv, SharedAfter
<1> QED BY <1>1, <1>3, <1>4

-----------------------------------------------------------------------------
(* The theorems. *)

(* lockinit() makes an exact lock. *)
LEMMA InitExact == Init => LockmgrInv
<1> SUFFICES ASSUME Init PROVE LockmgrInv
  OBVIOUS
<1>1. /\ lk = [flags |-> {}, sharecount |-> 0, waitcount |-> 0, exclusivecount |-> 0, lockholder |-> NOPROC]
      /\ pc = [td \in Threads |-> "idle"] /\ rq = [td \in Threads |-> NoRequest]
      /\ shares = [td \in Threads |-> 0] /\ abandoned = FALSE /\ panicstr = FALSE
  BY DEF Init
<1>2. HolderExact(lk)
  BY <1>1, LockmgrAssumption DEF HolderExact, LockType
<1>3. SharesExact(lk, shares)
  <2>1. shares \in [Threads -> Nat] /\ \A td \in Threads : shares[td] = 0
    BY <1>1
  <2>2. SharesIn(shares) = {}
    BY <2>1, SharesInDef
  <2> QED BY <1>1, <2>1, <2>2, FS_EmptySet DEF SharesExact
<1>4. ThreadsExact(pc, rq)
  BY <1>1 DEF ThreadsExact, PcType, RqType, NoRequest, Hows
<1>5. CountedIn(pc, rq) = {} /\ \A st : In(pc, rq, st) = {}
  BY <1>1 DEF CountedIn, In
<1>6. WaitsExact(lk, pc, rq) /\ WantsExact(lk, pc, rq)
  BY <1>1, <1>5, FS_EmptySet DEF WaitsExact, WantsExact
<1> QED BY <1>1, <1>2, <1>3, <1>4, <1>6 DEF LockmgrInv, Exact

(* Every step keeps the lock exact. *)
LEMMA NextExact == LockmgrInv /\ [Next]_vars => LockmgrInv'
<1> SUFFICES ASSUME LockmgrInv, [Next]_vars PROVE LockmgrInv'
  OBVIOUS
<1>1. CASE biodone
  BY <1>1, BiodoneKeeps
<1>2. ASSUME NEW td \in Threads, Arrive(td) PROVE LockmgrInv'
  <2>1. ASSUME NEW h \in Hows, Shared(td, h) PROVE LockmgrInv'
    BY <2>1, SharedKeeps
  <2>2. ASSUME NEW h \in Hows, Exclusively(td, h) PROVE LockmgrInv'
    BY <2>2, ExclusivelyKeeps
  <2>3. ASSUME NEW h \in Hows, Drain(td, h) PROVE LockmgrInv'
    BY <2>3, DrainKeeps
  <2>4. ASSUME NEW h \in Hows, NEW excl \in BOOLEAN, Upgrade(td, h, excl) PROVE LockmgrInv'
    BY <2>4, UpgradeKeeps
  <2>5. ASSUME NEW extra \in {0, 1}, Downgrade(td, extra) PROVE LockmgrInv'
    BY <2>5, DowngradeKeeps
  <2> QED BY <1>2, <2>1, <2>2, <2>3, <2>4, <2>5, RecurseKeeps, KernprocKeeps DEF Arrive
<1>3. ASSUME NEW td \in Threads, Release(td) \/ SleepFails(td) \/ GiveUp(td) \/ Continue(td) PROVE LockmgrInv'
  BY <1>3, ReleaseKeeps, SleepFailsKeeps, GiveUpKeeps, ContinueKeeps
<1>4. CASE UNCHANGED vars
  BY <1>4 DEF vars, LockmgrInv, Exact, HolderExact, SharesExact, ThreadsExact, WaitsExact, WantsExact,
              In, CountedIn
<1> QED BY <1>1, <1>2, <1>3, <1>4 DEF Next

(* The flags and counts of the lock are exact, and the threads in          *)
(* acquire() are those that the flags name, at every moment of lockmgr().  *)
THEOREM LockmgrInvariance == Spec => []LockmgrInv
BY InitExact, NextExact, PTL DEF Spec

(* The threads of the set behind a flag are at most one. *)
LEMMA AtMostOne ==
    ASSUME NEW S \in SUBSET Threads, \A a, b \in S : a = b
    PROVE  Cardinality(S) <= 1 /\ (S # {} => Cardinality(S) = 1)
<1>1. CASE S = {}
  BY <1>1, FS_EmptySet
<1>2. CASE S # {}
  <2>1. PICK a : S = {a}
    BY <1>2
  <2>2. Cardinality({a}) = 1
    BY FS_Singleton
  <2> QED BY <2>1, <2>2
<1> QED BY <1>1, <1>2

(* What the runs check follows. *)
LEMMA InvImplies == LockmgrInv => LockExact /\ UpgradeNotOvertaken
<1> SUFFICES ASSUME LockmgrInv PROVE LockExact /\ UpgradeNotOvertaken
  OBVIOUS
<1>1. /\ Shares = SharesIn(shares) /\ Counted = CountedIn(pc, rq)
      /\ \A st : InAcquire(st) = In(pc, rq, st) /\ InAcquire(st) \in SUBSET Threads
  BY DEF Shares, SharesIn, Counted, CountedIn, InAcquire, In
<1>2. TypeOK
  BY DEF LockmgrInv, Exact, HolderExact, SharesExact, ThreadsExact, TypeOK, LockType, PcType, RqType
<1>3. /\ ("WANT_EXCL" \in lk.flags) <=> (InAcquire("excl2") # {})
      /\ ("WANT_UPGRADE" \in lk.flags) <=> (InAcquire("upgrade") # {})
      /\ InAcquire("upgrade") # {} => lk.exclusivecount = 0
      /\ \A a, b \in InAcquire("excl2") : a = b
      /\ \A a, b \in InAcquire("upgrade") : a = b
  BY <1>1 DEF LockmgrInv, Exact, WantsExact
<1>4. Cardinality(InAcquire("excl2")) <= 1
  BY <1>1, <1>3, AtMostOne
<1>5. InAcquire("upgrade") # {} => Cardinality(InAcquire("upgrade")) = 1
  BY <1>1, <1>3, AtMostOne
<1>6. /\ ("HAVE_EXCL" \in lk.flags) <=> (lk.exclusivecount > 0)
      /\ ("HAVE_EXCL" \in lk.flags) <=> (lk.lockholder # NOPROC)
      /\ lk.exclusivecount > 0 => lk.sharecount = 0
      /\ lk.sharecount = Cardinality(Shares) /\ lk.waitcount = Cardinality(Counted)
  BY <1>1 DEF LockmgrInv, Exact, HolderExact, SharesExact, WaitsExact
<1> QED BY <1>2, <1>3, <1>4, <1>5, <1>6 DEF LockExact, UpgradeNotOvertaken

(* The lock excludes and its flags and counts are those of the threads     *)
(* behind them, however the requests of lockmgr() fail, spin, upgrade or   *)
(* are handed to the kernel.                                               *)
THEOREM LockExactHolds == Spec => []LockExact
BY LockmgrInvariance, InvImplies, PTL

(* From the acceptance of an upgrade to its end nobody else holds the lock *)
(* exclusively and no other upgrade is accepted.                           *)
THEOREM UpgradeNotOvertakenHolds == Spec => []UpgradeNotOvertaken
BY LockmgrInvariance, InvImplies, PTL

-----------------------------------------------------------------------------
(* Who sleeps has a cause.                                                 *)
(*                                                                         *)
(* A sleeper of acquire() is covered by a flag it waits for or by the      *)
(* exclusive lock, whose release wakes everybody; one of acquiredrain() by *)
(* LK_WAITDRAIN.  A call may uncover others only if it wakes them, clears  *)
(* a flag it has set itself, or leaves a flag behind (abandoned).          *)

(* The flags that keep a thread in acquire(). *)
Causes(l) == l.flags \cup (IF l.sharecount > 0 THEN {"SHARE_NONZERO"} ELSE {})

Covered(t, st, l, ab) ==
    IF st = "drain" THEN "WAITDRAIN" \in l.flags
    ELSE ab \/ Causes(l) \cap (Wanted(t, st) \cup {"HAVE_EXCL"}) # {}

(* A thread in state s with request q may stay as it is while the lock is  *)
(* l: a request with LK_NOWAIT is never found in acquire().                *)
MayStay(t, s, q, l, ab) ==
    /\ s # "idle" => q.how # "nowait"
    /\ s = "asleep" => q.stage \in Stages /\ Covered(t, q.stage, l, ab)

(* All may stay, and those who drain do it because of some activity. *)
BlockedIn(l, p, r, ab) ==
    \A t \in Threads :
        /\ MayStay(t, p[t], r[t], l, ab)
        /\ p[t] = "asleep" /\ r[t].stage = "drain" => Flags(l) \cap LK_ALL # {}

(* All but td may stay. *)
OthersBlocked(td, l, p, ab) == \A t \in Threads \ {td} : MayStay(t, p[t], rq[t], l, ab)

(* What the stages wait for. *)
LEMMA WantedFlags ==
    ASSUME NEW t, NEW st \in Stages
    PROVE  /\ Wanted(t, st) \subseteq LK_ALL /\ "WAITDRAIN" \notin Wanted(t, st)
           /\ st # "drain" => "WAIT_NONZERO" \notin Wanted(t, st)
           /\ st \in {"shared", "excl1"} => "SHARE_NONZERO" \notin Wanted(t, st)
BY DEF Wanted, LK_ALL, Stages

(* Who is blocked is covered, and there is activity for those who drain. *)
LEMMA BlocksCovers ==
    ASSUME NEW t, NEW st \in Stages, NEW l, Blocks(t, st, l), NEW ab
    PROVE  Flags(l) \cap LK_ALL # {} /\ (st # "drain" => Covered(t, st, l, ab))
<1>1. Flags(l) = Causes(l) \cup (IF l.waitcount > 0 THEN {"WAIT_NONZERO"} ELSE {})
  BY DEF Flags, Causes
<1>2. Flags(l) \cap LK_ALL # {}
  BY WantedFlags DEF Blocks
<1>3. st # "drain" => Causes(l) \cap Wanted(t, st) # {}
  BY <1>1, WantedFlags DEF Blocks
<1> QED BY <1>2, <1>3 DEF Covered

(* A thread stays covered when flags are added or the lock is held         *)
(* exclusively, whatever becomes of LK_WAITDRAIN if it does not drain.     *)
LEMMA StaysCovered ==
    ASSUME NEW t, NEW st \in Stages, NEW l, NEW l1, NEW ab, Covered(t, st, l, ab),
           st = "drain" /\ "WAITDRAIN" \in l.flags => "WAITDRAIN" \in l1.flags,
           "HAVE_EXCL" \in l1.flags \/ Causes(l) \ {"WAITDRAIN"} \subseteq Causes(l1)
    PROVE  Covered(t, st, l1, ab)
<1>1. CASE st = "drain"
  BY <1>1 DEF Covered
<1>2. CASE st # "drain" /\ "HAVE_EXCL" \in l1.flags
  BY <1>2 DEF Covered, Causes
<1>3. CASE st # "drain" /\ Causes(l) \ {"WAITDRAIN"} \subseteq Causes(l1)
  <2>1. "WAITDRAIN" \notin Wanted(t, st) \cup {"HAVE_EXCL"}
    BY WantedFlags
  <2> QED BY <1>3, <2>1 DEF Covered
<1> QED BY <1>1, <1>2, <1>3

(* The same for all threads but one. *)
LEMMA OthersStay ==
    ASSUME NEW td, NEW l, NEW l1, NEW p, NEW ab, OthersBlocked(td, l, p, ab),
           "WAITDRAIN" \in l.flags => "WAITDRAIN" \in l1.flags,
           "HAVE_EXCL" \in l1.flags \/ Causes(l) \subseteq Causes(l1)
    PROVE  OthersBlocked(td, l1, p, ab)
BY StaysCovered DEF OthersBlocked, MayStay

(* The end of a call: those who drain are woken when all activity ended. *)
LEMMA FinishBlocked ==
    ASSUME NEW l \in LockType, NEW p \in PcType, NEW r, NEW ab, Finish(l, p),
           \A t \in Threads : MayStay(t, p[t], r[t], l, ab),
           \A t \in Threads : p[t] = "asleep" => r[t] = rq[t]
    PROVE  BlockedIn(lk', pc', r, ab)
<1>1. CASE ~("WAITDRAIN" \in l.flags /\ Flags(l) \cap LK_ALL = {})
  <2>1. lk' = l /\ pc' = p
    BY <1>1 DEF Finish
  <2> QED BY <1>1, <2>1 DEF BlockedIn, MayStay, Covered
<1>2. CASE "WAITDRAIN" \in l.flags /\ Flags(l) \cap LK_ALL = {}
  <2>1. lk' = ClearFlag(l, "WAITDRAIN") /\ pc' = Wake(p, Drainers(p))
    BY <1>2 DEF Finish
  <2>2. \A t \in Threads : pc'[t] = IF p[t] = "asleep" /\ r[t].stage = "drain" THEN "woken" ELSE p[t]
    BY <2>1 DEF Wake, Drainers
  <2>3. lk'.flags = l.flags \ {"WAITDRAIN"} /\ lk'.sharecount = l.sharecount
    BY <2>1 DEF ClearFlag, LockType
  <2>4. Causes(l) \ {"WAITDRAIN"} \subseteq Causes(lk')
    BY <2>3 DEF Causes
  <2>5. ASSUME NEW t \in Threads, pc'[t] = "asleep"
        PROVE  r[t].stage \in Stages /\ r[t].stage # "drain" /\ Covered(t, r[t].stage, lk', ab)
    <3>1. p[t] = "asleep" /\ r[t].stage # "drain"
      BY <2>2, <2>5
    <3>2. r[t].stage \in Stages /\ Covered(t, r[t].stage, l, ab)
      BY <3>1 DEF MayStay
    <3> QED BY <2>4, <3>1, <3>2, StaysCovered
  <2>6. ASSUME NEW t \in Threads, pc'[t] # "idle" PROVE r[t].how # "nowait"
    BY <2>2, <2>6 DEF MayStay
  <2> QED BY <2>5, <2>6 DEF BlockedIn, MayStay
<1> QED BY <1>1, <1>2

(* A thread returns from lockmgr(). *)
LEMMA ReturnBlocked ==
    ASSUME NEW l \in LockType, NEW p \in PcType, rq \in RqType, NEW td \in Threads, NEW ab,
           OthersBlocked(td, l, p, ab), Return(td, l, p)
    PROVE  BlockedIn(lk', pc', rq', ab)
<1> DEFINE p0 == [p EXCEPT ![td] = "idle"]
<1>1. Finish(l, p0) /\ rq' = [rq EXCEPT ![td] = NoRequest]
  BY DEF Return
<1>2. /\ p0 \in PcType /\ p0[td] = "idle"
      /\ \A t \in Threads \ {td} : p0[t] = p[t] /\ rq'[t] = rq[t]
  BY <1>1 DEF PcType, RqType
<1> HIDE DEF p0
<1>3. \A t \in Threads : MayStay(t, p0[t], rq'[t], l, ab)
  BY <1>2 DEF OthersBlocked, MayStay
<1>4. \A t \in Threads : p0[t] = "asleep" => rq'[t] = rq[t]
  BY <1>2
<1> QED BY <1>1, <1>2, <1>3, <1>4, FinishBlocked

-----------------------------------------------------------------------------
(* acquire(), seen by the others and by the thread itself. *)

(* A request is granted. *)
LEMMA GrantedBlocked ==
    ASSUME NEW l \in LockType, NEW p \in PcType, rq \in RqType, NEW td \in Threads, NEW st \in Stages,
           NEW ab, OthersBlocked(td, l, p, ab), Granted(td, st, l, p)
    PROVE  BlockedIn(lk', pc', rq', ab)
<1>1. CASE st = "shared"
  <2> DEFINE l1 == sharelock(l, 1)
  <2>1. /\ l1 \in LockType /\ l1.flags = l.flags /\ l.sharecount \in Nat
        /\ l1.sharecount = l.sharecount + 1
    BY DEF sharelock, LockType
  <2>2. Return(td, l1, p)
    BY <1>1 DEF Granted
  <2> HIDE DEF l1
  <2>3. Causes(l) \subseteq Causes(l1)
    BY <2>1 DEF Causes
  <2>4. OthersBlocked(td, l1, p, ab)
    BY <2>1, <2>3, OthersStay
  <2> QED BY <2>1, <2>2, <2>4, ReturnBlocked
<1>2. CASE st # "shared"
  <2> DEFINE l1 == MakeHolder(l, td, st)
  <2>1. l1.flags = (l.flags \ WantFlag(st)) \cup {"HAVE_EXCL"}
    BY DEF MakeHolder, LockType
  <2>2. l1 \in LockType
    <3>1. 1 \in 0..MaxExclusive
      BY LockmgrAssumption
    <3>2. (l.flags \ WantFlag(st)) \cup {"HAVE_EXCL"}
              \in SUBSET {"HAVE_EXCL", "WANT_EXCL", "WANT_UPGRADE", "WAITDRAIN"}
      BY DEF LockType
    <3> HIDE DEF LockType
    <3> QED BY <3>1, <3>2 DEF LockType, MakeHolder
  <2>3. Return(td, l1, p)
    BY <1>2 DEF Granted
  <2> HIDE DEF l1
  <2>4. "WAITDRAIN" \notin WantFlag(st)
    BY DEF WantFlag
  <2>5. OthersBlocked(td, l1, p, ab)
    BY <2>1, <2>4, OthersStay
  <2> QED BY <2>2, <2>3, <2>5, ReturnBlocked
<1> QED BY <1>1, <1>2

(* A request waits. *)
LEMMA WaitBlocked ==
    ASSUME NEW l \in LockType, NEW p \in PcType, rq \in RqType, NEW td \in Threads, NEW st \in Stages,
           NEW h \in Hows, h # "nowait", NEW spin \in BOOLEAN, NEW ab,
           OthersBlocked(td, l, p, ab), Blocks(td, st, l), Wait(td, st, h, l, p, spin)
    PROVE  BlockedIn(lk', pc', rq', ab)
<1>1. Flags(l) \cap LK_ALL # {} /\ (st # "drain" => Covered(td, st, l, ab))
  BY BlocksCovers
<1>2. /\ l.flags \subseteq lk'.flags /\ lk'.sharecount = l.sharecount /\ l.waitcount \in Nat
      /\ lk'.waitcount = l.waitcount \/ lk'.waitcount = l.waitcount + 1
      /\ ~spin /\ st = "drain" => "WAITDRAIN" \in lk'.flags
  BY DEF Wait, SetFlag, LockType
<1>3. /\ pc'[td] = IF spin THEN "pause" ELSE "asleep"
      /\ rq'[td].stage = st /\ rq'[td].how = h
      /\ \A t \in Threads \ {td} : pc'[t] = p[t] /\ rq'[t] = rq[t]
  BY DEF Wait, PcType, RqType
<1>4. Causes(l) \subseteq Causes(lk') /\ Flags(l) \subseteq Flags(lk')
  BY <1>2 DEF Causes, Flags
<1>5. OthersBlocked(td, lk', p, ab)
  BY <1>2, <1>4, StaysCovered DEF OthersBlocked, MayStay
<1>6. ~spin => Covered(td, st, lk', ab)
  <2>1. CASE st = "drain"
    BY <1>2, <2>1 DEF Covered
  <2>2. CASE st # "drain"
    BY <1>1, <1>4, <2>2, StaysCovered
  <2> QED BY <2>1, <2>2
<1>7. MayStay(td, pc'[td], rq'[td], lk', ab)
  BY <1>3, <1>6 DEF MayStay
<1>8. \A t \in Threads \ {td} : MayStay(t, pc'[t], rq'[t], lk', ab)
  BY <1>3, <1>5 DEF OthersBlocked
<1>9. Flags(lk') \cap LK_ALL # {}
  BY <1>1, <1>4
<1> QED BY <1>7, <1>8, <1>9 DEF BlockedIn

(* acquire() and acquiredrain(), whatever their outcome; a request that    *)
(* fails clears its flag.                                                  *)
LEMMA AcquireBlocked ==
    ASSUME NEW l \in LockType, NEW p \in PcType, rq \in RqType, NEW td \in Threads, NEW st \in Stages,
           NEW h \in Hows, NEW again \in BOOLEAN, NEW ab, OthersBlocked(td, l, p, ab),
           h = "nowait" => Without(l, st) \in LockType /\ OthersBlocked(td, Without(l, st), p, ab),
           Acquire(td, st, h, again, l, p)
    PROVE  BlockedIn(lk', pc', rq', ab)
<1>1. CASE Granted(td, st, l, p)
  BY <1>1, GrantedBlocked
<1>2. CASE h = "nowait" /\ Fail(td, st, l, p)
  <2>1. Return(td, Without(l, st), p)
    BY <1>2 DEF Fail, Without
  <2> QED BY <1>2, <2>1, ReturnBlocked
<1>3. CASE Blocks(td, st, l) /\ h # "nowait" /\ \E spin \in {FALSE, ~again} : Wait(td, st, h, l, p, spin)
  <2>1. PICK spin \in BOOLEAN : Wait(td, st, h, l, p, spin)
    BY <1>3
  <2> QED BY <1>3, <2>1, WaitBlocked
<1> QED BY <1>1, <1>2, <1>3 DEF Acquire

(* A request sets its flag and, if it fails at once, clears it again. *)
LEMMA FlaggedBlocked ==
    ASSUME NEW l \in LockType, NEW p \in PcType, rq \in RqType, NEW td \in Threads,
           NEW h \in Hows, NEW ab, OthersBlocked(td, l, p, ab),
           NEW st \in {"excl2", "upgrade"}, NEW f \in {"WANT_EXCL", "WANT_UPGRADE"},
           WantFlag(st) = {f}, f \notin l.flags, Acquire(td, st, h, FALSE, SetFlag(l, f), p)
    PROVE  BlockedIn(lk', pc', rq', ab)
<1> DEFINE l1 == SetFlag(l, f)
<1>1. l1 \in LockType /\ l1.flags = l.flags \cup {f} /\ l1.sharecount = l.sharecount
  BY DEF SetFlag, LockType
<1>2. Without(l1, st) = l
  <2>1. (l.flags \cup {f}) \ {f} = l.flags
    OBVIOUS
  <2> QED BY <2>1 DEF Without, SetFlag, LockType
<1>3. Acquire(td, st, h, FALSE, l1, p) /\ st \in Stages /\ FALSE \in BOOLEAN
  BY DEF Stages
<1> HIDE DEF l1
<1>4. OthersBlocked(td, l1, p, ab)
  <2>1. Causes(l) \subseteq Causes(l1)
    BY <1>1 DEF Causes
  <2> QED BY <1>1, <2>1, OthersStay
<1> QED BY <1>1, <1>2, <1>3, <1>4, AcquireBlocked

(* The two waits of an exclusive request. *)
LEMMA ExclusiveBlocked ==
    ASSUME NEW l \in LockType, NEW p \in PcType, rq \in RqType, NEW td \in Threads, NEW h \in Hows,
           NEW again \in BOOLEAN, NEW ab, OthersBlocked(td, l, p, ab), Exclusive(td, h, again, l, p)
    PROVE  BlockedIn(lk', pc', rq', ab)
<1>1. CASE Acquire(td, "excl1", h, again, l, p)
  <2>1. WantFlag("excl1") = {} /\ "excl1" \in Stages
    BY DEF WantFlag, Stages
  <2>2. Without(l, "excl1") = l
    BY <2>1, WithoutNone
  <2> QED BY <1>1, <2>1, <2>2, AcquireBlocked
<1>2. CASE ~Blocks(td, "excl1", l) /\ Acquire(td, "excl2", h, FALSE, SetFlag(l, "WANT_EXCL"), p)
  <2>1. "WANT_EXCL" \notin l.flags
    BY <1>2 DEF Blocks, Wanted, Flags
  <2>2. WantFlag("excl2") = {"WANT_EXCL"}
    BY DEF WantFlag
  <2> QED BY <1>2, <2>1, <2>2, FlaggedBlocked
<1> QED BY <1>1, <1>2 DEF Exclusive

-----------------------------------------------------------------------------
(* The steps. *)

(* The inductive invariant: the lock is exact, and who sleeps is covered.  *)
BlockedInv == LockmgrInv /\ BlockedIn(lk, pc, rq, abandoned)

(* The others, when td makes a request. *)
LEMMA OthersOf ==
    ASSUME BlockedInv, NEW td \in Threads
    PROVE  OthersBlocked(td, lk, pc, abandoned)
BY DEF BlockedInv, BlockedIn, OthersBlocked

(* LK_SHARED and LK_DRAIN *)
LEMMA PlainBlocked ==
    ASSUME BlockedInv, NEW td \in Threads, NEW h \in Hows, NEW st \in {"shared", "drain"},
           Acquire(td, st, h, FALSE, lk, pc), abandoned' = abandoned
    PROVE  BlockedIn(lk', pc', rq', abandoned')
<1>1. lk \in LockType /\ pc \in PcType /\ rq \in RqType
  BY InvTypes DEF BlockedInv
<1>2. WantFlag(st) = {} /\ st \in Stages /\ FALSE \in BOOLEAN
  BY DEF WantFlag, Stages
<1>3. Without(lk, st) = lk
  BY <1>1, <1>2, WithoutNone
<1> QED BY <1>1, <1>2, <1>3, OthersOf, AcquireBlocked

(* LK_EXCLUSIVE *)
LEMMA ExclusivelyBlocked ==
    ASSUME BlockedInv, NEW td \in Threads, NEW h \in Hows, Exclusively(td, h)
    PROVE  BlockedIn(lk', pc', rq', abandoned')
<1>1. lk \in LockType /\ pc \in PcType /\ rq \in RqType /\ FALSE \in BOOLEAN
  BY InvTypes DEF BlockedInv
<1>2. Exclusive(td, h, FALSE, lk, pc) /\ abandoned' = abandoned
  BY DEF Exclusively
<1> QED BY <1>1, <1>2, OthersOf, ExclusiveBlocked

(* LK_EXCLUSIVE with LK_CANRECURSE by the holder. *)
LEMMA RecurseBlocked ==
    ASSUME BlockedInv, NEW td \in Threads, Recurse(td)
    PROVE  BlockedIn(lk', pc', rq', abandoned')
<1> DEFINE l == [lk EXCEPT !.exclusivecount = @ + 1]
<1>1. lk \in LockType /\ pc \in PcType /\ rq \in RqType
  BY InvTypes DEF BlockedInv
<1>2. Return(td, l, pc) /\ abandoned' = abandoned /\ lk.exclusivecount < MaxExclusive
  BY DEF Recurse
<1>3. l \in LockType /\ l.flags = lk.flags /\ l.sharecount = lk.sharecount
  BY <1>1, <1>2, LockmgrAssumption DEF LockType
<1> HIDE DEF l
<1>4. Causes(lk) \subseteq Causes(l)
  BY <1>3 DEF Causes
<1>5. OthersBlocked(td, l, pc, abandoned)
  BY <1>3, <1>4, OthersOf, OthersStay
<1> QED BY <1>1, <1>2, <1>3, <1>5, ReturnBlocked

(* BUF_KERNPROC *)
LEMMA KernprocBlocked ==
    ASSUME BlockedInv, NEW td \in Threads, BUF_KERNPROC(td)
    PROVE  BlockedIn(lk', pc', rq', abandoned')
<1>1. /\ lk'.flags = lk.flags /\ lk'.sharecount = lk.sharecount /\ lk'.waitcount = lk.waitcount
      /\ UNCHANGED <<pc, rq, abandoned>>
  BY InvTypes DEF BlockedInv, BUF_KERNPROC, LockType
<1>2. Causes(lk') = Causes(lk) /\ Flags(lk') = Flags(lk)
  BY <1>1 DEF Causes, Flags
<1> QED BY <1>1, <1>2 DEF BlockedInv, BlockedIn, MayStay, Covered

(* Nobody but those who drain sleeps on a lock without waiters, or after a *)
(* wakeup.                                                                 *)
LEMMA OnlyDrainers ==
    ASSUME BlockedInv, NEW b, lk.waitcount > 0 => b,
           NEW p, p = IF b THEN Wake(pc, Sleepers(pc)) ELSE pc
    PROVE  /\ p \in PcType
           /\ \A t \in Threads : p[t] # "idle" => pc[t] # "idle"
           /\ \A t \in Threads : p[t] = "asleep" => pc[t] = "asleep" /\ rq[t].stage = "drain"
<1>1. pc \in PcType /\ lk.waitcount \in Nat /\ lk.waitcount = Cardinality(CountedIn(pc, rq))
  BY InvTypes DEF BlockedInv, LockmgrInv, Exact, WaitsExact, LockType
<1>2. CASE b
  <2>1. \A t \in Threads : p[t] = IF t \in Sleepers(pc) THEN "woken" ELSE pc[t]
    BY <1>2 DEF Wake
  <2>2. p \in PcType
    BY <1>1, <1>2 DEF Wake, PcType
  <2> QED BY <2>1, <2>2 DEF Sleepers
<1>3. CASE ~b
  <2>1. CountedIn(pc, rq) \in SUBSET Threads
    BY DEF CountedIn
  <2>2. Cardinality(CountedIn(pc, rq)) = 0
    BY <1>1, <1>3
  <2>3. CountedIn(pc, rq) = {}
    BY <2>1, <2>2, FiniteThreads, FS_EmptySet
  <2> QED BY <1>1, <1>3, <2>3 DEF CountedIn
<1> QED BY <1>2, <1>3

(* Those who drain stay while LK_WAITDRAIN does. *)
LEMMA DrainersStay ==
    ASSUME BlockedInv, NEW t \in Threads, NEW s, NEW l, NEW ab, s # "idle" => pc[t] # "idle",
           s = "asleep" => pc[t] = "asleep" /\ rq[t].stage = "drain",
           "WAITDRAIN" \in lk.flags => "WAITDRAIN" \in l.flags
    PROVE  MayStay(t, s, rq[t], l, ab)
<1>1. MayStay(t, pc[t], rq[t], lk, abandoned)
  BY DEF BlockedInv, BlockedIn
<1> QED BY <1>1 DEF MayStay, Covered

(* LK_DOWNGRADE, and LK_SHARED by the holder. *)
LEMMA DowngradeBlocked ==
    ASSUME BlockedInv, NEW td \in Threads, NEW extra \in {0, 1}, Downgrade(td, extra)
    PROVE  BlockedIn(lk', pc', rq', abandoned')
<1> DEFINE n == lk.exclusivecount + extra
           k == sharelock(lk, n)
           l == [k EXCEPT !.exclusivecount = 0, !.flags = @ \ {"HAVE_EXCL"}, !.lockholder = NOPROC]
           p == IF lk.waitcount > 0 THEN Wake(pc, Sleepers(pc)) ELSE pc
<1>1. Return(td, l, p)
  BY DEF Downgrade
<1>2. lk \in LockType /\ rq \in RqType
  BY InvTypes DEF BlockedInv
<1>3. n \in Nat
  BY <1>2, LockmgrAssumption DEF LockType
<1>4. l \in LockType /\ l.flags = lk.flags \ {"HAVE_EXCL"}
  <2> HIDE DEF n
  <2>1. k \in LockType /\ k.flags = lk.flags
    BY <1>2, <1>3 DEF sharelock, LockType
  <2>2. /\ 0 \in 0..MaxExclusive
        /\ k.flags \ {"HAVE_EXCL"} \in SUBSET {"HAVE_EXCL", "WANT_EXCL", "WANT_UPGRADE", "WAITDRAIN"}
    BY <2>1, LockmgrAssumption DEF LockType
  <2> HIDE DEF k
  <2> QED BY <2>1, <2>2 DEF LockType
<1> HIDE DEF l
<1>5. /\ p \in PcType
      /\ \A t \in Threads : p[t] # "idle" => pc[t] # "idle"
      /\ \A t \in Threads : p[t] = "asleep" => pc[t] = "asleep" /\ rq[t].stage = "drain"
  BY OnlyDrainers
<1> HIDE DEF p
<1>6. OthersBlocked(td, l, p, abandoned')
  BY <1>4, <1>5, DrainersStay DEF OthersBlocked
<1> QED BY <1>1, <1>2, <1>4, <1>5, <1>6, ReturnBlocked

(* LK_RELEASE, and the end of an I/O that has taken the lock over. *)
LEMMA ReleaseEndBlocked ==
    ASSUME BlockedInv, ReleaseEnd, NEW sh, Exact(Unlocked, pc, rq, sh)
    PROVE  BlockedIn(lk', pc', rq', abandoned')
<1> DEFINE p == IF ReleaseWakes THEN Wake(pc, Sleepers(pc)) ELSE pc
<1>1. Finish(Unlocked, p) /\ rq' = rq
  BY DEF ReleaseEnd
<1>2. lk \in LockType /\ Unlocked \in LockType
  BY InvTypes DEF BlockedInv, Exact, HolderExact
<1>3. "WAITDRAIN" \in lk.flags => "WAITDRAIN" \in Unlocked.flags
  BY <1>2 DEF Unlocked, shareunlock, LockType
<1>4. lk.waitcount > 0 => ReleaseWakes
  BY DEF ReleaseWakes
<1>5. /\ p \in PcType
      /\ \A t \in Threads : p[t] # "idle" => pc[t] # "idle"
      /\ \A t \in Threads : p[t] = "asleep" => pc[t] = "asleep" /\ rq[t].stage = "drain"
  BY <1>4, OnlyDrainers
<1> HIDE DEF p
<1>6. \A t \in Threads : MayStay(t, p[t], rq[t], Unlocked, abandoned')
  BY <1>3, <1>5, DrainersStay
<1> QED BY <1>1, <1>2, <1>5, <1>6, FinishBlocked

(* The share that an upgrade gives up.  When it is the last one and nobody *)
(* is woken, there was no LK_WANT_* request, and nobody else waits for     *)
(* shares.                                                                 *)
LEMMA ShareunlockBlocked ==
    ASSUME BlockedInv, NEW td \in Threads, shares[td] = 1, NEW woken, ShareunlockWakes(lk) => woken
    PROVE  LET p == IF woken THEN Wake(pc, Sleepers(pc)) ELSE pc
           IN  p \in PcType /\ OthersBlocked(td, shareunlock(lk), p, abandoned /\ ~woken)
<1> DEFINE l == shareunlock(lk)
           p == IF woken THEN Wake(pc, Sleepers(pc)) ELSE pc
<1>1. /\ lk \in LockType /\ pc \in PcType
      /\ LockmgrInv /\ Exact(lk, pc, rq, shares)
  BY InvTypes DEF BlockedInv, LockmgrInv
<1>2. l.flags = lk.flags /\ l.sharecount = lk.sharecount - 1
  BY <1>1 DEF shareunlock, LockType
<1> HIDE DEF l
<1>3. CASE woken
  <2>1. /\ p \in PcType
        /\ \A t \in Threads : p[t] # "idle" => pc[t] # "idle"
        /\ \A t \in Threads : p[t] = "asleep" => pc[t] = "asleep" /\ rq[t].stage = "drain"
    BY <1>3, OnlyDrainers
  <2> HIDE DEF p
  <2>2. OthersBlocked(td, l, p, abandoned /\ ~woken)
    BY <1>2, <2>1, DrainersStay DEF OthersBlocked
  <2> QED BY <2>1, <2>2 DEF p, l
<1>4. CASE ~woken
  <2>1. p = pc /\ ~ShareunlockWakes(lk) /\ (abandoned /\ ~woken) = abandoned
    BY <1>1, <1>4 DEF LockmgrInv
  <2>2. ASSUME NEW t \in Threads \ {td}, pc[t] = "asleep"
        PROVE  rq[t].stage \in Stages /\ Covered(t, rq[t].stage, l, abandoned)
    <3>1. rq[t].stage \in Stages /\ Covered(t, rq[t].stage, lk, abandoned)
      BY <2>2 DEF BlockedInv, BlockedIn, MayStay
    <3>2. CASE lk.sharecount # 1
      <4>1. Causes(lk) \subseteq Causes(l)
        BY <1>1, <1>2, <3>2 DEF Causes, LockType
      <4> QED BY <1>2, <3>1, <4>1, StaysCovered
    <3>3. CASE lk.sharecount = 1
      <4>1. lk.flags \cap {"WANT_EXCL", "WANT_UPGRADE"} = {}
        BY <2>1, <3>3 DEF ShareunlockWakes
      <4>2. In(pc, rq, "excl2") = {} /\ In(pc, rq, "upgrade") = {}
        BY <1>1, <4>1 DEF Exact, WantsExact
      <4>3. rq[t].stage \notin {"excl2", "upgrade"}
        BY <2>2, <4>2 DEF In
      <4>4. CASE rq[t].stage = "drain"
        BY <1>2, <3>1, <4>4 DEF Covered
      <4>5. CASE rq[t].stage \in {"shared", "excl1"}
        <5>1. "SHARE_NONZERO" \notin Wanted(t, rq[t].stage) \cup {"HAVE_EXCL"}
          BY <3>1, <4>5, WantedFlags
        <5>2. Causes(lk) \ {"SHARE_NONZERO"} \subseteq Causes(l)
          BY <1>2 DEF Causes
        <5> QED BY <3>1, <4>5, <5>1, <5>2 DEF Covered
      <4> QED BY <3>1, <4>3, <4>4, <4>5 DEF Stages
    <3> QED BY <3>1, <3>2, <3>3
  <2>3. OthersBlocked(td, l, pc, abandoned)
    BY <2>2 DEF OthersBlocked, BlockedInv, BlockedIn, MayStay
  <2> QED BY <1>1, <2>1, <2>3 DEF l
<1> QED BY <1>3, <1>4

(* LK_UPGRADE and LK_EXCLUPGRADE *)
LEMMA UpgradeBlocked ==
    ASSUME BlockedInv, NEW td \in Threads, NEW h \in Hows, NEW excl \in BOOLEAN, Upgrade(td, h, excl)
    PROVE  BlockedIn(lk', pc', rq', abandoned')
<1> DEFINE l       == shareunlock(lk)
           busy    == "WANT_UPGRADE" \in lk.flags
           refused == (busy /\ excl) \/ (h = "nowait" /\ (busy \/ l.sharecount > 1))
           woken   == \/ ShareunlockWakes(lk)
                      \/ busy /\ ~refused /\ l.sharecount = 0 /\ l.waitcount > 0
           p       == IF woken THEN Wake(pc, Sleepers(pc)) ELSE pc
           ab      == abandoned /\ ~woken
<1>1. /\ shares[td] = 1
      /\ \/ Fail(td, "shared", l, p)
         \/ ~busy /\ Acquire(td, "upgrade", h, FALSE, SetFlag(l, "WANT_UPGRADE"), p)
         \/ Exclusive(td, h, FALSE, l, p)
      /\ abandoned' = ab
  BY DEF Upgrade
<1>2. LockmgrInv /\ rq \in RqType /\ shares \in [Threads -> Nat]
  BY InvTypes DEF BlockedInv
<1>3. l \in LockType /\ l.flags = lk.flags
  <2>1. \A t \in Threads : [shares EXCEPT ![td] = 0][t] = IF t = td THEN shares[t] - 1 ELSE shares[t]
    BY <1>1, <1>2
  <2>2. [shares EXCEPT ![td] = 0] \in [Threads -> Nat] /\ shares[td] # 0
    BY <1>1, <1>2
  <2> QED BY <1>2, <2>1, <2>2, ShareunlockExact DEF Exact, HolderExact
<1>4. p \in PcType /\ OthersBlocked(td, l, p, ab)
  <2>1. ShareunlockWakes(lk) => woken
    OBVIOUS
  <2> HIDE DEF woken
  <2> QED BY <1>1, <2>1, ShareunlockBlocked
<1> HIDE DEF l, p, ab
<1>5. CASE Fail(td, "shared", l, p)
  <2>1. Without(l, "shared") = l
    BY <1>3, WithoutNone DEF WantFlag
  <2>2. Return(td, l, p)
    BY <1>5, <2>1 DEF Fail, Without
  <2> QED BY <1>1, <1>2, <1>3, <1>4, <2>2, ReturnBlocked
<1>6. CASE ~busy /\ Acquire(td, "upgrade", h, FALSE, SetFlag(l, "WANT_UPGRADE"), p)
  <2>1. WantFlag("upgrade") = {"WANT_UPGRADE"} /\ "WANT_UPGRADE" \notin l.flags
    BY <1>3, <1>6 DEF WantFlag
  <2> QED BY <1>1, <1>2, <1>3, <1>4, <1>6, <2>1, FlaggedBlocked
<1>7. CASE Exclusive(td, h, FALSE, l, p)
  <2>1. FALSE \in BOOLEAN
    OBVIOUS
  <2> QED BY <1>1, <1>2, <1>3, <1>4, <1>7, <2>1, ExclusiveBlocked
<1> QED BY <1>1, <1>5, <1>6, <1>7

(* The steps that release a hold. *)
LEMMA ReleasesBlocked ==
    ASSUME BlockedInv, biodone \/ \E td \in Threads : Release(td)
    PROVE  BlockedIn(lk', pc', rq', abandoned')
<1>1. LockmgrInv /\ lk.exclusivecount \in Nat /\ shares \in [Threads -> Nat] /\ HolderExact(lk)
  BY InvTypes, LockmgrAssumption DEF BlockedInv, LockType
<1>2. ReleaseEnd
  BY DEF biodone, Release
<1>3. CASE lk.exclusivecount > 0
  BY <1>1, <1>2, <1>3, UnlockedExclusive, ReleaseEndBlocked
<1>4. CASE lk.exclusivecount = 0
  <2>1. PICK td \in Threads : shares[td] > 0
    BY <1>1, <1>4, LockmgrAssumption DEF HolderExact, biodone, Release
  <2> DEFINE sh == [shares EXCEPT ![td] = @ - 1]
  <2>2. /\ sh \in [Threads -> Nat] /\ shares[td] # 0
        /\ \A t \in Threads : sh[t] = IF t = td THEN shares[t] - 1 ELSE shares[t]
    BY <1>1, <2>1
  <2> HIDE DEF sh
  <2>3. Exact(shareunlock(lk), pc, rq, sh)
    BY <1>1, <2>2, ShareunlockExact
  <2>4. Unlocked = shareunlock(lk)
    BY <1>4 DEF Unlocked
  <2> QED BY <1>2, <2>3, <2>4, ReleaseEndBlocked
<1> QED BY <1>1, <1>3, <1>4

(* A sleep that fails leaves the others as they are. *)
LEMMA SleepFailsBlocked ==
    ASSUME BlockedInv, NEW td \in Threads, SleepFails(td)
    PROVE  BlockedIn(lk', pc', rq', abandoned')
<1>1. /\ pc[td] = "asleep" /\ UNCHANGED <<lk, rq, abandoned>>
      /\ pc'[td] = "failed" /\ \A t \in Threads \ {td} : pc'[t] = pc[t]
  BY InvTypes DEF SleepFails, BlockedInv, PcType
<1>2. \A t \in Threads : MayStay(t, pc'[t], rq[t], lk, abandoned)
  BY <1>1 DEF BlockedInv, BlockedIn, MayStay
<1> QED BY <1>1, <1>2 DEF BlockedInv, BlockedIn

(* What a thread finds that comes back. *)
LEMMA BackBlocked ==
    ASSUME BlockedInv, NEW td \in Threads, pc[td] # "idle"
    PROVE  /\ Back(td) \in LockType /\ rq[td].stage \in Stages /\ rq[td].how \in Hows
           /\ rq[td].how # "nowait" /\ OthersBlocked(td, Back(td), pc, abandoned)
<1>1. Back(td) \in LockType /\ rq[td].stage \in Stages /\ rq[td].how \in Hows
  BY BackFree DEF BlockedInv, LockmgrInv
<1>2. Back(td).flags = lk.flags /\ Back(td).sharecount = lk.sharecount
  BY InvTypes DEF BlockedInv, Back, LockType
<1>3. Causes(lk) \subseteq Causes(Back(td))
  BY <1>2 DEF Causes
<1>4. OthersBlocked(td, Back(td), pc, abandoned)
  BY <1>2, <1>3, OthersOf, OthersStay
<1>5. rq[td].how # "nowait"
  BY DEF BlockedInv, BlockedIn, MayStay
<1> QED BY <1>1, <1>4, <1>5

(* A request fails after its sleep.  If it takes a LK_WANT_* flag away,    *)
(* those who waited for that one are without a cause.                      *)
LEMMA GiveUpBlocked ==
    ASSUME BlockedInv, NEW td \in Threads, GiveUp(td)
    PROVE  BlockedIn(lk', pc', rq', abandoned')
<1> DEFINE st == rq[td].stage
           l == Back(td)
           l1 == Without(l, st)
<1>1. Return(td, l1, pc) /\ abandoned' = (abandoned \/ st \in {"excl2", "upgrade"})
  BY DEF GiveUp, Fail, Without
<1>2. l \in LockType /\ st \in Stages /\ OthersBlocked(td, l, pc, abandoned)
  BY BackBlocked DEF GiveUp, Errs
<1>3. pc \in PcType /\ rq \in RqType
  BY InvTypes DEF BlockedInv
<1> HIDE DEF l, st
<1>4. CASE st \in {"excl2", "upgrade"}
  <2>1. "WAITDRAIN" \in l.flags => "WAITDRAIN" \in l1.flags
    BY <1>2 DEF Without, WantFlag, LockType
  <2>2. abandoned'
    BY <1>1, <1>4
  <2>3. OthersBlocked(td, l1, pc, abandoned')
    BY <1>2, <2>1, <2>2 DEF OthersBlocked, MayStay, Covered
  <2>4. l1 \in LockType
    BY <1>2 DEF Without, LockType
  <2> QED BY <1>1, <1>3, <2>3, <2>4, ReturnBlocked
<1>5. CASE st \notin {"excl2", "upgrade"}
  <2>1. l1 = l
    BY <1>2, <1>5, WithoutNone DEF WantFlag, Stages
  <2>2. abandoned' = abandoned
    BY <1>1, <1>5 DEF BlockedInv, LockmgrInv
  <2> QED BY <1>1, <1>2, <1>3, <2>1, <2>2, ReturnBlocked
<1> QED BY <1>4, <1>5

(* A request goes on after its sleep or spin. *)
LEMMA ContinueBlocked ==
    ASSUME BlockedInv, NEW td \in Threads, Continue(td)
    PROVE  BlockedIn(lk', pc', rq', abandoned')
<1> DEFINE l  == Back(td)
           st == rq[td].stage
           h  == rq[td].how
<1>1. /\ pc[td] # "idle" /\ abandoned' = abandoned
      /\ \/ Exclusive(td, h, TRUE, l, pc)
         \/ Acquire(td, st, h, TRUE, l, pc)
  BY DEF Continue
<1>2. /\ l \in LockType /\ st \in Stages /\ h \in Hows /\ h # "nowait" /\ TRUE \in BOOLEAN
      /\ OthersBlocked(td, l, pc, abandoned)
  BY <1>1, BackBlocked
<1>3. pc \in PcType /\ rq \in RqType
  BY InvTypes DEF BlockedInv
<1> HIDE DEF l, st, h
<1>4. CASE Exclusive(td, h, TRUE, l, pc)
  BY <1>1, <1>2, <1>3, <1>4, ExclusiveBlocked
<1>5. CASE Acquire(td, st, h, TRUE, l, pc)
  BY <1>1, <1>2, <1>3, <1>5, AcquireBlocked
<1> QED BY <1>1, <1>4, <1>5

(* Every step leaves only those asleep who have a cause. *)
LEMMA NextBlocked == BlockedInv /\ [Next]_vars => BlockedInv'
<1> SUFFICES ASSUME BlockedInv, [Next]_vars PROVE BlockedIn(lk', pc', rq', abandoned')
  BY NextExact DEF BlockedInv
<1>1. ASSUME NEW td \in Threads, Arrive(td) PROVE BlockedIn(lk', pc', rq', abandoned')
  <2>1. ASSUME NEW h \in Hows, Shared(td, h) \/ Drain(td, h) PROVE BlockedIn(lk', pc', rq', abandoned')
    <3>1. abandoned' = abandoned /\ \E st \in {"shared", "drain"} : Acquire(td, st, h, FALSE, lk, pc)
      BY <2>1 DEF Shared, Drain
    <3> QED BY <3>1, PlainBlocked
  <2>2. ASSUME NEW h \in Hows, Exclusively(td, h) PROVE BlockedIn(lk', pc', rq', abandoned')
    BY <2>2, ExclusivelyBlocked
  <2>3. ASSUME NEW h \in Hows, NEW excl \in BOOLEAN, Upgrade(td, h, excl)
        PROVE  BlockedIn(lk', pc', rq', abandoned')
    BY <2>3, UpgradeBlocked
  <2>4. ASSUME NEW extra \in {0, 1}, Downgrade(td, extra) PROVE BlockedIn(lk', pc', rq', abandoned')
    BY <2>4, DowngradeBlocked
  <2> QED BY <1>1, <2>1, <2>2, <2>3, <2>4, RecurseBlocked, KernprocBlocked DEF Arrive
<1>2. ASSUME NEW td \in Threads, SleepFails(td) \/ GiveUp(td) \/ Continue(td)
      PROVE  BlockedIn(lk', pc', rq', abandoned')
  BY <1>2, SleepFailsBlocked, GiveUpBlocked, ContinueBlocked
<1>3. CASE UNCHANGED vars
  BY <1>3 DEF vars, BlockedInv, BlockedIn, MayStay, Covered, Causes, Flags
<1> QED BY <1>1, <1>2, <1>3, ReleasesBlocked DEF Next

(* Nobody sleeps at first. *)
LEMMA InitBlocked == Init => BlockedInv
<1> SUFFICES ASSUME Init PROVE BlockedIn(lk, pc, rq, abandoned)
  BY InitExact DEF BlockedInv
<1> QED BY DEF Init, BlockedIn, MayStay

(* What the run checks follows. *)
LEMMA InvUncovered == BlockedInv => SleepersBlocked
<1> SUFFICES ASSUME BlockedInv PROVE SleepersBlocked
  OBVIOUS
<1>1. Causes(lk) \subseteq Flags(lk)
  BY DEF Causes, Flags
<1> QED BY <1>1 DEF BlockedInv, BlockedIn, MayStay, Covered, SleepersBlocked, Sleepers, Drainers

(* No wakeup of lockmgr() is lost: whoever sleeps in acquire() has a cause *)
(* that a wakeup will follow, unless a request with LK_WANT_* has failed   *)
(* since the last one; and whoever drains the lock sleeps only while there *)
(* is activity, whose end will find LK_WAITDRAIN set.                      *)
THEOREM SleepersAlwaysBlocked == Spec => []SleepersBlocked
<1>1. Spec => []BlockedInv
  BY InitBlocked, NextBlocked, PTL DEF Spec
<1> QED BY <1>1, InvUncovered, PTL

=============================================================================
