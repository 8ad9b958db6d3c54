---------------------------- MODULE CalloutProofs ----------------------------
(***************************************************************************)
(* Proofs about the callout wheel, for any number of callouts, any size of *)
(* the wheel that divides the range of the tick count, and any timeouts    *)
(* that together with a round of the wheel stay below that range.          *)
(***************************************************************************)
EXTENDS Callout, QueueLemmas

-----------------------------------------------------------------------------
(* The inductive invariant. *)

(* The places where softclock is in a bucket, and the entry it is at.      *)
InBucket == {"scan", "unlocked", "giant", "run"}

(* The entry softclock goes on with. *)
Cursor == IF pc = "scan" THEN c ELSE nextsoftcheck

(* The callouts that belong into bucket b. *)
Linked(b) == {x \in pending : Bucket(c_time[x]) = b}

(* The wheel and the free list hold what the flags say. *)
WheelInv ==
    /\ \A b \in 0..(WheelSize - 1) : IsInjective(callwheel[b]) /\ ToSet(callwheel[b]) = Linked(b)
    /\ IsInjective(callfree) /\ ToSet(callfree) = Slots \ pending

(* softclock goes on at an entry of its bucket or at none; while it is at  *)
(* one, hardclock() cannot take softticks a whole round ahead of it.       *)
CursorInv ==
    /\ pc # "scan" => c = Null
    /\ pc \notin InBucket => nextsoftcheck = Null
    /\ Cursor # Null => /\ Cursor \in pending
                        /\ Bucket(c_time[Cursor]) = Bucket(curticks)
                        /\ (softticks - curticks) % TickMod < WheelSize

(* How far softclock is behind. *)
LagInv == (ticks - softticks) % TickMod <= MaxLag

(* A pending callout is due when its count of clock ticks will be 0; when  *)
(* it is, softclock has yet to come to it.                                 *)
OnTime(x) ==
    \/ left[x] > 0 /\ c_time[x] = (ticks + left[x]) % TickMod
    \/ /\ left[x] = 0
       /\ \/ Ahead(c_time[x])
          \/ Due(x) /\ NoLater(callwheel[Bucket(curticks)], Cursor, x)

DueInv == \A x \in pending : OnTime(x)

(* Only pending callouts count down; a client's callout is wanted while it *)
(* has CALLOUT_ACTIVE.                                                     *)
WantedInv ==
    /\ \A x \in All \ pending : left[x] = 0
    /\ wanted = active \cap Callouts

(* The inductive invariant. *)
CalloutInv == TypeOK /\ WheelInv /\ CursorInv /\ LagInv /\ DueInv /\ WantedInv

-----------------------------------------------------------------------------
(* The tick count wraps. *)

(* What the constants are.                                                 *)
LEMMA ConstantFacts ==
    /\ TickMod \in Nat \ {0} /\ WheelSize \in Nat \ {0} /\ TickMod % WheelSize = 0
    /\ MaxTimeout \in Nat \ {0} /\ MaxLag \in Nat \ {0} /\ MaxSteps \in Nat \ {0}
    /\ WheelSize + MaxTimeout + MaxLag <= TickMod
    /\ Null \notin All /\ Callouts \cap Slots = {} /\ MPSafe \subseteq Callouts
BY CalloutAssumption DEF All

(* The differences and successors of ticks that the code computes.         *)
LEMMA TickArithmetic ==
    ASSUME NEW a \in Tick, NEW b \in Tick
    PROVE  /\ (a - b) % TickMod = IF a >= b THEN a - b ELSE a - b + TickMod
           /\ (a - b - 1) % TickMod = IF a > b THEN a - b - 1 ELSE a - b - 1 + TickMod
           /\ Succ(a) = IF a = TickMod - 1 THEN 0 ELSE a + 1
           /\ Succ(a) \in Tick
           /\ \A k \in 0..TickMod :
                (a + k) % TickMod = IF a + k < TickMod THEN a + k ELSE a + k - TickMod
<1>1. \A n \in 0..TickMod - 1 : n % TickMod = n
  BY ConstantFacts
<1>2. \A n \in Int : TickMod <= n /\ n < 2 * TickMod => n % TickMod = n - TickMod
  BY ConstantFacts
<1>3. \A n \in Int : -TickMod <= n /\ n < 0 => n % TickMod = n + TickMod
  BY ConstantFacts
<1> QED BY <1>1, <1>2, <1>3, ConstantFacts DEF Tick, Succ

(* How far two ticks are apart, one step on.                               *)
LEMMA TickSteps ==
    ASSUME NEW t \in Tick, NEW s \in Tick
    PROVE  /\ (t - s) % TickMod \in 0..TickMod - 1 /\ (t - t) % TickMod = 0
           /\ Succ(t) \in Tick /\ (Succ(t) = Succ(s) => t = s)
           /\ (Succ(t) - s) % TickMod
                = IF (t - s) % TickMod = TickMod - 1 THEN 0 ELSE ((t - s) % TickMod) + 1
           /\ s # t => (t - Succ(s)) % TickMod = ((t - s) % TickMod) - 1
           /\ (t - s - 1) % TickMod = IF t = s THEN TickMod - 1 ELSE ((t - s) % TickMod) - 1
           /\ \A k \in 1..TickMod - 1 : (t + k) % TickMod = (Succ(t) + (k - 1)) % TickMod
<1> DEFINE M == TickMod
           Diff(a, b) == IF a >= b THEN a - b ELSE a - b + M
           ts == Succ(t)
           ss == Succ(s)
<1>1. M \in Nat /\ M > 2 /\ t \in 0..M - 1 /\ s \in 0..M - 1
  BY ConstantFacts DEF Tick
<1>2. /\ ts = (IF t = M - 1 THEN 0 ELSE t + 1) /\ ts \in Tick
      /\ ss = (IF s = M - 1 THEN 0 ELSE s + 1) /\ ss \in Tick
  BY TickArithmetic
<1>3. ts \in 0..M - 1 /\ ss \in 0..M - 1
  BY <1>2 DEF Tick
<1>4. /\ (t - s) % M = Diff(t, s) /\ (t - t) % M = Diff(t, t)
      /\ (ts - s) % M = Diff(ts, s) /\ (t - ss) % M = Diff(t, ss)
      /\ (t - s - 1) % M = IF t > s THEN t - s - 1 ELSE t - s - 1 + M
  BY <1>2, TickArithmetic
<1>5. ASSUME NEW k \in 1..M - 1 PROVE (t + k) % M = (ts + (k - 1)) % M
  <2> DEFINE j == k - 1
  <2>1. k \in 0..M /\ j \in 0..M /\ j = k - 1
    BY <1>1
  <2> HIDE DEF j, ts
  <2>2. (t + k) % M = IF t + k < M THEN t + k ELSE t + k - M
    BY <2>1, TickArithmetic
  <2>3. (ts + j) % M = IF ts + j < M THEN ts + j ELSE ts + j - M
    BY <2>1, <1>2, TickArithmetic
  <2> QED BY <1>1, <1>2, <2>1, <2>2, <2>3
<1> HIDE DEF M, ts, ss
<1>6. /\ (t - s) % M \in 0..M - 1 /\ (t - t) % M = 0
      /\ ts = ss => t = s
      /\ (ts - s) % M = IF (t - s) % M = M - 1 THEN 0 ELSE ((t - s) % M) + 1
      /\ s # t => (t - ss) % M = ((t - s) % M) - 1
      /\ (t - s - 1) % M = IF t = s THEN M - 1 ELSE ((t - s) % M) - 1
  BY <1>1, <1>2, <1>3, <1>4
<1> QED BY <1>2, <1>5, <1>6 DEF M, ts, ss

(* Ticks that are one round of the wheel apart belong into the same        *)
(* bucket, across the wrap as well.                                        *)
LEMMA BucketRound ==
    ASSUME NEW a \in Tick, NEW b \in Tick, (a - b) % TickMod = WheelSize
    PROVE  Bucket(a) = Bucket(b)
<1> DEFINE k == TickMod \div WheelSize
           q == b \div WheelSize
           r == b % WheelSize
<1>1. k \in Int /\ TickMod = k * WheelSize
  BY ConstantFacts
<1>2. q \in Int /\ r \in 0..WheelSize - 1 /\ b = WheelSize * q + r
  BY ConstantFacts DEF Tick
<1> HIDE DEF k, q, r
<1>3. \A p \in Int : (WheelSize * p + r) % WheelSize = r
  BY ConstantFacts, <1>2
<1>4. a = b + WheelSize \/ a = b + WheelSize - TickMod
  BY TickArithmetic, ConstantFacts DEF Tick
<1>5. a = WheelSize * (q + 1) + r \/ a = WheelSize * (q + 1 - k) + r
  BY <1>1, <1>2, <1>4, ConstantFacts
<1> QED BY <1>1, <1>2, <1>3, <1>5 DEF Bucket, r

(* Every tick has a bucket.                                                *)
LEMMA BucketType ==
    ASSUME NEW t \in Tick
    PROVE  Bucket(t) \in 0..(WheelSize - 1)
BY ConstantFacts DEF Bucket, Tick

-----------------------------------------------------------------------------
(* The wheel. *)

(* w is the wheel without x, and otherwise in order.                       *)
WithoutEntry(w, x) ==
    /\ w \in [0..(WheelSize - 1) -> Seq(All)]
    /\ \A b \in 0..(WheelSize - 1) : IsInjective(w[b]) /\ ToSet(w[b]) = Linked(b) \ {x}
    /\ \A b \in 0..(WheelSize - 1), u, v \in All \ {x} :
         NoLater(callwheel[b], u, v) => NoLater(w[b], u, v)

(* callout_reset() begins with a wheel from which x has gone.              *)
LEMMA WheelWithoutIs ==
    ASSUME TypeOK, WheelInv, NEW x \in All
    PROVE  WithoutEntry(WheelWithout(x), x)
<1> DEFINE B == 0..(WheelSize - 1)
           bx == Bucket(c_time[x])
           w == WheelWithout(x)
<1>1. callwheel \in [B -> Seq(All)] /\ bx \in B
  BY BucketType DEF TypeOK
<1>2. CASE x \notin pending
  BY <1>1, <1>2 DEF WithoutEntry, WheelWithout, WheelInv, Linked
<1>3. CASE x \in pending
  <2>1. w = [callwheel EXCEPT ![bx] = Dequeued(callwheel[bx], {x})]
    BY <1>3 DEF WheelWithout, Unlinked
  <2> HIDE DEF w, bx
  <2>2. w[bx] = Dequeued(callwheel[bx], {x}) /\ \A b \in B \ {bx} : w[b] = callwheel[b]
    BY <2>1, <1>1
  <2>3. callwheel[bx] \in Seq(All)
    BY <1>1
  <2>4. /\ w[bx] \in Seq(All)
        /\ ToSet(w[bx]) = ToSet(callwheel[bx]) \ {x}
        /\ IsInjective(callwheel[bx]) => IsInjective(w[bx])
    BY <2>2, <2>3, DequeuedProperties
  <2>5. w \in [B -> Seq(All)]
    BY <2>1, <2>2, <2>4, <1>1
  <2>6. ASSUME NEW b \in B PROVE IsInjective(w[b]) /\ ToSet(w[b]) = Linked(b) \ {x}
    <3>1. IsInjective(callwheel[b]) /\ ToSet(callwheel[b]) = Linked(b)
      BY DEF WheelInv
    <3>2. b # bx => Linked(b) \ {x} = Linked(b)
      BY DEF Linked, bx
    <3> QED BY <3>1, <3>2, <2>2, <2>4
  <2>7. ASSUME NEW b \in B, NEW u \in All \ {x}, NEW v \in All \ {x}, NoLater(callwheel[b], u, v)
        PROVE  NoLater(w[b], u, v)
    <3>1. CASE b = bx
      <4>1. u \notin {x} /\ v \notin {x} /\ NoLater(callwheel[bx], u, v)
        BY <2>7, <3>1
      <4> QED BY <4>1, <2>2, <2>3, <3>1, DequeuedKeepsOrder
    <3> QED BY <3>1, <2>2, <2>7
  <2> QED BY <2>5, <2>6, <2>7 DEF WithoutEntry, w
<1> QED BY <1>2, <1>3

(* callout_stop() and softclock() take out one that is pending.            *)
LEMMA UnlinkedIs ==
    ASSUME TypeOK, WheelInv, NEW x \in pending
    PROVE  WithoutEntry(Unlinked(x), x)
<1>1. x \in All
  BY DEF TypeOK
<1> QED BY <1>1, WheelWithoutIs DEF WheelWithout

(* The next entry is another one of the bucket, or there is none; whoever  *)
(* stands behind x does not stand before it.                               *)
LEMMA NextEntry ==
    ASSUME TypeOK, WheelInv, NEW x \in pending, NEW n, n = TAILQ_NEXT(x)
    PROVE  /\ n # Null => n \in pending \ {x} /\ Bucket(c_time[n]) = Bucket(c_time[x])
           /\ \A v \in All \ {x} : NoLater(callwheel[Bucket(c_time[x])], x, v) =>
                n # Null /\ NoLater(callwheel[Bucket(c_time[x])], n, v)
<1> DEFINE B == 0..(WheelSize - 1)
           bx == Bucket(c_time[x])
           q == callwheel[bx]
           i == CHOOSE j \in DOMAIN q : q[j] = x
<1>1. x \in All /\ bx \in B /\ q \in Seq(All)
  BY BucketType DEF TypeOK
<1>2. IsInjective(q) /\ ToSet(q) = Linked(bx) /\ x \in Linked(bx)
  BY <1>1 DEF WheelInv, Linked
<1>3. i \in DOMAIN q /\ q[i] = x
  <2>1. \E j \in DOMAIN q : q[j] = x
    BY <1>2 DEF ToSet
  <2> QED BY <2>1
<1>4. Len(q) \in Nat /\ DOMAIN q = 1..Len(q)
  BY <1>1, LenProperties
<1>5. n = IF i = Len(q) THEN Null ELSE q[i + 1]
  BY DEF TAILQ_NEXT
<1> HIDE DEF i
<1>6. i # Len(q) => i + 1 \in DOMAIN q /\ n = q[i + 1]
  BY <1>3, <1>4, <1>5
<1>7. ASSUME n # Null PROVE n \in pending \ {x} /\ Bucket(c_time[n]) = bx
  <2>1. i + 1 \in DOMAIN q /\ n = q[i + 1]
    BY <1>5, <1>6, <1>7
  <2>2. n \in Linked(bx)
    BY <2>1, <1>2 DEF ToSet
  <2>3. n # x
    BY <2>1, <1>2, <1>3, <1>4 DEF IsInjective
  <2> QED BY <2>2, <2>3 DEF Linked
<1>8. ASSUME NEW v \in All \ {x}, NoLater(q, x, v) PROVE n # Null /\ NoLater(q, n, v)
  <2>1. PICK k, j \in DOMAIN q : k <= j /\ q[k] = x /\ q[j] = v
    BY <1>8 DEF NoLater
  <2>2. k = i
    BY <2>1, <1>2, <1>3 DEF IsInjective
  <2>3. j # i
    BY <2>1, <1>3
  <2>4. i < j
    BY <2>1, <2>2, <2>3, <1>4
  <2>5. i # Len(q) /\ i + 1 <= j
    BY <2>1, <2>4, <1>3, <1>4
  <2>6. n = q[i + 1] /\ i + 1 \in DOMAIN q
    BY <2>5, <1>6
  <2>7. q[i + 1] \in All
    BY <2>6, <1>1, <1>4, LenProperties
  <2> QED BY <2>1, <2>5, <2>6, <2>7, ConstantFacts DEF NoLater
<1> QED BY <1>7, <1>8

(* Null is in no bucket.                                                   *)
LEMMA NullBeforeNobody ==
    ASSUME TypeOK, NEW b \in 0..(WheelSize - 1), NEW v
    PROVE  ~ NoLater(callwheel[b], Null, v)
<1>1. callwheel[b] \in Seq(All)
  BY DEF TypeOK
<1>2. \A i \in DOMAIN callwheel[b] : callwheel[b][i] \in All
  BY <1>1, LenProperties
<1> QED BY <1>2, ConstantFacts DEF NoLater

-----------------------------------------------------------------------------
(* What the steps have in common. *)

(* Steps of the clock thread between the entries, and steps of others that *)
(* leave the wheel and the clock alone.                                    *)
LEMMA QuietStep ==
    ASSUME CalloutInv, TypeOK', WantedInv',
           UNCHANGED <<ticks, softticks, callwheel, callfree, pending, c_time, curticks, left>>,
           Cursor' = Cursor,
           pc' # "scan" => c' = Null, pc' \notin InBucket => nextsoftcheck' = Null
    PROVE  CalloutInv'
<1>1. WheelInv'
  BY DEF CalloutInv, WheelInv, Linked
<1>2. CursorInv' /\ LagInv'
  BY DEF CalloutInv, CursorInv, LagInv
<1>3. DueInv'
  BY DEF CalloutInv, DueInv, OnTime, Ahead, Due
<1> QED BY <1>1, <1>2, <1>3 DEF CalloutInv

(* When softclock finds its entry due, the clock ticks that were asked for *)
(* have gone by: softticks cannot be a round of the wheel ahead of         *)
(* curticks, and the rest of the count is longer than the longest timeout. *)
LEMMA DueMeansNow ==
    ASSUME CalloutInv, Cursor # Null, Due(Cursor)
    PROVE  left[Cursor] = 0
<1> DEFINE l == left[Cursor]
<1>1. /\ Cursor \in pending /\ Cursor \in All /\ c_time[Cursor] = curticks
      /\ (softticks - curticks) % TickMod < WheelSize
      /\ (ticks - softticks) % TickMod <= MaxLag
  BY DEF CalloutInv, CursorInv, LagInv, TypeOK, Due
<1>2. ticks \in Tick /\ softticks \in Tick /\ curticks \in Tick /\ l \in 0..MaxTimeout
  BY <1>1 DEF CalloutInv, TypeOK
<1>3. l > 0 => curticks = (ticks + l) % TickMod
  BY <1>1 DEF CalloutInv, DueInv, OnTime
<1> HIDE DEF l
<1>4. l > 0 => curticks = IF ticks + l < TickMod THEN ticks + l ELSE ticks + l - TickMod
  BY <1>2, <1>3, TickArithmetic, ConstantFacts
<1>5. /\ (softticks - curticks) % TickMod
           = IF softticks >= curticks THEN softticks - curticks ELSE softticks - curticks + TickMod
      /\ (ticks - softticks) % TickMod
           = IF ticks >= softticks THEN ticks - softticks ELSE ticks - softticks + TickMod
  BY <1>2, TickArithmetic
<1>7. l = 0
  BY <1>1, <1>2, <1>4, <1>5, ConstantFacts DEF Tick
<1> QED BY <1>7 DEF l

(* Where softclock goes on after x was taken out.                          *)
PlaceWithout(n, x) ==
    /\ n # Null => /\ n \in pending \ {x} /\ Bucket(c_time[n]) = Bucket(curticks)
                   /\ Cursor # Null
    /\ \A v \in pending \ {x} :
         NoLater(callwheel[Bucket(curticks)], Cursor, v) =>
           n # Null /\ NoLater(callwheel[Bucket(curticks)], n, v)

(* softclock itself goes on with the next entry.                           *)
LEMMA PlaceAfter ==
    ASSUME CalloutInv, Cursor # Null
    PROVE  PlaceWithout(TAILQ_NEXT(Cursor), Cursor)
<1>1. Cursor \in pending /\ Bucket(c_time[Cursor]) = Bucket(curticks) /\ pending \subseteq All
  BY DEF CalloutInv, CursorInv, TypeOK
<1> DEFINE n == TAILQ_NEXT(Cursor)
<1>2. /\ n # Null => n \in pending \ {Cursor} /\ Bucket(c_time[n]) = Bucket(c_time[Cursor])
      /\ \A v \in All \ {Cursor} : NoLater(callwheel[Bucket(c_time[Cursor])], Cursor, v) =>
           n # Null /\ NoLater(callwheel[Bucket(c_time[Cursor])], n, v)
  BY <1>1, NextEntry DEF CalloutInv
<1> HIDE DEF n
<1>3. PlaceWithout(n, Cursor)
  BY <1>1, <1>2 DEF PlaceWithout
<1> QED BY <1>3 DEF n

(* callout_stop() and callout_reset() move softclock on if they must.      *)
LEMMA PlaceOf ==
    ASSUME CalloutInv, pc # "scan", NEW x \in All
    PROVE  LET n == IF x \in pending THEN CursorWithout(x) ELSE nextsoftcheck
           IN  PlaceWithout(n, x) /\ (pc \notin InBucket => n = Null)
<1>1. Cursor = nextsoftcheck /\ (pc \notin InBucket => nextsoftcheck = Null) /\ x # Null
  BY ConstantFacts DEF Cursor, CalloutInv, CursorInv
<1>2. CASE nextsoftcheck = x
  <2>1. Cursor # Null /\ x \in pending /\ x = Cursor
    BY <1>1, <1>2 DEF CalloutInv, CursorInv
  <2>2. PlaceWithout(TAILQ_NEXT(x), x)
    BY <2>1, PlaceAfter
  <2> QED BY <1>1, <1>2, <2>1, <2>2 DEF CursorWithout
<1>3. CASE nextsoftcheck # x
  <2>1. (IF x \in pending THEN CursorWithout(x) ELSE nextsoftcheck) = Cursor
    BY <1>1, <1>3 DEF CursorWithout
  <2>2. Bucket(curticks) \in 0..(WheelSize - 1)
    BY BucketType DEF CalloutInv, TypeOK
  <2>3. \A v : ~ NoLater(callwheel[Bucket(curticks)], Null, v)
    BY <2>2, NullBeforeNobody DEF CalloutInv
  <2>4. PlaceWithout(Cursor, x)
    BY <1>1, <1>3, <2>3 DEF PlaceWithout, CalloutInv, CursorInv
  <2> QED BY <1>1, <2>1, <2>4
<1> QED BY <1>2, <1>3

(* A callout other than x is no less on time after x has gone from the     *)
(* wheel, or has gone to the end of a bucket.                              *)
LEMMA OthersOnTime ==
    ASSUME CalloutInv, NEW x \in All, NEW w, WithoutEntry(w, x),
           PlaceWithout(Cursor', x),
           UNCHANGED <<ticks, softticks, curticks>>,
           NEW y \in pending \ {x}, c_time'[y] = c_time[y], left'[y] = left[y],
           LET b == Bucket(curticks)
           IN  callwheel'[b] = w[b] \/ callwheel'[b] = Append(w[b], x)
    PROVE  OnTime(y)'
<1> DEFINE b == Bucket(curticks)
<1>1. b \in 0..(WheelSize - 1) /\ y \in All /\ pending \subseteq All
  BY BucketType DEF CalloutInv, TypeOK
<1>2. OnTime(y)
  BY DEF CalloutInv, DueInv
<1>3. ASSUME NoLater(callwheel[b], Cursor, y)
      PROVE  NoLater(callwheel'[b], Cursor', y)
  <2>1. Cursor' # Null /\ NoLater(callwheel[b], Cursor', y)
    BY <1>3 DEF PlaceWithout
  <2>2. Cursor' \in All \ {x}
    BY <2>1, <1>1 DEF PlaceWithout
  <2>3. w[b] \in Seq(All) /\ NoLater(w[b], Cursor', y)
    BY <2>1, <2>2, <1>1 DEF WithoutEntry
  <2>4. NoLater(Append(w[b], x), Cursor', y)
    BY <2>3, JoinKeepsOrder
  <2> QED BY <2>3, <2>4
<1> HIDE DEF b
<1>4. b' = b
  BY DEF b
<1> QED BY <1>2, <1>3, <1>4 DEF OnTime, Ahead, Due, b

-----------------------------------------------------------------------------
(* The clients. *)

(* callout_reset(), also as timeout() calls it with an entry it has taken  *)
(* off the free list.                                                      *)
LEMMA ResetStep ==
    ASSUME CalloutInv, CalloutLockFree, NEW x \in All, NEW to_ticks \in 0..MaxTimeout,
           NEW ftn \in Ftns, callout_reset(x, to_ticks, ftn),
           callfree' \in Seq(Slots), IsInjective(callfree'),
           ToSet(callfree') = Slots \ (pending \cup {x}),
           UNCHANGED <<ticks, softticks, swiVars, softVars, hpc>>
    PROVE  CalloutInv'
<1> DEFINE B == 0..(WheelSize - 1)
           l == AtLeastOne(to_ticks)
           t == (ticks + l) % TickMod
           w == WheelWithout(x)
           n == IF x \in pending THEN CursorWithout(x) ELSE nextsoftcheck
<1>1. /\ pc # "scan" /\ pending \subseteq All
      /\ UNCHANGED <<ticks, softticks, it_need, ih_need, pc, curticks, c, steps, cur, hpc>>
  BY DEF CalloutLockFree, CalloutInv, TypeOK, swiVars, softVars
<1>2. l \in 1..MaxTimeout
  BY ConstantFacts DEF AtLeastOne
<1>3. t \in Tick
  <2> HIDE DEF l
  <2>1. ticks + l \in Int
    BY <1>2 DEF CalloutInv, TypeOK, Tick
  <2> QED BY <2>1, ConstantFacts DEF Tick
<1>4. Bucket(t) \in B
  BY <1>3, BucketType
<1>5. WithoutEntry(w, x)
  BY WheelWithoutIs DEF CalloutInv
<1>6. PlaceWithout(n, x) /\ (pc \notin InBucket => n = Null)
  BY <1>1, PlaceOf
<1>7. /\ nextsoftcheck' = n
      /\ callwheel' = [w EXCEPT ![Bucket(t)] = Append(w[Bucket(t)], x)]
      /\ pending' = pending \cup {x}
      /\ active' = active \cup {x}
      /\ c_time' = [c_time EXCEPT ![x] = t]
      /\ c_func' = [c_func EXCEPT ![x] = ftn]
      /\ left' = [left EXCEPT ![x] = l]
      /\ wanted' = wanted \cup ({x} \cap Callouts)
  BY DEF callout_reset
<1> HIDE DEF l, t, w, n
<1>8. w \in [B -> Seq(All)]
  BY <1>5 DEF WithoutEntry
<1>9. /\ callwheel' \in [B -> Seq(All)]
      /\ callwheel'[Bucket(t)] = Append(w[Bucket(t)], x)
      /\ \A b \in B \ {Bucket(t)} : callwheel'[b] = w[b]
  <2>1. w[Bucket(t)] \in Seq(All)
    BY <1>4, <1>8
  <2>2. Append(w[Bucket(t)], x) \in Seq(All)
    BY <2>1
  <2> QED BY <2>2, <1>4, <1>7, <1>8
<1>10. /\ c_time'[x] = t /\ \A y \in All \ {x} : c_time'[y] = c_time[y]
       /\ left'[x] = l /\ \A y \in All \ {x} : left'[y] = left[y]
  BY <1>7 DEF CalloutInv, TypeOK
<1>11. Cursor' = n
  BY <1>1, <1>7 DEF Cursor
<1>12. n \in All \cup {Null}
  BY <1>1, <1>6 DEF PlaceWithout
<1>13. TypeOK'
  <2>1. c_time' \in [All -> Tick] /\ c_func' \in [All -> Ftns \cup {Null}]
    BY <1>3, <1>7 DEF CalloutInv, TypeOK
  <2>2. left' \in [All -> 0..MaxTimeout]
    BY <1>2, <1>7 DEF CalloutInv, TypeOK
  <2>3. wanted' \in SUBSET Callouts /\ pending' \in SUBSET All /\ active' \in SUBSET All
    BY <1>7 DEF CalloutInv, TypeOK
  <2> QED BY <1>1, <1>7, <1>9, <1>12, <2>1, <2>2, <2>3 DEF CalloutInv, TypeOK
<1>14. WheelInv'
  <2>1. ASSUME NEW b \in B
        PROVE  IsInjective(callwheel'[b]) /\ ToSet(callwheel'[b]) = Linked(b)'
    <3>1. w[b] \in Seq(All) /\ IsInjective(w[b]) /\ ToSet(w[b]) = Linked(b) \ {x}
      BY <1>5 DEF WithoutEntry
    <3>2. CASE b = Bucket(t)
      <4>1. /\ ToSet(Append(w[b], x)) = ToSet(w[b]) \cup {x}
            /\ x \notin ToSet(w[b]) => IsInjective(Append(w[b], x))
        BY <3>1, JoinTail
      <4>2. Linked(b)' = (Linked(b) \ {x}) \cup {x}
        BY <1>1, <1>7, <1>10, <3>2 DEF Linked
      <4> QED BY <4>1, <4>2, <3>1, <3>2, <1>9
    <3>3. CASE b # Bucket(t)
      <4>1. Linked(b)' = Linked(b) \ {x}
        BY <1>1, <1>7, <1>10, <3>3 DEF Linked
      <4> QED BY <4>1, <3>1, <3>3, <1>9
    <3> QED BY <3>2, <3>3
  <2>2. ToSet(callfree') = Slots \ pending'
    BY <1>7
  <2> QED BY <2>1, <2>2 DEF WheelInv
<1>15. CursorInv'
  <2>1. n # Null => /\ n \in pending' /\ Bucket(c_time'[n]) = Bucket(curticks')
                    /\ (softticks' - curticks') % TickMod < WheelSize
    BY <1>1, <1>6, <1>7, <1>10 DEF PlaceWithout, CalloutInv, CursorInv
  <2> QED BY <1>1, <1>6, <1>7, <1>11, <2>1 DEF CalloutInv, CursorInv
<1>16. LagInv'
  BY <1>1 DEF CalloutInv, LagInv
<1>17. DueInv'
  <2>1. OnTime(x)'
    BY <1>1, <1>2, <1>10 DEF OnTime, t
  <2>2. ASSUME NEW y \in pending \ {x} PROVE OnTime(y)'
    <3>1. Bucket(curticks) \in B
      BY BucketType DEF CalloutInv, TypeOK
    <3>2. \/ callwheel'[Bucket(curticks)] = w[Bucket(curticks)]
          \/ callwheel'[Bucket(curticks)] = Append(w[Bucket(curticks)], x)
      BY <3>1, <1>9
    <3>3. PlaceWithout(Cursor', x)
      BY <1>6, <1>11
    <3> QED BY <1>1, <1>5, <1>10, <3>2, <3>3, OthersOnTime
  <2> QED BY <2>1, <2>2, <1>7 DEF DueInv
<1>18. WantedInv'
  BY <1>1, <1>7, <1>10 DEF CalloutInv, WantedInv
<1> QED BY <1>13, <1>14, <1>15, <1>16, <1>17, <1>18 DEF CalloutInv

(* callout_stop(), also as untimeout() calls it.                           *)
LEMMA StopStep ==
    ASSUME CalloutInv, CalloutLockFree, NEW x \in All, callout_stop(x),
           UNCHANGED <<ticks, softticks, swiVars, softVars, hpc>>
    PROVE  CalloutInv'
<1> DEFINE B == 0..(WheelSize - 1)
<1>1. /\ pc # "scan" /\ pending \subseteq All
      /\ UNCHANGED <<ticks, softticks, it_need, ih_need, pc, curticks, c, steps, cur, hpc, c_time>>
      /\ pending' = pending \ {x} /\ active' = active \ {x} /\ wanted' = wanted \ {x}
      /\ left' = [left EXCEPT ![x] = 0]
  BY DEF CalloutLockFree, CalloutInv, TypeOK, swiVars, softVars, callout_stop
<1>2. left'[x] = 0 /\ \A y \in All \ {x} : left'[y] = left[y]
  BY <1>1 DEF CalloutInv, TypeOK
<1>3. left' \in [All -> 0..MaxTimeout]
  BY <1>1, ConstantFacts DEF CalloutInv, TypeOK
<1>4. WantedInv'
  BY <1>1, <1>2 DEF CalloutInv, WantedInv
<1>5. CASE x \notin pending /\ UNCHANGED <<nextsoftcheck, callwheel, c_func, callfree>>
  <2>1. left' = left
    BY <1>1, <1>5 DEF CalloutInv, TypeOK, WantedInv
  <2>2. pending' = pending
    BY <1>1, <1>5
  <2>3. TypeOK'
    BY <1>1, <1>3, <1>5 DEF CalloutInv, TypeOK
  <2>4. Cursor' = Cursor
    BY <1>1, <1>5 DEF Cursor
  <2> QED BY <1>1, <1>4, <1>5, <2>1, <2>2, <2>3, <2>4, QuietStep DEF CalloutInv, CursorInv
<1>6. CASE x \in pending
  <2> DEFINE n == CursorWithout(x)
             w == Unlinked(x)
             f == IF x \in Slots THEN <<x>> \o callfree ELSE callfree
  <2>1. /\ nextsoftcheck' = n /\ callwheel' = w /\ callfree' = f
        /\ c_func' = [c_func EXCEPT ![x] = Null]
    BY <1>6 DEF callout_stop
  <2>2. WithoutEntry(w, x)
    BY <1>6, UnlinkedIs DEF CalloutInv
  <2>3. PlaceWithout(n, x) /\ (pc \notin InBucket => n = Null)
    BY <1>1, <1>6, PlaceOf
  <2>4. /\ f \in Seq(Slots) /\ IsInjective(f) /\ ToSet(f) = Slots \ pending'
    <3>1. callfree \in Seq(Slots) /\ IsInjective(callfree) /\ ToSet(callfree) = Slots \ pending
      BY DEF CalloutInv, TypeOK, WheelInv
    <3>2. CASE x \in Slots
      <4>1. /\ <<x>> \o callfree \in Seq(Slots)
            /\ ToSet(<<x>> \o callfree) = ToSet(callfree) \cup {x}
            /\ x \notin ToSet(callfree) => IsInjective(<<x>> \o callfree)
        BY <3>1, <3>2, PushProperties
      <4> QED BY <4>1, <3>1, <3>2, <1>1, <1>6
    <3>3. CASE x \notin Slots
      BY <3>1, <3>3, <1>1
    <3> QED BY <3>2, <3>3
  <2> HIDE DEF n, w, f
  <2>5. Cursor' = n
    BY <1>1, <2>1 DEF Cursor
  <2>6. n \in All \cup {Null}
    BY <1>1, <2>3 DEF PlaceWithout
  <2>7. TypeOK'
    BY <1>1, <1>3, <2>1, <2>2, <2>4, <2>6 DEF CalloutInv, TypeOK, WithoutEntry
  <2>8. WheelInv'
    <3>1. \A b \in B : Linked(b)' = Linked(b) \ {x}
      BY <1>1 DEF Linked
    <3> QED BY <3>1, <2>1, <2>2, <2>4 DEF WheelInv, WithoutEntry
  <2>9. CursorInv'
    <3>1. n # Null => /\ n \in pending' /\ Bucket(c_time'[n]) = Bucket(curticks')
                      /\ (softticks' - curticks') % TickMod < WheelSize
      BY <1>1, <2>3 DEF PlaceWithout, CalloutInv, CursorInv
    <3> QED BY <1>1, <2>1, <2>3, <2>5, <3>1 DEF CalloutInv, CursorInv
  <2>10. LagInv'
    BY <1>1 DEF CalloutInv, LagInv
  <2>11. DueInv'
    <3>1. ASSUME NEW y \in pending \ {x} PROVE OnTime(y)'
      BY <1>1, <1>2, <2>1, <2>2, <2>3, <2>5, OthersOnTime
    <3> QED BY <3>1, <1>1 DEF DueInv
  <2> QED BY <1>4, <2>7, <2>8, <2>9, <2>10, <2>11 DEF CalloutInv
<1> QED BY <1>5, <1>6 DEF callout_stop

(* The calls of the clients keep the invariant.                            *)
LEMMA ClientCallKeepsInv ==
    ASSUME CalloutInv, ClientCall
    PROVE  CalloutInv'
<1>1. ASSUME NEW x \in Callouts, NEW to_ticks \in 0..MaxTimeout, NEW ftn \in Ftns,
             Reset(x, to_ticks, ftn)
      PROVE  CalloutInv'
  <2>1. x \in All /\ x \notin Slots
    BY ConstantFacts DEF All
  <2>2. /\ callfree' \in Seq(Slots) /\ IsInjective(callfree')
        /\ ToSet(callfree') = Slots \ (pending \cup {x})
    BY <1>1, <2>1 DEF Reset, CalloutInv, TypeOK, WheelInv
  <2> QED BY <1>1, <2>1, <2>2, ResetStep DEF Reset
<1>2. ASSUME NEW x \in Callouts, Stop(x) PROVE CalloutInv'
  BY <1>2, StopStep DEF Stop, All
<1>3. ASSUME NEW to_ticks \in 0..MaxTimeout, NEW ftn \in Ftns, Timeout(to_ticks, ftn)
      PROVE  CalloutInv'
  <2>1. callfree # <<>> /\ callfree \in Seq(Slots) /\ IsInjective(callfree)
        /\ ToSet(callfree) = Slots \ pending
    BY <1>3 DEF Timeout, CalloutInv, TypeOK, WheelInv
  <2>2. /\ Head(callfree) \in Slots
        /\ Tail(callfree) \in Seq(Slots)
        /\ ToSet(Tail(callfree)) = ToSet(callfree) \ {Head(callfree)}
        /\ IsInjective(Tail(callfree))
    BY <2>1, TailProperties
  <2>3. /\ callfree' \in Seq(Slots) /\ IsInjective(callfree')
        /\ ToSet(callfree') = Slots \ (pending \cup {Head(callfree)})
    BY <1>3, <2>1, <2>2 DEF Timeout
  <2> QED BY <1>3, <2>2, <2>3, ResetStep DEF Timeout, All
<1>4. ASSUME NEW x \in Slots, NEW ftn \in Ftns, Untimeout(x, ftn) PROVE CalloutInv'
  BY <1>4, StopStep DEF Untimeout, All
<1> QED BY <1>1, <1>2, <1>3, <1>4 DEF ClientCall

-----------------------------------------------------------------------------
(* The clock interrupt. *)

(* hardclock() brings the next timeouts due.  It may advance softticks in  *)
(* softclock's place when the bucket of the new tick is empty: then        *)
(* nothing is missed there, and softclock is at no entry of that bucket.   *)
LEMMA HardclockKeepsInv ==
    ASSUME CalloutInv, Hardclock
    PROVE  CalloutInv'
<1> DEFINE b == Bucket(Succ(ticks))
           q == callwheel[b]
<1>1. /\ pc # "scan" /\ (ticks - softticks) % TickMod < MaxLag
      /\ ticks' = Succ(ticks)
      /\ left' = [x \in All |-> IF left[x] > 0 THEN left[x] - 1 ELSE 0]
      /\ UNCHANGED <<callwheel, callfree, pending, active, c_time, c_func, nextsoftcheck,
                     it_need, ih_need, wanted, pc, curticks, c, steps, cur>>
      /\ hpc' \in {"idle", "swi"}
      /\ \/ UNCHANGED softticks
         \/ q = <<>> /\ CatchUp /\ softticks' = Succ(ticks)
  BY DEF Hardclock, CalloutLockFree, wheelVars, swiVars, softVars
<1>2. /\ ticks \in Tick /\ softticks \in Tick /\ curticks \in Tick
      /\ ticks' \in Tick /\ softticks' \in Tick
  BY <1>1, TickArithmetic DEF CalloutInv, TypeOK
<1>3. /\ left \in [All -> 0..MaxTimeout] /\ pending \subseteq All
      /\ c_time \in [All -> Tick]
  BY DEF CalloutInv, TypeOK
<1> DEFINE lag == (ticks - softticks) % TickMod
<1>13. lag \in 0..MaxLag - 1 /\ (ticks' - softticks) % TickMod = lag + 1
  <2>1. lag \in 0..TickMod - 1
    BY <1>2, TickSteps
  <2>2. (Succ(ticks) - softticks) % TickMod = IF lag = TickMod - 1 THEN 0 ELSE lag + 1
    BY <1>2, TickSteps
  <2>3. lag < MaxLag
    BY <1>1
  <2> HIDE DEF lag
  <2> QED BY <2>1, <2>2, <2>3, <1>1, ConstantFacts
<1>14. lag = (ticks - softticks) % TickMod
  OBVIOUS
<1> HIDE DEF lag
<1>4. /\ left' \in [All -> 0..MaxTimeout]
      /\ \A x \in All : left'[x] = IF left[x] > 0 THEN left[x] - 1 ELSE 0
  BY <1>1, <1>3, ConstantFacts
<1>5. b \in 0..(WheelSize - 1)
  BY <1>2, <1>1, BucketType
<1>6. ASSUME softticks' # softticks
      PROVE  /\ softticks = ticks /\ softticks' = Succ(ticks)
             /\ \A x \in pending : Bucket(c_time[x]) # b
  <2>1. q = <<>> /\ CatchUp /\ softticks' = Succ(ticks)
    BY <1>1, <1>6
  <2>2. softticks = ticks
    BY <2>1, <1>2, TickSteps DEF CatchUp
  <2>3. Linked(b) = {}
    BY <2>1, <1>5, SmallQueues DEF CalloutInv, WheelInv
  <2> QED BY <2>1, <2>2, <2>3 DEF Linked
<1> HIDE DEF b, q
<1>7. TypeOK'
  BY <1>1, <1>2, <1>4 DEF CalloutInv, TypeOK
<1>8. WheelInv'
  BY <1>1 DEF CalloutInv, WheelInv, Linked
<1>9. LagInv'
  <2>1. (ticks' - softticks') % TickMod <= MaxLag
    <3>1. CASE softticks' = softticks
      BY <3>1, <1>1, <1>2, TickSteps, ConstantFacts
    <3>2. CASE softticks' # softticks
      BY <3>2, <1>1, <1>2, <1>6, TickSteps, ConstantFacts
    <3> QED BY <3>1, <3>2
  <2> QED BY <2>1 DEF LagInv
<1>10. CursorInv'
  <2>1. Cursor' = Cursor
    BY <1>1 DEF Cursor
  <2>2. ASSUME Cursor # Null PROVE (softticks' - curticks) % TickMod < WheelSize
    <3>1. /\ Cursor \in pending /\ Bucket(c_time[Cursor]) = Bucket(curticks)
          /\ (softticks - curticks) % TickMod < WheelSize
      BY <2>2 DEF CalloutInv, CursorInv
    <3>2. CASE softticks' = softticks
      BY <3>1, <3>2
    <3>3. CASE softticks' # softticks
      <4>1. softticks' = Succ(softticks) /\ Bucket(curticks) # Bucket(softticks')
        BY <3>1, <3>3, <1>6 DEF b
      <4>2. (softticks' - curticks) % TickMod # WheelSize
        BY <4>1, <1>2, BucketRound
      <4> QED BY <4>1, <4>2, <3>1, <1>2, TickSteps, ConstantFacts
    <3> QED BY <3>2, <3>3
  <2> QED BY <2>1, <2>2, <1>1 DEF CalloutInv, CursorInv
<1>11. DueInv'
  <2> SUFFICES ASSUME NEW x \in pending PROVE OnTime(x)'
    BY <1>1 DEF DueInv
  <2>1. /\ OnTime(x) /\ x \in All /\ c_time[x] \in Tick /\ left[x] \in 0..MaxTimeout
        /\ left'[x] = IF left[x] > 0 THEN left[x] - 1 ELSE 0
        /\ c_time'[x] = c_time[x]
    BY <1>1, <1>3, <1>4 DEF CalloutInv, DueInv
  <2>2. CASE left[x] > 1
    <3>1. c_time[x] = (ticks + left[x]) % TickMod
      BY <2>1, <2>2 DEF OnTime
    <3>2. c_time[x] = (ticks' + left'[x]) % TickMod
      <4>1. left[x] \in 1..TickMod - 1 /\ left'[x] = left[x] - 1
        BY <2>1, <2>2, ConstantFacts
      <4>2. (ticks + left[x]) % TickMod = (Succ(ticks) + (left[x] - 1)) % TickMod
        BY <4>1, <1>2, TickSteps
      <4> QED BY <3>1, <4>1, <4>2, <1>1
    <3>3. left'[x] > 0
      BY <2>1, <2>2
    <3> QED BY <2>1, <3>2, <3>3 DEF OnTime
  <2>3. CASE left[x] = 1
    <3>1. c_time[x] = (ticks + 1) % TickMod
      BY <2>1, <2>3 DEF OnTime
    <3>2. c_time[x] = Succ(ticks) /\ left'[x] = 0
      BY <3>1, <2>1, <2>3 DEF Succ
    <3>3. softticks' = softticks
      BY <3>2, <1>6 DEF b
    <3>4. (c_time[x] - softticks - 1) % TickMod < (ticks' - softticks) % TickMod
      <4>1. (ticks' - softticks - 1) % TickMod
              = IF ticks' = softticks THEN TickMod - 1 ELSE ((ticks' - softticks) % TickMod) - 1
        BY <1>2, TickSteps
      <4>2. ticks' # softticks
        <5>1. (softticks - softticks) % TickMod = 0
          BY <1>2, TickSteps
        <5> QED BY <5>1, <1>13
      <4> QED BY <4>1, <4>2, <3>2, <1>1, <1>13
    <3> QED BY <2>1, <3>2, <3>3, <3>4 DEF OnTime, Ahead
  <2>4. CASE left[x] = 0
    <3>1. left'[x] = 0
      BY <2>1, <2>4
    <3>2. CASE Ahead(c_time[x])
      <4> DEFINE d == (c_time[x] - softticks - 1) % TickMod
      <4>1. d < lag
        BY <3>2, <1>14 DEF Ahead
      <4>2. d \in 0..TickMod - 1
        <5>1. c_time[x] - softticks - 1 \in Int
          BY <2>1, <1>2, ConstantFacts DEF Tick
        <5> QED BY <5>1, ConstantFacts
      <4>3. softticks' = softticks
        <5>1. softticks = ticks => lag = 0
          BY <1>2, <1>14, TickSteps
        <5> HIDE DEF d
        <5> QED BY <4>1, <4>2, <5>1, <1>6, ConstantFacts
      <4>5. d < (ticks' - softticks) % TickMod
        <5> HIDE DEF d
        <5> QED BY <4>1, <4>2, <1>13, ConstantFacts
      <4> QED BY <2>1, <3>1, <4>3, <4>5 DEF OnTime, Ahead
    <3>3. CASE Due(x) /\ NoLater(callwheel[Bucket(curticks)], Cursor, x)
      BY <3>1, <3>3, <2>1, <1>1 DEF OnTime, Due, Cursor
    <3> QED BY <2>1, <2>4, <3>2, <3>3 DEF OnTime
  <2> QED BY <2>1, <2>2, <2>3, <2>4
<1>12. WantedInv'
  BY <1>1, <1>4 DEF CalloutInv, WantedInv
<1> QED BY <1>7, <1>8, <1>9, <1>10, <1>11, <1>12 DEF CalloutInv

(* Scheduling the clock thread only moves flags.                           *)
LEMMA SwiSchedKeepsInv ==
    ASSUME CalloutInv, SwiSched
    PROVE  CalloutInv'
<1>1. /\ UNCHANGED <<ticks, softticks, callwheel, callfree, pending, active, c_time, c_func,
                     nextsoftcheck, curticks, c, steps, cur, left, wanted>>
      /\ hpc' \in {"idle", "swi", "schedule", "wake"}
      /\ pc' = pc \/ (pc = "iwait" /\ pc' = "loop")
  BY DEF SwiSched, wheelVars
<1>4. it_need' \in BOOLEAN /\ ih_need' \in BOOLEAN
  <2>1. it_need \in BOOLEAN /\ ih_need \in BOOLEAN
    BY DEF CalloutInv, TypeOK
  <2>2. \/ ih_need' = TRUE /\ it_need' = it_need
        \/ it_need' = TRUE /\ ih_need' = ih_need
        \/ it_need' = it_need /\ ih_need' = ih_need
    BY Zenon DEF SwiSched, swiVars
  <2> QED BY <2>1, <2>2, Zenon
<1>2. TypeOK' /\ WantedInv'
  BY <1>1, <1>4 DEF CalloutInv, TypeOK, WantedInv, PcValues
<1>3. Cursor' = Cursor /\ (pc' # "scan" => c' = Null) /\ (pc' \notin InBucket => nextsoftcheck' = Null)
  BY <1>1 DEF Cursor, CalloutInv, CursorInv, InBucket
<1> QED BY <1>1, <1>2, <1>3, QuietStep

-----------------------------------------------------------------------------
(* The clock thread. *)

(* The thread's loop, on its way into softclock, and the waits for Giant   *)
(* and for callout_lock.                                                   *)
LEMMA ThreadKeepsInv ==
    ASSUME CalloutInv, IthreadLoop \/ Enter \/ TakeGiant \/ Relock
    PROVE  CalloutInv'
<1>1. /\ UNCHANGED <<ticks, softticks, callwheel, callfree, pending, active, c_time, c_func,
                     nextsoftcheck, curticks, cur, hpc, left, wanted>>
      /\ it_need' \in BOOLEAN /\ ih_need' \in BOOLEAN /\ steps' \in {0, steps}
  BY DEF IthreadLoop, Suspend, Enter, TakeGiant, Relock, CalloutInv, TypeOK, wheelVars, swiVars
<1>2. \/ pc \notin InBucket /\ pc' \in PcValues \ InBucket /\ c' = c
      \/ pc = "softclock" /\ pc' = "scan" /\ c' = Null
      \/ pc = "giant" /\ pc' = "run" /\ c' = c
      \/ pc = "unlocked" /\ pc' = "scan" /\ c' = nextsoftcheck
  BY DEF IthreadLoop, Suspend, Goto, Enter, TakeGiant, Relock, InBucket, PcValues
<1>3. pc' \in PcValues /\ c' \in All \cup {Null} /\ steps' \in 0..(MaxSteps - 1)
  BY <1>1, <1>2, ConstantFacts DEF CalloutInv, TypeOK, PcValues, InBucket
<1>4. TypeOK' /\ WantedInv'
  BY <1>1, <1>3 DEF CalloutInv, TypeOK, WantedInv
<1>5. Cursor' = Cursor /\ (pc' # "scan" => c' = Null) /\ (pc' \notin InBucket => nextsoftcheck' = Null)
  BY <1>1, <1>2 DEF Cursor, CalloutInv, CursorInv, InBucket, PcValues
<1> QED BY <1>1, <1>4, <1>5, QuietStep

(* At the end of a bucket nothing of its tick is left, and the first entry *)
(* of the next bucket stands before all of it.                             *)
LEMMA NextTickKeepsInv ==
    ASSUME CalloutInv, NextTick
    PROVE  CalloutInv'
<1> DEFINE b == Bucket(softticks')
           q == callwheel[b]
<1>1. /\ pc = "scan" /\ c = Null /\ softticks # ticks
      /\ softticks' = Succ(softticks) /\ curticks' = softticks' /\ c' = First(q)
      /\ UNCHANGED <<ticks, callwheel, callfree, pending, active, c_time, c_func, nextsoftcheck,
                     it_need, ih_need, pc, steps, cur, hpc, left, wanted>>
  BY DEF NextTick, wheelVars, swiVars
<1>2. /\ ticks \in Tick /\ softticks \in Tick /\ softticks' \in Tick /\ pending \subseteq All
      /\ c_time \in [All -> Tick]
  BY <1>1, TickArithmetic DEF CalloutInv, TypeOK
<1>3. b \in 0..(WheelSize - 1) /\ q \in Seq(All)
  BY <1>1, <1>2, BucketType DEF CalloutInv, TypeOK
<1>4. IsInjective(q) /\ ToSet(q) = Linked(b)
  BY <1>3 DEF CalloutInv, WheelInv
<1>5. Cursor' = First(q)
  BY <1>1 DEF Cursor
<1> HIDE DEF q, b
<1>6. First(q) # Null => First(q) \in Linked(b)
  <2>1. q # <<>> => Head(q) \in ToSet(q)
    BY <1>3, HeadInQueue
  <2> QED BY <2>1, <1>4 DEF First
<1>7. TypeOK'
  BY <1>1, <1>2, <1>6 DEF CalloutInv, TypeOK, Linked
<1>8. WheelInv' /\ WantedInv'
  BY <1>1 DEF CalloutInv, WheelInv, WantedInv, Linked
<1>9. CursorInv'
  <2>1. (softticks' - curticks') % TickMod < WheelSize
    BY <1>1, <1>2, TickSteps, ConstantFacts
  <2>2. First(q) # Null => First(q) \in pending' /\ Bucket(c_time'[First(q)]) = Bucket(curticks')
    BY <1>1, <1>6 DEF Linked, b
  <2> QED BY <1>1, <1>5, <2>1, <2>2 DEF CalloutInv, CursorInv, InBucket
<1>10. (ticks - softticks') % TickMod = ((ticks - softticks) % TickMod) - 1
  BY <1>1, <1>2, TickSteps, ConstantFacts
<1>11. LagInv'
  <2>1. (ticks - softticks) % TickMod \in Int
    BY <1>2, TickSteps, ConstantFacts
  <2> QED BY <2>1, <1>1, <1>10, ConstantFacts DEF CalloutInv, LagInv
<1>12. DueInv'
  <2> SUFFICES ASSUME NEW x \in pending PROVE OnTime(x)'
    BY <1>1 DEF DueInv
  <2>1. OnTime(x) /\ x \in All /\ c_time[x] \in Tick /\ c_time'[x] = c_time[x] /\ left'[x] = left[x]
    BY <1>1, <1>2 DEF CalloutInv, DueInv
  <2>2. CASE left[x] > 0 /\ c_time[x] = (ticks + left[x]) % TickMod
    BY <2>1, <2>2, <1>1 DEF OnTime
  <2>3. CASE left[x] = 0 /\ Ahead(c_time[x])
    <3>1. (c_time[x] - softticks - 1) % TickMod < (ticks - softticks) % TickMod
      BY <2>3 DEF Ahead
    <3>2. CASE c_time[x] = softticks'
      <4>1. x \in ToSet(q)
        BY <3>2, <1>4 DEF Linked, b
      <4>2. Len(q) \in Nat /\ DOMAIN q = 1..Len(q)
        BY <1>3, LenProperties
      <4>3. PICK j \in 1..Len(q) : q[j] = x
        BY <4>1, <4>2 DEF ToSet
      <4>4. 1 \in DOMAIN q /\ First(q) = q[1]
        BY <4>2, <4>3 DEF First
      <4>5. NoLater(q, First(q), x)
        BY <4>2, <4>3, <4>4 DEF NoLater
      <4>6. callwheel'[Bucket(curticks')] = q
        BY <1>1 DEF q, b
      <4> QED BY <4>5, <4>6, <3>2, <2>1, <2>3, <1>1, <1>5 DEF OnTime, Due
    <3>3. CASE c_time[x] # softticks'
      <4>1. (c_time[x] - softticks' - 1) % TickMod = ((c_time[x] - softticks - 1) % TickMod) - 1
        BY <3>1, <3>3, <2>1, <1>1, <1>2, TickSteps, ConstantFacts
      <4>2. (c_time[x] - softticks - 1) % TickMod \in Int /\ (ticks - softticks) % TickMod \in Int
        <5>1. c_time[x] - softticks - 1 \in Int /\ ticks - softticks \in Int
          BY <2>1, <1>2, ConstantFacts DEF Tick
        <5> QED BY <5>1, ConstantFacts
      <4>3. (c_time[x] - softticks' - 1) % TickMod < (ticks - softticks') % TickMod
        BY <3>1, <4>1, <4>2, <1>10
      <4> QED BY <4>3, <2>1, <2>3, <1>1 DEF OnTime, Ahead
    <3> QED BY <3>2, <3>3
  <2>4. ~ NoLater(callwheel[Bucket(curticks)], Cursor, x)
    <3>1. Cursor = Null /\ Bucket(curticks) \in 0..(WheelSize - 1)
      BY <1>1, BucketType DEF Cursor, CalloutInv, TypeOK
    <3> QED BY <3>1, NullBeforeNobody DEF CalloutInv
  <2> QED BY <2>1, <2>2, <2>3, <2>4 DEF OnTime
<1> QED BY <1>7, <1>8, <1>9, <1>11, <1>12 DEF CalloutInv

(* softclock leaves when it has taken up every tick: no timeout is due.    *)
LEMMA LeaveKeepsInv ==
    ASSUME CalloutInv, Leave
    PROVE  CalloutInv'
<1>1. /\ pc = "scan" /\ c = Null /\ softticks = ticks
      /\ pc' = "loop" /\ nextsoftcheck' = Null /\ curticks' = 0
      /\ UNCHANGED <<ticks, softticks, callwheel, callfree, pending, active, c_time, c_func,
                     it_need, ih_need, c, steps, cur, hpc, left, wanted>>
  BY DEF Leave, Goto, wheelVars, swiVars
<1>2. Cursor = Null /\ Cursor' = Null
  BY <1>1 DEF Cursor
<1>3. TypeOK'
  BY <1>1, ConstantFacts DEF CalloutInv, TypeOK, PcValues, Tick
<1>4. WheelInv' /\ LagInv' /\ WantedInv'
  BY <1>1 DEF CalloutInv, WheelInv, LagInv, WantedInv, Linked
<1>5. CursorInv'
  BY <1>1, <1>2 DEF CursorInv
<1>6. DueInv'
  <2> SUFFICES ASSUME NEW x \in pending PROVE OnTime(x)'
    BY <1>1 DEF DueInv
  <2>1. OnTime(x) /\ x \in All /\ c_time[x] \in Tick /\ c_time'[x] = c_time[x] /\ left'[x] = left[x]
    BY <1>1 DEF CalloutInv, DueInv, TypeOK
  <2>2. ~ Ahead(c_time[x])
    <3>1. (ticks - softticks) % TickMod = 0
      BY <1>1, TickSteps DEF CalloutInv, TypeOK
    <3>2. c_time[x] - softticks - 1 \in Int
      <4>1. softticks \in Tick
        BY DEF CalloutInv, TypeOK
      <4> QED BY <2>1, <4>1, ConstantFacts DEF Tick
    <3>3. (c_time[x] - softticks - 1) % TickMod \in 0..TickMod - 1
      BY <3>2, ConstantFacts
    <3> QED BY <3>1, <3>3, ConstantFacts DEF Ahead
  <2>3. ~ NoLater(callwheel[Bucket(curticks)], Cursor, x)
    <3>1. Bucket(curticks) \in 0..(WheelSize - 1)
      BY BucketType DEF CalloutInv, TypeOK
    <3> QED BY <3>1, <1>2, NullBeforeNobody DEF CalloutInv
  <2> QED BY <2>1, <2>2, <2>3, <1>1 DEF OnTime
<1> QED BY <1>3, <1>4, <1>5, <1>6 DEF CalloutInv

(* An entry that is passed over is not due, so that it leaves nothing      *)
(* behind.                                                                 *)
LEMMA SkipKeepsInv ==
    ASSUME CalloutInv, Skip
    PROVE  CalloutInv'
<1> DEFINE n == TAILQ_NEXT(c)
<1>1. /\ pc = "scan" /\ c # Null /\ ~Due(c)
      /\ UNCHANGED <<ticks, softticks, callwheel, callfree, pending, active, c_time, c_func,
                     it_need, ih_need, curticks, cur, hpc, left, wanted>>
      /\ \/ /\ steps + 1 < MaxSteps /\ c' = n /\ steps' = steps + 1
            /\ pc' = pc /\ nextsoftcheck' = nextsoftcheck
         \/ /\ nextsoftcheck' = n /\ pc' = "unlocked" /\ c' = Null /\ steps' = 0
  BY DEF Skip, Goto, wheelVars, swiVars
<1>2. Cursor = c
  BY <1>1 DEF Cursor
<1>3. PlaceWithout(n, c)
  BY <1>1, <1>2, PlaceAfter
<1> HIDE DEF n
<1>4. Cursor' = n
  BY <1>1 DEF Cursor
<1>5. pending \subseteq All /\ n \in All \cup {Null} /\ steps' \in 0..(MaxSteps - 1)
  BY <1>1, <1>3, ConstantFacts DEF CalloutInv, TypeOK, PlaceWithout
<1>6. TypeOK'
  BY <1>1, <1>5 DEF CalloutInv, TypeOK, PcValues
<1>7. WheelInv' /\ LagInv' /\ WantedInv'
  BY <1>1 DEF CalloutInv, WheelInv, LagInv, WantedInv, Linked
<1>8. CursorInv'
  <2>1. (softticks' - curticks') % TickMod < WheelSize
    BY <1>1, <1>2 DEF CalloutInv, CursorInv
  <2>2. n # Null => n \in pending' /\ Bucket(c_time'[n]) = Bucket(curticks')
    BY <1>1, <1>3 DEF PlaceWithout
  <2> QED BY <1>1, <1>4, <2>1, <2>2 DEF CursorInv, InBucket
<1>9. DueInv'
  <2> SUFFICES ASSUME NEW x \in pending PROVE OnTime(x)'
    BY <1>1 DEF DueInv
  <2>1. OnTime(x)
    BY DEF CalloutInv, DueInv
  <2>2. Due(x) /\ NoLater(callwheel[Bucket(curticks)], Cursor, x) =>
          NoLater(callwheel[Bucket(curticks)], n, x)
    BY <1>1, <1>3 DEF PlaceWithout
  <2>3. callwheel'[Bucket(curticks')] = callwheel[Bucket(curticks)]
    BY <1>1
  <2> QED BY <2>1, <2>2, <2>3, <1>1, <1>4 DEF OnTime, Ahead, Due
<1> QED BY <1>6, <1>7, <1>8, <1>9 DEF CalloutInv

(* An entry whose function is called is due, and has counted down.         *)
LEMMA FireKeepsInv ==
    ASSUME CalloutInv, Fire
    PROVE  CalloutInv' /\ left[c] = 0
<1> DEFINE n == TAILQ_NEXT(c)
           w == Unlinked(c)
           B == 0..(WheelSize - 1)
<1>1. /\ pc = "scan" /\ c # Null /\ Due(c)
      /\ nextsoftcheck' = n /\ callwheel' = w /\ pending' = pending \ {c}
      /\ c_func' = [c_func EXCEPT ![c] = Null]
      /\ cur' = c /\ pc' \in {"run", "giant"} /\ c' = Null /\ steps' = 0
      /\ UNCHANGED <<ticks, softticks, c_time, it_need, ih_need, curticks, hpc, left, wanted>>
      /\ \/ c \in Slots /\ active' = active \ {c} /\ callfree' = <<c>> \o callfree
         \/ c \notin Slots /\ active' = active /\ callfree' = callfree
  BY DEF Fire, Goto, swiVars
<1>2. Cursor = c
  BY <1>1 DEF Cursor
<1>3. left[c] = 0
  BY <1>1, <1>2, DueMeansNow
<1>4. c \in pending /\ c \in All /\ pending \subseteq All
  BY <1>1, <1>2 DEF CalloutInv, CursorInv, TypeOK
<1>5. PlaceWithout(n, c)
  BY <1>1, <1>2, PlaceAfter
<1>6. WithoutEntry(w, c)
  BY <1>4, UnlinkedIs DEF CalloutInv
<1> HIDE DEF n, w
<1>7. Cursor' = n
  BY <1>1 DEF Cursor
<1>8. n \in All \cup {Null}
  BY <1>4, <1>5 DEF PlaceWithout
<1>9. callfree' \in Seq(Slots) /\ IsInjective(callfree') /\ ToSet(callfree') = Slots \ pending'
  <2>1. callfree \in Seq(Slots) /\ IsInjective(callfree) /\ ToSet(callfree) = Slots \ pending
    BY DEF CalloutInv, TypeOK, WheelInv
  <2>2. CASE c \in Slots
    <3>1. /\ <<c>> \o callfree \in Seq(Slots)
          /\ ToSet(<<c>> \o callfree) = ToSet(callfree) \cup {c}
          /\ c \notin ToSet(callfree) => IsInjective(<<c>> \o callfree)
      BY <2>1, <2>2, PushProperties
    <3> QED BY <3>1, <2>1, <2>2, <1>1, <1>4
  <2>3. CASE c \notin Slots
    BY <2>1, <2>3, <1>1
  <2> QED BY <2>2, <2>3
<1>10. TypeOK'
  <2>1. w \in [B -> Seq(All)]
    BY <1>6 DEF WithoutEntry
  <2>2. steps' \in 0..(MaxSteps - 1) /\ pc' \in PcValues
    BY <1>1, ConstantFacts DEF PcValues
  <2>3. c_func' \in [All -> Ftns \cup {Null}]
    BY <1>1 DEF CalloutInv, TypeOK
  <2>4. active' \in SUBSET All /\ pending' \in SUBSET All
    BY <1>1 DEF CalloutInv, TypeOK
  <2> QED BY <2>1, <2>2, <2>3, <2>4, <1>1, <1>4, <1>8, <1>9 DEF CalloutInv, TypeOK
<1>11. WheelInv'
  <2>1. \A b \in B : Linked(b)' = Linked(b) \ {c}
    BY <1>1 DEF Linked
  <2> QED BY <2>1, <1>1, <1>6, <1>9 DEF WheelInv, WithoutEntry
<1>12. CursorInv'
  <2>1. (softticks' - curticks') % TickMod < WheelSize
    BY <1>1, <1>2 DEF CalloutInv, CursorInv
  <2>2. n # Null => n \in pending' /\ Bucket(c_time'[n]) = Bucket(curticks')
    BY <1>1, <1>5 DEF PlaceWithout
  <2> QED BY <1>1, <1>7, <2>1, <2>2 DEF CursorInv, InBucket
<1>13. LagInv'
  BY <1>1 DEF CalloutInv, LagInv
<1>14. DueInv'
  <2>1. ASSUME NEW y \in pending \ {c} PROVE OnTime(y)'
    BY <1>1, <1>4, <1>5, <1>6, <1>7, OthersOnTime
  <2> QED BY <2>1, <1>1 DEF DueInv
<1>15. WantedInv'
  BY <1>1, <1>3, <1>4, ConstantFacts DEF CalloutInv, WantedInv
<1> QED BY <1>3, <1>10, <1>11, <1>12, <1>13, <1>14, <1>15 DEF CalloutInv

(* The function that runs clears CALLOUT_ACTIVE when it does its work.     *)
LEMMA HandlerKeepsInv ==
    ASSUME CalloutInv, Handler
    PROVE  CalloutInv'
<1>1. /\ pc = "run" /\ pc' = "unlocked" /\ cur' = Null
      /\ UNCHANGED <<ticks, softticks, callwheel, callfree, pending, c_time, c_func, nextsoftcheck,
                     it_need, ih_need, curticks, c, steps, hpc, left>>
      /\ \/ cur \in Callouts /\ active' = active \ {cur} /\ wanted' = wanted \ {cur}
         \/ UNCHANGED <<active, wanted>>
  BY DEF Handler, Goto, swiVars
<1>2. TypeOK' /\ WantedInv'
  BY <1>1 DEF CalloutInv, TypeOK, WantedInv, PcValues
<1>3. Cursor' = Cursor /\ (pc' # "scan" => c' = Null) /\ (pc' \notin InBucket => nextsoftcheck' = Null)
  BY <1>1 DEF Cursor, CalloutInv, CursorInv, InBucket
<1> QED BY <1>1, <1>2, <1>3, QuietStep

-----------------------------------------------------------------------------
(* The theorems. *)

(* Nothing is set, and every entry of the timeout() table is free.         *)
LEMMA InitCalloutInv == Init => CalloutInv
<1> SUFFICES ASSUME Init PROVE CalloutInv
  OBVIOUS
<1>1. /\ callfree \in Seq(Slots) /\ IsInjective(callfree) /\ ToSet(callfree) = Slots
  BY CalloutAssumption, SetToSeqProperties DEF Init
<1>2. TypeOK
  <2>1. 0 \in Tick /\ 0 \in 0..(MaxSteps - 1) /\ 0 \in 0..MaxTimeout
    BY ConstantFacts DEF Tick
  <2>2. callwheel \in [0..(WheelSize - 1) -> Seq(All)]
    <3>1. <<>> \in Seq(All)
      OBVIOUS
    <3> QED BY <3>1 DEF Init
  <2>3. c_time \in [All -> Tick] /\ c_func \in [All -> Ftns \cup {Null}] /\ left \in [All -> 0..MaxTimeout]
    BY <2>1 DEF Init
  <2> QED BY <1>1, <2>1, <2>2, <2>3 DEF Init, TypeOK, PcValues
<1>3. WheelInv
  BY <1>1, SmallQueues DEF Init, WheelInv, Linked
<1>4. CursorInv /\ DueInv /\ WantedInv
  BY DEF Init, CursorInv, Cursor, DueInv, WantedInv
<1>5. LagInv
  BY ConstantFacts, 0 % TickMod = 0 DEF Init, LagInv
<1> QED BY <1>2, <1>3, <1>4, <1>5 DEF CalloutInv

(* Every step of the clients, the clock and the clock thread keeps the     *)
(* invariant.                                                              *)
LEMMA StepCalloutInv == CalloutInv /\ [Next]_vars => CalloutInv'
<1> SUFFICES ASSUME CalloutInv, [Next]_vars PROVE CalloutInv'
  OBVIOUS
<1>1. CASE ClientCall
  BY <1>1, ClientCallKeepsInv
<1>2. CASE Hardclock
  BY <1>2, HardclockKeepsInv
<1>3. CASE SwiSched
  BY <1>3, SwiSchedKeepsInv
<1>4. CASE ClockThread
  BY <1>4, ThreadKeepsInv, NextTickKeepsInv, LeaveKeepsInv, SkipKeepsInv, FireKeepsInv,
     HandlerKeepsInv DEF ClockThread
<1>5. CASE UNCHANGED vars
  BY <1>5 DEF vars, wheelVars, swiVars, softVars, CalloutInv, TypeOK, WheelInv, Linked,
     CursorInv, Cursor, LagInv, DueInv, OnTime, Ahead, Due, WantedInv
<1> QED BY <1>1, <1>2, <1>3, <1>4, <1>5 DEF Next

(* CalloutInv is inductive.                                                *)
THEOREM CalloutInvariance == Spec => []CalloutInv
BY InitCalloutInv, StepCalloutInv, PTL DEF Spec

(* The wheel and the free list stay intact, and softclock's place in the   *)
(* wheel is an entry of its bucket, whatever its clients stop and set      *)
(* while callout_lock is free.                                             *)
THEOREM WheelStaysWellFormed == Spec => []WheelWellFormed
<1>1. CalloutInv => WheelWellFormed
  <2> SUFFICES ASSUME CalloutInv PROVE WheelWellFormed
    OBVIOUS
  <2>1. DOMAIN callwheel = 0..(WheelSize - 1)
    BY DEF CalloutInv, TypeOK
  <2>2. c # Null => c = Cursor
    BY DEF Cursor, CalloutInv, CursorInv
  <2>3. pc \in {"unlocked", "giant", "run"} => Cursor = nextsoftcheck
    BY DEF Cursor
  <2> QED BY <2>1, <2>2, <2>3 DEF CalloutInv, WheelInv, CursorInv, WheelWellFormed, Linked
<1> QED BY <1>1, CalloutInvariance, PTL

(* No timeout is missed: whose time has come is still ahead of softclock.  *)
THEOREM NoTimeoutIsMissed == Spec => []NotMissed
<1>1. CalloutInv => NotMissed
  <2> SUFFICES ASSUME CalloutInv, NEW x \in pending, left[x] = 0, ~ Ahead(c_time[x])
               PROVE  NotPassed(x)
    BY DEF NotMissed
  <2>1. Due(x) /\ NoLater(callwheel[Bucket(curticks)], Cursor, x)
    BY DEF CalloutInv, DueInv, OnTime
  <2>2. Cursor # Null
    <3>1. Bucket(curticks) \in 0..(WheelSize - 1)
      BY BucketType DEF CalloutInv, TypeOK
    <3> QED BY <2>1, <3>1, NullBeforeNobody DEF CalloutInv
  <2>3. pc \in InBucket
    BY <2>2 DEF Cursor, CalloutInv, CursorInv, InBucket
  <2> QED BY <2>1, <2>3 DEF NotPassed, NoLater, Cursor, InBucket
<1> QED BY <1>1, CalloutInvariance, PTL

(* No function is called before as many clock interrupts have come as were *)
(* asked for, although the tick count and the buckets wrap.                *)
THEOREM NoTimeoutIsEarly == Spec => NeverEarly
<1>1. CalloutInv /\ [Next]_vars => [\A x \in All : cur' = x /\ cur # x => left[x] = 0]_vars
  <2> SUFFICES ASSUME CalloutInv, [Next]_vars, NEW x \in All, cur' = x, cur # x
               PROVE  left[x] = 0
    OBVIOUS
  <2>1. Fire
    <3>1. x # Null
      BY ConstantFacts
    <3> QED BY <3>1 DEF Next, ClientCall, Reset, Stop, Timeout, Untimeout, Hardclock, SwiSched,
          ClockThread, IthreadLoop, Enter, NextTick, Leave, Skip, TakeGiant, Handler, Relock,
          vars, softVars
  <2>2. x = c /\ left[c] = 0
    BY <2>1, FireKeepsInv DEF Fire
  <2> QED BY <2>2
<1> QED BY <1>1, CalloutInvariance, PTL DEF Spec, NeverEarly

(* A handler that looks at the flags does its work only for a callout that *)
(* is still wanted and whose latest time has come.                         *)
THEOREM HandlersWorkWhenWanted == Spec => WorkIsWanted
<1>1. CalloutInv => \A x \in Callouts : StillMeant(x) => x \in wanted /\ left[x] = 0
  BY DEF CalloutInv, WantedInv, StillMeant, All
<1>2. CalloutInv =>
        [\A x \in Callouts : pc = "run" /\ pc' # pc /\ cur = x /\ StillMeant(x) =>
           x \in wanted /\ left[x] = 0]_vars
  BY <1>1
<1> QED BY <1>2, CalloutInvariance, PTL DEF WorkIsWanted

=============================================================================
