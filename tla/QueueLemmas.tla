----------------------------- MODULE QueueLemmas -----------------------------
(***************************************************************************)
(* Facts about the sequences that model the kernel's TAILQs: what inserting *)
(* and removing a thread does to the set of threads in the queue.          *)
(***************************************************************************)
EXTENDS Queue, SequencesExt, SequenceTheorems, FiniteSetTheorems, WellFoundedInduction, TLAPS

-----------------------------------------------------------------------------
(* Queues as sequences without duplicates. *)

(* A set of natural numbers has a least element, so that the CHOOSE of     *)
(* InsertByPri and LentPri is meaningful.                                  *)
LEMMA LeastNat ==
    ASSUME NEW S \in SUBSET Nat, S # {}
    PROVE  \E x \in S : \A y \in S : x <= y
<1>1. PICK x \in S : \A y \in S : ~ (<<y, x>> \in OpToRel(<, Nat))
  BY NatLessThanWellFounded, WFMin
<1>2. ASSUME NEW y \in S, y < x PROVE FALSE
  <2>1. <<y, x>> \in Nat \X Nat /\ <<y, x>>[1] < <<y, x>>[2]
    BY <1>2
  <2>2. <<y, x>> \in OpToRel(<, Nat)
    BY <2>1 DEF OpToRel
  <2> QED BY <1>1, <2>2
<1> QED BY <1>2

(* The positions after an insertion. *)
LEMMA InsertAtElements ==
    ASSUME NEW S, NEW q \in Seq(S), NEW e \in S, NEW i \in 1..Len(q) + 1
    PROVE  /\ InsertAt(q, i, e) \in Seq(S) /\ Len(InsertAt(q, i, e)) = Len(q) + 1
           /\ \A k \in 1..Len(q) + 1 :
                InsertAt(q, i, e)[k] = IF k < i THEN q[k] ELSE IF k = i THEN e ELSE q[k - 1]
<1> DEFINE r == InsertAt(q, i, e)
           a == SubSeq(q, 1, i - 1)
           b == SubSeq(q, i, Len(q))
<1>0. Len(q) \in Nat /\ DOMAIN q = 1..Len(q) /\ \A k \in 1..Len(q) : q[k] \in S
  BY LenProperties
<1>1. a \in Seq(S) /\ Len(a) = i - 1 /\ \A k \in 1..i - 1 : a[k] = q[k]
  BY SubSeqProperties
<1>2. b \in Seq(S) /\ Len(b) = Len(q) - i + 1 /\ \A k \in 1..Len(q) - i + 1 : b[k] = q[i + k - 1]
  BY SubSeqProperties
<1>3. <<e>> \in Seq(S) /\ Len(<<e>>) = 1 /\ <<e>>[1] = e
  OBVIOUS
<1> HIDE DEF a, b
<1>4. /\ a \o <<e>> \in Seq(S) /\ Len(a \o <<e>>) = i
      /\ \A k \in 1..i : (a \o <<e>>)[k] = IF k < i THEN q[k] ELSE e
  BY <1>1, <1>3, ConcatProperties
<1>5. /\ (a \o <<e>>) \o b \in Seq(S) /\ Len((a \o <<e>>) \o b) = Len(q) + 1
      /\ \A k \in 1..Len(q) + 1 :
            ((a \o <<e>>) \o b)[k] = IF k <= i THEN (a \o <<e>>)[k] ELSE b[k - i]
  <2> DEFINE ae == a \o <<e>>
  <2>1. ae \in Seq(S) /\ Len(ae) = i
    BY <1>4
  <2> HIDE DEF ae
  <2>2. /\ ae \o b \in Seq(S) /\ Len(ae \o b) = Len(ae) + Len(b)
        /\ \A k \in 1..Len(ae) + Len(b) :
              (ae \o b)[k] = IF k <= Len(ae) THEN ae[k] ELSE b[k - Len(ae)]
    BY <1>2, <2>1, ConcatProperties
  <2>3. Len(ae) + Len(b) = Len(q) + 1
    BY <1>0, <1>2, <2>1
  <2>4. /\ ae \o b \in Seq(S) /\ Len(ae \o b) = Len(q) + 1
        /\ \A k \in 1..Len(q) + 1 : (ae \o b)[k] = IF k <= i THEN ae[k] ELSE b[k - i]
    BY <2>1, <2>2, <2>3
  <2> QED BY <2>4 DEF ae
<1>6. r = (a \o <<e>>) \o b
  BY DEF InsertAt, a, b
<1>7. /\ r \in Seq(S) /\ Len(r) = Len(q) + 1
      /\ \A k \in 1..Len(q) + 1 :
            r[k] = IF k < i THEN q[k] ELSE IF k = i THEN e ELSE q[k - 1]
  <2>1. \A k \in 1..Len(q) + 1 : k > i => b[k - i] = q[k - 1]
    BY <1>2
  <2> QED BY <1>4, <1>5, <1>6, <2>1, SMTT(60)
<1> QED BY <1>7 DEF r

(* The least element that SelectInSeq asks for. *)
LEMMA MinIsLeast ==
    ASSUME NEW S \in SUBSET Nat, S # {}
    PROVE  Min(S) \in S /\ \A y \in S : Min(S) <= y
BY LeastNat DEF Min

(* Inserting an element into a queue adds it and nothing else. *)
LEMMA InsertAtProperties ==
    ASSUME NEW S, NEW q \in Seq(S), NEW e \in S, NEW i \in 1..Len(q) + 1
    PROVE  /\ InsertAt(q, i, e) \in Seq(S)
           /\ InsertAt(q, i, e) # <<>>
           /\ ToSet(InsertAt(q, i, e)) = ToSet(q) \cup {e}
           /\ IsInjective(q) /\ e \notin ToSet(q) => IsInjective(InsertAt(q, i, e))
<1> DEFINE r == InsertAt(q, i, e)
<1>0. Len(q) \in Nat /\ DOMAIN q = 1..Len(q) /\ \A k \in 1..Len(q) : q[k] \in S
  BY LenProperties
<1>1. /\ r \in Seq(S) /\ Len(r) = Len(q) + 1
      /\ \A k \in 1..Len(q) + 1 :
            r[k] = IF k < i THEN q[k] ELSE IF k = i THEN e ELSE q[k - 1]
  BY InsertAtElements
<1> HIDE DEF r
<1>2. DOMAIN r = 1..Len(q) + 1 /\ DOMAIN q = 1..Len(q)
  BY <1>1, LenProperties
<1>3. ToSet(r) = ToSet(q) \cup {e}
  <2>1. ASSUME NEW k \in DOMAIN r PROVE r[k] \in ToSet(q) \cup {e}
    <3>1. CASE k < i BY <3>1, <1>0, <1>1, <1>2 DEF ToSet
    <3>2. CASE k = i BY <3>2, <1>0, <1>1, <1>2 DEF ToSet
    <3>3. CASE k > i
      <4>1. k - 1 \in DOMAIN q /\ r[k] = q[k - 1]
        BY <3>3, <1>0, <1>1, <1>2
      <4> QED BY <4>1 DEF ToSet
    <3> QED BY <3>1, <3>2, <3>3, <1>0, <1>2
  <2>2. ASSUME NEW k \in DOMAIN q PROVE q[k] \in ToSet(r)
    <3>1. CASE k < i BY <3>1, <1>1, <1>2 DEF ToSet
    <3>2. CASE k >= i
      <4>1. k + 1 \in DOMAIN r /\ r[k + 1] = q[k]
        BY <3>2, <1>1, <1>2
      <4> QED BY <4>1 DEF ToSet
    <3> QED BY <3>1, <3>2, <1>2
  <2>3. e \in ToSet(r)
    BY <1>1, <1>2 DEF ToSet
  <2> QED BY <2>1, <2>2, <2>3 DEF ToSet
<1>4. ASSUME IsInjective(q), e \notin ToSet(q) PROVE IsInjective(r)
  <2> SUFFICES ASSUME NEW k \in 1..Len(q) + 1, NEW l \in 1..Len(q) + 1, r[k] = r[l]
               PROVE  k = l
    BY <1>2 DEF IsInjective
  <2>1. \A n \in 1..Len(q) : q[n] # e
    BY <1>4, <1>2 DEF ToSet
  <2>2. \A m, n \in 1..Len(q) : q[m] = q[n] => m = n
    BY <1>4, <1>2 DEF IsInjective
  <2> QED BY <1>1, <2>1, <2>2, SMTT(60)
<1> QED BY <1>1, <1>3, <1>4, <1>2 DEF r

(* Removing an element of a queue removes nothing else. *)
LEMMA RemoveAtProperties ==
    ASSUME NEW S, NEW q \in Seq(S), NEW i \in 1..Len(q), IsInjective(q)
    PROVE  /\ RemoveAt(q, i) \in Seq(S)
           /\ ToSet(RemoveAt(q, i)) = ToSet(q) \ {q[i]}
           /\ IsInjective(RemoveAt(q, i))
<1> DEFINE r == RemoveAt(q, i)
           a == SubSeq(q, 1, i - 1)
           b == SubSeq(q, i + 1, Len(q))
<1>0. Len(q) \in Nat /\ DOMAIN q = 1..Len(q) /\ \A k \in 1..Len(q) : q[k] \in S
  BY LenProperties
<1>1. a \in Seq(S) /\ Len(a) = i - 1 /\ \A k \in 1..i - 1 : a[k] = q[k]
  BY SubSeqProperties
<1>2. b \in Seq(S) /\ Len(b) = Len(q) - i /\ \A k \in 1..Len(q) - i : b[k] = q[i + k]
  BY SubSeqProperties
<1> HIDE DEF a, b
<1>3. /\ a \o b \in Seq(S) /\ Len(a \o b) = Len(q) - 1
      /\ \A k \in 1..Len(q) - 1 : (a \o b)[k] = IF k <= i - 1 THEN a[k] ELSE b[k - (i - 1)]
  <2>1. /\ a \o b \in Seq(S) /\ Len(a \o b) = Len(a) + Len(b)
        /\ \A k \in 1..Len(a) + Len(b) :
              (a \o b)[k] = IF k <= Len(a) THEN a[k] ELSE b[k - Len(a)]
    BY <1>1, <1>2, ConcatProperties
  <2>2. Len(a) + Len(b) = Len(q) - 1
    BY <1>0, <1>1, <1>2
  <2> QED BY <1>1, <2>1, <2>2
<1>4. r = a \o b
  BY DEF RemoveAt, a, b
<1>5. /\ r \in Seq(S) /\ Len(r) = Len(q) - 1
      /\ \A k \in 1..Len(q) - 1 : r[k] = IF k < i THEN q[k] ELSE q[k + 1]
  <2>1. \A k \in 1..Len(q) - 1 : k >= i => b[k - (i - 1)] = q[k + 1]
    BY <1>0, <1>2
  <2>2. ASSUME NEW k \in 1..Len(q) - 1
        PROVE  (a \o b)[k] = IF k < i THEN q[k] ELSE q[k + 1]
    <3>1. CASE k < i
      BY <3>1, <1>0, <1>1, <1>3
    <3>2. CASE k >= i
      BY <3>2, <1>0, <1>3, <2>1
    <3>3. k < i \/ k >= i
      BY <1>0
    <3> QED BY <3>1, <3>2, <3>3, Zenon
  <2>3. \A k \in 1..Len(q) - 1 : (a \o b)[k] = IF k < i THEN q[k] ELSE q[k + 1]
    BY <2>2
  <2> HIDE DEF r
  <2> QED BY <1>3, <1>4, <2>3
<1> HIDE DEF r
<1>6. DOMAIN r = 1..Len(q) - 1 /\ DOMAIN q = 1..Len(q)
  BY <1>5, LenProperties
<1>7. \A m, n \in 1..Len(q) : q[m] = q[n] => m = n
  BY <1>6 DEF IsInjective
<1>8. ToSet(r) = ToSet(q) \ {q[i]}
  <2>1. ASSUME NEW k \in DOMAIN r PROVE r[k] \in ToSet(q) \ {q[i]}
    <3>1. \E l \in DOMAIN q : l # i /\ r[k] = q[l]
      BY <1>0, <1>5, <1>6
    <3> QED BY <3>1, <1>0, <1>7 DEF ToSet
  <2>2. ASSUME NEW k \in DOMAIN q, k # i PROVE q[k] \in ToSet(r)
    <3>1. CASE k < i BY <3>1, <1>5, <1>6 DEF ToSet
    <3>2. CASE k > i
      <4>1. k - 1 \in DOMAIN r /\ r[k - 1] = q[k]
        BY <3>2, <1>5, <1>6
      <4> QED BY <4>1 DEF ToSet
    <3> QED BY <2>2, <3>1, <3>2, <1>6
  <2> QED BY <2>1, <2>2 DEF ToSet
<1>9. IsInjective(r)
  <2> SUFFICES ASSUME NEW k \in 1..Len(q) - 1, NEW l \in 1..Len(q) - 1, r[k] = r[l]
               PROVE  k = l
    BY <1>6 DEF IsInjective
  <2> QED BY <1>5, <1>7
<1> QED BY <1>5, <1>8, <1>9 DEF r

(* The head of a queue is in it. *)
LEMMA HeadInQueue ==
    ASSUME NEW S, NEW q \in Seq(S), q # <<>>
    PROVE  Head(q) \in ToSet(q) /\ Head(q) \in S
<1>1. Len(q) \in Nat \ {0} /\ DOMAIN q = 1..Len(q)
  BY EmptySeq, LenProperties
<1>2. Head(q) = q[1] /\ Head(q) \in S
  BY <1>1, HeadTailProperties
<1> QED BY <1>1, <1>2 DEF ToSet

(* Taking the head off a queue. *)
LEMMA TailProperties ==
    ASSUME NEW S, NEW q \in Seq(S), q # <<>>, IsInjective(q)
    PROVE  /\ Head(q) \in S /\ Head(q) \in ToSet(q)
           /\ Tail(q) \in Seq(S)
           /\ ToSet(Tail(q)) = ToSet(q) \ {Head(q)}
           /\ IsInjective(Tail(q))
<1>1. Len(q) \in Nat \ {0} /\ DOMAIN q = 1..Len(q)
  BY EmptySeq, LenProperties
<1>2. /\ Head(q) = q[1] /\ Head(q) \in S
      /\ Tail(q) \in Seq(S) /\ Len(Tail(q)) = Len(q) - 1
      /\ \A k \in 1..Len(q) - 1 : Tail(q)[k] = q[k + 1]
  BY <1>1, HeadTailProperties
<1>3. DOMAIN Tail(q) = 1..Len(q) - 1
  BY <1>2, LenProperties
<1>4. \A m, n \in 1..Len(q) : q[m] = q[n] => m = n
  BY <1>1 DEF IsInjective
<1>5. ToSet(Tail(q)) = ToSet(q) \ {Head(q)}
  <2>1. ASSUME NEW k \in DOMAIN Tail(q) PROVE Tail(q)[k] \in ToSet(q) \ {Head(q)}
    BY <1>1, <1>2, <1>3, <1>4 DEF ToSet
  <2>2. ASSUME NEW k \in DOMAIN q, k # 1 PROVE q[k] \in ToSet(Tail(q))
    <3>1. k - 1 \in DOMAIN Tail(q) /\ Tail(q)[k - 1] = q[k]
      BY <2>2, <1>1, <1>2, <1>3
    <3> QED BY <3>1 DEF ToSet
  <2> QED BY <2>1, <2>2, <1>1, <1>2 DEF ToSet
<1>6. IsInjective(Tail(q))
  <2> SUFFICES ASSUME NEW k \in 1..Len(q) - 1, NEW l \in 1..Len(q) - 1, Tail(q)[k] = Tail(q)[l]
               PROVE  k = l
    BY <1>3 DEF IsInjective
  <2> QED BY <1>1, <1>2, <1>4
<1>7. Head(q) \in ToSet(q)
  BY <1>1, <1>2 DEF ToSet
<1> QED BY <1>2, <1>5, <1>6, <1>7

(* The empty queue and the queue of one. *)
LEMMA SmallQueues ==
    ASSUME NEW S, NEW e \in S
    PROVE  /\ ToSet(<<>>) = {} /\ IsInjective(<<>>)
           /\ Append(<<>>, e) \in Seq(S) /\ Append(<<>>, e) # <<>>
           /\ ToSet(Append(<<>>, e)) = {e} /\ IsInjective(Append(<<>>, e))
BY DEF ToSet, IsInjective

(* A queue is empty exactly when nobody is in it. *)
LEMMA ToSetEmpty ==
    ASSUME NEW S, NEW q \in Seq(S)
    PROVE  /\ ToSet(q) \subseteq S
           /\ q = <<>> <=> ToSet(q) = {}
<1>1. Len(q) \in Nat /\ DOMAIN q = 1..Len(q) /\ (q # <<>> => Len(q) # 0)
  BY LenProperties, EmptySeq
<1>2. ASSUME q # <<>> PROVE q[1] \in ToSet(q)
  BY <1>1, <1>2 DEF ToSet
<1>3. ToSet(q) \subseteq S
  BY <1>1, ElementOfSeq DEF ToSet
<1>4. ToSet(<<>>) = {}
  BY DEF ToSet
<1> QED BY <1>2, <1>3, <1>4

(* A thread joins a queue at its tail. *)
LEMMA JoinTail ==
    ASSUME NEW S, NEW q \in Seq(S), NEW e \in S
    PROVE  /\ Append(q, e) \in Seq(S)
           /\ Append(q, e) # <<>>
           /\ ToSet(Append(q, e)) = ToSet(q) \cup {e}
           /\ IsInjective(q) /\ e \notin ToSet(q) => IsInjective(Append(q, e))
<1> DEFINE r == Append(q, e)
<1>1. Len(q) \in Nat /\ DOMAIN q = 1..Len(q)
  BY LenProperties
<1>2. /\ r \in Seq(S) /\ Len(r) = Len(q) + 1 /\ DOMAIN r = 1..Len(q) + 1
      /\ \A k \in 1..Len(q) : r[k] = q[k]
      /\ r[Len(q) + 1] = e
  BY AppendProperties, LenProperties, <1>1
<1>3. r # <<>>
  BY <1>1, <1>2
<1>4. ToSet(r) = ToSet(q) \cup {e}
  BY <1>1, <1>2 DEF ToSet
<1>5. ASSUME IsInjective(q), e \notin ToSet(q) PROVE IsInjective(r)
  BY <1>1, <1>2, <1>5 DEF IsInjective, ToSet
<1> QED BY <1>2, <1>3, <1>4, <1>5

-----------------------------------------------------------------------------
(* Removing several threads from a queue. *)

(* g[n] is what remains of the first n members of q without those in S. *)
KeptUpTo(q, S, m, g) ==
    g = [n \in 0..m |-> IF n = 0 THEN <<>>
                        ELSE IF q[n] \in S THEN g[n - 1] ELSE Append(g[n - 1], q[n])]

(* The recursion of Dequeued has a solution: the shortest prefix of the    *)
(* queue without one would be one element longer than a prefix with one.   *)
LEMMA KeptExists ==
    ASSUME NEW q, NEW S, NEW m \in Nat
    PROVE  \E g : KeptUpTo(q, S, m, g)
<1> DEFINE bad == {k \in Nat : ~ \E g : KeptUpTo(q, S, k, g)}
<1> SUFFICES ASSUME bad # {} PROVE FALSE
  OBVIOUS
<1>1. PICK k \in bad : \A l \in bad : k <= l
  BY LeastNat, bad \in SUBSET Nat
<1>2. CASE k = 0
  <2>1. KeptUpTo(q, S, 0, [n \in 0..0 |-> <<>>])
    BY DEF KeptUpTo
  <2> QED BY <1>2, <2>1, <1>1
<1>3. CASE k # 0
  <2>1. k \in Nat /\ k - 1 \in Nat /\ k - 1 \notin bad
    BY <1>1, <1>3
  <2>2. PICK g : KeptUpTo(q, S, k - 1, g)
    BY <2>1
  <2> DEFINE h == [n \in 0..k |-> IF n < k THEN g[n]
                                  ELSE IF q[n] \in S THEN g[n - 1] ELSE Append(g[n - 1], q[n])]
  <2>3. ASSUME NEW n \in 0..k
        PROVE  h[n] = IF n = 0 THEN <<>>
                      ELSE IF q[n] \in S THEN h[n - 1] ELSE Append(h[n - 1], q[n])
    <3>1. CASE n < k
      <4>1. n \in 0..k - 1 /\ h[n] = g[n] /\ (n # 0 => h[n - 1] = g[n - 1])
        BY <3>1, <2>1
      <4>2. g[n] = IF n = 0 THEN <<>>
                   ELSE IF q[n] \in S THEN g[n - 1] ELSE Append(g[n - 1], q[n])
        BY <2>2, <4>1 DEF KeptUpTo
      <4> HIDE DEF h
      <4> QED BY <4>1, <4>2
    <3>2. CASE n = k
      <4>1. /\ h[n] = IF q[n] \in S THEN g[n - 1] ELSE Append(g[n - 1], q[n])
            /\ h[n - 1] = g[n - 1]
        BY <3>2, <2>1
      <4> HIDE DEF h
      <4> QED BY <4>1, <3>2, <1>3
    <3> QED BY <2>1, <3>1, <3>2
  <2>4. h = [n \in 0..k |-> h[n]]
    OBVIOUS
  <2> HIDE DEF h
  <2>5. KeptUpTo(q, S, k, h)
    BY <2>3, <2>4 DEF KeptUpTo
  <2> QED BY <2>5, <1>1
<1> QED BY <1>2, <1>3

(* The sequences that Dequeued goes through.                               *)
DequeueSteps(q, S, g) ==
    /\ g[0] = <<>>
    /\ \A n \in 1..Len(q) : g[n] = IF q[n] \in S THEN g[n - 1] ELSE Append(g[n - 1], q[n])
    /\ Dequeued(q, S) = g[Len(q)]

(* Dequeued removes the members of S one after the other.                  *)
LEMMA DequeuedInSteps ==
    ASSUME NEW T, NEW q \in Seq(T), NEW S
    PROVE  \E g : DequeueSteps(q, S, g)
<1>0. Len(q) \in Nat
  BY LenProperties
<1>1. PICK g : /\ KeptUpTo(q, S, Len(q), g)
               /\ Dequeued(q, S) = g[Len(q)]
  <2> DEFINE kept == CHOOSE g : KeptUpTo(q, S, Len(q), g)
  <2>1. KeptUpTo(q, S, Len(q), kept)
    BY <1>0, KeptExists
  <2>2. Dequeued(q, S) = kept[Len(q)]
    BY DEF Dequeued, KeptUpTo
  <2> HIDE DEF kept
  <2> QED BY <2>1, <2>2
<1>2. /\ g[0] = <<>>
      /\ \A n \in 1..Len(q) : g[n] = IF q[n] \in S THEN g[n - 1] ELSE Append(g[n - 1], q[n])
  <2>1. \A n \in 0..Len(q) :
           g[n] = IF n = 0 THEN <<>>
                  ELSE IF q[n] \in S THEN g[n - 1] ELSE Append(g[n - 1], q[n])
    BY <1>1, Zenon DEF KeptUpTo
  <2>2. 0 \in 0..Len(q) /\ \A n \in 1..Len(q) : n \in 0..Len(q) /\ n # 0
    BY <1>0
  <2> QED BY <2>1, <2>2, Zenon
<1> QED BY <1>1, <1>2 DEF DequeueSteps

(* Removing the members of S from a queue removes nobody else, and nobody  *)
(* is in the queue twice who was not.                                      *)
LEMMA DequeuedProperties ==
    ASSUME NEW T, NEW q \in Seq(T), NEW S
    PROVE  /\ Dequeued(q, S) \in Seq(T)
           /\ ToSet(Dequeued(q, S)) = ToSet(q) \ S
           /\ IsInjective(q) => IsInjective(Dequeued(q, S))
<1>0. Len(q) \in Nat /\ DOMAIN q = 1..Len(q) /\ \A i \in 1..Len(q) : q[i] \in T
  BY LenProperties
<1>1. PICK g : DequeueSteps(q, S, g)
  BY DequeuedInSteps
<1>2. /\ g[0] = <<>>
      /\ \A n \in 1..Len(q) : g[n] = IF q[n] \in S THEN g[n - 1] ELSE Append(g[n - 1], q[n])
      /\ Dequeued(q, S) = g[Len(q)]
  BY <1>1 DEF DequeueSteps
<1> DEFINE First(n) == {q[i] : i \in 1..n}
           Good(n) == /\ g[n] \in Seq(T)
                      /\ ToSet(g[n]) = First(n) \ S
                      /\ IsInjective(q) => IsInjective(g[n])
           bad == {n \in 0..Len(q) : ~Good(n)}
<1>3. bad = {}
  <2> SUFFICES ASSUME bad # {} PROVE FALSE
    OBVIOUS
  <2>1. PICK n \in bad : \A k \in bad : n <= k
    BY LeastNat, bad \in SUBSET Nat, <1>0
  <2>2. n # 0
    <3>1. Good(0)
      BY <1>2, SmallQueues, ToSetEmpty DEF ToSet, IsInjective
    <3> QED BY <2>1, <3>1
  <2>3. n \in 1..Len(q) /\ n - 1 \in 0..Len(q) /\ Good(n - 1)
    <3> HIDE DEF Good
    <3>1. n \in 1..Len(q) /\ n - 1 \in 0..Len(q) /\ ~ n <= n - 1
      BY <2>1, <2>2, <1>0
    <3> QED BY <2>1, <3>1
  <2> DEFINE p == g[n - 1]
             e == q[n]
  <2>4. e \in T /\ First(n) = First(n - 1) \cup {e}
    <3>1. e \in T
      BY <2>3, <1>0
    <3>2. 1..n = 1..n - 1 \cup {n}
      BY <2>3, <1>0
    <3> QED BY <3>1, <3>2
  <2>5. CASE e \in S
    BY <2>1, <2>3, <2>4, <2>5, <1>2
  <2>6. CASE e \notin S
    <3>1. g[n] = Append(p, e) /\ p \in Seq(T) /\ ToSet(p) = First(n - 1) \ S
      BY <2>3, <2>6, <1>2
    <3>2. /\ Append(p, e) \in Seq(T)
          /\ ToSet(Append(p, e)) = ToSet(p) \cup {e}
          /\ IsInjective(p) /\ e \notin ToSet(p) => IsInjective(Append(p, e))
      <4>1. \A s \in Seq(T) :
              /\ Append(s, e) \in Seq(T)
              /\ ToSet(Append(s, e)) = ToSet(s) \cup {e}
              /\ IsInjective(s) /\ e \notin ToSet(s) => IsInjective(Append(s, e))
        BY <2>4, JoinTail
      <4> QED BY <4>1, <3>1
    <3>3. ASSUME IsInjective(q) PROVE e \notin ToSet(p)
      <4>1. \A i \in 1..n - 1 : q[i] # e
        BY <2>3, <3>3, <1>0 DEF IsInjective
      <4> QED BY <4>1, <3>1
    <3>4. IsInjective(q) => IsInjective(p)
      BY <2>3
    <3> HIDE DEF p, e
    <3>5. ToSet(g[n]) = First(n) \ S
      BY <3>1, <3>2, <2>4, <2>6
    <3> HIDE DEF First
    <3>6. Good(n)
      BY <3>1, <3>2, <3>3, <3>4, <3>5
    <3> QED BY <3>6, <2>1
  <2> QED BY <2>5, <2>6
<1>4. Good(Len(q))
  <2> HIDE DEF Good
  <2> QED BY <1>0, <1>3
<1>5. ToSet(q) = First(Len(q))
  BY <1>0 DEF ToSet
<1> QED BY <1>2, <1>4, <1>5

(* v stands in q, and not before u. *)
NoLater(q, u, v) == \E i, j \in DOMAIN q : i <= j /\ q[i] = u /\ q[j] = v

(* Who joins a queue stands behind everybody, and changes nobody's place.  *)
LEMMA JoinKeepsOrder ==
    ASSUME NEW T, NEW q \in Seq(T), NEW e, NEW u, NEW v
    PROVE  /\ NoLater(q, u, v) => NoLater(Append(q, e), u, v)
           /\ u = e \/ NoLater(q, u, u) => NoLater(Append(q, e), u, e)
<1> DEFINE r == Append(q, e)
<1>0. Len(q) \in Nat /\ DOMAIN q = 1..Len(q)
  BY LenProperties
<1>1. /\ DOMAIN r = 1..Len(q) + 1
      /\ \A k \in 1..Len(q) : r[k] = q[k]
      /\ r[Len(q) + 1] = e
  BY <1>0
<1> HIDE DEF r
<1> QED BY <1>0, <1>1 DEF NoLater

(* Removing members from a queue does not change the order of the others.  *)
LEMMA DequeuedKeepsOrder ==
    ASSUME NEW T, NEW q \in Seq(T), NEW S, NEW u, NEW v, u \notin S, v \notin S,
           NoLater(q, u, v)
    PROVE  NoLater(Dequeued(q, S), u, v)
<1>0. Len(q) \in Nat /\ DOMAIN q = 1..Len(q) /\ \A i \in 1..Len(q) : q[i] \in T
  BY LenProperties
<1>1. PICK g : DequeueSteps(q, S, g)
  BY DequeuedInSteps
<1>2. /\ g[0] = <<>>
      /\ \A n \in 1..Len(q) : g[n] = IF q[n] \in S THEN g[n - 1] ELSE Append(g[n - 1], q[n])
      /\ Dequeued(q, S) = g[Len(q)]
  BY <1>1 DEF DequeueSteps
<1> DEFINE Good(n) ==
             /\ g[n] \in Seq(T)
             /\ \A i, j \in 1..n : i <= j /\ q[i] \notin S /\ q[j] \notin S
                                     => NoLater(g[n], q[i], q[j])
           bad == {n \in 0..Len(q) : ~Good(n)}
<1>3. bad = {}
  <2> SUFFICES ASSUME bad # {} PROVE FALSE
    OBVIOUS
  <2>1. PICK n \in bad : \A k \in bad : n <= k
    BY LeastNat, bad \in SUBSET Nat, <1>0
  <2>2. n # 0
    <3>1. Good(0)
      BY <1>2
    <3> QED BY <2>1, <3>1
  <2>3. n \in 1..Len(q) /\ n - 1 \in 0..Len(q) /\ Good(n - 1)
    <3> HIDE DEF Good
    <3>1. n \in 1..Len(q) /\ n - 1 \in 0..Len(q) /\ ~ n <= n - 1
      BY <2>1, <2>2, <1>0
    <3> QED BY <2>1, <3>1
  <2>4. g[n] = IF q[n] \in S THEN g[n - 1] ELSE Append(g[n - 1], q[n])
    BY <2>3, <1>2
  <2>5. g[n] \in Seq(T)
    BY <2>3, <2>4, <1>0
  <2>6. ASSUME NEW i \in 1..n, NEW j \in 1..n, i <= j, q[i] \notin S, q[j] \notin S
        PROVE  NoLater(g[n], q[i], q[j])
    <3>1. \A s \in Seq(T) : \A e, x, y :
            /\ NoLater(s, x, y) => NoLater(Append(s, e), x, y)
            /\ x = e \/ NoLater(s, x, x) => NoLater(Append(s, e), x, e)
      BY JoinKeepsOrder
    <3>2. CASE j < n
      <4>1. i \in 1..n - 1 /\ j \in 1..n - 1
        BY <2>3, <2>6, <3>2, <1>0
      <4>2. NoLater(g[n - 1], q[i], q[j])
        BY <4>1, <2>3, <2>6
      <4> QED BY <4>2, <3>1, <2>3, <2>4
    <3>3. CASE j = n
      <4>1. g[n] = Append(g[n - 1], q[n])
        BY <3>3, <2>4, <2>6
      <4>2. CASE i = n
        BY <4>1, <4>2, <3>3, <3>1, <2>3
      <4>3. CASE i < n
        <5>1. i \in 1..n - 1
          BY <2>3, <2>6, <4>3, <1>0
        <5>2. NoLater(g[n - 1], q[i], q[i])
          BY <5>1, <2>3, <2>6
        <5> QED BY <5>2, <4>1, <3>3, <3>1, <2>3
      <4> QED BY <4>2, <4>3, <2>3, <2>6, <1>0
    <3> QED BY <3>2, <3>3, <2>3, <2>6, <1>0
  <2> QED BY <2>1, <2>5, <2>6
<1>4. Good(Len(q))
  <2> HIDE DEF Good
  <2> QED BY <1>0, <1>3
<1>5. PICK i, j \in 1..Len(q) : i <= j /\ q[i] = u /\ q[j] = v
  BY <1>0 DEF NoLater
<1> QED BY <1>2, <1>4, <1>5

(* A queue whose new member goes to its head.                              *)
LEMMA PushProperties ==
    ASSUME NEW T, NEW q \in Seq(T), NEW e \in T
    PROVE  /\ <<e>> \o q \in Seq(T)
           /\ ToSet(<<e>> \o q) = ToSet(q) \cup {e}
           /\ IsInjective(q) /\ e \notin ToSet(q) => IsInjective(<<e>> \o q)
<1> DEFINE r == <<e>> \o q
<1>0. Len(q) \in Nat /\ DOMAIN q = 1..Len(q)
  BY LenProperties
<1>1. /\ r \in Seq(T) /\ DOMAIN r = 1..Len(q) + 1
      /\ r[1] = e
      /\ \A k \in 1..Len(q) : r[k + 1] = q[k]
  BY <1>0
<1> HIDE DEF r
<1>2. \A k \in 2..Len(q) + 1 : k - 1 \in 1..Len(q) /\ r[k] = q[k - 1]
  BY <1>0, <1>1
<1>3. ToSet(r) = ToSet(q) \cup {e}
  <2>1. ToSet(r) \subseteq ToSet(q) \cup {e}
    BY <1>0, <1>1, <1>2 DEF ToSet
  <2>2. ToSet(q) \cup {e} \subseteq ToSet(r)
    BY <1>0, <1>1 DEF ToSet
  <2> QED BY <2>1, <2>2
<1>4. ASSUME IsInjective(q), e \notin ToSet(q) PROVE IsInjective(r)
  <2> SUFFICES ASSUME NEW a \in DOMAIN r, NEW b \in DOMAIN r, r[a] = r[b]
               PROVE  a = b
    BY DEF IsInjective
  <2>1. \A k \in 2..Len(q) + 1 : r[k] # e
    BY <1>0, <1>2, <1>4 DEF ToSet
  <2>2. CASE a = 1 \/ b = 1
    BY <1>0, <1>1, <2>1, <2>2
  <2>3. CASE a # 1 /\ b # 1
    <3>1. a \in 2..Len(q) + 1 /\ b \in 2..Len(q) + 1
      BY <1>0, <1>1, <2>3
    <3>2. a - 1 = b - 1
      BY <1>0, <1>2, <1>4, <3>1 DEF IsInjective
    <3> QED BY <3>1, <3>2, <1>0
  <2> QED BY <2>2, <2>3
<1> QED BY <1>1, <1>3, <1>4 DEF r

(* The members of a finite set in a queue, in some order.                  *)
LEMMA SetToSeqProperties ==
    ASSUME NEW S, IsFiniteSet(S)
    PROVE  /\ SetToSeq(S) \in Seq(S)
           /\ IsInjective(SetToSeq(S))
           /\ ToSet(SetToSeq(S)) = S
<1> DEFINE N == Cardinality(S)
           q == SetToSeq(S)
<1>1. N \in Nat /\ \E f : f \in Bijection(1..N, S)
  BY FS_CardinalityType DEF ExistsBijection
<1>2. \E f \in [1..N -> S] : IsInjective(f)
  BY <1>1 DEF Bijection, Injection
<1>3. q \in [1..N -> S] /\ IsInjective(q)
  BY <1>2 DEF SetToSeq
<1>4. Cardinality(1..N) = N
  BY <1>1, FS_Interval
<1> HIDE DEF N, q
<1>5. q \in Injection(1..N, S)
  BY <1>3 DEF Injection
<1>6. q \in Surjection(1..N, S)
  BY <1>4, <1>5, FS_Injection DEF N
<1>7. q \in Seq(S) /\ Len(q) = N
  BY <1>1, <1>3
<1>8. ToSet(q) = S
  BY <1>3, <1>6 DEF Surjection, ToSet
<1> QED BY <1>3, <1>7, <1>8 DEF q

=============================================================================
