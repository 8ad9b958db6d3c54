----------------------------- MODULE LockfProofs -----------------------------
(***************************************************************************)
(* Proofs about advisory file locks, for any set of owners and any range   *)
(* of offsets.  LockfInv is inductive; the loops of lf_setlock and         *)
(* lf_clearlock are proved round by round, from what one round does to the *)
(* set of locks and to their order in the list.                            *)
(***************************************************************************)
EXTENDS Lockf, QueueLemmas, FiniteSetTheorems, TLAPS

(* A range that begins in the file and has a byte behind it, if it does    *)
(* not go to the end.                                                      *)
InFile(l) == l.lf_start <= OFF_MAX /\ l.lf_end < OFF_MAX

(* A lock or a request, whose type may be F_UNLCK. *)
Ranged(l) ==
    /\ l.lf_start \in Nat /\ l.lf_end \in Nat \cup {EOF}
    /\ l.lf_end = EOF \/ l.lf_start <= l.lf_end
    /\ InFile(l)

LockRec == [lf_id : Owners, lf_type : Types, lf_start : Nat, lf_end : Nat \cup {EOF},
            lf_blkhd : Seq(Owners)]

-----------------------------------------------------------------------------
(* Ranges. *)

(* What lf_findoverlap() has found out in each of its six cases. *)
LEMMA OverlapCases ==
    ASSUME NEW o, NEW lock, Ranged(o), Ranged(lock),
           NEW c, c = OverlapCase(o, lock)
    PROVE  /\ c \in 0..5
           /\ c = 0 <=> ~Overlap(o, lock)
           /\ c = 1 => o.lf_start = lock.lf_start /\ o.lf_end = lock.lf_end
           /\ c = 2 => /\ o.lf_start <= lock.lf_start /\ lock.lf_end # EOF
                       /\ o.lf_end = EOF \/ o.lf_end >= lock.lf_end
                       /\ ~(o.lf_start = lock.lf_start /\ o.lf_end = lock.lf_end)
           /\ c = 3 => /\ lock.lf_start <= o.lf_start
                       /\ lock.lf_end = EOF \/ (o.lf_end # EOF /\ o.lf_end <= lock.lf_end)
                       /\ ~(o.lf_start = lock.lf_start /\ o.lf_end = lock.lf_end)
           /\ c = 4 => /\ o.lf_start < lock.lf_start
                       /\ lock.lf_end = EOF \/ (o.lf_end # EOF /\ o.lf_end < lock.lf_end)
           /\ c = 5 => /\ lock.lf_start < o.lf_start /\ lock.lf_end # EOF
                       /\ o.lf_end = EOF \/ o.lf_end > lock.lf_end
BY DEF OverlapCase, Overlap, Before, Ranged, EOF

(* Ranges that overlap share a byte; the others are one before the other. *)
LEMMA OverlapBytes ==
    ASSUME NEW a, NEW b, Ranged(a), Ranged(b)
    PROVE  /\ Overlap(a, b) <=> \E x \in Nat : Covers(a, x) /\ Covers(b, x)
           /\ Overlap(a, b) <=> Overlap(b, a)
           /\ ~(Before(a, b) /\ Before(b, a)) /\ ~Before(a, a)
<1>1. ASSUME Overlap(a, b) PROVE \E x \in Nat : Covers(a, x) /\ Covers(b, x)
  <2>1. CASE a.lf_start <= b.lf_start
    BY <1>1, <2>1 DEF Overlap, Before, Covers, Ranged, EOF
  <2>2. CASE b.lf_start <= a.lf_start
    BY <1>1, <2>2 DEF Overlap, Before, Covers, Ranged, EOF
  <2> QED BY <2>1, <2>2 DEF Ranged
<1>2. ASSUME NEW x \in Nat, Covers(a, x), Covers(b, x) PROVE Overlap(a, b)
  BY <1>2 DEF Overlap, Before, Covers, Ranged, EOF
<1>3. (Overlap(a, b) <=> Overlap(b, a)) /\ ~(Before(a, b) /\ Before(b, a)) /\ ~Before(a, a)
  BY DEF Overlap, Before, Ranged, EOF
<1> QED BY <1>1, <1>2, <1>3

(* A piece of the lock o that is left outside the range of lock; lf_split  *)
(* and lf_wakelock leave nobody blocked on it.                             *)
Piece(p, o, lock) ==
    /\ p \in LockRec /\ Ranged(p)
    /\ p.lf_id = o.lf_id /\ p.lf_type = o.lf_type /\ p.lf_blkhd = <<>>
    /\ o.lf_start <= p.lf_start
    /\ o.lf_end = EOF \/ (p.lf_end # EOF /\ p.lf_end <= o.lf_end)

HasLeft(o, lock) == o.lf_start < lock.lf_start
HasRight(o, lock) == lock.lf_end # EOF /\ (o.lf_end = EOF \/ o.lf_end > lock.lf_end)

(* The left piece has the bytes of o before the range, ...                 *)
LEMMA LeftPiece ==
    ASSUME NEW o \in LockRec, NEW lock, Ranged(o), Ranged(lock), Overlap(o, lock), HasLeft(o, lock)
    PROVE  /\ Piece(LeftPart(o, lock), o, lock) /\ Before(LeftPart(o, lock), lock)
           /\ \A b \in Nat : Covers(LeftPart(o, lock), b) <=> Covers(o, b) /\ b < lock.lf_start
<1> DEFINE p == LeftPart(o, lock)
<1>1. lock.lf_start \in Nat /\ lock.lf_start > 0
  BY DEF Ranged, HasLeft, LockRec
<1>2. /\ p.lf_start = o.lf_start /\ p.lf_end = lock.lf_start - 1 /\ p.lf_blkhd = <<>>
      /\ p.lf_id = o.lf_id /\ p.lf_type = o.lf_type /\ p \in LockRec
  <2>1. lock.lf_start - 1 \in Nat \cup {EOF} /\ <<>> \in Seq(Owners)
    BY <1>1
  <2> QED BY <2>1 DEF LeftPart, LockRec
<1> HIDE DEF p
<1>3. o.lf_end = EOF \/ o.lf_end >= lock.lf_start
  BY DEF Overlap, Before, Ranged, EOF
<1>4. Piece(p, o, lock)
  <2>1. InFile(p)
    BY <1>1, <1>2, LockfAssumption DEF InFile, Ranged, EOF
  <2> QED BY <1>1, <1>2, <1>3, <2>1 DEF Piece, Ranged, HasLeft, EOF
<1>5. Before(p, lock) /\ \A b \in Nat : Covers(p, b) <=> Covers(o, b) /\ b < lock.lf_start
  BY <1>1, <1>2, <1>3 DEF Before, Covers, Ranged, EOF
<1> QED BY <1>4, <1>5 DEF p

(* ... and the right one those behind it.                                  *)
LEMMA RightPiece ==
    ASSUME NEW o \in LockRec, NEW lock, Ranged(o), Ranged(lock), Overlap(o, lock), HasRight(o, lock)
    PROVE  /\ Piece(RightPart(o, lock), o, lock) /\ Before(lock, RightPart(o, lock))
           /\ RightPart(o, lock).lf_start > lock.lf_start
           /\ \A b \in Nat : Covers(RightPart(o, lock), b) <=> Covers(o, b) /\ b > lock.lf_end
<1> DEFINE p == RightPart(o, lock)
<1>1. /\ lock.lf_end \in Nat /\ lock.lf_start <= lock.lf_end
      /\ NextOffset(lock.lf_end) = lock.lf_end + 1 /\ lock.lf_end + 1 <= OFF_MAX
  <2>1. lock.lf_end \in Nat /\ lock.lf_start <= lock.lf_end /\ lock.lf_end < OFF_MAX
    BY DEF Ranged, HasRight, InFile
  <2> QED BY <2>1, LockfAssumption DEF NextOffset
<1>2. /\ p.lf_start = lock.lf_end + 1 /\ p.lf_end = o.lf_end /\ p.lf_blkhd = <<>>
      /\ p.lf_id = o.lf_id /\ p.lf_type = o.lf_type /\ p \in LockRec
  <2>1. lock.lf_end + 1 \in Nat /\ <<>> \in Seq(Owners)
    BY <1>1
  <2> QED BY <1>1, <2>1 DEF RightPart, LockRec
<1> HIDE DEF p
<1>3. o.lf_start <= lock.lf_end
  BY <1>1 DEF Overlap, Before, Ranged, EOF
<1>4. Piece(p, o, lock)
  <2>1. InFile(p)
    BY <1>1, <1>2 DEF InFile, Ranged
  <2> QED BY <1>1, <1>2, <1>3, <2>1 DEF Piece, Ranged, HasRight, EOF
<1>5. /\ Before(lock, p) /\ p.lf_start > lock.lf_start
      /\ \A b \in Nat : Covers(p, b) <=> Covers(o, b) /\ b > lock.lf_end
  BY <1>1, <1>2, <1>3 DEF Before, Covers, Ranged, EOF
<1> QED BY <1>4, <1>5 DEF p

(* The locks in the place of o: what is left of it, and mid between.       *)
LeftOf(o, lock)  == IF HasLeft(o, lock) THEN <<LeftPart(o, lock)>> ELSE <<>>
RightOf(o, lock) == IF HasRight(o, lock) THEN <<RightPart(o, lock)>> ELSE <<>>
Cut(o, lock, mid) == LeftOf(o, lock) \o mid \o RightOf(o, lock)

(* What is true of the locks that replace o: they are sorted, only lock is *)
(* not a piece of o, nobody is blocked on them and they hold the bytes of  *)
(* o outside the range.                                                    *)
CutOK(parts, o, lock, mid) ==
    /\ parts \in Seq(LockRec)
    /\ \A m \in 1..Len(parts) :
          /\ parts[m] \in LockRec /\ Ranged(parts[m]) /\ parts[m].lf_id = o.lf_id /\ parts[m].lf_blkhd = <<>>
          /\ \/ Piece(parts[m], o, lock) /\ ~Overlap(parts[m], lock)
             \/ parts[m] = lock /\ mid # <<>>
    /\ \A m, n \in 1..Len(parts) : m < n => Before(parts[m], parts[n])
    /\ \A b \in Nat : Covers(o, b) /\ ~Covers(lock, b) =>
          \E m \in 1..Len(parts) : Covers(parts[m], b) /\ parts[m].lf_type = o.lf_type

(* Sequences of up to three locks.                                         *)
LEMMA Tuples ==
    ASSUME NEW S, NEW l \in S, NEW k \in S, NEW r \in S
    PROVE  /\ <<>> \in Seq(S) /\ Len(<<>>) = 0
           /\ <<l>> \in Seq(S) /\ Len(<<l>>) = 1 /\ <<l>>[1] = l
           /\ <<l, k>> \in Seq(S) /\ Len(<<l, k>>) = 2 /\ <<l, k>>[1] = l /\ <<l, k>>[2] = k
           /\ <<l, k, r>> \in Seq(S) /\ Len(<<l, k, r>>) = 3
           /\ <<l, k, r>>[1] = l /\ <<l, k, r>>[2] = k /\ <<l, k, r>>[3] = r
OBVIOUS

(* They are the same whether they are written down or concatenated.        *)
LEMMA Pairs ==
    ASSUME NEW S, NEW l \in S, NEW k \in S
    PROVE  <<l>> \o <<k>> = <<l, k>>
<1> DEFINE s == <<l>> \o <<k>>
           t == <<l, k>>
<1>1. /\ <<l>> \in Seq(S) /\ Len(<<l>>) = 1 /\ <<l>>[1] = l
      /\ <<k>> \in Seq(S) /\ Len(<<k>>) = 1 /\ <<k>>[1] = k
      /\ t \in Seq(S) /\ Len(t) = 2 /\ t[1] = l /\ t[2] = k
  BY Tuples
<1>2. /\ s \in Seq(S) /\ Len(s) = 2
      /\ \A i \in 1..2 : s[i] = IF i <= 1 THEN <<l>>[i] ELSE <<k>>[i - 1]
  BY <1>1, ConcatProperties
<1>3. s[1] = l /\ s[2] = k
  BY <1>1, <1>2
<1> HIDE DEF s, t
<1>4. Len(s) = Len(t) /\ \A i \in 1..Len(s) : s[i] = t[i]
  <2>1. \A i \in 1..2 : i = 1 \/ i = 2
    OBVIOUS
  <2> QED BY <1>1, <1>2, <1>3, <2>1
<1>5. s = t
  BY <1>1, <1>2, <1>4, SeqEqual
<1> QED BY <1>5 DEF s, t

(* ... and for three.                                                      *)
LEMMA Triples ==
    ASSUME NEW S, NEW l \in S, NEW k \in S, NEW r \in S
    PROVE  <<l, k>> \o <<r>> = <<l, k, r>>
<1> DEFINE s == <<l, k>> \o <<r>>
           t == <<l, k, r>>
<1>1. /\ <<l, k>> \in Seq(S) /\ Len(<<l, k>>) = 2 /\ <<l, k>>[1] = l /\ <<l, k>>[2] = k
      /\ <<r>> \in Seq(S) /\ Len(<<r>>) = 1 /\ <<r>>[1] = r
      /\ t \in Seq(S) /\ Len(t) = 3 /\ t[1] = l /\ t[2] = k /\ t[3] = r
  BY Tuples
<1>2. /\ s \in Seq(S) /\ Len(s) = 3
      /\ \A i \in 1..3 : s[i] = IF i <= 2 THEN <<l, k>>[i] ELSE <<r>>[i - 2]
  BY <1>1, ConcatProperties
<1>3. s[1] = l /\ s[2] = k /\ s[3] = r
  BY <1>1, <1>2
<1> HIDE DEF s, t
<1>4. Len(s) = Len(t) /\ \A i \in 1..Len(s) : s[i] = t[i]
  <2>1. \A i \in 1..3 : i = 1 \/ i = 2 \/ i = 3
    OBVIOUS
  <2> QED BY <1>1, <1>2, <1>3, <2>1
<1>5. s = t
  BY <1>1, <1>2, <1>4, SeqEqual
<1> QED BY <1>5 DEF s, t

(* What Cut consists of, case by case.                                     *)
LEMMA Parts ==
    ASSUME NEW S, NEW l \in S, NEW k \in S, NEW r \in S
    PROVE  /\ <<>> \o <<>> \o <<>> = <<>>
           /\ <<l>> \o <<>> \o <<>> = <<l>>
           /\ <<>> \o <<>> \o <<r>> = <<r>>
           /\ <<l>> \o <<>> \o <<r>> = <<l, r>>
           /\ <<>> \o <<k>> \o <<>> = <<k>>
           /\ <<l>> \o <<k>> \o <<>> = <<l, k>>
           /\ <<>> \o <<k>> \o <<r>> = <<k, r>>
           /\ <<l>> \o <<k>> \o <<r>> = <<l, k, r>>
<1>1. \A s \in Seq(S) : <<>> \o s = s /\ s \o <<>> = s
  BY ConcatEmptySeq
<1>2. /\ <<l>> \in Seq(S) /\ <<k>> \in Seq(S) /\ <<r>> \in Seq(S) /\ <<>> \in Seq(S)
      /\ <<l, k>> \in Seq(S)
  BY Tuples
<1>3. <<l>> \o <<k>> = <<l, k>> /\ <<k>> \o <<r>> = <<k, r>> /\ <<l>> \o <<r>> = <<l, r>>
  BY Pairs
<1>4. <<l, k>> \o <<r>> = <<l, k, r>>
  BY Triples
<1>5. <<>> \o <<>> = <<>> /\ <<l>> \o <<>> = <<l>> /\ <<>> \o <<r>> = <<r>> /\ <<>> \o <<k>> = <<k>>
      /\ <<k>> \o <<>> = <<k>> /\ <<l, k>> \o <<>> = <<l, k>>
  BY <1>1, <1>2
<1> QED BY <1>3, <1>4, <1>5

(* Pieces of a lock around nothing: what lf_clearlock() leaves of it.      *)
LEMMA CutNothing ==
    ASSUME NEW o \in LockRec, NEW lock, Ranged(o), Ranged(lock), Overlap(o, lock)
    PROVE  CutOK(Cut(o, lock, <<>>), o, lock, <<>>)
<1> DEFINE l == LeftPart(o, lock)
           r == RightPart(o, lock)
           parts == Cut(o, lock, <<>>)
<1>1. ASSUME HasLeft(o, lock)
      PROVE  /\ Piece(l, o, lock) /\ Before(l, lock) /\ ~Overlap(l, lock)
             /\ \A b \in Nat : Covers(l, b) <=> Covers(o, b) /\ b < lock.lf_start
  BY <1>1, LeftPiece DEF Overlap
<1>2. ASSUME HasRight(o, lock)
      PROVE  /\ Piece(r, o, lock) /\ Before(lock, r) /\ ~Overlap(r, lock)
             /\ \A b \in Nat : Covers(r, b) <=> Covers(o, b) /\ b > lock.lf_end
  BY <1>2, RightPiece DEF Overlap
<1>3. ASSUME NEW b \in Nat, Covers(o, b), ~Covers(lock, b)
      PROVE  \/ HasLeft(o, lock) /\ b < lock.lf_start
             \/ HasRight(o, lock) /\ b > lock.lf_end
  BY <1>3 DEF Covers, Ranged, HasLeft, HasRight, EOF
<1>4. ASSUME HasLeft(o, lock), HasRight(o, lock) PROVE Before(l, r)
  BY <1>1, <1>2, <1>4 DEF Before, Piece, Ranged, EOF
<1> HIDE DEF l, r, parts
<1>5. CASE HasLeft(o, lock) /\ HasRight(o, lock)
  <2>1. l \in LockRec /\ r \in LockRec
    BY <1>1, <1>2, <1>5 DEF Piece
  <2>2. parts = <<l, r>>
    BY <1>5, <2>1, Parts DEF parts, Cut, LeftOf, RightOf, l, r
  <2>3. parts \in Seq(LockRec) /\ Len(parts) = 2 /\ parts[1] = l /\ parts[2] = r
    BY <2>1, <2>2, Tuples
  <2>4. \A m \in 1..Len(parts) : m = 1 \/ m = 2
    BY <2>3
  <2> QED BY <1>1, <1>2, <1>3, <1>4, <1>5, <2>3, <2>4 DEF CutOK, Piece, parts
<1>6. CASE HasLeft(o, lock) /\ ~HasRight(o, lock)
  <2>1. l \in LockRec
    BY <1>1, <1>6 DEF Piece
  <2>2. parts = <<l>>
    BY <1>6, <2>1, Parts DEF parts, Cut, LeftOf, RightOf, l, r
  <2>3. parts \in Seq(LockRec) /\ Len(parts) = 1 /\ parts[1] = l
    BY <2>1, <2>2, Tuples
  <2> QED BY <1>1, <1>3, <1>6, <2>3 DEF CutOK, Piece, parts
<1>7. CASE ~HasLeft(o, lock) /\ HasRight(o, lock)
  <2>1. r \in LockRec
    BY <1>2, <1>7 DEF Piece
  <2>2. parts = <<r>>
    BY <1>7, <2>1, Parts DEF parts, Cut, LeftOf, RightOf, l, r
  <2>3. parts \in Seq(LockRec) /\ Len(parts) = 1 /\ parts[1] = r
    BY <2>1, <2>2, Tuples
  <2> QED BY <1>2, <1>3, <1>7, <2>3 DEF CutOK, Piece, parts
<1>8. CASE ~HasLeft(o, lock) /\ ~HasRight(o, lock)
  <2>1. parts = <<>>
    BY <1>8, Parts DEF parts, Cut, LeftOf, RightOf
  <2>2. parts \in Seq(LockRec) /\ Len(parts) = 0
    BY <2>1, EmptySeq
  <2> QED BY <1>3, <1>8, <2>2 DEF CutOK, parts
<1> QED BY <1>5, <1>6, <1>7, <1>8

(* Pieces of a lock around the lock that is set.                           *)
LEMMA CutLock ==
    ASSUME NEW o \in LockRec, NEW lock \in LockRec, Ranged(o), Ranged(lock), Overlap(o, lock),
           lock.lf_id = o.lf_id, lock.lf_blkhd = <<>>
    PROVE  /\ CutOK(Cut(o, lock, <<lock>>), o, lock, <<lock>>)
           /\ \E m \in 1..Len(Cut(o, lock, <<lock>>)) : Cut(o, lock, <<lock>>)[m] = lock
           /\ ~HasLeft(o, lock) /\ ~HasRight(o, lock) => Cut(o, lock, <<lock>>) = <<lock>>
           /\ HasLeft(o, lock) /\ ~HasRight(o, lock) =>
                 Cut(o, lock, <<lock>>) = <<LeftPart(o, lock), lock>> /\ LeftPart(o, lock) \in LockRec
           /\ ~HasLeft(o, lock) /\ HasRight(o, lock) =>
                 Cut(o, lock, <<lock>>) = <<lock, RightPart(o, lock)>> /\ RightPart(o, lock) \in LockRec
<1> DEFINE l == LeftPart(o, lock)
           r == RightPart(o, lock)
           parts == Cut(o, lock, <<lock>>)
<1>1. ASSUME HasLeft(o, lock)
      PROVE  /\ Piece(l, o, lock) /\ Before(l, lock) /\ ~Overlap(l, lock)
             /\ \A b \in Nat : Covers(l, b) <=> Covers(o, b) /\ b < lock.lf_start
  BY <1>1, LeftPiece DEF Overlap
<1>2. ASSUME HasRight(o, lock)
      PROVE  /\ Piece(r, o, lock) /\ Before(lock, r) /\ ~Overlap(r, lock)
             /\ \A b \in Nat : Covers(r, b) <=> Covers(o, b) /\ b > lock.lf_end
  BY <1>2, RightPiece DEF Overlap
<1>3. ASSUME NEW b \in Nat, Covers(o, b), ~Covers(lock, b)
      PROVE  \/ HasLeft(o, lock) /\ b < lock.lf_start
             \/ HasRight(o, lock) /\ b > lock.lf_end
  BY <1>3 DEF Covers, Ranged, HasLeft, HasRight, EOF
<1>4. ASSUME HasLeft(o, lock), HasRight(o, lock) PROVE Before(l, r)
  BY <1>1, <1>2, <1>4 DEF Before, Piece, Ranged, EOF
<1> HIDE DEF l, r, parts
<1>9. <<lock>> # <<>>
  OBVIOUS
<1>5. CASE HasLeft(o, lock) /\ HasRight(o, lock)
  <2>1. l \in LockRec /\ r \in LockRec
    BY <1>1, <1>2, <1>5 DEF Piece
  <2>2. parts = <<l, lock, r>>
    BY <1>5, <2>1, Parts DEF parts, Cut, LeftOf, RightOf, l, r
  <2>3. /\ parts \in Seq(LockRec) /\ Len(parts) = 3
        /\ parts[1] = l /\ parts[2] = lock /\ parts[3] = r
    BY <2>1, <2>2, Tuples
  <2>4. \A m \in 1..Len(parts) : m = 1 \/ m = 2 \/ m = 3
    BY <2>3
  <2>5. CutOK(parts, o, lock, <<lock>>)
    BY <1>1, <1>2, <1>3, <1>4, <1>5, <1>9, <2>3, <2>4 DEF CutOK, Piece
  <2>6. 2 \in 1..Len(parts)
    BY <2>3
  <2> QED BY <1>5, <2>3, <2>5, <2>6 DEF parts
<1>6. CASE HasLeft(o, lock) /\ ~HasRight(o, lock)
  <2>1. l \in LockRec
    BY <1>1, <1>6 DEF Piece
  <2>2. parts = <<l, lock>>
    BY <1>6, <2>1, Parts DEF parts, Cut, LeftOf, RightOf, l, r
  <2>3. parts \in Seq(LockRec) /\ Len(parts) = 2 /\ parts[1] = l /\ parts[2] = lock
    BY <2>1, <2>2, Tuples
  <2>4. \A m \in 1..Len(parts) : m = 1 \/ m = 2
    BY <2>3
  <2>5. CutOK(parts, o, lock, <<lock>>)
    BY <1>1, <1>3, <1>6, <1>9, <2>3, <2>4 DEF CutOK, Piece
  <2>6. 2 \in 1..Len(parts)
    BY <2>3
  <2> QED BY <1>6, <2>1, <2>2, <2>3, <2>5, <2>6 DEF parts, l
<1>7. CASE ~HasLeft(o, lock) /\ HasRight(o, lock)
  <2>1. r \in LockRec
    BY <1>2, <1>7 DEF Piece
  <2>2. parts = <<lock, r>>
    BY <1>7, <2>1, Parts DEF parts, Cut, LeftOf, RightOf, l, r
  <2>3. parts \in Seq(LockRec) /\ Len(parts) = 2 /\ parts[1] = lock /\ parts[2] = r
    BY <2>1, <2>2, Tuples
  <2>4. \A m \in 1..Len(parts) : m = 1 \/ m = 2
    BY <2>3
  <2>5. CutOK(parts, o, lock, <<lock>>)
    BY <1>2, <1>3, <1>7, <1>9, <2>3, <2>4 DEF CutOK, Piece
  <2>6. 1 \in 1..Len(parts)
    BY <2>3
  <2> QED BY <1>7, <2>1, <2>2, <2>3, <2>5, <2>6 DEF parts, r
<1>8. CASE ~HasLeft(o, lock) /\ ~HasRight(o, lock)
  <2>2. parts = <<lock>>
    BY <1>8, Parts DEF parts, Cut, LeftOf, RightOf
  <2>3. parts \in Seq(LockRec) /\ Len(parts) = 1 /\ parts[1] = lock
    BY <2>2, Tuples
  <2>4. CutOK(parts, o, lock, <<lock>>)
    BY <1>3, <1>8, <1>9, <2>3 DEF CutOK
  <2>5. 1 \in 1..Len(parts)
    BY <2>3
  <2> QED BY <1>8, <2>2, <2>3, <2>4, <2>5 DEF parts
<1> QED BY <1>5, <1>6, <1>7, <1>8

-----------------------------------------------------------------------------
(* Replacing one lock in the list by others. *)

(* The positions after a replacement. *)
LEMMA SpliceElements ==
    ASSUME NEW S, NEW q \in Seq(S), NEW j \in 1..Len(q), NEW parts \in Seq(S)
    PROVE  /\ Splice(q, j, parts) \in Seq(S)
           /\ Len(Splice(q, j, parts)) = Len(q) - 1 + Len(parts)
           /\ \A k \in 1..Len(q) - 1 + Len(parts) :
                 Splice(q, j, parts)[k] =
                    IF k < j THEN q[k]
                    ELSE IF k < j + Len(parts) THEN parts[k - j + 1] ELSE q[k - Len(parts) + 1]
<1> DEFINE r == Splice(q, j, parts)
           n == Len(parts)
           a == SubSeq(q, 1, j - 1)
           b == SubSeq(q, j + 1, Len(q))
<1>0. Len(q) \in Nat /\ n \in Nat
  BY LenProperties
<1>1. a \in Seq(S) /\ Len(a) = j - 1 /\ \A k \in 1..j - 1 : a[k] = q[k]
  BY SubSeqProperties
<1>2. b \in Seq(S) /\ Len(b) = Len(q) - j /\ \A k \in 1..Len(q) - j : b[k] = q[j + k]
  BY SubSeqProperties
<1>9. n = Len(parts)
  OBVIOUS
<1> HIDE DEF a, b, n
<1>3. /\ a \o parts \in Seq(S) /\ Len(a \o parts) = j - 1 + n
      /\ \A k \in 1..j - 1 + n : (a \o parts)[k] = IF k <= j - 1 THEN a[k] ELSE parts[k - (j - 1)]
  <2>1. /\ a \o parts \in Seq(S) /\ Len(a \o parts) = Len(a) + Len(parts)
        /\ \A k \in 1..Len(a) + Len(parts) :
              (a \o parts)[k] = IF k <= Len(a) THEN a[k] ELSE parts[k - Len(a)]
    BY <1>1, ConcatProperties
  <2> QED BY <1>1, <1>9, <2>1
<1> DEFINE c == a \o parts
<1> HIDE DEF c
<1>4. /\ c \o b \in Seq(S) /\ Len(c \o b) = Len(q) - 1 + n
      /\ \A k \in 1..Len(q) - 1 + n : (c \o b)[k] = IF k <= j - 1 + n THEN c[k] ELSE b[k - (j - 1 + n)]
  <2>1. c \in Seq(S) /\ Len(c) = j - 1 + n
    BY <1>3 DEF c
  <2>2. /\ c \o b \in Seq(S) /\ Len(c \o b) = Len(c) + Len(b)
        /\ \A k \in 1..Len(c) + Len(b) : (c \o b)[k] = IF k <= Len(c) THEN c[k] ELSE b[k - Len(c)]
    <3>1. b \in Seq(S) /\ c \in Seq(S)
      BY <1>2, <2>1
    <3> QED BY ONLY <3>1, ConcatProperties
  <2>3. Len(c) + Len(b) = Len(q) - 1 + n
    BY <1>0, <1>2, <2>1
  <2> QED BY <2>1, <2>2, <2>3
<1>5. r = c \o b
  BY DEF Splice, a, b, c
<1>6. ASSUME NEW k \in 1..Len(q) - 1 + n
      PROVE  (c \o b)[k] = IF k < j THEN q[k]
                           ELSE IF k < j + n THEN parts[k - j + 1] ELSE q[k - n + 1]
  <2>1. CASE k < j
    <3>1. k \in 1..j - 1 /\ k \in 1..j - 1 + n /\ k <= j - 1 + n /\ k <= j - 1
      BY <1>0, <2>1
    <3>2. (c \o b)[k] = c[k] /\ c[k] = a[k] /\ a[k] = q[k]
      BY <1>1, <1>3, <1>4, <3>1 DEF c
    <3> QED BY <2>1, <3>2
  <2>2. CASE k >= j /\ k < j + n
    <3>1. k \in 1..j - 1 + n /\ k <= j - 1 + n /\ ~(k <= j - 1) /\ ~(k < j) /\ k - (j - 1) = k - j + 1
      BY <1>0, <2>2
    <3>2. (c \o b)[k] = c[k] /\ c[k] = parts[k - j + 1]
      BY <1>3, <1>4, <3>1 DEF c
    <3> QED BY <2>2, <3>1, <3>2
  <2>3. CASE k >= j + n
    <3>1. /\ ~(k <= j - 1 + n) /\ ~(k < j) /\ ~(k < j + n) /\ k - (j - 1 + n) \in 1..Len(q) - j
          /\ j + (k - (j - 1 + n)) = k - n + 1
      BY <1>0, <2>3
    <3>2. (c \o b)[k] = b[k - (j - 1 + n)] /\ b[k - (j - 1 + n)] = q[k - n + 1]
      BY <1>2, <1>4, <3>1
    <3> QED BY <3>1, <3>2
  <2>4. k < j \/ (k >= j /\ k < j + n) \/ k >= j + n
    BY <1>0
  <2> QED BY <2>1, <2>2, <2>3, <2>4, Zenon
<1> QED BY <1>4, <1>5, <1>6, Zenon DEF r, n

(* The other elements of a list. *)
Others(q, j) == {q[k] : k \in (1..Len(q)) \ {j}}

(* What a replacement does to the set of elements. *)
LEMMA SpliceSet ==
    ASSUME NEW S, NEW q \in Seq(S), NEW j \in 1..Len(q), NEW parts \in Seq(S)
    PROVE  /\ ToSet(Splice(q, j, parts)) = Others(q, j) \cup {parts[m] : m \in 1..Len(parts)}
           /\ ToSet(q) = Others(q, j) \cup {q[j]}
<1> DEFINE r == Splice(q, j, parts)
           n == Len(parts)
<1>0. Len(q) \in Nat /\ n \in Nat
  BY LenProperties
<1>1. /\ r \in Seq(S) /\ Len(r) = Len(q) - 1 + n
      /\ \A k \in 1..Len(q) - 1 + n :
            r[k] = IF k < j THEN q[k] ELSE IF k < j + n THEN parts[k - j + 1] ELSE q[k - n + 1]
  BY SpliceElements, Zenon
<1>2. DOMAIN r = 1..Len(q) - 1 + n /\ DOMAIN q = 1..Len(q)
  BY <1>1, LenProperties
<1> HIDE DEF r, n
<1>3. ASSUME NEW k \in 1..Len(q) - 1 + n
      PROVE  r[k] \in Others(q, j) \/ \E m \in 1..n : r[k] = parts[m]
  <2>1. CASE k < j
    <3>1. k \in (1..Len(q)) \ {j} /\ r[k] = q[k]
      BY <1>0, <1>1, <2>1
    <3> QED BY <3>1 DEF Others
  <2>2. CASE k >= j /\ k < j + n
    <3>1. k - j + 1 \in 1..n /\ r[k] = parts[k - j + 1]
      BY <1>0, <1>1, <2>2
    <3> QED BY <3>1
  <2>3. CASE k >= j + n
    <3>1. k - n + 1 \in (1..Len(q)) \ {j} /\ r[k] = q[k - n + 1]
      BY <1>0, <1>1, <2>3
    <3> QED BY <3>1 DEF Others
  <2> QED BY <1>0, <2>1, <2>2, <2>3
<1>4. ASSUME NEW k \in (1..Len(q)) \ {j} PROVE \E l \in 1..Len(q) - 1 + n : r[l] = q[k]
  <2>1. CASE k < j
    <3>1. k \in 1..Len(q) - 1 + n /\ r[k] = q[k]
      BY <1>0, <1>1, <2>1
    <3> QED BY <3>1
  <2>2. CASE k > j
    <3>1. k + n - 1 \in 1..Len(q) - 1 + n /\ ~(k + n - 1 < j) /\ ~(k + n - 1 < j + n)
      BY <1>0, <2>2
    <3>2. (k + n - 1) - n + 1 = k
      BY <1>0
    <3>3. r[k + n - 1] = q[k]
      BY <1>1, <3>1, <3>2
    <3> QED BY <3>1, <3>3
  <2> QED BY <2>1, <2>2
<1>5. ASSUME NEW m \in 1..n PROVE \E l \in 1..Len(q) - 1 + n : r[l] = parts[m]
  <2>1. /\ m + j - 1 \in 1..Len(q) - 1 + n /\ ~(m + j - 1 < j) /\ m + j - 1 < j + n
        /\ (m + j - 1) - j + 1 = m
    BY <1>0
  <2>2. r[m + j - 1] = parts[m]
    BY <1>1, <2>1
  <2> QED BY <2>1, <2>2
<1>6. ToSet(r) = Others(q, j) \cup {parts[m] : m \in 1..n}
  <2>1. ToSet(r) = {r[k] : k \in 1..Len(q) - 1 + n}
    BY <1>2 DEF ToSet
  <2>2. \A x \in Others(q, j) : \E l \in 1..Len(q) - 1 + n : r[l] = x
    BY <1>4 DEF Others
  <2> QED BY <1>3, <1>5, <2>1, <2>2
<1>7. ToSet(q) = Others(q, j) \cup {q[j]}
  BY <1>2 DEF ToSet, Others
<1> QED BY <1>6, <1>7 DEF r, n

-----------------------------------------------------------------------------
(* The order of the list. *)

ListOK(L) == L \in Seq(LockRec) /\ \A i \in 1..Len(L) : Ranged(L[i])

(* The locks of an owner are sorted and disjoint, but for what the one at  *)
(* position at, if any, may still overlap behind it.                       *)
SortedBut(L, at) ==
    \A i, k \in 1..Len(L) : i < k /\ i # at /\ L[i].lf_id = L[k].lf_id => Before(L[i], L[k])

(* Replacing a lock keeps the list sorted if the new ones fit in.          *)
LEMMA SpliceSorted ==
    ASSUME NEW L \in Seq(LockRec), NEW j \in 1..Len(L), NEW parts \in Seq(LockRec),
           NEW at \in Nat, at < j, NEW at2 \in Nat, at = 0 \/ at2 = at,
           SortedBut(L, at),
           \A m \in 1..Len(parts) : parts[m].lf_id = L[j].lf_id,
           \A i \in 1..j - 1, m \in 1..Len(parts) :
              i # at2 /\ L[i].lf_id = L[j].lf_id => Before(L[i], parts[m]),
           \A m, n \in 1..Len(parts) : m < n => Before(parts[m], parts[n]) \/ at2 = j + m - 1,
           \A m \in 1..Len(parts), k \in j + 1..Len(L) :
              L[k].lf_id = L[j].lf_id => Before(parts[m], L[k]) \/ at2 = j + m - 1
    PROVE  SortedBut(Splice(L, j, parts), at2)
<1> DEFINE r == Splice(L, j, parts)
           n == Len(parts)
<1>0. Len(L) \in Nat /\ n \in Nat
  BY LenProperties
<1>1. /\ Len(r) = Len(L) - 1 + n
      /\ \A k \in 1..Len(L) - 1 + n :
            r[k] = IF k < j THEN L[k] ELSE IF k < j + n THEN parts[k - j + 1] ELSE L[k - n + 1]
  BY SpliceElements, ZenonT(60)
<1> HIDE DEF r, n
<1> SUFFICES ASSUME NEW i \in 1..Len(r), NEW k \in 1..Len(r), i < k, i # at2,
                    r[i].lf_id = r[k].lf_id
             PROVE  Before(r[i], r[k])
  BY DEF SortedBut, r
<1>2. \A x, y \in 1..Len(L) : x < y /\ x # at /\ L[x].lf_id = L[y].lf_id => Before(L[x], L[y])
  BY DEF SortedBut
<1>3. CASE k < j
  <2>1. i < j /\ i \in 1..Len(L) /\ k \in 1..Len(L) /\ i # at
    BY <1>0, <1>1, <1>3
  <2>2. r[i] = L[i] /\ r[k] = L[k]
    BY <1>0, <1>1, <1>3, <2>1
  <2> QED BY <1>2, <2>1, <2>2
<1>4. CASE i < j /\ k >= j /\ k < j + n
  <2>1. r[i] = L[i] /\ r[k] = parts[k - j + 1] /\ i \in 1..j - 1 /\ k - j + 1 \in 1..n
    BY <1>0, <1>1, <1>4
  <2> QED BY <2>1 DEF n
<1>5. CASE i < j /\ k >= j + n
  <2>1. /\ r[i] = L[i] /\ r[k] = L[k - n + 1] /\ i \in 1..Len(L) /\ k - n + 1 \in 1..Len(L)
        /\ i < k - n + 1 /\ i # at
    BY <1>0, <1>1, <1>5
  <2> QED BY <1>2, <2>1
<1>6. CASE i >= j /\ k < j + n
  <2>1. /\ r[i] = parts[i - j + 1] /\ r[k] = parts[k - j + 1]
        /\ i - j + 1 \in 1..n /\ k - j + 1 \in 1..n /\ i - j + 1 < k - j + 1
        /\ at2 # j + (i - j + 1) - 1
    BY <1>0, <1>1, <1>6
  <2> QED BY <2>1 DEF n
<1>7. CASE i >= j /\ i < j + n /\ k >= j + n
  <2>1. /\ r[i] = parts[i - j + 1] /\ r[k] = L[k - n + 1]
        /\ i - j + 1 \in 1..n /\ k - n + 1 \in j + 1..Len(L)
        /\ at2 # j + (i - j + 1) - 1
    BY <1>0, <1>1, <1>7
  <2> QED BY <2>1 DEF n
<1>8. CASE i >= j + n
  <2>1. /\ r[i] = L[i - n + 1] /\ r[k] = L[k - n + 1]
        /\ i - n + 1 \in 1..Len(L) /\ k - n + 1 \in 1..Len(L) /\ i - n + 1 < k - n + 1
        /\ i - n + 1 # at
    BY <1>0, <1>1, <1>8
  <2> QED BY <1>2, <2>1
<1>9. i < j \/ i >= j
  BY <1>0, <1>1
<1>10. k < j \/ (k >= j /\ k < j + n) \/ k >= j + n
  BY <1>0, <1>1
<1>11. i >= j => i < j + n \/ i >= j + n
  BY <1>0, <1>1
<1>12. i >= j => k >= j
  BY <1>0, <1>1
<1> QED BY <1>3, <1>4, <1>5, <1>6, <1>7, <1>8, <1>9, <1>10, <1>11, <1>12, Zenon

(* So does a new lock between those before and behind it.                  *)
LEMMA InsertSorted ==
    ASSUME NEW L \in Seq(LockRec), NEW j \in 1..Len(L) + 1, NEW lock \in LockRec,
           SortedBut(L, 0),
           \A i \in 1..j - 1 : L[i].lf_id = lock.lf_id => Before(L[i], lock),
           \A k \in j..Len(L) : L[k].lf_id = lock.lf_id => Before(lock, L[k])
    PROVE  SortedBut(InsertAt(L, j, lock), 0)
<1> DEFINE r == InsertAt(L, j, lock)
<1>0. Len(L) \in Nat
  BY LenProperties
<1>1. /\ Len(r) = Len(L) + 1
      /\ \A k \in 1..Len(L) + 1 : r[k] = IF k < j THEN L[k] ELSE IF k = j THEN lock ELSE L[k - 1]
  BY InsertAtElements
<1> HIDE DEF r
<1> SUFFICES ASSUME NEW i \in 1..Len(r), NEW k \in 1..Len(r), i < k, r[i].lf_id = r[k].lf_id
             PROVE  Before(r[i], r[k])
  BY DEF SortedBut, r
<1>2. \A x, y \in 1..Len(L) : x < y /\ L[x].lf_id = L[y].lf_id => Before(L[x], L[y])
  BY DEF SortedBut
<1>3. CASE i = j
  <2>1. r[i] = lock /\ r[k] = L[k - 1] /\ k - 1 \in j..Len(L)
    BY <1>0, <1>1, <1>3
  <2> QED BY <2>1
<1>4. CASE k = j
  <2>1. r[k] = lock /\ r[i] = L[i] /\ i \in 1..j - 1
    BY <1>0, <1>1, <1>4
  <2> QED BY <2>1
<1>5. CASE i # j /\ k # j
  <2> DEFINE x == IF i < j THEN i ELSE i - 1
             y == IF k < j THEN k ELSE k - 1
  <2>1. r[i] = L[x] /\ x \in 1..Len(L)
    BY <1>0, <1>1, <1>5
  <2>2. r[k] = L[y] /\ y \in 1..Len(L)
    BY <1>0, <1>1, <1>5
  <2>3. x < y
    BY <1>0, <1>1, <1>5
  <2> HIDE DEF x, y
  <2> QED BY <1>2, <2>1, <2>2, <2>3
<1> QED BY <1>3, <1>4, <1>5

(* A lock with everything behind it sorted too is no exception.            *)
LEMMA SortedAll ==
    ASSUME NEW L \in Seq(LockRec), NEW at \in 1..Len(L), SortedBut(L, at),
           \A k \in at + 1..Len(L) : L[k].lf_id = L[at].lf_id => Before(L[at], L[k])
    PROVE  SortedBut(L, 0)
BY LenProperties DEF SortedBut

(* What lf_findoverlap(SELF) returns: an own lock that overlaps the range  *)
(* or is behind it, past own locks that are before the range.              *)
LEMMA FindSelfProperties ==
    ASSUME NEW L \in Seq(LockRec), NEW lock, NEW i \in 1..Len(L) + 1, NEW j, j = FindSelf(L, lock, i)
    PROVE  /\ j \in i..Len(L) + 1
           /\ j <= Len(L) => L[j].lf_id = lock.lf_id /\ (Overlap(L[j], lock) \/ Before(lock, L[j]))
           /\ \A k \in i..j - 1 : L[k].lf_id = lock.lf_id => Before(L[k], lock)
<1> DEFINE found == {k \in i..Len(L) : L[k].lf_id = lock.lf_id
                        /\ (Overlap(L[k], lock) \/ Before(lock, L[k]))}
           T == found \cup {Len(L) + 1}
<1>1. Len(L) \in Nat
  BY LenProperties
<1>2. T \in SUBSET Nat /\ T # {}
  BY <1>1
<1>3. j = Min(T)
  BY DEF FindSelf, FirstOf
<1>4. j \in T /\ \A y \in T : j <= y
  BY <1>2, <1>3, MinIsLeast
<1>5. Len(L) + 1 \in T
  OBVIOUS
<1>6. j \in i..Len(L) + 1
  BY <1>1, <1>4, <1>5
<1>7. j <= Len(L) => j \in found
  BY <1>1, <1>4
<1>8. ASSUME NEW k \in i..j - 1, L[k].lf_id = lock.lf_id PROVE Before(L[k], lock)
  <2>1. k \notin T /\ k \in i..Len(L)
    BY <1>1, <1>4, <1>6
  <2>2. ~(Overlap(L[k], lock) \/ Before(lock, L[k]))
    BY <2>1, <1>8
  <2> QED BY <2>2 DEF Overlap
<1> QED BY <1>6, <1>7, <1>8

-----------------------------------------------------------------------------
(* What is true of the locks as a set. *)

(* p is blocked on a lock of x. *)
On(S, p, x) == \E l \in S : p \in ToSet(l.lf_blkhd) /\ l.lf_id = x

(* The request of p, as q has it. *)
Asked(q, p) == Lock(p, q[p].lf_type, q[p])

(* Who is blocked on a lock conflicts with it and is on no other list.     *)
WaitOK(S, q) ==
    \A l \in S : \A p \in ToSet(l.lf_blkhd) :
        Conflicts(l, Asked(q, p)) /\ \A m \in S : p \in ToSet(m.lf_blkhd) => m = l

(* p holds byte b with type t. *)
Holds(S, p, b, t) == \E l \in S : l.lf_id = p /\ Covers(l, b) /\ l.lf_type = t

(* What has become of the locks S0 when a round of a loop has left S: who  *)
(* is in W has been taken off, the others are blocked as before, and only  *)
(* the bytes of the range of lock have changed, for its owner.             *)
Effect(S0, S, W, lock, q) ==
    /\ WaitOK(S, q)
    /\ \A p, x \in Owners : On(S, p, x) <=> On(S0, p, x) /\ p \notin W
    /\ \A l \in S \cup S0 : l.lf_id # lock.lf_id => l \in S /\ l \in S0
    /\ \A b \in Nat, t \in Types :
          ~Covers(lock, b) => (Holds(S, lock.lf_id, b, t) <=> Holds(S0, lock.lf_id, b, t))

(* One round after the other.                                              *)
LEMMA EffectTrans ==
    ASSUME NEW S0, NEW S1, NEW S2, NEW V, NEW W, NEW lock, NEW q,
           Effect(S0, S1, V, lock, q), Effect(S1, S2, W, lock, q)
    PROVE  Effect(S0, S2, V \cup W, lock, q)
<1>1. WaitOK(S2, q)
  BY DEF Effect
<1>2. \A p, x \in Owners : On(S2, p, x) <=> On(S0, p, x) /\ p \notin V \cup W
  BY DEF Effect
<1>3. \A l \in S2 \cup S0 : l.lf_id # lock.lf_id => l \in S2 /\ l \in S0
  <2>1. \A l \in S1 \cup S0 : l.lf_id # lock.lf_id => l \in S1 /\ l \in S0
    BY DEF Effect
  <2>2. \A l \in S2 \cup S1 : l.lf_id # lock.lf_id => l \in S2 /\ l \in S1
    BY DEF Effect
  <2> QED BY <2>1, <2>2
<1>4. ASSUME NEW b \in Nat, NEW t \in Types, ~Covers(lock, b)
      PROVE  Holds(S2, lock.lf_id, b, t) <=> Holds(S0, lock.lf_id, b, t)
  BY <1>4 DEF Effect
<1> QED BY <1>1, <1>2, <1>3, <1>4 DEF Effect

(* A lock in whose place come locks on which nobody is blocked: everybody  *)
(* who was blocked on it is woken.                                         *)
LEMMA SwapAndWake ==
    ASSUME NEW R, NEW o, o \notin R, NEW P, NEW lock, NEW q, WaitOK(R \cup {o}, q),
           o.lf_id = lock.lf_id,
           \A m \in P : m.lf_id = lock.lf_id /\ ToSet(m.lf_blkhd) = {},
           \A b \in Nat : ~Covers(lock, b) => \A m \in P : Covers(m, b) =>
              Covers(o, b) /\ m.lf_type = o.lf_type,
           \A b \in Nat : ~Covers(lock, b) /\ Covers(o, b) =>
              \E m \in P : Covers(m, b) /\ m.lf_type = o.lf_type
    PROVE  Effect(R \cup {o}, R \cup P, ToSet(o.lf_blkhd), lock, q)
<1> DEFINE S == R \cup {o}
           T == R \cup P
<1>1. WaitOK(T, q)
  BY DEF WaitOK
<1>2. ASSUME NEW p, NEW x
      PROVE  On(T, p, x) <=> On(S, p, x) /\ p \notin ToSet(o.lf_blkhd)
  BY DEF On, WaitOK
<1>3. \A l \in T \cup S : l.lf_id # lock.lf_id => l \in T /\ l \in S
  OBVIOUS
<1>4. ASSUME NEW b \in Nat, NEW t, ~Covers(lock, b)
      PROVE  Holds(T, lock.lf_id, b, t) <=> Holds(S, lock.lf_id, b, t)
  BY <1>4 DEF Holds
<1> QED BY <1>1, <1>2, <1>3, <1>4 DEF Effect

(* Locks in whose place comes one that has their requests and conflicts    *)
(* with all of them.                                                       *)
LEMMA SwapAndKeep ==
    ASSUME NEW R, NEW X, NEW z, R \cap X = {}, NEW lock, NEW q, WaitOK(R \cup X, q),
           z.lf_id = lock.lf_id,
           \A o \in X : o.lf_id = lock.lf_id,
           ToSet(z.lf_blkhd) = UNION {ToSet(o.lf_blkhd) : o \in X},
           \A o \in X : \A p \in ToSet(o.lf_blkhd) :
              Conflicts(o, Asked(q, p)) => Conflicts(z, Asked(q, p)),
           \A b \in Nat : ~Covers(lock, b) => ~Covers(z, b) /\ \A o \in X : ~Covers(o, b)
    PROVE  Effect(R \cup X, R \cup {z}, {}, lock, q)
<1> DEFINE S == R \cup X
           T == R \cup {z}
<1>0. \A p : p \in ToSet(z.lf_blkhd) <=> \E o \in X : p \in ToSet(o.lf_blkhd)
  OBVIOUS
<1>1. WaitOK(T, q)
  <2>1. ASSUME NEW l \in R, NEW p \in ToSet(l.lf_blkhd)
        PROVE  Conflicts(l, Asked(q, p)) /\ p \notin ToSet(z.lf_blkhd)
               /\ \A m \in R : p \in ToSet(m.lf_blkhd) => m = l
    BY <1>0 DEF WaitOK
  <2>2. ASSUME NEW p \in ToSet(z.lf_blkhd)
        PROVE  Conflicts(z, Asked(q, p)) /\ \A m \in R : p \notin ToSet(m.lf_blkhd)
    BY <1>0 DEF WaitOK
  <2> QED BY <2>1, <2>2 DEF WaitOK
<1>2. ASSUME NEW p, NEW x PROVE On(T, p, x) <=> On(S, p, x) /\ p \notin {}
  BY <1>0 DEF On
<1>3. \A l \in T \cup S : l.lf_id # lock.lf_id => l \in T /\ l \in S
  OBVIOUS
<1>4. ASSUME NEW b \in Nat, NEW t, ~Covers(lock, b)
      PROVE  Holds(T, lock.lf_id, b, t) <=> Holds(S, lock.lf_id, b, t)
  BY <1>4 DEF Holds
<1> QED BY <1>1, <1>2, <1>3, <1>4 DEF Effect

-----------------------------------------------------------------------------
(* Replacing a lock of the list, with what it does to the whole.           *)

(* The own locks behind the one at position at begin behind it.            *)
Behind(L, at) ==
    at # 0 => /\ at \in 1..Len(L)
              /\ \A k \in at + 1..Len(L) : L[k].lf_id = L[at].lf_id => L[k].lf_start > L[at].lf_start

(* A lock is in the list once.                                             *)
LEMMA OnlyOnce ==
    ASSUME NEW L, ListOK(L), NEW at \in Nat, NEW j \in 1..Len(L), at < j, SortedBut(L, at), Behind(L, at)
    PROVE  L[j] \notin Others(L, j)
<1>0. Len(L) \in Nat /\ \A k \in 1..Len(L) : Ranged(L[k])
  BY LenProperties DEF ListOK
<1> SUFFICES ASSUME NEW k \in (1..Len(L)) \ {j}, L[k] = L[j] PROVE FALSE
  BY DEF Others
<1>1. ~Before(L[j], L[j])
  BY <1>0, OverlapBytes
<1>2. CASE k < j /\ k # at
  BY <1>1, <1>2 DEF SortedBut
<1>3. CASE k = at
  BY <1>0, <1>3 DEF Behind, Ranged
<1>4. CASE k > j
  BY <1>1, <1>4 DEF SortedBut
<1> QED BY <1>0, <1>2, <1>3, <1>4

(* The locks of a list and their positions.                                *)
LEMMA ListSet ==
    ASSUME NEW L, ListOK(L)
    PROVE  /\ Len(L) \in Nat /\ DOMAIN L = 1..Len(L) /\ \A k \in 1..Len(L) : L[k] \in LockRec /\ Ranged(L[k])
           /\ \A l \in ToSet(L) : l \in LockRec /\ Ranged(l) /\ \E k \in 1..Len(L) : l = L[k]
           /\ \A k \in 1..Len(L) : L[k] \in ToSet(L)
<1>1. Len(L) \in Nat /\ DOMAIN L = 1..Len(L) /\ \A k \in 1..Len(L) : L[k] \in LockRec /\ Ranged(L[k])
  BY LenProperties DEF ListOK
<1> QED BY <1>1 DEF ToSet

(* A list stays one when locks replace a lock.                             *)
LEMMA SpliceList ==
    ASSUME NEW L, ListOK(L), NEW j \in 1..Len(L), NEW parts \in Seq(LockRec),
           \A m \in 1..Len(parts) : Ranged(parts[m])
    PROVE  ListOK(Splice(L, j, parts))
<1> DEFINE r == Splice(L, j, parts)
<1>1. L \in Seq(LockRec)
  BY DEF ListOK
<1>2. r \in Seq(LockRec)
  BY <1>1, SpliceElements, Zenon
<1>3. ToSet(r) = Others(L, j) \cup {parts[m] : m \in 1..Len(parts)}
  BY <1>1, SpliceSet
<1> HIDE DEF r
<1>4. \A l \in ToSet(r) : Ranged(l)
  BY <1>3 DEF Others, ListOK
<1>5. \A k \in 1..Len(r) : r[k] \in ToSet(r)
  BY <1>2, LenProperties DEF ToSet
<1> QED BY <1>2, <1>4, <1>5 DEF ListOK, r

(* A lock is replaced by its pieces outside the range, with or without the *)
(* new lock; at2 is where that is when it may still overlap what follows.  *)
LEMMA CutStep ==
    ASSUME NEW L, ListOK(L), NEW at \in Nat, NEW j \in 1..Len(L), at < j, SortedBut(L, at), Behind(L, at),
           NEW lock, Ranged(lock), NEW q, WaitOK(ToSet(L), q), L[j].lf_id = lock.lf_id,
           NEW mid, NEW parts, CutOK(parts, L[j], lock, mid),
           NEW at2 \in Nat, at = 0 \/ at2 = at,
           mid # <<>> => \A i \in 1..j - 1 : i # at2 /\ L[i].lf_id = lock.lf_id => Before(L[i], lock),
           \A m \in 1..Len(parts) : parts[m] = lock =>
              \/ at2 = j + m - 1
              \/ L[j].lf_end = EOF
              \/ lock.lf_end # EOF /\ lock.lf_end <= L[j].lf_end
    PROVE  /\ ListOK(Splice(L, j, parts))
           /\ SortedBut(Splice(L, j, parts), at2)
           /\ Effect(ToSet(L), ToSet(Splice(L, j, parts)), ToSet(L[j].lf_blkhd), lock, q)
<1> DEFINE o == L[j]
           r == Splice(L, j, parts)
           R == Others(L, j)
           P == {parts[m] : m \in 1..Len(parts)}
<1>0. /\ L \in Seq(LockRec) /\ Len(L) \in Nat /\ o \in LockRec /\ Ranged(o)
      /\ \A k \in 1..Len(L) : L[k] \in LockRec /\ Ranged(L[k])
  BY LenProperties DEF ListOK
<1>1. /\ parts \in Seq(LockRec)
      /\ \A m \in 1..Len(parts) :
            /\ parts[m] \in LockRec /\ Ranged(parts[m]) /\ parts[m].lf_id = o.lf_id /\ parts[m].lf_blkhd = <<>>
            /\ \/ Piece(parts[m], o, lock) /\ ~Overlap(parts[m], lock)
               \/ parts[m] = lock /\ mid # <<>>
      /\ \A m, n \in 1..Len(parts) : m < n => Before(parts[m], parts[n])
      /\ \A b \in Nat : Covers(o, b) /\ ~Covers(lock, b) =>
            \E m \in 1..Len(parts) : Covers(parts[m], b) /\ parts[m].lf_type = o.lf_type
  BY DEF CutOK
<1>2. ListOK(r)
  BY <1>1, SpliceList
<1>3. \A i, k \in 1..Len(L) : i < k /\ i # at /\ L[i].lf_id = L[k].lf_id => Before(L[i], L[k])
  BY DEF SortedBut
<1>4. ASSUME NEW i \in 1..j - 1, NEW m \in 1..Len(parts), i # at2, L[i].lf_id = o.lf_id
      PROVE  Before(L[i], parts[m])
  <2>1. Before(L[i], o)
    <3>1. i \in 1..Len(L) /\ i < j /\ i # at
      BY <1>0, <1>4
    <3> QED BY <1>3, <1>4, <3>1
  <2>2. CASE Piece(parts[m], o, lock)
    BY <2>1, <2>2, <1>0, <1>1, SMTT(40) DEF Before, Piece, Ranged
  <2>3. CASE parts[m] = lock /\ mid # <<>>
    BY <1>4, <2>3
  <2> QED BY <1>1, <2>2, <2>3
<1>5. ASSUME NEW m \in 1..Len(parts), NEW k \in j + 1..Len(L), L[k].lf_id = o.lf_id, at2 # j + m - 1
      PROVE  Before(parts[m], L[k])
  <2>1. Before(o, L[k])
    <3>1. k \in 1..Len(L) /\ j < k /\ j # at
      BY <1>0
    <3> QED BY <1>3, <1>5, <3>1
  <2>2. o.lf_end \in Nat /\ L[k].lf_start \in Nat /\ L[k].lf_start > o.lf_end
    BY <1>0, <2>1 DEF Before, Ranged, EOF
  <2>3. CASE Piece(parts[m], o, lock)
    BY <2>2, <2>3, SMTT(40) DEF Before, Piece, Ranged, EOF
  <2>4. CASE parts[m] = lock
    <3>1. lock.lf_end # EOF /\ lock.lf_end <= o.lf_end
      <4>1. \/ at2 = j + m - 1
            \/ L[j].lf_end = EOF
            \/ lock.lf_end # EOF /\ lock.lf_end <= L[j].lf_end
        BY <2>4, Zenon
      <4>2. o.lf_end # EOF
        BY <2>2 DEF EOF
      <4> QED BY <1>5, <4>1, <4>2, Zenon
    <3> QED BY <2>2, <2>4, <3>1, SMTT(40) DEF Before, Ranged, EOF
  <2> QED BY <1>1, <2>3, <2>4
<1>6. SortedBut(r, at2)
  <2>1. /\ \A m \in 1..Len(parts) : parts[m].lf_id = L[j].lf_id
        /\ \A i \in 1..j - 1, m \in 1..Len(parts) :
              i # at2 /\ L[i].lf_id = L[j].lf_id => Before(L[i], parts[m])
        /\ \A m, n \in 1..Len(parts) : m < n => Before(parts[m], parts[n]) \/ at2 = j + m - 1
        /\ \A m \in 1..Len(parts), k \in j + 1..Len(L) :
              L[k].lf_id = L[j].lf_id => Before(parts[m], L[k]) \/ at2 = j + m - 1
    BY <1>1, <1>4, <1>5
  <2>2. L \in Seq(LockRec) /\ parts \in Seq(LockRec)
    BY <1>0, <1>1
  <2>3. j \in 1..Len(L) /\ at \in Nat /\ at < j /\ at2 \in Nat /\ (at = 0 \/ at2 = at) /\ SortedBut(L, at)
    OBVIOUS
  <2> QED BY ONLY <2>1, <2>2, <2>3, SpliceSorted
<1>7. ToSet(r) = R \cup P /\ ToSet(L) = R \cup {o}
  BY <1>0, <1>1, SpliceSet
<1>8. o \notin R
  BY OnlyOnce
<1>9. \A m \in P : m.lf_id = lock.lf_id /\ ToSet(m.lf_blkhd) = {}
  <2>1. \A m \in P : m.lf_id = lock.lf_id /\ m.lf_blkhd = <<>>
    BY <1>1
  <2>2. ToSet(<<>>) = {}
    BY SmallQueues
  <2> QED BY <2>1, <2>2, Zenon
<1>10. ASSUME NEW b \in Nat, ~Covers(lock, b), NEW m \in P, Covers(m, b)
       PROVE  Covers(o, b) /\ m.lf_type = o.lf_type
  <2>1. Piece(m, o, lock)
    BY <1>1, <1>10
  <2> QED BY <1>10, <2>1, <1>0 DEF Piece, Covers, Ranged, EOF
<1>11. \A b \in Nat : ~Covers(lock, b) /\ Covers(o, b) => \E m \in P : Covers(m, b) /\ m.lf_type = o.lf_type
  BY <1>1
<1> HIDE DEF o, r, R, P
<1>12. Effect(R \cup {o}, R \cup P, ToSet(o.lf_blkhd), lock, q)
  <2>1. WaitOK(R \cup {o}, q) /\ o.lf_id = lock.lf_id
    BY <1>7 DEF o
  <2> QED BY <1>8, <1>9, <1>10, <1>11, <2>1, SwapAndWake
<1> QED BY <1>2, <1>6, <1>7, <1>12 DEF o, r

(* What a request asks for is a range of bytes. *)
ReqOK(q) == \A p \in Owners : Ranged(q[p])

(* z is the lock that is set, whoever is blocked on it. *)
IsLock(z, lock) ==
    /\ z.lf_id = lock.lf_id /\ z.lf_type = lock.lf_type
    /\ z.lf_start = lock.lf_start /\ z.lf_end = lock.lf_end

(* lock takes over all of o. *)
Inside(o, lock) ==
    lock.lf_start <= o.lf_start /\ (lock.lf_end = EOF \/ (o.lf_end # EOF /\ o.lf_end <= lock.lf_end))

Downgrade(o, lock) == lock.lf_type = "F_RDLCK" /\ o.lf_type = "F_WRLCK"

(* Who is blocked on a lock is blocked on one that is larger and not weaker. *)
LEMMA ConflictsKept ==
    ASSUME NEW o, NEW z, NEW lock, NEW a, Ranged(o), Ranged(lock), Ranged(a), IsLock(z, lock),
           o.lf_id = lock.lf_id, o.lf_type \in Types, lock.lf_type \in Types,
           Inside(o, lock), ~Downgrade(o, lock), Conflicts(o, a)
    PROVE  Conflicts(z, a)
<1>1. Overlap(z, a)
  BY DEF Conflicts, Overlap, Before, Ranged, IsLock, Inside, EOF
<1>2. "F_WRLCK" \in {z.lf_type, a.lf_type}
  BY DEF Conflicts, IsLock, Downgrade, Types
<1> QED BY <1>1, <1>2 DEF Conflicts, IsLock

(* The first lock that the new one takes over, and who is blocked on it.   *)
LEMMA KeepFirst ==
    ASSUME NEW L, ListOK(L), NEW j \in 1..Len(L), SortedBut(L, 0),
           NEW lock \in LockRec, Ranged(lock), NEW q, ReqOK(q), WaitOK(ToSet(L), q),
           L[j].lf_id = lock.lf_id, Inside(L[j], lock), ~Downgrade(L[j], lock),
           \A i \in 1..j - 1 : L[i].lf_id = lock.lf_id => Before(L[i], lock),
           NEW z, z = [lock EXCEPT !.lf_blkhd = L[j].lf_blkhd],
           NEW at2 \in Nat,
           at2 = j \/ L[j].lf_end = EOF \/ (lock.lf_end # EOF /\ lock.lf_end <= L[j].lf_end)
    PROVE  /\ z \in LockRec /\ IsLock(z, lock)
           /\ ListOK(Splice(L, j, <<z>>))
           /\ SortedBut(Splice(L, j, <<z>>), at2)
           /\ Effect(ToSet(L), ToSet(Splice(L, j, <<z>>)), {}, lock, q)
<1> DEFINE o == L[j]
           parts == <<z>>
           r == Splice(L, j, parts)
           R == Others(L, j)
<1>0. /\ L \in Seq(LockRec) /\ Len(L) \in Nat /\ o \in LockRec /\ Ranged(o)
      /\ \A k \in 1..Len(L) : L[k] \in LockRec /\ Ranged(L[k])
  BY LenProperties DEF ListOK
<1>1. o.lf_blkhd \in Seq(Owners)
  BY <1>0 DEF LockRec
<1>2. z \in LockRec /\ IsLock(z, lock) /\ z.lf_blkhd = o.lf_blkhd
  BY <1>1 DEF LockRec, IsLock
<1>3. Ranged(z) /\ z.lf_id = o.lf_id
  BY <1>2 DEF Ranged, InFile, IsLock
<1>4. parts \in Seq(LockRec) /\ Len(parts) = 1 /\ parts[1] = z
  BY <1>2, Tuples
<1>5. \A m \in 1..Len(parts) : m = 1 /\ parts[m] = z
  BY <1>4
<1> HIDE DEF parts
<1>6. ListOK(r)
  BY <1>3, <1>4, <1>5, SpliceList
<1>7. \A i, k \in 1..Len(L) : i < k /\ L[i].lf_id = L[k].lf_id => Before(L[i], L[k])
  <2>1. \A i \in 1..Len(L) : i # 0
    BY <1>0
  <2> QED BY <2>1 DEF SortedBut
<1>8. ASSUME NEW i \in 1..j - 1, L[i].lf_id = o.lf_id PROVE Before(L[i], z)
  BY <1>2, <1>8 DEF Before, IsLock
<1>9. ASSUME NEW k \in j + 1..Len(L), L[k].lf_id = o.lf_id, at2 # j PROVE Before(z, L[k])
  <2>1. Before(o, L[k])
    <3>1. k \in 1..Len(L) /\ j < k
      BY <1>0
    <3> QED BY <1>7, <1>9, <3>1
  <2>2. o.lf_end # EOF /\ L[k].lf_start > o.lf_end
    BY <2>1 DEF Before
  <2>3. lock.lf_end # EOF /\ lock.lf_end <= o.lf_end
    BY <1>9, <2>2
  <2> QED BY <1>0, <1>2, <2>2, <2>3, SMTT(40) DEF Before, Ranged, IsLock, EOF
<1>10. SortedBut(r, at2)
  <2>1. /\ \A m \in 1..Len(parts) : parts[m].lf_id = L[j].lf_id
        /\ \A i \in 1..j - 1, m \in 1..Len(parts) :
              i # at2 /\ L[i].lf_id = L[j].lf_id => Before(L[i], parts[m])
        /\ \A m, n \in 1..Len(parts) : m < n => Before(parts[m], parts[n]) \/ at2 = j + m - 1
        /\ \A m \in 1..Len(parts), k \in j + 1..Len(L) :
              L[k].lf_id = L[j].lf_id => Before(parts[m], L[k]) \/ at2 = j + m - 1
    <3>1. \A m \in 1..Len(parts) : parts[m].lf_id = L[j].lf_id
      BY <1>3, <1>5
    <3>2. \A i \in 1..j - 1, m \in 1..Len(parts) :
             i # at2 /\ L[i].lf_id = L[j].lf_id => Before(L[i], parts[m])
      BY <1>5, <1>8
    <3>3. \A m, n \in 1..Len(parts) : m < n => Before(parts[m], parts[n]) \/ at2 = j + m - 1
      BY <1>4
    <3>4. \A m \in 1..Len(parts), k \in j + 1..Len(L) :
              L[k].lf_id = L[j].lf_id => Before(parts[m], L[k]) \/ at2 = j + m - 1
      <4>1. \A m \in 1..Len(parts) : parts[m] = z /\ j + m - 1 = j
        BY <1>0, <1>5
      <4> QED BY <1>9, <4>1, Zenon
    <3> QED BY <3>1, <3>2, <3>3, <3>4
  <2>2. /\ L \in Seq(LockRec) /\ parts \in Seq(LockRec) /\ j \in 1..Len(L) /\ 0 \in Nat /\ 0 < j /\ at2 \in Nat
        /\ SortedBut(L, 0) /\ (0 = 0 \/ at2 = 0)
    BY <1>0, <1>4
  <2> QED BY ONLY <2>1, <2>2, SpliceSorted
<1>11. ToSet(r) = R \cup {z} /\ ToSet(L) = R \cup {o}
  <2>1. ToSet(r) = R \cup {parts[m] : m \in 1..Len(parts)} /\ ToSet(L) = R \cup {o}
    <3>1. L \in Seq(LockRec) /\ parts \in Seq(LockRec) /\ j \in 1..Len(L)
      BY <1>0, <1>4
    <3> QED BY ONLY <3>1, SpliceSet DEF r, R, o
  <2>2. {parts[m] : m \in 1..Len(parts)} = {z}
    BY <1>4
  <2> QED BY <2>1, <2>2
<1>12. o \notin R
  BY <1>0, OnlyOnce DEF Behind
<1>13. \A p \in ToSet(o.lf_blkhd) : Conflicts(o, Asked(q, p)) => Conflicts(z, Asked(q, p))
  <2> SUFFICES ASSUME NEW p \in ToSet(o.lf_blkhd), Conflicts(o, Asked(q, p)) PROVE Conflicts(z, Asked(q, p))
    OBVIOUS
  <2>1. p \in Owners
    BY <1>1, ToSetEmpty
  <2>2. Ranged(Asked(q, p))
    BY <2>1 DEF ReqOK, Asked, Lock, Ranged, InFile
  <2>3. o.lf_type \in Types /\ lock.lf_type \in Types
    BY <1>0 DEF LockRec
  <2> QED BY <1>0, <1>2, <2>2, <2>3, ConflictsKept
<1>14. \A b \in Nat : ~Covers(lock, b) => ~Covers(z, b) /\ ~Covers(o, b)
  BY <1>0, <1>2 DEF Covers, Inside, IsLock, Ranged, EOF
<1> HIDE DEF o, r, R
<1>15. Effect(R \cup {o}, R \cup {z}, {}, lock, q)
  <2> DEFINE X == {o}
  <2>1. R \cap X = {} /\ WaitOK(R \cup X, q) /\ \A x \in X : x.lf_id = lock.lf_id
    BY <1>11, <1>12 DEF o
  <2>2. ToSet(z.lf_blkhd) = UNION {ToSet(x.lf_blkhd) : x \in X}
    BY <1>2
  <2>3. /\ \A x \in X : \A p \in ToSet(x.lf_blkhd) : Conflicts(x, Asked(q, p)) => Conflicts(z, Asked(q, p))
        /\ \A b \in Nat : ~Covers(lock, b) => ~Covers(z, b) /\ \A x \in X : ~Covers(x, b)
    BY <1>13, <1>14
  <2>4. z.lf_id = lock.lf_id
    BY <1>2 DEF IsLock
  <2> HIDE DEF X
  <2>5. Effect(R \cup X, R \cup {z}, {}, lock, q)
    BY ONLY <2>1, <2>2, <2>3, <2>4, SwapAndKeep
  <2> QED BY <2>5 DEF X
<1> QED BY <1>2, <1>6, <1>10, <1>11, <1>15 DEF r, parts

(* The members of two queues, one behind the other.                        *)
LEMMA ConcatSet ==
    ASSUME NEW S, NEW u \in Seq(S), NEW v \in Seq(S)
    PROVE  ToSet(u \o v) = ToSet(u) \cup ToSet(v)
<1> DEFINE w == u \o v
<1>1. /\ w \in Seq(S) /\ Len(w) = Len(u) + Len(v)
      /\ \A i \in 1..Len(u) + Len(v) : w[i] = IF i <= Len(u) THEN u[i] ELSE v[i - Len(u)]
  BY ConcatProperties
<1>2. /\ Len(u) \in Nat /\ Len(v) \in Nat
      /\ DOMAIN u = 1..Len(u) /\ DOMAIN v = 1..Len(v) /\ DOMAIN w = 1..Len(u) + Len(v)
  BY <1>1, LenProperties
<1> HIDE DEF w
<1>3. ASSUME NEW i \in DOMAIN w PROVE w[i] \in ToSet(u) \cup ToSet(v)
  <2>1. CASE i <= Len(u)
    BY <1>1, <1>2, <2>1 DEF ToSet
  <2>2. CASE i > Len(u)
    <3>1. i - Len(u) \in DOMAIN v /\ w[i] = v[i - Len(u)]
      BY <1>1, <1>2, <2>2
    <3> QED BY <3>1 DEF ToSet
  <2> QED BY <1>2, <2>1, <2>2
<1>4. ASSUME NEW i \in DOMAIN u PROVE u[i] \in ToSet(w)
  <2>1. i \in DOMAIN w /\ w[i] = u[i]
    BY <1>1, <1>2
  <2> QED BY <2>1 DEF ToSet
<1>5. ASSUME NEW i \in DOMAIN v PROVE v[i] \in ToSet(w)
  <2>1. i + Len(u) \in 1..Len(u) + Len(v) /\ ~(i + Len(u) <= Len(u)) /\ (i + Len(u)) - Len(u) = i
    BY <1>2
  <2>2. i + Len(u) \in DOMAIN w /\ w[i + Len(u)] = v[i]
    BY <1>1, <1>2, <2>1
  <2> QED BY <2>2 DEF ToSet
<1> QED BY <1>3, <1>4, <1>5 DEF ToSet, w

(* Taking a lock out of the list.                                          *)
LEMMA SpliceOut ==
    ASSUME NEW L, ListOK(L), NEW j \in 1..Len(L), NEW at \in Nat, at < j, SortedBut(L, at)
    PROVE  /\ ListOK(Splice(L, j, <<>>)) /\ Len(Splice(L, j, <<>>)) = Len(L) - 1
           /\ \A k \in 1..Len(L) - 1 : Splice(L, j, <<>>)[k] = IF k < j THEN L[k] ELSE L[k + 1]
           /\ ToSet(Splice(L, j, <<>>)) = Others(L, j)
           /\ SortedBut(Splice(L, j, <<>>), at)
<1>0. L \in Seq(LockRec) /\ Len(L) \in Nat
  BY LenProperties DEF ListOK
<1>1. PICK e : e = <<>>
  OBVIOUS
<1>2. e \in Seq(LockRec)
  BY <1>1, EmptySeq
<1>9. Len(e) = 0
  BY <1>1, EmptySeq
<1>3. PICK r : r = Splice(L, j, e)
  OBVIOUS
<1>4. ListOK(r)
  <2>1. \A m \in 1..Len(e) : Ranged(e[m])
    BY <1>9
  <2> QED BY <1>2, <1>3, <2>1, SpliceList
<1>5. /\ Len(r) = Len(L) - 1 + Len(e)
      /\ \A k \in 1..Len(L) - 1 + Len(e) :
            r[k] = IF k < j THEN L[k] ELSE IF k < j + Len(e) THEN e[k - j + 1] ELSE L[k - Len(e) + 1]
  BY <1>0, <1>2, <1>3, SpliceElements
<1>6. /\ Len(r) = Len(L) - 1
      /\ \A k \in 1..Len(L) - 1 : r[k] = IF k < j THEN L[k] ELSE L[k + 1]
  BY <1>0, <1>5, <1>9
<1>7. ToSet(r) = Others(L, j)
  <2>1. ToSet(r) = Others(L, j) \cup {e[m] : m \in 1..Len(e)}
    BY <1>0, <1>2, <1>3, SpliceSet
  <2>2. {e[m] : m \in 1..Len(e)} = {}
    BY <1>9
  <2> QED BY <2>1, <2>2
<1>8. SortedBut(r, at)
  <2>1. /\ \A m \in 1..Len(e) : e[m].lf_id = L[j].lf_id
        /\ \A i \in 1..j - 1, m \in 1..Len(e) :
              i # at /\ L[i].lf_id = L[j].lf_id => Before(L[i], e[m])
        /\ \A m, n \in 1..Len(e) : m < n => Before(e[m], e[n]) \/ at = j + m - 1
        /\ \A m \in 1..Len(e), k \in j + 1..Len(L) :
              L[k].lf_id = L[j].lf_id => Before(e[m], L[k]) \/ at = j + m - 1
    BY <1>9
  <2> QED BY <1>0, <1>2, <1>3, <2>1, SpliceSorted
<1> QED BY <1>1, <1>3, <1>4, <1>6, <1>7, <1>8

Joined(L, at, j) == [L EXCEPT ![at].lf_blkhd = @ \o L[j].lf_blkhd]

(* A further lock that the new one takes over: those who were blocked on   *)
(* it are now blocked on the new one.                                      *)
LEMMA KeepNext ==
    ASSUME NEW L, ListOK(L), NEW at \in 1..Len(L), NEW j \in 1..Len(L), at < j,
           SortedBut(L, at), Behind(L, at),
           NEW lock \in LockRec, Ranged(lock), NEW q, ReqOK(q), WaitOK(ToSet(L), q),
           IsLock(L[at], lock),
           L[j].lf_id = lock.lf_id, Inside(L[j], lock), ~Downgrade(L[j], lock)
    PROVE  LET r == Splice(Joined(L, at, j), j, <<>>)
           IN  /\ ListOK(r) /\ Len(r) = Len(L) - 1
               /\ SortedBut(r, at) /\ IsLock(r[at], lock)
               /\ \A k \in 1..Len(r) : k # at => r[k] = IF k < j THEN L[k] ELSE L[k + 1]
               /\ Effect(ToSet(L), ToSet(r), {}, lock, q)
<1> DEFINE o == L[j]
           y == L[at]
           z == [y EXCEPT !.lf_blkhd = @ \o o.lf_blkhd]
           L1 == Joined(L, at, j)
           r == Splice(L1, j, <<>>)
           R == {L[k] : k \in (1..Len(L)) \ {j, at}}
<1> SUFFICES /\ ListOK(r) /\ Len(r) = Len(L) - 1
             /\ SortedBut(r, at) /\ IsLock(r[at], lock)
             /\ \A k \in 1..Len(r) : k # at => r[k] = IF k < j THEN L[k] ELSE L[k + 1]
             /\ Effect(ToSet(L), ToSet(r), {}, lock, q)
  OBVIOUS
<1>0. /\ L \in Seq(LockRec) /\ Len(L) \in Nat /\ DOMAIN L = 1..Len(L) /\ o \in LockRec /\ Ranged(o)
      /\ y \in LockRec /\ Ranged(y) /\ \A k \in 1..Len(L) : L[k] \in LockRec /\ Ranged(L[k])
  BY LenProperties DEF ListOK
<1>1. o.lf_blkhd \in Seq(Owners) /\ y.lf_blkhd \in Seq(Owners)
  BY <1>0 DEF LockRec
<1>2. y.lf_blkhd \o o.lf_blkhd \in Seq(Owners)
  BY <1>1, ConcatProperties
<1>3. z \in LockRec /\ IsLock(z, lock) /\ z.lf_blkhd = y.lf_blkhd \o o.lf_blkhd
  BY <1>0, <1>2 DEF LockRec, IsLock
<1>4. Ranged(z)
  BY <1>3 DEF Ranged, InFile, IsLock
<1>5. L1 = [L EXCEPT ![at] = z]
  BY <1>0 DEF Joined
<1> HIDE DEF z
<1>6. L1 \in Seq(LockRec) /\ Len(L1) = Len(L) /\ \A k \in 1..Len(L) : L1[k] = IF k = at THEN z ELSE L[k]
  <2> HIDE DEF L1, o, y
  <2>1. L1 \in Seq(LockRec)
    BY <1>0, <1>3, <1>5, ExceptSeq
  <2>2. Len(L1) = Len(L)
    BY <1>0, <1>3, <1>5, ExceptSeq
  <2>3. \A k \in 1..Len(L) : L1[k] = IF k = at THEN z ELSE L[k]
    BY <1>0, <1>5
  <2> QED BY <2>1, <2>2, <2>3
<1> HIDE DEF L1
<1>7. ListOK(L1)
  BY <1>0, <1>4, <1>6 DEF ListOK
<1>8. SortedBut(L1, at)
  <2>1. \A k \in 1..Len(L) : L1[k].lf_id = L[k].lf_id /\ L1[k].lf_start = L[k].lf_start /\ L1[k].lf_end = L[k].lf_end
    BY <1>3, <1>6 DEF IsLock
  <2> QED BY <1>6, <2>1 DEF SortedBut, Before
<1>10. /\ ListOK(r) /\ SortedBut(r, at) /\ ToSet(r) = Others(L1, j)
       /\ Len(r) = Len(L1) - 1
       /\ \A k \in 1..Len(L1) - 1 : r[k] = IF k < j THEN L1[k] ELSE L1[k + 1]
  <2>1. j \in 1..Len(L1) /\ at \in Nat /\ at < j
    BY <1>0, <1>6
  <2>2. PICK M : M = L1
    OBVIOUS
  <2>3. ListOK(M) /\ j \in 1..Len(M) /\ SortedBut(M, at)
    BY <1>7, <1>8, <2>1, <2>2
  <2>4. /\ ListOK(Splice(M, j, <<>>)) /\ SortedBut(Splice(M, j, <<>>), at)
        /\ ToSet(Splice(M, j, <<>>)) = Others(M, j)
        /\ Len(Splice(M, j, <<>>)) = Len(M) - 1
        /\ \A k \in 1..Len(M) - 1 : Splice(M, j, <<>>)[k] = IF k < j THEN M[k] ELSE M[k + 1]
    BY ONLY <2>1, <2>3, SpliceOut
  <2> QED BY <2>2, <2>4
<1>12. /\ Len(r) = Len(L) - 1
       /\ \A k \in 1..Len(L) - 1 : r[k] = IF k < j THEN L1[k] ELSE L1[k + 1]
  BY <1>6, <1>10
<1>13. IsLock(r[at], lock) /\ \A k \in 1..Len(r) : k # at => r[k] = IF k < j THEN L[k] ELSE L[k + 1]
  <2> HIDE DEF r
  <2>1. at \in 1..Len(L) - 1 /\ at < j
    BY <1>0
  <2>2. r[at] = z
    BY <1>0, <1>6, <1>12, <2>1
  <2>3. ASSUME NEW k \in 1..Len(r), k # at PROVE r[k] = IF k < j THEN L[k] ELSE L[k + 1]
    <3>1. k \in 1..Len(L) - 1 /\ k \in 1..Len(L) /\ k + 1 \in 1..Len(L) /\ (~(k < j) => k + 1 # at)
      BY <1>0, <1>12
    <3>2. r[k] = IF k < j THEN L1[k] ELSE L1[k + 1]
      BY <1>12, <3>1
    <3> QED BY <1>6, <2>3, <3>1, <3>2
  <2> QED BY <1>3, <2>2, <2>3
<1>14. ToSet(r) = R \cup {z} /\ ToSet(L) = R \cup {y, o}
  <2>1. ToSet(r) = Others(L1, j)
    BY <1>10
  <2>2. Others(L1, j) = R \cup {z}
    <3>1. at # j
      BY <1>0
    <3>2. ASSUME NEW k \in (1..Len(L)) \ {j} PROVE L1[k] \in R \cup {z}
      BY <1>6
    <3>3. z = L1[at] /\ at \in (1..Len(L)) \ {j}
      BY <1>6, <3>1
    <3>4. ASSUME NEW k \in (1..Len(L)) \ {j, at} PROVE L[k] = L1[k]
      BY <1>6
    <3>5. Others(L1, j) = {L1[k] : k \in (1..Len(L)) \ {j}}
      BY <1>6 DEF Others
    <3> QED BY <3>2, <3>3, <3>4, <3>5
  <2>3. ToSet(L) = {L[k] : k \in 1..Len(L)}
    BY <1>0 DEF ToSet
  <2>4. ToSet(L) = R \cup {y, o}
    BY <2>3
  <2> QED BY <2>1, <2>2, <2>4
<1>15. o \notin R /\ y \notin R
  <2>1. o \notin R
    <3>1. o \notin Others(L, j)
      BY OnlyOnce
    <3> QED BY <3>1 DEF Others
  <2>2. ASSUME NEW k \in (1..Len(L)) \ {j, at}, L[k] = y PROVE FALSE
    <3>1. CASE k < at
      <4>1. Before(y, y)
        BY <2>2, <3>1 DEF SortedBut
      <4> QED BY <4>1, <1>0, OverlapBytes
    <3>2. CASE k > at
      <4>1. k \in at + 1..Len(L) /\ at # 0
        BY <1>0, <3>2
      <4>2. y.lf_start > y.lf_start
        BY <2>2, <4>1 DEF Behind
      <4> QED BY <4>2, <1>0 DEF Ranged
    <3> QED BY <1>0, <3>1, <3>2
  <2> QED BY <2>1, <2>2
<1>16. y.lf_id = lock.lf_id /\ y.lf_type = lock.lf_type /\ Inside(y, lock) /\ ~Downgrade(y, lock)
  BY <1>0 DEF IsLock, Inside, Downgrade, Ranged, EOF
<1>17. ASSUME NEW x \in {y, o}, NEW p \in ToSet(x.lf_blkhd), Conflicts(x, Asked(q, p))
       PROVE  Conflicts(z, Asked(q, p))
  <2>1. p \in Owners
    BY <1>1, ToSetEmpty
  <2>2. Ranged(Asked(q, p))
    BY <2>1 DEF ReqOK, Asked, Lock, Ranged, InFile
  <2>3. x.lf_type \in Types /\ lock.lf_type \in Types /\ Ranged(x)
    BY <1>0 DEF LockRec
  <2>4. x.lf_id = lock.lf_id /\ Inside(x, lock) /\ ~Downgrade(x, lock)
    BY <1>16
  <2> QED BY <1>3, <1>17, <2>2, <2>3, <2>4, ConflictsKept
<1>18. \A b \in Nat : ~Covers(lock, b) => ~Covers(z, b) /\ ~Covers(o, b) /\ ~Covers(y, b)
  BY <1>0, <1>3 DEF Covers, Inside, IsLock, Ranged, EOF
<1>19. ToSet(z.lf_blkhd) = ToSet(y.lf_blkhd) \cup ToSet(o.lf_blkhd)
  BY <1>1, <1>3, ConcatSet
<1> HIDE DEF o, y, r, R
<1>20. Effect(R \cup {y, o}, R \cup {z}, {}, lock, q)
  <2> DEFINE X == {y, o}
  <2>1. R \cap X = {} /\ WaitOK(R \cup X, q) /\ \A x \in X : x.lf_id = lock.lf_id
    BY <1>14, <1>15, <1>16 DEF o
  <2>2. ToSet(z.lf_blkhd) = UNION {ToSet(x.lf_blkhd) : x \in X}
    BY <1>19
  <2>3. /\ \A x \in X : \A p \in ToSet(x.lf_blkhd) : Conflicts(x, Asked(q, p)) => Conflicts(z, Asked(q, p))
        /\ \A b \in Nat : ~Covers(lock, b) => ~Covers(z, b) /\ \A x \in X : ~Covers(x, b)
    BY <1>17, <1>18
  <2>4. z.lf_id = lock.lf_id
    BY <1>3 DEF IsLock
  <2> HIDE DEF X
  <2>5. Effect(R \cup X, R \cup {z}, {}, lock, q)
    BY ONLY <2>1, <2>2, <2>3, <2>4, SwapAndKeep
  <2> QED BY <2>5 DEF X
<1> QED BY <1>10, <1>12, <1>13, <1>14, <1>20

-----------------------------------------------------------------------------
(* The rounds of lf_setlock and lf_clearlock. *)

RoundState == [list : Seq(LockRec), at : Nat, from : Nat, woken : SUBSET Owners, done : BOOLEAN]

(* The lock is in S, or one of the same type that has all its bytes.       *)
Covered(lock, S) ==
    \E m \in S : /\ m.lf_id = lock.lf_id /\ m.lf_type = lock.lf_type
                 /\ \A b \in Nat : Covers(lock, b) => Covers(m, b)

(* True in each round of lf_setlock, which began with the list L0: once    *)
(* the new lock is linked (at # 0), it is only the locks behind it that it *)
(* may still overlap, and those that have been passed are not its owner's. *)
SetInv(s, L0, lock, q) ==
    /\ s \in RoundState /\ ListOK(s.list)
    /\ Effect(ToSet(L0), ToSet(s.list), s.woken, lock, q)
    /\ s.done => SortedBut(s.list, 0) /\ Covered(lock, ToSet(s.list))
    /\ ~s.done =>
          /\ s.at < s.from /\ s.from \in 1..Len(s.list) + 1
          /\ SortedBut(s.list, s.at) /\ Behind(s.list, s.at)
          /\ s.at = 0 => s.from = 1
          /\ s.at # 0 => /\ IsLock(s.list[s.at], lock)
                         /\ \A k \in s.at + 1..s.from - 1 : s.list[k].lf_id # lock.lf_id

(* The round finds the lock at j, in case c.                               *)
SetPre(s, L0, lock, q, j, c) ==
    /\ SetInv(s, L0, lock, q) /\ ~s.done
    /\ lock \in LockRec /\ Ranged(lock) /\ lock.lf_blkhd = <<>> /\ ReqOK(q)
    /\ j = FindSelf(s.list, lock, s.from) /\ c = CaseAt(s.list, lock, j)

(* What the loop is left with.                                             *)
LEMMA LeaveFields ==
    ASSUME NEW s \in RoundState, NEW list \in Seq(LockRec), NEW woken \in SUBSET Owners
    PROVE  /\ Leave(s, list, woken) \in RoundState /\ Leave(s, list, woken).list = list
           /\ Leave(s, list, woken).woken = woken /\ Leave(s, list, woken).done = TRUE
BY DEF RoundState, Leave

(* A loop that has been left has been left.                                *)
LEMMA LeaveDone ==
    ASSUME NEW s \in RoundState, NEW list, NEW woken
    PROVE  Leave(s, list, woken).done
BY DEF RoundState, Leave

(* What a round of lf_setlock knows when it has found the lock.            *)
LEMMA SetFacts ==
    ASSUME NEW s, NEW L0, NEW lock, NEW q, NEW j, NEW c, SetPre(s, L0, lock, q, j, c)
    PROVE  /\ s \in RoundState /\ ListOK(s.list) /\ s.list \in Seq(LockRec) /\ Len(s.list) \in Nat
           /\ s.at \in Nat /\ s.at < j /\ j \in s.from..Len(s.list) + 1 /\ s.from \in Nat /\ s.from >= 1
           /\ WaitOK(ToSet(s.list), q) /\ c \in 0..5
           /\ c = 0 => /\ \A k \in j..Len(s.list) :
                             s.list[k].lf_id = lock.lf_id => Before(lock, s.list[k])
           /\ c # 0 => /\ j \in 1..Len(s.list) /\ s.list[j].lf_id = lock.lf_id
                       /\ Overlap(s.list[j], lock) /\ c = OverlapCase(s.list[j], lock)
                       /\ s.list[j] \in LockRec /\ Ranged(s.list[j])
                       /\ ToSet(s.list[j].lf_blkhd) \subseteq Owners
           /\ s.at = 0 => \A i \in 1..j - 1 : s.list[i].lf_id = lock.lf_id => Before(s.list[i], lock)
           /\ s.at # 0 => /\ \A k \in s.at + 1..j - 1 : s.list[k].lf_id # lock.lf_id
                          /\ c \in {0, 3, 5}
<1> DEFINE L == s.list
<1>0. /\ L \in Seq(LockRec) /\ Len(L) \in Nat /\ ListOK(L) /\ s \in RoundState
      /\ \A k \in 1..Len(L) : L[k] \in LockRec /\ Ranged(L[k])
  BY LenProperties DEF SetPre, SetInv, ListOK
<1>1. /\ s.at \in Nat /\ s.at < s.from /\ s.from \in 1..Len(L) + 1
      /\ SortedBut(L, s.at) /\ Behind(L, s.at)
      /\ s.at = 0 => s.from = 1
      /\ s.at # 0 => /\ IsLock(L[s.at], lock)
                     /\ \A k \in s.at + 1..s.from - 1 : L[k].lf_id # lock.lf_id
  BY <1>0 DEF SetPre, SetInv, RoundState
<1>2. /\ j \in s.from..Len(L) + 1
      /\ j <= Len(L) => L[j].lf_id = lock.lf_id /\ (Overlap(L[j], lock) \/ Before(lock, L[j]))
      /\ \A k \in s.from..j - 1 : L[k].lf_id = lock.lf_id => Before(L[k], lock)
  <2> HIDE DEF L
  <2>1. j = FindSelf(L, lock, s.from)
    BY DEF SetPre, L
  <2> QED BY <1>0, <1>1, <2>1, FindSelfProperties
<1>3. lock \in LockRec /\ Ranged(lock) /\ c = CaseAt(L, lock, j)
  BY DEF SetPre
<1>4. WaitOK(ToSet(L), q)
  BY DEF SetPre, SetInv, Effect
<1> HIDE DEF L
<1>5. s.at < j /\ s.from \in Nat /\ s.from >= 1 /\ (j <= Len(L) => j \in 1..Len(L))
  BY <1>0, <1>1, <1>2
<1>6. j <= Len(L) => c = OverlapCase(L[j], lock) /\ Ranged(L[j]) /\ L[j] \in LockRec
  BY <1>0, <1>3, <1>5 DEF CaseAt
<1>7. c \in 0..5 /\ (c # 0 => j <= Len(L) /\ Overlap(L[j], lock)) /\ (c = 0 /\ j <= Len(L) => ~Overlap(L[j], lock))
  <2>1. CASE j <= Len(L)
    BY <1>3, <1>6, <2>1, OverlapCases
  <2>2. CASE ~(j <= Len(L))
    <3>1. c = 0
      BY <1>0, <1>2, <1>3, <2>2 DEF CaseAt
    <3> QED BY <2>2, <3>1
  <2> QED BY <2>1, <2>2
<1>8. ASSUME c = 0, NEW k \in j..Len(L), L[k].lf_id = lock.lf_id PROVE Before(lock, L[k])
  <2>1. j <= Len(L) /\ k \in 1..Len(L) /\ j \in 1..Len(L)
    BY <1>0, <1>2, <1>5
  <2>2. Before(lock, L[j]) /\ L[j].lf_id = lock.lf_id
    BY <1>2, <1>7, <1>8, <2>1
  <2>3. CASE k = j
    BY <2>2, <2>3
  <2>4. CASE k # j
    <3>1. Before(L[j], L[k])
      BY <1>0, <1>1, <1>5, <1>8, <2>1, <2>2, <2>4 DEF SortedBut
    <3> QED BY <1>0, <1>3, <2>1, <2>2, <3>1 DEF Before, Ranged, EOF
  <2> QED BY <2>3, <2>4
<1>9. c # 0 => ToSet(L[j].lf_blkhd) \subseteq Owners
  <2> SUFFICES ASSUME c # 0 PROVE ToSet(L[j].lf_blkhd) \subseteq Owners
    OBVIOUS
  <2>1. L[j].lf_blkhd \in Seq(Owners)
    BY <1>6, <1>7 DEF LockRec
  <2> QED BY <2>1, ToSetEmpty
<1>10. s.at = 0 => \A i \in 1..j - 1 : L[i].lf_id = lock.lf_id => Before(L[i], lock)
  BY <1>1, <1>2
<1>11. ASSUME s.at # 0, NEW k \in s.at + 1..j - 1, L[k].lf_id = lock.lf_id PROVE FALSE
  <2>1. k \in s.from..j - 1 /\ k \in 1..Len(L) /\ k \in s.at + 1..Len(L)
    <3>1. k \notin s.at + 1..s.from - 1
      BY <1>1, <1>11
    <3> QED BY <1>0, <1>1, <1>2, <1>11, <3>1
  <2>2. Before(L[k], lock)
    BY <1>2, <1>11, <2>1
  <2>3. L[k].lf_start > lock.lf_start
    BY <1>1, <1>11, <2>1 DEF Behind, IsLock
  <2> QED BY <1>0, <1>3, <2>1, <2>2, <2>3 DEF Before, Ranged, EOF
<1>12. ASSUME s.at # 0, c # 0 PROVE c \in {3, 5}
  <2>1. j \in s.at + 1..Len(L) /\ j <= Len(L)
    BY <1>0, <1>1, <1>2, <1>7, <1>12
  <2>2. L[j].lf_id = lock.lf_id /\ L[s.at].lf_id = lock.lf_id /\ L[s.at].lf_start = lock.lf_start
    BY <1>1, <1>2, <1>12, <2>1 DEF IsLock
  <2>3. L[j].lf_start > lock.lf_start /\ lock.lf_start \in Nat /\ L[j].lf_start \in Nat
    BY <1>1, <1>3, <1>6, <1>12, <2>1, <2>2 DEF Behind, Ranged
  <2>4. c \in 0..5 /\ (c = 1 => L[j].lf_start = lock.lf_start) /\ (c = 2 => L[j].lf_start <= lock.lf_start)
        /\ (c = 4 => L[j].lf_start < lock.lf_start)
    BY <1>3, <1>6, <1>7, <1>12, OverlapCases
  <2> QED BY <1>12, <2>3, <2>4
<1> QED BY <1>0, <1>1, <1>2, <1>4, <1>5, <1>6, <1>7, <1>8, <1>9, <1>10, <1>11, <1>12, SMTT(60) DEF L

(* A round leaves the loop: the list is in order and has the lock.         *)
LEMMA SetLeaves ==
    ASSUME NEW s \in RoundState, NEW L0, NEW lock, NEW q, Effect(ToSet(L0), ToSet(s.list), s.woken, lock, q),
           NEW r, ListOK(r), SortedBut(r, 0), Covered(lock, ToSet(r)), NEW W \in SUBSET Owners,
           Effect(ToSet(s.list), ToSet(r), W, lock, q)
    PROVE  SetInv(Leave(s, r, s.woken \cup W), L0, lock, q)
<1>0. PICK V : V = s.woken \cup W
  OBVIOUS
<1>1. r \in Seq(LockRec) /\ V \in SUBSET Owners
  BY <1>0 DEF ListOK, RoundState
<1>2. PICK t : t = Leave(s, r, V)
  OBVIOUS
<1>3. t \in RoundState /\ t.list = r /\ t.woken = V /\ t.done = TRUE
  BY <1>1, <1>2, LeaveFields
<1>4. Effect(ToSet(L0), ToSet(r), V, lock, q)
  BY <1>0, EffectTrans
<1>5. SetInv(t, L0, lock, q)
  BY <1>3, <1>4 DEF SetInv
<1> QED BY <1>0, <1>2, <1>5

(* Nothing changes.                                                        *)
LEMMA NoEffect ==
    ASSUME NEW S, NEW lock, NEW q, WaitOK(S, q)
    PROVE  Effect(S, S, {}, lock, q)
BY DEF Effect

(* No own lock overlaps, or no other: the lock is linked here, unless it   *)
(* already is.                                                             *)
LEMMA SetCase0 ==
    ASSUME NEW s, NEW L0, NEW lock, NEW q, NEW j, NEW c, SetPre(s, L0, lock, q, j, c), c = 0
    PROVE  SetInv(SetRound(s, lock), L0, lock, q) /\ SetRound(s, lock).done
<1>20. SetRound(s, lock) = Leave(s, IF s.at = 0 THEN InsertAt(s.list, j, lock) ELSE s.list, s.woken)
  <2>1. j = FindSelf(s.list, lock, s.from) /\ c = CaseAt(s.list, lock, j)
    BY DEF SetPre
  <2>2. c = 0 /\ c # 1 /\ c # 2 /\ c # 3 /\ c # 4 /\ c # 5
    OBVIOUS
  <2> QED BY <2>1, <2>2, Zenon DEF SetRound
<1>0. /\ s \in RoundState /\ ListOK(s.list) /\ s.list \in Seq(LockRec) /\ Len(s.list) \in Nat
      /\ s.at \in Nat /\ s.at < j /\ j \in s.from..Len(s.list) + 1 /\ s.from \in Nat /\ s.from >= 1
      /\ WaitOK(ToSet(s.list), q)
      /\ \A k \in j..Len(s.list) : s.list[k].lf_id = lock.lf_id => Before(lock, s.list[k])
      /\ s.at = 0 => \A i \in 1..j - 1 : s.list[i].lf_id = lock.lf_id => Before(s.list[i], lock)
      /\ s.at # 0 => \A k \in s.at + 1..j - 1 : s.list[k].lf_id # lock.lf_id
  BY SetFacts
<1>1. /\ lock \in LockRec /\ Ranged(lock) /\ lock.lf_blkhd = <<>>
      /\ SortedBut(s.list, s.at) /\ Behind(s.list, s.at)
      /\ Effect(ToSet(L0), ToSet(s.list), s.woken, lock, q)
  BY DEF SetPre, SetInv
<1>2. s.woken \cup {} = s.woken /\ {} \in SUBSET Owners
  OBVIOUS
<1>3. ASSUME s.at = 0 PROVE SetInv(SetRound(s, lock), L0, lock, q)
  <2> DEFINE L == s.list
             r == InsertAt(L, j, lock)
  <2>1. j \in 1..Len(L) + 1 /\ L \in Seq(LockRec)
    BY <1>0
  <2> HIDE DEF L
  <2>2. r \in Seq(LockRec) /\ ToSet(r) = ToSet(L) \cup {lock}
    BY <1>1, <2>1, InsertAtProperties
  <2>3. SortedBut(r, 0)
    BY <1>0, <1>1, <1>3, <2>1, InsertSorted DEF L
  <2> HIDE DEF r
  <2>4. ListOK(r)
    <3>1. \A l \in ToSet(L) : Ranged(l)
      BY <1>0, ListSet DEF L
    <3>2. \A k \in 1..Len(r) : r[k] \in ToSet(r)
      BY <2>2, LenProperties DEF ToSet
    <3> QED BY <1>1, <2>2, <3>1, <3>2 DEF ListOK
  <2>5. Effect(ToSet(L), ToSet(r), {}, lock, q)
    <3> DEFINE R == ToSet(L) \ {lock}
    <3>1. lock \notin ToSet(L)
      <4>1. ASSUME NEW k \in 1..Len(L), L[k] = lock PROVE FALSE
        <5>1. Before(lock, lock)
          <6>1. k \in 1..j - 1 \/ k \in j..Len(L)
            BY <1>0, <2>1
          <6> QED BY <1>0, <1>3, <4>1, <6>1 DEF L
        <5> QED BY <5>1, <1>1, OverlapBytes
      <4>2. \A l \in ToSet(L) : \E k \in 1..Len(L) : l = L[k]
        BY <1>0, ListSet DEF L
      <4> QED BY <4>1, <4>2
    <3> DEFINE X == {}
               S == ToSet(L)
    <3>2. S \cap X = {} /\ WaitOK(S \cup X, q) /\ \A x \in X : x.lf_id = lock.lf_id
      <4>1. S \cup X = S
        OBVIOUS
      <4> QED BY <1>0, <4>1 DEF L
    <3>3. ToSet(lock.lf_blkhd) = UNION {ToSet(x.lf_blkhd) : x \in X}
      BY <1>1, SmallQueues
    <3>4. /\ \A x \in X : \A p \in ToSet(x.lf_blkhd) : Conflicts(x, Asked(q, p)) => Conflicts(lock, Asked(q, p))
          /\ \A b \in Nat : ~Covers(lock, b) => ~Covers(lock, b) /\ \A x \in X : ~Covers(x, b)
          /\ lock.lf_id = lock.lf_id
      OBVIOUS
    <3> HIDE DEF X, S
    <3>5. Effect(S \cup X, S \cup {lock}, {}, lock, q)
      BY ONLY <3>2, <3>3, <3>4, SwapAndKeep
    <3> QED BY <2>2, <3>5 DEF X, S
  <2>6. Covered(lock, ToSet(r))
    BY <2>2 DEF Covered
  <2>7. SetInv(Leave(s, r, s.woken \cup {}), L0, lock, q)
    BY <1>0, <1>1, <1>2, <2>3, <2>4, <2>5, <2>6, SetLeaves DEF L
  <2> QED BY <1>2, <1>3, <1>20, <2>7 DEF r, L
<1>4. ASSUME s.at # 0 PROVE SetInv(SetRound(s, lock), L0, lock, q)
  <2>1. IsLock(s.list[s.at], lock) /\ s.at \in 1..Len(s.list)
    BY <1>4 DEF SetPre, SetInv, Behind
  <2>2. SortedBut(s.list, 0)
    <3>1. ASSUME NEW k \in s.at + 1..Len(s.list), s.list[k].lf_id = s.list[s.at].lf_id
          PROVE  Before(s.list[s.at], s.list[k])
      <4>1. k \in j..Len(s.list)
        BY <1>0, <1>4, <2>1, <3>1 DEF IsLock
      <4>2. Before(lock, s.list[k])
        BY <1>0, <2>1, <3>1, <4>1 DEF IsLock
      <4> QED BY <2>1, <4>2 DEF Before, IsLock
    <3> QED BY <1>0, <1>1, <2>1, <3>1, SortedAll
  <2>3. Covered(lock, ToSet(s.list))
    <3>1. s.list[s.at] \in ToSet(s.list)
      BY <1>0, <2>1, ListSet
    <3> QED BY <2>1, <3>1 DEF Covered, IsLock, Covers
  <2>4. Effect(ToSet(s.list), ToSet(s.list), {}, lock, q)
    BY <1>0, NoEffect
  <2>5. SetInv(Leave(s, s.list, s.woken \cup {}), L0, lock, q)
    BY <1>0, <1>1, <1>2, <2>2, <2>3, <2>4, SetLeaves
  <2> QED BY <1>2, <1>4, <1>20, <2>5
<1>5. SetInv(SetRound(s, lock), L0, lock, q)
  BY <1>3, <1>4
<1> QED BY <1>0, <1>5, <1>20, LeaveDone

(* The new lock is linked in the place of what it takes of the first lock  *)
(* that overlaps, and everybody who was blocked on that is woken.          *)
LEMMA SetCut ==
    ASSUME NEW s, NEW L0, NEW lock, NEW q, NEW j, NEW c, SetPre(s, L0, lock, q, j, c), c # 0, s.at = 0,
           NEW o, o = s.list[j], NEW parts, parts = Cut(o, lock, <<lock>>),
           NEW at2, at2 = IF c = 3 THEN j ELSE IF c = 4 THEN j + 1 ELSE 0,
           NEW r, r = Splice(s.list, j, parts)
    PROVE  /\ ListOK(r) /\ SortedBut(r, at2) /\ Covered(lock, ToSet(r))
           /\ Effect(ToSet(s.list), ToSet(r), ToSet(o.lf_blkhd), lock, q)
           /\ c \in {1, 3} => parts = <<lock>> /\ Len(r) = Len(s.list)
           /\ c = 4 => parts = <<LeftPart(o, lock), lock>> /\ Len(r) = Len(s.list) + 1
           /\ c = 5 => parts = <<lock, RightPart(o, lock)>>
           /\ c \in {3, 4} => at2 \in Nat /\ r[at2] = lock /\ Behind(r, at2)
<1> DEFINE L == s.list
<1>0. /\ L \in Seq(LockRec) /\ Len(L) \in Nat /\ ListOK(L)
      /\ j \in 1..Len(L) /\ o.lf_id = lock.lf_id /\ Overlap(o, lock) /\ c = OverlapCase(o, lock)
      /\ o \in LockRec /\ Ranged(o) /\ WaitOK(ToSet(L), q) /\ c \in 1..5
      /\ \A i \in 1..j - 1 : L[i].lf_id = lock.lf_id => Before(L[i], lock)
  <2>1. c \in 0..5 => c \in 1..5
    OBVIOUS
  <2> QED BY <2>1, SetFacts
<1>1. /\ lock \in LockRec /\ Ranged(lock) /\ lock.lf_blkhd = <<>> /\ SortedBut(L, 0)
  BY DEF SetPre, SetInv
<1>2. /\ CutOK(parts, o, lock, <<lock>>) /\ \E m \in 1..Len(parts) : parts[m] = lock
      /\ ~HasLeft(o, lock) /\ ~HasRight(o, lock) => parts = <<lock>>
      /\ HasLeft(o, lock) /\ ~HasRight(o, lock) =>
            parts = <<LeftPart(o, lock), lock>> /\ LeftPart(o, lock) \in LockRec
      /\ ~HasLeft(o, lock) /\ HasRight(o, lock) =>
            parts = <<lock, RightPart(o, lock)>> /\ RightPart(o, lock) \in LockRec
  BY <1>0, <1>1, CutLock
<1>3. /\ c = 1 => o.lf_start = lock.lf_start /\ o.lf_end = lock.lf_end
      /\ c = 2 => lock.lf_end # EOF /\ (o.lf_end = EOF \/ o.lf_end >= lock.lf_end)
      /\ c = 3 => /\ lock.lf_start <= o.lf_start
                  /\ lock.lf_end = EOF \/ (o.lf_end # EOF /\ o.lf_end <= lock.lf_end)
      /\ c = 4 => /\ o.lf_start < lock.lf_start
                  /\ lock.lf_end = EOF \/ (o.lf_end # EOF /\ o.lf_end < lock.lf_end)
      /\ c = 5 => /\ lock.lf_start < o.lf_start /\ lock.lf_end # EOF
                  /\ o.lf_end = EOF \/ o.lf_end > lock.lf_end
  BY <1>0, <1>1, OverlapCases
<1>4. /\ c \in {1, 3} => ~HasLeft(o, lock) /\ ~HasRight(o, lock)
      /\ c = 4 => HasLeft(o, lock) /\ ~HasRight(o, lock)
      /\ c = 5 => ~HasLeft(o, lock) /\ HasRight(o, lock)
  BY <1>0, <1>1, <1>3, SMTT(40) DEF HasLeft, HasRight, Ranged, EOF
<1>5. /\ c \in {1, 3} => parts = <<lock>>
      /\ c = 4 => parts = <<LeftPart(o, lock), lock>> /\ LeftPart(o, lock) \in LockRec
      /\ c = 5 => parts = <<lock, RightPart(o, lock)>>
  BY <1>2, <1>4
<1>20. PICK n : n = Len(parts)
  OBVIOUS
<1>6. c \in {1, 3} => n = 1 /\ parts[1] = lock
  BY <1>1, <1>5, <1>20, Tuples
<1>7. c = 4 => n = 2 /\ parts[1] = LeftPart(o, lock) /\ parts[2] = lock
  BY <1>1, <1>5, <1>20, Tuples
<1>8. c = 4 => parts[1] # lock
  <2>1. c = 4 => Before(LeftPart(o, lock), lock)
    BY <1>0, <1>1, <1>4, LeftPiece
  <2>2. ~Before(lock, lock)
    BY <1>1, OverlapBytes
  <2> QED BY <1>7, <2>1, <2>2
<1>9. ASSUME NEW m \in 1..n, parts[m] = lock
      PROVE  at2 = j + m - 1 \/ o.lf_end = EOF \/ (lock.lf_end # EOF /\ lock.lf_end <= o.lf_end)
  <2>1. CASE c \in {1, 2, 5}
    BY <2>1, <1>0, <1>1, <1>3 DEF Ranged, EOF
  <2>2. CASE c = 3
    <3>1. m = 1
      BY <1>6, <2>2
    <3> QED BY <1>0, <2>2, <3>1
  <2>3. CASE c = 4
    <3>1. m = 1 \/ m = 2
      BY <1>7, <2>3
    <3>2. m = 2
      BY <1>8, <1>9, <2>3, <3>1
    <3> QED BY <1>0, <2>3, <3>2
  <2> QED BY <1>0, <2>1, <2>2, <2>3
<1>10. at2 \in Nat /\ 0 \in Nat /\ 0 < j
  BY <1>0
<1>11. Behind(L, 0)
  BY DEF Behind
<1> HIDE DEF L
<1>12. /\ ListOK(r) /\ SortedBut(r, at2)
       /\ Effect(ToSet(L), ToSet(r), ToSet(o.lf_blkhd), lock, q)
  <2>1. /\ <<lock>> # <<>> => \A i \in 1..j - 1 : i # at2 /\ L[i].lf_id = lock.lf_id => Before(L[i], lock)
        /\ \A m \in 1..Len(parts) : parts[m] = lock =>
              \/ at2 = j + m - 1
              \/ L[j].lf_end = EOF
              \/ lock.lf_end # EOF /\ lock.lf_end <= L[j].lf_end
    BY <1>0, <1>9, <1>20 DEF L
  <2>2. PICK mid : mid = <<lock>>
    OBVIOUS
  <2>3. L[j] = o /\ L[j].lf_id = lock.lf_id /\ r = Splice(L, j, parts) /\ (0 = 0 \/ at2 = 0)
    BY <1>0 DEF L
  <2>4. CutOK(parts, L[j], lock, mid) /\ (mid # <<>> =>
           \A i \in 1..j - 1 : i # at2 /\ L[i].lf_id = lock.lf_id => Before(L[i], lock))
    BY <1>2, <2>1, <2>2, <2>3
  <2>5. /\ ListOK(Splice(L, j, parts)) /\ SortedBut(Splice(L, j, parts), at2)
        /\ Effect(ToSet(L), ToSet(Splice(L, j, parts)), ToSet(L[j].lf_blkhd), lock, q)
    BY ONLY <1>0, <1>1, <1>10, <1>11, <2>1, <2>3, <2>4, CutStep
  <2> QED BY <2>3, <2>5
<1>13. parts \in Seq(LockRec)
  BY <1>2 DEF CutOK
<1>21. L \in Seq(LockRec) /\ j \in 1..Len(L) /\ r = Splice(L, j, parts)
  BY <1>0 DEF L
<1>14. Covered(lock, ToSet(r))
  <2>1. ToSet(r) = Others(L, j) \cup {parts[m] : m \in 1..Len(parts)}
    BY <1>13, <1>21, SpliceSet
  <2>2. lock \in ToSet(r)
    BY <1>2, <2>1
  <2> QED BY <2>2 DEF Covered
<1>15. /\ Len(r) = Len(L) - 1 + n
       /\ \A k \in 1..Len(L) - 1 + n :
             r[k] = IF k < j THEN L[k] ELSE IF k < j + n THEN parts[k - j + 1] ELSE L[k - n + 1]
  <2>1. /\ Len(r) = Len(L) - 1 + Len(parts)
        /\ \A k \in 1..Len(L) - 1 + Len(parts) :
              r[k] = IF k < j THEN L[k] ELSE IF k < j + Len(parts) THEN parts[k - j + 1] ELSE L[k - Len(parts) + 1]
    BY ONLY <1>13, <1>21, SpliceElements
  <2> QED BY <1>20, <2>1
<1>16. ASSUME c \in {3, 4}
       PROVE  /\ at2 \in 1..Len(r) /\ r[at2] = lock
              /\ Len(r) = IF c = 3 THEN Len(L) ELSE Len(L) + 1
              /\ \A k \in at2 + 1..Len(r) : \E i \in j + 1..Len(L) : r[k] = L[i]
  <2>1. CASE c = 3
    <3>1. n = 1 /\ parts[1] = lock /\ at2 = j
      BY <1>6, <2>1
    <3>2. Len(r) = Len(L) /\ j \in 1..Len(L) - 1 + n /\ ~(j < j) /\ j < j + n /\ j - j + 1 = 1
      BY <1>0, <1>15, <3>1
    <3>3. r[j] = lock
      BY <1>15, <3>1, <3>2
    <3>4. ASSUME NEW k \in j + 1..Len(r) PROVE r[k] = L[k] /\ k \in j + 1..Len(L)
      <4>1. k \in 1..Len(L) - 1 + n /\ ~(k < j) /\ ~(k < j + n) /\ k - n + 1 = k
        BY <1>0, <3>1, <3>2
      <4> QED BY <1>15, <3>2, <4>1
    <3> QED BY <1>0, <2>1, <3>1, <3>2, <3>3, <3>4
  <2>2. CASE c = 4
    <3>1. n = 2 /\ parts[2] = lock /\ at2 = j + 1
      BY <1>7, <2>2
    <3>2. /\ Len(r) = Len(L) + 1 /\ j + 1 \in 1..Len(L) - 1 + n /\ ~(j + 1 < j)
          /\ j + 1 < j + n /\ (j + 1) - j + 1 = 2
      BY <1>0, <1>15, <3>1
    <3>3. r[j + 1] = lock
      BY <1>15, <3>1, <3>2
    <3>4. ASSUME NEW k \in at2 + 1..Len(r) PROVE r[k] = L[k - 1] /\ k - 1 \in j + 1..Len(L)
      <4>1. k \in 1..Len(L) - 1 + n /\ ~(k < j) /\ ~(k < j + n) /\ k - n + 1 = k - 1
        BY <1>0, <3>1, <3>2
      <4> QED BY <1>0, <1>15, <3>1, <3>2, <4>1
    <3> QED BY <1>0, <2>2, <3>1, <3>2, <3>3, <3>4
  <2> QED BY <1>16, <2>1, <2>2
<1>17. ASSUME c \in {3, 4} PROVE Behind(r, at2)
  <2>1. at2 \in 1..Len(r) /\ r[at2] = lock
    BY <1>16, <1>17
  <2>2. ASSUME NEW k \in at2 + 1..Len(r), r[k].lf_id = lock.lf_id PROVE r[k].lf_start > lock.lf_start
    <3>1. PICK i \in j + 1..Len(L) : r[k] = L[i]
      BY <1>16, <1>17
    <3>2. i \in 1..Len(L) /\ j < i /\ j # 0 /\ Ranged(L[i])
      BY <1>0 DEF ListOK
    <3>3. Before(o, L[i])
      BY <1>0, <1>1, <2>2, <3>1, <3>2 DEF SortedBut, L
    <3>4. o.lf_end # EOF /\ L[i].lf_start > o.lf_end /\ ~(lock.lf_start > o.lf_end)
      BY <1>0, <3>3 DEF Overlap, Before
    <3>5. /\ lock.lf_start \in Nat /\ o.lf_end \in Nat \cup {EOF}
          /\ o.lf_start \in Nat /\ lock.lf_end \in Nat \cup {EOF}
      BY <1>0, <1>1 DEF Ranged
    <3>6. L[i].lf_start \in Nat
      BY <3>2 DEF Ranged
    <3> QED BY ONLY <3>1, <3>4, <3>5, <3>6 DEF EOF
  <2> QED BY <2>1, <2>2 DEF Behind
<1>18. c \in {1, 3} => Len(r) = Len(L)
  BY <1>0, <1>6, <1>15
<1>19. c = 4 => Len(r) = Len(L) + 1
  BY <1>16
<1> QED BY <1>5, <1>10, <1>12, <1>14, <1>16, <1>17, <1>18, <1>19 DEF L

(* A round goes on behind the new lock.                                    *)
LEMMA SetGoesOn ==
    ASSUME NEW s \in RoundState, NEW L0, NEW lock, NEW q,
           Effect(ToSet(L0), ToSet(s.list), s.woken, lock, q),
           NEW t \in RoundState, ~t.done, ListOK(t.list), t.at # 0,
           t.from \in 1..Len(t.list) + 1, t.at < t.from,
           SortedBut(t.list, t.at), Behind(t.list, t.at), IsLock(t.list[t.at], lock),
           \A k \in t.at + 1..t.from - 1 : t.list[k].lf_id # lock.lf_id,
           NEW W, t.woken = s.woken \cup W, Effect(ToSet(s.list), ToSet(t.list), W, lock, q)
    PROVE  SetInv(t, L0, lock, q)
<1>1. Effect(ToSet(L0), ToSet(t.list), s.woken \cup W, lock, q)
  BY EffectTrans
<1> QED BY <1>1 DEF SetInv

(* Putting together the record of a lock from that of another.             *)
LEMMA SameLock ==
    ASSUME NEW o \in LockRec, NEW lock \in LockRec, o.lf_id = lock.lf_id, NEW b
    PROVE  /\ o.lf_start = lock.lf_start /\ o.lf_end = lock.lf_end =>
                 [o EXCEPT !.lf_type = lock.lf_type, !.lf_blkhd = b] = [lock EXCEPT !.lf_blkhd = b]
           /\ lock.lf_blkhd = b => [lock EXCEPT !.lf_blkhd = b] = lock
BY DEF LockRec

(* An own lock on the same range becomes the new one.                      *)
LEMMA SetCase1 ==
    ASSUME NEW s, NEW L0, NEW lock, NEW q, NEW j, NEW c, SetPre(s, L0, lock, q, j, c), c = 1
    PROVE  SetInv(SetRound(s, lock), L0, lock, q) /\ SetRound(s, lock).done
<1>20. PICK o : o = s.list[j]
  OBVIOUS
<1>21. PICK taken : taken = IF Downgrade(o, lock) THEN <<>> ELSE o.lf_blkhd
  OBVIOUS
<1>22. PICK woken : woken = IF Downgrade(o, lock) THEN s.woken \cup ToSet(o.lf_blkhd) ELSE s.woken
  OBVIOUS
<1>23. SetRound(s, lock) =
          Leave(s, Splice(s.list, j, <<[o EXCEPT !.lf_type = lock.lf_type, !.lf_blkhd = taken]>>), woken)
  <2>1. j = FindSelf(s.list, lock, s.from) /\ c = CaseAt(s.list, lock, j)
    BY DEF SetPre
  <2>2. c # 0 /\ c = 1 /\ c # 2 /\ c # 3 /\ c # 4 /\ c # 5
    OBVIOUS
  <2> QED BY <1>20, <1>21, <1>22, <2>1, <2>2, Zenon DEF SetRound, Downgrade
<1>0. /\ s \in RoundState /\ ListOK(s.list)
      /\ s.at = 0 /\ WaitOK(ToSet(s.list), q)
      /\ j \in 1..Len(s.list) /\ o.lf_id = lock.lf_id /\ Overlap(o, lock) /\ c = OverlapCase(o, lock)
      /\ o \in LockRec /\ Ranged(o) /\ ToSet(o.lf_blkhd) \subseteq Owners
      /\ \A i \in 1..j - 1 : s.list[i].lf_id = lock.lf_id => Before(s.list[i], lock)
  <2>1. 1 # 0 /\ 1 \notin {0, 3, 5}
    OBVIOUS
  <2> QED BY <1>20, <2>1, SetFacts, SMTT(40)
<1>1. /\ lock \in LockRec /\ Ranged(lock) /\ lock.lf_blkhd = <<>> /\ SortedBut(s.list, s.at)
      /\ Effect(ToSet(L0), ToSet(s.list), s.woken, lock, q) /\ ReqOK(q)
  BY DEF SetPre, SetInv
<1>2. o.lf_start = lock.lf_start /\ o.lf_end = lock.lf_end
  BY <1>0, <1>1, OverlapCases
<1>3. PICK z : z = [lock EXCEPT !.lf_blkhd = taken]
  OBVIOUS
<1>4. [o EXCEPT !.lf_type = lock.lf_type, !.lf_blkhd = taken] = z
  BY <1>0, <1>1, <1>2, <1>3 DEF LockRec
<1>5. PICK r : r = Splice(s.list, j, <<z>>)
  OBVIOUS
<1>6. ASSUME Downgrade(o, lock) PROVE SetInv(SetRound(s, lock), L0, lock, q)
  <2>1. z = lock /\ woken = s.woken \cup ToSet(o.lf_blkhd)
    BY <1>21, <1>22, <1>1, <1>3, <1>6, SameLock
  <2>2. PICK parts : parts = Cut(o, lock, <<lock>>)
    OBVIOUS
  <2>3. 1 # 0 /\ 0 = IF c = 3 THEN j ELSE IF c = 4 THEN j + 1 ELSE 0
    OBVIOUS
  <2>4. parts = <<lock>>
    BY <1>0, <2>2, <2>3, <1>20, SetCut
  <2>5. r = Splice(s.list, j, parts)
    BY <1>5, <2>1, <2>4
  <2>6. /\ ListOK(r) /\ SortedBut(r, 0) /\ Covered(lock, ToSet(r))
        /\ Effect(ToSet(s.list), ToSet(r), ToSet(o.lf_blkhd), lock, q)
    BY <1>0, <2>2, <2>3, <2>5, <1>20, SetCut
  <2>7. SetInv(Leave(s, r, s.woken \cup ToSet(o.lf_blkhd)), L0, lock, q)
    BY <1>0, <1>1, <2>6, SetLeaves
  <2> QED BY <1>4, <1>5, <1>23, <2>1, <2>7
<1>7. ASSUME ~Downgrade(o, lock) PROVE SetInv(SetRound(s, lock), L0, lock, q)
  <2>1. taken = o.lf_blkhd /\ woken = s.woken \cup {} /\ {} \in SUBSET Owners
    BY <1>7, <1>21, <1>22
  <2>2. Inside(o, lock)
    BY <1>0, <1>1, <1>2 DEF Inside, Ranged, EOF
  <2>3. o.lf_end = EOF \/ (lock.lf_end # EOF /\ lock.lf_end <= o.lf_end)
    BY <1>0, <1>1, <1>2 DEF Ranged, EOF
  <2>4. /\ z \in LockRec /\ IsLock(z, lock) /\ ListOK(r) /\ SortedBut(r, 0)
        /\ Effect(ToSet(s.list), ToSet(r), {}, lock, q)
    BY <1>0, <1>1, <1>3, <1>5, <1>7, <2>1, <2>2, <2>3, <1>20, KeepFirst, SMTT(60)
  <2>5. Covered(lock, ToSet(r))
    <3>1. PICK parts : parts = <<z>>
      OBVIOUS
    <3>2. parts \in Seq(LockRec) /\ Len(parts) = 1 /\ parts[1] = z
      BY <2>4, <3>1, Tuples
    <3>3. s.list \in Seq(LockRec) /\ parts \in Seq(LockRec) /\ j \in 1..Len(s.list) /\ r = Splice(s.list, j, parts)
      BY <1>0, <1>5, <3>1, <3>2 DEF ListOK
    <3>4. ToSet(r) = Others(s.list, j) \cup {parts[m] : m \in 1..Len(parts)}
      BY ONLY <3>3, SpliceSet
    <3>5. z \in ToSet(r)
      BY <3>2, <3>4
    <3> QED BY <2>4, <3>5 DEF Covered, IsLock, Covers
  <2>6. SetInv(Leave(s, r, s.woken \cup {}), L0, lock, q)
    BY <1>0, <1>1, <2>1, <2>4, <2>5, SetLeaves
  <2> QED BY <1>4, <1>5, <1>23, <2>1, <2>6
<1>8. SetInv(SetRound(s, lock), L0, lock, q)
  BY <1>6, <1>7
<1> QED BY <1>0, <1>8, <1>23, LeaveDone

(* An own lock has all of the range: it stays, or it is split.             *)
LEMMA SetCase2 ==
    ASSUME NEW s, NEW L0, NEW lock, NEW q, NEW j, NEW c, SetPre(s, L0, lock, q, j, c), c = 2
    PROVE  SetInv(SetRound(s, lock), L0, lock, q) /\ SetRound(s, lock).done
<1>20. PICK o : o = s.list[j]
  OBVIOUS
<1>21. SetRound(s, lock) =
          IF o.lf_type = lock.lf_type THEN Leave(s, s.list, s.woken)
          ELSE Leave(s, lf_split(s.list, j, lock, TRUE), s.woken \cup ToSet(o.lf_blkhd))
  <2>1. j = FindSelf(s.list, lock, s.from) /\ c = CaseAt(s.list, lock, j)
    BY DEF SetPre
  <2>2. c # 0 /\ c # 1 /\ c = 2 /\ c # 3 /\ c # 4 /\ c # 5
    OBVIOUS
  <2> QED BY <1>20, <2>1, <2>2, Zenon DEF SetRound
<1>0. /\ s \in RoundState /\ ListOK(s.list)
      /\ s.at = 0 /\ WaitOK(ToSet(s.list), q)
      /\ j \in 1..Len(s.list) /\ o.lf_id = lock.lf_id /\ Overlap(o, lock) /\ c = OverlapCase(o, lock)
      /\ o \in LockRec /\ Ranged(o) /\ ToSet(o.lf_blkhd) \subseteq Owners
  <2>1. 2 # 0 /\ 2 \notin {0, 3, 5}
    OBVIOUS
  <2> QED BY <1>20, <2>1, SetFacts
<1>1. /\ lock \in LockRec /\ Ranged(lock) /\ lock.lf_blkhd = <<>> /\ SortedBut(s.list, s.at)
      /\ Effect(ToSet(L0), ToSet(s.list), s.woken, lock, q)
  BY DEF SetPre, SetInv
<1>2. /\ o.lf_start <= lock.lf_start /\ lock.lf_end # EOF
      /\ o.lf_end = EOF \/ o.lf_end >= lock.lf_end
  BY <1>0, <1>1, OverlapCases
<1>3. ASSUME o.lf_type = lock.lf_type PROVE SetInv(Leave(s, s.list, s.woken), L0, lock, q)
  <2>1. s.woken \cup {} = s.woken /\ {} \in SUBSET Owners
    OBVIOUS
  <2>2. Effect(ToSet(s.list), ToSet(s.list), {}, lock, q)
    BY <1>0, NoEffect
  <2>3. Covered(lock, ToSet(s.list))
    <3>1. o \in ToSet(s.list)
      BY <1>0, <1>20, ListSet
    <3>2. \A b \in Nat : Covers(lock, b) => Covers(o, b)
      BY <1>0, <1>1, <1>2 DEF Covers, Ranged, EOF
    <3> QED BY <1>0, <1>3, <3>1, <3>2 DEF Covered
  <2>4. SetInv(Leave(s, s.list, s.woken \cup {}), L0, lock, q)
    BY <1>0, <1>1, <2>1, <2>2, <2>3, SetLeaves
  <2> QED BY <2>1, <2>4
<1>4. SetInv(Leave(s, lf_split(s.list, j, lock, TRUE), s.woken \cup ToSet(o.lf_blkhd)), L0, lock, q)
  <2>1. PICK parts : parts = Cut(o, lock, <<lock>>)
    OBVIOUS
  <2>2. PICK r : r = Splice(s.list, j, parts)
    OBVIOUS
  <2>3. lf_split(s.list, j, lock, TRUE) = r
    <3>1. HasLeft(o, lock) <=> ~(o.lf_start = lock.lf_start)
      BY <1>0, <1>1, <1>2 DEF HasLeft, Ranged
    <3>2. HasRight(o, lock) <=> ~(o.lf_end = lock.lf_end)
      BY <1>0, <1>1, <1>2 DEF HasRight, Ranged, EOF
    <3> QED BY <1>20, <2>1, <2>2, <3>1, <3>2, Zenon DEF lf_split, Cut, LeftOf, RightOf
  <2>4. 2 # 0 /\ 0 = IF c = 3 THEN j ELSE IF c = 4 THEN j + 1 ELSE 0
    OBVIOUS
  <2>5. /\ ListOK(r) /\ SortedBut(r, 0) /\ Covered(lock, ToSet(r))
        /\ Effect(ToSet(s.list), ToSet(r), ToSet(o.lf_blkhd), lock, q)
    BY <1>0, <2>1, <2>2, <2>4, <1>20, SetCut
  <2>6. SetInv(Leave(s, r, s.woken \cup ToSet(o.lf_blkhd)), L0, lock, q)
    BY <1>0, <1>1, <2>5, SetLeaves
  <2> QED BY <2>3, <2>6
<1>5. SetInv(SetRound(s, lock), L0, lock, q)
  BY <1>3, <1>4, <1>21
<1> QED BY <1>0, <1>5, <1>21, LeaveDone

(* The range has all of an own lock and the new one is not linked yet: it  *)
(* takes its place.                                                        *)
LEMMA SetCase3First ==
    ASSUME NEW s, NEW L0, NEW lock, NEW q, NEW j, NEW c, SetPre(s, L0, lock, q, j, c), c = 3, s.at = 0
    PROVE  /\ SetInv(SetRound(s, lock), L0, lock, q)
           /\ Len(SetRound(s, lock).list) - SetRound(s, lock).from < Len(s.list) - s.from
<1>20. PICK o : o = s.list[j]
  OBVIOUS
<1>21. PICK taken : taken = IF Downgrade(o, lock) THEN <<>> ELSE o.lf_blkhd
  OBVIOUS
<1>22. PICK woken : woken = IF Downgrade(o, lock) THEN s.woken \cup ToSet(o.lf_blkhd) ELSE s.woken
  OBVIOUS
<1>23. PICK t : t = SetRound(s, lock)
  OBVIOUS
<1>24. t = [s EXCEPT !.list = Splice(@, j, <<[lock EXCEPT !.lf_blkhd = taken]>>),
                      !.at = j, !.from = j + 1, !.woken = woken]
  <2>1. j = FindSelf(s.list, lock, s.from) /\ c = CaseAt(s.list, lock, j)
    BY DEF SetPre
  <2>2. c # 0 /\ c # 1 /\ c # 2 /\ c = 3 /\ c # 4 /\ c # 5
    OBVIOUS
  <2> QED BY <1>20, <1>21, <1>22, <1>23, <2>1, <2>2, Zenon DEF SetRound, Downgrade
<1>0. /\ s \in RoundState /\ ListOK(s.list) /\ Len(s.list) \in Nat
      /\ WaitOK(ToSet(s.list), q) /\ j \in s.from..Len(s.list) + 1 /\ s.from \in Nat
      /\ j \in 1..Len(s.list) /\ o.lf_id = lock.lf_id /\ Overlap(o, lock) /\ c = OverlapCase(o, lock)
      /\ o \in LockRec /\ Ranged(o) /\ ToSet(o.lf_blkhd) \subseteq Owners
      /\ \A i \in 1..j - 1 : s.list[i].lf_id = lock.lf_id => Before(s.list[i], lock)
  <2>1. 3 # 0
    OBVIOUS
  <2> QED BY <1>20, <2>1, SetFacts
<1>1. /\ lock \in LockRec /\ Ranged(lock) /\ lock.lf_blkhd = <<>> /\ SortedBut(s.list, 0)
      /\ Effect(ToSet(L0), ToSet(s.list), s.woken, lock, q) /\ ReqOK(q) /\ ~s.done
  BY DEF SetPre, SetInv
<1>2. Inside(o, lock)
  BY <1>0, <1>1, OverlapCases DEF Inside
<1>3. PICK z : z = [lock EXCEPT !.lf_blkhd = taken]
  OBVIOUS
<1>4. PICK one : one = <<z>>
  OBVIOUS
<1>5. PICK r : r = Splice(s.list, j, one)
  OBVIOUS
<1>6. PICK W \in SUBSET Owners :
          /\ woken = s.woken \cup W /\ z \in LockRec /\ IsLock(z, lock)
          /\ ListOK(r) /\ SortedBut(r, j) /\ Effect(ToSet(s.list), ToSet(r), W, lock, q)
  <2>1. CASE Downgrade(o, lock)
    <3>1. z = lock /\ woken = s.woken \cup ToSet(o.lf_blkhd)
      BY <1>1, <1>3, <1>21, <1>22, <2>1 DEF LockRec
    <3>2. PICK parts : parts = Cut(o, lock, <<lock>>)
      OBVIOUS
    <3>3. 3 # 0 /\ j = IF c = 3 THEN j ELSE IF c = 4 THEN j + 1 ELSE 0
      OBVIOUS
    <3>4. parts = one
      BY <1>0, <1>4, <3>1, <3>2, <3>3, <1>20, SetCut
    <3>5. ListOK(r) /\ SortedBut(r, j) /\ Effect(ToSet(s.list), ToSet(r), ToSet(o.lf_blkhd), lock, q)
      BY <1>0, <1>5, <3>2, <3>3, <3>4, <1>20, SetCut
    <3>6. IsLock(lock, lock)
      BY DEF IsLock
    <3> QED BY <1>0, <1>1, <3>1, <3>5, <3>6
  <2>2. CASE ~Downgrade(o, lock)
    <3>1. taken = o.lf_blkhd /\ woken = s.woken \cup {} /\ {} \in SUBSET Owners /\ j \in Nat
      BY <1>0, <1>21, <1>22, <2>2
    <3>2. /\ z \in LockRec /\ IsLock(z, lock) /\ ListOK(r) /\ SortedBut(r, j)
          /\ Effect(ToSet(s.list), ToSet(r), {}, lock, q)
      BY <1>0, <1>1, <1>2, <1>3, <1>4, <1>5, <2>2, <3>1, <1>20, KeepFirst
    <3> QED BY <3>1, <3>2
  <2> QED BY <2>1, <2>2
<1>7. one \in Seq(LockRec) /\ one[1] = z
  BY <1>4, <1>6, Tuples
<1>8. Len(one) = 1
  BY <1>4, <1>6, Tuples
<1>9. s.list \in Seq(LockRec)
  BY <1>0 DEF ListOK
<1>10. /\ Len(r) = Len(s.list) - 1 + Len(one)
       /\ \A k \in 1..Len(s.list) - 1 + Len(one) :
             r[k] = IF k < j THEN s.list[k] ELSE IF k < j + Len(one) THEN one[k - j + 1]
                    ELSE s.list[k - Len(one) + 1]
  <2>1. s.list \in Seq(LockRec) /\ one \in Seq(LockRec) /\ j \in 1..Len(s.list) /\ r = Splice(s.list, j, one)
    BY <1>0, <1>5, <1>7, <1>9
  <2> QED BY ONLY <2>1, SpliceElements, ZenonT(60)
<1>11. /\ Len(r) = Len(s.list)
       /\ \A k \in 1..Len(s.list) : r[k] = IF k < j THEN s.list[k] ELSE IF k < j + 1 THEN one[k - j + 1]
                                           ELSE s.list[k - 1 + 1]
  BY <1>0, <1>8, <1>10
<1>12. r[j] = z
  <2>1. j \in 1..Len(s.list) /\ ~(j < j) /\ j < j + 1 /\ j - j + 1 = 1
    BY <1>0
  <2> QED BY <1>7, <1>11, <2>1
<1>13. Behind(r, j)
  <2>1. ASSUME NEW k \in j + 1..Len(r), r[k].lf_id = lock.lf_id PROVE r[k].lf_start > lock.lf_start
    <3>0. Len(r) = Len(s.list) /\ Len(s.list) \in Nat /\ j \in 1..Len(s.list)
      BY <1>0, <1>11
    <3>1. /\ k \in 1..Len(s.list) /\ ~(k < j) /\ ~(k < j + 1) /\ k - 1 + 1 = k /\ j < k /\ j # 0
      BY <3>0
    <3>2. r[k] = s.list[k]
      BY <1>11, <3>1
    <3>3. Before(o, s.list[k])
      BY <1>0, <1>1, <1>20, <2>1, <3>1, <3>2 DEF SortedBut
    <3>4. s.list[k].lf_start \in Nat /\ o.lf_end \in Nat \cup {EOF} /\ o.lf_start \in Nat /\ lock.lf_start \in Nat
      BY <1>0, <1>1, <3>1 DEF ListOK, Ranged
    <3>5. o.lf_end = EOF \/ o.lf_start <= o.lf_end
      BY <1>0 DEF Ranged
    <3>6. lock.lf_start <= o.lf_start /\ o.lf_end # EOF /\ s.list[k].lf_start > o.lf_end
      BY <1>2, <3>3 DEF Inside, Before
    <3> QED BY ONLY <3>2, <3>4, <3>5, <3>6 DEF EOF
  <2>2. j \in 1..Len(r)
    BY <1>0, <1>11
  <2> QED BY <1>6, <1>12, <2>1, <2>2 DEF Behind, IsLock
<1>14. PICK f : f = j + 1
  OBVIOUS
<1>15. t = [s EXCEPT !.list = r, !.at = j, !.from = f, !.woken = woken]
  BY <1>3, <1>4, <1>5, <1>14, <1>24
<1>16. /\ j \in Nat /\ j # 0 /\ f \in 1..Len(r) + 1 /\ j < f
       /\ \A k \in j + 1..f - 1 : r[k].lf_id # lock.lf_id
       /\ Len(r) - f < Len(s.list) - s.from
  <2>1. Len(r) = Len(s.list) /\ Len(s.list) \in Nat /\ j \in 1..Len(s.list) /\ s.from \in Nat /\ s.from <= j
    BY <1>0, <1>11
  <2> QED BY <1>14, <2>1
<1>17. t \in RoundState /\ t.list = r /\ t.at = j /\ t.from = f /\ t.woken = s.woken \cup W /\ ~t.done
  <2>1. r \in Seq(LockRec) /\ f \in Nat /\ j \in Nat /\ woken \in SUBSET Owners
    BY <1>0, <1>6, <1>14, <1>16 DEF ListOK, RoundState
  <2> QED BY <1>0, <1>1, <1>6, <1>15, <2>1 DEF RoundState
<1>18. SetInv(t, L0, lock, q)
  BY <1>0, <1>1, <1>6, <1>12, <1>13, <1>16, <1>17, SetGoesOn
<1> QED BY <1>16, <1>17, <1>18, <1>23

(* The range has all of an own lock and the new one is linked: the lock    *)
(* goes, and the new one takes over who was blocked on it.                 *)
LEMMA SetCase3Next ==
    ASSUME NEW s, NEW L0, NEW lock, NEW q, NEW j, NEW c, SetPre(s, L0, lock, q, j, c), c = 3, s.at # 0
    PROVE  /\ SetInv(SetRound(s, lock), L0, lock, q)
           /\ Len(SetRound(s, lock).list) - SetRound(s, lock).from < Len(s.list) - s.from
<1>20. PICK o : o = s.list[j]
  OBVIOUS
<1>21. PICK taken : taken = IF Downgrade(o, lock) THEN <<>> ELSE o.lf_blkhd
  OBVIOUS
<1>22. PICK woken : woken = IF Downgrade(o, lock) THEN s.woken \cup ToSet(o.lf_blkhd) ELSE s.woken
  OBVIOUS
<1>23. PICK t : t = SetRound(s, lock)
  OBVIOUS
<1>24. t = [s EXCEPT !.list = Splice([s.list EXCEPT ![s.at].lf_blkhd = @ \o taken], j, <<>>),
                      !.from = j, !.woken = woken]
  <2>1. j = FindSelf(s.list, lock, s.from) /\ c = CaseAt(s.list, lock, j)
    BY DEF SetPre
  <2>2. c # 0 /\ c # 1 /\ c # 2 /\ c = 3 /\ c # 4 /\ c # 5
    OBVIOUS
  <2> QED BY <1>20, <1>21, <1>22, <1>23, <2>1, <2>2, Zenon DEF SetRound, Downgrade
<1>0. /\ s \in RoundState /\ ListOK(s.list) /\ s.list \in Seq(LockRec) /\ Len(s.list) \in Nat
      /\ s.at \in Nat /\ s.at < j /\ j \in s.from..Len(s.list) + 1 /\ s.from \in Nat
      /\ WaitOK(ToSet(s.list), q)
      /\ j \in 1..Len(s.list) /\ o.lf_id = lock.lf_id /\ Overlap(o, lock) /\ c = OverlapCase(o, lock)
      /\ o \in LockRec /\ Ranged(o) /\ ToSet(o.lf_blkhd) \subseteq Owners
      /\ \A k \in s.at + 1..j - 1 : s.list[k].lf_id # lock.lf_id
  <2>1. 3 # 0
    OBVIOUS
  <2> QED BY <1>20, <2>1, SetFacts
<1>1. /\ lock \in LockRec /\ Ranged(lock) /\ lock.lf_blkhd = <<>> /\ SortedBut(s.list, s.at)
      /\ Effect(ToSet(L0), ToSet(s.list), s.woken, lock, q) /\ ReqOK(q) /\ ~s.done
      /\ Behind(s.list, s.at) /\ IsLock(s.list[s.at], lock) /\ s.at \in 1..Len(s.list)
  BY DEF SetPre, SetInv, Behind
<1>2. Inside(o, lock)
  BY <1>0, <1>1, OverlapCases DEF Inside
<1>3. PICK r : r = Splice([s.list EXCEPT ![s.at].lf_blkhd = @ \o taken], j, <<>>)
  OBVIOUS
<1>4. PICK W \in SUBSET Owners :
          /\ woken = s.woken \cup W /\ Effect(ToSet(s.list), ToSet(r), W, lock, q)
          /\ ListOK(r) /\ SortedBut(r, s.at) /\ IsLock(r[s.at], lock) /\ Len(r) = Len(s.list) - 1
          /\ \A k \in 1..Len(r) : k # s.at => r[k] = IF k < j THEN s.list[k] ELSE s.list[k + 1]
  <2>1. CASE Downgrade(o, lock)
    <3>1. taken = <<>> /\ woken = s.woken \cup ToSet(o.lf_blkhd)
      BY <1>21, <1>22, <2>1
    <3>2. [s.list EXCEPT ![s.at].lf_blkhd = @ \o taken] = s.list
      <4>1. PICK y : y = s.list[s.at]
        OBVIOUS
      <4>2. y \in LockRec
        BY <1>0, <1>1, <4>1, LenProperties
      <4>3. y.lf_blkhd \in Seq(Owners)
        BY <4>2 DEF LockRec
      <4>4. y.lf_blkhd \o taken = y.lf_blkhd
        BY <3>1, <4>3, ConcatEmptySeq
      <4>5. [y EXCEPT !.lf_blkhd = @ \o taken] = y
        BY <4>2, <4>4 DEF LockRec
      <4>6. [s.list EXCEPT ![s.at].lf_blkhd = @ \o taken] = [s.list EXCEPT ![s.at] = y]
        BY <4>1, <4>5
      <4>7. [s.list EXCEPT ![s.at] = y] = s.list
        BY <1>0, <4>1, LenProperties
      <4> QED BY <4>6, <4>7
    <3>3. r = Splice(s.list, j, <<>>)
      BY <1>3, <3>2
    <3>4. /\ ListOK(r) /\ Len(r) = Len(s.list) - 1
          /\ \A k \in 1..Len(s.list) - 1 : r[k] = IF k < j THEN s.list[k] ELSE s.list[k + 1]
          /\ SortedBut(r, s.at)
      BY <1>0, <1>1, <3>3, SpliceOut
    <3>5. IsLock(r[s.at], lock)
      <4>1. s.at \in 1..Len(s.list) - 1 /\ s.at < j
        BY <1>0, <1>1
      <4> QED BY <1>1, <3>4, <4>1
    <3>6. Effect(ToSet(s.list), ToSet(r), ToSet(o.lf_blkhd), lock, q)
      <4>1. PICK mid : mid = <<>>
        OBVIOUS
      <4>2. PICK parts : parts = Cut(o, lock, <<>>)
        OBVIOUS
      <4>3. CutOK(parts, o, lock, mid)
        BY <1>0, <1>1, <4>1, <4>2, CutNothing
      <4>4. ~HasLeft(o, lock) /\ ~HasRight(o, lock)
        BY <1>0, <1>1, <1>2 DEF HasLeft, HasRight, Inside, Ranged, EOF
      <4>5. parts = <<>>
        BY <4>2, <4>4, <1>1, Parts DEF Cut, LeftOf, RightOf
      <4>6. /\ mid # <<>> => \A i \in 1..j - 1 : i # s.at /\ s.list[i].lf_id = lock.lf_id => Before(s.list[i], lock)
            /\ \A m \in 1..Len(parts) : parts[m] = lock =>
                  \/ s.at = j + m - 1
                  \/ s.list[j].lf_end = EOF
                  \/ lock.lf_end # EOF /\ lock.lf_end <= s.list[j].lf_end
        <5>1. Len(parts) = 0
          BY <4>5, EmptySeq
        <5> QED BY <4>1, <5>1
      <4>7. /\ CutOK(parts, s.list[j], lock, mid) /\ s.list[j].lf_id = lock.lf_id
            /\ (s.at = 0 \/ s.at = s.at) /\ r = Splice(s.list, j, parts)
        BY <1>0, <1>20, <3>3, <4>3, <4>5
      <4>8. Effect(ToSet(s.list), ToSet(r), ToSet(s.list[j].lf_blkhd), lock, q)
        <5>1. PICK L, at : L = s.list /\ at = s.at
          OBVIOUS
        <5>2. /\ ListOK(L) /\ j \in 1..Len(L) /\ at \in Nat /\ at < j /\ SortedBut(L, at) /\ Behind(L, at)
              /\ Ranged(lock) /\ WaitOK(ToSet(L), q)
          BY ONLY <1>0, <1>1, <5>1
        <5>3. /\ L[j].lf_id = lock.lf_id /\ CutOK(parts, L[j], lock, mid) /\ r = Splice(L, j, parts)
              /\ mid # <<>> => \A i \in 1..j - 1 : i # at /\ L[i].lf_id = lock.lf_id => Before(L[i], lock)
              /\ \A m \in 1..Len(parts) : parts[m] = lock =>
                    \/ at = j + m - 1
                    \/ L[j].lf_end = EOF
                    \/ lock.lf_end # EOF /\ lock.lf_end <= L[j].lf_end
          BY ONLY <4>6, <4>7, <5>1
        <5>4. Effect(ToSet(L), ToSet(r), ToSet(L[j].lf_blkhd), lock, q)
          BY ONLY <5>2, <5>3, CutStep
        <5> QED BY ONLY <5>1, <5>4
      <4> QED BY <1>20, <4>8
    <3> QED BY <1>0, <3>1, <3>4, <3>5, <3>6
  <2>2. CASE ~Downgrade(o, lock)
    <3>1. taken = o.lf_blkhd /\ woken = s.woken \cup {} /\ {} \in SUBSET Owners
      BY <1>21, <1>22, <2>2
    <3>2. PICK L : L = s.list
      OBVIOUS
    <3>3. PICK at : at = s.at
      OBVIOUS
    <3>4. r = Splice(Joined(L, at, j), j, <<>>)
      BY <1>3, <1>20, <3>1, <3>2, <3>3 DEF Joined
    <3>5. /\ L[j] = o /\ ListOK(L) /\ at \in 1..Len(L) /\ j \in 1..Len(L) /\ at < j /\ SortedBut(L, at)
          /\ Behind(L, at) /\ WaitOK(ToSet(L), q) /\ IsLock(L[at], lock)
          /\ L[j].lf_id = lock.lf_id /\ Inside(L[j], lock) /\ ~Downgrade(L[j], lock)
      BY <1>0, <1>1, <1>2, <1>20, <2>2, <3>2, <3>3
    <3>6. /\ ListOK(r) /\ Len(r) = Len(L) - 1 /\ SortedBut(r, at) /\ IsLock(r[at], lock)
          /\ \A k \in 1..Len(r) : k # at => r[k] = IF k < j THEN L[k] ELSE L[k + 1]
          /\ Effect(ToSet(L), ToSet(r), {}, lock, q)
      BY <1>1, <3>4, <3>5, <1>20, KeepNext
    <3> QED BY <3>1, <3>2, <3>3, <3>6
  <2> QED BY <2>1, <2>2
<1>5. s.at \in 1..Len(r) /\ Len(r) \in Nat
  BY <1>0, <1>1, <1>4
<1>6. \A k \in s.at + 1..j - 1 : r[k].lf_id # lock.lf_id
  <2>1. ASSUME NEW k \in s.at + 1..j - 1 PROVE k \in 1..Len(r) /\ k # s.at /\ k < j
    BY <1>0, <1>1, <1>4
  <2> QED BY <1>0, <1>4, <2>1
<1>7. Behind(r, s.at)
  <2>1. ASSUME NEW k \in s.at + 1..Len(r), r[k].lf_id = lock.lf_id PROVE r[k].lf_start > lock.lf_start
    <3>1. k \notin s.at + 1..j - 1
      BY <1>6, <2>1
    <3>2. k \in 1..Len(r) /\ k # s.at /\ ~(k < j) /\ k + 1 \in s.at + 1..Len(s.list)
      <4>1. /\ s.at \in Nat /\ Len(s.list) \in Nat /\ Len(r) = Len(s.list) - 1 /\ j \in Nat
            /\ k \in s.at + 1..Len(r) /\ k \notin s.at + 1..j - 1
        BY <1>0, <1>4, <3>1
      <4> QED BY ONLY <4>1
    <3>3. r[k] = s.list[k + 1]
      BY <1>4, <3>2
    <3> QED BY <1>1, <2>1, <3>2, <3>3 DEF Behind, IsLock
  <2> QED BY <1>4, <1>5, <2>1 DEF Behind, IsLock
<1>8. t \in RoundState /\ t.list = r /\ t.at = s.at /\ t.from = j /\ t.woken = s.woken \cup W /\ ~t.done
  <2>1. r \in Seq(LockRec) /\ j \in Nat /\ woken \in SUBSET Owners
    BY <1>0, <1>4 DEF ListOK, RoundState
  <2> QED BY <1>0, <1>1, <1>3, <1>4, <1>24, <2>1 DEF RoundState
<1>9. j \in 1..Len(r) + 1 /\ Len(r) - j < Len(s.list) - s.from
  BY <1>0, <1>4
<1>10. SetInv(t, L0, lock, q)
  BY <1>0, <1>1, <1>4, <1>6, <1>7, <1>8, <1>9, SetGoesOn
<1> QED BY <1>8, <1>9, <1>10, <1>23

(* An own lock begins before the range and ends in it.                     *)
LEMMA SetCase4 ==
    ASSUME NEW s, NEW L0, NEW lock, NEW q, NEW j, NEW c, SetPre(s, L0, lock, q, j, c), c = 4
    PROVE  /\ SetInv(SetRound(s, lock), L0, lock, q)
           /\ Len(SetRound(s, lock).list) - SetRound(s, lock).from < Len(s.list) - s.from
<1>20. PICK o : o = s.list[j]
  OBVIOUS
<1>23. PICK t : t = SetRound(s, lock)
  OBVIOUS
<1>24. t = [s EXCEPT !.list = Splice(@, j, <<LeftPart(o, lock), lock>>),
                      !.at = j + 1, !.from = j + 2, !.woken = s.woken \cup ToSet(o.lf_blkhd)]
  <2>1. j = FindSelf(s.list, lock, s.from) /\ c = CaseAt(s.list, lock, j)
    BY DEF SetPre
  <2>2. c # 0 /\ c # 1 /\ c # 2 /\ c # 3 /\ c = 4 /\ c # 5
    OBVIOUS
  <2> QED BY <1>20, <1>23, <2>1, <2>2, Zenon DEF SetRound, Downgrade
<1>0. /\ s \in RoundState /\ ListOK(s.list) /\ Len(s.list) \in Nat
      /\ j \in s.from..Len(s.list) + 1 /\ s.from \in Nat /\ s.at = 0
      /\ j \in 1..Len(s.list) /\ ToSet(o.lf_blkhd) \subseteq Owners
  <2>1. 4 # 0 /\ 4 \notin {0, 3, 5}
    OBVIOUS
  <2> QED BY <1>20, <2>1, SetFacts
<1>1. /\ lock \in LockRec /\ Effect(ToSet(L0), ToSet(s.list), s.woken, lock, q) /\ ~s.done
  BY DEF SetPre, SetInv
<1>2. PICK parts : parts = Cut(o, lock, <<lock>>)
  OBVIOUS
<1>3. PICK r : r = Splice(s.list, j, parts)
  OBVIOUS
<1>4. PICK at : at = j + 1
  OBVIOUS
<1>5. 4 # 0 /\ at = IF c = 3 THEN j ELSE IF c = 4 THEN j + 1 ELSE 0
  BY <1>4
<1>6. /\ ListOK(r) /\ SortedBut(r, at) /\ Effect(ToSet(s.list), ToSet(r), ToSet(o.lf_blkhd), lock, q)
      /\ parts = <<LeftPart(o, lock), lock>> /\ Len(r) = Len(s.list) + 1
      /\ r[at] = lock /\ Behind(r, at)
  BY <1>0, <1>2, <1>3, <1>5, <1>20, SetCut
<1>7. t \in RoundState /\ t.list = r /\ t.at = at /\ t.from = j + 2 /\ t.woken = s.woken \cup ToSet(o.lf_blkhd) /\ ~t.done
  <2>1. r \in Seq(LockRec) /\ j + 1 \in Nat /\ j + 2 \in Nat /\ s.woken \cup ToSet(o.lf_blkhd) \in SUBSET Owners
    BY <1>0, <1>6 DEF ListOK, RoundState
  <2> QED BY <1>0, <1>1, <1>3, <1>4, <1>6, <1>24, <2>1 DEF RoundState
<1>8. /\ at # 0 /\ j + 2 \in 1..Len(r) + 1 /\ at < j + 2 /\ Len(r) - (j + 2) < Len(s.list) - s.from
      /\ \A k \in at + 1..(j + 2) - 1 : r[k].lf_id # lock.lf_id
  BY <1>0, <1>4, <1>6
<1>9. IsLock(r[at], lock)
  BY <1>6 DEF IsLock
<1>10. SetInv(t, L0, lock, q)
  <2>1. /\ t \in RoundState /\ ~t.done /\ ListOK(t.list) /\ t.at # 0
        /\ t.from \in 1..Len(t.list) + 1 /\ t.at < t.from
        /\ SortedBut(t.list, t.at) /\ Behind(t.list, t.at) /\ IsLock(t.list[t.at], lock)
        /\ \A k \in t.at + 1..t.from - 1 : t.list[k].lf_id # lock.lf_id
        /\ t.woken = s.woken \cup ToSet(o.lf_blkhd)
        /\ Effect(ToSet(s.list), ToSet(t.list), ToSet(o.lf_blkhd), lock, q)
    BY <1>6, <1>7, <1>8, <1>9
  <2> QED BY <1>0, <1>1, <2>1, SetGoesOn
<1> QED BY <1>7, <1>8, <1>10, <1>23

(* An own lock begins in the range and ends behind it.                     *)
LEMMA SetCase5 ==
    ASSUME NEW s, NEW L0, NEW lock, NEW q, NEW j, NEW c, SetPre(s, L0, lock, q, j, c), c = 5
    PROVE  SetInv(SetRound(s, lock), L0, lock, q) /\ SetRound(s, lock).done
<1>20. PICK o : o = s.list[j]
  OBVIOUS
<1>21. SetRound(s, lock) =
          Leave(s, Splice(s.list, j, (IF s.at = 0 THEN <<lock>> ELSE <<>>) \o <<RightPart(o, lock)>>),
                s.woken \cup ToSet(o.lf_blkhd))
  <2>1. j = FindSelf(s.list, lock, s.from) /\ c = CaseAt(s.list, lock, j)
    BY DEF SetPre
  <2>2. c # 0 /\ c # 1 /\ c # 2 /\ c # 3 /\ c # 4 /\ c = 5
    OBVIOUS
  <2> QED BY <1>20, <2>1, <2>2, Zenon DEF SetRound
<1>0. /\ s \in RoundState /\ ListOK(s.list) /\ s.list \in Seq(LockRec) /\ Len(s.list) \in Nat
      /\ s.at \in Nat /\ s.at < j /\ WaitOK(ToSet(s.list), q)
      /\ j \in 1..Len(s.list) /\ o.lf_id = lock.lf_id /\ Overlap(o, lock) /\ c = OverlapCase(o, lock)
      /\ o \in LockRec /\ Ranged(o) /\ ToSet(o.lf_blkhd) \subseteq Owners
      /\ s.at # 0 => \A k \in s.at + 1..j - 1 : s.list[k].lf_id # lock.lf_id
  <2>1. 5 # 0
    OBVIOUS
  <2> QED BY <1>20, <2>1, SetFacts
<1>1. /\ lock \in LockRec /\ Ranged(lock) /\ lock.lf_blkhd = <<>> /\ SortedBut(s.list, s.at)
      /\ Effect(ToSet(L0), ToSet(s.list), s.woken, lock, q)
      /\ Behind(s.list, s.at)
  BY DEF SetPre, SetInv
<1>2. /\ lock.lf_start < o.lf_start /\ lock.lf_end # EOF
      /\ o.lf_end = EOF \/ o.lf_end > lock.lf_end
  BY <1>0, <1>1, OverlapCases
<1>3. ~HasLeft(o, lock) /\ HasRight(o, lock)
  BY <1>0, <1>1, <1>2 DEF HasLeft, HasRight, Ranged, EOF
<1>4. PICK right : right = RightPart(o, lock)
  OBVIOUS
<1>5. Piece(right, o, lock) /\ Before(lock, right) /\ right \in LockRec
  BY <1>0, <1>1, <1>3, <1>4, RightPiece DEF Piece
<1>6. ASSUME s.at = 0 PROVE SetInv(SetRound(s, lock), L0, lock, q)
  <2>1. PICK parts : parts = Cut(o, lock, <<lock>>)
    OBVIOUS
  <2>2. PICK r : r = Splice(s.list, j, parts)
    OBVIOUS
  <2>3. 5 # 0 /\ 0 = IF c = 3 THEN j ELSE IF c = 4 THEN j + 1 ELSE 0
    OBVIOUS
  <2>4. /\ ListOK(r) /\ SortedBut(r, 0) /\ Covered(lock, ToSet(r))
        /\ Effect(ToSet(s.list), ToSet(r), ToSet(o.lf_blkhd), lock, q)
        /\ parts = <<lock, right>>
    BY <1>0, <1>4, <1>6, <2>1, <2>2, <2>3, <1>20, SetCut
  <2>5. (IF s.at = 0 THEN <<lock>> ELSE <<>>) \o <<RightPart(o, lock)>> = parts
    <3>1. <<lock>> \o <<right>> = <<lock, right>>
      BY <1>1, <1>5, Pairs
    <3> QED BY <1>4, <1>6, <2>4, <3>1
  <2>6. SetInv(Leave(s, r, s.woken \cup ToSet(o.lf_blkhd)), L0, lock, q)
    BY <1>0, <1>1, <2>4, SetLeaves
  <2> QED BY <1>21, <2>2, <2>5, <2>6
<1>7. ASSUME s.at # 0 PROVE SetInv(SetRound(s, lock), L0, lock, q)
  <2>0. IsLock(s.list[s.at], lock) /\ s.at \in 1..Len(s.list)
    BY <1>7 DEF SetPre, SetInv, Behind
  <2>1. PICK parts : parts = Cut(o, lock, <<>>)
    OBVIOUS
  <2>2. parts = <<right>>
    BY <1>3, <1>4, <1>5, <2>1, Parts DEF Cut, LeftOf, RightOf
  <2>3. (IF s.at = 0 THEN <<lock>> ELSE <<>>) \o <<RightPart(o, lock)>> = parts
    <3>1. <<right>> \in Seq(LockRec)
      BY <1>5, Tuples
    <3>2. <<>> \o <<right>> = <<right>>
      BY <3>1, ConcatEmptySeq
    <3> QED BY <1>4, <1>7, <2>2, <3>2
  <2>4. PICK r : r = Splice(s.list, j, parts)
    OBVIOUS
  <2>5. parts \in Seq(LockRec) /\ parts[1] = right
    BY <1>5, <2>2, Tuples
  <2>6. Len(parts) = 1
    BY <1>5, <2>2, Tuples
  <2>7. /\ ListOK(r) /\ SortedBut(r, s.at)
        /\ Effect(ToSet(s.list), ToSet(r), ToSet(o.lf_blkhd), lock, q)
    <3>1. PICK mid : mid = <<>>
      OBVIOUS
    <3>2. CutOK(parts, o, lock, mid)
      BY <1>0, <1>1, <2>1, <3>1, CutNothing
    <3>3. right # lock
      <4>1. ~Before(lock, lock)
        BY <1>1, OverlapBytes
      <4> QED BY <1>5, <4>1
    <3>4. /\ mid # <<>> => \A i \in 1..j - 1 : i # s.at /\ s.list[i].lf_id = lock.lf_id => Before(s.list[i], lock)
          /\ \A m \in 1..Len(parts) : parts[m] = lock =>
                \/ s.at = j + m - 1
                \/ s.list[j].lf_end = EOF
                \/ lock.lf_end # EOF /\ lock.lf_end <= s.list[j].lf_end
      <4>1. \A m \in 1..Len(parts) : parts[m] # lock
        BY <2>5, <2>6, <3>3
      <4> QED BY <3>1, <4>1
    <3>5. /\ CutOK(parts, s.list[j], lock, mid) /\ s.list[j].lf_id = lock.lf_id
          /\ (s.at = 0 \/ s.at = s.at) /\ r = Splice(s.list, j, parts)
      BY <1>0, <1>20, <2>4, <3>2
    <3>6. /\ ListOK(r) /\ SortedBut(r, s.at)
          /\ Effect(ToSet(s.list), ToSet(r), ToSet(s.list[j].lf_blkhd), lock, q)
      <4>1. PICK L, at : L = s.list /\ at = s.at
        OBVIOUS
      <4>2. /\ ListOK(L) /\ j \in 1..Len(L) /\ at \in Nat /\ at < j /\ SortedBut(L, at) /\ Behind(L, at)
            /\ Ranged(lock) /\ WaitOK(ToSet(L), q)
        BY ONLY <1>0, <1>1, <4>1
      <4>3. /\ L[j].lf_id = lock.lf_id /\ CutOK(parts, L[j], lock, mid) /\ r = Splice(L, j, parts)
            /\ mid # <<>> => \A i \in 1..j - 1 : i # at /\ L[i].lf_id = lock.lf_id => Before(L[i], lock)
            /\ \A m \in 1..Len(parts) : parts[m] = lock =>
                  \/ at = j + m - 1
                  \/ L[j].lf_end = EOF
                  \/ lock.lf_end # EOF /\ lock.lf_end <= L[j].lf_end
        BY ONLY <3>4, <3>5, <4>1
      <4>4. ListOK(r) /\ SortedBut(r, at) /\ Effect(ToSet(L), ToSet(r), ToSet(L[j].lf_blkhd), lock, q)
        BY ONLY <4>2, <4>3, CutStep
      <4> QED BY ONLY <4>1, <4>4
    <3> QED BY <1>20, <3>6
  <2>8. /\ Len(r) = Len(s.list) - 1 + Len(parts)
        /\ \A k \in 1..Len(s.list) - 1 + Len(parts) :
              r[k] = IF k < j THEN s.list[k] ELSE IF k < j + Len(parts) THEN parts[k - j + 1]
                     ELSE s.list[k - Len(parts) + 1]
    <3>1. s.list \in Seq(LockRec) /\ parts \in Seq(LockRec) /\ j \in 1..Len(s.list) /\ r = Splice(s.list, j, parts)
      BY <1>0, <2>4, <2>5
    <3> QED BY ONLY <3>1, SpliceElements
  <2>9. /\ Len(r) = Len(s.list)
        /\ \A k \in 1..Len(s.list) : k # j => r[k] = s.list[k]
        /\ r[j] = right
    <3>1. /\ Len(r) = Len(s.list)
          /\ \A k \in 1..Len(s.list) : r[k] = IF k < j THEN s.list[k] ELSE IF k < j + 1 THEN parts[k - j + 1]
                                              ELSE s.list[k - 1 + 1]
      BY <1>0, <2>6, <2>8
    <3>2. \A k \in 1..Len(s.list) : k # j => k < j \/ (~(k < j) /\ ~(k < j + 1) /\ k - 1 + 1 = k)
      BY <1>0
    <3>3. ~(j < j) /\ j < j + 1 /\ j - j + 1 = 1
      BY <1>0
    <3> QED BY <1>0, <2>5, <3>1, <3>2, <3>3
  <2>10. r[s.at] = s.list[s.at] /\ s.at \in 1..Len(r)
    BY <1>0, <2>0, <2>9
  <2>11. ASSUME NEW k \in s.at + 1..Len(r), r[k].lf_id = lock.lf_id PROVE Before(lock, r[k])
    <3>1. CASE k = j
      BY <1>5, <2>9, <3>1
    <3>2. CASE k # j
      <4>1. k \in 1..Len(s.list) /\ s.at < k
        BY <1>0, <2>0, <2>9
      <4>2. r[k] = s.list[k]
        BY <2>9, <3>2, <4>1
      <4>3. k \notin s.at + 1..j - 1
        BY <1>0, <1>7, <2>11, <4>2
      <4>4. j < k /\ j # s.at
        BY <1>0, <3>2, <4>1, <4>3
      <4>5. Before(o, s.list[k]) /\ Ranged(s.list[k])
        BY <1>0, <1>1, <1>20, <2>11, <4>1, <4>2, <4>4 DEF SortedBut, ListOK
      <4>6. o.lf_end # EOF /\ s.list[k].lf_start > o.lf_end /\ o.lf_end > lock.lf_end
        BY <1>2, <4>5 DEF Before
      <4>7. s.list[k].lf_start \in Nat /\ o.lf_end \in Nat \cup {EOF} /\ lock.lf_end \in Nat \cup {EOF}
        BY <1>0, <1>1, <4>5 DEF Ranged
      <4>8. s.list[k].lf_start > lock.lf_end
        BY ONLY <4>6, <4>7 DEF EOF
      <4> QED BY <1>2, <4>2, <4>8 DEF Before
    <3> QED BY <3>1, <3>2
  <2>12. SortedBut(r, 0)
    <3>1. \A k \in s.at + 1..Len(r) : r[k].lf_id = r[s.at].lf_id => Before(r[s.at], r[k])
      BY <2>0, <2>10, <2>11 DEF IsLock, Before
    <3>2. r \in Seq(LockRec)
      BY <2>7 DEF ListOK
    <3> QED BY <2>7, <2>10, <3>1, <3>2, SortedAll
  <2>13. Covered(lock, ToSet(r))
    <3>1. r[s.at] \in ToSet(r)
      BY <2>7, <2>10, ListSet
    <3> QED BY <2>0, <2>10, <3>1 DEF Covered, IsLock, Covers
  <2>14. SetInv(Leave(s, r, s.woken \cup ToSet(o.lf_blkhd)), L0, lock, q)
    BY <1>0, <1>1, <2>7, <2>12, <2>13, SetLeaves
  <2> QED BY <1>21, <2>3, <2>4, <2>14
<1>8. SetInv(SetRound(s, lock), L0, lock, q)
  BY <1>6, <1>7
<1> QED BY <1>0, <1>8, <1>21, LeaveDone

(* A round of lf_setlock keeps all that, and goes on only with fewer locks *)
(* of the list before it.                                                  *)
LEMMA SetRoundOK ==
    ASSUME NEW s, ~s.done, NEW L0, NEW lock \in LockRec, Ranged(lock), lock.lf_blkhd = <<>>,
           NEW q, ReqOK(q), SetInv(s, L0, lock, q),
           NEW t, t = SetRound(s, lock)
    PROVE  SetInv(t, L0, lock, q) /\ (~t.done => Len(t.list) - t.from < Len(s.list) - s.from)
<1>1. PICK j : j = FindSelf(s.list, lock, s.from)
  OBVIOUS
<1>2. PICK c : c = CaseAt(s.list, lock, j)
  OBVIOUS
<1>3. SetPre(s, L0, lock, q, j, c)
  BY <1>1, <1>2 DEF SetPre
<1>4. c \in 0..5
  BY <1>3, SetFacts
<1>5. CASE c = 0
  BY <1>3, <1>5, SetCase0
<1>6. CASE c = 1
  BY <1>3, <1>6, SetCase1
<1>7. CASE c = 2
  BY <1>3, <1>7, SetCase2
<1>8. CASE c = 3
  BY <1>3, <1>8, SetCase3First, SetCase3Next
<1>9. CASE c = 4
  BY <1>3, <1>9, SetCase4
<1>10. CASE c = 5
  BY <1>3, <1>10, SetCase5
<1> QED BY <1>4, <1>5, <1>6, <1>7, <1>8, <1>9, <1>10

(* True in each round of lf_clearlock: own locks before the place where    *)
(* it looks on are before the range.                                       *)
ClearInv(s, L0, lock, q) ==
    /\ s \in RoundState /\ ListOK(s.list) /\ SortedBut(s.list, 0)
    /\ Effect(ToSet(L0), ToSet(s.list), s.woken, lock, q)
    /\ s.done => \A l \in ToSet(s.list) : l.lf_id = lock.lf_id => ~Overlap(l, lock)
    /\ ~s.done => /\ s.from \in 1..Len(s.list) + 1
                  /\ \A k \in 1..s.from - 1 : s.list[k].lf_id = lock.lf_id => Before(s.list[k], lock)

(* What a round of lf_clearlock knows when it has found the lock at j, and *)
(* what becomes of the list when it leaves only its pieces.                *)
LEMMA ClearFacts ==
    ASSUME NEW s, NEW L0, NEW lock, NEW q, ClearInv(s, L0, lock, q), ~s.done, Ranged(lock),
           NEW j, j = FindSelf(s.list, lock, s.from), NEW c, c = CaseAt(s.list, lock, j)
    PROVE  /\ s \in RoundState /\ s.list \in Seq(LockRec) /\ Len(s.list) \in Nat
           /\ s.from \in Nat /\ j \in s.from..Len(s.list) + 1 /\ j >= 1
           /\ c \in 0..5
           /\ \A i \in 1..j - 1 : s.list[i].lf_id = lock.lf_id => Before(s.list[i], lock)
           /\ c = 0 => \A k \in j..Len(s.list) : s.list[k].lf_id = lock.lf_id => Before(lock, s.list[k])
           /\ c # 0 => /\ j \in 1..Len(s.list) /\ s.list[j].lf_id = lock.lf_id
                       /\ Overlap(s.list[j], lock) /\ c = OverlapCase(s.list[j], lock)
                       /\ s.list[j] \in LockRec /\ Ranged(s.list[j])
                       /\ ToSet(s.list[j].lf_blkhd) \subseteq Owners
<1> DEFINE L == s.list
<1>0. /\ L \in Seq(LockRec) /\ Len(L) \in Nat /\ ListOK(L) /\ s \in RoundState
      /\ \A k \in 1..Len(L) : L[k] \in LockRec /\ Ranged(L[k])
  BY LenProperties DEF ClearInv, ListOK
<1>1. /\ s.from \in 1..Len(L) + 1 /\ SortedBut(L, 0)
      /\ \A k \in 1..s.from - 1 : L[k].lf_id = lock.lf_id => Before(L[k], lock)
  BY DEF ClearInv
<1>2. /\ j \in s.from..Len(L) + 1
      /\ j <= Len(L) => L[j].lf_id = lock.lf_id /\ (Overlap(L[j], lock) \/ Before(lock, L[j]))
      /\ \A k \in s.from..j - 1 : L[k].lf_id = lock.lf_id => Before(L[k], lock)
  <2> HIDE DEF L
  <2>1. j = FindSelf(L, lock, s.from)
    BY DEF L
  <2> QED BY <1>0, <1>1, <2>1, FindSelfProperties
<1>3. c = CaseAt(L, lock, j)
  OBVIOUS
<1> HIDE DEF L
<1>4. s.from \in Nat /\ j >= 1 /\ (j <= Len(L) => j \in 1..Len(L))
  BY <1>0, <1>1, <1>2
<1>5. j <= Len(L) => c = OverlapCase(L[j], lock) /\ Ranged(L[j]) /\ L[j] \in LockRec
  BY <1>0, <1>3, <1>4 DEF CaseAt
<1>6. c \in 0..5 /\ (c # 0 => j <= Len(L) /\ Overlap(L[j], lock)) /\ (c = 0 /\ j <= Len(L) => ~Overlap(L[j], lock))
  <2>1. CASE j <= Len(L)
    BY <1>5, <2>1, OverlapCases
  <2>2. CASE ~(j <= Len(L))
    <3>1. c = 0
      BY <1>0, <1>2, <1>3, <2>2 DEF CaseAt
    <3> QED BY <2>2, <3>1
  <2> QED BY <2>1, <2>2
<1>7. ASSUME c = 0, NEW k \in j..Len(L), L[k].lf_id = lock.lf_id PROVE Before(lock, L[k])
  <2>1. j <= Len(L) /\ k \in 1..Len(L) /\ j \in 1..Len(L) /\ j # 0
    BY <1>0, <1>2, <1>4
  <2>2. Before(lock, L[j]) /\ L[j].lf_id = lock.lf_id
    BY <1>2, <1>6, <1>7, <2>1
  <2>3. CASE k = j
    BY <2>2, <2>3
  <2>4. CASE k # j
    <3>1. Before(L[j], L[k])
      BY <1>0, <1>1, <1>4, <1>7, <2>1, <2>2, <2>4 DEF SortedBut
    <3> QED BY <1>0, <2>1, <2>2, <3>1 DEF Before, Ranged, EOF
  <2> QED BY <2>3, <2>4
<1>8. c # 0 => ToSet(L[j].lf_blkhd) \subseteq Owners
  <2> SUFFICES ASSUME c # 0 PROVE ToSet(L[j].lf_blkhd) \subseteq Owners
    OBVIOUS
  <2>1. L[j].lf_blkhd \in Seq(Owners)
    BY <1>5, <1>6 DEF LockRec
  <2> QED BY <2>1, ToSetEmpty
<1>9. \A i \in 1..j - 1 : L[i].lf_id = lock.lf_id => Before(L[i], lock)
  <2>1. \A i \in 1..j - 1 : i \in 1..s.from - 1 \/ i \in s.from..j - 1
    BY <1>0, <1>1, <1>2
  <2> QED BY <1>1, <1>2, <2>1
<1> QED BY <1>0, <1>2, <1>4, <1>5, <1>6, <1>7, <1>8, <1>9 DEF L

(* What becomes of the list when only the pieces outside the range of an   *)
(* own lock are left.                                                      *)
OnList(s, L0, lock, q, j, c, o, parts, r) ==
    /\ ListOK(r) /\ SortedBut(r, 0)
    /\ Effect(ToSet(L0), ToSet(r), s.woken \cup ToSet(o.lf_blkhd), lock, q)
    /\ c = 1 => parts = <<>>
    /\ c = 5 => parts = <<RightPart(o, lock)>>
    /\ c \in {1, 2, 5} => \A l \in ToSet(r) : l.lf_id = lock.lf_id => ~Overlap(l, lock)
    /\ c = 3 => /\ parts = <<>> /\ Len(r) = Len(s.list) - 1
                /\ \A k \in 1..j - 1 : r[k] = s.list[k]
    /\ c = 4 => /\ parts = <<LeftPart(o, lock)>> /\ Len(r) = Len(s.list)
                /\ \A k \in 1..j - 1 : r[k] = s.list[k]
                /\ Before(r[j], lock)

(* A cut of a lock in the list.                                            *)
LEMMA ClearCut ==
    ASSUME NEW s, NEW L0, NEW lock, NEW q, ClearInv(s, L0, lock, q), ~s.done, Ranged(lock),
           NEW j, j = FindSelf(s.list, lock, s.from), NEW c, c = CaseAt(s.list, lock, j), c # 0,
           NEW o, o = s.list[j], NEW parts, parts = Cut(o, lock, <<>>),
           NEW r, r = Splice(s.list, j, parts)
    PROVE  OnList(s, L0, lock, q, j, c, o, parts, r)
<1> DEFINE L == s.list
<1>0. /\ s \in RoundState /\ L \in Seq(LockRec) /\ Len(L) \in Nat
      /\ c \in 0..5 /\ \A i \in 1..j - 1 : L[i].lf_id = lock.lf_id => Before(L[i], lock)
      /\ j \in 1..Len(L) /\ o.lf_id = lock.lf_id
      /\ Overlap(o, lock) /\ c = OverlapCase(o, lock)
      /\ o \in LockRec /\ Ranged(o)
  BY ClearFacts
<1>1. /\ ListOK(L) /\ SortedBut(L, 0) /\ Effect(ToSet(L0), ToSet(L), s.woken, lock, q)
      /\ WaitOK(ToSet(L), q) /\ Behind(L, 0) /\ 0 \in Nat
  BY DEF ClearInv, Effect, Behind
<1>2. CutOK(parts, o, lock, <<>>)
  BY <1>0, CutNothing
<1>3. /\ c = 1 => o.lf_start = lock.lf_start /\ o.lf_end = lock.lf_end
      /\ c = 2 => lock.lf_end # EOF /\ (o.lf_end = EOF \/ o.lf_end >= lock.lf_end)
      /\ c = 3 => /\ lock.lf_start <= o.lf_start
                  /\ lock.lf_end = EOF \/ (o.lf_end # EOF /\ o.lf_end <= lock.lf_end)
      /\ c = 4 => /\ o.lf_start < lock.lf_start
                  /\ lock.lf_end = EOF \/ (o.lf_end # EOF /\ o.lf_end < lock.lf_end)
      /\ c = 5 => /\ lock.lf_start < o.lf_start /\ lock.lf_end # EOF
                  /\ o.lf_end = EOF \/ o.lf_end > lock.lf_end
  BY <1>0, OverlapCases
<1>4. /\ c \in {1, 3} => ~HasLeft(o, lock) /\ ~HasRight(o, lock)
      /\ c = 4 => HasLeft(o, lock) /\ ~HasRight(o, lock)
      /\ c = 5 => ~HasLeft(o, lock) /\ HasRight(o, lock)
  BY <1>0, <1>3, SMTT(40) DEF HasLeft, HasRight, Ranged, EOF
<1> HIDE DEF L
<1>5. /\ <<>> \o <<>> \o <<>> = <<>>
      /\ <<LeftPart(o, lock)>> \o <<>> \o <<>> = <<LeftPart(o, lock)>>
      /\ <<>> \o <<>> \o <<RightPart(o, lock)>> = <<RightPart(o, lock)>>
  <2> DEFINE S == {LeftPart(o, lock), RightPart(o, lock)}
  <2>1. LeftPart(o, lock) \in S /\ RightPart(o, lock) \in S
    OBVIOUS
  <2> HIDE DEF S
  <2> QED BY <2>1, Parts
<1>6. /\ c \in {1, 3} => parts = <<>>
      /\ c = 4 => parts = <<LeftPart(o, lock)>>
      /\ c = 5 => parts = <<RightPart(o, lock)>>
  BY <1>4, <1>5 DEF Cut, LeftOf, RightOf
<1>7. /\ ListOK(r) /\ SortedBut(r, 0) /\ Effect(ToSet(L), ToSet(r), ToSet(o.lf_blkhd), lock, q)
  <2>1. PICK mid : mid = <<>>
    OBVIOUS
  <2>2. \A m \in 1..Len(parts) : parts[m] # lock
    <3>1. ASSUME NEW m \in 1..Len(parts), parts[m] = lock PROVE FALSE
      <4>1. ~Overlap(lock, lock)
        BY <1>2, <3>1 DEF CutOK
      <4>2. ~Before(lock, lock)
        BY OverlapBytes
      <4> QED BY <4>1, <4>2 DEF Overlap
    <3> QED BY <3>1
  <2>3. /\ mid # <<>> => \A i \in 1..j - 1 : i # 0 /\ L[i].lf_id = lock.lf_id => Before(L[i], lock)
        /\ \A m \in 1..Len(parts) : parts[m] = lock =>
              \/ 0 = j + m - 1
              \/ L[j].lf_end = EOF
              \/ lock.lf_end # EOF /\ lock.lf_end <= L[j].lf_end
        /\ CutOK(parts, L[j], lock, mid) /\ L[j].lf_id = lock.lf_id /\ L[j] = o
        /\ (0 = 0 \/ 0 = 0) /\ r = Splice(L, j, parts) /\ 0 < j /\ Ranged(lock)
    BY <1>0, <1>2, <2>1, <2>2 DEF L
  <2> QED BY ONLY <1>0, <1>1, <2>3, CutStep
<1>8. Effect(ToSet(L0), ToSet(r), s.woken \cup ToSet(o.lf_blkhd), lock, q)
  BY <1>1, <1>7, EffectTrans
<1>9. parts \in Seq(LockRec)
  BY <1>2 DEF CutOK
<1>10. L \in Seq(LockRec) /\ parts \in Seq(LockRec) /\ j \in 1..Len(L) /\ r = Splice(L, j, parts)
  BY <1>0, <1>9 DEF L
<1>11. ASSUME c \in {1, 2, 5}, NEW l \in ToSet(r), l.lf_id = lock.lf_id PROVE ~Overlap(l, lock)
  <2>1. ToSet(r) = Others(L, j) \cup {parts[m] : m \in 1..Len(parts)}
    BY ONLY <1>10, SpliceSet
  <2>2. CASE l \in {parts[m] : m \in 1..Len(parts)}
    BY <1>2, <2>2 DEF CutOK
  <2>3. CASE l \in Others(L, j)
    <3>1. PICK k \in (1..Len(L)) \ {j} : l = L[k]
      BY <2>3 DEF Others
    <3>2. CASE k < j
      <4>1. k \in 1..j - 1
        BY <1>0, <3>2
      <4> QED BY <1>0, <1>11, <3>1, <4>1 DEF Overlap
    <3>3. CASE k > j
      <4>1. j \in 1..Len(L) /\ k \in 1..Len(L) /\ j < k /\ j # 0
        BY <1>0, <3>3
      <4>2. Before(o, L[k])
        BY <1>0, <1>1, <1>11, <3>1, <4>1 DEF SortedBut, L
      <4>3. Ranged(L[k])
        BY <1>1 DEF ListOK
      <4>4. o.lf_end # EOF /\ L[k].lf_start > o.lf_end
        BY <4>2 DEF Before
      <4>5. lock.lf_end # EOF /\ lock.lf_end <= o.lf_end
        BY <1>0, <1>3, <1>11, <4>4, SMTT(40) DEF Ranged, EOF
      <4>6. L[k].lf_start \in Nat /\ o.lf_end \in Nat \cup {EOF} /\ lock.lf_end \in Nat \cup {EOF}
        BY <1>0, <4>3 DEF Ranged
      <4>7. L[k].lf_start > lock.lf_end
        BY ONLY <4>4, <4>5, <4>6 DEF EOF
      <4> QED BY <3>1, <4>5, <4>7 DEF Overlap, Before
    <3> QED BY <1>0, <3>2, <3>3
  <2> QED BY <2>1, <2>2, <2>3
<1>12. PICK n : n = Len(parts)
  OBVIOUS
<1>13. /\ Len(r) = Len(L) - 1 + n
       /\ \A k \in 1..Len(L) - 1 + n :
             r[k] = IF k < j THEN L[k] ELSE IF k < j + n THEN parts[k - j + 1] ELSE L[k - n + 1]
  <2>1. /\ Len(r) = Len(L) - 1 + Len(parts)
        /\ \A k \in 1..Len(L) - 1 + Len(parts) :
              r[k] = IF k < j THEN L[k] ELSE IF k < j + Len(parts) THEN parts[k - j + 1] ELSE L[k - Len(parts) + 1]
    BY ONLY <1>10, SpliceElements
  <2> QED BY <1>12, <2>1
<1>14. n \in Nat /\ \A k \in 1..j - 1 : r[k] = L[k]
  <2>1. n \in Nat
    BY <1>9, <1>12, LenProperties
  <2>2. \A k \in 1..j - 1 : k \in 1..Len(L) - 1 + n /\ k < j
    BY <1>0, <2>1
  <2> QED BY <1>13, <2>1, <2>2
<1>15. c = 3 => Len(r) = Len(L) - 1
  <2>1. c = 3 => n = 0
    BY <1>6, <1>12, EmptySeq
  <2> QED BY <1>0, <1>13, <2>1
<1>16. ASSUME c = 4 PROVE Len(r) = Len(L) /\ Before(r[j], lock)
  <2>1. LeftPart(o, lock) \in LockRec /\ Before(LeftPart(o, lock), lock)
    BY <1>0, <1>4, <1>16, LeftPiece DEF Piece
  <2>2. n = 1 /\ parts[1] = LeftPart(o, lock)
    BY <1>6, <1>12, <1>16, <2>1, Tuples
  <2>3. Len(r) = Len(L) /\ j \in 1..Len(L) - 1 + n /\ ~(j < j) /\ j < j + n /\ j - j + 1 = 1
    BY <1>0, <1>13, <2>2
  <2>4. r[j] = LeftPart(o, lock)
    BY <1>13, <2>2, <2>3
  <2> QED BY <2>1, <2>3, <2>4
<1> QED BY <1>6, <1>7, <1>8, <1>11, <1>14, <1>15, <1>16 DEF L, OnList

(* A round of lf_clearlock keeps all that, and goes on only with fewer     *)
(* locks of the list before it.                                            *)
LEMMA ClearRoundOK ==
    ASSUME NEW s, ~s.done, NEW L0, NEW lock, Ranged(lock), NEW q, ClearInv(s, L0, lock, q),
           NEW t, t = ClearRound(s, lock)
    PROVE  ClearInv(t, L0, lock, q) /\ (~t.done => Len(t.list) - t.from < Len(s.list) - s.from)
<1>1. PICK j : j = FindSelf(s.list, lock, s.from)
  OBVIOUS
<1>2. PICK c : c = CaseAt(s.list, lock, j)
  OBVIOUS
<1>3. PICK o : o = s.list[j]
  OBVIOUS
<1>4. PICK woken : woken = s.woken \cup ToSet(o.lf_blkhd)
  OBVIOUS
<1>5. PICK parts : parts = Cut(o, lock, <<>>)
  OBVIOUS
<1>6. PICK r : r = Splice(s.list, j, parts)
  OBVIOUS
<1>7. t = CASE c = 0 -> Leave(s, s.list, s.woken)
            [] c = 1 -> Leave(s, Splice(s.list, j, <<>>), woken)
            [] c = 2 -> Leave(s, lf_split(s.list, j, lock, FALSE), woken)
            [] c = 3 -> [s EXCEPT !.list = Splice(@, j, <<>>), !.from = j, !.woken = woken]
            [] c = 4 -> [s EXCEPT !.list = Splice(@, j, <<LeftPart(o, lock)>>), !.from = j + 1, !.woken = woken]
            [] c = 5 -> Leave(s, Splice(s.list, j, <<RightPart(o, lock)>>), woken)
  BY <1>1, <1>2, <1>3, <1>4, Zenon DEF ClearRound
<1>8. /\ s \in RoundState /\ s.list \in Seq(LockRec) /\ Len(s.list) \in Nat
      /\ s.from \in Nat /\ j \in s.from..Len(s.list) + 1 /\ j >= 1
      /\ c \in 0..5
      /\ \A i \in 1..j - 1 : s.list[i].lf_id = lock.lf_id => Before(s.list[i], lock)
      /\ c = 0 => \A k \in j..Len(s.list) : s.list[k].lf_id = lock.lf_id => Before(lock, s.list[k])
      /\ c # 0 => /\ j \in 1..Len(s.list) /\ o.lf_id = lock.lf_id
                  /\ Overlap(o, lock) /\ c = OverlapCase(o, lock)
                  /\ o \in LockRec /\ Ranged(o)
                  /\ ToSet(o.lf_blkhd) \subseteq Owners
  BY <1>1, <1>2, <1>3, ClearFacts
<1>9. c # 0 =>
           /\ ListOK(r) /\ SortedBut(r, 0) /\ Effect(ToSet(L0), ToSet(r), woken, lock, q)
           /\ c = 1 => parts = <<>>
           /\ c = 5 => parts = <<RightPart(o, lock)>>
           /\ c \in {1, 2, 5} => \A l \in ToSet(r) : l.lf_id = lock.lf_id => ~Overlap(l, lock)
           /\ c = 3 => parts = <<>> /\ Len(r) = Len(s.list) - 1 /\ \A k \in 1..j - 1 : r[k] = s.list[k]
           /\ c = 4 => /\ parts = <<LeftPart(o, lock)>> /\ Len(r) = Len(s.list)
                       /\ \A k \in 1..j - 1 : r[k] = s.list[k]
                       /\ Before(r[j], lock)
  <2> SUFFICES ASSUME c # 0 PROVE OnList(s, L0, lock, q, j, c, o, parts, r)
    BY <1>4 DEF OnList
  <2> QED BY <1>1, <1>2, <1>3, <1>5, <1>6, ClearCut
<1>10. c # 0 => r \in Seq(LockRec) /\ woken \in SUBSET Owners /\ s.done \in BOOLEAN
  BY <1>4, <1>8, <1>9 DEF ListOK, RoundState
<1>11. ListOK(s.list) /\ SortedBut(s.list, 0) /\ Effect(ToSet(L0), ToSet(s.list), s.woken, lock, q)
  BY DEF ClearInv
<1>12. CASE c = 0
  <2>1. t = Leave(s, s.list, s.woken)
    BY <1>7, <1>12
  <2>2. t \in RoundState /\ t.list = s.list /\ t.woken = s.woken /\ t.done = TRUE
    BY <1>8, <2>1 DEF RoundState, Leave
  <2>3. ASSUME NEW l \in ToSet(s.list), l.lf_id = lock.lf_id PROVE ~Overlap(l, lock)
    <3>1. PICK k \in 1..Len(s.list) : l = s.list[k]
      BY <1>11, ListSet
    <3>2. k \in 1..j - 1 \/ k \in j..Len(s.list)
      BY <1>8
    <3> QED BY <1>8, <1>12, <2>3, <3>1, <3>2 DEF Overlap
  <2> QED BY <1>11, <2>2, <2>3 DEF ClearInv
<1>13. CASE c \in {1, 2, 5}
  <2>1. t = Leave(s, r, woken)
    <3>1. CASE c = 1
      BY <1>6, <1>7, <1>9, <3>1
    <3>2. CASE c = 2
      <4>1. t = Leave(s, lf_split(s.list, j, lock, FALSE), woken)
        BY <1>7, <3>2
      <4>2. /\ o.lf_start <= lock.lf_start /\ lock.lf_end # EOF
            /\ o.lf_end = EOF \/ o.lf_end >= lock.lf_end
        BY <1>8, <3>2, OverlapCases
      <4>3. HasLeft(o, lock) <=> ~(o.lf_start = lock.lf_start)
        BY <1>8, <3>2, <4>2 DEF HasLeft, Ranged
      <4>4. HasRight(o, lock) <=> ~(o.lf_end = lock.lf_end)
        BY <1>8, <3>2, <4>2 DEF HasRight, Ranged, EOF
      <4>5. lf_split(s.list, j, lock, FALSE) = r
        BY <1>3, <1>5, <1>6, <4>3, <4>4, Zenon DEF lf_split, Cut, LeftOf, RightOf
      <4> QED BY <4>1, <4>5
    <3>3. CASE c = 5
      BY <1>6, <1>7, <1>9, <3>3
    <3> QED BY <1>13, <3>1, <3>2, <3>3
  <2>2. t \in RoundState /\ t.list = r /\ t.woken = woken /\ t.done = TRUE
    <3>1. s \in RoundState /\ r \in Seq(LockRec) /\ woken \in SUBSET Owners
      BY <1>8, <1>10, <1>13
    <3> QED BY ONLY <2>1, <3>1, LeaveFields
  <2> QED BY <1>9, <1>13, <2>2 DEF ClearInv
<1>14. CASE c = 3
  <2>1. t = [s EXCEPT !.list = Splice(@, j, <<>>), !.from = j, !.woken = woken]
    BY <1>7, <1>14
  <2>2. r = Splice(s.list, j, <<>>)
    BY <1>6, <1>9, <1>14
  <2>3. j \in Nat /\ j <= Len(s.list) /\ s.from <= j
    BY <1>8, <1>14
  <2>4. t \in RoundState /\ t.list = r /\ t.from = j /\ t.woken = woken /\ ~t.done
    <3>1. s \in RoundState /\ r \in Seq(LockRec) /\ woken \in SUBSET Owners /\ ~s.done
      BY <1>8, <1>10, <1>14
    <3>2. t = [s EXCEPT !.list = r, !.from = j, !.woken = woken]
      BY <2>1, <2>2
    <3> QED BY ONLY <2>3, <3>1, <3>2 DEF RoundState
  <2>5. Len(r) = Len(s.list) - 1 /\ \A k \in 1..j - 1 : r[k] = s.list[k]
    BY <1>9, <1>14
  <2>6. j \in 1..Len(r) + 1 /\ Len(r) - j < Len(s.list) - s.from
    BY <1>8, <2>3, <2>5
  <2> QED BY <1>8, <1>9, <1>14, <2>4, <2>5, <2>6 DEF ClearInv
<1>15. CASE c = 4
  <2>1. t = [s EXCEPT !.list = Splice(@, j, <<LeftPart(o, lock)>>), !.from = j + 1, !.woken = woken]
    BY <1>7, <1>15
  <2>2. r = Splice(s.list, j, <<LeftPart(o, lock)>>)
    BY <1>6, <1>9, <1>15
  <2>3. j \in Nat /\ j <= Len(s.list) /\ s.from <= j /\ j + 1 \in Nat
    BY <1>8, <1>15
  <2>4. t \in RoundState /\ t.list = r /\ t.from = j + 1 /\ t.woken = woken /\ ~t.done
    <3>1. s \in RoundState /\ r \in Seq(LockRec) /\ woken \in SUBSET Owners /\ ~s.done
      BY <1>8, <1>10, <1>15
    <3>2. t = [s EXCEPT !.list = r, !.from = j + 1, !.woken = woken]
      BY <2>1, <2>2
    <3> QED BY ONLY <2>3, <3>1, <3>2 DEF RoundState
  <2>5. Len(r) = Len(s.list) /\ (\A k \in 1..j - 1 : r[k] = s.list[k]) /\ Before(r[j], lock)
    BY <1>9, <1>15
  <2>6. j + 1 \in 1..Len(r) + 1 /\ Len(r) - (j + 1) < Len(s.list) - s.from
    BY <1>8, <2>3, <2>5
  <2>7. ASSUME NEW k \in 1..(j + 1) - 1, r[k].lf_id = lock.lf_id PROVE Before(r[k], lock)
    <3>1. k = j \/ k \in 1..j - 1
      BY <2>3
    <3> QED BY <1>8, <2>5, <2>7, <3>1
  <2> QED BY <1>8, <1>9, <1>15, <2>4, <2>6, <2>7 DEF ClearInv
<1> QED BY <1>8, <1>12, <1>13, <1>14, <1>15

-----------------------------------------------------------------------------
(* The loops: round after round until they are left.                       *)

(* What is true after each round.                                          *)
LoopInv(s, L0, lock, q) ==
    IF lock.lf_type = "F_UNLCK" THEN ClearInv(s, L0, lock, q) ELSE SetInv(s, L0, lock, q)

(* The range of F_UNLCK, or a lock to be set.                              *)
IsAsked(lock) ==
    /\ Ranged(lock)
    /\ lock.lf_type = "F_UNLCK" \/ (lock \in LockRec /\ lock.lf_blkhd = <<>>)

(* g[n] is where the loop has come to in n rounds.                         *)
RoundsUpTo(list, lock, m, g) ==
    g = [n \in 0..m |-> IF n = 0 THEN LoopStart(list) ELSE Round(g[n - 1], lock)]

(* The recursion of Loop has a solution.                                   *)
LEMMA RoundsExist ==
    ASSUME NEW list, NEW lock, NEW m \in Nat
    PROVE  \E g : RoundsUpTo(list, lock, m, g)
<1> DEFINE bad == {k \in Nat : ~ \E g : RoundsUpTo(list, lock, k, g)}
<1> SUFFICES ASSUME bad # {} PROVE FALSE
  OBVIOUS
<1>1. PICK k \in bad : \A l \in bad : k <= l
  BY LeastNat, bad \in SUBSET Nat
<1>2. CASE k = 0
  <2>1. RoundsUpTo(list, lock, 0, [n \in 0..0 |-> LoopStart(list)])
    BY DEF RoundsUpTo
  <2> QED BY <1>2, <2>1, <1>1
<1>3. CASE k # 0
  <2>1. k \in Nat /\ k - 1 \in Nat /\ k - 1 \notin bad
    BY <1>1, <1>3
  <2>2. PICK g : RoundsUpTo(list, lock, k - 1, g)
    BY <2>1
  <2> DEFINE h == [n \in 0..k |-> IF n < k THEN g[n] ELSE Round(g[n - 1], lock)]
  <2>3. ASSUME NEW n \in 0..k
        PROVE  h[n] = IF n = 0 THEN LoopStart(list) ELSE Round(h[n - 1], lock)
    <3>1. CASE n < k
      <4>1. n \in 0..k - 1 /\ h[n] = g[n] /\ (n # 0 => h[n - 1] = g[n - 1])
        BY <3>1, <2>1
      <4>2. g[n] = IF n = 0 THEN LoopStart(list) ELSE Round(g[n - 1], lock)
        BY <2>2, <4>1 DEF RoundsUpTo
      <4> HIDE DEF h
      <4> QED BY <4>1, <4>2
    <3>2. CASE n = k
      <4>1. h[n] = Round(g[n - 1], lock) /\ h[n - 1] = g[n - 1]
        BY <3>2, <2>1
      <4> HIDE DEF h
      <4> QED BY <4>1, <3>2, <1>3
    <3> QED BY <2>1, <3>1, <3>2
  <2>4. h = [n \in 0..k |-> h[n]]
    OBVIOUS
  <2> HIDE DEF h
  <2>5. RoundsUpTo(list, lock, k, h)
    BY <2>3, <2>4 DEF RoundsUpTo
  <2> QED BY <2>5, <1>1
<1> QED BY <1>2, <1>3

(* The loop is its rounds.                                                 *)
LEMMA LoopInRounds ==
    ASSUME NEW list, NEW lock, NEW m \in Nat, m = Len(list) + 1
    PROVE  \E g : /\ g[0] = LoopStart(list) /\ \A n \in 1..m : g[n] = Round(g[n - 1], lock)
                  /\ Loop(list, lock) = g[m]
<1>1. PICK g : RoundsUpTo(list, lock, m, g) /\ Loop(list, lock) = g[m]
  <2> DEFINE after == CHOOSE g : RoundsUpTo(list, lock, m, g)
  <2>1. RoundsUpTo(list, lock, m, after)
    BY RoundsExist
  <2>2. Loop(list, lock) = after[m]
    BY DEF Loop, RoundsUpTo
  <2> HIDE DEF after
  <2> QED BY <2>1, <2>2
<1>2. \A n \in 0..m : g[n] = IF n = 0 THEN LoopStart(list) ELSE Round(g[n - 1], lock)
  BY <1>1, Zenon DEF RoundsUpTo
<1>3. 0 \in 0..m /\ \A n \in 1..m : n \in 0..m /\ n # 0
  OBVIOUS
<1>4. g[0] = LoopStart(list) /\ \A n \in 1..m : g[n] = Round(g[n - 1], lock)
  BY <1>2, <1>3, Zenon
<1> QED BY <1>1, <1>4

(* Before the first round.                                                 *)
LEMMA LoopBegins ==
    ASSUME NEW list, ListOK(list), SortedBut(list, 0), NEW q, WaitOK(ToSet(list), q), NEW lock,
           NEW s, s = LoopStart(list)
    PROVE  LoopInv(s, list, lock, q) /\ ~s.done /\ s.list = list /\ s.from = 1
<1>1. s \in RoundState /\ s.list = list /\ s.at = 0 /\ s.from = 1 /\ s.woken = {} /\ ~s.done
  BY DEF LoopStart, RoundState, ListOK
<1>2. Effect(ToSet(list), ToSet(s.list), s.woken, lock, q)
  BY <1>1, NoEffect
<1>3. 1 \in 1..Len(list) + 1 /\ 0 < 1 /\ \A k \in 1..1 - 1 : FALSE
  BY ListSet
<1>4. Behind(list, 0)
  BY DEF Behind
<1>5. ClearInv(s, list, lock, q)
  BY <1>1, <1>2, <1>3 DEF ClearInv
<1>6. SetInv(s, list, lock, q)
  BY <1>1, <1>2, <1>3, <1>4 DEF SetInv
<1> QED BY <1>1, <1>5, <1>6 DEF LoopInv

(* A round of either loop.                                                 *)
LEMMA RoundOK ==
    ASSUME NEW s, NEW L0, NEW lock, IsAsked(lock), NEW q, ReqOK(q), LoopInv(s, L0, lock, q),
           NEW t, t = Round(s, lock)
    PROVE  /\ LoopInv(t, L0, lock, q) /\ (s.done => t = s)
           /\ ~t.done => ~s.done /\ Len(t.list) - t.from < Len(s.list) - s.from
<1>1. CASE s.done
  BY <1>1 DEF Round
<1>2. CASE ~s.done /\ lock.lf_type = "F_UNLCK"
  <2>1. t = ClearRound(s, lock) /\ ClearInv(s, L0, lock, q)
    BY <1>2 DEF Round, LoopInv
  <2>2. ClearInv(t, L0, lock, q) /\ (~t.done => Len(t.list) - t.from < Len(s.list) - s.from)
    BY <1>2, <2>1, ClearRoundOK DEF IsAsked
  <2> QED BY <1>2, <2>2 DEF LoopInv
<1>3. CASE ~s.done /\ lock.lf_type # "F_UNLCK"
  <2>1. t = SetRound(s, lock) /\ SetInv(s, L0, lock, q)
    BY <1>3 DEF Round, LoopInv
  <2>2. SetInv(t, L0, lock, q) /\ (~t.done => Len(t.list) - t.from < Len(s.list) - s.from)
    BY <1>3, <2>1, SetRoundOK DEF IsAsked
  <2> QED BY <1>3, <2>2 DEF LoopInv
<1> QED BY <1>1, <1>2, <1>3

(* What an unfinished loop has before it is in the list.                   *)
LEMMA LoopRange ==
    ASSUME NEW s, NEW L0, NEW lock, NEW q, LoopInv(s, L0, lock, q), ~s.done
    PROVE  Len(s.list) \in Nat /\ s.from \in Nat /\ s.from <= Len(s.list) + 1
<1>1. s.from \in 1..Len(s.list) + 1 /\ s.list \in Seq(LockRec)
  BY DEF LoopInv, ClearInv, SetInv, ListOK
<1>2. Len(s.list) \in Nat
  BY <1>1, LenProperties
<1> QED BY <1>1, <1>2

(* The loops are left after at most as many rounds as there are locks, and *)
(* one, with what their rounds promise.                                    *)
LEMMA LoopOK ==
    ASSUME NEW list, ListOK(list), SortedBut(list, 0), NEW q, ReqOK(q), WaitOK(ToSet(list), q),
           NEW lock, IsAsked(lock), NEW s, s = Loop(list, lock)
    PROVE  LoopInv(s, list, lock, q) /\ s.done
<1>0. Len(list) \in Nat
  BY ListSet
<1>1. PICK m \in Nat : m = Len(list) + 1
  BY <1>0
<1>2. PICK g : /\ g[0] = LoopStart(list) /\ \A n \in 1..m : g[n] = Round(g[n - 1], lock)
               /\ s = g[m]
  BY <1>1, LoopInRounds
<1> DEFINE Good(n) == /\ LoopInv(g[n], list, lock, q)
                      /\ ~g[n].done => Len(g[n].list) - g[n].from + n <= m - 2
           bad == {n \in 0..m : ~Good(n)}
<1>3. Good(0)
  BY <1>0, <1>1, <1>2, LoopBegins
<1>4. ASSUME NEW n \in 1..m, Good(n - 1) PROVE Good(n)
  <2>1. PICK u : u = g[n - 1]
    OBVIOUS
  <2>2. PICK t : t = g[n]
    OBVIOUS
  <2>3. t = Round(u, lock) /\ LoopInv(u, list, lock, q)
    BY <1>2, <1>4, <2>1, <2>2
  <2>4. /\ LoopInv(t, list, lock, q)
        /\ ~t.done => ~u.done /\ Len(t.list) - t.from < Len(u.list) - u.from
    BY <2>3, RoundOK
  <2>5. ~t.done => Len(t.list) - t.from + n <= m - 2
    <3> SUFFICES ASSUME ~t.done PROVE Len(t.list) - t.from + n <= m - 2
      OBVIOUS
    <3>1. Len(t.list) \in Nat /\ t.from \in Nat
      BY <2>4, LoopRange
    <3>2. Len(u.list) \in Nat /\ u.from \in Nat
      BY <2>3, <2>4, LoopRange
    <3>3. Len(u.list) - u.from + (n - 1) <= m - 2
      BY <1>4, <2>1, <2>4
    <3> QED BY <2>4, <3>1, <3>2, <3>3, SMTT(40)
  <2> QED BY <2>2, <2>4, <2>5
<1> HIDE DEF Good
<1>5. bad = {}
  <2> SUFFICES ASSUME bad # {} PROVE FALSE
    OBVIOUS
  <2>1. bad \in SUBSET Nat
    OBVIOUS
  <2>2. PICK n \in bad : \A l \in bad : n <= l
    BY <2>1, LeastNat
  <2>3. n # 0
    BY <1>3, <2>2
  <2>4. n \in 1..m /\ n - 1 \in 0..m /\ ~(n <= n - 1)
    BY <2>2, <2>3
  <2> QED BY <1>4, <2>2, <2>4
<1>6. Good(m)
  BY <1>5
<1>7. s.done
  <2> SUFFICES ASSUME ~s.done PROVE FALSE
    OBVIOUS
  <2>1. LoopInv(s, list, lock, q) /\ Len(s.list) - s.from + m <= m - 2
    BY <1>2, <1>6 DEF Good
  <2>2. Len(s.list) \in Nat /\ s.from \in Nat /\ s.from <= Len(s.list) + 1
    BY <2>1, LoopRange
  <2> QED BY <2>1, <2>2
<1> QED BY <1>2, <1>6, <1>7 DEF Good


(* The list that lf_setlock leaves has the lock, and who is not woken is   *)
(* blocked as before.                                                      *)
LEMMA SetResult ==
    ASSUME NEW list, ListOK(list), SortedBut(list, 0), NEW q, ReqOK(q), WaitOK(ToSet(list), q),
           NEW lock \in LockRec, Ranged(lock), lock.lf_blkhd = <<>>, NEW s, s = Loop(list, lock)
    PROVE  /\ ListOK(s.list) /\ SortedBut(s.list, 0) /\ s.woken \in SUBSET Owners
           /\ Effect(ToSet(list), ToSet(s.list), s.woken, lock, q) /\ Covered(lock, ToSet(s.list))
<1>1. IsAsked(lock) /\ lock.lf_type # "F_UNLCK"
  BY DEF IsAsked, LockRec, Types
<1>2. SetInv(s, list, lock, q) /\ s.done
  BY <1>1, LoopOK DEF LoopInv
<1> QED BY <1>2 DEF SetInv, RoundState

(* The list that lf_clearlock leaves has no own lock in the range.         *)
LEMMA ClearResult ==
    ASSUME NEW list, ListOK(list), SortedBut(list, 0), NEW q, ReqOK(q), WaitOK(ToSet(list), q),
           NEW lock, Ranged(lock), lock.lf_type = "F_UNLCK", NEW s, s = Loop(list, lock)
    PROVE  /\ ListOK(s.list) /\ SortedBut(s.list, 0) /\ s.woken \in SUBSET Owners
           /\ Effect(ToSet(list), ToSet(s.list), s.woken, lock, q)
           /\ \A l \in ToSet(s.list) : l.lf_id = lock.lf_id => ~Overlap(l, lock)
<1>1. IsAsked(lock)
  BY DEF IsAsked
<1>2. ClearInv(s, list, lock, q) /\ s.done
  BY <1>1, LoopOK DEF LoopInv
<1> QED BY <1>2 DEF ClearInv, RoundState

-----------------------------------------------------------------------------
(* The invariant, of the set S of locks and of what the owners do and ask. *)

LockfPcValues == {"idle", "asleep", "woken", "signalled"}

(* What o may ask for. *)
Requests(o) ==
    {[lf_type |-> t, lf_start |-> r.lf_start, lf_end |-> r.lf_end] : t \in Types, r \in Ranges(o)}

(* Who is on the list of a lock sleeps, or has had a signal, and who       *)
(* sleeps is on one; no two processes wait for each other.                 *)
WaitInv(S, p, q) ==
    /\ WaitOK(S, q)
    /\ \A a, x \in Owners : On(S, a, x) => p[a] \in {"asleep", "signalled"}
    /\ \A a \in Owners : p[a] = "asleep" => \E x \in Owners : On(S, a, x)
    /\ \A a, x \in Owners \ Flockers :
          p[a] = "asleep" /\ p[x] = "asleep" => ~(On(S, a, x) /\ On(S, x, a))

(* Who waits has a request. *)
AskInv(p, q) ==
    /\ \A a \in Owners : p[a] \in LockfPcValues
    /\ \A a \in Owners : q[a] \in Requests(a) \cup {NoRequest} /\ (p[a] # "idle" => q[a] \in Requests(a))

LockfInv ==
    /\ MaxEnd < OFF_MAX
    /\ ListOK(lf) /\ SortedBut(lf, 0)
    /\ pc \in [Owners -> LockfPcValues] /\ DOMAIN req = Owners /\ req = [o \in Owners |-> req[o]]
    /\ AskInv(pc, req) /\ WaitInv(ToSet(lf), pc, req)

(* Ranges are never empty, and end before OFF_MAX or not at all.           *)
LEMMA RangesOK ==
    ASSUME MaxEnd < OFF_MAX, NEW o \in Owners, NEW r \in Ranges(o)
    PROVE  Ranged(r)
<1>1. OFF_MAX \in Nat /\ MaxEnd \in Nat
  BY LockfAssumption
<1>2. ASSUME NEW s \in 0..OFF_MAX, NEW l \in Int, NEW x \in RangeOf(s, l), x.lf_end <= MaxEnd
      PROVE  Ranged(x)
  <2>1. CASE l = 0
    BY <1>1, <1>2, <2>1 DEF RangeOf, Ranged, InFile, EOF
  <2>2. CASE l > 0
    BY <1>1, <1>2, <2>2 DEF RangeOf, Ranged, InFile, EOF
  <2>3. CASE l < 0
    BY <1>1, <1>2, <2>3 DEF RangeOf, Ranged, InFile, EOF
  <2> QED BY <1>2, <2>1, <2>2, <2>3
<1>3. CASE o \in Flockers
  <2>1. r \in RangeOf(0, 0)
    BY <1>3 DEF Ranges
  <2>2. r.lf_end <= MaxEnd
    BY <1>1, <2>1 DEF RangeOf, EOF
  <2>3. 0 \in 0..OFF_MAX /\ 0 \in Int
    BY <1>1
  <2> QED BY <1>2, <2>1, <2>2, <2>3
<1>4. CASE o \notin Flockers
  <2>1. PICK s \in 0..OFF_MAX, l \in -OFF_MAX..OFF_MAX : r \in RangeOf(s, l) /\ r.lf_end <= MaxEnd
    BY <1>4 DEF Ranges
  <2>2. l \in Int
    BY <1>1, <2>1
  <2> QED BY <1>2, <2>1, <2>2
<1> QED BY <1>3, <1>4

(* Requests are of ranges.                                                 *)
LEMMA RequestsOK ==
    ASSUME MaxEnd < OFF_MAX, NEW o \in Owners, NEW a \in Requests(o)
    PROVE  /\ Ranged(a) /\ a.lf_type \in Types
           /\ a = [lf_type |-> a.lf_type, lf_start |-> a.lf_start, lf_end |-> a.lf_end]
           /\ \E r \in Ranges(o) : r.lf_start = a.lf_start /\ r.lf_end = a.lf_end
<1>1. PICK t \in Types, r \in Ranges(o) : a = [lf_type |-> t, lf_start |-> r.lf_start, lf_end |-> r.lf_end]
  BY DEF Requests
<1>2. Ranged(r)
  BY RangesOK
<1> QED BY <1>1, <1>2 DEF Ranged, InFile

(* The requests that lf_setlock compares with.                             *)
LEMMA AskInvReqOK ==
    ASSUME MaxEnd < OFF_MAX, NEW p, NEW q, AskInv(p, q)
    PROVE  ReqOK(q)
<1>1. Ranged(NoRequest)
  BY LockfAssumption DEF NoRequest, Ranged, InFile, EOF
<1> QED BY <1>1, RequestsOK DEF AskInv, ReqOK

(* A loop keeps the invariant if it wakes who it takes off.                *)
LEMMA WokenKeeps ==
    ASSUME NEW S0, NEW S, NEW p, NEW q, AskInv(p, q), WaitInv(S0, p, q), NEW lock,
           NEW W \in SUBSET Owners, Effect(S0, S, W, lock, q)
    PROVE  /\ AskInv(Woken(p, W), q) /\ WaitInv(S, Woken(p, W), q)
           /\ Woken(p, W) \in [Owners -> LockfPcValues]
<1>1. PICK p2 : p2 = Woken(p, W)
  OBVIOUS
<1>2. /\ \A a \in Owners : p2[a] = IF a \in W /\ p[a] = "asleep" THEN "woken" ELSE p[a]
      /\ p2 = [a \in Owners |-> p2[a]]
  BY <1>1 DEF Woken
<1>3. \A a, x \in Owners : On(S, a, x) <=> On(S0, a, x) /\ a \notin W
  BY DEF Effect
<1>4. AskInv(p2, q)
  BY <1>2 DEF AskInv, LockfPcValues
<1>5. WaitInv(S, p2, q)
  <2>1. WaitOK(S, q)
    BY DEF Effect
  <2>2. ASSUME NEW a \in Owners, NEW x \in Owners, On(S, a, x) PROVE p2[a] \in {"asleep", "signalled"}
    BY <1>2, <1>3, <2>2 DEF WaitInv
  <2>3. ASSUME NEW a \in Owners, p2[a] = "asleep" PROVE \E x \in Owners : On(S, a, x)
    <3>1. p[a] = "asleep" /\ a \notin W
      BY <1>2, <2>3
    <3>2. PICK x \in Owners : On(S0, a, x)
      BY <3>1 DEF WaitInv
    <3> QED BY <1>3, <3>1, <3>2
  <2>4. \A a \in Owners : p2[a] = "asleep" => p[a] = "asleep"
    BY <1>2
  <2>5. ASSUME NEW a \in Owners \ Flockers, NEW x \in Owners \ Flockers,
               p2[a] = "asleep", p2[x] = "asleep", On(S, a, x), On(S, x, a)
        PROVE  FALSE
    BY <1>3, <2>4, <2>5 DEF WaitInv
  <2> QED BY <2>1, <2>2, <2>3, <2>5 DEF WaitInv
<1>6. p2 \in [Owners -> LockfPcValues]
  BY <1>2, <1>4 DEF AskInv
<1> QED BY <1>1, <1>4, <1>5, <1>6

(* An owner that is on no list may change what it asks for.                *)
LEMMA RequestKeeps ==
    ASSUME NEW S, NEW p \in [Owners -> LockfPcValues], NEW q, AskInv(p, q), WaitInv(S, p, q),
           \A l \in S : l.lf_id \in Owners,
           NEW o \in Owners, \A x \in Owners : ~On(S, o, x), DOMAIN q = Owners,
           NEW p2, p2 = [p EXCEPT ![o] = "idle"], NEW q2, q2 = [q EXCEPT ![o] = NoRequest]
    PROVE  AskInv(p2, q2) /\ WaitInv(S, p2, q2) /\ p2 \in [Owners -> LockfPcValues]
<1>1. /\ \A a \in Owners : p2[a] = IF a = o THEN "idle" ELSE p[a]
      /\ \A a \in Owners : q2[a] = IF a = o THEN NoRequest ELSE q[a]
      /\ p2 \in [Owners -> LockfPcValues]
  BY DEF LockfPcValues
<1>2. AskInv(p2, q2)
  BY <1>1 DEF AskInv, LockfPcValues
<1>3. WaitOK(S, q2)
  <2>1. ASSUME NEW l \in S, NEW a \in ToSet(l.lf_blkhd), a \in Owners
        PROVE  Asked(q2, a) = Asked(q, a)
    <3>1. On(S, a, l.lf_id)
      BY DEF On
    <3>2. a # o
      BY <3>1
    <3> QED BY <1>1, <2>1, <3>2 DEF Asked
  <2>2. ASSUME NEW l \in S, NEW a \in ToSet(l.lf_blkhd), a \notin Owners
        PROVE  Asked(q2, a) = Asked(q, a)
    <3>1. q2[a] = q[a]
      BY <2>2
    <3> QED BY <3>1 DEF Asked
  <2> QED BY <2>1, <2>2 DEF WaitOK, WaitInv
<1>4. WaitInv(S, p2, q2)
  BY <1>1, <1>3 DEF WaitInv
<1> QED BY <1>1, <1>2, <1>4


(* What lf_getblock() finds.                                               *)
LEMMA GetblockProperties ==
    ASSUME NEW L, ListOK(L), NEW lock, NEW b, b = lf_getblock(L, lock)
    PROVE  /\ b \in 1..Len(L) + 1
           /\ b <= Len(L) => b \in 1..Len(L) /\ Conflicts(L[b], lock)
           /\ b > Len(L) <=> \A k \in 1..Len(L) : ~Conflicts(L[k], lock)
<1> DEFINE T == {k \in 1..Len(L) : Conflicts(L[k], lock)} \cup {Len(L) + 1}
<1>1. Len(L) \in Nat
  BY ListSet
<1>2. T \in SUBSET Nat /\ T # {}
  BY <1>1
<1>3. b = Min(T)
  <2>1. DOMAIN L = 1..Len(L)
    BY ListSet
  <2> QED BY <2>1 DEF lf_getblock, FirstOf
<1>4. b \in T /\ \A k \in T : b <= k
  <2> HIDE DEF T
  <2> QED BY <1>2, <1>3, MinIsLeast
<1> QED BY <1>1, <1>4

(* The lock that an owner waits for, as the deadlock check sees it.        *)
LEMMA WaitsOnLock ==
    ASSUME NEW q, ListOK(lf), WaitOK(ToSet(lf), q), NEW o, NEW x, On(ToSet(lf), o, x)
    PROVE  /\ WaitsOn(o) \in 1..Len(lf) /\ o \in ToSet(lf[WaitsOn(o)].lf_blkhd)
           /\ lf[WaitsOn(o)] \in ToSet(lf) /\ lf[WaitsOn(o)].lf_id = x
<1> DEFINE I == {i \in 1..Len(lf) : o \in ToSet(lf[i].lf_blkhd)}
<1>1. PICK l \in ToSet(lf) : o \in ToSet(l.lf_blkhd) /\ l.lf_id = x
  BY DEF On
<1>2. PICK i \in 1..Len(lf) : l = lf[i]
  BY ListSet
<1>3. I \in SUBSET Nat /\ i \in I
  BY <1>1, <1>2
<1>4. WaitsOn(o) = Min(I)
  BY <1>3 DEF WaitsOn, SelectInSeq
<1>5. Min(I) \in I
  <2> HIDE DEF I
  <2> QED BY <1>3, MinIsLeast
<1>6. PICK w : w = WaitsOn(o)
  OBVIOUS
<1>7. w \in 1..Len(lf) /\ o \in ToSet(lf[w].lf_blkhd)
  BY <1>4, <1>5, <1>6
<1>8. lf[w] \in ToSet(lf)
  BY <1>7, ListSet
<1>9. lf[w] = l
  BY <1>1, <1>7, <1>8 DEF WaitOK
<1> QED BY <1>1, <1>6, <1>7, <1>8, <1>9

(* The list stays what it is when only requests come and go.               *)
LEMMA SameRanges ==
    ASSUME NEW L, ListOK(L), SortedBut(L, 0), NEW M \in Seq(LockRec), Len(M) = Len(L),
           \A k \in 1..Len(L) : IsLock(M[k], L[k])
    PROVE  /\ ListOK(M) /\ SortedBut(M, 0)
           /\ \A a, b, t : Holds(ToSet(M), a, b, t) <=> Holds(ToSet(L), a, b, t)
<1>1. Len(L) \in Nat /\ \A k \in 1..Len(L) : L[k] \in LockRec /\ Ranged(L[k])
  BY ListSet
<1>2. ListOK(M)
  BY <1>1 DEF ListOK, IsLock, Ranged, InFile
<1>3. SortedBut(M, 0)
  <2> SUFFICES ASSUME NEW i \in 1..Len(M), NEW k \in 1..Len(M), i < k, M[i].lf_id = M[k].lf_id
               PROVE  Before(M[i], M[k])
    BY DEF SortedBut
  <2>1. i \in 1..Len(L) /\ k \in 1..Len(L) /\ i # 0
    BY <1>1
  <2>2. IsLock(M[i], L[i]) /\ IsLock(M[k], L[k])
    BY <2>1
  <2>3. L[i].lf_id = L[k].lf_id
    BY <2>2 DEF IsLock
  <2>4. Before(L[i], L[k])
    BY <2>1, <2>3 DEF SortedBut
  <2> QED BY <2>2, <2>4 DEF Before, IsLock
<1>4. ASSUME NEW a, NEW b, NEW t PROVE Holds(ToSet(M), a, b, t) <=> Holds(ToSet(L), a, b, t)
  <2>1. ASSUME NEW k \in 1..Len(L)
        PROVE  (M[k].lf_id = a /\ Covers(M[k], b) /\ M[k].lf_type = t)
                  <=> (L[k].lf_id = a /\ Covers(L[k], b) /\ L[k].lf_type = t)
    <3>1. IsLock(M[k], L[k])
      OBVIOUS
    <3> QED BY <3>1 DEF IsLock, Covers
  <2>2. /\ \A k \in 1..Len(L) : L[k] \in ToSet(L) /\ M[k] \in ToSet(M)
        /\ \A l \in ToSet(L) : \E k \in 1..Len(L) : l = L[k]
        /\ \A l \in ToSet(M) : \E k \in 1..Len(L) : l = M[k]
    BY <1>2, ListSet
  <2>3. ASSUME Holds(ToSet(M), a, b, t) PROVE Holds(ToSet(L), a, b, t)
    <3>1. PICK l \in ToSet(M) : l.lf_id = a /\ Covers(l, b) /\ l.lf_type = t
      BY <2>3 DEF Holds
    <3>2. PICK k \in 1..Len(L) : l = M[k]
      BY <2>2
    <3> QED BY <2>1, <2>2, <3>1, <3>2 DEF Holds
  <2>4. ASSUME Holds(ToSet(L), a, b, t) PROVE Holds(ToSet(M), a, b, t)
    <3>1. PICK l \in ToSet(L) : l.lf_id = a /\ Covers(l, b) /\ l.lf_type = t
      BY <2>4 DEF Holds
    <3>2. PICK k \in 1..Len(L) : l = L[k]
      BY <2>2
    <3> QED BY <2>1, <2>2, <3>1, <3>2 DEF Holds
  <2> QED BY <2>3, <2>4
<1> QED BY <1>2, <1>3, <1>4

(* M is L with o on the list of the lock at j.                             *)
QueuedOn(M, L, j, o) ==
    \E z \in LockRec :
        /\ IsLock(z, L[j]) /\ ToSet(z.lf_blkhd) = ToSet(L[j].lf_blkhd) \cup {o}
        /\ M \in Seq(LockRec) /\ Len(M) = Len(L)
        /\ \A k \in 1..Len(L) : M[k] = IF k = j THEN z ELSE L[k]

(* o may go to sleep on a lock of x, whom the deadlock check has looked at.*)
MayWait(S, p, o, x) == {o, x} \cap Flockers # {} \/ p[x] # "asleep" \/ ~On(S, x, o)

Changed(f2, f, o, v) == f2 = [f EXCEPT ![o] = v]

(* A request at the end of the list of the lock at j.                      *)
LEMMA AppendWaiter ==
    ASSUME NEW L, ListOK(L), NEW j \in 1..Len(L), NEW o \in Owners
    PROVE  QueuedOn([L EXCEPT ![j].lf_blkhd = Append(@, o)], L, j, o)
<1>1. PICK l : l = L[j]
  OBVIOUS
<1>2. l \in LockRec /\ l.lf_blkhd \in Seq(Owners) /\ L \in Seq(LockRec) /\ j \in 1..Len(L)
  BY <1>1, ListSet DEF LockRec, ListOK
<1>3. PICK z : z = [l EXCEPT !.lf_blkhd = Append(@, o)]
  OBVIOUS
<1>9. PICK M : M = [L EXCEPT ![j].lf_blkhd = Append(@, o)]
  OBVIOUS
<1>4. /\ Append(l.lf_blkhd, o) \in Seq(Owners)
      /\ ToSet(Append(l.lf_blkhd, o)) = ToSet(l.lf_blkhd) \cup {o}
  BY <1>2, JoinTail
<1>5. z \in LockRec /\ IsLock(z, l) /\ ToSet(z.lf_blkhd) = ToSet(l.lf_blkhd) \cup {o}
  BY <1>2, <1>3, <1>4 DEF LockRec, IsLock
<1>6. /\ [L EXCEPT ![j] = z] \in Seq(LockRec) /\ Len([L EXCEPT ![j] = z]) = Len(L)
      /\ \A k \in 1..Len(L) : [L EXCEPT ![j] = z][k] = IF k = j THEN z ELSE L[k]
  BY ONLY <1>2, <1>5, ExceptSeq
<1>7. M = [L EXCEPT ![j] = z]
  BY <1>1, <1>3, <1>9
<1>8. /\ M \in Seq(LockRec) /\ Len(M) = Len(L)
      /\ \A k \in 1..Len(L) : M[k] = IF k = j THEN z ELSE L[k]
  BY ONLY <1>6, <1>7, Zenon
<1>10. QueuedOn(M, L, j, o)
  BY <1>1, <1>5, <1>8 DEF QueuedOn
<1> QED BY <1>9, <1>10

(* An owner that is on no list goes to sleep on the lock at j.             *)
LEMMA BlockKeeps ==
    ASSUME NEW L, ListOK(L), SortedBut(L, 0), NEW p \in [Owners -> LockfPcValues], NEW q,
           DOMAIN q = Owners, AskInv(p, q), WaitInv(ToSet(L), p, q),
           NEW o \in Owners, \A x \in Owners : ~On(ToSet(L), o, x),
           NEW a \in Requests(o), NEW j \in 1..Len(L), Conflicts(L[j], Lock(o, a.lf_type, a)),
           MayWait(ToSet(L), p, o, L[j].lf_id),
           NEW p2, Changed(p2, p, o, "asleep"), NEW q2, Changed(q2, q, o, a),
           NEW M, QueuedOn(M, L, j, o)
    PROVE  /\ ListOK(M) /\ SortedBut(M, 0) /\ p2 \in [Owners -> LockfPcValues]
           /\ AskInv(p2, q2) /\ WaitInv(ToSet(M), p2, q2)
           /\ \A b, c, t : Holds(ToSet(M), b, c, t) <=> Holds(ToSet(L), b, c, t)
<1>0. Len(L) \in Nat /\ L \in Seq(LockRec) /\ \A k \in 1..Len(L) : L[k] \in LockRec /\ Ranged(L[k])
  BY ListSet DEF ListOK
<1>1. PICK l : l = L[j]
  OBVIOUS
<1>2. l \in LockRec /\ l.lf_blkhd \in Seq(Owners) /\ l.lf_id \in Owners /\ l \in ToSet(L)
  BY <1>0, <1>1, ListSet DEF LockRec
<1>3. PICK z \in LockRec :
        /\ IsLock(z, L[j]) /\ ToSet(z.lf_blkhd) = ToSet(L[j].lf_blkhd) \cup {o}
        /\ M \in Seq(LockRec) /\ Len(M) = Len(L)
        /\ \A k \in 1..Len(L) : M[k] = IF k = j THEN z ELSE L[k]
  BY DEF QueuedOn
<1>5. /\ z \in LockRec /\ IsLock(z, l) /\ ToSet(z.lf_blkhd) = ToSet(l.lf_blkhd) \cup {o}
      /\ z.lf_id = l.lf_id
  BY <1>1, <1>3 DEF IsLock
<1>6. /\ M \in Seq(LockRec) /\ Len(M) = Len(L)
      /\ \A k \in 1..Len(L) : M[k] = IF k = j THEN z ELSE L[k]
  BY <1>3
<1>7. \A k \in 1..Len(L) : IsLock(M[k], L[k])
  BY <1>1, <1>5, <1>6 DEF IsLock
<1>8. /\ ListOK(M) /\ SortedBut(M, 0)
      /\ \A b, c, t : Holds(ToSet(M), b, c, t) <=> Holds(ToSet(L), b, c, t)
  BY <1>6, <1>7, SameRanges
<1>9. /\ \A m \in ToSet(M) : m = z \/ (m \in ToSet(L) /\ m # l)
      /\ z \in ToSet(M) /\ \A m \in ToSet(L) : m # l => m \in ToSet(M)
  <2>1. 0 \in Nat /\ 0 < j /\ Behind(L, 0)
    BY DEF Behind
  <2>2. l \notin Others(L, j)
    BY <1>1, <2>1, OnlyOnce
  <2>3. \A k \in 1..Len(L) : k # j => L[k] # l
    BY <2>2 DEF Others
  <2>4. /\ \A k \in 1..Len(L) : L[k] \in ToSet(L)
        /\ \A m \in ToSet(L) : \E k \in 1..Len(L) : m = L[k]
    BY ListSet
  <2>5. /\ \A k \in 1..Len(L) : M[k] \in ToSet(M)
        /\ \A m \in ToSet(M) : \E k \in 1..Len(L) : m = M[k]
    <3>1. ListOK(M) /\ Len(M) = Len(L)
      BY <1>6, <1>8
    <3>2. /\ \A k \in 1..Len(M) : M[k] \in ToSet(M)
          /\ \A m \in ToSet(M) : \E k \in 1..Len(M) : m = M[k]
      BY ONLY <3>1, ListSet
    <3> QED BY ONLY <3>1, <3>2, Zenon
  <2>6. ASSUME NEW m \in ToSet(M) PROVE m = z \/ (m \in ToSet(L) /\ m # l)
    <3>1. PICK k \in 1..Len(L) : m = M[k]
      BY <2>5
    <3> QED BY <1>6, <2>3, <2>4, <3>1
  <2>7. z \in ToSet(M)
    BY <1>6, <2>5
  <2>8. ASSUME NEW m \in ToSet(L), m # l PROVE m \in ToSet(M)
    <3>1. PICK k \in 1..Len(L) : m = L[k]
      BY <2>4
    <3>2. k # j
      BY <1>1, <2>8, <3>1
    <3> QED BY <1>6, <2>5, <3>1, <3>2
  <2> QED BY <2>6, <2>7, <2>8
<1>10. \A m \in ToSet(L) : o \notin ToSet(m.lf_blkhd)
  <2>1. \A m \in ToSet(L) : m.lf_id \in Owners
    BY ListSet DEF LockRec
  <2> QED BY <2>1 DEF On
<1>11. ASSUME NEW b \in Owners, NEW x \in Owners
       PROVE  On(ToSet(M), b, x) <=> On(ToSet(L), b, x) \/ (b = o /\ x = l.lf_id)
  BY <1>2, <1>5, <1>9 DEF On
<1>12. /\ \A b \in Owners : p2[b] = IF b = o THEN "asleep" ELSE p[b]
       /\ \A b \in Owners : q2[b] = IF b = o THEN a ELSE q[b]
       /\ \A b : b # o => q2[b] = q[b]
       /\ p2 \in [Owners -> LockfPcValues]
  BY DEF LockfPcValues, Changed
<1>13. AskInv(p2, q2)
  BY <1>12 DEF AskInv, LockfPcValues
<1>14. WaitOK(ToSet(M), q2)
  <2> SUFFICES ASSUME NEW m \in ToSet(M), NEW b \in ToSet(m.lf_blkhd)
               PROVE  /\ Conflicts(m, Asked(q2, b))
                      /\ \A n \in ToSet(M) : b \in ToSet(n.lf_blkhd) => n = m
    BY DEF WaitOK
  <2>1. CASE b = o
    <3>1. m = z
      BY <1>9, <1>10, <2>1
    <3>2. Asked(q2, b) = Lock(o, a.lf_type, a)
      BY <1>12, <2>1 DEF Asked
    <3>3. Conflicts(z, Asked(q2, b))
      BY <1>1, <1>5, <3>2 DEF Conflicts, Overlap, Before, IsLock
    <3> QED BY <1>9, <1>10, <2>1, <3>1, <3>3
  <2>2. CASE b # o
    <3>1. PICK u \in ToSet(L) : b \in ToSet(u.lf_blkhd) /\ IsLock(m, u) /\ m = (IF u = l THEN z ELSE u)
      <4>1. CASE m = z
        BY <1>2, <1>5, <2>2, <4>1
      <4>2. CASE m # z
        BY <1>9, <4>2 DEF IsLock
      <4> QED BY <4>1, <4>2
    <3>2. /\ Conflicts(u, Asked(q, b))
          /\ \A n \in ToSet(L) : b \in ToSet(n.lf_blkhd) => n = u
      BY <3>1 DEF WaitInv, WaitOK
    <3>3. Asked(q2, b) = Asked(q, b)
      BY <1>12, <2>2 DEF Asked
    <3>4. Conflicts(m, Asked(q2, b))
      BY <3>1, <3>2, <3>3 DEF Conflicts, Overlap, Before, IsLock
    <3>5. ASSUME NEW n \in ToSet(M), b \in ToSet(n.lf_blkhd) PROVE n = m
      <4>1. CASE n = z
        <5>1. b \in ToSet(l.lf_blkhd)
          BY <1>5, <2>2, <3>5, <4>1
        <5>2. l = u
          BY <1>2, <3>2, <5>1
        <5> QED BY <3>1, <4>1, <5>2
      <4>2. CASE n # z
        <5>1. n \in ToSet(L) /\ n # l
          BY <1>9, <4>2
        <5> QED BY <3>1, <3>2, <3>5, <5>1
      <4> QED BY <4>1, <4>2
    <3> QED BY <3>4, <3>5
  <2> QED BY <2>1, <2>2
<1>15. WaitInv(ToSet(M), p2, q2)
  <2>1. ASSUME NEW b \in Owners, NEW x \in Owners, On(ToSet(M), b, x) PROVE p2[b] \in {"asleep", "signalled"}
    BY <1>11, <1>12, <2>1 DEF WaitInv
  <2>2. ASSUME NEW b \in Owners, p2[b] = "asleep" PROVE \E x \in Owners : On(ToSet(M), b, x)
    <3>1. CASE b = o
      BY <1>2, <1>11, <3>1
    <3>2. CASE b # o
      <4>1. PICK x \in Owners : On(ToSet(L), b, x)
        BY <1>12, <2>2, <3>2 DEF WaitInv
      <4> QED BY <1>11, <4>1
    <3> QED BY <3>1, <3>2
  <2>3. ASSUME NEW b \in Owners \ Flockers, NEW x \in Owners \ Flockers,
               p2[b] = "asleep", p2[x] = "asleep", On(ToSet(M), b, x), On(ToSet(M), x, b)
        PROVE  FALSE
    <3>0. l.lf_id # o
      BY <1>1 DEF Conflicts, Lock
    <3>1. CASE b # o /\ x # o
      BY <1>11, <1>12, <2>3, <3>1 DEF WaitInv
    <3>2. CASE b = o
      <4>1. x = l.lf_id /\ On(ToSet(L), x, o) /\ p[x] = "asleep"
        BY <1>11, <1>12, <2>3, <3>0, <3>2
      <4> QED BY <1>1, <2>3, <3>2, <4>1 DEF MayWait
    <3>3. CASE x = o
      <4>1. b = l.lf_id /\ On(ToSet(L), b, o) /\ p[b] = "asleep"
        BY <1>11, <1>12, <2>3, <3>0, <3>3
      <4> QED BY <1>1, <2>3, <3>3, <4>1 DEF MayWait
    <3> QED BY <3>1, <3>2, <3>3
  <2> QED BY <1>14, <2>1, <2>2, <2>3 DEF WaitInv
<1> QED BY <1>8, <1>12, <1>13, <1>15


(* The list when o is taken off the lists of its locks.                    *)
Unqueued(L, o) == [i \in DOMAIN L |-> [L[i] EXCEPT !.lf_blkhd = Dequeued(@, {o})]]

(* A request of an owner that had a signal is taken off its list.          *)
LEMMA UnblockKeeps ==
    ASSUME NEW L, ListOK(L), SortedBut(L, 0), NEW p \in [Owners -> LockfPcValues], NEW q,
           DOMAIN q = Owners, AskInv(p, q), WaitInv(ToSet(L), p, q),
           NEW o \in Owners, p[o] # "asleep",
           NEW p2, Changed(p2, p, o, "idle"), NEW q2, Changed(q2, q, o, NoRequest),
           NEW M, M = Unqueued(L, o)
    PROVE  /\ ListOK(M) /\ SortedBut(M, 0) /\ p2 \in [Owners -> LockfPcValues]
           /\ AskInv(p2, q2) /\ WaitInv(ToSet(M), p2, q2)
           /\ \A b, c, t : Holds(ToSet(M), b, c, t) <=> Holds(ToSet(L), b, c, t)
<1>0. /\ Len(L) \in Nat /\ DOMAIN L = 1..Len(L) /\ \A k \in 1..Len(L) : L[k] \in LockRec /\ L[k] \in ToSet(L)
      /\ \A l \in ToSet(L) : \E k \in 1..Len(L) : l = L[k]
  BY ListSet
<1>1. ASSUME NEW k \in 1..Len(L)
      PROVE  /\ M[k] \in LockRec /\ IsLock(M[k], L[k]) /\ M[k] = [L[k] EXCEPT !.lf_blkhd = Dequeued(@, {o})]
             /\ ToSet(M[k].lf_blkhd) = ToSet(L[k].lf_blkhd) \ {o}
  <2>1. PICK l : l = L[k]
    OBVIOUS
  <2>2. PICK d : d = Dequeued(l.lf_blkhd, {o})
    OBVIOUS
  <2>3. l \in LockRec /\ l.lf_blkhd \in Seq(Owners)
    BY <1>0, <2>1 DEF LockRec
  <2>4. d \in Seq(Owners) /\ ToSet(d) = ToSet(l.lf_blkhd) \ {o}
    BY <2>2, <2>3, DequeuedProperties
  <2>5. M[k] = [l EXCEPT !.lf_blkhd = d]
    BY <1>0, <2>1, <2>2 DEF Unqueued
  <2>6. M[k] \in LockRec /\ IsLock(M[k], l) /\ M[k].lf_blkhd = d
    BY ONLY <2>3, <2>4, <2>5 DEF LockRec, IsLock
  <2>7. M[k] = [L[k] EXCEPT !.lf_blkhd = Dequeued(@, {o})]
    BY <1>0 DEF Unqueued
  <2> QED BY <1>0, <2>1, <2>4, <2>6, <2>7
<1>2. M \in Seq(LockRec) /\ Len(M) = Len(L)
  <2>1. DOMAIN M = 1..Len(L)
    BY <1>0 DEF Unqueued
  <2>2. M = [k \in 1..Len(L) |-> M[k]]
    BY <1>0 DEF Unqueued
  <2>3. M \in [1..Len(L) -> LockRec]
    BY <1>1, <2>2
  <2>4. M \in Seq(LockRec)
    <3>1. PICK n \in Nat : n = Len(L)
      BY <1>0
    <3>2. M \in [1..n -> LockRec]
      BY <2>3, <3>1
    <3> QED BY ONLY <3>1, <3>2, SeqDef
  <2>5. Len(M) \in Nat /\ DOMAIN M = 1..Len(M)
    BY ONLY <2>4, LenProperties
  <2> QED BY ONLY <1>0, <2>1, <2>4, <2>5
<1>3. /\ ListOK(M) /\ SortedBut(M, 0)
      /\ \A b, c, t : Holds(ToSet(M), b, c, t) <=> Holds(ToSet(L), b, c, t)
  BY <1>1, <1>2, SameRanges
<1>4. /\ \A k \in 1..Len(L) : M[k] \in ToSet(M)
      /\ \A m \in ToSet(M) : \E k \in 1..Len(L) : m = M[k]
  <2>1. /\ \A k \in 1..Len(M) : M[k] \in ToSet(M)
        /\ \A m \in ToSet(M) : \E k \in 1..Len(M) : m = M[k]
    BY <1>3, ListSet
  <2>2. Len(M) = Len(L)
    BY <1>2
  <2> QED BY ONLY <2>1, <2>2, Zenon
<1>5. ASSUME NEW b, NEW x
      PROVE  On(ToSet(M), b, x) <=> On(ToSet(L), b, x) /\ b # o
  <2>1. ASSUME On(ToSet(M), b, x) PROVE On(ToSet(L), b, x) /\ b # o
    <3>1. PICK m \in ToSet(M) : b \in ToSet(m.lf_blkhd) /\ m.lf_id = x
      BY <2>1 DEF On
    <3>2. PICK k \in 1..Len(L) : m = M[k]
      BY <1>4
    <3> QED BY <1>0, <1>1, <3>1, <3>2 DEF On, IsLock
  <2>2. ASSUME On(ToSet(L), b, x), b # o PROVE On(ToSet(M), b, x)
    <3>1. PICK l \in ToSet(L) : b \in ToSet(l.lf_blkhd) /\ l.lf_id = x
      BY <2>2 DEF On
    <3>2. PICK k \in 1..Len(L) : l = L[k]
      BY <1>0
    <3>3. M[k] \in ToSet(M) /\ b \in ToSet(M[k].lf_blkhd) /\ M[k].lf_id = x
      BY <1>1, <1>4, <2>2, <3>1, <3>2 DEF IsLock
    <3> QED BY <3>3 DEF On
  <2> QED BY <2>1, <2>2
<1>6. WaitOK(ToSet(M), q)
  <2> SUFFICES ASSUME NEW m \in ToSet(M), NEW b \in ToSet(m.lf_blkhd)
               PROVE  /\ Conflicts(m, Asked(q, b))
                      /\ \A n \in ToSet(M) : b \in ToSet(n.lf_blkhd) => n = m
    BY DEF WaitOK
  <2>1. PICK k \in 1..Len(L) : m = M[k]
    BY <1>4
  <2>2. b \in ToSet(L[k].lf_blkhd) /\ L[k] \in ToSet(L) /\ IsLock(m, L[k])
    BY <1>0, <1>1, <2>1
  <2>3. /\ Conflicts(L[k], Asked(q, b))
        /\ \A n \in ToSet(L) : b \in ToSet(n.lf_blkhd) => n = L[k]
    BY <2>2 DEF WaitInv, WaitOK
  <2>4. Conflicts(m, Asked(q, b))
    BY <2>2, <2>3 DEF Conflicts, Overlap, Before, IsLock
  <2>5. ASSUME NEW n \in ToSet(M), b \in ToSet(n.lf_blkhd) PROVE n = m
    <3>1. PICK i \in 1..Len(L) : n = M[i]
      BY <1>4
    <3>2. b \in ToSet(L[i].lf_blkhd) /\ L[i] \in ToSet(L)
      BY <1>0, <1>1, <2>5, <3>1
    <3>3. L[i] = L[k]
      BY <2>3, <3>2
    <3>4. M[i] = [L[i] EXCEPT !.lf_blkhd = Dequeued(@, {o})] /\ M[k] = [L[k] EXCEPT !.lf_blkhd = Dequeued(@, {o})]
      BY <1>1
    <3> QED BY ONLY <2>1, <3>1, <3>3, <3>4, Zenon
  <2> QED BY <2>4, <2>5
<1>7. WaitInv(ToSet(M), p, q)
  <2>1. ASSUME NEW b \in Owners, p[b] = "asleep" PROVE \E x \in Owners : On(ToSet(M), b, x)
    <3>1. PICK x \in Owners : On(ToSet(L), b, x)
      BY <2>1 DEF WaitInv
    <3> QED BY <1>5, <2>1, <3>1
  <2> QED BY <1>5, <1>6, <2>1 DEF WaitInv
<1>8. /\ \A l \in ToSet(M) : l.lf_id \in Owners
      /\ \A x \in Owners : ~On(ToSet(M), o, x)
  BY <1>3, <1>5, ListSet DEF LockRec
<1>9. p2 \in [Owners -> LockfPcValues] /\ AskInv(p2, q2) /\ WaitInv(ToSet(M), p2, q2)
  <2>1. /\ p \in [Owners -> LockfPcValues] /\ AskInv(p, q) /\ DOMAIN q = Owners /\ o \in Owners
        /\ p2 = [p EXCEPT ![o] = "idle"] /\ q2 = [q EXCEPT ![o] = NoRequest]
    BY DEF Changed
  <2>2. PICK S : S = ToSet(M)
    OBVIOUS
  <2>3. /\ WaitInv(S, p, q) /\ \A l \in S : l.lf_id \in Owners
        /\ \A x \in Owners : ~On(S, o, x)
    BY <1>7, <1>8, <2>2
  <2>4. p2 \in [Owners -> LockfPcValues] /\ AskInv(p2, q2) /\ WaitInv(S, p2, q2)
    BY <2>1, <2>3, RequestKeeps
  <2> QED BY <2>2, <2>4
<1> QED BY <1>3, <1>9

-----------------------------------------------------------------------------
(* What a step does to the bytes of the file.                              *)

(* o holds the bytes of r with types and with no other; nothing else has   *)
(* changed.                                                                *)
Rewritten(S0, S, o, r, types) ==
    \A p \in Owners, b \in Nat, t \in Types :
        Holds(S, p, b, t) <=> IF p = o /\ Covers(r, b) THEN t \in types ELSE Holds(S0, p, b, t)

(* Nobody but o holds a byte of r in a way that conflicts with type.       *)
Permitted(S, o, r, type) ==
    \A p \in Owners \ {o}, b \in Nat, t \in Types :
        Covers(r, b) /\ Holds(S, p, b, t) => "F_WRLCK" \notin {type, t}

SameBytes(S0, S) == \A p \in Owners, b \in Nat, t \in Types : Holds(S, p, b, t) <=> Holds(S0, p, b, t)

BytesStep(S0, S) ==
    \/ SameBytes(S0, S)
    \/ \E o \in Owners : \E r \in Ranges(o) :
          \/ Rewritten(S0, S, o, r, {})
          \/ \E type \in Types : Rewritten(S0, S, o, r, {type}) /\ Permitted(S0, o, r, type)

(* Other owners hold what they held.                                       *)
LEMMA OthersKept ==
    ASSUME NEW S0, NEW S, NEW W, NEW lock, NEW q, Effect(S0, S, W, lock, q),
           NEW p, p # lock.lf_id, NEW b, NEW t
    PROVE  Holds(S, p, b, t) <=> Holds(S0, p, b, t)
<1>1. \A l \in S \cup S0 : l.lf_id # lock.lf_id => l \in S /\ l \in S0
  BY DEF Effect
<1> QED BY <1>1 DEF Holds

(* A lock that is set is held on all its bytes, with its type only.        *)
LEMMA SetBytes ==
    ASSUME NEW S0, NEW list, ListOK(list), SortedBut(list, 0), NEW S, S = ToSet(list), NEW W,
           NEW lock, Ranged(lock), lock.lf_type \in Types, NEW q,
           Effect(S0, S, W, lock, q), Covered(lock, S)
    PROVE  Rewritten(S0, S, lock.lf_id, lock, {lock.lf_type})
<1> SUFFICES ASSUME NEW p \in Owners, NEW b \in Nat, NEW t \in Types
             PROVE  Holds(S, p, b, t) <=> IF p = lock.lf_id /\ Covers(lock, b) THEN t \in {lock.lf_type}
                                                                          ELSE Holds(S0, p, b, t)
  BY DEF Rewritten
<1>1. CASE p # lock.lf_id
  BY <1>1, OthersKept
<1>2. CASE p = lock.lf_id /\ ~Covers(lock, b)
  <2>1. Holds(S, lock.lf_id, b, t) <=> Holds(S0, lock.lf_id, b, t)
    BY <1>2 DEF Effect
  <2> QED BY <1>2, <2>1
<1>3. CASE p = lock.lf_id /\ Covers(lock, b)
  <2>1. PICK m \in S : m.lf_id = p /\ m.lf_type = lock.lf_type /\ Covers(m, b)
    BY <1>3 DEF Covered
  <2>2. ASSUME NEW l \in S, l.lf_id = p, Covers(l, b) PROVE l = m
    <3>1. PICK i \in 1..Len(list) : l = list[i]
      BY ListSet
    <3>2. PICK k \in 1..Len(list) : m = list[k]
      BY <2>1, ListSet
    <3>3. /\ Ranged(l) /\ Ranged(m) /\ Len(list) \in Nat
      BY <3>1, <3>2, ListSet
    <3>4. Overlap(l, m)
      BY <2>1, <2>2, <3>3, OverlapBytes
    <3>5. ~(i < k) /\ ~(k < i)
      BY <2>1, <2>2, <3>1, <3>2, <3>4 DEF SortedBut, Overlap
    <3>6. i = k
      BY <3>3, <3>5
    <3> QED BY <3>1, <3>2, <3>6
  <2>3. Holds(S, p, b, t) <=> t = lock.lf_type
    BY <2>1, <2>2 DEF Holds
  <2> QED BY <1>3, <2>3
<1> QED BY <1>1, <1>2, <1>3

(* A range that is cleared is not held.                                    *)
LEMMA ClearBytes ==
    ASSUME NEW S0, NEW list, ListOK(list), NEW S, S = ToSet(list), NEW W,
           NEW lock, Ranged(lock), NEW q, Effect(S0, S, W, lock, q),
           \A l \in S : l.lf_id = lock.lf_id => ~Overlap(l, lock)
    PROVE  Rewritten(S0, S, lock.lf_id, lock, {})
<1> SUFFICES ASSUME NEW p \in Owners, NEW b \in Nat, NEW t \in Types
             PROVE  Holds(S, p, b, t) <=> IF p = lock.lf_id /\ Covers(lock, b) THEN t \in {}
                                                                          ELSE Holds(S0, p, b, t)
  BY DEF Rewritten
<1>1. CASE p # lock.lf_id
  BY <1>1, OthersKept
<1>2. CASE p = lock.lf_id /\ ~Covers(lock, b)
  <2>1. Holds(S, lock.lf_id, b, t) <=> Holds(S0, lock.lf_id, b, t)
    BY <1>2 DEF Effect
  <2> QED BY <1>2, <2>1
<1>3. CASE p = lock.lf_id /\ Covers(lock, b)
  <2>1. ASSUME NEW l \in S, l.lf_id = p, Covers(l, b) PROVE FALSE
    <3>1. Ranged(l)
      BY ListSet
    <3> QED BY <1>3, <2>1, <3>1, OverlapBytes
  <2> QED BY <1>3, <2>1 DEF Holds
<1> QED BY <1>1, <1>2, <1>3

(* Without a lock that blocks the request, nobody else holds its bytes in  *)
(* a way that conflicts.                                                   *)
LEMMA NoBlockPermits ==
    ASSUME NEW L, ListOK(L), NEW lock, Ranged(lock), \A k \in 1..Len(L) : ~Conflicts(L[k], lock)
    PROVE  Permitted(ToSet(L), lock.lf_id, lock, lock.lf_type)
<1> SUFFICES ASSUME NEW p \in Owners \ {lock.lf_id}, NEW b \in Nat, NEW t \in Types, Covers(lock, b),
                    Holds(ToSet(L), p, b, t)
             PROVE  "F_WRLCK" \notin {lock.lf_type, t}
  BY DEF Permitted
<1>1. PICK l \in ToSet(L) : l.lf_id = p /\ Covers(l, b) /\ l.lf_type = t
  BY DEF Holds
<1>2. PICK k \in 1..Len(L) : l = L[k]
  BY ListSet
<1>3. Ranged(l)
  BY ListSet
<1>4. Overlap(l, lock)
  BY <1>1, <1>3, OverlapBytes
<1>5. ~Conflicts(l, lock)
  BY <1>2
<1> QED BY <1>1, <1>4, <1>5 DEF Conflicts


-----------------------------------------------------------------------------
(* The steps.                                                              *)

(* The lock that a request stands for.                                     *)
LEMMA LockFields ==
    ASSUME NEW o \in Owners, NEW a, Ranged(a), NEW t
    PROVE  /\ Lock(o, t, a).lf_id = o /\ Lock(o, t, a).lf_type = t
           /\ Lock(o, t, a).lf_start = a.lf_start /\ Lock(o, t, a).lf_end = a.lf_end
           /\ Lock(o, t, a).lf_blkhd = <<>> /\ Ranged(Lock(o, t, a))
           /\ t \in Types => Lock(o, t, a) \in LockRec
BY DEF Lock, Ranged, InFile, LockRec

(* No request ends at OFF_MAX.                                             *)
LEMMA InvNoWrap == LockfInv => MaxEnd < OFF_MAX
BY DEF LockfInv

(* An owner that neither sleeps nor has had a signal is on no list.        *)
LEMMA NotOn ==
    ASSUME LockfInv, NEW o \in Owners, pc[o] \in {"idle", "woken"}
    PROVE  \A x \in Owners : ~On(ToSet(lf), o, x)
BY DEF LockfInv, WaitInv

(* What the invariant says of the list and of the requests.                *)
LEMMA InvFacts ==
    ASSUME LockfInv
    PROVE  /\ ListOK(lf) /\ SortedBut(lf, 0) /\ AskInv(pc, req) /\ WaitInv(ToSet(lf), pc, req)
           /\ pc \in [Owners -> LockfPcValues] /\ DOMAIN req = Owners /\ ReqOK(req)
           /\ WaitOK(ToSet(lf), req) /\ \A l \in ToSet(lf) : l.lf_id \in Owners
<1>1. \A l \in ToSet(lf) : l.lf_id \in Owners
  BY ListSet DEF LockfInv, LockRec
<1> QED BY <1>1, AskInvReqOK DEF LockfInv, WaitInv

(* The invariant of the next state, from its parts.                        *)
LEMMA InvNext ==
    ASSUME LockfInv, NEW o \in Owners, NEW p2, NEW q2, NEW L,
           ListOK(L), SortedBut(L, 0), p2 \in [Owners -> LockfPcValues], DOMAIN q2 = Owners,
           q2 = [x \in Owners |-> q2[x]], AskInv(p2, q2), WaitInv(ToSet(L), p2, q2),
           lf' = L, pc' = p2, req' = q2
    PROVE  LockfInv'
BY DEF LockfInv

(* The request is not blocked and the lock is set.                         *)
LEMMA SetKeeps ==
    ASSUME LockfInv, NEW o \in Owners, pc[o] \in {"idle", "woken"}, NEW a, Ranged(a),
           NEW t \in Types, NEW lock, lock = Lock(o, t, a),
           lf_getblock(lf, lock) > Len(lf),
           NEW s, s = Loop(lf, lock), lf' = s.list,
           pc' = Woken([pc EXCEPT ![o] = "idle"], s.woken), req' = [req EXCEPT ![o] = NoRequest]
    PROVE  /\ LockfInv'
           /\ Rewritten(ToSet(lf), ToSet(lf'), o, a, {t}) /\ Permitted(ToSet(lf), o, a, t)
<1>0. /\ ListOK(lf) /\ SortedBut(lf, 0) /\ AskInv(pc, req) /\ WaitInv(ToSet(lf), pc, req)
      /\ pc \in [Owners -> LockfPcValues] /\ DOMAIN req = Owners
      /\ \A l \in ToSet(lf) : l.lf_id \in Owners
      /\ \A x \in Owners : ~On(ToSet(lf), o, x)
  BY InvFacts, NotOn
<1>1. /\ lock \in LockRec /\ Ranged(lock) /\ lock.lf_id = o /\ lock.lf_type = t
      /\ lock.lf_start = a.lf_start /\ lock.lf_end = a.lf_end /\ lock.lf_blkhd = <<>>
  BY LockFields
<1>2. PICK p2 : p2 = [pc EXCEPT ![o] = "idle"]
  OBVIOUS
<1>3. PICK q2 : q2 = [req EXCEPT ![o] = NoRequest]
  OBVIOUS
<1>4. PICK S : S = ToSet(lf)
  OBVIOUS
<1>5. AskInv(p2, q2) /\ WaitInv(S, p2, q2) /\ p2 \in [Owners -> LockfPcValues]
  <2>1. /\ AskInv(pc, req) /\ WaitInv(S, pc, req) /\ pc \in [Owners -> LockfPcValues] /\ DOMAIN req = Owners
        /\ \A l \in S : l.lf_id \in Owners
        /\ \A x \in Owners : ~On(S, o, x)
        /\ o \in Owners
    BY <1>0, <1>4
  <2> QED BY ONLY <1>2, <1>3, <2>1, RequestKeeps
<1>6. ReqOK(q2) /\ WaitOK(ToSet(lf), q2)
  BY <1>4, <1>5, InvNoWrap, AskInvReqOK DEF WaitInv
<1>7. /\ ListOK(s.list) /\ SortedBut(s.list, 0) /\ s.woken \in SUBSET Owners
      /\ Effect(ToSet(lf), ToSet(s.list), s.woken, lock, q2) /\ Covered(lock, ToSet(s.list))
  BY <1>0, <1>1, <1>6, SetResult
<1>8. PICK W : W = s.woken
  OBVIOUS
<1>9. PICK R : R = ToSet(s.list)
  OBVIOUS
<1>10. PICK p3 : p3 = Woken(p2, W)
  OBVIOUS
<1>11. AskInv(p3, q2) /\ WaitInv(R, p3, q2) /\ p3 \in [Owners -> LockfPcValues]
  <2>1. W \in SUBSET Owners /\ Effect(S, R, W, lock, q2)
    BY <1>4, <1>7, <1>8, <1>9
  <2> QED BY <1>5, <1>10, <2>1, WokenKeeps
<1>12. DOMAIN q2 = Owners /\ q2 = [x \in Owners |-> q2[x]]
  BY <1>0, <1>3 DEF LockfInv
<1>13. lf' = s.list /\ pc' = p3 /\ req' = q2
  BY <1>2, <1>3, <1>8, <1>10
<1>14. LockfInv'
  BY <1>7, <1>9, <1>11, <1>12, <1>13, InvNext
<1>15. Rewritten(ToSet(lf), ToSet(s.list), o, lock, {t})
  BY <1>1, <1>7, SetBytes
<1>16. \A k \in 1..Len(lf) : ~Conflicts(lf[k], lock)
  BY <1>0, GetblockProperties
<1>17. Permitted(ToSet(lf), o, lock, t)
  BY <1>0, <1>1, <1>16, NoBlockPermits
<1>18. \A b : Covers(a, b) <=> Covers(lock, b)
  BY <1>1 DEF Covers
<1> QED BY <1>13, <1>14, <1>15, <1>17, <1>18 DEF Rewritten, Permitted

(* EDEADLK, or a signal: the request is given up.                          *)
LEMMA GivenUpKeeps ==
    ASSUME LockfInv, NEW o \in Owners, pc[o] \in {"idle", "woken"}, lf' = lf,
           pc' = [pc EXCEPT ![o] = "idle"], req' = [req EXCEPT ![o] = NoRequest]
    PROVE  LockfInv'
<1>0. /\ ListOK(lf) /\ SortedBut(lf, 0) /\ AskInv(pc, req) /\ WaitInv(ToSet(lf), pc, req)
      /\ pc \in [Owners -> LockfPcValues] /\ DOMAIN req = Owners
      /\ \A l \in ToSet(lf) : l.lf_id \in Owners
      /\ \A x \in Owners : ~On(ToSet(lf), o, x)
  BY InvFacts, NotOn
<1>2. PICK p2 : p2 = [pc EXCEPT ![o] = "idle"]
  OBVIOUS
<1>3. PICK q2 : q2 = [req EXCEPT ![o] = NoRequest]
  OBVIOUS
<1>4. PICK S : S = ToSet(lf)
  OBVIOUS
<1>5. AskInv(p2, q2) /\ WaitInv(S, p2, q2) /\ p2 \in [Owners -> LockfPcValues]
  <2>1. /\ AskInv(pc, req) /\ WaitInv(S, pc, req) /\ pc \in [Owners -> LockfPcValues] /\ DOMAIN req = Owners
        /\ \A l \in S : l.lf_id \in Owners
        /\ \A x \in Owners : ~On(S, o, x)
        /\ o \in Owners
    BY <1>0, <1>4
  <2> QED BY ONLY <1>2, <1>3, <2>1, RequestKeeps
<1>6. DOMAIN q2 = Owners /\ q2 = [x \in Owners |-> q2[x]]
  BY <1>0, <1>3 DEF LockfInv
<1>7. lf' = lf /\ pc' = p2 /\ req' = q2
  BY <1>2, <1>3
<1> QED BY <1>0, <1>4, <1>5, <1>6, <1>7, InvNext


(* The request goes to sleep on the first lock of L that blocks it.        *)
LEMMA SleepKeeps ==
    ASSUME LockfInv, NEW L, ListOK(L), SortedBut(L, 0), NEW p \in [Owners -> LockfPcValues],
           AskInv(p, req), WaitInv(ToSet(L), p, req),
           NEW o \in Owners, \A x \in Owners : ~On(ToSet(L), o, x),
           NEW a \in Requests(o), NEW lock, lock = Lock(o, a.lf_type, a),
           NEW j, j = lf_getblock(L, lock), j <= Len(L),
           MayWait(ToSet(L), p, o, L[j].lf_id),
           lf' = [L EXCEPT ![j].lf_blkhd = Append(@, o)],
           pc' = [p EXCEPT ![o] = "asleep"],
           req' = [req EXCEPT ![o] = [lf_type |-> lock.lf_type, lf_start |-> lock.lf_start,
                                      lf_end |-> lock.lf_end]]
    PROVE  LockfInv' /\ \A b, c, t : Holds(ToSet(lf'), b, c, t) <=> Holds(ToSet(L), b, c, t)
<1>1. /\ a = [lf_type |-> a.lf_type, lf_start |-> a.lf_start, lf_end |-> a.lf_end]
      /\ Ranged(a)
  BY InvNoWrap, RequestsOK
<1>2. lock.lf_type = a.lf_type /\ lock.lf_start = a.lf_start /\ lock.lf_end = a.lf_end
  BY <1>1, LockFields
<1>3. req' = [req EXCEPT ![o] = a]
  BY <1>1, <1>2
<1>4. PICK M : M = [L EXCEPT ![j].lf_blkhd = Append(@, o)]
  OBVIOUS
<1>5. PICK p2 : p2 = [p EXCEPT ![o] = "asleep"]
  OBVIOUS
<1>6. PICK q2 : q2 = [req EXCEPT ![o] = a]
  OBVIOUS
<1>7. PICK q : q = req
  OBVIOUS
<1>8. j \in 1..Len(L) /\ Conflicts(L[j], lock)
  BY GetblockProperties
<1>14. QueuedOn([L EXCEPT ![j].lf_blkhd = Append(@, o)], L, j, o)
  <2>1. ListOK(L) /\ j \in 1..Len(L) /\ o \in Owners
    BY <1>8
  <2> QED BY ONLY <2>1, AppendWaiter, Zenon
<1>15. QueuedOn(M, L, j, o)
  BY ONLY <1>4, <1>14, Zenon
<1>9. DOMAIN q = Owners /\ q = [x \in Owners |-> q[x]]
  BY <1>7 DEF LockfInv
<1>10. /\ ListOK(M) /\ SortedBut(M, 0) /\ p2 \in [Owners -> LockfPcValues]
       /\ AskInv(p2, q2) /\ WaitInv(ToSet(M), p2, q2)
       /\ \A b, c, t : Holds(ToSet(M), b, c, t) <=> Holds(ToSet(L), b, c, t)
  <2>1. Conflicts(L[j], Lock(o, a.lf_type, a)) /\ AskInv(p, q) /\ WaitInv(ToSet(L), p, q) /\ q2 = [q EXCEPT ![o] = a]
    BY <1>6, <1>7, <1>8
  <2>2. /\ ListOK(L) /\ SortedBut(L, 0) /\ p \in [Owners -> LockfPcValues]
        /\ o \in Owners /\ (\A x \in Owners : ~On(ToSet(L), o, x))
        /\ a \in Requests(o) /\ j \in 1..Len(L) /\ DOMAIN q = Owners
        /\ MayWait(ToSet(L), p, o, L[j].lf_id)
    BY <1>8, <1>9
  <2>3. Changed(p2, p, o, "asleep") /\ Changed(q2, q, o, a)
    BY <1>5, <1>6, <1>7 DEF Changed
  <2> QED BY ONLY <1>15, <2>1, <2>2, <2>3, BlockKeeps
<1>11. DOMAIN q2 = Owners /\ q2 = [x \in Owners |-> q2[x]]
  BY <1>6, <1>7, <1>9
<1>12. lf' = M /\ pc' = p2 /\ req' = q2
  BY <1>3, <1>4, <1>5, <1>6
<1>13. LockfInv'
  BY <1>10, <1>11, <1>12, InvNext
<1> QED BY <1>10, <1>12, <1>13

(* Without a loop nothing is woken.                                        *)
LEMMA WokenNone ==
    ASSUME NEW p \in [Owners -> LockfPcValues]
    PROVE  Woken(p, {}) = p
BY DEF Woken

(* The request is blocked and the process or file keeps its locks.         *)
LEMMA BlockedKeeps ==
    ASSUME LockfInv, NEW o \in Owners, pc[o] \in {"idle", "woken"}, NEW a \in Requests(o),
           NEW lock, lock = Lock(o, a.lf_type, a), NEW b, b = lf_getblock(lf, lock),
           b <= Len(lf), ~Deadlock(o, b),
           lf' = [lf EXCEPT ![b].lf_blkhd = Append(@, o)],
           pc' = [pc EXCEPT ![o] = "asleep"],
           req' = [req EXCEPT ![o] = [lf_type |-> lock.lf_type, lf_start |-> lock.lf_start,
                                      lf_end |-> lock.lf_end]]
    PROVE  LockfInv' /\ SameBytes(ToSet(lf), ToSet(lf'))
<1>0. /\ ListOK(lf) /\ SortedBut(lf, 0) /\ AskInv(pc, req) /\ WaitInv(ToSet(lf), pc, req)
      /\ pc \in [Owners -> LockfPcValues] /\ WaitOK(ToSet(lf), req)
      /\ \A x \in Owners : ~On(ToSet(lf), o, x)
  BY InvFacts, NotOn
<1>1. MayWait(ToSet(lf), pc, o, lf[b].lf_id)
  <2> SUFFICES ASSUME On(ToSet(lf), lf[b].lf_id, o) PROVE lf[WaitsOn(lf[b].lf_id)].lf_id = o
    BY DEF Deadlock, MayWait
  <2> QED BY <1>0, WaitsOnLock
<1>2. LockfInv' /\ \A c, d, t : Holds(ToSet(lf'), c, d, t) <=> Holds(ToSet(lf), c, d, t)
  BY <1>0, <1>1, SleepKeeps
<1> QED BY <1>2 DEF SameBytes

(* The request is blocked and the file lets go of its lock first.          *)
LEMMA FreedKeeps ==
    ASSUME LockfInv, NEW o \in Flockers, o \in Owners, pc[o] \in {"idle", "woken"}, NEW a \in Requests(o),
           NEW lock, lock = Lock(o, a.lf_type, a), lf_getblock(lf, lock) <= Len(lf),
           NEW s, s = Loop(lf, [lock EXCEPT !.lf_type = "F_UNLCK"]),
           lf' = [s.list EXCEPT ![lf_getblock(s.list, lock)].lf_blkhd = Append(@, o)],
           pc' = [Woken(pc, s.woken) EXCEPT ![o] = "asleep"],
           req' = [req EXCEPT ![o] = [lf_type |-> lock.lf_type, lf_start |-> lock.lf_start,
                                      lf_end |-> lock.lf_end]]
    PROVE  LockfInv' /\ Rewritten(ToSet(lf), ToSet(lf'), o, a, {})
<1>0. /\ ListOK(lf) /\ SortedBut(lf, 0) /\ AskInv(pc, req) /\ WaitInv(ToSet(lf), pc, req)
      /\ pc \in [Owners -> LockfPcValues] /\ WaitOK(ToSet(lf), req) /\ ReqOK(req)
      /\ \A l \in ToSet(lf) : l.lf_id \in Owners
      /\ \A x \in Owners : ~On(ToSet(lf), o, x)
  BY InvFacts, NotOn
<1>1. Ranged(a) /\ a.lf_type \in Types
  BY InvNoWrap, RequestsOK
<1>2. /\ lock \in LockRec /\ Ranged(lock) /\ lock.lf_id = o
      /\ lock.lf_start = a.lf_start /\ lock.lf_end = a.lf_end
  BY <1>1, LockFields
<1>3. PICK u : u = [lock EXCEPT !.lf_type = "F_UNLCK"]
  OBVIOUS
<1>4. /\ Ranged(u) /\ u.lf_type = "F_UNLCK" /\ u.lf_id = o
      /\ u.lf_start = a.lf_start /\ u.lf_end = a.lf_end
  BY <1>2, <1>3 DEF LockRec, Ranged, InFile
<1>5. PICK q : q = req
  OBVIOUS
<1>6. PICK L : L = s.list
  OBVIOUS
<1>7. PICK W : W = s.woken
  OBVIOUS
<1>8. /\ ListOK(L) /\ SortedBut(L, 0) /\ W \in SUBSET Owners
      /\ Effect(ToSet(lf), ToSet(L), W, u, q)
      /\ \A l \in ToSet(L) : l.lf_id = o => ~Overlap(l, u)
  <2>1. s = Loop(lf, u) /\ ReqOK(q) /\ WaitOK(ToSet(lf), q)
    BY <1>0, <1>3, <1>5
  <2> QED BY <1>0, <1>4, <1>6, <1>7, <2>1, ClearResult
<1>9. PICK S : S = ToSet(L)
  OBVIOUS
<1>10. PICK S0 : S0 = ToSet(lf)
  OBVIOUS
<1>11. PICK p : p = Woken(pc, W)
  OBVIOUS
<1>12. AskInv(p, q) /\ WaitInv(S, p, q) /\ p \in [Owners -> LockfPcValues]
  <2>1. AskInv(pc, q) /\ WaitInv(S0, pc, q) /\ W \in SUBSET Owners /\ Effect(S0, S, W, u, q)
    BY <1>0, <1>5, <1>8, <1>9, <1>10
  <2> QED BY <1>11, <2>1, WokenKeeps
<1>13. \A x \in Owners : ~On(ToSet(L), o, x)
  BY <1>0, <1>8 DEF Effect
<1>14. PICK j : j = lf_getblock(L, lock)
  OBVIOUS
<1>15. j <= Len(L)
  <2>1. PICK k \in 1..Len(lf) : Conflicts(lf[k], lock)
    BY <1>0, GetblockProperties
  <2>2. lf[k] \in ToSet(lf) /\ lf[k].lf_id # u.lf_id
    BY <1>0, <1>2, <1>4, <2>1, ListSet DEF Conflicts
  <2>3. lf[k] \in ToSet(L)
    BY <1>8, <2>2 DEF Effect
  <2>4. PICK i \in 1..Len(L) : lf[k] = L[i]
    BY <1>8, <2>3, ListSet
  <2>5. Conflicts(L[i], lock)
    BY <2>1, <2>4
  <2>6. ~(j > Len(L)) /\ j \in 1..Len(L) + 1 /\ Len(L) \in Nat
    BY <1>8, <1>14, <2>5, GetblockProperties, ListSet
  <2> QED BY <2>6
<1>16. MayWait(ToSet(L), p, o, L[j].lf_id)
  BY DEF MayWait
<1>17. /\ lf' = [L EXCEPT ![j].lf_blkhd = Append(@, o)]
       /\ pc' = [p EXCEPT ![o] = "asleep"]
  BY <1>6, <1>7, <1>11, <1>14
<1>18. LockfInv' /\ \A c, d, t : Holds(ToSet(lf'), c, d, t) <=> Holds(S, c, d, t)
  <2>1. AskInv(p, req) /\ WaitInv(ToSet(L), p, req) /\ p \in [Owners -> LockfPcValues]
    BY <1>5, <1>9, <1>12
  <2>2. LockfInv' /\ \A c, d, t : Holds(ToSet(lf'), c, d, t) <=> Holds(ToSet(L), c, d, t)
    <3>1. /\ LockfInv /\ ListOK(L) /\ SortedBut(L, 0) /\ o \in Owners /\ a \in Requests(o)
          /\ lock = Lock(o, a.lf_type, a)
          /\ req' = [req EXCEPT ![o] = [lf_type |-> lock.lf_type, lf_start |-> lock.lf_start,
                                        lf_end |-> lock.lf_end]]
      BY <1>8
    <3> QED BY ONLY <1>13, <1>14, <1>15, <1>16, <1>17, <2>1, <3>1, SleepKeeps
  <2> QED BY <1>9, <2>2
<1>19. Rewritten(S0, S, o, u, {})
  BY <1>4, <1>8, <1>9, <1>10, ClearBytes
<1>20. \A c : Covers(a, c) <=> Covers(u, c)
  BY <1>4 DEF Covers
<1> QED BY <1>10, <1>18, <1>19, <1>20 DEF Rewritten


(* Every way out of lf_setlock, for a request as the owner makes it.       *)
LEMMA SetlockStep ==
    ASSUME LockfInv, NEW o \in Owners, pc[o] \in {"idle", "woken"}, NEW a \in Requests(o),
           NEW lock, lock = Lock(o, a.lf_type, a), Leaves(lf_setlock(o, lock))
    PROVE  LockfInv' /\ BytesStep(ToSet(lf), ToSet(lf'))
<1>0. /\ Ranged(a) /\ a.lf_type \in Types
      /\ \E r \in Ranges(o) : r.lf_start = a.lf_start /\ r.lf_end = a.lf_end
  BY InvNoWrap, RequestsOK
<1>1. PICK r \in Ranges(o) : r.lf_start = a.lf_start /\ r.lf_end = a.lf_end
  BY <1>0
<1>2. \A b : Covers(a, b) <=> Covers(r, b)
  BY <1>1 DEF Covers
<1>3. lock.lf_type = a.lf_type /\ ListOK(lf) /\ pc \in [Owners -> LockfPcValues]
  BY <1>0, LockFields, InvFacts
<1>4. PICK b : b = lf_getblock(lf, lock)
  OBVIOUS
<1>5. PICK free : free = (o \in Flockers /\ lock.lf_type = "F_WRLCK")
  OBVIOUS
<1>6. PICK freed : freed = IF o \in Flockers /\ lock.lf_type = "F_WRLCK"
                           THEN Loop(lf, [lock EXCEPT !.lf_type = "F_UNLCK"]) ELSE LoopStart(lf)
  OBVIOUS
<1>7. \/ /\ b > Len(lf)
         /\ lf' = Loop(lf, lock).list
         /\ pc' = Woken([pc EXCEPT ![o] = "idle"], Loop(lf, lock).woken)
         /\ req' = [req EXCEPT ![o] = NoRequest]
      \/ /\ b <= Len(lf)
         /\ pc' = [pc EXCEPT ![o] = "idle"]
         /\ req' = [req EXCEPT ![o] = NoRequest]
         /\ lf' = lf
      \/ /\ b <= Len(lf) /\ ~Deadlock(o, b)
         /\ lf' = [freed.list EXCEPT ![lf_getblock(freed.list, lock)].lf_blkhd = Append(@, o)]
         /\ pc' = [Woken(pc, freed.woken) EXCEPT ![o] = "asleep"]
         /\ req' = [req EXCEPT ![o] = [lf_type |-> lock.lf_type, lf_start |-> lock.lf_start,
                                       lf_end |-> lock.lf_end]]
  <2>1. PICK outcome : outcome = lf_setlock(o, lock)
    OBVIOUS
  <2>2. lf' = outcome.lf /\ pc' = outcome.pc /\ req' = outcome.req
    BY <2>1 DEF Leaves
  <2>3. b \in Nat /\ Len(lf) \in Nat
    BY <1>3, <1>4, GetblockProperties, ListSet
  <2>4. PICK asked : asked = [lf_type |-> lock.lf_type, lf_start |-> lock.lf_start, lf_end |-> lock.lf_end]
    OBVIOUS
  <2>5. PICK idle : idle = [pc EXCEPT ![o] = "idle"]
    OBVIOUS
  <2>6. PICK M : M = [freed.list EXCEPT ![lf_getblock(freed.list, lock)].lf_blkhd = Append(@, o)]
    OBVIOUS
  <2>7. outcome = CASE b > Len(lf) ->
                         [lf |-> Loop(lf, lock).list, pc |-> Woken(idle, Loop(lf, lock).woken),
                          req |-> [req EXCEPT ![o] = NoRequest]]
                    [] b <= Len(lf) /\ Deadlock(o, b) ->
                         [lf |-> lf, pc |-> idle, req |-> [req EXCEPT ![o] = NoRequest]]
                    [] OTHER ->
                         [lf |-> M, pc |-> [Woken(pc, freed.woken) EXCEPT ![o] = "asleep"],
                          req |-> [req EXCEPT ![o] = asked]]
    BY ONLY <1>4, <1>6, <2>1, <2>4, <2>5, <2>6, Zenon DEF lf_setlock
  <2>8. CASE b > Len(lf)
    <3>1. /\ outcome.lf = Loop(lf, lock).list /\ outcome.pc = Woken(idle, Loop(lf, lock).woken)
          /\ outcome.req = [req EXCEPT ![o] = NoRequest]
      BY ONLY <2>3, <2>7, <2>8
    <3> QED BY <2>2, <2>5, <2>8, <3>1
  <2>9. CASE b <= Len(lf) /\ Deadlock(o, b)
    <3>1. outcome.lf = lf /\ outcome.pc = idle /\ outcome.req = [req EXCEPT ![o] = NoRequest]
      BY ONLY <2>3, <2>7, <2>9
    <3> QED BY <2>2, <2>5, <2>9, <3>1
  <2>10. CASE b <= Len(lf) /\ ~Deadlock(o, b)
    <3>1. /\ outcome.lf = M /\ outcome.pc = [Woken(pc, freed.woken) EXCEPT ![o] = "asleep"]
          /\ outcome.req = [req EXCEPT ![o] = asked]
      BY ONLY <2>3, <2>7, <2>10
    <3> QED BY <2>2, <2>4, <2>6, <2>10, <3>1
  <2> QED BY <2>3, <2>8, <2>9, <2>10
<1>8. CASE /\ b > Len(lf)
           /\ lf' = Loop(lf, lock).list
           /\ pc' = Woken([pc EXCEPT ![o] = "idle"], Loop(lf, lock).woken)
           /\ req' = [req EXCEPT ![o] = NoRequest]
  <2>1. PICK s : s = Loop(lf, lock)
    OBVIOUS
  <2>2. PICK t \in Types : t = a.lf_type
    BY <1>0
  <2>3. LockfInv' /\ Rewritten(ToSet(lf), ToSet(lf'), o, a, {t}) /\ Permitted(ToSet(lf), o, a, t)
    <3>1. /\ lf_getblock(lf, lock) > Len(lf) /\ lf' = s.list
          /\ pc' = Woken([pc EXCEPT ![o] = "idle"], s.woken) /\ req' = [req EXCEPT ![o] = NoRequest]
          /\ lock = Lock(o, t, a) /\ LockfInv /\ pc[o] \in {"idle", "woken"} /\ o \in Owners /\ t \in Types
      BY <1>4, <1>8, <2>1, <2>2
    <3> QED BY ONLY <1>0, <2>1, <3>1, SetKeeps
  <2>4. Rewritten(ToSet(lf), ToSet(lf'), o, r, {t}) /\ Permitted(ToSet(lf), o, r, t)
    BY <1>2, <2>3 DEF Rewritten, Permitted
  <2> QED BY <2>3, <2>4 DEF BytesStep
<1>9. CASE /\ b <= Len(lf)
           /\ pc' = [pc EXCEPT ![o] = "idle"]
           /\ req' = [req EXCEPT ![o] = NoRequest]
           /\ lf' = lf
  <2>1. LockfInv'
    BY <1>9, GivenUpKeeps
  <2>2. SameBytes(ToSet(lf), ToSet(lf'))
    BY <1>9 DEF SameBytes
  <2> QED BY <2>1, <2>2 DEF BytesStep
<1>10. CASE /\ b <= Len(lf) /\ ~Deadlock(o, b)
            /\ lf' = [freed.list EXCEPT ![lf_getblock(freed.list, lock)].lf_blkhd = Append(@, o)]
            /\ pc' = [Woken(pc, freed.woken) EXCEPT ![o] = "asleep"]
            /\ req' = [req EXCEPT ![o] = [lf_type |-> lock.lf_type, lf_start |-> lock.lf_start,
                                          lf_end |-> lock.lf_end]]
  <2>1. CASE o \in Flockers /\ lock.lf_type = "F_WRLCK"
    <3>1. freed = Loop(lf, [lock EXCEPT !.lf_type = "F_UNLCK"])
      BY <1>6, <2>1
    <3>2. LockfInv' /\ Rewritten(ToSet(lf), ToSet(lf'), o, a, {})
      <4>1. /\ LockfInv /\ o \in Flockers /\ o \in Owners /\ pc[o] \in {"idle", "woken"} /\ a \in Requests(o)
            /\ lock = Lock(o, a.lf_type, a) /\ lf_getblock(lf, lock) <= Len(lf)
        BY <1>4, <1>10, <2>1
      <4> QED BY ONLY <1>10, <3>1, <4>1, FreedKeeps
    <3>3. Rewritten(ToSet(lf), ToSet(lf'), o, r, {})
      BY <1>2, <3>2 DEF Rewritten
    <3> QED BY <3>2, <3>3 DEF BytesStep
  <2>2. CASE ~(o \in Flockers /\ lock.lf_type = "F_WRLCK")
    <3>1. freed = LoopStart(lf)
      BY <1>6, <2>2, Zenon
    <3>2. freed.list = lf /\ freed.woken = {}
      BY <3>1 DEF LoopStart
    <3>3. Woken(pc, freed.woken) = pc
      BY <1>3, <3>2, WokenNone
    <3>4. /\ lf' = [lf EXCEPT ![b].lf_blkhd = Append(@, o)]
          /\ pc' = [pc EXCEPT ![o] = "asleep"]
      BY <1>4, <1>10, <3>2, <3>3
    <3>5. LockfInv' /\ SameBytes(ToSet(lf), ToSet(lf'))
      <4>1. /\ LockfInv /\ o \in Owners /\ pc[o] \in {"idle", "woken"} /\ a \in Requests(o)
            /\ lock = Lock(o, a.lf_type, a)
        OBVIOUS
      <4> QED BY ONLY <1>4, <1>10, <3>4, <4>1, BlockedKeeps
    <3> QED BY <3>5 DEF BytesStep
  <2> QED BY <2>1, <2>2
<1> QED BY <1>7, <1>8, <1>9, <1>10

(* F_UNLCK.                                                                *)
LEMMA UnlockStep ==
    ASSUME LockfInv, NEW o \in Owners, NEW r \in Ranges(o), Unlock(o, r)
    PROVE  LockfInv' /\ BytesStep(ToSet(lf), ToSet(lf'))
<1>0. /\ ListOK(lf) /\ SortedBut(lf, 0) /\ AskInv(pc, req) /\ WaitInv(ToSet(lf), pc, req)
      /\ pc \in [Owners -> LockfPcValues] /\ WaitOK(ToSet(lf), req) /\ ReqOK(req)
  BY InvFacts
<1>1. PICK u : u = Lock(o, "F_UNLCK", r)
  OBVIOUS
<1>2. PICK s : s = Loop(lf, u)
  OBVIOUS
<1>3. lf' = s.list /\ pc' = Woken(pc, s.woken) /\ req' = req
  BY <1>1, <1>2 DEF Unlock, Leaves, lf_clearlock
<1>4. /\ Ranged(u) /\ u.lf_type = "F_UNLCK" /\ u.lf_id = o
      /\ u.lf_start = r.lf_start /\ u.lf_end = r.lf_end
  BY <1>1, InvNoWrap, RangesOK, LockFields
<1>5. PICK q : q = req
  OBVIOUS
<1>6. PICK L : L = s.list
  OBVIOUS
<1>7. PICK W : W = s.woken
  OBVIOUS
<1>8. /\ ListOK(L) /\ SortedBut(L, 0) /\ W \in SUBSET Owners
      /\ Effect(ToSet(lf), ToSet(L), W, u, q)
      /\ \A l \in ToSet(L) : l.lf_id = o => ~Overlap(l, u)
  <2>1. ReqOK(q) /\ WaitOK(ToSet(lf), q)
    BY <1>0, <1>5
  <2> QED BY <1>0, <1>2, <1>4, <1>6, <1>7, <2>1, ClearResult
<1>9. PICK S : S = ToSet(L)
  OBVIOUS
<1>10. PICK S0 : S0 = ToSet(lf)
  OBVIOUS
<1>11. PICK p : p = Woken(pc, W)
  OBVIOUS
<1>12. AskInv(p, q) /\ WaitInv(S, p, q) /\ p \in [Owners -> LockfPcValues]
  <2>1. AskInv(pc, q) /\ WaitInv(S0, pc, q) /\ W \in SUBSET Owners /\ Effect(S0, S, W, u, q)
    BY <1>0, <1>5, <1>8, <1>9, <1>10
  <2> QED BY <1>11, <2>1, WokenKeeps
<1>13. LockfInv'
  <2>1. DOMAIN q = Owners /\ q = [x \in Owners |-> q[x]]
    BY <1>5 DEF LockfInv
  <2>2. lf' = L /\ pc' = p /\ req' = q
    BY <1>3, <1>5, <1>6, <1>7, <1>11
  <2>3. WaitInv(ToSet(L), p, q)
    BY <1>9, <1>12
  <2> QED BY <1>8, <1>12, <2>1, <2>2, <2>3, InvNext
<1>14. Rewritten(S0, S, o, u, {})
  BY <1>4, <1>8, <1>9, <1>10, ClearBytes
<1>15. \A b : Covers(r, b) <=> Covers(u, b)
  BY <1>4 DEF Covers
<1>16. Rewritten(ToSet(lf), ToSet(lf'), o, r, {})
  BY <1>3, <1>6, <1>9, <1>10, <1>14, <1>15 DEF Rewritten
<1> QED BY <1>13, <1>16 DEF BytesStep

(* A signal.                                                               *)
LEMMA SignalStep ==
    ASSUME LockfInv, NEW o \in Owners, Signal(o)
    PROVE  LockfInv' /\ BytesStep(ToSet(lf), ToSet(lf'))
<1>0. /\ ListOK(lf) /\ SortedBut(lf, 0) /\ AskInv(pc, req) /\ WaitInv(ToSet(lf), pc, req)
      /\ pc \in [Owners -> LockfPcValues]
  BY InvFacts
<1>1. PICK p2 : p2 = [pc EXCEPT ![o] = "signalled"]
  OBVIOUS
<1>2. /\ \A x \in Owners : p2[x] = IF x = o THEN "signalled" ELSE pc[x]
      /\ p2 \in [Owners -> LockfPcValues] /\ pc[o] = "asleep"
  BY <1>0, <1>1 DEF LockfPcValues, Signal
<1>3. AskInv(p2, req)
  BY <1>0, <1>2 DEF AskInv, LockfPcValues
<1>4. WaitInv(ToSet(lf), p2, req)
  BY <1>0, <1>2 DEF WaitInv
<1>5. lf' = lf /\ pc' = p2 /\ req' = req
  BY <1>1 DEF Signal
<1>6. PICK q : q = req
  OBVIOUS
<1>7. LockfInv'
  <2>1. DOMAIN q = Owners /\ q = [x \in Owners |-> q[x]]
    BY <1>6 DEF LockfInv
  <2> QED BY <1>0, <1>2, <1>3, <1>4, <1>5, <1>6, <2>1, InvNext
<1>8. SameBytes(ToSet(lf), ToSet(lf'))
  BY <1>5 DEF SameBytes
<1> QED BY <1>7, <1>8 DEF BytesStep

(* Back from tsleep() with an error.                                       *)
LEMMA InterruptedStep ==
    ASSUME LockfInv, NEW o \in Owners, Interrupted(o)
    PROVE  LockfInv' /\ BytesStep(ToSet(lf), ToSet(lf'))
<1>0. /\ ListOK(lf) /\ SortedBut(lf, 0) /\ AskInv(pc, req) /\ WaitInv(ToSet(lf), pc, req)
      /\ pc \in [Owners -> LockfPcValues] /\ DOMAIN req = Owners
  BY InvFacts
<1>1. PICK p2 : p2 = [pc EXCEPT ![o] = "idle"]
  OBVIOUS
<1>2. PICK q2 : q2 = [req EXCEPT ![o] = NoRequest]
  OBVIOUS
<1>3. PICK L : L = lf
  OBVIOUS
<1>4. PICK M : M = Unqueued(L, o)
  OBVIOUS
<1>5. PICK q : q = req
  OBVIOUS
<1>6. PICK p : p = pc
  OBVIOUS
<1>7. lf' = M /\ pc' = p2 /\ req' = q2
  BY <1>1, <1>2, <1>3, <1>4 DEF Interrupted, Unqueued
<1>8. /\ ListOK(M) /\ SortedBut(M, 0) /\ p2 \in [Owners -> LockfPcValues]
      /\ AskInv(p2, q2) /\ WaitInv(ToSet(M), p2, q2)
      /\ \A b, c, t : Holds(ToSet(M), b, c, t) <=> Holds(ToSet(L), b, c, t)
  <2>1. /\ ListOK(L) /\ SortedBut(L, 0) /\ p \in [Owners -> LockfPcValues] /\ DOMAIN q = Owners
        /\ AskInv(p, q) /\ WaitInv(ToSet(L), p, q) /\ o \in Owners /\ p[o] # "asleep"
        /\ Changed(p2, p, o, "idle") /\ Changed(q2, q, o, NoRequest)
    BY <1>0, <1>1, <1>2, <1>3, <1>5, <1>6 DEF Interrupted, Changed
  <2> QED BY ONLY <1>4, <2>1, UnblockKeeps
<1>9. LockfInv'
  <2>1. DOMAIN q2 = Owners /\ q2 = [x \in Owners |-> q2[x]]
    BY <1>0, <1>2 DEF LockfInv
  <2> QED BY <1>7, <1>8, <2>1, InvNext
<1>10. SameBytes(ToSet(lf), ToSet(lf'))
  BY <1>3, <1>7, <1>8 DEF SameBytes
<1> QED BY <1>9, <1>10 DEF BytesStep


(* Every step keeps the invariant, and does to the bytes of the file what  *)
(* one operation on them may do.                                           *)
LEMMA NextStep ==
    ASSUME LockfInv, Next
    PROVE  LockfInv' /\ BytesStep(ToSet(lf), ToSet(lf'))
<1>1. PICK o \in Owners : \/ \E type \in Types, r \in Ranges(o) : SetLock(o, type, r)
                          \/ \E r \in Ranges(o) : Unlock(o, r)
                          \/ Signal(o) \/ Interrupted(o) \/ Retry(o)
  BY DEF Next
<1>2. ASSUME NEW type \in Types, NEW r \in Ranges(o), SetLock(o, type, r)
      PROVE  LockfInv' /\ BytesStep(ToSet(lf), ToSet(lf'))
  <2>1. PICK a : a = [lf_type |-> type, lf_start |-> r.lf_start, lf_end |-> r.lf_end]
    OBVIOUS
  <2>2. a \in Requests(o)
    BY <2>1 DEF Requests
  <2>3. PICK lock : lock = Lock(o, a.lf_type, a)
    OBVIOUS
  <2>4. lock = Lock(o, type, r)
    BY <2>1, <2>3 DEF Lock
  <2>5. pc[o] \in {"idle", "woken"} /\ Leaves(lf_setlock(o, lock))
    BY <1>2, <2>4 DEF SetLock
  <2> QED BY <2>2, <2>3, <2>5, SetlockStep
<1>3. ASSUME Retry(o) PROVE LockfInv' /\ BytesStep(ToSet(lf), ToSet(lf'))
  <2>1. PICK a : a = req[o]
    OBVIOUS
  <2>2. pc[o] \in {"idle", "woken"} /\ pc[o] # "idle"
    BY <1>3 DEF Retry
  <2>3. a \in Requests(o)
    BY <2>1, <2>2, InvFacts DEF AskInv
  <2>4. PICK lock : lock = Lock(o, a.lf_type, a)
    OBVIOUS
  <2>5. Leaves(lf_setlock(o, lock))
    BY <1>3, <2>1, <2>4 DEF Retry
  <2> QED BY <2>2, <2>3, <2>4, <2>5, SetlockStep
<1> QED BY <1>1, <1>2, <1>3, UnlockStep, SignalStep, InterruptedStep

(* There are no locks and no requests at first.                            *)
LEMMA LockfInit ==
    ASSUME MaxEnd < OFF_MAX, Init
    PROVE  LockfInv
<1>1. lf = <<>> /\ pc = [o \in Owners |-> "idle"] /\ req = [o \in Owners |-> NoRequest]
  BY DEF Init
<1>2. ToSet(lf) = {} /\ lf \in Seq(LockRec) /\ Len(lf) = 0
  <2>1. <<>> \in Seq(LockRec) /\ Len(<<>>) = 0 /\ ToSet(<<>>) = {}
    BY DEF ToSet
  <2> QED BY <1>1, <2>1
<1>3. ListOK(lf) /\ SortedBut(lf, 0)
  BY <1>2 DEF ListOK, SortedBut
<1>4. AskInv(pc, req)
  BY <1>1 DEF AskInv, LockfPcValues
<1>5. WaitInv(ToSet(lf), pc, req)
  <2>1. \A p, x : ~On({}, p, x)
    BY DEF On
  <2> QED BY <1>1, <1>2, <2>1 DEF WaitInv, WaitOK
<1> QED BY <1>1, <1>3, <1>4, <1>5 DEF LockfInv, LockfPcValues

(* The invariant holds in every state of every instance: requests that     *)
(* wait, locks that are sorted.                                            *)
THEOREM LockfInvariance == ASSUME MaxEnd < OFF_MAX PROVE Spec => []LockfInv
<1>1. Init => LockfInv
  BY LockfInit
<1>2. LockfInv /\ [Next]_vars => LockfInv'
  <2>1. CASE Next
    BY <2>1, NextStep
  <2>2. CASE UNCHANGED vars
    BY <2>2 DEF vars, LockfInv
  <2> QED BY <2>1, <2>2
<1> QED BY <1>1, <1>2, PTL DEF Spec

(* lf_findoverlap() may stop at the first own lock behind the range: own   *)
(* locks are sorted, disjoint and not empty, whatever is split or merged.  *)
THEOREM OwnLocksSortedHolds == ASSUME MaxEnd < OFF_MAX PROVE Spec => []OwnLocksSorted
<1>1. LockfInv => OwnLocksSorted
  <2> SUFFICES ASSUME LockfInv PROVE OwnLocksSorted
    OBVIOUS
  <2>1. ListOK(lf) /\ SortedBut(lf, 0)
    BY DEF LockfInv
  <2>2. DOMAIN lf = 1..Len(lf) /\ \A k \in 1..Len(lf) : Ranged(lf[k])
    BY <2>1, ListSet
  <2>3. \A i \in 1..Len(lf) : i # 0
    OBVIOUS
  <2> QED BY <2>1, <2>2, <2>3 DEF OwnLocksSorted, SortedBut, Ranged
<1> QED BY <1>1, LockfInvariance, PTL

(* Who sleeps is on the list of one lock only.                             *)
LEMMA OneList ==
    ASSUME LockfInv, NEW o \in Owners, pc[o] = "asleep"
    PROVE  /\ \E i \in DOMAIN lf : {k \in DOMAIN lf : o \in ToSet(lf[k].lf_blkhd)} = {i}
           /\ lf[WaitsOn(o)] \in ToSet(lf) /\ o \in ToSet(lf[WaitsOn(o)].lf_blkhd)
           /\ WaitsFor(o) \in Owners /\ On(ToSet(lf), o, WaitsFor(o))
<1>0. ListOK(lf) /\ SortedBut(lf, 0) /\ WaitInv(ToSet(lf), pc, req) /\ WaitOK(ToSet(lf), req)
  BY InvFacts
<1>1. PICK x \in Owners : On(ToSet(lf), o, x)
  BY <1>0 DEF WaitInv
<1>2. PICK i : i = WaitsOn(o)
  OBVIOUS
<1>3. i \in 1..Len(lf) /\ o \in ToSet(lf[i].lf_blkhd) /\ lf[i] \in ToSet(lf) /\ lf[i].lf_id = x
  BY <1>0, <1>1, <1>2, WaitsOnLock
<1>4. DOMAIN lf = 1..Len(lf) /\ Len(lf) \in Nat /\ \A k \in 1..Len(lf) : Ranged(lf[k]) /\ lf[k] \in ToSet(lf)
  BY <1>0, ListSet
<1>5. ASSUME NEW k \in 1..Len(lf), o \in ToSet(lf[k].lf_blkhd) PROVE k = i
  <2>1. lf[k] = lf[i]
    BY <1>0, <1>3, <1>4, <1>5 DEF WaitOK
  <2>2. ~Before(lf[i], lf[i])
    BY <1>3, <1>4, OverlapBytes
  <2>3. i # 0 /\ k # 0
    BY <1>3
  <2>4. ~(k < i) /\ ~(i < k)
    BY <1>0, <1>3, <2>1, <2>2, <2>3 DEF SortedBut
  <2> QED BY <1>3, <1>4, <2>4
<1>6. {k \in DOMAIN lf : o \in ToSet(lf[k].lf_blkhd)} = {i}
  BY <1>3, <1>4, <1>5
<1> QED BY <1>1, <1>2, <1>3, <1>4, <1>6 DEF WaitsFor

(* No wakeup is lost, however many owners there are and however the lock   *)
(* that blocks a request is split, merged, upgraded or downgraded.         *)
THEOREM WaitersBlockedHolds == ASSUME MaxEnd < OFF_MAX PROVE Spec => []WaitersBlocked
<1>1. LockfInv => WaitersBlocked
  <2> SUFFICES ASSUME LockfInv, NEW o \in Owners, pc[o] = "asleep"
               PROVE  /\ Cardinality({i \in DOMAIN lf : o \in ToSet(lf[i].lf_blkhd)}) = 1
                      /\ Conflicts(lf[WaitsOn(o)], Lock(o, req[o].lf_type, req[o]))
    BY DEF WaitersBlocked
  <2>1. PICK i \in DOMAIN lf : {k \in DOMAIN lf : o \in ToSet(lf[k].lf_blkhd)} = {i}
    BY OneList
  <2>2. Cardinality({i}) = 1
    BY FS_Singleton
  <2>3. WaitOK(ToSet(lf), req)
    BY InvFacts
  <2>4. lf[WaitsOn(o)] \in ToSet(lf) /\ o \in ToSet(lf[WaitsOn(o)].lf_blkhd)
    BY OneList
  <2>5. Conflicts(lf[WaitsOn(o)], Asked(req, o))
    BY <2>3, <2>4 DEF WaitOK
  <2> QED BY <2>1, <2>2, <2>5 DEF Asked
<1> QED BY <1>1, LockfInvariance, PTL

(* The deadlock check, short as it is, keeps two processes from sleeping   *)
(* on each other's locks.                                                  *)
THEOREM NoMutualWaitHolds == ASSUME MaxEnd < OFF_MAX PROVE Spec => []NoMutualWait
<1>1. LockfInv => NoMutualWait
  <2> SUFFICES ASSUME LockfInv, NEW o \in Asleep, WaitsFor(o) \in Asleep, WaitsFor(WaitsFor(o)) = o
               PROVE  FALSE
    BY DEF NoMutualWait
  <2>1. PICK x : x = WaitsFor(o)
    OBVIOUS
  <2>2. /\ o \in Owners \ Flockers /\ x \in Owners \ Flockers /\ pc[o] = "asleep" /\ pc[x] = "asleep"
        /\ WaitsFor(x) = o
    BY <2>1 DEF Asleep
  <2>3. On(ToSet(lf), o, x) /\ On(ToSet(lf), x, o)
    BY <2>1, <2>2, OneList
  <2> QED BY <2>2, <2>3, InvFacts DEF WaitInv
<1> QED BY <1>1, LockfInvariance, PTL


-----------------------------------------------------------------------------
(* The refinement: LockfSpec, byte by byte.                                *)

(* What the owners hold.                                                   *)
HeldBy(S) == [o \in Owners |-> [b \in Bytes |-> {t \in Types : Holds(S, o, b, t)}]]

(* The types of the locks in a list.                                       *)
LEMMA TypesHeld ==
    ASSUME NEW L, ListOK(L), NEW o, NEW b
    PROVE  {L[i].lf_type : i \in {j \in OwnLocks(L, o) : Covers(L[j], b)}}
              = {t \in Types : Holds(ToSet(L), o, b, t)}
<1>1. /\ DOMAIN L = 1..Len(L) /\ \A k \in 1..Len(L) : L[k] \in ToSet(L) /\ L[k].lf_type \in Types
      /\ \A l \in ToSet(L) : \E k \in 1..Len(L) : l = L[k]
  BY ListSet DEF LockRec
<1>2. ASSUME NEW i \in OwnLocks(L, o), Covers(L[i], b)
      PROVE  L[i].lf_type \in Types /\ Holds(ToSet(L), o, b, L[i].lf_type)
  BY <1>1, <1>2 DEF Holds, OwnLocks
<1>3. ASSUME NEW t \in Types, Holds(ToSet(L), o, b, t)
      PROVE  \E i \in OwnLocks(L, o) : Covers(L[i], b) /\ t = L[i].lf_type
  <2>1. PICK l \in ToSet(L) : l.lf_id = o /\ Covers(l, b) /\ l.lf_type = t
    BY <1>3 DEF Holds
  <2>2. PICK k \in 1..Len(L) : l = L[k]
    BY <1>1
  <2> QED BY <1>1, <2>1, <2>2 DEF OwnLocks
<1> QED BY <1>2, <1>3

(* The table of bytes of a list is that of the locks in it.                *)
LEMMA TableOfSet ==
    ASSUME NEW L, ListOK(L)
    PROVE  HeldIn(L) = HeldBy(ToSet(L))
<1>1. \A o, b : {L[i].lf_type : i \in {j \in OwnLocks(L, o) : Covers(L[j], b)}}
                   = {t \in Types : Holds(ToSet(L), o, b, t)}
  BY TypesHeld
<1> QED BY <1>1 DEF HeldIn, HeldBy

(* The list, with o blocked on the lock at j.                              *)
BlockedAt(L, j, o) == [L EXCEPT ![j].lf_blkhd = Append(@, o)]

(* Who waits on a lock does not matter to what is held.                    *)
LEMMA WaitersHoldNothing ==
    ASSUME NEW L, ListOK(L), NEW j, NEW o
    PROVE  HeldIn(BlockedAt(L, j, o)) = HeldIn(L)
<1>0. PICK M : M = [L EXCEPT ![j].lf_blkhd = Append(@, o)]
  OBVIOUS
<1>1. DOMAIN L = 1..Len(L) /\ \A k \in 1..Len(L) : L[k] \in LockRec
  BY ListSet
<1>2. DOMAIN M = DOMAIN L
  BY <1>0
<1>3. ASSUME NEW k \in DOMAIN L
      PROVE  /\ M[k].lf_id = L[k].lf_id /\ M[k].lf_type = L[k].lf_type
             /\ M[k].lf_start = L[k].lf_start /\ M[k].lf_end = L[k].lf_end
  <2>1. L[k] \in LockRec
    BY <1>1
  <2>2. M[k] = IF k = j THEN [L[k] EXCEPT !.lf_blkhd = Append(@, o)] ELSE L[k]
    BY <1>0
  <2> QED BY <2>1, <2>2 DEF LockRec
<1>4. \A x : OwnLocks(M, x) = OwnLocks(L, x)
  BY <1>2, <1>3 DEF OwnLocks
<1>5. ASSUME NEW x, NEW b
      PROVE  {M[i].lf_type : i \in {k \in OwnLocks(M, x) : Covers(M[k], b)}}
                = {L[i].lf_type : i \in {k \in OwnLocks(L, x) : Covers(L[k], b)}}
  <2>1. \A k \in OwnLocks(L, x) : k \in DOMAIN L
    BY DEF OwnLocks
  <2>2. \A k \in OwnLocks(L, x) : M[k].lf_type = L[k].lf_type /\ (Covers(M[k], b) <=> Covers(L[k], b))
    BY <1>3, <2>1 DEF Covers
  <2> HIDE DEF OwnLocks
  <2> QED BY <1>4, <2>2
<1>6. \A x, b : {M[i].lf_type : i \in {k \in OwnLocks(M, x) : Covers(M[k], b)}}
                     = {L[i].lf_type : i \in {k \in OwnLocks(L, x) : Covers(L[k], b)}}
  BY <1>5
<1> HIDE DEF OwnLocks, Covers
<1>7. HeldIn(M) = HeldIn(L)
  BY ONLY <1>6 DEF HeldIn
<1> QED BY <1>0, <1>7 DEF BlockedAt

(* What Hold of LockfSpec does.                                            *)
Written(h2, h, o, types, range) ==
    h2 = [h EXCEPT ![o] = [b \in Bytes |-> IF b \in range THEN types ELSE @[b]]]

(* A range that is rewritten is held as Hold says.                         *)
LEMMA RewrittenHeld ==
    ASSUME NEW S0, NEW S, NEW o \in Owners, NEW r, NEW types \in SUBSET Types,
           Rewritten(S0, S, o, r, types), NEW range, range = BytesOf(r)
    PROVE  Written(HeldBy(S), HeldBy(S0), o, types, range)
<1>0. /\ \A b \in Bytes : b \in Nat
      /\ range = {b \in Bytes : Covers(r, b)}
  BY LockfAssumption DEF Bytes, BytesOf
<1> DEFINE old(p, b) == {t \in Types : Holds(S0, p, b, t)}
           new(p, b) == {t \in Types : Holds(S, p, b, t)}
<1>1. ASSUME NEW p \in Owners, NEW b \in Bytes
      PROVE  new(p, b) = IF p = o /\ b \in range THEN types ELSE old(p, b)
  <2>1. ASSUME NEW t \in Types
        PROVE  Holds(S, p, b, t) <=> IF p = o /\ Covers(r, b) THEN t \in types ELSE Holds(S0, p, b, t)
    BY <1>0 DEF Rewritten
  <2>2. CASE p = o /\ b \in range
    <3>1. \A t \in Types : Holds(S, p, b, t) <=> t \in types
      BY <1>0, <2>1, <2>2
    <3>2. new(p, b) = types
      BY <3>1
    <3> QED BY <2>2, <3>2
  <2>3. CASE ~(p = o /\ b \in range)
    <3>1. \A t \in Types : Holds(S, p, b, t) <=> Holds(S0, p, b, t)
      BY <1>0, <2>1, <2>3
    <3>2. new(p, b) = old(p, b)
      BY <3>1
    <3> QED BY <2>3, <3>2
  <2> QED BY <2>2, <2>3
<1>2. /\ HeldBy(S) = [p \in Owners |-> [b \in Bytes |-> new(p, b)]]
      /\ HeldBy(S0) = [p \in Owners |-> [b \in Bytes |-> old(p, b)]]
  BY DEF HeldBy
<1> HIDE DEF old, new
<1> QED BY <1>1, <1>2 DEF Written

(* What is not rewritten is held as before.                                *)
LEMMA SameHeld ==
    ASSUME NEW S0, NEW S, SameBytes(S0, S)
    PROVE  HeldBy(S) = HeldBy(S0)
<1>0. \A b \in Bytes : b \in Nat
  BY LockfAssumption DEF Bytes
<1>1. \A p \in Owners, b \in Bytes : {t \in Types : Holds(S, p, b, t)} = {t \in Types : Holds(S0, p, b, t)}
  BY <1>0 DEF SameBytes
<1> QED BY <1>1 DEF HeldBy

(* The same between two lists.                                             *)
LEMMA RewrittenTable ==
    ASSUME NEW L0, ListOK(L0), NEW L, ListOK(L), NEW o \in Owners, NEW r, NEW types \in SUBSET Types,
           Rewritten(ToSet(L0), ToSet(L), o, r, types)
    PROVE  HeldIn(L) = Bytewise!Hold(HeldIn(L0), o, types, BytesOf(r))
<1>1. HeldIn(L) = HeldBy(ToSet(L)) /\ HeldIn(L0) = HeldBy(ToSet(L0))
  BY TableOfSet
<1>2. Written(HeldBy(ToSet(L)), HeldBy(ToSet(L0)), o, types, BytesOf(r))
  BY RewrittenHeld
<1> QED BY <1>1, <1>2 DEF Written, Bytewise!Hold

-----------------------------------------------------------------------------
(* Each call, owner, type and range does what LockfSpec says of it.        *)

(* Ranges that overlap share a byte of the file.                           *)
LEMMA SharedByte ==
    ASSUME NEW a, NEW b, Ranged(a), Ranged(b), Overlap(a, b)
    PROVE  \E x \in Bytes : Covers(a, x) /\ Covers(b, x)
<1>1. PICK x : x = IF a.lf_start <= b.lf_start THEN b.lf_start ELSE a.lf_start
  OBVIOUS
<1>2. x \in Nat /\ Covers(a, x) /\ Covers(b, x)
  BY <1>1 DEF Ranged, Overlap, Before, Covers, EOF
<1>3. x <= OFF_MAX
  BY <1>1 DEF Ranged, InFile
<1> QED BY <1>2, <1>3, LockfAssumption DEF Bytes

(* lf_getblock() finds a lock unless the range is free.                    *)
LEMMA FreeIfNoBlock ==
    ASSUME NEW L, ListOK(L), NEW o \in Owners, NEW type \in Types, NEW lock, Ranged(lock),
           lock.lf_id = o, lock.lf_type = type
    PROVE  Bytewise!Free(HeldIn(L), o, type, BytesOf(lock)) <=> lf_getblock(L, lock) > Len(L)
<1>1. HeldIn(L) = HeldBy(ToSet(L))
  BY TableOfSet
<1>2. \A p \in Owners, b \in Bytes : HeldIn(L)[p][b] = {t \in Types : Holds(ToSet(L), p, b, t)}
  BY <1>1 DEF HeldBy
<1>3. PICK j : j = lf_getblock(L, lock)
  OBVIOUS
<1>4. /\ j \in 1..Len(L) + 1 /\ Len(L) \in Nat
      /\ j <= Len(L) => j \in 1..Len(L) /\ Conflicts(L[j], lock)
      /\ j > Len(L) <=> \A k \in 1..Len(L) : ~Conflicts(L[k], lock)
  BY <1>3, GetblockProperties, ListSet
<1>5. ASSUME j > Len(L) PROVE Bytewise!Free(HeldIn(L), o, type, BytesOf(lock))
  <2>1. Permitted(ToSet(L), o, lock, type)
    BY <1>4, <1>5, NoBlockPermits
  <2> SUFFICES ASSUME NEW p \in Owners \ {o}, NEW b \in BytesOf(lock)
               PROVE  ~Bytewise!Conflict({type}, HeldIn(L)[p][b])
    BY DEF Bytewise!Free
  <2>2. b \in Bytes /\ b \in Nat /\ Covers(lock, b)
    BY LockfAssumption DEF BytesOf, Bytes
  <2>3. \A t \in HeldIn(L)[p][b] : "F_WRLCK" \notin {type, t}
    BY <1>2, <2>1, <2>2 DEF Permitted
  <2> QED BY <2>3 DEF Bytewise!Conflict
<1>6. ASSUME j <= Len(L), Bytewise!Free(HeldIn(L), o, type, BytesOf(lock)) PROVE FALSE
  <2>1. PICK l : l = L[j]
    OBVIOUS
  <2>2. /\ l \in ToSet(L) /\ Ranged(l) /\ l.lf_id \in Owners /\ l.lf_type \in Types
        /\ l.lf_id # o /\ Overlap(l, lock) /\ "F_WRLCK" \in {l.lf_type, type}
    BY <1>4, <1>6, <2>1, ListSet DEF Conflicts, LockRec
  <2>3. PICK x \in Bytes : Covers(l, x) /\ Covers(lock, x)
    BY <2>2, SharedByte
  <2>4. l.lf_type \in HeldIn(L)[l.lf_id][x]
    BY <1>2, <2>2, <2>3 DEF Holds
  <2>5. Bytewise!Conflict({type}, HeldIn(L)[l.lf_id][x])
    BY <2>2, <2>4 DEF Bytewise!Conflict
  <2>6. x \in BytesOf(lock) /\ l.lf_id \in Owners \ {o}
    BY <2>2, <2>3 DEF BytesOf
  <2> QED BY <1>6, <2>5, <2>6 DEF Bytewise!Free
<1> QED BY <1>3, <1>4, <1>5, <1>6

(* The loop of lf_clearlock lets go of the range.                          *)
LEMMA LoopClears ==
    ASSUME LockfInv, NEW o \in Owners, NEW u, Ranged(u), u.lf_id = o, u.lf_type = "F_UNLCK"
    PROVE  /\ ListOK(Loop(lf, u).list)
           /\ HeldIn(Loop(lf, u).list) = Bytewise!Cleared(HeldIn(lf), o, BytesOf(u))
<1>0. ListOK(lf) /\ SortedBut(lf, 0) /\ WaitOK(ToSet(lf), req) /\ ReqOK(req)
  BY InvFacts
<1>1. PICK s : s = Loop(lf, u)
  OBVIOUS
<1>2. PICK q : q = req
  OBVIOUS
<1>3. PICK L : L = s.list
  OBVIOUS
<1>4. PICK W : W = s.woken
  OBVIOUS
<1>5. /\ ListOK(L) /\ Effect(ToSet(lf), ToSet(L), W, u, q)
      /\ \A l \in ToSet(L) : l.lf_id = u.lf_id => ~Overlap(l, u)
  BY <1>0, <1>1, <1>2, <1>3, <1>4, ClearResult
<1>6. Rewritten(ToSet(lf), ToSet(L), o, u, {})
  BY <1>5, ClearBytes
<1>7. HeldIn(L) = Bytewise!Hold(HeldIn(lf), o, {}, BytesOf(u))
  BY <1>0, <1>5, <1>6, RewrittenTable
<1> QED BY <1>1, <1>3, <1>5, <1>7 DEF Bytewise!Cleared

(* The loop of lf_setlock takes it.                                        *)
LEMMA LoopSets ==
    ASSUME LockfInv, NEW o \in Owners, NEW lock \in LockRec, Ranged(lock), lock.lf_id = o,
           lock.lf_blkhd = <<>>
    PROVE  HeldIn(Loop(lf, lock).list) = Bytewise!Hold(HeldIn(lf), o, {lock.lf_type}, BytesOf(lock))
<1>0. ListOK(lf) /\ SortedBut(lf, 0) /\ WaitOK(ToSet(lf), req) /\ ReqOK(req)
  BY InvFacts
<1>1. PICK s : s = Loop(lf, lock)
  OBVIOUS
<1>2. PICK q : q = req
  OBVIOUS
<1>3. PICK L : L = s.list
  OBVIOUS
<1>4. PICK W : W = s.woken
  OBVIOUS
<1>5. /\ ListOK(L) /\ SortedBut(L, 0) /\ Effect(ToSet(lf), ToSet(L), W, lock, q)
      /\ Covered(lock, ToSet(L)) /\ lock.lf_type \in Types
  <2>1. lock.lf_type \in Types
    BY DEF LockRec
  <2> QED BY <1>0, <1>1, <1>2, <1>3, <1>4, <2>1, SetResult
<1>6. Rewritten(ToSet(lf), ToSet(L), o, lock, {lock.lf_type})
  BY <1>5, SetBytes
<1>7. HeldIn(L) = Bytewise!Hold(HeldIn(lf), o, {lock.lf_type}, BytesOf(lock))
  BY <1>0, <1>5, <1>6, RewrittenTable
<1> QED BY <1>1, <1>3, <1>7

(* F_UNLCK lets go of the bytes it names.                                  *)
LEMMA ClearsAsAsked ==
    ASSUME LockfInv, NEW o \in Owners, NEW r, Ranged(r)
    PROVE  HeldIn(lf_clearlock(o, r).lf) = Bytewise!Cleared(HeldIn(lf), o, BytesOf(r))
<1>1. PICK u : u = Lock(o, "F_UNLCK", r)
  OBVIOUS
<1>2. /\ Ranged(u) /\ u.lf_type = "F_UNLCK" /\ u.lf_id = o
      /\ u.lf_start = r.lf_start /\ u.lf_end = r.lf_end
  BY <1>1, LockFields
<1>3. BytesOf(u) = BytesOf(r)
  BY <1>2 DEF BytesOf, Covers
<1>4. HeldIn(Loop(lf, u).list) = Bytewise!Cleared(HeldIn(lf), o, BytesOf(u))
  BY <1>2, LoopClears
<1>5. lf_clearlock(o, r).lf = Loop(lf, u).list
  BY <1>1 DEF lf_clearlock
<1> QED BY <1>3, <1>4, <1>5

(* A request takes the bytes it names if they are free; else it leaves     *)
(* them, or, for flock(2), lets go of them to wait for more.               *)
LEMMA SetsAsAsked ==
    ASSUME LockfInv, NEW o \in Owners, NEW r, Ranged(r), NEW type \in Types
    PROVE  HeldIn(lf_setlock(o, Lock(o, type, r)).lf)
              = Bytewise!Requested(HeldIn(lf), o, type, BytesOf(r))
<1>0. ListOK(lf)
  BY InvFacts
<1>1. PICK lock : lock = Lock(o, type, r)
  OBVIOUS
<1>2. /\ lock \in LockRec /\ Ranged(lock) /\ lock.lf_type = type /\ lock.lf_id = o
      /\ lock.lf_start = r.lf_start /\ lock.lf_end = r.lf_end /\ lock.lf_blkhd = <<>>
  BY <1>1, LockFields
<1>3. BytesOf(lock) = BytesOf(r)
  BY <1>2 DEF BytesOf, Covers
<1>4. PICK h : h = HeldIn(lf)
  OBVIOUS
<1>5. PICK range : range = BytesOf(r)
  OBVIOUS
<1>6. PICK b : b = lf_getblock(lf, lock)
  OBVIOUS
<1>7. /\ Bytewise!Free(h, o, type, range) <=> b > Len(lf)
      /\ b \in Nat /\ Len(lf) \in Nat
  <2>1. Bytewise!Free(HeldIn(lf), o, type, BytesOf(lock)) <=> lf_getblock(lf, lock) > Len(lf)
    BY <1>0, <1>2, FreeIfNoBlock
  <2>2. b \in 1..Len(lf) + 1 /\ Len(lf) \in Nat
    BY <1>0, <1>6, GetblockProperties, ListSet
  <2> QED BY <1>3, <1>4, <1>5, <1>6, <2>1, <2>2
<1>8. PICK lists : lists = lf_setlock(o, lock).lf
  OBVIOUS
<1>9. PICK freed : freed = IF o \in Flockers /\ lock.lf_type = "F_WRLCK"
                           THEN Loop(lf, [lock EXCEPT !.lf_type = "F_UNLCK"]) ELSE LoopStart(lf)
  OBVIOUS
<1>10. /\ b > Len(lf) => lists = Loop(lf, lock).list
       /\ b <= Len(lf) /\ Deadlock(o, b) => lists = lf
       /\ b <= Len(lf) /\ ~Deadlock(o, b) =>
             lists = [freed.list EXCEPT ![lf_getblock(freed.list, lock)].lf_blkhd = Append(@, o)]
  <2>1. PICK idle, asked, M : /\ idle = [pc EXCEPT ![o] = "idle"]
           /\ asked = [lf_type |-> lock.lf_type, lf_start |-> lock.lf_start, lf_end |-> lock.lf_end]
           /\ M = [freed.list EXCEPT ![lf_getblock(freed.list, lock)].lf_blkhd = Append(@, o)]
    OBVIOUS
  <2>2. lf_setlock(o, lock) =
           CASE b > Len(lf) ->
                  [lf |-> Loop(lf, lock).list, pc |-> Woken(idle, Loop(lf, lock).woken),
                   req |-> [req EXCEPT ![o] = NoRequest]]
             [] b <= Len(lf) /\ Deadlock(o, b) ->
                  [lf |-> lf, pc |-> idle, req |-> [req EXCEPT ![o] = NoRequest]]
             [] OTHER ->
                  [lf |-> M, pc |-> [Woken(pc, freed.woken) EXCEPT ![o] = "asleep"],
                   req |-> [req EXCEPT ![o] = asked]]
    BY ONLY <1>6, <1>9, <2>1, Zenon DEF lf_setlock
  <2>3. b > Len(lf) <=> ~(b <= Len(lf))
    BY ONLY <1>7
  <2> QED BY ONLY <1>8, <2>1, <2>2, <2>3
<1>11. HeldIn(lists) = Bytewise!Requested(h, o, type, range)
  <2>1. CASE b > Len(lf)
    <3>1. HeldIn(lists) = Bytewise!Hold(h, o, {type}, range)
      BY <1>2, <1>3, <1>4, <1>5, <1>10, <2>1, LoopSets
    <3> QED BY <1>7, <2>1, <3>1 DEF Bytewise!Requested
  <2>2. CASE b <= Len(lf) /\ Deadlock(o, b)
    <3>1. o \notin Flockers
      BY <2>2 DEF Deadlock
    <3>2. HeldIn(lists) = h
      BY <1>4, <1>10, <2>2
    <3>3. ~Bytewise!Free(h, o, type, range)
      BY <1>7, <2>2
    <3> QED BY <3>1, <3>2, <3>3 DEF Bytewise!Requested
  <2>3. CASE b <= Len(lf) /\ ~Deadlock(o, b)
    <3>1. ~Bytewise!Free(h, o, type, range)
      BY <1>7, <2>3
    <3>2. lists = [freed.list EXCEPT ![lf_getblock(freed.list, lock)].lf_blkhd = Append(@, o)]
      BY <1>10, <2>3
    <3>5. lists = BlockedAt(freed.list, lf_getblock(freed.list, lock), o)
      BY <3>2 DEF BlockedAt
    <3>6. ListOK(freed.list) => HeldIn(lists) = HeldIn(freed.list)
      BY <3>5, WaitersHoldNothing
    <3>3. CASE o \in Flockers /\ type = "F_WRLCK"
      <4>1. PICK u : u = [lock EXCEPT !.lf_type = "F_UNLCK"]
        OBVIOUS
      <4>2. /\ u.lf_id = o /\ u.lf_type = "F_UNLCK" /\ Ranged(u)
            /\ u.lf_start = lock.lf_start /\ u.lf_end = lock.lf_end
        BY <1>2, <4>1 DEF LockRec, Ranged, InFile
      <4>3. BytesOf(u) = range
        BY <1>3, <1>5, <4>2 DEF BytesOf, Covers
      <4>4. freed.list = Loop(lf, u).list
        BY <1>2, <1>9, <3>3, <4>1
      <4>5. ListOK(freed.list) /\ HeldIn(freed.list) = Bytewise!Cleared(h, o, range)
        BY <1>4, <4>2, <4>3, <4>4, LoopClears
      <4>6. HeldIn(lists) = Bytewise!Hold(h, o, {}, range)
        BY <3>6, <4>5 DEF Bytewise!Cleared
      <4> QED BY <3>1, <3>3, <4>6 DEF Bytewise!Requested
    <3>4. CASE ~(o \in Flockers /\ type = "F_WRLCK")
      <4>1. freed.list = lf
        BY <1>2, <1>9, <3>4 DEF LoopStart
      <4>2. HeldIn(lists) = h
        BY <1>0, <1>4, <3>6, <4>1
      <4> QED BY <3>1, <3>4, <4>2 DEF Bytewise!Requested
    <3> QED BY <3>3, <3>4
  <2> QED BY <1>7, <2>1, <2>2, <2>3
<1> QED BY <1>1, <1>4, <1>5, <1>8, <1>11

(* For any owners and ranges, however the owner's own locks lie and        *)
(* whoever else holds or waits for what: a call does to each byte of its   *)
(* range, and to no other, what fcntl.2 and flock.2 say.                   *)
THEOREM CallsDoAsAskedHolds == ASSUME MaxEnd < OFF_MAX PROVE Spec => []CallsDoAsAsked
<1>1. LockfInv => CallsDoAsAsked
  <2> SUFFICES ASSUME LockfInv PROVE CallsDoAsAsked
    OBVIOUS
  <2>1. ASSUME NEW o \in Owners, NEW r \in Ranges(o)
        PROVE  /\ HeldIn(lf_clearlock(o, r).lf) = Bytewise!Cleared(HeldIn(lf), o, BytesOf(r))
               /\ \A type \in Types : HeldIn(lf_setlock(o, Lock(o, type, r)).lf)
                                         = Bytewise!Requested(HeldIn(lf), o, type, BytesOf(r))
    <3>1. Ranged(r)
      BY RangesOK
    <3> QED BY <3>1, ClearsAsAsked, SetsAsAsked
  <2>2. ASSUME NEW o \in Owners, pc[o] = "woken"
        PROVE  HeldIn(lf_setlock(o, Lock(o, req[o].lf_type, req[o])).lf)
                  = Bytewise!Requested(HeldIn(lf), o, req[o].lf_type, BytesOf(req[o]))
    <3>1. req[o] \in Requests(o)
      BY <2>2, InvFacts DEF AskInv
    <3>2. Ranged(req[o]) /\ req[o].lf_type \in Types
      BY <3>1, RequestsOK
    <3> QED BY <3>2, SetsAsAsked
  <2> QED BY <2>1, <2>2 DEF CallsDoAsAsked
<1> QED BY <1>1, LockfInvariance, PTL

-----------------------------------------------------------------------------
(* No step does anything else.                                             *)

(* Each step is a step of LockfSpec, or changes nothing that is held.      *)
LEMMA LockfRefinesStep == LockfInv /\ [Next]_vars => [Bytewise!Next]_(HeldIn(lf))
<1> SUFFICES ASSUME LockfInv, [Next]_vars, HeldIn(lf') # HeldIn(lf)
             PROVE  Bytewise!Next
  OBVIOUS
<1>1. LockfInv' /\ BytesStep(ToSet(lf), ToSet(lf'))
  <2>1. CASE Next
    BY <2>1, NextStep
  <2>2. CASE UNCHANGED vars
    BY <2>2 DEF vars
  <2> QED BY <2>1, <2>2
<1>2. PICK L0 : L0 = lf
  OBVIOUS
<1>3. PICK L : L = lf'
  OBVIOUS
<1>4. ListOK(L0) /\ ListOK(L) /\ BytesStep(ToSet(L0), ToSet(L))
  BY <1>1, <1>2, <1>3 DEF LockfInv
<1>5. PICK h : h = HeldIn(L0)
  OBVIOUS
<1>6. PICK h2 : h2 = HeldIn(L)
  OBVIOUS
<1>7. h2 # h /\ HeldIn(lf) = h /\ HeldIn(lf)' = h2
  BY <1>2, <1>3, <1>5, <1>6
<1>8. ~SameBytes(ToSet(L0), ToSet(L))
  <2>1. SameBytes(ToSet(L0), ToSet(L)) => HeldBy(ToSet(L)) = HeldBy(ToSet(L0))
    BY SameHeld
  <2>2. HeldIn(L) = HeldBy(ToSet(L)) /\ HeldIn(L0) = HeldBy(ToSet(L0))
    BY <1>4, TableOfSet
  <2> QED BY <1>5, <1>6, <1>7, <2>1, <2>2
<1>9. PICK o \in Owners : \E r \in Ranges(o) :
          \/ Rewritten(ToSet(L0), ToSet(L), o, r, {})
          \/ \E type \in Types : /\ Rewritten(ToSet(L0), ToSet(L), o, r, {type})
                                 /\ Permitted(ToSet(L0), o, r, type)
  BY <1>4, <1>8 DEF BytesStep
<1>15. PICK r \in Ranges(o) :
          \/ Rewritten(ToSet(L0), ToSet(L), o, r, {})
          \/ \E type \in Types : /\ Rewritten(ToSet(L0), ToSet(L), o, r, {type})
                                 /\ Permitted(ToSet(L0), o, r, type)
  BY <1>9
<1>10. PICK range : range = BytesOf(r)
  OBVIOUS
<1>11. range \in Intervals
  BY <1>10 DEF Intervals
<1>12. ASSUME NEW types \in SUBSET Types, Rewritten(ToSet(L0), ToSet(L), o, r, types)
       PROVE  h2 = Bytewise!Hold(h, o, types, range) /\ h2[o] # h[o]
  <2>1. h2 = Bytewise!Hold(h, o, types, range)
    BY <1>4, <1>5, <1>6, <1>10, <1>12, RewrittenTable
  <2>2. PICK row : row = [b \in Bytes |-> IF b \in range THEN types ELSE h[o][b]]
    OBVIOUS
  <2>3. h2 = [h EXCEPT ![o] = row]
    BY <2>1, <2>2 DEF Bytewise!Hold
  <2>4. h = [p \in Owners |-> h[p]]
    BY <1>5 DEF HeldIn
  <2>5. h2[o] = row
    BY <2>3, <2>4
  <2>6. row # h[o]
    BY <1>7, <2>3, <2>4
  <2> QED BY <2>1, <2>5, <2>6
<1>13. CASE Rewritten(ToSet(L0), ToSet(L), o, r, {})
  <2>1. h2 = Bytewise!Cleared(h, o, range) /\ h2[o] # h[o]
    BY <1>12, <1>13 DEF Bytewise!Cleared
  <2> QED BY <1>7, <1>11, <2>1 DEF Bytewise!Next
<1>14. ASSUME NEW type \in Types, Rewritten(ToSet(L0), ToSet(L), o, r, {type}),
              Permitted(ToSet(L0), o, r, type)
       PROVE  Bytewise!Next
  <2>1. h2 = Bytewise!Hold(h, o, {type}, range) /\ h2[o] # h[o]
    BY <1>12, <1>14
  <2>2. ASSUME NEW p \in Owners \ {o}, NEW b \in range
        PROVE  ~Bytewise!Conflict({type}, h[p][b])
    <3>1. b \in Bytes /\ b \in Nat /\ Covers(r, b)
      BY <1>10, LockfAssumption DEF BytesOf, Bytes
    <3>2. h = HeldBy(ToSet(L0))
      BY <1>4, <1>5, TableOfSet
    <3>3. h[p][b] = {t \in Types : Holds(ToSet(L0), p, b, t)}
      BY <3>1, <3>2 DEF HeldBy
    <3>4. \A t \in h[p][b] : "F_WRLCK" \notin {type, t}
      BY <1>14, <3>1, <3>3 DEF Permitted
    <3> QED BY <3>4 DEF Bytewise!Conflict
  <2>3. Bytewise!Free(h, o, type, range)
    BY <2>2 DEF Bytewise!Free
  <2>4. h2 = Bytewise!Requested(h, o, type, range)
    BY <2>1, <2>3 DEF Bytewise!Requested
  <2> QED BY <1>7, <1>11, <2>1, <2>4 DEF Bytewise!Next, Types
<1> QED BY <1>13, <1>14, <1>15

(* The sorted list of ranges, with all that is split, merged, shrunk and   *)
(* woken, implements the table of bytes, call by call, and no signal or    *)
(* interrupted request does anything to it.                                *)
THEOREM BytesRefinement == ASSUME MaxEnd < OFF_MAX PROVE Spec => ImplementsBytes
<1>1. Init => Bytewise!Init
  <2> SUFFICES ASSUME Init PROVE Bytewise!Init
    OBVIOUS
  <2>1. lf = <<>>
    BY DEF Init
  <2>2. \A o : OwnLocks(lf, o) = {}
    BY <2>1 DEF OwnLocks
  <2> QED BY <2>2 DEF Bytewise!Init, HeldIn
<1>2. LockfInv /\ [Next]_vars => [Bytewise!Next]_(HeldIn(lf))
  BY LockfRefinesStep
<1> QED BY <1>1, <1>2, LockfInvariance, CallsDoAsAskedHolds, PTL DEF Spec, ImplementsBytes, Bytewise!Spec


=============================================================================
