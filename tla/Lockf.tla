-------------------------------- MODULE Lockf --------------------------------
(***************************************************************************)
(* Advisory locks on byte ranges (sys/kern/kern_lockf.c): the list of      *)
(* locks of one file, requests that wait for a lock in the list, deadlock  *)
(* detection and signals.                                                  *)
(*                                                                         *)
(* Everything runs under Giant, so a call is one step up to its return or  *)
(* its tsleep().  A lock in the list carries the requests that are blocked *)
(* on it (lf_blkhd); the lf_next of a blocked request is the lock whose    *)
(* list it is on.  An owner (a process, or an open file for flock) has one *)
(* request at a time.  MALLOC() is taken not to sleep in lf_split().       *)
(*                                                                         *)
(* The properties hold if MaxEnd < OFF_MAX.  lf_advlock() also takes a     *)
(* range whose last byte is OFF_MAX: cut out of an own lock to the end of  *)
(* the file, it leaves a piece that begins at OFF_MAX + 1, which off_t     *)
(* does not have.  With MaxEnd = OFF_MAX the model does the same.          *)
(***************************************************************************)
EXTENDS Integers, Sequences, FiniteSets, SequencesExt, Queue

CONSTANTS
    Owners,     \* lf_id
    Flockers,   \* the owners that use flock(2), F_FLOCK; the others are F_POSIX
    OFF_MAX,    \* the largest off_t
    MaxEnd,     \* bound on the last byte of a range that does not go to the end of the file
    MaxLocks    \* bound on the locks in the list when a new request comes

ASSUME LockfAssumption ==
    Flockers \subseteq Owners /\ OFF_MAX \in Nat /\ MaxEnd \in 0..OFF_MAX /\ MaxLocks \in Nat

VARIABLES
    lf,     \* the list of locks of the file: records lf_id, lf_type, lf_start, lf_end, lf_blkhd
    pc,     \* "idle", "asleep", "woken" or "signalled"
    req     \* the range and type that an owner waits for

vars == <<lf, pc, req>>

EOF == -1

Types == {"F_RDLCK", "F_WRLCK"}

NoRequest == [lf_type |-> "F_UNLCK", lf_start |-> 0, lf_end |-> 0]

Init ==
    /\ lf = <<>>
    /\ pc = [o \in Owners |-> "idle"]
    /\ req = [o \in Owners |-> NoRequest]

-----------------------------------------------------------------------------
(* lf_advlock: the range of a struct flock, with l_whence SEEK_SET; the    *)
(* empty set stands for EINVAL and EOVERFLOW.                              *)
RangeOf(l_start, l_len) ==
    CASE l_len = 0 -> {[lf_start |-> l_start, lf_end |-> EOF]}
      [] l_len > 0 -> IF l_len - 1 > OFF_MAX - l_start THEN {}
                      ELSE {[lf_start |-> l_start, lf_end |-> l_start + l_len - 1]}
      [] l_len < 0 -> IF l_start = 0 \/ l_start + l_len < 0 THEN {}
                      ELSE {[lf_start |-> l_start + l_len, lf_end |-> l_start - 1]}

(* flock(2) always means the whole file. *)
Ranges(o) ==
    IF o \in Flockers THEN RangeOf(0, 0)
    ELSE {r \in UNION {RangeOf(s, l) : s \in 0..OFF_MAX, l \in -OFF_MAX..OFF_MAX} :
             r.lf_end <= MaxEnd}

Lock(o, type, r) ==
    [lf_id |-> o, lf_type |-> type, lf_start |-> r.lf_start, lf_end |-> r.lf_end, lf_blkhd |-> <<>>]

-----------------------------------------------------------------------------
(* lf_findoverlap *)

Before(a, b)   == a.lf_end # EOF /\ b.lf_start > a.lf_end
Overlap(a, b)  == ~Before(a, b) /\ ~Before(b, a)

(* The least index in found, or the one behind the list. *)
FirstOf(found, list) == Min(found \cup {Len(list) + 1})

(* SELF stops at an own lock behind the range: own locks are sorted. *)
FindSelf(list, lock, i) ==
    FirstOf({j \in i..Len(list) : list[j].lf_id = lock.lf_id
                /\ (Overlap(list[j], lock) \/ Before(lock, list[j]))}, list)

OverlapCase(o, lock) ==
    CASE ~Overlap(o, lock) -> 0
      [] o.lf_start = lock.lf_start /\ o.lf_end = lock.lf_end -> 1
      [] o.lf_start <= lock.lf_start /\ lock.lf_end # EOF
            /\ (o.lf_end >= lock.lf_end \/ o.lf_end = EOF)
            /\ ~(o.lf_start = lock.lf_start /\ o.lf_end = lock.lf_end) -> 2
      [] OTHER -> IF lock.lf_start <= o.lf_start
                        /\ (lock.lf_end = EOF \/ (o.lf_end # EOF /\ lock.lf_end >= o.lf_end)) THEN 3
                  ELSE IF o.lf_start < lock.lf_start THEN 4 ELSE 5

CaseAt(list, lock, j) == IF j > Len(list) THEN 0 ELSE OverlapCase(list[j], lock)

(* lf_getblock: the first lock of another owner that blocks the request. *)
Conflicts(a, b) == a.lf_id # b.lf_id /\ Overlap(a, b) /\ "F_WRLCK" \in {a.lf_type, b.lf_type}

lf_getblock(list, lock) == FirstOf({j \in 1..Len(list) : Conflicts(list[j], lock)}, list)

(* The list with the locks of parts in the place of list[j]. *)
Splice(list, j, parts) == SubSeq(list, 1, j - 1) \o parts \o SubSeq(list, j + 1, Len(list))

(* x + 1 as an off_t, which overflows to the least off_t. *)
NextOffset(x) == IF x = OFF_MAX THEN -OFF_MAX - 1 ELSE x + 1

(* What is left of a lock on either side of the range of another. *)
LeftPart(o, lock)  == [o EXCEPT !.lf_end = lock.lf_start - 1, !.lf_blkhd = <<>>]
RightPart(o, lock) == [o EXCEPT !.lf_start = NextOffset(lock.lf_end), !.lf_blkhd = <<>>]

(* Mutant: the right part begins one byte too early. *)
SplitOverlaps(list, j, lock2, keep) ==
    LET lock1 == list[j]
        right == [lock1 EXCEPT !.lf_start = lock2.lf_end, !.lf_blkhd = <<>>]
    IN  Splice(list, j, (IF lock1.lf_start = lock2.lf_start THEN <<>> ELSE <<LeftPart(lock1, lock2)>>)
                        \o (IF keep THEN <<lock2>> ELSE <<>>)
                        \o (IF lock1.lf_end = lock2.lf_end THEN <<>> ELSE <<right>>))

(* Mutant: the left part keeps the requests that were blocked on the lock. *)
SplitKeepsBlkhd(list, j, lock2, keep) ==
    LET lock1 == list[j]
        left  == [lock1 EXCEPT !.lf_end = lock2.lf_start - 1]
    IN  Splice(list, j, (IF lock1.lf_start = lock2.lf_start THEN <<>> ELSE <<left>>)
                        \o (IF keep THEN <<lock2>> ELSE <<>>)
                        \o (IF lock1.lf_end = lock2.lf_end THEN <<>> ELSE <<RightPart(lock1, lock2)>>))

(* Mutant: the right part is not linked into the list. *)
SplitLosesRight(list, j, lock2, keep) ==
    LET lock1 == list[j]
    IN  Splice(list, j, (IF lock1.lf_start = lock2.lf_start THEN <<>> ELSE <<LeftPart(lock1, lock2)>>)
                        \o (IF keep THEN <<lock2>> ELSE <<>>))

(* lf_split: what is left of the list when lock2, or nothing, takes the    *)
(* inner part of list[j].                                                  *)
lf_split(list, j, lock2, keep) ==
    LET lock1 == list[j]
    IN  Splice(list, j, (IF lock1.lf_start = lock2.lf_start THEN <<>> ELSE <<LeftPart(lock1, lock2)>>)
                        \o (IF keep THEN <<lock2>> ELSE <<>>)
                        \o (IF lock1.lf_end = lock2.lf_end THEN <<>> ELSE <<RightPart(lock1, lock2)>>))

-----------------------------------------------------------------------------
(* The loops of lf_setlock and lf_clearlock: the list, where the lock is   *)
(* in it (0: needtolink), where to look on, who is woken by lf_wakelock,   *)
(* and whether the loop has been left.                                     *)
LoopStart(list) == [list |-> list, at |-> 0, from |-> 1, woken |-> {}, done |-> FALSE]

Leave(s, list, woken) == [s EXCEPT !.list = list, !.woken = woken, !.done = TRUE]

(* lf_setlock, the case of the first own lock that overlaps, if any. *)
SetRound(s, lock) ==
    LET j == FindSelf(s.list, lock, s.from)
        o == s.list[j]
        c == CaseAt(s.list, lock, j)
        woken == s.woken \cup ToSet(o.lf_blkhd)
        downgrade == lock.lf_type = "F_RDLCK" /\ o.lf_type = "F_WRLCK"
        taken  == IF downgrade THEN <<>> ELSE o.lf_blkhd
        woken3 == IF downgrade THEN woken ELSE s.woken
    IN  CASE c = 0 -> Leave(s, IF s.at = 0 THEN InsertAt(s.list, j, lock) ELSE s.list, s.woken)
          [] c = 1 -> Leave(s, Splice(s.list, j, <<[o EXCEPT !.lf_type = lock.lf_type, !.lf_blkhd = taken]>>),
                            woken3)
          [] c = 2 -> IF o.lf_type = lock.lf_type THEN Leave(s, s.list, s.woken)
                      ELSE Leave(s, lf_split(s.list, j, lock, TRUE), woken)
          [] c = 3 -> IF s.at = 0
                      THEN [s EXCEPT !.list = Splice(@, j, <<[lock EXCEPT !.lf_blkhd = taken]>>),
                                     !.at = j, !.from = j + 1, !.woken = woken3]
                      ELSE [s EXCEPT !.list = Splice([s.list EXCEPT ![s.at].lf_blkhd = @ \o taken], j, <<>>),
                                     !.from = j, !.woken = woken3]
          [] c = 4 -> [s EXCEPT !.list = Splice(@, j, <<LeftPart(o, lock), lock>>),
                                !.at = j + 1, !.from = j + 2, !.woken = woken]
          [] c = 5 -> Leave(s, Splice(s.list, j, (IF s.at = 0 THEN <<lock>> ELSE <<>>)
                                                 \o <<RightPart(o, lock)>>), woken)

(* lf_clearlock *)
ClearRound(s, unlock) ==
    LET j == FindSelf(s.list, unlock, s.from)
        o == s.list[j]
        c == CaseAt(s.list, unlock, j)
        woken == s.woken \cup ToSet(o.lf_blkhd)
    IN  CASE c = 0 -> Leave(s, s.list, s.woken)
          [] c = 1 -> Leave(s, Splice(s.list, j, <<>>), woken)
          [] c = 2 -> Leave(s, lf_split(s.list, j, unlock, FALSE), woken)
          [] c = 3 -> [s EXCEPT !.list = Splice(@, j, <<>>), !.from = j, !.woken = woken]
          [] c = 4 -> [s EXCEPT !.list = Splice(@, j, <<LeftPart(o, unlock)>>), !.from = j + 1, !.woken = woken]
          [] c = 5 -> Leave(s, Splice(s.list, j, <<RightPart(o, unlock)>>), woken)

Round(s, lock) ==
    IF s.done THEN s ELSE IF lock.lf_type = "F_UNLCK" THEN ClearRound(s, lock) ELSE SetRound(s, lock)

(* Each round but the last passes a lock of the list. *)
Loop(list, lock) ==
    LET after[n \in 0..Len(list) + 1] == IF n = 0 THEN LoopStart(list) ELSE Round(after[n - 1], lock)
    IN  after[Len(list) + 1]

-----------------------------------------------------------------------------
(* The lock whose list a blocked request is on: its lf_next. *)
WaitsOn(o) == SelectInSeq(lf, LAMBDA l : o \in ToSet(l.lf_blkhd))

NeverDeadlock(o, b) == FALSE   \* mutant: no deadlock is looked for

(* The deadlock check of a request of o that list[b] blocks: it looks at   *)
(* what the owner of that lock waits for, and never gets any further.      *)
Deadlock(o, b) ==
    LET wproc == lf[b].lf_id
    IN  /\ {o, wproc} \cap Flockers = {}
        /\ pc[wproc] = "asleep"
        /\ lf[WaitsOn(wproc)].lf_id = o

(* wakeup(): the woken threads that still sleep. *)
Woken(p, w) == [o \in Owners |-> IF o \in w /\ p[o] = "asleep" THEN "woken" ELSE p[o]]

(* lf_setlock, in each round of its loop: what it leaves when it returns,  *)
(* or sleeps.                                                              *)
lf_setlock(o, lock) ==
    LET b == lf_getblock(lf, lock)
        placed == Loop(lf, lock)
        freed == IF o \in Flockers /\ lock.lf_type = "F_WRLCK"
                 THEN Loop(lf, [lock EXCEPT !.lf_type = "F_UNLCK"])
                 ELSE LoopStart(lf)
        idle == [pc EXCEPT ![o] = "idle"]
        asked == [lf_type |-> lock.lf_type, lf_start |-> lock.lf_start, lf_end |-> lock.lf_end]
    IN  CASE b > Len(lf) ->
               [lf |-> placed.list, pc |-> Woken(idle, placed.woken), req |-> [req EXCEPT ![o] = NoRequest]]
          [] b <= Len(lf) /\ Deadlock(o, b) ->
               [lf |-> lf, pc |-> idle, req |-> [req EXCEPT ![o] = NoRequest]]
          [] OTHER ->
               [lf |-> [freed.list EXCEPT ![lf_getblock(freed.list, lock)].lf_blkhd = Append(@, o)],
                pc |-> [Woken(pc, freed.woken) EXCEPT ![o] = "asleep"],
                req |-> [req EXCEPT ![o] = asked]]

(* lf_clearlock, for an owner that is not in a call. *)
lf_clearlock(o, r) ==
    LET s == Loop(lf, Lock(o, "F_UNLCK", r))
    IN  [lf |-> s.list, pc |-> Woken(pc, s.woken), req |-> req]

Leaves(outcome) == lf' = outcome.lf /\ pc' = outcome.pc /\ req' = outcome.req

(* F_SETLK with F_WAIT; without it a request that is blocked fails and     *)
(* changes nothing, and one that is not blocked is the same.               *)
SetLock(o, type, r) ==
    pc[o] = "idle" /\ Len(lf) < MaxLocks /\ Leaves(lf_setlock(o, Lock(o, type, r)))

(* F_UNLCK *)
Unlock(o, r) == pc[o] = "idle" /\ Leaves(lf_clearlock(o, r))

(* A signal ends tsleep(); the request is still on a list. *)
Signal(o) ==
    /\ pc[o] = "asleep"
    /\ pc' = [pc EXCEPT ![o] = "signalled"]
    /\ UNCHANGED <<lf, req>>

(* Back from tsleep(): with an error the request is taken off its list,    *)
(* else it has been taken off and tries again.                             *)
Interrupted(o) ==
    /\ pc[o] = "signalled"
    /\ lf' = [i \in DOMAIN lf |-> [lf[i] EXCEPT !.lf_blkhd = Dequeued(@, {o})]]
    /\ pc' = [pc EXCEPT ![o] = "idle"]
    /\ req' = [req EXCEPT ![o] = NoRequest]

Retry(o) == pc[o] = "woken" /\ Leaves(lf_setlock(o, Lock(o, req[o].lf_type, req[o])))

Next ==
    \E o \in Owners :
        \/ \E type \in Types, r \in Ranges(o) : SetLock(o, type, r)
        \/ \E r \in Ranges(o) : Unlock(o, r)
        \/ Signal(o) \/ Interrupted(o) \/ Retry(o)

Spec == Init /\ [][Next]_vars

-----------------------------------------------------------------------------
(* Properties. *)

(* The locks of an owner are sorted and do not overlap, which               *)
(* lf_findoverlap() relies on when it stops at the first lock behind the   *)
(* range, and their ranges are not empty.                                  *)
OwnLocksSorted ==
    /\ \A i, j \in DOMAIN lf : i < j /\ lf[i].lf_id = lf[j].lf_id => Before(lf[i], lf[j])
    /\ \A i \in DOMAIN lf : lf[i].lf_end = EOF \/ lf[i].lf_start <= lf[i].lf_end

(* No wakeup is lost: a request that sleeps is on the list of exactly one  *)
(* lock, and that lock, as it is now, conflicts with it, however it was    *)
(* split, shrunk, merged, upgraded or downgraded since the request came.   *)
WaitersBlocked ==
    \A o \in Owners :
        pc[o] = "asleep" =>
            /\ Cardinality({i \in DOMAIN lf : o \in ToSet(lf[i].lf_blkhd)}) = 1
            /\ Conflicts(lf[WaitsOn(o)], Lock(o, req[o].lf_type, req[o]))

WaitsFor(o) == lf[WaitsOn(o)].lf_id

Asleep == {o \in Owners \ Flockers : pc[o] = "asleep"}

(* Two processes never sleep on each other's locks. *)
NoMutualWait == \A o \in Asleep : WaitsFor(o) \in Asleep => WaitsFor(WaitsFor(o)) # o

(* No three processes either ("cycles that involve us"). *)
NoWaitCycle ==
    \A o \in Asleep :
        WaitsFor(o) \in Asleep /\ WaitsFor(WaitsFor(o)) \in Asleep =>
            WaitsFor(WaitsFor(WaitsFor(o))) # o

(* The bytes of the file. *)
Bytes == 0..OFF_MAX

Covers(l, b) == l.lf_start <= b /\ (l.lf_end = EOF \/ b <= l.lf_end)

BytesOf(r) == {b \in Bytes : Covers(r, b)}

(* The types that o holds byte b with, by the locks of a list. *)
OwnLocks(list, o) == {i \in DOMAIN list : list[i].lf_id = o}

HeldIn(list) ==
    [o \in Owners |->
        LET own == OwnLocks(list, o)
        IN  [b \in Bytes |-> {list[i].lf_type : i \in {j \in own : Covers(list[j], b)}}]]

Intervals == {BytesOf(r) : r \in UNION {Ranges(o) : o \in Owners}}

Bytewise == INSTANCE LockfSpec WITH held <- HeldIn(lf)

(* A call does to the bytes of the range it names, and to no other, what   *)
(* fcntl.2 and flock.2 say of that owner, type and range, whatever locks   *)
(* are there: a request when it comes and when it is tried again, whether  *)
(* it is granted, waits or is refused, and an unlock.                      *)
CallsDoAsAsked ==
    LET held == HeldIn(lf)
        Sets(o, type, r) ==
            HeldIn(lf_setlock(o, Lock(o, type, r)).lf) = Bytewise!Requested(held, o, type, BytesOf(r))
        Clears(o, r) == HeldIn(lf_clearlock(o, r).lf) = Bytewise!Cleared(held, o, BytesOf(r))
    IN  \A o \in Owners :
            /\ pc[o] = "idle" =>
                  \A r \in Ranges(o) : Clears(o, r) /\ \A type \in Types : Sets(o, type, r)
            /\ pc[o] = "woken" => Sets(o, req[o].lf_type, req[o])

(* The list of ranges implements the table of bytes: besides what each     *)
(* call does, no step does anything to what is held that a call could not. *)
ImplementsBytes == Bytewise!Spec /\ []CallsDoAsAsked

=============================================================================
