---------------------------- MODULE TurnstileProofs ----------------------------
(***************************************************************************)
(* Proofs about Turnstile, for every set of threads, mutexes and chains.   *)
(*                                                                         *)
(* The first part is about the lock words: LockSafe is an invariant, and   *)
(* with it the mutexes exclude, count their recursion, and implement       *)
(* MutexSpec.  LockSafe does not mention the turnstiles: whatever the      *)
(* queues hold, a word changes owner only by an atomic operation on it or  *)
(* under the chain lock.                                                   *)
(*                                                                         *)
(* The second part is about the turnstiles: TurnstileInv is an invariant,  *)
(* and with it no wakeup is lost, a word released as contested has an      *)
(* heir, and every turnstile is in one place.  Most actions leave the      *)
(* queues alone (LightStep) or only reorder them (the lemmas after it);    *)
(* turnstile_wait() and turnstile_signal() change them, and have their     *)
(* effect stated once, by JoinFacts and SignalFacts.                       *)
(*                                                                         *)
(* The third part is about priorities: PriInv is an invariant on top of    *)
(* TurnstileInv, and with it an owner is as urgent as its first waiter and *)
(* gives a borrowed priority back.                                         *)
(***************************************************************************)
EXTENDS Turnstile, QueueLemmas, TLAPS


-----------------------------------------------------------------------------
(* The lock words the code compares with and stores, field by field. *)
LEMMA WordFacts ==
    /\ MTX_UNOWNED \in Word /\ MTX_UNOWNED.owner = Null
    /\ MTX_UNOWNED.contested = 0 /\ MTX_UNOWNED.recursed = 0
    /\ MTX_CONTESTED \in Word /\ MTX_CONTESTED.owner = Null
    /\ MTX_CONTESTED.contested = 1 /\ MTX_CONTESTED.recursed = 0
    /\ \A td \in Threads :
          /\ OwnedBy(td) \in Word /\ OwnedBy(td).owner = td
          /\ OwnedBy(td).contested = 0 /\ OwnedBy(td).recursed = 0
    /\ \A w \in Word :
          /\ w.owner \in Threads \cup {Null} /\ w.contested \in {0, 1} /\ w.recursed \in {0, 1}
          /\ w.owner = Null /\ w.contested = 0 /\ w.recursed = 0 => w = MTX_UNOWNED
          /\ w.owner = Null /\ w.contested = 1 /\ w.recursed = 0 => w = MTX_CONTESTED
BY DEF Word, Bit, MTX_UNOWNED, MTX_CONTESTED, OwnedBy

(* The stages of mtx_lock() between two looks at the lock word, without    *)
(* the chain lock, and the stages of mtx_unlock() after the release.       *)
Waiting == {"obtain", "lookup", "spin", "block", "prop", "sort", "blocked"}
Released == {"unpendpri", "uswitch", "uyield"}

(* No word changes while a thread moves from one stage of mtx_lock() to    *)
(* another, short of the one that has taken the mutex.                     *)
LEMMA AcquiringMoves ==
    ASSUME LockInv, NEW td \in Threads, UNCHANGED <<mtx_lock, mtx_recurse, held, arg>>,
           pc[td] \in Waiting \cup {"claim", "cmpset", "wait"},
           pc'[td] \in Waiting \cup {"claim", "cmpset", "wait"},
           \A u \in Threads : u # td => pc'[u] = pc[u]
    PROVE  LockInv'
BY DEF LockInv, Owner, Contested, Acquiring, Waiting

(* A thread that only moves on inside mtx_lock() leaves the words safe. *)
LEMMA WaitingMoves ==
    ASSUME LockSafe, NEW td \in Threads, NEW l \in Waiting, pc[td] \in Waiting,
           pc' = [pc EXCEPT ![td] = l], UNCHANGED <<lockVars, tc_lock, arg>>,
           word' \in [Threads -> Word], \A u \in Threads : u # td => word'[u] = word[u]
    PROVE  LockSafe'
<1>1. /\ pc'[td] = l /\ \A u \in Threads : u # td => pc'[u] = pc[u]
      /\ pc' \in [Threads -> PcValues]
  BY DEF LockSafe, LockTypeOK, Waiting, PcValues
<1>2. LockTypeOK'
  BY <1>1 DEF LockSafe, LockTypeOK, lockVars
<1>3. LockInv'
  BY <1>1, AcquiringMoves DEF LockSafe, lockVars
<1>4. ChainInv'
  BY <1>1 DEF LockSafe, ChainInv, Owner, Contested, HoldsChain, lockVars, Waiting
<1> QED BY <1>2, <1>3, <1>4 DEF LockSafe

(* So does a thread that moves on in mtx_unlock() after its release. *)
LEMMA ReleasedMoves ==
    ASSUME LockSafe, NEW td \in Threads, NEW l \in Released \cup {"idle"}, pc[td] \in Released,
           pc' = [pc EXCEPT ![td] = l], UNCHANGED <<lockVars, tc_lock, word>>,
           \/ UNCHANGED arg
           \/ l = "idle" /\ arg' = [arg EXCEPT ![td] = Null]
    PROVE  LockSafe'
<1>1. /\ pc'[td] = l /\ pc' \in [Threads -> PcValues]
      /\ \A u \in Threads : u # td => pc'[u] = pc[u] /\ arg'[u] = arg[u]
      /\ l = "idle" \/ arg'[td] = arg[td]
  BY DEF LockSafe, LockTypeOK, Released, PcValues
<1>2. LockTypeOK'
  BY <1>1 DEF LockSafe, LockTypeOK, lockVars
<1>3. LockInv'
  BY <1>1 DEF LockSafe, LockInv, Owner, Contested, Acquiring, lockVars, Released
<1>4. ChainInv'
  BY <1>1 DEF LockSafe, ChainInv, Owner, Contested, HoldsChain, lockVars, Released
<1> QED BY <1>2, <1>3, <1>4 DEF LockSafe

(* And so does a step that touches none of the variables. *)
LEMMA LockSafeFrame ==
    ASSUME LockSafe, UNCHANGED <<lockVars, tc_lock, pc, arg, word>>
    PROVE  LockSafe'
<1>1. LockTypeOK' BY DEF LockSafe, LockTypeOK, lockVars
<1>2. LockInv' BY DEF LockSafe, LockInv, lockVars, Owner, Contested, Acquiring
<1>3. ChainInv' BY DEF LockSafe, ChainInv, lockVars, Owner, Contested, HoldsChain
<1> QED BY <1>1, <1>2, <1>3 DEF LockSafe

(* A thread takes a mutex whose word is free. *)
LEMMA Takes ==
    ASSUME LockSafe, NEW td \in Threads, NEW m \in Locks, mtx_lock[m] = MTX_UNOWNED,
           \/ pc[td] = "idle" /\ UNCHANGED <<pc, arg>>
           \/ pc[td] = "obtain" /\ arg[td] = m /\ Return(td),
           mtx_lock' = [mtx_lock EXCEPT ![m] = OwnedBy(td)],
           held' = [held EXCEPT ![td][m] = @ + 1],
           UNCHANGED <<mtx_recurse, tc_lock, word>>
    PROVE  LockSafe'
<1> USE ConstantsAssumption, WordFacts DEF LockSafe
<1>1. /\ mtx_lock'[m].owner = td /\ mtx_lock'[m].contested = 0 /\ mtx_lock'[m].recursed = 0
      /\ mtx_lock[m].owner = Null /\ mtx_lock[m].contested = 0
      /\ \A l \in Locks : l # m => mtx_lock'[l] = mtx_lock[l]
      /\ \A u \in Threads, l \in Locks : u # td \/ l # m => held'[u][l] = held[u][l]
      /\ held'[td][m] = held[td][m] + 1
  BY DEF LockTypeOK
<1>2. /\ pc'[td] = "idle" /\ pc[td] \in {"idle", "obtain"}
      /\ \A u \in Threads : u # td => pc'[u] = pc[u] /\ arg'[u] = arg[u]
  BY DEF LockTypeOK, Return, Goto
<1>3. LockTypeOK'
  <2>1. pc' \in [Threads -> PcValues] /\ arg' \in [Threads -> Locks \cup {Null}]
    BY DEF LockTypeOK, PcValues, Return, Goto
  <2>2. mtx_lock' \in [Locks -> Word]
    BY DEF LockTypeOK
  <2>3. held' \in [Threads -> [Locks -> Nat]]
    BY DEF LockTypeOK
  <2> QED BY <2>1, <2>2, <2>3 DEF LockTypeOK
<1>4. \A u \in Threads : held[u][m] = 0
  BY DEF LockInv, LockTypeOK, Owner
<1>5. \A u \in Threads, l \in Locks : held'[u][l] > 0 => mtx_lock'[l].owner = u /\ mtx_recurse'[l] = held'[u][l] - 1
  <2> SUFFICES ASSUME NEW u \in Threads, NEW l \in Locks, held'[u][l] > 0
               PROVE  mtx_lock'[l].owner = u /\ mtx_recurse'[l] = held'[u][l] - 1
    OBVIOUS
  <2>1. CASE l = m
    BY <1>1, <1>4, <2>1 DEF LockInv, Owner, LockTypeOK
  <2>2. CASE l # m
    BY <1>1, <2>2 DEF LockInv, Owner
  <2> QED BY <2>1, <2>2
<1>6. LockInv'
  BY <1>1, <1>2, <1>4, <1>5 DEF LockInv, Owner, Contested, Acquiring
<1>7. ChainInv'
  BY <1>1, <1>2 DEF ChainInv, LockInv, Owner, Contested, HoldsChain
<1> QED BY <1>3, <1>6, <1>7

(* The slow path keeps the chain locked from the lookup on. *)
LEMMA LookupSafe ==
    ASSUME LockSafe, NEW td \in Threads, Lookup(td)
    PROVE  LockSafe'
<1> USE ConstantsAssumption, WordFacts
<1> DEFINE m == arg[td]
<1>1. pc[td] = "lookup" /\ tc_lock[TC_HASH[m]] = Null /\ UNCHANGED <<lockVars, arg>>
  BY DEF Lookup, At
<1>2. m \in Locks /\ mtx_lock[m] \in Word /\ TC_HASH[m] \in Chains
  BY <1>1 DEF LockSafe, LockInv, LockTypeOK
<1>3. CASE mtx_lock[m] = MTX_UNOWNED
  <2>1. pc' = [pc EXCEPT ![td] = "obtain"] /\ UNCHANGED <<tc_lock, word>>
    BY <1>3 DEF Lookup, Goto
  <2> QED BY <1>1, <2>1, WaitingMoves DEF Waiting, LockSafe, LockTypeOK
<1>4. CASE mtx_lock[m] # MTX_UNOWNED
  <2>1. tc_lock' = [tc_lock EXCEPT ![TC_HASH[m]] = td]
    BY <1>4 DEF Lookup
  <2>2. /\ tc_lock'[TC_HASH[m]] = td /\ tc_lock' \in [Chains -> Threads \cup {Null}]
        /\ \A c \in Chains : c # TC_HASH[m] => tc_lock'[c] = tc_lock[c]
    BY <1>2, <2>1 DEF LockSafe, LockTypeOK
  <2>3. /\ pc'[td] \in {"claim", "cmpset"} /\ pc' \in [Threads -> PcValues]
        /\ \A u \in Threads : u # td => pc'[u] = pc[u] /\ word'[u] = word[u]
    BY <1>4, ZenonT(40) DEF Lookup, Goto, LockSafe, LockTypeOK, PcValues
  <2>4. /\ pc'[td] = "claim" => mtx_lock[m] = MTX_CONTESTED
        /\ pc'[td] = "cmpset" => mtx_lock[m] # MTX_CONTESTED /\ word'[td] = mtx_lock[m]
    BY <1>4, <1>1 DEF Lookup, Goto, LockSafe, LockTypeOK
  <2>5. word' \in [Threads -> Word]
    BY <1>2, <1>4 DEF Lookup, LockSafe, LockTypeOK
  <2>6. LockTypeOK'
    BY <1>1, <2>2, <2>3, <2>5 DEF LockSafe, LockTypeOK, lockVars
  <2>7. LockInv'
    BY <1>1, <2>3, AcquiringMoves DEF LockSafe, Waiting, lockVars
  <2>8. pc'[td] = "cmpset" => mtx_lock[m].owner \in Threads \ {td}
    <3>1. mtx_lock[m].owner # td
      <4>1. held[td][m] = 0 BY <1>1 DEF LockSafe, LockInv, Acquiring
      <4>2. mtx_lock[m].owner = td => held[td][m] > 0
        BY <1>1, <1>2 DEF LockSafe, LockInv, Owner
      <4> QED BY <4>1, <4>2
    <3>2. mtx_lock[m].owner = Null => mtx_lock[m] = MTX_CONTESTED
      BY <1>2, <1>4, ZenonT(40) DEF LockSafe, LockInv, Owner
    <3> QED BY <3>1, <3>2, <2>4, <1>2
  <2>9. ChainInv'
    <3> SUFFICES ASSUME NEW u \in Threads PROVE
          /\ pc'[u] \in {"claim", "cmpset", "wait", "unpend"} => tc_lock'[TC_HASH[arg[u]]] = u
          /\ pc'[u] = "claim" => mtx_lock[arg[u]].owner = Null /\ mtx_lock[arg[u]].contested = 1
          /\ pc'[u] = "cmpset" => word'[u].owner \in Threads \ {u}
          /\ pc'[u] = "cmpset" /\ word'[u].contested = 1 =>
                mtx_lock[arg[u]].contested = 1 /\ mtx_lock[arg[u]].owner = word'[u].owner
          /\ pc'[u] = "wait" =>
                mtx_lock[arg[u]].contested = 1 /\ mtx_lock[arg[u]].owner \in Threads \ {u}
      BY <1>1 DEF ChainInv, Owner, Contested, HoldsChain, lockVars
    <3>1. CASE u = td
      BY <3>1, <1>2, <2>2, <2>3, <2>4, <2>8
    <3>2. CASE u # td
      <4>1. pc'[u] = pc[u] /\ word'[u] = word[u] BY <3>2, <2>3
      <4>2. pc[u] \in {"claim", "cmpset", "wait", "unpend"} =>
               arg[u] \in Locks /\ TC_HASH[arg[u]] \in Chains /\ tc_lock[TC_HASH[arg[u]]] = u
        BY ZenonT(40) DEF LockSafe, LockInv, ChainInv, HoldsChain
      <4> QED BY <4>1, <4>2, <1>1, <2>2 DEF LockSafe, ChainInv, Owner, Contested
    <3> QED BY <3>1, <3>2
  <2> QED BY <2>6, <2>7, <2>9 DEF LockSafe
<1> QED BY <1>3, <1>4

(* A thread that holds the chain lock lets go of it, its word becoming     *)
(* another one with the same owner or, for a free contested word, its own. *)
LEMMA ChainReleased ==
    ASSUME LockSafe, NEW td \in Threads, arg[td] \in Locks, tc_lock[TC_HASH[arg[td]]] = td,
           pc'[td] \notin {"claim", "cmpset", "wait", "unpend"},
           \A u \in Threads : u # td => pc'[u] = pc[u] /\ word'[u] = word[u],
           UNCHANGED arg,
           tc_lock' = [tc_lock EXCEPT ![TC_HASH[arg[td]]] = Null],
           \A l \in Locks : l # arg[td] => mtx_lock'[l] = mtx_lock[l]
    PROVE  ChainInv'
<1> USE ConstantsAssumption
<1> SUFFICES ASSUME NEW u \in Threads PROVE
      /\ pc'[u] \in {"claim", "cmpset", "wait", "unpend"} => tc_lock'[TC_HASH[arg[u]]] = u
      /\ pc'[u] = "claim" => mtx_lock'[arg[u]].owner = Null /\ mtx_lock'[arg[u]].contested = 1
      /\ pc'[u] = "cmpset" => word'[u].owner \in Threads \ {u}
      /\ pc'[u] = "cmpset" /\ word'[u].contested = 1 =>
            mtx_lock'[arg[u]].contested = 1 /\ mtx_lock'[arg[u]].owner = word'[u].owner
      /\ pc'[u] = "wait" =>
            mtx_lock'[arg[u]].contested = 1 /\ mtx_lock'[arg[u]].owner \in Threads \ {u}
  BY DEF ChainInv, Owner, Contested, HoldsChain
<1>1. CASE u = td
  BY <1>1
<1>2. CASE u # td
  <2>1. pc'[u] = pc[u] /\ word'[u] = word[u] BY <1>2
  <2>2. pc[u] \in {"claim", "cmpset", "wait", "unpend"} =>
           arg[u] \in Locks /\ TC_HASH[arg[u]] \in Chains /\ tc_lock[TC_HASH[arg[u]]] = u
    BY DEF LockSafe, LockInv, ChainInv, HoldsChain
  <2>3. pc[u] \in {"claim", "cmpset", "wait", "unpend"} =>
           arg[u] # arg[td] /\ mtx_lock'[arg[u]] = mtx_lock[arg[u]] /\ tc_lock'[TC_HASH[arg[u]]] = u
    BY <2>2, <1>2 DEF LockSafe, LockTypeOK
  <2> QED BY <2>1, <2>3 DEF LockSafe, ChainInv, Owner, Contested
<1> QED BY <1>1, <1>2

(* Claiming a free contested word under the chain lock. *)
LEMMA ClaimSafe ==
    ASSUME LockSafe, NEW td \in Threads, Claim(td)
    PROVE  LockSafe'
<1> USE ConstantsAssumption, WordFacts
<1> DEFINE m == arg[td]
<1>1. /\ pc[td] = "claim" /\ UNCHANGED <<mtx_recurse, held, arg, word>>
      /\ pc' = [pc EXCEPT ![td] = "claimpri"] /\ tc_lock' = [tc_lock EXCEPT ![TC_HASH[m]] = Null]
      /\ mtx_lock' = [mtx_lock EXCEPT ![m] = [OwnedBy(td) EXCEPT !.contested = 1]]
  BY DEF Claim, At, Goto
<1>2. m \in Locks /\ TC_HASH[m] \in Chains /\ mtx_lock[m].owner = Null /\ tc_lock[TC_HASH[m]] = td
  BY <1>1 DEF LockSafe, LockInv, ChainInv, Owner, HoldsChain
<1>3. [OwnedBy(td) EXCEPT !.contested = 1] = [owner |-> td, contested |-> 1, recursed |-> 0]
  BY DEF OwnedBy
<1>4. [owner |-> td, contested |-> 1, recursed |-> 0] \in Word
  BY DEF Word, Bit
<1>5. /\ mtx_lock'[m].owner = td /\ mtx_lock'[m].contested = 1 /\ mtx_lock'[m].recursed = 0
      /\ mtx_lock' \in [Locks -> Word] /\ \A l \in Locks : l # m => mtx_lock'[l] = mtx_lock[l]
  BY <1>1, <1>2, <1>3, <1>4 DEF LockSafe, LockTypeOK
<1>6. /\ pc'[td] = "claimpri" /\ pc' \in [Threads -> PcValues]
      /\ \A u \in Threads : u # td => pc'[u] = pc[u]
  BY <1>1 DEF LockSafe, LockTypeOK, PcValues
<1>7. LockTypeOK'
  BY <1>1, <1>2, <1>5, <1>6 DEF LockSafe, LockTypeOK
<1>8. LockInv'
  BY <1>1, <1>2, <1>5, <1>6 DEF LockSafe, LockInv, Owner, Contested, Acquiring, LockTypeOK
<1>9. ChainInv'
  <2>1. /\ pc'[td] \notin {"claim", "cmpset", "wait", "unpend"} /\ UNCHANGED arg
        /\ \A u \in Threads : u # td => pc'[u] = pc[u] /\ word'[u] = word[u]
    BY <1>1, <1>6
  <2> QED BY <1>1, <1>2, <1>5, <2>1, ChainReleased
<1> QED BY <1>7, <1>8, <1>9 DEF LockSafe

(* turnstile_claim() returns to the client. *)
LEMMA ClaimPriSafe ==
    ASSUME LockSafe, NEW td \in Threads, ClaimPri(td)
    PROVE  LockSafe'
<1> USE ConstantsAssumption
<1> DEFINE m == arg[td]
<1>1. /\ pc[td] = "claimpri" /\ UNCHANGED <<mtx_lock, mtx_recurse, tc_lock, word>>
      /\ pc' = [pc EXCEPT ![td] = "idle"] /\ arg' = [arg EXCEPT ![td] = Null]
      /\ held' = [held EXCEPT ![td][m] = @ + 1]
  BY DEF ClaimPri, At, Return, Goto, spinVars
<1>2. m \in Locks /\ mtx_lock[m].owner = td /\ mtx_recurse[m] = 0 /\ held[td][m] = 0
  BY <1>1 DEF LockSafe, LockInv, Owner, Acquiring
<1>3. /\ held'[td][m] = 1 /\ held' \in [Threads -> [Locks -> Nat]]
      /\ \A u \in Threads, l \in Locks : u # td \/ l # m => held'[u][l] = held[u][l]
  BY <1>1, <1>2 DEF LockSafe, LockTypeOK
<1>4. /\ pc'[td] = "idle" /\ pc' \in [Threads -> PcValues] /\ arg' \in [Threads -> Locks \cup {Null}]
      /\ \A u \in Threads : u # td => pc'[u] = pc[u] /\ arg'[u] = arg[u]
  BY <1>1 DEF LockSafe, LockTypeOK, PcValues
<1>5. LockTypeOK'
  BY <1>1, <1>3, <1>4 DEF LockSafe, LockTypeOK
<1>6. LockInv'
  BY <1>1, <1>2, <1>3, <1>4 DEF LockSafe, LockInv, Owner, Contested, Acquiring
<1>7. ChainInv'
  BY <1>1, <1>4 DEF LockSafe, ChainInv, Owner, Contested, HoldsChain
<1> QED BY <1>5, <1>6, <1>7 DEF LockSafe

(* What setting the contested bit does to a word. *)
LEMMA ContestedBit ==
    ASSUME NEW f \in [Locks -> Word], NEW m \in Locks
    PROVE  LET g == [f EXCEPT ![m].contested = 1] IN
           /\ g \in [Locks -> Word]
           /\ g[m].contested = 1 /\ g[m].owner = f[m].owner /\ g[m].recursed = f[m].recursed
           /\ \A l \in Locks : l # m => g[l] = f[l]
BY DEF Word, Bit

(* Marking a word contested changes neither its owner nor its users. *)
LEMMA MarkContested ==
    ASSUME LockSafe, NEW td \in Threads, pc[td] = "cmpset", arg[td] \in Locks,
           mtx_lock' = [mtx_lock EXCEPT ![arg[td]].contested = 1],
           mtx_lock[arg[td]].owner # Null,
           UNCHANGED <<mtx_recurse, held, arg>>, pc'[td] \in {"wait", "spin"},
           \A u \in Threads : u # td => pc'[u] = pc[u]
    PROVE  LockInv' /\ mtx_lock' \in [Locks -> Word]
<1>1. /\ mtx_lock' \in [Locks -> Word]
      /\ mtx_lock'[arg[td]].contested = 1 /\ mtx_lock'[arg[td]].owner = mtx_lock[arg[td]].owner
      /\ mtx_lock'[arg[td]].recursed = mtx_lock[arg[td]].recursed
      /\ \A l \in Locks : l # arg[td] => mtx_lock'[l] = mtx_lock[l]
  BY ContestedBit DEF LockSafe, LockTypeOK
<1>2. \A l \in Locks : /\ mtx_lock'[l].owner = mtx_lock[l].owner
                       /\ mtx_lock'[l].recursed = mtx_lock[l].recursed
                       /\ mtx_lock[l].contested = 1 => mtx_lock'[l].contested = 1
  BY <1>1
<1>3. LockInv'
  BY <1>2 DEF LockSafe, LockInv, Owner, Contested, Acquiring
<1> QED BY <1>1, <1>3

(* The attempt to mark the word contested, whichever way it ends. *)
LEMMA CmpsetSafe ==
    ASSUME LockSafe, NEW td \in Threads, Cmpset(td)
    PROVE  LockSafe'
<1> USE ConstantsAssumption
<1>1. pc[td] = "cmpset" /\ UNCHANGED <<mtx_recurse, held, arg>>
  BY DEF Cmpset, At
<1>2. /\ arg[td] \in Locks /\ TC_HASH[arg[td]] \in Chains /\ tc_lock[TC_HASH[arg[td]]] = td
      /\ word[td].owner \in Threads \ {td} /\ word[td] \in Word /\ MTX_UNOWNED \in Word
  BY <1>1, WordFacts DEF LockSafe, LockInv, ChainInv, HoldsChain, LockTypeOK
<1> DEFINE fails == word[td].contested = 0 /\ mtx_lock[arg[td]] # word[td]
           spins == Adaptive /\ td_state[word[td].owner] = "running"
<1>3. CASE fails
  <2>1. /\ tc_lock' = [tc_lock EXCEPT ![TC_HASH[arg[td]]] = Null] /\ UNCHANGED mtx_lock
        /\ pc' = [pc EXCEPT ![td] = "obtain"] /\ word' = [word EXCEPT ![td] = MTX_UNOWNED]
    BY <1>3 DEF Cmpset, CmpsetFails, Goto
  <2>2. /\ pc'[td] = "obtain" /\ pc' \in [Threads -> PcValues] /\ word' \in [Threads -> Word]
        /\ \A u \in Threads : u # td => pc'[u] = pc[u] /\ word'[u] = word[u]
    BY <1>2, <2>1 DEF LockSafe, LockTypeOK, PcValues
  <2>3. LockTypeOK'
    BY <1>1, <1>2, <2>1, <2>2 DEF LockSafe, LockTypeOK
  <2>4. LockInv'
    BY <1>1, <2>1, <2>2, AcquiringMoves DEF LockSafe, Waiting
  <2>5. ChainInv'
    BY <1>1, <1>2, <2>1, <2>2, ChainReleased
  <2> QED BY <2>3, <2>4, <2>5 DEF LockSafe
<1>4. mtx_lock[arg[td]].owner = word[td].owner \/ fails
  <2>1. CASE word[td].contested = 1
    BY <1>1, <2>1 DEF LockSafe, ChainInv, Owner
  <2>2. CASE word[td].contested = 0
    BY <2>2
  <2> QED BY <1>2, <2>1, <2>2, WordFacts
<1>5. mtx_lock[arg[td]].owner \in Threads \ {td} \/ fails
  BY <1>2, <1>4
<1>6. CASE ~fails /\ spins
  <2>1. /\ tc_lock' = [tc_lock EXCEPT ![TC_HASH[arg[td]]] = Null] /\ UNCHANGED word
        /\ pc' = [pc EXCEPT ![td] = "spin"]
        /\ mtx_lock' = [mtx_lock EXCEPT ![arg[td]].contested = 1]
    BY <1>6 DEF Cmpset, CmpsetFails, Goto
  <2>2. /\ pc'[td] = "spin" /\ pc' \in [Threads -> PcValues]
        /\ \A u \in Threads : u # td => pc'[u] = pc[u]
    BY <2>1 DEF LockSafe, LockTypeOK, PcValues
  <2>3. LockInv' /\ mtx_lock' \in [Locks -> Word]
    BY <1>1, <1>2, <1>5, <1>6, <2>1, <2>2, MarkContested
  <2>4. LockTypeOK'
    BY <1>1, <1>2, <2>1, <2>2, <2>3 DEF LockSafe, LockTypeOK
  <2>5. \A l \in Locks : l # arg[td] => mtx_lock'[l] = mtx_lock[l]
    BY <1>2, <2>1 DEF LockSafe, LockTypeOK
  <2>6. ChainInv'
    BY <1>1, <1>2, <2>1, <2>2, <2>5, ChainReleased
  <2> QED BY <2>3, <2>4, <2>6 DEF LockSafe
<1>7. CASE ~fails /\ ~spins
  <2>1. /\ word' = [word EXCEPT ![td] = MTX_UNOWNED] /\ UNCHANGED tc_lock
        /\ pc' = [pc EXCEPT ![td] = "wait"]
        /\ mtx_lock' = [mtx_lock EXCEPT ![arg[td]].contested = 1]
    BY <1>7 DEF Cmpset, CmpsetFails, Goto
  <2>2. /\ pc'[td] = "wait" /\ pc' \in [Threads -> PcValues] /\ word' \in [Threads -> Word]
        /\ \A u \in Threads : u # td => pc'[u] = pc[u] /\ word'[u] = word[u]
    BY <1>2, <2>1 DEF LockSafe, LockTypeOK, PcValues
  <2>3. LockInv' /\ mtx_lock' \in [Locks -> Word]
    BY <1>1, <1>2, <1>5, <1>7, <2>1, <2>2, MarkContested
  <2>4. LockTypeOK'
    BY <1>1, <1>2, <2>1, <2>2, <2>3 DEF LockSafe, LockTypeOK
  <2>5. /\ \A l \in Locks : l # arg[td] => mtx_lock'[l] = mtx_lock[l]
        /\ mtx_lock'[arg[td]].contested = 1 /\ mtx_lock'[arg[td]].owner \in Threads \ {td}
    BY <1>2, <1>5, <1>7, <2>1, ContestedBit DEF LockSafe, LockTypeOK
  <2>6. ChainInv'
    <3> SUFFICES ASSUME NEW u \in Threads PROVE
          /\ pc'[u] \in {"claim", "cmpset", "wait", "unpend"} => tc_lock[TC_HASH[arg[u]]] = u
          /\ pc'[u] = "claim" => mtx_lock'[arg[u]].owner = Null /\ mtx_lock'[arg[u]].contested = 1
          /\ pc'[u] = "cmpset" => word'[u].owner \in Threads \ {u}
          /\ pc'[u] = "cmpset" /\ word'[u].contested = 1 =>
                mtx_lock'[arg[u]].contested = 1 /\ mtx_lock'[arg[u]].owner = word'[u].owner
          /\ pc'[u] = "wait" =>
                mtx_lock'[arg[u]].contested = 1 /\ mtx_lock'[arg[u]].owner \in Threads \ {u}
      BY <1>1, <2>1 DEF ChainInv, Owner, Contested, HoldsChain
    <3>1. CASE u = td
      BY <3>1, <1>2, <2>2, <2>5
    <3>2. CASE u # td
      <4>1. pc'[u] = pc[u] /\ word'[u] = word[u] BY <3>2, <2>2
      <4>2. pc[u] \in {"claim", "cmpset", "wait", "unpend"} =>
               arg[u] \in Locks /\ tc_lock[TC_HASH[arg[u]]] = u
        BY DEF LockSafe, LockInv, ChainInv, HoldsChain
      <4>3. pc[u] \in {"claim", "cmpset", "wait", "unpend"} => mtx_lock'[arg[u]] = mtx_lock[arg[u]]
        BY <4>2, <1>2, <2>5, <3>2
      <4> QED BY <4>1, <4>2, <4>3 DEF LockSafe, ChainInv, Owner, Contested
    <3> QED BY <3>1, <3>2
  <2> QED BY <2>3, <2>4, <2>6 DEF LockSafe
<1> QED BY <1>3, <1>6, <1>7

(* turnstile_wait() and turnstile_unpend() leave the chain lock. *)
LEMMA WaitSafe ==
    ASSUME LockSafe, NEW td \in Threads, Wait(td)
    PROVE  LockSafe'
<1> USE ConstantsAssumption
<1>1. /\ pc[td] = "wait" /\ UNCHANGED <<mtx_lock, mtx_recurse, held, arg, word>>
      /\ tc_lock' = [tc_lock EXCEPT ![TC_HASH[arg[td]]] = Null]
      /\ pc' = [pc EXCEPT ![td] = "block"]
  BY DEF Wait, At, Goto, lockVars
<1>2. arg[td] \in Locks /\ TC_HASH[arg[td]] \in Chains /\ tc_lock[TC_HASH[arg[td]]] = td
  BY <1>1 DEF LockSafe, LockInv, ChainInv, HoldsChain
<1>3. /\ pc'[td] = "block" /\ pc' \in [Threads -> PcValues]
      /\ \A u \in Threads : u # td => pc'[u] = pc[u]
  BY <1>1 DEF LockSafe, LockTypeOK, PcValues
<1>4. LockTypeOK'
  BY <1>1, <1>2, <1>3 DEF LockSafe, LockTypeOK
<1>5. LockInv'
  BY <1>1, <1>3, AcquiringMoves DEF LockSafe, Waiting
<1>6. ChainInv'
  BY <1>1, <1>2, <1>3, ChainReleased
<1> QED BY <1>4, <1>5, <1>6 DEF LockSafe

(* turnstile_unpend() leaves the chain lock after the mutex is released. *)
LEMMA UnpendSafe ==
    ASSUME LockSafe, NEW td \in Threads, Unpend(td)
    PROVE  LockSafe'
<1> USE ConstantsAssumption
<1>1. /\ pc[td] = "unpend" /\ UNCHANGED <<mtx_lock, mtx_recurse, held, arg, word>>
      /\ tc_lock' = [tc_lock EXCEPT ![TC_HASH[arg[td]]] = Null]
      /\ pc' = [pc EXCEPT ![td] = "unpendpri"]
  BY DEF Unpend, At, Goto, lockVars
<1>2. arg[td] \in Locks /\ TC_HASH[arg[td]] \in Chains /\ tc_lock[TC_HASH[arg[td]]] = td
  BY <1>1 DEF LockSafe, LockInv, ChainInv, HoldsChain
<1>3. /\ pc'[td] = "unpendpri" /\ pc' \in [Threads -> PcValues]
      /\ \A u \in Threads : u # td => pc'[u] = pc[u]
  BY <1>1 DEF LockSafe, LockTypeOK, PcValues
<1>4. LockTypeOK'
  BY <1>1, <1>2, <1>3 DEF LockSafe, LockTypeOK
<1>5. LockInv'
  BY <1>1, <1>3 DEF LockSafe, LockInv, Owner, Contested, Acquiring
<1>6. ChainInv'
  BY <1>1, <1>2, <1>3, ChainReleased
<1> QED BY <1>4, <1>5, <1>6 DEF LockSafe

(* What writing the recursed bit does to a word. *)
LEMMA RecursedBit ==
    ASSUME NEW f \in [Locks -> Word], NEW m \in Locks, NEW b \in {0, 1}, NEW g,
           g = [f EXCEPT ![m].recursed = b]
    PROVE  /\ g \in [Locks -> Word]
           /\ g[m].recursed = b /\ g[m].owner = f[m].owner /\ g[m].contested = f[m].contested
           /\ \A l \in Locks : l # m => g[l] = f[l]
BY DEF Word, Bit

(* The mutex functions as the client calls them. *)
LEMMA MtxLockSafe ==
    ASSUME LockSafe, NEW td \in Threads, NEW m \in Locks, MtxLock(td, m)
    PROVE  LockSafe'
<1> USE ConstantsAssumption
<1>1. pc[td] = "idle" /\ UNCHANGED <<tc_lock, word>>
  BY DEF MtxLock, At, spinVars
<1>2. CASE mtx_lock[m] = MTX_UNOWNED
  <2>1. ~mtx_owned(td, m)
    BY <1>2, WordFacts DEF mtx_owned
  <2>2. /\ mtx_lock' = [mtx_lock EXCEPT ![m] = OwnedBy(td)]
        /\ held' = [held EXCEPT ![td][m] = @ + 1] /\ UNCHANGED <<mtx_recurse, pc, arg>>
    BY <1>2, <2>1 DEF MtxLock
  <2> QED BY <1>1, <1>2, <2>2, Takes
<1>3. CASE mtx_owned(td, m)
  <2>1. /\ mtx_recurse' = [mtx_recurse EXCEPT ![m] = @ + 1]
        /\ mtx_lock' = [mtx_lock EXCEPT ![m].recursed = 1]
        /\ held' = [held EXCEPT ![td][m] = @ + 1] /\ UNCHANGED <<pc, arg>>
    BY <1>3, WordFacts DEF MtxLock, mtx_owned
  <2>2. /\ mtx_lock' \in [Locks -> Word] /\ mtx_lock[m].owner = td
        /\ mtx_lock'[m].recursed = 1 /\ mtx_lock'[m].owner = td
        /\ mtx_lock'[m].contested = mtx_lock[m].contested
        /\ \A l \in Locks : l # m => mtx_lock'[l] = mtx_lock[l]
    <3>1. mtx_lock \in [Locks -> Word] /\ mtx_lock[m].owner = td
      BY <1>3 DEF LockSafe, LockTypeOK, mtx_owned
    <3> QED BY <3>1, <2>1, RecursedBit
  <2>3. /\ held' \in [Threads -> [Locks -> Nat]] /\ mtx_recurse' \in [Locks -> Nat]
        /\ held'[td][m] = held[td][m] + 1 /\ mtx_recurse'[m] = mtx_recurse[m] + 1
        /\ \A u \in Threads, l \in Locks : u # td \/ l # m => held'[u][l] = held[u][l]
        /\ \A l \in Locks : l # m => mtx_recurse'[l] = mtx_recurse[l]
    BY <2>1 DEF LockSafe, LockTypeOK
  <2>4. LockTypeOK'
    BY <1>1, <2>1, <2>2, <2>3 DEF LockSafe, LockTypeOK
  <2>5. held[td][m] > 0 /\ mtx_recurse[m] = held[td][m] - 1 /\ held[td][m] \in Nat
    BY <1>1, <2>2 DEF LockSafe, LockInv, Owner, LockTypeOK
  <2>6. \A u \in Threads : u # td => held[u][m] = 0
    BY <2>2 DEF LockSafe, LockInv, Owner, LockTypeOK
  <2>7. \A u \in Threads : pc[u] \in {"claimpri", "ulookup"} => u # td /\ arg[u] # m
    BY <1>1, <2>2 DEF LockSafe, LockInv, Owner
  <2>8. LockInv'
    <3>1. \A u \in Threads, l \in Locks : held'[u][l] > 0 =>
             mtx_lock'[l].owner = u /\ mtx_recurse'[l] = held'[u][l] - 1
      <4> SUFFICES ASSUME NEW u \in Threads, NEW l \in Locks, held'[u][l] > 0
                   PROVE  mtx_lock'[l].owner = u /\ mtx_recurse'[l] = held'[u][l] - 1
        OBVIOUS
      <4>1. CASE l = m
        BY <4>1, <2>2, <2>3, <2>5, <2>6
      <4>2. CASE l # m
        BY <4>2, <2>2, <2>3 DEF LockSafe, LockInv, Owner
      <4> QED BY <4>1, <4>2
    <3>2. \A l \in Locks : mtx_lock'[l].recursed = 1 <=> mtx_recurse'[l] > 0
      BY <2>2, <2>3, <2>5 DEF LockSafe, LockInv
    <3>3. \A u \in Threads, l \in Locks : mtx_lock'[l].owner = u =>
             held'[u][l] > 0 \/ (pc[u] \in {"claimpri", "ulookup"} /\ arg[u] = l)
      BY <2>2, <2>3, <2>5 DEF LockSafe, LockInv, Owner
    <3>4. \A u \in Threads : Acquiring(u) \/ pc[u] = "ulookup" => held'[u][arg[u]] = 0
      BY <1>1, <2>3 DEF LockSafe, LockInv, Acquiring
    <3>5. \A u \in Threads : pc[u] \in {"claimpri", "ulookup"} =>
             mtx_lock'[arg[u]].owner = u /\ mtx_lock'[arg[u]].contested = 1 /\ mtx_recurse'[arg[u]] = 0
      <4> SUFFICES ASSUME NEW u \in Threads, pc[u] \in {"claimpri", "ulookup"}
                   PROVE  /\ mtx_lock'[arg[u]].owner = u /\ mtx_lock'[arg[u]].contested = 1
                          /\ mtx_recurse'[arg[u]] = 0
        OBVIOUS
      <4>1. /\ arg[u] \in Locks /\ mtx_lock[arg[u]].owner = u /\ mtx_lock[arg[u]].contested = 1
            /\ mtx_recurse[arg[u]] = 0
        BY DEF LockSafe, LockInv, Owner, Contested
      <4> QED BY <4>1, <2>2, <2>3, <2>7
    <3>6. \A l \in Locks : mtx_lock'[l].owner = Null => mtx_lock'[l].recursed = 0 /\ mtx_recurse'[l] = 0
      BY <2>2, <2>3 DEF LockSafe, LockInv, Owner
    <3> QED BY <2>1, <3>1, <3>2, <3>3, <3>4, <3>5, <3>6 DEF LockSafe, LockInv, Owner, Contested, Acquiring
  <2>9. \A l \in Locks : mtx_lock'[l].owner = mtx_lock[l].owner /\ mtx_lock'[l].contested = mtx_lock[l].contested
    BY <2>2
  <2>10. ChainInv'
    BY <1>1, <2>1, <2>9 DEF LockSafe, LockInv, ChainInv, Owner, Contested, HoldsChain
  <2> QED BY <2>4, <2>8, <2>10 DEF LockSafe
<1>4. CASE mtx_lock[m] # MTX_UNOWNED /\ ~mtx_owned(td, m)
  <2>1. /\ pc' = [pc EXCEPT ![td] = "obtain"] /\ arg' = [arg EXCEPT ![td] = m]
        /\ UNCHANGED <<mtx_lock, mtx_recurse, held>>
    BY <1>4 DEF MtxLock, Goto, lockVars
  <2>2. /\ pc'[td] = "obtain" /\ arg'[td] = m
        /\ pc' \in [Threads -> PcValues] /\ arg' \in [Threads -> Locks \cup {Null}]
        /\ \A u \in Threads : u # td => pc'[u] = pc[u] /\ arg'[u] = arg[u]
    BY <2>1 DEF LockSafe, LockTypeOK, PcValues
  <2>3. LockTypeOK'
    BY <1>1, <2>1, <2>2 DEF LockSafe, LockTypeOK
  <2>4. held[td][m] = 0
    BY <1>4 DEF LockSafe, LockInv, LockTypeOK, mtx_owned, Owner
  <2>5. LockInv'
    BY <1>1, <2>1, <2>2, <2>4 DEF LockSafe, LockInv, Owner, Contested, Acquiring
  <2>6. ChainInv'
    BY <1>1, <2>1, <2>2 DEF LockSafe, ChainInv, Owner, Contested, HoldsChain
  <2> QED BY <2>3, <2>5, <2>6 DEF LockSafe
<1> QED BY <1>2, <1>3, <1>4

(* mtx_trylock() takes a free mutex or fails. *)
LEMMA MtxTrylockSafe ==
    ASSUME LockSafe, NEW td \in Threads, NEW m \in Locks, MtxTrylock(td, m)
    PROVE  LockSafe'
BY Takes DEF MtxTrylock, At, spinVars, locals

(* Whoever is not in the word does not hold the mutex. *)
LEMMA OnlyOwnerHolds ==
    ASSUME LockSafe
    PROVE  \A m \in Locks, u \in Threads : mtx_lock[m].owner # u => held[u][m] = 0
BY DEF LockSafe, LockInv, LockTypeOK, Owner

(* A thread gives up the word of a mutex it no longer holds: the word      *)
(* loses its owner, the thread leaves "ulookup", and nobody else holds the *)
(* chain of the mutex.                                                     *)
LEMMA GivesUp ==
    ASSUME LockSafe, NEW td \in Threads, arg[td] \in Locks, mtx_lock[arg[td]].owner = td,
           held[td][arg[td]] = 0, mtx_recurse[arg[td]] = 0, mtx_lock' \in [Locks -> Word],
           mtx_lock'[arg[td]].owner = Null, mtx_lock'[arg[td]].recursed = 0,
           \A l \in Locks : l # arg[td] => mtx_lock'[l] = mtx_lock[l],
           UNCHANGED <<mtx_recurse, held>>,
           \A u \in Threads : u # td => pc'[u] = pc[u] /\ arg'[u] = arg[u],
           \/ pc'[td] = "idle"
           \/ pc'[td] = "unpend" /\ arg'[td] \in Locks
    PROVE  LockInv'
<1> USE ConstantsAssumption
<1>0. LockInv BY DEF LockSafe
<1>1. \A u \in Threads : held[u][arg[td]] = 0
  BY OnlyOwnerHolds
<1>2. \A u \in Threads : u # td /\ pc[u] \in {"claimpri", "ulookup"} => arg[u] # arg[td]
  <2> SUFFICES ASSUME NEW u \in Threads, pc[u] \in {"claimpri", "ulookup"}, arg[u] = arg[td]
               PROVE  u = td
    OBVIOUS
  <2>1. mtx_lock[arg[u]].owner = u BY <1>0 DEF LockInv, Owner
  <2> QED BY <2>1
<1>3. \A u \in Threads, l \in Locks : held[u][l] > 0 =>
         mtx_lock'[l].owner = u /\ mtx_recurse[l] = held[u][l] - 1
  <2> SUFFICES ASSUME NEW u \in Threads, NEW l \in Locks, held[u][l] > 0
               PROVE  mtx_lock'[l].owner = u /\ mtx_recurse[l] = held[u][l] - 1
    OBVIOUS
  <2>1. mtx_lock[l].owner = u /\ mtx_recurse[l] = held[u][l] - 1 BY <1>0 DEF LockInv, Owner
  <2>2. l # arg[td] BY <1>1
  <2> QED BY <2>1, <2>2
<1>4. \A u \in Threads, l \in Locks : mtx_lock'[l].owner = u =>
         held[u][l] > 0 \/ (pc'[u] \in {"claimpri", "ulookup"} /\ arg'[u] = l)
  <2> SUFFICES ASSUME NEW u \in Threads, NEW l \in Locks, mtx_lock'[l].owner = u
               PROVE  held[u][l] > 0 \/ (pc'[u] \in {"claimpri", "ulookup"} /\ arg'[u] = l)
    OBVIOUS
  <2>1. l # arg[td] /\ mtx_lock[l].owner = u
    OBVIOUS
  <2>2. held[u][l] > 0 \/ (pc[u] \in {"claimpri", "ulookup"} /\ arg[u] = l)
    BY <1>0, <2>1 DEF LockInv, Owner
  <2> QED BY <2>1, <2>2
<1>5. \A u \in Threads : pc'[u] \in {"claimpri", "ulookup"} =>
         mtx_lock'[arg'[u]].owner = u /\ mtx_lock'[arg'[u]].contested = 1 /\ mtx_recurse[arg'[u]] = 0
  <2> SUFFICES ASSUME NEW u \in Threads, pc'[u] \in {"claimpri", "ulookup"}
               PROVE  /\ mtx_lock'[arg'[u]].owner = u /\ mtx_lock'[arg'[u]].contested = 1
                      /\ mtx_recurse[arg'[u]] = 0
    OBVIOUS
  <2>1. u # td /\ pc[u] = pc'[u] /\ arg[u] = arg'[u] OBVIOUS
  <2>2. arg[u] \in Locks /\ arg[u] # arg[td] BY <1>0, <1>2, <2>1 DEF LockInv
  <2>3. mtx_lock[arg[u]].owner = u /\ mtx_lock[arg[u]].contested = 1 /\ mtx_recurse[arg[u]] = 0
    BY <1>0, <2>1 DEF LockInv, Owner, Contested
  <2> QED BY <2>1, <2>2, <2>3
<1>6. \A u \in Threads : pc'[u] # "idle" => arg'[u] \in Locks
  BY <1>0 DEF LockInv
<1>7. \A u \in Threads : Acquiring(u)' \/ pc'[u] = "ulookup" => held[u][arg'[u]] = 0
  <2> SUFFICES ASSUME NEW u \in Threads, Acquiring(u)' \/ pc'[u] = "ulookup"
               PROVE  held[u][arg'[u]] = 0
    OBVIOUS
  <2>1. u # td BY DEF Acquiring
  <2>2. pc[u] = pc'[u] /\ arg[u] = arg'[u] BY <2>1
  <2>3. Acquiring(u) \/ pc[u] = "ulookup" BY <2>2 DEF Acquiring
  <2> QED BY <1>0, <2>2, <2>3 DEF LockInv
<1>8. \A l \in Locks : /\ mtx_lock'[l].owner = Null => mtx_lock'[l].recursed = 0 /\ mtx_recurse[l] = 0
                       /\ mtx_lock'[l].recursed = 1 <=> mtx_recurse[l] > 0
  <2> SUFFICES ASSUME NEW l \in Locks
               PROVE  /\ mtx_lock'[l].owner = Null => mtx_lock'[l].recursed = 0 /\ mtx_recurse[l] = 0
                      /\ mtx_lock'[l].recursed = 1 <=> mtx_recurse[l] > 0
    OBVIOUS
  <2>1. CASE l = arg[td] BY <2>1
  <2>2. CASE l # arg[td]
    <3>1. mtx_lock'[l] = mtx_lock[l] BY <2>2
    <3> QED BY <1>0, <3>1 DEF LockInv, Owner
  <2> QED BY <2>1, <2>2
<1>9. mtx_recurse' = mtx_recurse /\ held' = held OBVIOUS
<1> QED BY <1>3, <1>4, <1>5, <1>6, <1>7, <1>8, <1>9 DEF LockInv, Owner, Contested

(* mtx_unlock() of a mutex without a turnstile frees the word. *)
LEMMA UnlockNoSleepersSafe ==
    ASSUME LockSafe, NEW td \in Threads, UnlockNoSleepers(td)
    PROVE  LockSafe'
<1> USE ConstantsAssumption
<1>1. /\ pc[td] = "ulookup" /\ tc_lock[TC_HASH[arg[td]]] = Null
      /\ UNCHANGED <<mtx_recurse, held, tc_lock, word>>
      /\ mtx_lock' = [mtx_lock EXCEPT ![arg[td]] = MTX_UNOWNED]
      /\ pc' = [pc EXCEPT ![td] = "idle"] /\ arg' = [arg EXCEPT ![td] = Null]
  BY DEF UnlockNoSleepers, At, Return, Goto, spinVars
<1>2. /\ arg[td] \in Locks /\ mtx_lock[arg[td]].owner = td /\ held[td][arg[td]] = 0
      /\ mtx_recurse[arg[td]] = 0
  BY <1>1 DEF LockSafe, LockInv, Owner
<1>3. /\ mtx_lock' \in [Locks -> Word] /\ mtx_lock'[arg[td]].owner = Null
      /\ mtx_lock'[arg[td]].recursed = 0
      /\ \A l \in Locks : l # arg[td] => mtx_lock'[l] = mtx_lock[l]
  BY <1>1, <1>2, WordFacts DEF LockSafe, LockTypeOK
<1>4. /\ pc'[td] = "idle" /\ pc' \in [Threads -> PcValues] /\ arg' \in [Threads -> Locks \cup {Null}]
      /\ \A u \in Threads : u # td => pc'[u] = pc[u] /\ arg'[u] = arg[u]
  BY <1>1 DEF LockSafe, LockTypeOK, PcValues
<1>5. LockTypeOK'
  BY <1>1, <1>3, <1>4 DEF LockSafe, LockTypeOK
<1>6. LockInv'
  BY <1>1, <1>2, <1>3, <1>4, GivesUp
<1>7. ChainInv'
  <2>1. \A u \in Threads : pc[u] \in {"claim", "cmpset", "wait", "unpend"} =>
           arg[u] \in Locks /\ arg[u] # arg[td]
    BY <1>1 DEF LockSafe, LockInv, ChainInv, HoldsChain
  <2> QED BY <1>1, <1>3, <1>4, <2>1 DEF LockSafe, ChainInv, Owner, Contested, HoldsChain
<1> QED BY <1>5, <1>6, <1>7 DEF LockSafe

(* mtx_unlock() of a mutex with sleepers leaves an ownerless word. *)
LEMMA UnlockSignalSafe ==
    ASSUME LockSafe, NEW td \in Threads, UnlockSignal(td)
    PROVE  LockSafe'
<1> USE ConstantsAssumption
<1>1. /\ pc[td] = "ulookup" /\ tc_lock[TC_HASH[arg[td]]] = Null
      /\ UNCHANGED <<mtx_recurse, held, word, arg>>
      /\ tc_lock' = [tc_lock EXCEPT ![TC_HASH[arg[td]]] = td]
      /\ pc' = [pc EXCEPT ![td] = "unpend"]
  BY DEF UnlockSignal, At, Goto
<1>2. PICK w \in {MTX_UNOWNED, MTX_CONTESTED} : mtx_lock' = [mtx_lock EXCEPT ![arg[td]] = w]
  BY DEF UnlockSignal, ReleasedWord
<1>3. /\ arg[td] \in Locks /\ mtx_lock[arg[td]].owner = td /\ held[td][arg[td]] = 0
      /\ mtx_recurse[arg[td]] = 0 /\ TC_HASH[arg[td]] \in Chains
  BY <1>1 DEF LockSafe, LockInv, Owner
<1>4. /\ mtx_lock' \in [Locks -> Word] /\ mtx_lock'[arg[td]].owner = Null
      /\ mtx_lock'[arg[td]].recursed = 0
      /\ \A l \in Locks : l # arg[td] => mtx_lock'[l] = mtx_lock[l]
  BY <1>2, <1>3, WordFacts DEF LockSafe, LockTypeOK
<1>5. /\ pc'[td] = "unpend" /\ pc' \in [Threads -> PcValues]
      /\ \A u \in Threads : u # td => pc'[u] = pc[u]
  BY <1>1 DEF LockSafe, LockTypeOK, PcValues
<1>6. /\ tc_lock' \in [Chains -> Threads \cup {Null}] /\ tc_lock'[TC_HASH[arg[td]]] = td
      /\ \A c \in Chains : c # TC_HASH[arg[td]] => tc_lock'[c] = tc_lock[c]
  BY <1>1, <1>3 DEF LockSafe, LockTypeOK
<1>7. LockTypeOK'
  BY <1>1, <1>4, <1>5, <1>6 DEF LockSafe, LockTypeOK
<1>8. LockInv'
  BY <1>1, <1>3, <1>4, <1>5, GivesUp
<1>9. ChainInv'
  <2>1. \A u \in Threads : pc[u] \in {"claim", "cmpset", "wait", "unpend"} =>
           /\ u # td /\ arg[u] \in Locks /\ TC_HASH[arg[u]] \in Chains
           /\ TC_HASH[arg[u]] # TC_HASH[arg[td]] /\ arg[u] # arg[td]
    <3> SUFFICES ASSUME NEW u \in Threads, pc[u] \in {"claim", "cmpset", "wait", "unpend"}
                 PROVE  /\ u # td /\ arg[u] \in Locks /\ TC_HASH[arg[u]] \in Chains
                        /\ TC_HASH[arg[u]] # TC_HASH[arg[td]] /\ arg[u] # arg[td]
      OBVIOUS
    <3>1. arg[u] \in Locks /\ tc_lock[TC_HASH[arg[u]]] = u
      BY DEF LockSafe, LockInv, ChainInv, HoldsChain
    <3> QED BY <3>1, <1>1
  <2>2. \A u \in Threads : pc[u] \in {"claim", "cmpset", "wait", "unpend"} =>
           mtx_lock'[arg[u]] = mtx_lock[arg[u]] /\ tc_lock'[TC_HASH[arg[u]]] = u
    BY <2>1, <1>4, <1>6 DEF LockSafe, ChainInv, HoldsChain
  <2> QED BY <1>1, <1>5, <1>6, <2>2 DEF LockSafe, ChainInv, Owner, Contested, HoldsChain
<1> QED BY <1>7, <1>8, <1>9 DEF LockSafe

(* The client gives a mutex up, or one level of its recursion. *)
LEMMA MtxUnlockSafe ==
    ASSUME LockSafe, NEW td \in Threads, NEW m \in Locks, MtxUnlock(td, m)
    PROVE  LockSafe'
<1> USE ConstantsAssumption
<1>1. /\ pc[td] = "idle" /\ held[td][m] > 0 /\ UNCHANGED <<tc_lock, word>>
      /\ held' = [held EXCEPT ![td][m] = @ - 1]
  BY DEF MtxUnlock, At, spinVars
<1>2. /\ mtx_lock[m].owner = td /\ mtx_recurse[m] = held[td][m] - 1 /\ held[td][m] \in Nat
      /\ \A u \in Threads : u # td => held[u][m] = 0
  BY <1>1 DEF LockSafe, LockInv, Owner, LockTypeOK
<1>3. /\ held' \in [Threads -> [Locks -> Nat]] /\ held'[td][m] = held[td][m] - 1
      /\ \A u \in Threads, l \in Locks : u # td \/ l # m => held'[u][l] = held[u][l]
  BY <1>1, <1>2 DEF LockSafe, LockTypeOK
<1>4. \A u \in Threads : pc[u] \in {"claimpri", "ulookup"} => u # td /\ arg[u] # m
  BY <1>1, <1>2 DEF LockSafe, LockInv, Owner
<1>5. \A u \in Threads : pc[u] \in {"claim", "cmpset", "wait"} => arg[u] \in Locks /\ u # td
  BY <1>1 DEF LockSafe, LockInv
<1>6. CASE mtx_lock[m] = OwnedBy(td)
  <2>1. mtx_lock' = [mtx_lock EXCEPT ![m] = MTX_UNOWNED] /\ UNCHANGED <<mtx_recurse, pc, arg>>
    BY <1>6 DEF MtxUnlock
  <2>2. /\ mtx_lock' \in [Locks -> Word] /\ mtx_lock'[m].owner = Null
        /\ mtx_lock'[m].recursed = 0 /\ mtx_lock[m].contested = 0 /\ mtx_lock[m].recursed = 0
        /\ \A l \in Locks : l # m => mtx_lock'[l] = mtx_lock[l]
    BY <2>1, <1>6, WordFacts DEF LockSafe, LockTypeOK
  <2>3. LockTypeOK'
    BY <1>1, <1>3, <2>1, <2>2 DEF LockSafe, LockTypeOK
  <2>4. mtx_recurse[m] = 0 /\ held'[td][m] = 0
    BY <2>2, <1>2, <1>3 DEF LockSafe, LockInv, LockTypeOK
  <2>5. LockInv'
    <3>1. \A u \in Threads, l \in Locks : held'[u][l] > 0 =>
             mtx_lock'[l].owner = u /\ mtx_recurse[l] = held'[u][l] - 1
      <4> SUFFICES ASSUME NEW u \in Threads, NEW l \in Locks, held'[u][l] > 0
                   PROVE  mtx_lock'[l].owner = u /\ mtx_recurse[l] = held'[u][l] - 1
        OBVIOUS
      <4>1. l # m BY <1>2, <1>3, <2>4
      <4>2. held'[u][l] = held[u][l] /\ mtx_lock'[l] = mtx_lock[l] BY <4>1, <1>3, <2>2
      <4> QED BY <4>2 DEF LockSafe, LockInv, Owner
    <3>2. \A u \in Threads, l \in Locks : mtx_lock'[l].owner = u =>
             held'[u][l] > 0 \/ (pc[u] \in {"claimpri", "ulookup"} /\ arg[u] = l)
      BY <1>3, <2>2, SMTT(30) DEF LockSafe, LockInv, Owner
    <3>3. \A u \in Threads : pc[u] \in {"claimpri", "ulookup"} =>
             /\ mtx_lock'[arg[u]].owner = u /\ mtx_lock'[arg[u]].contested = 1
             /\ mtx_recurse[arg[u]] = 0
      BY <1>4, <2>2 DEF LockSafe, LockInv, Owner, Contested
    <3>4. \A u \in Threads : Acquiring(u) \/ pc[u] = "ulookup" => held'[u][arg[u]] = 0
      BY <1>1, <1>3 DEF LockSafe, LockInv, Acquiring
    <3> QED BY <2>1, <2>2, <2>4, <3>1, <3>2, <3>3, <3>4
         DEF LockSafe, LockInv, Owner, Contested, Acquiring
  <2>6. ChainInv'
    BY <1>1, <1>2, <1>5, <2>1, <2>2 DEF LockSafe, ChainInv, Owner, Contested, HoldsChain
  <2> QED BY <2>3, <2>5, <2>6 DEF LockSafe
<1>7. CASE mtx_lock[m] # OwnedBy(td) /\ mtx_recurse[m] # 0
  <2> DEFINE b == IF mtx_recurse[m] = 1 THEN 0 ELSE mtx_lock[m].recursed
  <2>1. /\ mtx_recurse' = [mtx_recurse EXCEPT ![m] = @ - 1]
        /\ mtx_lock' = [mtx_lock EXCEPT ![m].recursed = b] /\ UNCHANGED <<pc, arg>>
    BY <1>7 DEF MtxUnlock, Unrecursed
  <2>2. mtx_recurse[m] \in Nat /\ mtx_recurse[m] > 0 /\ mtx_lock[m].recursed = 1
    BY <1>7 DEF LockSafe, LockTypeOK, LockInv
  <2>3. b \in {0, 1} /\ (b = 1 <=> mtx_recurse[m] - 1 > 0)
    BY <2>2
  <2> HIDE DEF b
  <2>4. /\ mtx_lock' \in [Locks -> Word] /\ mtx_lock'[m].owner = td
        /\ mtx_lock'[m].recursed = b /\ mtx_lock'[m].contested = mtx_lock[m].contested
        /\ \A l \in Locks : l # m => mtx_lock'[l] = mtx_lock[l]
    <3>1. mtx_lock \in [Locks -> Word] BY DEF LockSafe, LockTypeOK
    <3> QED BY <3>1, <1>2, <2>1, <2>3, RecursedBit
  <2>5. /\ mtx_recurse' \in [Locks -> Nat] /\ mtx_recurse'[m] = mtx_recurse[m] - 1
        /\ \A l \in Locks : l # m => mtx_recurse'[l] = mtx_recurse[l]
    BY <2>1, <2>2 DEF LockSafe, LockTypeOK
  <2>6. LockTypeOK'
    BY <1>1, <1>3, <2>1, <2>4, <2>5 DEF LockSafe, LockTypeOK
  <2>7. LockInv'
    <3>1. \A u \in Threads, l \in Locks : held'[u][l] > 0 =>
             mtx_lock'[l].owner = u /\ mtx_recurse'[l] = held'[u][l] - 1
      <4> SUFFICES ASSUME NEW u \in Threads, NEW l \in Locks, held'[u][l] > 0
                   PROVE  mtx_lock'[l].owner = u /\ mtx_recurse'[l] = held'[u][l] - 1
        OBVIOUS
      <4>1. CASE l = m
        BY <4>1, <1>2, <1>3, <2>4, <2>5
      <4>2. CASE l # m
        BY <4>2, <1>3, <2>4, <2>5 DEF LockSafe, LockInv, Owner
      <4> QED BY <4>1, <4>2
    <3>2. \A l \in Locks : mtx_lock'[l].recursed = 1 <=> mtx_recurse'[l] > 0
      BY <2>3, <2>4, <2>5 DEF LockSafe, LockInv
    <3>3. \A u \in Threads, l \in Locks : mtx_lock'[l].owner = u =>
             held'[u][l] > 0 \/ (pc[u] \in {"claimpri", "ulookup"} /\ arg[u] = l)
      BY <1>2, <1>3, <2>2, <2>4 DEF LockSafe, LockInv, Owner
    <3>4. \A u \in Threads : Acquiring(u) \/ pc[u] = "ulookup" => held'[u][arg[u]] = 0
      BY <1>1, <1>3 DEF LockSafe, LockInv, Acquiring
    <3>5. \A u \in Threads : pc[u] \in {"claimpri", "ulookup"} =>
             /\ mtx_lock'[arg[u]].owner = u /\ mtx_lock'[arg[u]].contested = 1
             /\ mtx_recurse'[arg[u]] = 0
      <4> SUFFICES ASSUME NEW u \in Threads, pc[u] \in {"claimpri", "ulookup"}
                   PROVE  /\ mtx_lock'[arg[u]].owner = u /\ mtx_lock'[arg[u]].contested = 1
                          /\ mtx_recurse'[arg[u]] = 0
        OBVIOUS
      <4>1. /\ arg[u] \in Locks /\ mtx_lock[arg[u]].owner = u /\ mtx_lock[arg[u]].contested = 1
            /\ mtx_recurse[arg[u]] = 0
        BY DEF LockSafe, LockInv, Owner, Contested
      <4> QED BY <4>1, <1>4, <2>4, <2>5
    <3>6. \A l \in Locks : mtx_lock'[l].owner = Null => mtx_lock'[l].recursed = 0 /\ mtx_recurse'[l] = 0
      BY <2>4, <2>5 DEF LockSafe, LockInv, Owner
    <3> QED BY <2>1, <3>1, <3>2, <3>3, <3>4, <3>5, <3>6 DEF LockSafe, LockInv, Owner, Contested, Acquiring
  <2>8. \A l \in Locks : mtx_lock'[l].owner = mtx_lock[l].owner /\ mtx_lock'[l].contested = mtx_lock[l].contested
    BY <1>2, <2>4
  <2>9. ChainInv'
    BY <1>1, <2>1, <2>8 DEF LockSafe, LockInv, ChainInv, Owner, Contested, HoldsChain
  <2> QED BY <2>6, <2>7, <2>9 DEF LockSafe
<1>8. CASE mtx_lock[m] # OwnedBy(td) /\ mtx_recurse[m] = 0
  <2>1. /\ pc' = [pc EXCEPT ![td] = "ulookup"] /\ arg' = [arg EXCEPT ![td] = m]
        /\ UNCHANGED <<mtx_lock, mtx_recurse>>
    BY <1>8 DEF MtxUnlock, Goto
  <2>2. /\ pc'[td] = "ulookup" /\ arg'[td] = m
        /\ pc' \in [Threads -> PcValues] /\ arg' \in [Threads -> Locks \cup {Null}]
        /\ \A u \in Threads : u # td => pc'[u] = pc[u] /\ arg'[u] = arg[u]
    BY <2>1 DEF LockSafe, LockTypeOK, PcValues
  <2>3. LockTypeOK'
    BY <1>1, <1>3, <2>1, <2>2 DEF LockSafe, LockTypeOK
  <2>4. held'[td][m] = 0
    BY <1>2, <1>3, <1>8
  <2>5. mtx_lock[m].contested = 1
    <3>1. mtx_lock[m] \in Word /\ mtx_lock[m].recursed = 0
      BY <1>8, WordFacts DEF LockSafe, LockTypeOK, LockInv
    <3> QED BY <3>1, <1>2, <1>8 DEF Word, Bit, OwnedBy
  <2>6. LockInv'
    <3>1. \A u \in Threads, l \in Locks : held'[u][l] > 0 =>
             mtx_lock[l].owner = u /\ mtx_recurse[l] = held'[u][l] - 1
      BY <1>3, <2>4 DEF LockSafe, LockInv, Owner
    <3>2. \A u \in Threads, l \in Locks : mtx_lock[l].owner = u =>
             held'[u][l] > 0 \/ (pc'[u] \in {"claimpri", "ulookup"} /\ arg'[u] = l)
      BY <1>1, <1>2, <1>3, <2>2 DEF LockSafe, LockInv, Owner
    <3>3. \A u \in Threads : Acquiring(u)' \/ pc'[u] = "ulookup" => held'[u][arg'[u]] = 0
      BY <1>1, <1>3, <2>2, <2>4 DEF LockSafe, LockInv, Acquiring
    <3>4. \A u \in Threads : pc'[u] \in {"claimpri", "ulookup"} =>
             /\ mtx_lock[arg'[u]].owner = u /\ mtx_lock[arg'[u]].contested = 1
             /\ mtx_recurse[arg'[u]] = 0
      BY <1>2, <1>8, <2>2, <2>5 DEF LockSafe, LockInv, Owner, Contested
    <3> QED BY <2>1, <2>2, <3>1, <3>2, <3>3, <3>4 DEF LockSafe, LockInv, Owner, Contested, Acquiring
  <2>7. ChainInv'
    BY <1>1, <2>1, <2>2 DEF LockSafe, ChainInv, Owner, Contested, HoldsChain
  <2> QED BY <2>3, <2>6, <2>7 DEF LockSafe
<1> QED BY <1>6, <1>7, <1>8

-----------------------------------------------------------------------------
(* Every step of the mutex code, of its clients and of the scheduler keeps *)
(* the words safe.                                                         *)
LEMMA LockSafeStep ==
    ASSUME LockSafe, [Next]_vars
    PROVE  LockSafe'
<1>1. CASE UNCHANGED vars
  BY <1>1, LockSafeFrame DEF vars, lockVars, spinVars, locals
<1>2. CASE Next
  <2> PICK td \in Threads :
         Client(td) \/ LockStep(td) \/ UnlockStep(td) \/ Preempt(td) \/ Dispatch(td)
    BY <1>2 DEF Next
  <2>1. CASE Client(td)
    <3> PICK m \in Locks : MtxLock(td, m) \/ MtxTrylock(td, m) \/ MtxUnlock(td, m)
      BY <2>1 DEF Client
    <3> QED BY MtxLockSafe, MtxTrylockSafe, MtxUnlockSafe
  <2>2. CASE Obtain(td)
    <3>1. arg[td] \in Locks /\ pc[td] = "obtain"
      BY <2>2 DEF Obtain, At, LockSafe, LockInv
    <3>2. CASE mtx_lock[arg[td]] = MTX_UNOWNED
      BY <2>2, <3>1, <3>2, Takes DEF Obtain, spinVars
    <3>3. CASE mtx_lock[arg[td]] # MTX_UNOWNED
      <4>1. pc' = [pc EXCEPT ![td] = "lookup"] /\ UNCHANGED <<lockVars, tc_lock, arg, word>>
        BY <2>2, <3>3 DEF Obtain, Goto, spinVars
      <4> QED BY <3>1, <4>1, WaitingMoves DEF Waiting, LockSafe, LockTypeOK
    <3> QED BY <3>2, <3>3
  <2>3. CASE Spin(td)
    <3>1. /\ pc[td] = "spin" /\ pc' = [pc EXCEPT ![td] = "obtain"]
          /\ word' = [word EXCEPT ![td] = MTX_UNOWNED] /\ UNCHANGED <<lockVars, tc_lock, arg>>
      BY <2>3 DEF Spin, At, Goto, spinVars
    <3>2. word' \in [Threads -> Word] /\ \A u \in Threads : u # td => word'[u] = word[u]
      BY <3>1, WordFacts DEF LockSafe, LockTypeOK
    <3> QED BY <3>1, <3>2, WaitingMoves DEF Waiting
  <2>4. CASE Block(td) \/ Propagate(td) \/ Resort(td) \/ Resume(td)
    <3>1. PICK l \in Waiting : pc' = [pc EXCEPT ![td] = l]
      BY <2>4 DEF Block, Propagate, Resort, Resume, Switch, Goto, Waiting
    <3>2. pc[td] \in Waiting /\ UNCHANGED <<lockVars, tc_lock, arg, word>>
      BY <2>4 DEF Block, Propagate, Resort, Resume, At, Waiting, spinVars, locals
    <3> QED BY <3>1, <3>2, WaitingMoves DEF LockSafe, LockTypeOK
  <2>5. CASE Lookup(td) \/ Claim(td) \/ ClaimPri(td) \/ Cmpset(td) \/ Wait(td)
    BY <2>5, LookupSafe, ClaimSafe, ClaimPriSafe, CmpsetSafe, WaitSafe
  <2>6. CASE UnlockNoSleepers(td) \/ UnlockSignal(td) \/ Unpend(td)
    BY <2>6, UnlockNoSleepersSafe, UnlockSignalSafe, UnpendSafe
  <2>7. CASE UnpendPri(td) \/ USwitch(td) \/ UYield(td)
    <3>1. PICK l \in Released \cup {"idle"} :
             /\ pc' = [pc EXCEPT ![td] = l]
             /\ UNCHANGED arg \/ (l = "idle" /\ arg' = [arg EXCEPT ![td] = Null])
      BY <2>7 DEF UnpendPri, USwitch, UYield, Goto, Return, Released
    <3>2. pc[td] \in Released /\ UNCHANGED <<lockVars, tc_lock, word>>
      BY <2>7 DEF UnpendPri, USwitch, UYield, At, Released, spinVars
    <3> QED BY <3>1, <3>2, ReleasedMoves
  <2>8. CASE Preempt(td) \/ Dispatch(td)
    BY <2>8, LockSafeFrame DEF Preempt, Dispatch, lockVars, spinVars, locals
  <2> QED BY <2>1, <2>2, <2>3, <2>4, <2>5, <2>6, <2>7, <2>8 DEF LockStep, UnlockStep
<1> QED BY <1>1, <1>2

(* The lock words are safe in every reachable state. *)
THEOREM LockSafety == Spec => []LockSafe
<1>1. Init => LockSafe
  <2> SUFFICES ASSUME Init PROVE LockSafe
    OBVIOUS
  <2>1. LockTypeOK
    BY ConstantsAssumption, WordFacts DEF Init, LockTypeOK, PcValues
  <2>2. LockInv
    BY ConstantsAssumption, WordFacts DEF Init, LockInv, Owner, Contested, Acquiring
  <2>3. ChainInv
    BY DEF Init, ChainInv
  <2> QED BY <2>1, <2>2, <2>3 DEF LockSafe
<1>2. LockSafe /\ [Next]_vars => LockSafe'
  BY LockSafeStep
<1> QED BY <1>1, <1>2, PTL DEF Spec

(* No two threads are ever between mtx_lock() and mtx_unlock() of the same *)
(* mutex, for any number of threads, mutexes, chains and CPUs, with and    *)
(* without ADAPTIVE_MUTEXES.                                               *)
THEOREM MutualExclusionHolds == Spec => []MutualExclusion
<1>1. LockSafe => MutualExclusion
  BY DEF LockSafe, LockInv, MutualExclusion
<1> QED BY <1>1, LockSafety, PTL

(* The owner, the recursion count and the recursed bit describe the holder *)
(* exactly.                                                                *)
THEOREM WordMatchesHolderHolds == Spec => []WordMatchesHolder
<1>1. LockSafe => WordMatchesHolder
  BY DEF LockSafe, LockInv, WordMatchesHolder, Owner, mtx_owned
<1> QED BY <1>1, LockSafety, PTL

-----------------------------------------------------------------------------
(* The refinement of MutexSpec. *)

(* What the client sees of a step: the counts and the pending requests. *)
LEMMA WantsFrame ==
    ASSUME NEW td \in Threads, pc \in [Threads -> PcValues], arg \in [Threads -> Locks \cup {Null}],
           \A u \in Threads : u # td => pc'[u] = pc[u] /\ arg'[u] = arg[u]
    PROVE  /\ wants' = [wants EXCEPT ![td] = IF Acquiring(td)' THEN arg'[td] ELSE Null]
           /\ wants[td] = IF Acquiring(td) THEN arg[td] ELSE Null
           /\ wants \in [Threads -> Locks \cup {Null}]
BY DEF wants, Acquiring

(* A step of a thread that neither takes nor gives up a mutex, and stays   *)
(* inside, or outside, mtx_lock(), is invisible.                           *)
LEMMA Invisible ==
    ASSUME LockSafe, NEW td \in Threads, UNCHANGED held,
           \A u \in Threads : u # td => pc'[u] = pc[u] /\ arg'[u] = arg[u],
           \/ Acquiring(td) /\ Acquiring(td)' /\ arg'[td] = arg[td]
           \/ ~Acquiring(td) /\ ~Acquiring(td)'
    PROVE  UNCHANGED Mutex!vars
<1>1. wants' = [wants EXCEPT ![td] = wants[td]] /\ wants \in [Threads -> Locks \cup {Null}]
  BY WantsFrame DEF LockSafe, LockTypeOK
<1>2. wants' = wants BY <1>1
<1> QED BY <1>2 DEF Mutex!vars

(* Every step of the code is a step of MutexSpec or leaves its variables   *)
(* alone.                                                                  *)
LEMMA RefinesStep ==
    ASSUME LockSafe, [Next]_vars
    PROVE  [Mutex!Next]_(Mutex!vars)
<1> USE ConstantsAssumption
<1>0. pc \in [Threads -> PcValues] /\ arg \in [Threads -> Locks \cup {Null}]
      /\ held \in [Threads -> [Locks -> Nat]]
  BY DEF LockSafe, LockTypeOK
<1>1. CASE UNCHANGED vars
  BY <1>1 DEF vars, lockVars, locals, wants, Acquiring, Mutex!vars
<1>2. CASE Next
  <2> PICK td \in Threads :
         Client(td) \/ LockStep(td) \/ UnlockStep(td) \/ Preempt(td) \/ Dispatch(td)
    BY <1>2 DEF Next
  <2>1. CASE Client(td)
    <3> PICK m \in Locks : MtxLock(td, m) \/ MtxTrylock(td, m) \/ MtxUnlock(td, m)
      BY <2>1 DEF Client
    <3>0. pc[td] = "idle" /\ ~Acquiring(td) /\ wants[td] = Null
      BY DEF MtxLock, MtxTrylock, MtxUnlock, At, Acquiring, wants
    <3>1. CASE MtxLock(td, m)
      <4>1. CASE mtx_lock[m] = MTX_UNOWNED \/ mtx_owned(td, m)
        <5>1. held' = [held EXCEPT ![td][m] = @ + 1] /\ UNCHANGED <<pc, arg>>
          BY <3>1, <4>1, WordFacts DEF MtxLock, mtx_owned
        <5>2. \A u \in Threads : u # td => held[u][m] = 0
          <6>1. mtx_lock[m].owner \in {Null, td} BY <4>1, WordFacts DEF mtx_owned
          <6> QED BY <6>1, OnlyOwnerHolds
        <5>3. wants' = wants BY <5>1 DEF wants, Acquiring
        <5>4. Mutex!Acquire(td, m) BY <3>0, <5>1, <5>2, <5>3 DEF Mutex!Acquire, Mutex!Free
        <5> QED BY <5>4 DEF Mutex!Next
      <4>2. CASE mtx_lock[m] # MTX_UNOWNED /\ ~mtx_owned(td, m)
        <5>1. /\ pc' = [pc EXCEPT ![td] = "obtain"] /\ arg' = [arg EXCEPT ![td] = m]
              /\ UNCHANGED held
          BY <3>1, <4>2 DEF MtxLock, Goto, lockVars
        <5>2. /\ Acquiring(td)' /\ arg'[td] = m
              /\ \A u \in Threads : u # td => pc'[u] = pc[u] /\ arg'[u] = arg[u]
          BY <1>0, <5>1 DEF Acquiring
        <5>3. wants' = [wants EXCEPT ![td] = m] BY <1>0, <5>2, WantsFrame
        <5>4. held[td][m] = 0 BY <4>2, OnlyOwnerHolds DEF mtx_owned
        <5>5. Mutex!Request(td, m) BY <3>0, <5>1, <5>3, <5>4 DEF Mutex!Request
        <5> QED BY <5>5 DEF Mutex!Next
      <4> QED BY <4>1, <4>2
    <3>2. CASE MtxTrylock(td, m)
      <4>1. held' = [held EXCEPT ![td][m] = @ + 1] /\ UNCHANGED <<pc, arg>> /\ mtx_lock[m] = MTX_UNOWNED
        BY <3>2 DEF MtxTrylock, locals
      <4>2. \A u \in Threads : u # td => held[u][m] = 0
        BY <4>1, WordFacts, OnlyOwnerHolds
      <4>3. wants' = wants BY <4>1 DEF wants, Acquiring
      <4>4. Mutex!Acquire(td, m) BY <3>0, <4>1, <4>2, <4>3 DEF Mutex!Acquire, Mutex!Free
      <4> QED BY <4>4 DEF Mutex!Next
    <3>3. CASE MtxUnlock(td, m)
      <4>1. /\ held' = [held EXCEPT ![td][m] = @ - 1] /\ held[td][m] > 0
            /\ UNCHANGED <<pc, arg>> \/ (pc' = [pc EXCEPT ![td] = "ulookup"] /\ arg' = [arg EXCEPT ![td] = m])
        BY <3>3 DEF MtxUnlock, Goto
      <4>2. ~Acquiring(td)' /\ \A u \in Threads : u # td => pc'[u] = pc[u] /\ arg'[u] = arg[u]
        BY <1>0, <3>0, <4>1 DEF Acquiring
      <4>3. wants' = [wants EXCEPT ![td] = Null] /\ wants \in [Threads -> Locks \cup {Null}]
        BY <1>0, <4>2, WantsFrame
      <4>4. wants' = wants BY <3>0, <4>3
      <4>5. Mutex!Release(td, m) BY <3>0, <4>1, <4>4 DEF Mutex!Release
      <4> QED BY <4>5 DEF Mutex!Next
    <3> QED BY <3>1, <3>2, <3>3
  <2>2. CASE (Obtain(td) /\ mtx_lock[arg[td]] = MTX_UNOWNED) \/ ClaimPri(td)
    <3>1. /\ held' = [held EXCEPT ![td][arg[td]] = @ + 1] /\ pc[td] \in {"obtain", "claimpri"}
          /\ pc' = [pc EXCEPT ![td] = "idle"] /\ arg' = [arg EXCEPT ![td] = Null]
      BY <2>2 DEF Obtain, ClaimPri, At, Return, Goto
    <3>2. arg[td] \in Locks BY <3>1 DEF LockSafe, LockInv
    <3>3. mtx_lock[arg[td]].owner \in {Null, td}
      BY <2>2, <3>1, WordFacts DEF LockSafe, LockInv, Owner, ClaimPri, At
    <3>4. \A u \in Threads : u # td => held[u][arg[td]] = 0
      BY <3>2, <3>3, OnlyOwnerHolds
    <3>5. /\ ~Acquiring(td)' /\ Acquiring(td)
          /\ \A u \in Threads : u # td => pc'[u] = pc[u] /\ arg'[u] = arg[u]
      BY <1>0, <3>1 DEF Acquiring
    <3>6. wants' = [wants EXCEPT ![td] = Null] /\ wants[td] = arg[td]
      BY <1>0, <3>5, WantsFrame
    <3>7. Mutex!Grant(td, arg[td]) BY <3>1, <3>4, <3>6 DEF Mutex!Grant, Mutex!Free
    <3> QED BY <3>2, <3>7 DEF Mutex!Next
  <2>3. CASE \/ Obtain(td) /\ mtx_lock[arg[td]] # MTX_UNOWNED
             \/ Lookup(td) \/ Claim(td) \/ Cmpset(td) \/ Spin(td)
             \/ Wait(td) \/ Block(td) \/ Propagate(td) \/ Resort(td) \/ Resume(td)
    <3>1. PICK l \in PcValues \ {"idle", "ulookup", "unpend", "unpendpri", "uswitch", "uyield"} :
             pc' = [pc EXCEPT ![td] = l]
      <4>1. CASE (Obtain(td) /\ mtx_lock[arg[td]] # MTX_UNOWNED) \/ Lookup(td) \/ Claim(td)
        BY <4>1 DEF Obtain, Lookup, Claim, Goto, PcValues
      <4>2. CASE Cmpset(td) \/ Spin(td) \/ Wait(td) \/ Block(td) \/ Resume(td)
        BY <4>2 DEF Cmpset, Spin, Wait, Block, Resume, Goto, PcValues
      <4>3. CASE Propagate(td) \/ Resort(td)
        BY <4>3 DEF Propagate, Resort, Switch, Goto, PcValues
      <4> QED BY <2>3, <4>1, <4>2, <4>3
    <3>2. pc[td] \in PcValues \ {"idle", "ulookup", "unpend", "unpendpri", "uswitch", "uyield"}
      BY <2>3 DEF Obtain, Lookup, Claim, Cmpset, Spin, Wait, Block, Propagate, Resort, Resume,
                  At, PcValues
    <3>3. UNCHANGED <<held, arg>>
      BY <2>3 DEF Obtain, Lookup, Claim, Cmpset, Spin, Wait, Block, Propagate, Resort, Resume,
                  lockVars, locals
    <3>4. Acquiring(td) /\ Acquiring(td)' /\ \A u \in Threads : u # td => pc'[u] = pc[u]
      BY <1>0, <3>1, <3>2 DEF Acquiring, PcValues
    <3> QED BY <3>3, <3>4, Invisible
  <2>4. CASE UnlockStep(td)
    <3>1. PICK l \in {"idle", "unpend", "unpendpri", "uswitch", "uyield"} : pc' = [pc EXCEPT ![td] = l]
      BY <2>4 DEF UnlockStep, UnlockNoSleepers, UnlockSignal, Unpend, UnpendPri, USwitch, UYield,
                  Return, Goto
    <3>2. pc[td] \in {"ulookup", "unpend", "unpendpri", "uswitch", "uyield"} /\ UNCHANGED held
      BY <2>4 DEF UnlockStep, UnlockNoSleepers, UnlockSignal, Unpend, UnpendPri, USwitch, UYield,
                  At, lockVars
    <3>3. UNCHANGED arg \/ arg' = [arg EXCEPT ![td] = Null]
      BY <2>4 DEF UnlockStep, UnlockNoSleepers, UnlockSignal, Unpend, UnpendPri, USwitch, UYield,
                  Return
    <3>4. /\ ~Acquiring(td) /\ ~Acquiring(td)'
          /\ \A u \in Threads : u # td => pc'[u] = pc[u] /\ arg'[u] = arg[u]
      BY <1>0, <3>1, <3>2, <3>3 DEF Acquiring
    <3> QED BY <3>2, <3>4, Invisible
  <2>5. CASE Preempt(td) \/ Dispatch(td)
    BY <2>5 DEF Preempt, Dispatch, lockVars, locals, wants, Acquiring, Mutex!vars
  <2> QED BY <2>1, <2>2, <2>3, <2>4, <2>5 DEF LockStep
<1> QED BY <1>1, <1>2

(* The lock word, the turnstiles and the scheduler implement MutexSpec:    *)
(* a mutex that mtx_lock() returned with is held by nobody else, on every  *)
(* path through the code.                                                  *)
THEOREM MutexRefinement == Spec => ImplementsMutex
<1>1. Init => Mutex!Init
  BY DEF Init, Mutex!Init, wants, Acquiring
<1>2. LockSafe /\ [Next]_vars => [Mutex!Next]_(Mutex!vars)
  BY RefinesStep
<1> QED BY <1>1, <1>2, LockSafety, PTL DEF Spec, ImplementsMutex, Mutex!Spec

-----------------------------------------------------------------------------
(* The turnstiles: the parts of the inductive invariant. *)

(* The turnstile has a thread in its queue. *)
HasWaiters(ts) == ts_blocked[ts] # <<>>

(* The hash table: a turnstile has waiters exactly while it is hashed, on  *)
(* the chain of its lock, and a lock has one turnstile.                    *)
HashInv ==
    /\ \A c \in Chains : \A ts \in tc_turnstiles[c] :
          ts_lockobj[ts] \in Locks /\ TC_HASH[ts_lockobj[ts]] = c /\ HasWaiters(ts)
    /\ \A ts \in Turnstiles : HasWaiters(ts) =>
          ts_lockobj[ts] \in Locks /\ ts \in tc_turnstiles[TC_HASH[ts_lockobj[ts]]]
    /\ \A ts, t \in Turnstiles :
          HasWaiters(ts) /\ HasWaiters(t) /\ ts_lockobj[ts] = ts_lockobj[t] => ts = t

(* A turnstile is in one place. *)
PlaceInv ==
    /\ \A td, u \in Threads : td_turnstile[td] # Null /\ td_turnstile[td] = td_turnstile[u] => td = u
    /\ \A td \in Threads : td_turnstile[td] # Null => ~HasWaiters(td_turnstile[td])
    /\ \A td \in Threads, t \in Turnstiles : td_turnstile[td] \notin ts_free[t]
    /\ \A t \in Turnstiles : \A ts \in ts_free[t] : ~HasWaiters(ts)
    /\ \A t, u \in Turnstiles : \A ts \in ts_free[t] : ts \in ts_free[u] => t = u

(* A thread has given its turnstile away exactly while it is queued. *)
QueueInv ==
    /\ \A ts \in Turnstiles : IsInjective(ts_blocked[ts])
    /\ \A ts \in Turnstiles : \A td \in Threads : Queued(td, ts) =>
          /\ td_turnstile[td] = Null
          /\ pc[td] \in {"block", "prop", "sort", "blocked"}
          /\ arg[td] = ts_lockobj[ts]
    /\ \A td \in Threads : td_turnstile[td] = Null => \E ts \in Turnstiles : Queued(td, ts)

(* The scheduler's view of a blocked thread. *)
StateInv ==
    /\ \A td \in Threads : td_state[td] = "lock" =>
          td_blocked[td] # Null /\ pc[td] \in {"prop", "sort", "blocked"}
    /\ \A td \in Threads : td_state[td] # "lock" => td_blocked[td] = Null
    /\ \A td \in Threads : td_state[td] = "lock" /\ td_turnstile[td] = Null =>
          Queued(td, td_blocked[td])
    /\ \A td \in Threads : pc[td] = "block" => tsp[td] # Null
    /\ \A td \in Threads : pc[td] = "block" /\ td_turnstile[td] = Null => Queued(td, tsp[td])
    /\ \A td \in Threads : pc[td] = "blocked" /\ td_state[td] # "lock" => td_turnstile[td] # Null
    /\ \A td \in Threads : pc[td] \in {"prop", "sort"} =>
          sched_lock = td /\ td_state[td] = "lock" /\ tsp[td] # Null

(* propagate_priority() reaches the owner's queue through the right chain. *)
SortInv ==
    \A td \in Threads : pc[td] = "sort" =>
        /\ peer[td] # Null /\ tcp[td] \in Chains
        /\ td_state[peer[td]] = "lock" /\ tsp[td] = td_blocked[peer[td]]
        /\ td_turnstile[peer[td]] = Null => tcp[td] = TC_HASH[ts_lockobj[tsp[td]]]

(* The turnstile pointers of threads that hold the chain lock are current. *)
PointerInv ==
    /\ \A td \in Threads : pc[td] \in {"cmpset", "wait"} /\ tsp[td] = Null =>
          \A ts \in Turnstiles : HasWaiters(ts) => ts_lockobj[ts] # arg[td]
    /\ \A td \in Threads : pc[td] \in {"cmpset", "wait"} /\ tsp[td] # Null =>
          HasWaiters(tsp[td]) /\ ts_lockobj[tsp[td]] = arg[td]
    /\ \A td \in Threads : pc[td] = "claim" =>
          tsp[td] # Null /\ HasWaiters(tsp[td]) /\ ts_lockobj[tsp[td]] = arg[td]
    /\ \A td \in Threads : pc[td] = "unpend" =>
          tsp[td] # Null /\ ts_lockobj[tsp[td]] = arg[td]
    /\ \A td \in Threads : pc[td] = "unpend" /\ HasWaiters(tsp[td]) => Owner(arg[td]) = Null
    /\ \A td \in Threads :
          pc[td] \in {"claimpri", "unpend", "unpendpri", "uswitch", "uyield"} => peer[td] # Null

(* A mutex with waiters is marked contested, one released as contested has *)
(* waiters, and the turnstile knows the owner outside turnstile_unpend().  *)
ContestedInv ==
    /\ \A ts \in Turnstiles : HasWaiters(ts) => Contested(ts_lockobj[ts])
    /\ \A ts \in Turnstiles : HasWaiters(ts) =>
          \/ ts_owner[ts] = Owner(ts_lockobj[ts])
          \/ \E u \in Threads : pc[u] = "unpend" /\ tsp[u] = ts
    /\ \A ts \in Turnstiles : ts_owner[ts] # Null /\ ~HasWaiters(ts) =>
          pc[ts_owner[ts]] = "unpend" /\ tsp[ts_owner[ts]] = ts
    /\ \A m \in Locks : Owner(m) = Null /\ Contested(m) =>
          \E ts \in Turnstiles : HasWaiters(ts) /\ ts_lockobj[ts] = m

(* A thread taken off a queue is woken exactly once: it stays in one       *)
(* pending list until it is put on the run queue or told not to block.     *)
WakeInv ==
    /\ \A td \in Threads : Committed(td) /\ td_turnstile[td] # Null => BeingWoken(td)
    /\ \A td \in Threads : BeingWoken(td) => td_turnstile[td] # Null /\ Committed(td)
    /\ \A td \in Threads : td \in tsnoblock => pc[td] = "block" /\ td_turnstile[td] # Null
    /\ \A ts \in Turnstiles, td \in Threads : td \in ts_pending[ts] =>
          \E u \in Threads : pc[u] = "unpend" /\ tsp[u] = ts
    /\ \A u, td \in Threads : td \in pending[u] => pc[u] = "unpendpri"
    /\ \A ts, t \in Turnstiles, td \in Threads :
          td \in ts_pending[ts] /\ td \in ts_pending[t] => ts = t
    /\ \A u, w, td \in Threads : td \in pending[u] /\ td \in pending[w] => u = w
    /\ \A u, td \in Threads, ts \in Turnstiles : ~(td \in pending[u] /\ td \in ts_pending[ts])

(* A hashed turnstile has a spare for every waiter but one, a clean one    *)
(* none, and one without waiters is a thread's own or a spare.             *)
SpareInv ==
    /\ \A ts \in Turnstiles : IsFiniteSet(ts_free[ts])
    /\ \A ts \in Turnstiles : HasWaiters(ts) =>
          Len(ts_blocked[ts]) = Cardinality(ts_free[ts]) + 1
    /\ \A ts \in Turnstiles : ~HasWaiters(ts) => ts_free[ts] = {}
    /\ \A ts \in Turnstiles : ~HasWaiters(ts) =>
          \/ \E td \in Threads : td_turnstile[td] = ts
          \/ \E t \in Turnstiles : ts \in ts_free[t]

(* A turnstile that has lost its last waiter stays attached to its lock    *)
(* only until turnstile_unpend(), and until then its new holder is one of  *)
(* the threads on its pending list.                                        *)
UnpendInv ==
    /\ \A ts \in Turnstiles : ts_lockobj[ts] # Null /\ ~HasWaiters(ts) =>
          \E u \in Threads : pc[u] = "unpend" /\ tsp[u] = ts
    /\ \A u \in Threads : pc[u] = "unpend" /\ ~HasWaiters(tsp[u]) =>
          \E td \in ts_pending[tsp[u]] : td_turnstile[td] = tsp[u]

(* Without ADAPTIVE_MUTEXES a word is contested only for a thread that is  *)
(* in the queue, or holds the chain lock and is about to join it.          *)
SleepersInv ==
    ~Adaptive =>
        \A m \in Locks : Contested(m) =>
            \/ \E ts \in Turnstiles : HasWaiters(ts) /\ ts_lockobj[ts] = m
            \/ \E u \in Threads : pc[u] = "wait" /\ arg[u] = m

(* A word released as contested has an heir. *)
HeirInv ==
    \A m \in Locks : Owner(m) = Null /\ Contested(m) => \E td \in Threads : Heir(td, m)

(* The inductive invariant of the turnstiles. *)
TurnstileInv ==
    /\ TypeOK /\ LockSafe /\ HashInv /\ PlaceInv /\ SpareInv /\ QueueInv /\ StateInv
    /\ SortInv /\ PointerInv /\ ContestedInv /\ UnpendInv /\ SleepersInv /\ WakeInv /\ HeirInv

-----------------------------------------------------------------------------
(* Consequences of the invariant. *)

(* The stages at which a thread may be queued, is about to wake others or  *)
(* hands its turnstile over.                                               *)
Delicate == {"wait", "claim", "block", "prop", "sort", "unpend", "unpendpri"}

(* A thread that is not queued has a turnstile, and nobody is queued with  *)
(* one.                                                                    *)
LEMMA InHand ==
    ASSUME TurnstileInv, NEW td \in Threads
    PROVE  /\ pc[td] \notin {"block", "prop", "sort", "blocked"} => td_turnstile[td] # Null
           /\ td_turnstile[td] # Null => \A ts \in Turnstiles : ~Queued(td, ts)
           /\ \A ts \in Turnstiles : Queued(td, ts) => HasWaiters(ts)
<1>1. \A ts \in Turnstiles : Queued(td, ts) => ts_blocked[ts] # <<>>
  BY ToSetEmpty DEF TurnstileInv, TypeOK, Queued
<1> QED BY <1>1 DEF TurnstileInv, QueueInv, HasWaiters

(* Threads that hold the chain of a mutex are one. *)
LEMMA OneOnChain ==
    ASSUME TurnstileInv, NEW u \in Threads, NEW w \in Threads,
           pc[u] \in {"claim", "cmpset", "wait", "unpend"},
           pc[w] \in {"claim", "cmpset", "wait", "unpend"}, arg[u] = arg[w]
    PROVE  u = w
BY DEF TurnstileInv, LockSafe, ChainInv, HoldsChain

(* Whoever looks at an unlocked chain finds nobody who holds it. *)
LEMMA NobodyOnChain ==
    ASSUME TurnstileInv, NEW u \in Threads, NEW m, tc_lock[TC_HASH[m]] = Null, arg[u] = m
    PROVE  pc[u] \notin {"claim", "cmpset", "wait", "unpend"}
BY ConstantsAssumption DEF TurnstileInv, LockSafe, ChainInv, HoldsChain

(* The lookup returns the turnstile with the waiters for the mutex. *)
LEMMA LookupFinds ==
    ASSUME TurnstileInv, NEW m \in Locks
    PROVE  /\ turnstile_lookup(m) = Null =>
                 \A ts \in Turnstiles : HasWaiters(ts) => ts_lockobj[ts] # m
           /\ turnstile_lookup(m) # Null =>
                 /\ turnstile_lookup(m) \in Turnstiles
                 /\ HasWaiters(turnstile_lookup(m)) /\ ts_lockobj[turnstile_lookup(m)] = m
<1> USE ConstantsAssumption DEF Turnstiles
<1> DEFINE found == {ts \in tc_turnstiles[TC_HASH[m]] : ts_lockobj[ts] = m}
<1>1. turnstile_lookup(m) = IF found = {} THEN Null ELSE CHOOSE ts \in found : TRUE
  BY DEF turnstile_lookup
<1>2. TC_HASH[m] \in Chains /\ tc_turnstiles[TC_HASH[m]] \subseteq Turnstiles
  BY DEF TurnstileInv, TypeOK
<1>3. \A ts \in found : ts \in Turnstiles /\ HasWaiters(ts) /\ ts_lockobj[ts] = m
  BY <1>2 DEF TurnstileInv, HashInv
<1>4. found = {} => \A ts \in Turnstiles : HasWaiters(ts) => ts_lockobj[ts] # m
  BY DEF TurnstileInv, HashInv
<1>5. found # {} => turnstile_lookup(m) \in found
  BY <1>1
<1> HIDE DEF found
<1>6. Null \notin Turnstiles
  OBVIOUS
<1> QED BY <1>1, <1>3, <1>4, <1>5, <1>6

(* A thread about to attach its turnstile finds it as turnstile_alloc()    *)
(* left it, and nobody is unpending it.                                    *)
LEMMA OwnIsClean ==
    ASSUME TurnstileInv, NEW td \in Threads, pc[td] = "wait"
    PROVE  LET own == td_turnstile[td] IN
           /\ own \in Turnstiles
           /\ ts_blocked[own] = <<>> /\ ts_pending[own] = {} /\ ts_free[own] = {}
           /\ ts_lockobj[own] = Null /\ ts_owner[own] = Null
           /\ \A u \in Threads : ~(pc[u] = "unpend" /\ tsp[u] = own)
<1> USE ConstantsAssumption DEF Turnstiles
<1> DEFINE own == td_turnstile[td]
<1>1. own \in Turnstiles /\ own # Null
  BY InHand DEF TurnstileInv, TypeOK
<1>2. ~HasWaiters(own)
  BY <1>1 DEF TurnstileInv, PlaceInv
<1>3. ~Committed(td)
  BY DEF Committed, TurnstileInv, StateInv
<1>4. ASSUME NEW u \in Threads, pc[u] = "unpend", tsp[u] = own PROVE FALSE
  <2>1. PICK h \in ts_pending[own] : td_turnstile[h] = own
    BY <1>2, <1>4 DEF TurnstileInv, UnpendInv
  <2>2. h \in Threads
    BY <1>1, <2>1 DEF TurnstileInv, TypeOK
  <2>3. h = td
    BY <1>1, <2>1, <2>2 DEF TurnstileInv, PlaceInv
  <2>4. BeingWoken(td)
    BY <1>1, <2>1, <2>3 DEF BeingWoken
  <2> QED BY <1>3, <2>4 DEF TurnstileInv, WakeInv
<1>5. ts_pending[own] = {}
  <2>1. ASSUME NEW h \in ts_pending[own] PROVE FALSE
    BY <1>1, <1>4, <2>1 DEF TurnstileInv, WakeInv, TypeOK
  <2> QED BY <2>1
<1>6. ts_free[own] = {}
  BY <1>1, <1>2 DEF TurnstileInv, SpareInv
<1>7. ts_lockobj[own] = Null
  BY <1>1, <1>2, <1>4 DEF TurnstileInv, UnpendInv
<1>8. ts_owner[own] = Null
  BY <1>1, <1>2, <1>4 DEF TurnstileInv, ContestedInv, TypeOK
<1> QED BY <1>1, <1>2, <1>4, <1>5, <1>6, <1>7, <1>8 DEF HasWaiters

-----------------------------------------------------------------------------
(* Steps that leave the turnstiles alone. *)

(* What a step of td leaves to the other threads. *)
OthersStay(td) ==
    \A u \in Threads : u # td =>
        pc'[u] = pc[u] /\ arg'[u] = arg[u] /\ tsp'[u] = tsp[u] /\ peer'[u] = peer[u]

(* No queue gets its first waiter or loses its last one. *)
SameWaiters == \A ts \in Turnstiles : HasWaiters(ts)' <=> HasWaiters(ts)

(* No word becomes free and contested. *)
NoNewCookie ==
    \A m \in Locks : mtx_lock'[m].owner = Null /\ mtx_lock'[m].contested = 1 =>
        mtx_lock[m].owner = Null /\ mtx_lock[m].contested = 1

(* Besides, the words of mutexes with waiters stay with their owners and   *)
(* contested.                                                              *)
WordsStay ==
    /\ \A ts \in Turnstiles : HasWaiters(ts) =>
          /\ mtx_lock'[ts_lockobj[ts]].owner = mtx_lock[ts_lockobj[ts]].owner
          /\ mtx_lock'[ts_lockobj[ts]].contested = 1
    /\ NoNewCookie

(* The thread's own pointers are current after the step. *)
PointersCurrent(td) ==
    /\ pc'[td] \in {"cmpset", "wait"} /\ tsp'[td] = Null =>
          \A ts \in Turnstiles : HasWaiters(ts) => ts_lockobj[ts] # arg'[td]
    /\ pc'[td] \in {"cmpset", "wait", "claim"} /\ tsp'[td] # Null =>
          HasWaiters(tsp'[td]) /\ ts_lockobj[tsp'[td]] = arg'[td]
    /\ pc'[td] = "claim" => tsp'[td] # Null
    /\ pc'[td] \in {"claimpri", "uswitch", "uyield"} => peer'[td] # Null

(* The frame of PointerInv. *)
LEMMA PointerFrame ==
    ASSUME PointerInv, NEW td \in Threads, OthersStay(td), PointersCurrent(td),
           \A u \in Threads : pc[u] = "unpend" /\ HasWaiters(tsp[u]) =>
               mtx_lock'[arg[u]].owner = mtx_lock[arg[u]].owner,
           tsp \in [Threads -> Turnstiles \cup {Null}], tsp' \in [Threads -> Turnstiles \cup {Null}],
           SameWaiters, UNCHANGED ts_lockobj, pc'[td] \notin {"unpend", "unpendpri"}
    PROVE  PointerInv'
<1>1. \A u \in Threads : u # td =>
         pc'[u] = pc[u] /\ arg'[u] = arg[u] /\ tsp'[u] = tsp[u] /\ peer'[u] = peer[u]
  BY DEF OthersStay
<1>2. \A ts \in Turnstiles : ts_blocked'[ts] # <<>> <=> ts_blocked[ts] # <<>>
  BY DEF SameWaiters, HasWaiters
<1>3. \A u \in Threads : tsp[u] # Null => (ts_blocked'[tsp[u]] # <<>> <=> ts_blocked[tsp[u]] # <<>>)
  BY <1>2
<1> SUFFICES ASSUME NEW u \in Threads PROVE
      /\ pc'[u] \in {"cmpset", "wait"} /\ tsp'[u] = Null =>
            \A ts \in Turnstiles : ts_blocked'[ts] # <<>> => ts_lockobj[ts] # arg'[u]
      /\ pc'[u] \in {"cmpset", "wait", "claim"} /\ tsp'[u] # Null =>
            ts_blocked'[tsp'[u]] # <<>> /\ ts_lockobj[tsp'[u]] = arg'[u]
      /\ pc'[u] \in {"claim", "unpend"} => tsp'[u] # Null
      /\ pc'[u] = "unpend" => ts_lockobj[tsp'[u]] = arg'[u]
      /\ pc'[u] = "unpend" /\ ts_blocked'[tsp'[u]] # <<>> => mtx_lock'[arg'[u]].owner = Null
      /\ pc'[u] \in {"claimpri", "unpend", "unpendpri", "uswitch", "uyield"} => peer'[u] # Null
  BY DEF PointerInv, HasWaiters, Owner
<1>4. CASE u = td
  <2>1. /\ pc'[td] \in {"cmpset", "wait"} /\ tsp'[td] = Null =>
              \A ts \in Turnstiles : ts_blocked[ts] # <<>> => ts_lockobj[ts] # arg'[td]
        /\ pc'[td] \in {"cmpset", "wait", "claim"} /\ tsp'[td] # Null =>
              /\ ts_blocked[tsp'[td]] # <<>> /\ tsp'[td] \in Turnstiles
              /\ ts_lockobj[tsp'[td]] = arg'[td]
        /\ pc'[td] = "claim" => tsp'[td] # Null
        /\ pc'[td] \in {"claimpri", "uswitch", "uyield"} => peer'[td] # Null
    BY DEF PointersCurrent, HasWaiters
  <2> QED BY <1>2, <1>4, <2>1
<1>5. CASE u # td
  BY <1>1, <1>2, <1>3, <1>5 DEF PointerInv, HasWaiters, Owner
<1> QED BY <1>4, <1>5

(* The frame of ContestedInv. *)
LEMMA ContestedFrame ==
    ASSUME ContestedInv, NEW td \in Threads, OthersStay(td), WordsStay,
           ts_owner \in [Turnstiles -> Threads \cup {Null}],
           SameWaiters, UNCHANGED <<ts_lockobj, ts_owner>>, pc[td] # "unpend"
    PROVE  ContestedInv'
<1> USE DEF Turnstiles
<1>1. \A ts \in Turnstiles : HasWaiters(ts) => mtx_lock'[ts_lockobj[ts]].contested = 1
  BY DEF WordsStay
<1>2. \A ts \in Turnstiles : HasWaiters(ts) =>
         \/ ts_owner[ts] = mtx_lock'[ts_lockobj[ts]].owner
         \/ \E u \in Threads : pc'[u] = "unpend" /\ tsp'[u] = ts
  BY DEF ContestedInv, WordsStay, OthersStay, Owner
<1>3. \A ts \in Turnstiles : ts_owner[ts] # Null /\ ~HasWaiters(ts) =>
         pc'[ts_owner[ts]] = "unpend" /\ tsp'[ts_owner[ts]] = ts
  BY DEF ContestedInv, OthersStay
<1>4. \A m \in Locks : mtx_lock'[m].owner = Null /\ mtx_lock'[m].contested = 1 =>
         \E ts \in Turnstiles : HasWaiters(ts) /\ ts_lockobj[ts] = m
  BY DEF ContestedInv, WordsStay, NoNewCookie, Owner, Contested
<1> QED BY <1>1, <1>2, <1>3, <1>4 DEF ContestedInv, SameWaiters, Owner, Contested

(* The frame of UnpendInv. *)
LEMMA UnpendFrame ==
    ASSUME UnpendInv, NEW td \in Threads, OthersStay(td), pc[td] # "unpend", pc'[td] # "unpend",
           SameWaiters, UNCHANGED <<ts_lockobj, ts_pending, td_turnstile>>,
           tsp \in [Threads -> Turnstiles \cup {Null}], PointerInv
    PROVE  UnpendInv'
BY DEF UnpendInv, SameWaiters, OthersStay, PointerInv

(* The frame of SleepersInv. *)
LEMMA SleepersFrame ==
    ASSUME SleepersInv, NEW td \in Threads, OthersStay(td), pc[td] # "wait",
           SameWaiters, UNCHANGED ts_lockobj,
           ~Adaptive => \A m \in Locks : mtx_lock'[m].contested = 1 =>
               \/ mtx_lock[m].contested = 1
               \/ pc'[td] = "wait" /\ arg'[td] = m
               \/ \E ts \in Turnstiles : HasWaiters(ts) /\ ts_lockobj[ts] = m
    PROVE  SleepersInv'
<1> SUFFICES ASSUME ~Adaptive, NEW m \in Locks, mtx_lock'[m].contested = 1
             PROVE  \/ \E ts \in Turnstiles : HasWaiters(ts) /\ ts_lockobj[ts] = m
                    \/ \E u \in Threads : pc'[u] = "wait" /\ arg'[u] = m
  BY DEF SleepersInv, Contested, SameWaiters
<1>1. CASE mtx_lock[m].contested = 1
  <2>1. \/ \E ts \in Turnstiles : HasWaiters(ts) /\ ts_lockobj[ts] = m
        \/ \E u \in Threads : pc[u] = "wait" /\ arg[u] = m
    BY <1>1 DEF SleepersInv, Contested
  <2>2. \A u \in Threads : pc[u] = "wait" => pc'[u] = "wait" /\ arg'[u] = arg[u]
    BY DEF OthersStay
  <2> QED BY <2>1, <2>2
<1>2. CASE mtx_lock[m].contested # 1
  BY <1>2
<1> QED BY <1>1, <1>2

(* The frame of WakeInv. *)
LEMMA WakeFrame ==
    ASSUME WakeInv, NEW td \in Threads, OthersStay(td),
           pc[td] \notin {"block", "unpend", "unpendpri"}, pc'[td] # "block",
           \A u \in Threads : td_state'[u] = "lock" <=> td_state[u] = "lock",
           UNCHANGED <<ts_pending, pending, tsnoblock, td_turnstile>>
    PROVE  WakeInv'
<1>0. \A u \in Threads : u # td => pc'[u] = pc[u] /\ tsp'[u] = tsp[u]
  BY DEF OthersStay
<1>1. \A u \in Threads : (Committed(u) <=> Committed(u)') /\ (BeingWoken(u) <=> BeingWoken(u)')
  BY <1>0 DEF Committed, BeingWoken
<1>2. \A u \in Threads : u \in tsnoblock => pc'[u] = "block" /\ td_turnstile[u] # Null
  BY <1>0 DEF WakeInv
<1>3. \A ts \in Turnstiles, u \in Threads : u \in ts_pending[ts] =>
         \E w \in Threads : pc'[w] = "unpend" /\ tsp'[w] = ts
  BY <1>0 DEF WakeInv
<1>4. \A w, u \in Threads : u \in pending[w] => pc'[w] = "unpendpri"
  BY <1>0 DEF WakeInv
<1>5. \A u \in Threads : BeingWoken(u)' => td_turnstile[u] # Null /\ Committed(u)'
  BY <1>1 DEF WakeInv
<1>6. \A u \in Threads : Committed(u)' /\ td_turnstile[u] # Null => BeingWoken(u)'
  BY <1>1 DEF WakeInv
<1> QED BY <1>2, <1>3, <1>4, <1>5, <1>6 DEF WakeInv

(* The frame of HeirInv: a step keeps every heir but perhaps td. *)
LEMMA HeirFrame ==
    ASSUME HeirInv, NEW td \in Threads, OthersStay(td), NoNewCookie,
           \A u \in Threads : td_state'[u] = "lock" <=> td_state[u] = "lock",
           UNCHANGED <<ts_pending, pending, tsnoblock>>,
           pc[td] \notin {"block", "prop", "sort"},
           /\ pc[td] \in {"obtain", "lookup", "claim", "blocked"}
           /\ mtx_lock'[arg[td]].owner = Null /\ mtx_lock'[arg[td]].contested = 1
           => pc'[td] \in {"obtain", "lookup", "claim"} /\ arg'[td] = arg[td]
    PROVE  HeirInv'
<1> SUFFICES ASSUME NEW m \in Locks, mtx_lock'[m].owner = Null, mtx_lock'[m].contested = 1
             PROVE  \E u \in Threads : Heir(u, m)'
  BY DEF HeirInv, Owner, Contested
<1>1. PICK u \in Threads : Heir(u, m)
  BY DEF HeirInv, Owner, Contested, NoNewCookie
<1>2. BeingWoken(u) <=> BeingWoken(u)'
  BY DEF BeingWoken
<1>3. CASE u # td
  BY <1>1, <1>2, <1>3 DEF Heir, OthersStay
<1>4. CASE u = td
  BY <1>1, <1>4 DEF Heir
<1> QED BY <1>3, <1>4

(* A step of a running thread that touches no turnstile keeps the          *)
(* invariant when it leaves the words to the waiters, keeps the thread's   *)
(* own pointers current, and does not stop an heir.                        *)
LEMMA LightStep ==
    ASSUME TurnstileInv, LockSafe', NEW td \in Threads, OthersStay(td), WordsStay, PointersCurrent(td),
           UNCHANGED <<tsVars, td_turnstile, td_blocked, tsnoblock, pending, sched_lock, tcp>>,
           tsp' \in [Threads -> Turnstiles \cup {Null}], peer' \in [Threads -> Threads \cup {Null}],
           td_state' \in [Threads -> {"running", "runq", "lock"}],
           td_priority' \in [Threads -> Nat],
           \A u \in Threads : td_state'[u] = "lock" <=> td_state[u] = "lock",
           td_state[td] # "lock", td_turnstile[td] # Null,
           pc[td] \notin Delicate, pc'[td] \notin (Delicate \cup {"blocked"}) \ {"wait", "claim"},
           ~Adaptive => \A m \in Locks : mtx_lock'[m].contested = 1 =>
               mtx_lock[m].contested = 1 \/ (pc'[td] = "wait" /\ arg'[td] = m),
           /\ pc[td] \in {"obtain", "lookup", "blocked"}
           /\ mtx_lock'[arg[td]].owner = Null /\ mtx_lock'[arg[td]].contested = 1
           => pc'[td] \in {"obtain", "lookup", "claim"} /\ arg'[td] = arg[td]
    PROVE  TurnstileInv'
<1> USE ConstantsAssumption DEF Turnstiles, tsVars
<1>1. ~ \E ts \in Turnstiles : Queued(td, ts)
  BY InHand
<1>2. TypeOK'
  BY DEF TurnstileInv, TypeOK, LockSafe
<1>3. HashInv' /\ PlaceInv' /\ SpareInv'
  BY DEF TurnstileInv, HashInv, PlaceInv, SpareInv, HasWaiters
<1>4. QueueInv'
  BY <1>1 DEF TurnstileInv, QueueInv, Queued, OthersStay
<1>5. StateInv'
  BY DEF TurnstileInv, StateInv, Queued, Delicate, OthersStay
<1>6. SortInv'
  BY DEF TurnstileInv, SortInv, Delicate, OthersStay
<1>7. PointerInv'
  <2>1. \A u \in Threads : pc[u] = "unpend" /\ HasWaiters(tsp[u]) =>
           mtx_lock'[arg[u]].owner = mtx_lock[arg[u]].owner
    <3>1. \A u \in Threads : pc[u] = "unpend" =>
             tsp[u] \in Turnstiles /\ ts_lockobj[tsp[u]] = arg[u]
      BY DEF TurnstileInv, PointerInv, TypeOK
    <3> QED BY <3>1 DEF WordsStay
  <2> QED BY <2>1, PointerFrame DEF SameWaiters, HasWaiters, TurnstileInv, Delicate, TypeOK
<1>8. ContestedInv'
  BY ContestedFrame DEF SameWaiters, HasWaiters, TurnstileInv, Delicate, TypeOK
<1>9. UnpendInv'
  BY UnpendFrame DEF SameWaiters, HasWaiters, TurnstileInv, Delicate, TypeOK
<1>10. SleepersInv'
  BY SleepersFrame DEF SameWaiters, HasWaiters, TurnstileInv, Delicate
<1>11. WakeInv'
  BY WakeFrame DEF TurnstileInv, Delicate
<1>12. HeirInv'
  BY HeirFrame DEF TurnstileInv, Delicate, WordsStay
<1> QED BY <1>2, <1>3, <1>4, <1>5, <1>6, <1>7, <1>8, <1>9, <1>10, <1>11, <1>12 DEF TurnstileInv

(* Changing the word of a mutex that is not contested. *)
LEMMA PlainWord ==
    ASSUME TurnstileInv, NEW m \in Locks, NEW w \in Word,
           mtx_lock[m].contested = 0, w.contested = 0, mtx_lock' = [mtx_lock EXCEPT ![m] = w]
    PROVE  /\ WordsStay
           /\ \A l \in Locks : mtx_lock'[l].contested = 1 => l # m /\ mtx_lock'[l] = mtx_lock[l]
<1>1. mtx_lock'[m] = w /\ \A l \in Locks : l # m => mtx_lock'[l] = mtx_lock[l]
  BY DEF TurnstileInv, LockSafe, LockTypeOK
<1>2. \A ts \in Turnstiles : HasWaiters(ts) =>
         /\ ts_lockobj[ts] \in Locks /\ ts_lockobj[ts] # m
         /\ mtx_lock[ts_lockobj[ts]].contested = 1
  BY DEF TurnstileInv, HashInv, ContestedInv, Contested
<1> QED BY <1>1, <1>2 DEF WordsStay, NoNewCookie

(* Changing a word without changing its owner or its contested bit. *)
LEMMA SameOwner ==
    ASSUME TurnstileInv,
           \A l \in Locks : /\ mtx_lock'[l].owner = mtx_lock[l].owner
                            /\ mtx_lock'[l].contested = mtx_lock[l].contested
    PROVE  WordsStay
BY DEF TurnstileInv, HashInv, ContestedInv, Contested, WordsStay, NoNewCookie

(* A running thread that is not on its way into or out of a queue has a    *)
(* turnstile.                                                              *)
LEMMA RunningHas ==
    ASSUME TurnstileInv, NEW td \in Threads, td_state[td] = "running",
           pc[td] \notin {"block", "prop", "sort"}
    PROVE  td_turnstile[td] # Null
BY InHand DEF TurnstileInv, StateInv

(* The calls of the client. *)
LEMMA MtxLockStep ==
    ASSUME TurnstileInv, NEW td \in Threads, NEW m \in Locks, MtxLock(td, m)
    PROVE  TurnstileInv'
<1> USE ConstantsAssumption
<1>1. /\ pc[td] = "idle" /\ td_state[td] = "running"
      /\ UNCHANGED <<spinVars, tsVars, td_turnstile, schedVars, word, tsp, tcp, peer, pending>>
  BY DEF MtxLock, At
<1>2. LockSafe' /\ td_turnstile[td] # Null
  BY <1>1, MtxLockSafe, RunningHas DEF TurnstileInv
<1>3. pc'[td] \in {"idle", "obtain"} /\ OthersStay(td)
  BY <1>1 DEF MtxLock, Goto, OthersStay, TurnstileInv, LockSafe, LockTypeOK
<1>4. WordsStay /\ \A l \in Locks : mtx_lock'[l].contested = 1 => mtx_lock[l].contested = 1
  <2>1. CASE mtx_lock[m] = MTX_UNOWNED
    <3>1. mtx_lock' = [mtx_lock EXCEPT ![m] = OwnedBy(td)]
      BY <2>1, WordFacts DEF MtxLock, mtx_owned
    <3> QED BY <2>1, <3>1, WordFacts, PlainWord
  <2>2. CASE mtx_owned(td, m)
    <3>1. mtx_lock' = [mtx_lock EXCEPT ![m].recursed = 1]
      BY <2>2, WordFacts DEF MtxLock, mtx_owned
    <3>2. \A l \in Locks : /\ mtx_lock'[l].owner = mtx_lock[l].owner
                           /\ mtx_lock'[l].contested = mtx_lock[l].contested
      BY <3>1, RecursedBit DEF TurnstileInv, LockSafe, LockTypeOK
    <3> QED BY <3>2, SameOwner
  <2>3. CASE mtx_lock[m] # MTX_UNOWNED /\ ~mtx_owned(td, m)
    <3>1. UNCHANGED mtx_lock
      BY <2>3 DEF MtxLock, lockVars
    <3> QED BY <3>1, SameOwner
  <2> QED BY <2>1, <2>2, <2>3
<1>5. PointersCurrent(td)
  BY <1>3 DEF PointersCurrent
<1> QED BY <1>1, <1>2, <1>3, <1>4, <1>5, LightStep DEF schedVars, spinVars, TurnstileInv, TypeOK, Delicate

(* mtx_trylock() writes a word without sleepers and touches no turnstile.  *)
LEMMA MtxTrylockStep ==
    ASSUME TurnstileInv, NEW td \in Threads, NEW m \in Locks, MtxTrylock(td, m)
    PROVE  TurnstileInv'
<1> USE ConstantsAssumption
<1>1. /\ pc[td] = "idle" /\ td_state[td] = "running" /\ UNCHANGED pc
      /\ UNCHANGED <<spinVars, tsVars, td_turnstile, schedVars, tsp, tcp, peer, pending>>
  BY DEF MtxTrylock, At, locals
<1>2. LockSafe' /\ td_turnstile[td] # Null
  BY <1>1, MtxTrylockSafe, RunningHas DEF TurnstileInv
<1>3. OthersStay(td)
  BY DEF MtxTrylock, OthersStay, locals
<1>4. WordsStay /\ \A l \in Locks : mtx_lock'[l].contested = 1 => mtx_lock[l].contested = 1
  BY WordFacts, PlainWord DEF MtxTrylock
<1>5. PointersCurrent(td)
  BY <1>1 DEF PointersCurrent
<1> QED BY <1>1, <1>2, <1>3, <1>4, <1>5, LightStep DEF schedVars, spinVars, TurnstileInv, TypeOK, Delicate

(* mtx_unlock() drops a word nobody waits for, or goes on to the turnstiles.*)
LEMMA MtxUnlockStep ==
    ASSUME TurnstileInv, NEW td \in Threads, NEW m \in Locks, MtxUnlock(td, m)
    PROVE  TurnstileInv'
<1> USE ConstantsAssumption
<1>1. /\ pc[td] = "idle" /\ td_state[td] = "running"
      /\ UNCHANGED <<spinVars, tsVars, td_turnstile, schedVars, word, tsp, tcp, peer, pending>>
  BY DEF MtxUnlock, At
<1>2. LockSafe' /\ td_turnstile[td] # Null
  BY <1>1, MtxUnlockSafe, RunningHas DEF TurnstileInv
<1>3. pc'[td] \in {"idle", "ulookup"} /\ OthersStay(td)
  BY <1>1 DEF MtxUnlock, Goto, OthersStay, TurnstileInv, LockSafe, LockTypeOK
<1>4. WordsStay /\ \A l \in Locks : mtx_lock'[l].contested = 1 => mtx_lock[l].contested = 1
  <2>1. CASE mtx_lock[m] = OwnedBy(td)
    <3>1. mtx_lock' = [mtx_lock EXCEPT ![m] = MTX_UNOWNED]
      BY <2>1 DEF MtxUnlock
    <3>2. mtx_lock[m].contested = 0 /\ MTX_UNOWNED \in Word /\ MTX_UNOWNED.contested = 0
      BY <2>1, WordFacts
    <3> QED BY <3>1, <3>2, PlainWord
  <2>2. CASE mtx_lock[m] # OwnedBy(td) /\ mtx_recurse[m] # 0
    <3>1. mtx_lock' = [mtx_lock EXCEPT ![m].recursed = Unrecursed(m)]
      BY <2>2 DEF MtxUnlock
    <3>2. mtx_lock \in [Locks -> Word] /\ Unrecursed(m) \in {0, 1}
      BY WordFacts DEF Unrecursed, TurnstileInv, LockSafe, LockTypeOK
    <3>3. \A l \in Locks : /\ mtx_lock'[l].owner = mtx_lock[l].owner
                           /\ mtx_lock'[l].contested = mtx_lock[l].contested
      BY <3>1, <3>2, RecursedBit
    <3> QED BY <3>3, SameOwner
  <2>3. CASE mtx_lock[m] # OwnedBy(td) /\ mtx_recurse[m] = 0
    <3>1. UNCHANGED mtx_lock
      BY <2>3 DEF MtxUnlock
    <3> QED BY <3>1, SameOwner
  <2> QED BY <2>1, <2>2, <2>3
<1>5. PointersCurrent(td)
  BY <1>3 DEF PointersCurrent
<1> QED BY <1>1, <1>2, <1>3, <1>4, <1>5, LightStep DEF schedVars, spinVars, TurnstileInv, TypeOK, Delicate

(* The stages of _mtx_lock_sleep() that leave the turnstiles alone. *)
LEMMA ObtainStep ==
    ASSUME TurnstileInv, NEW td \in Threads, Obtain(td), LockSafe'
    PROVE  TurnstileInv'
<1> USE ConstantsAssumption
<1>1. /\ pc[td] = "obtain" /\ td_state[td] = "running"
      /\ UNCHANGED <<spinVars, tsVars, td_turnstile, schedVars, word, tsp, tcp, peer, pending>>
  BY DEF Obtain, At
<1>2. td_turnstile[td] # Null /\ arg[td] \in Locks
  BY <1>1, RunningHas DEF TurnstileInv, LockSafe, LockInv
<1>3. pc'[td] \in {"idle", "lookup"} /\ OthersStay(td)
  BY <1>1 DEF Obtain, Return, Goto, OthersStay, TurnstileInv, LockSafe, LockTypeOK
<1>4. /\ WordsStay
      /\ \A l \in Locks : mtx_lock'[l].contested = 1 => mtx_lock[l].contested = 1
      /\ mtx_lock'[arg[td]].owner = Null => pc'[td] = "lookup" /\ arg'[td] = arg[td]
  <2>1. CASE mtx_lock[arg[td]] = MTX_UNOWNED
    <3>1. mtx_lock' = [mtx_lock EXCEPT ![arg[td]] = OwnedBy(td)]
      BY <2>1 DEF Obtain
    <3>2. mtx_lock'[arg[td]].owner # Null
      BY <1>2, <3>1, WordFacts DEF TurnstileInv, LockSafe, LockTypeOK
    <3>3. mtx_lock[arg[td]].contested = 0 /\ OwnedBy(td) \in Word /\ OwnedBy(td).contested = 0
      BY <2>1, WordFacts
    <3>4. WordsStay /\ \A l \in Locks : mtx_lock'[l].contested = 1 => l # arg[td] /\ mtx_lock'[l] = mtx_lock[l]
      BY <1>2, <3>1, <3>3, PlainWord
    <3> QED BY <3>2, <3>4
  <2>2. CASE mtx_lock[arg[td]] # MTX_UNOWNED
    <3>1. UNCHANGED <<mtx_lock, arg>> /\ pc' = [pc EXCEPT ![td] = "lookup"]
      BY <2>2 DEF Obtain, lockVars, Goto
    <3> QED BY <3>1, SameOwner DEF TurnstileInv, LockSafe, LockTypeOK
  <2> QED BY <2>1, <2>2
<1>5. PointersCurrent(td)
  BY <1>3 DEF PointersCurrent
<1> QED BY <1>1, <1>2, <1>3, <1>4, <1>5, LightStep DEF schedVars, spinVars, TurnstileInv, TypeOK, Delicate

(* turnstile_lookup() in the slow path of mtx_lock() finds the turnstile   *)
(* of its mutex, or shows that there is none, with the chain locked.       *)
LEMMA LookupStep ==
    ASSUME TurnstileInv, NEW td \in Threads, Lookup(td)
    PROVE  TurnstileInv'
<1> USE ConstantsAssumption
<1> DEFINE m == arg[td]
<1>1. /\ pc[td] = "lookup" /\ td_state[td] = "running" /\ tc_lock[TC_HASH[m]] = Null
      /\ UNCHANGED <<lockVars, sched_lock, tsVars, td_turnstile, schedVars, arg, tcp, peer, pending>>
  BY DEF Lookup, At
<1>2. LockSafe' /\ td_turnstile[td] # Null /\ m \in Locks
  BY <1>1, LookupSafe, RunningHas DEF TurnstileInv, LockSafe, LockInv
<1>3. turnstile_lookup(m) \in Turnstiles \cup {Null}
  BY <1>2, LookupFinds
<1>4. /\ pc'[td] \in {"obtain", "claim", "cmpset"} /\ OthersStay(td)
      /\ tsp' \in [Threads -> Turnstiles \cup {Null}]
      /\ pc'[td] \in {"claim", "cmpset"} => tsp'[td] = turnstile_lookup(m)
      /\ pc'[td] = "claim" => mtx_lock[m] = MTX_CONTESTED
      /\ pc'[td] = "cmpset" => mtx_lock[m] # MTX_CONTESTED
  <2>1. CASE mtx_lock[m] = MTX_UNOWNED
    <3>1. pc' = [pc EXCEPT ![td] = "obtain"] /\ UNCHANGED tsp
      BY <2>1 DEF Lookup, Goto
    <3> QED BY <1>1, <3>1 DEF OthersStay, TurnstileInv, LockSafe, LockTypeOK, TypeOK
  <2>2. CASE mtx_lock[m] # MTX_UNOWNED
    <3>1. tsp' = [tsp EXCEPT ![td] = turnstile_lookup(m)]
      BY <2>2 DEF Lookup
    <3>2. \/ pc' = [pc EXCEPT ![td] = "claim"] /\ mtx_lock[m] = MTX_CONTESTED
          \/ pc' = [pc EXCEPT ![td] = "cmpset"] /\ mtx_lock[m] # MTX_CONTESTED
      BY <2>2 DEF Lookup, Goto
    <3> QED BY <1>1, <1>3, <3>1, <3>2 DEF OthersStay, TurnstileInv, LockSafe, LockTypeOK, TypeOK
  <2> QED BY <2>1, <2>2
<1>5. WordsStay
  BY <1>1, SameOwner DEF lockVars
<1>6. PointersCurrent(td)
  <2>1. ASSUME mtx_lock[m] = MTX_CONTESTED PROVE turnstile_lookup(m) # Null
    <3>1. \E ts \in Turnstiles : HasWaiters(ts) /\ ts_lockobj[ts] = m
      BY <1>2, <2>1, WordFacts DEF TurnstileInv, ContestedInv, Owner, Contested
    <3> QED BY <1>2, <3>1, LookupFinds
  <2>2. CASE turnstile_lookup(m) = Null
    <3>1. \A ts \in Turnstiles : HasWaiters(ts) => ts_lockobj[ts] # m
      BY <1>2, <2>2, LookupFinds
    <3> QED BY <1>1, <1>4, <2>1, <2>2, <3>1 DEF PointersCurrent
  <2>3. CASE turnstile_lookup(m) # Null
    <3>1. HasWaiters(turnstile_lookup(m)) /\ ts_lockobj[turnstile_lookup(m)] = m
      BY <1>2, <2>3, LookupFinds
    <3> QED BY <1>1, <1>4, <2>3, <3>1 DEF PointersCurrent
  <2> QED BY <2>2, <2>3
<1>7. pc'[td] = "cmpset" => ~(mtx_lock'[m].owner = Null /\ mtx_lock'[m].contested = 1)
  <2>1. mtx_lock[m] \in Word /\ mtx_lock'[m] = mtx_lock[m]
    BY <1>1, <1>2 DEF TurnstileInv, LockSafe, LockTypeOK, lockVars
  <2>2. mtx_lock[m].owner = Null => mtx_lock[m].recursed = 0
    BY <1>2 DEF TurnstileInv, LockSafe, LockInv, Owner
  <2> QED BY <1>4, <2>1, <2>2, WordFacts
<1> QED BY <1>1, <1>2, <1>4, <1>5, <1>6, <1>7, LightStep DEF schedVars, lockVars, TurnstileInv, TypeOK, Delicate

(* The priority a new owner takes over from its waiters concerns no queue. *)
LEMMA ClaimPriStep ==
    ASSUME TurnstileInv, NEW td \in Threads, ClaimPri(td)
    PROVE  TurnstileInv'
<1> USE ConstantsAssumption
<1>1. /\ pc[td] = "claimpri" /\ td_state[td] = "running"
      /\ pc' = [pc EXCEPT ![td] = "idle"] /\ arg' = [arg EXCEPT ![td] = Null]
      /\ peer' = [peer EXCEPT ![td] = Null]
      /\ UNCHANGED <<mtx_lock, mtx_recurse, spinVars, tsVars, td_turnstile, td_blocked,
                     td_state, tsnoblock, word, tsp, tcp, pending>>
  BY DEF ClaimPri, At, Return, Goto
<1>2. LockSafe' /\ td_turnstile[td] # Null
  BY <1>1, ClaimPriSafe, RunningHas DEF TurnstileInv
<1>3. pc'[td] = "idle" /\ OthersStay(td) /\ peer' \in [Threads -> Threads \cup {Null}]
  BY <1>1 DEF OthersStay, TurnstileInv, LockSafe, LockTypeOK, TypeOK
<1>4. td_priority' \in [Threads -> Nat]
  <2>1. peer[td] \in Threads
    BY <1>1 DEF TurnstileInv, TypeOK, PointerInv
  <2> QED BY <2>1 DEF ClaimPri, TurnstileInv, TypeOK
<1>5. WordsStay
  BY <1>1, SameOwner
<1>6. PointersCurrent(td)
  BY <1>3 DEF PointersCurrent
<1> QED BY <1>1, <1>2, <1>3, <1>4, <1>5, <1>6, LightStep DEF spinVars, TurnstileInv, TypeOK, Delicate

(* Marking the word contested leaves the owner, and the pointers taken under*)
(* the chain lock, as they were.                                           *)
LEMMA CmpsetStep ==
    ASSUME TurnstileInv, NEW td \in Threads, Cmpset(td)
    PROVE  TurnstileInv'
<1> USE ConstantsAssumption
<1> DEFINE m == arg[td]
           fails == CmpsetFails(td)
           spins == Adaptive /\ td_state[word[td].owner] = "running"
<1>1. /\ pc[td] = "cmpset" /\ td_state[td] = "running"
      /\ UNCHANGED <<mtx_recurse, held, sched_lock, tsVars, td_turnstile, schedVars, arg, tcp,
                     peer, pending>>
  BY DEF Cmpset, At
<1>2. LockSafe' /\ td_turnstile[td] # Null /\ m \in Locks /\ mtx_lock \in [Locks -> Word]
  BY <1>1, CmpsetSafe, RunningHas DEF TurnstileInv, LockSafe, LockInv, LockTypeOK
<1>3. /\ fails => /\ UNCHANGED mtx_lock /\ pc' = [pc EXCEPT ![td] = "obtain"]
                  /\ tsp' = [tsp EXCEPT ![td] = Null]
      /\ ~fails /\ spins => /\ mtx_lock' = [mtx_lock EXCEPT ![m].contested = 1]
                            /\ pc' = [pc EXCEPT ![td] = "spin"] /\ tsp' = [tsp EXCEPT ![td] = Null]
      /\ ~fails /\ ~spins => /\ mtx_lock' = [mtx_lock EXCEPT ![m].contested = 1]
                             /\ pc' = [pc EXCEPT ![td] = "wait"] /\ UNCHANGED tsp
  BY DEF Cmpset, Goto
<1> HIDE DEF fails, spins
<1>4. /\ pc'[td] = IF fails THEN "obtain" ELSE IF spins THEN "spin" ELSE "wait"
      /\ OthersStay(td) /\ tsp' \in [Threads -> Turnstiles \cup {Null}]
      /\ pc'[td] = "wait" => tsp'[td] = tsp[td]
  <2>1. pc \in [Threads -> PcValues] /\ tsp \in [Threads -> Turnstiles \cup {Null}]
    BY DEF TurnstileInv, LockSafe, LockTypeOK, TypeOK
  <2>2. CASE fails
    BY <1>1, <1>3, <2>1, <2>2 DEF OthersStay
  <2>3. CASE ~fails /\ spins
    BY <1>1, <1>3, <2>1, <2>3 DEF OthersStay
  <2>4. CASE ~fails /\ ~spins
    BY <1>1, <1>3, <2>1, <2>4 DEF OthersStay
  <2> QED BY <2>2, <2>3, <2>4
<1>5. \A l \in Locks : /\ mtx_lock'[l].owner = mtx_lock[l].owner
                       /\ mtx_lock[l].contested = 1 => mtx_lock'[l].contested = 1
                       /\ l # m \/ fails => mtx_lock'[l] = mtx_lock[l]
  <2>1. CASE fails
    BY <1>3, <2>1
  <2>2. CASE ~fails
    <3>1. mtx_lock' = [mtx_lock EXCEPT ![m].contested = 1]
      BY <1>3, <2>2
    <3>2. /\ mtx_lock'[m].contested = 1 /\ mtx_lock'[m].owner = mtx_lock[m].owner
          /\ \A l \in Locks : l # m => mtx_lock'[l] = mtx_lock[l]
      BY <1>2, <3>1, ContestedBit
    <3> QED BY <2>2, <3>2
  <2> QED BY <2>1, <2>2
<1>6. ~fails => mtx_lock[m].owner # Null
  <2> SUFFICES ASSUME ~fails PROVE mtx_lock[m].owner # Null
    OBVIOUS
  <2>1. word[td].contested # 0 => word[td].contested = 1
    BY WordFacts DEF TurnstileInv, LockSafe, LockTypeOK
  <2>2. word[td].owner \in Threads
    BY <1>1 DEF TurnstileInv, LockSafe, ChainInv
  <2>3. mtx_lock[m].owner = word[td].owner
    BY <1>1, <2>1 DEF fails, CmpsetFails, TurnstileInv, LockSafe, ChainInv, Owner
  <2> QED BY <2>2, <2>3
<1>7. WordsStay
  <2>1. \A ts \in Turnstiles : HasWaiters(ts) =>
           ts_lockobj[ts] \in Locks /\ mtx_lock[ts_lockobj[ts]].contested = 1
    BY DEF TurnstileInv, HashInv, ContestedInv, Contested
  <2> QED BY <1>5, <1>6, <2>1 DEF WordsStay, NoNewCookie
<1>8. PointersCurrent(td)
  <2>1. /\ tsp[td] = Null => \A ts \in Turnstiles : HasWaiters(ts) => ts_lockobj[ts] # m
        /\ tsp[td] # Null => HasWaiters(tsp[td]) /\ ts_lockobj[tsp[td]] = m
    BY <1>1 DEF TurnstileInv, PointerInv
  <2> QED BY <1>1, <1>4, <2>1 DEF PointersCurrent
<1>9. ~Adaptive => \A l \in Locks : mtx_lock'[l].contested = 1 =>
         mtx_lock[l].contested = 1 \/ (pc'[td] = "wait" /\ arg'[td] = l)
  BY <1>1, <1>4, <1>5 DEF spins
<1> QED BY <1>1, <1>2, <1>4, <1>7, <1>8, <1>9, LightStep DEF schedVars, TurnstileInv, TypeOK, Delicate

(* Spinning on, and coming back from mi_switch(). *)
LEMMA SpinResumeStep ==
    ASSUME TurnstileInv, NEW td \in Threads, Spin(td) \/ Resume(td), LockSafe'
    PROVE  TurnstileInv'
<1> USE ConstantsAssumption
<1>1. /\ pc[td] \in {"spin", "blocked"} /\ td_state[td] = "running"
      /\ pc' = [pc EXCEPT ![td] = "obtain"]
      /\ UNCHANGED <<lockVars, spinVars, tsVars, td_turnstile, schedVars, arg, tsp, tcp, peer, pending>>
  BY DEF Spin, Resume, At, Goto, locals
<1>2. td_turnstile[td] # Null
  BY <1>1, RunningHas
<1>3. pc'[td] = "obtain" /\ OthersStay(td)
  BY <1>1 DEF OthersStay, TurnstileInv, LockSafe, LockTypeOK
<1>4. WordsStay
  BY <1>1, SameOwner DEF lockVars
<1>5. PointersCurrent(td)
  BY <1>3 DEF PointersCurrent
<1> QED BY <1>1, <1>2, <1>3, <1>4, <1>5, LightStep
        DEF schedVars, spinVars, lockVars, TurnstileInv, TypeOK, Delicate

(* The ends of mtx_unlock(). *)
LEMMA UnlockNoSleepersStep ==
    ASSUME TurnstileInv, NEW td \in Threads, UnlockNoSleepers(td)
    PROVE  TurnstileInv'
<1> USE ConstantsAssumption
<1> DEFINE m == arg[td]
<1>1. /\ pc[td] = "ulookup" /\ td_state[td] = "running" /\ turnstile_lookup(m) = Null
      /\ mtx_lock' = [mtx_lock EXCEPT ![m] = MTX_UNOWNED]
      /\ pc' = [pc EXCEPT ![td] = "idle"] /\ arg' = [arg EXCEPT ![td] = Null]
      /\ UNCHANGED <<spinVars, tsVars, td_turnstile, schedVars, tsp, tcp, peer, pending>>
  BY DEF UnlockNoSleepers, At, Return, Goto
<1>2. LockSafe' /\ td_turnstile[td] # Null /\ m \in Locks
  BY <1>1, UnlockNoSleepersSafe, RunningHas DEF TurnstileInv, LockSafe, LockInv
<1>3. pc'[td] = "idle" /\ OthersStay(td)
  BY <1>1 DEF OthersStay, TurnstileInv, LockSafe, LockTypeOK
<1>4. \A l \in Locks : mtx_lock'[l].contested = 1 => mtx_lock'[l] = mtx_lock[l]
  BY <1>1, WordFacts DEF TurnstileInv, LockSafe, LockTypeOK
<1>5. WordsStay
  <2>1. \A ts \in Turnstiles : HasWaiters(ts) => ts_lockobj[ts] \in Locks \ {m}
    BY <1>1, <1>2, LookupFinds DEF TurnstileInv, HashInv
  <2>2. \A ts \in Turnstiles : HasWaiters(ts) =>
           /\ mtx_lock'[ts_lockobj[ts]] = mtx_lock[ts_lockobj[ts]]
           /\ mtx_lock[ts_lockobj[ts]].contested = 1
    BY <1>1, <1>2, <2>1 DEF TurnstileInv, LockSafe, LockTypeOK, ContestedInv, Contested
  <2> QED BY <1>4, <2>2 DEF WordsStay, NoNewCookie
<1>6. PointersCurrent(td)
  BY <1>3 DEF PointersCurrent
<1> QED BY <1>1, <1>2, <1>3, <1>4, <1>5, <1>6, LightStep
        DEF schedVars, spinVars, TurnstileInv, TypeOK, Delicate

(* The thread that released a contested mutex gives up the processor, or not.*)
LEMMA USwitchStep ==
    ASSUME TurnstileInv, NEW td \in Threads, USwitch(td) \/ UYield(td), LockSafe'
    PROVE  TurnstileInv'
<1> USE ConstantsAssumption
<1>1. /\ pc[td] \in {"uswitch", "uyield"} /\ td_state[td] = "running"
      /\ UNCHANGED <<lockVars, spinVars, tsVars, td_turnstile, td_blocked, td_priority, tsnoblock,
                     tsp, tcp, pending>>
  BY DEF USwitch, UYield, At, schedVars
<1>2. td_turnstile[td] # Null /\ peer[td] # Null
  BY <1>1, RunningHas DEF TurnstileInv, PointerInv
<1>3. /\ \/ /\ pc' = [pc EXCEPT ![td] = "idle"] /\ arg' = [arg EXCEPT ![td] = Null]
            /\ peer' = [peer EXCEPT ![td] = Null]
         \/ /\ pc' = [pc EXCEPT ![td] = "uyield"] /\ UNCHANGED <<peer, arg>>
      /\ \/ UNCHANGED td_state
         \/ td_state' = [td_state EXCEPT ![td] = IF td_state[peer[td]] = "running" THEN @ ELSE "runq"]
  BY DEF USwitch, UYield, Return, Goto, schedVars
<1>4. /\ pc'[td] \in {"idle", "uyield"} /\ OthersStay(td)
      /\ peer' \in [Threads -> Threads \cup {Null}]
      /\ pc'[td] = "uyield" => peer'[td] # Null
  <2>1. /\ pc \in [Threads -> PcValues] /\ arg \in [Threads -> Locks \cup {Null}]
        /\ peer \in [Threads -> Threads \cup {Null}]
    BY DEF TurnstileInv, LockSafe, LockTypeOK, TypeOK
  <2>2. CASE /\ pc' = [pc EXCEPT ![td] = "idle"] /\ arg' = [arg EXCEPT ![td] = Null]
             /\ peer' = [peer EXCEPT ![td] = Null]
    BY <1>1, <2>1, <2>2 DEF OthersStay
  <2>3. CASE pc' = [pc EXCEPT ![td] = "uyield"] /\ UNCHANGED <<peer, arg>>
    BY <1>1, <1>2, <2>1, <2>3 DEF OthersStay
  <2> QED BY <1>3, <2>2, <2>3
<1>5. /\ td_state' \in [Threads -> {"running", "runq", "lock"}]
      /\ \A u \in Threads : td_state'[u] = "lock" <=> td_state[u] = "lock"
  <2>1. td_state \in [Threads -> {"running", "runq", "lock"}]
    BY DEF TurnstileInv, TypeOK
  <2>2. PICK s \in {"running", "runq"} : td_state' = [td_state EXCEPT ![td] = s]
    BY <1>1, <1>3, <2>1
  <2> QED BY <1>1, <2>1, <2>2
<1>6. WordsStay
  BY <1>1, SameOwner DEF lockVars
<1>7. PointersCurrent(td)
  BY <1>4 DEF PointersCurrent
<1> QED BY <1>1, <1>2, <1>4, <1>5, <1>6, <1>7, LightStep
        DEF spinVars, lockVars, TurnstileInv, TypeOK, Delicate

(* The scheduler only moves threads between the CPUs and the run queue. *)
LEMMA SchedulerStep ==
    ASSUME TurnstileInv, NEW td \in Threads, Preempt(td) \/ Dispatch(td), LockSafe'
    PROVE  TurnstileInv'
<1> USE ConstantsAssumption
<1>1. /\ td_state' \in [Threads -> {"running", "runq", "lock"}]
      /\ \A u \in Threads : td_state'[u] = "lock" <=> td_state[u] = "lock"
      /\ UNCHANGED <<lockVars, spinVars, tsVars, td_turnstile, td_blocked, td_priority,
                     tsnoblock, pc, locals>>
  <2>1. td_state \in [Threads -> {"running", "runq", "lock"}]
    BY DEF TurnstileInv, TypeOK
  <2>2. PICK s \in {"running", "runq"} : td_state' = [td_state EXCEPT ![td] = s] /\ td_state[td] # "lock"
    BY DEF Preempt, Dispatch
  <2>3. UNCHANGED <<lockVars, spinVars, tsVars, td_turnstile, td_blocked, td_priority,
                    tsnoblock, pc, locals>>
    BY DEF Preempt, Dispatch
  <2> QED BY <2>1, <2>2, <2>3
<1>2. TypeOK'
  BY <1>1 DEF TurnstileInv, TypeOK, LockSafe, spinVars, tsVars, locals
<1>3. HashInv' /\ PlaceInv' /\ SpareInv'
  BY <1>1 DEF TurnstileInv, HashInv, PlaceInv, SpareInv, HasWaiters, tsVars
<1>4. QueueInv' /\ StateInv'
  BY <1>1 DEF TurnstileInv, QueueInv, StateInv, Queued, tsVars, locals, spinVars
<1>5. SortInv' /\ PointerInv'
  <2>1. SortInv'
    BY <1>1 DEF TurnstileInv, SortInv, TypeOK, tsVars, locals
  <2>2. PointerInv'
    BY <1>1 DEF TurnstileInv, PointerInv, HasWaiters, Owner, tsVars, locals, lockVars
  <2> QED BY <2>1, <2>2
<1>6. ContestedInv' /\ UnpendInv' /\ SleepersInv'
  BY <1>1 DEF TurnstileInv, ContestedInv, UnpendInv, SleepersInv, HasWaiters, Owner, Contested,
              tsVars, locals, lockVars
<1>7. \A u \in Threads : (Committed(u) <=> Committed(u)') /\ (BeingWoken(u) <=> BeingWoken(u)')
  BY <1>1 DEF Committed, BeingWoken, tsVars, locals
<1>8. WakeInv'
  BY <1>1, <1>7 DEF TurnstileInv, WakeInv, tsVars, locals
<1>9. HeirInv'
  BY <1>1, <1>7 DEF TurnstileInv, HeirInv, Heir, Owner, Contested, lockVars, locals
<1> QED BY <1>2, <1>3, <1>4, <1>5, <1>6, <1>8, <1>9 DEF TurnstileInv

-----------------------------------------------------------------------------
(* Steps that work on a turnstile. *)

(* The parts of the invariant that a step of an unqueued thread keeps when *)
(* it leaves the queues and the scheduler alone.                           *)
LEMMA QueuesFrame ==
    ASSUME TurnstileInv, NEW td \in Threads, OthersStay(td),
           pc[td] \notin {"block", "prop", "sort", "blocked"},
           pc'[td] \notin {"block", "prop", "sort", "blocked"},
           UNCHANGED <<tc_turnstiles, ts_blocked, ts_free, ts_lockobj, td_turnstile, td_blocked,
                       td_state, tcp, sched_lock>>
    PROVE  HashInv' /\ PlaceInv' /\ SpareInv' /\ QueueInv' /\ StateInv' /\ SortInv'
<1> USE DEF Turnstiles
<1>1. \A u \in Threads : u # td =>
         pc'[u] = pc[u] /\ arg'[u] = arg[u] /\ tsp'[u] = tsp[u] /\ peer'[u] = peer[u]
  BY DEF OthersStay
<1>2. ~ \E ts \in Turnstiles : Queued(td, ts)
  BY InHand
<1>3. HashInv' /\ PlaceInv' /\ SpareInv'
  BY DEF TurnstileInv, HashInv, PlaceInv, SpareInv, HasWaiters
<1>4. QueueInv'
  BY <1>1, <1>2 DEF TurnstileInv, QueueInv, Queued
<1>5. StateInv'
  BY <1>1 DEF TurnstileInv, StateInv, Queued
<1>6. SortInv'
  BY <1>1 DEF TurnstileInv, SortInv
<1> QED BY <1>3, <1>4, <1>5, <1>6

(* turnstile_claim() makes the claimer the owner of the turnstile it found.*)
LEMMA ClaimStep ==
    ASSUME TurnstileInv, NEW td \in Threads, Claim(td)
    PROVE  TurnstileInv'
<1> USE ConstantsAssumption DEF Turnstiles
<1> DEFINE m == arg[td]
           ts == tsp[td]
<1>1. /\ pc[td] = "claim" /\ pc' = [pc EXCEPT ![td] = "claimpri"]
      /\ mtx_lock' = [mtx_lock EXCEPT ![m] = [OwnedBy(td) EXCEPT !.contested = 1]]
      /\ ts_owner' = [ts_owner EXCEPT ![ts] = td]
      /\ peer' = [peer EXCEPT ![td] = Head(ts_blocked[ts])] /\ tsp' = [tsp EXCEPT ![td] = Null]
      /\ UNCHANGED <<sched_lock, tc_turnstiles, ts_blocked, ts_pending, ts_free, ts_lockobj,
                     td_turnstile, td_blocked, td_state, td_priority, tsnoblock, arg, tcp, pending>>
  BY DEF Claim, At, Goto, turnstile_setowner, schedVars
<1>2. LockSafe' /\ m \in Locks /\ mtx_lock \in [Locks -> Word]
  BY <1>1, ClaimSafe DEF TurnstileInv, LockSafe, LockInv, LockTypeOK
<1>3. ts \in Turnstiles /\ HasWaiters(ts) /\ ts_lockobj[ts] = m
  BY <1>1 DEF TurnstileInv, PointerInv, TypeOK
<1>4. Head(ts_blocked[ts]) \in Threads
  BY <1>3, HeadInQueue DEF TurnstileInv, TypeOK, HasWaiters
<1>5. /\ mtx_lock'[m].owner = td /\ mtx_lock'[m].contested = 1
      /\ \A l \in Locks : l # m => mtx_lock'[l] = mtx_lock[l]
  BY <1>1, <1>2 DEF OwnedBy
<1>6. /\ pc'[td] = "claimpri" /\ peer'[td] # Null /\ OthersStay(td)
      /\ tsp' \in [Threads -> Turnstiles \cup {Null}] /\ peer' \in [Threads -> Threads \cup {Null}]
  BY <1>1, <1>4 DEF OthersStay, TurnstileInv, LockSafe, LockTypeOK, TypeOK
<1>7. ts_owner'[ts] = td /\ \A t \in Turnstiles : t # ts => ts_owner'[t] = ts_owner[t]
  BY <1>1, <1>3 DEF TurnstileInv, TypeOK
<1>8. TypeOK'
  BY <1>1, <1>2, <1>6 DEF TurnstileInv, TypeOK, LockSafe
<1>9. HashInv' /\ PlaceInv' /\ SpareInv' /\ QueueInv' /\ StateInv' /\ SortInv'
  BY <1>1, <1>6, QueuesFrame
<1>10. PointerInv'
  <2>1. \A u \in Threads : pc[u] = "unpend" => arg[u] \in Locks /\ arg[u] # m
    BY <1>1, OneOnChain DEF TurnstileInv, LockSafe, LockInv
  <2>2. PointersCurrent(td)
    BY <1>6 DEF PointersCurrent
  <2>3. \A u \in Threads : pc[u] = "unpend" /\ HasWaiters(tsp[u]) =>
           mtx_lock'[arg[u]].owner = mtx_lock[arg[u]].owner
    BY <1>5, <2>1
  <2>4. PointerInv /\ tsp \in [Threads -> Turnstiles \cup {Null}]
    BY DEF TurnstileInv, TypeOK
  <2> QED BY <1>1, <1>6, <2>2, <2>3, <2>4, PointerFrame DEF SameWaiters, HasWaiters
<1>11. ContestedInv'
  <2>1. \A t \in Turnstiles : HasWaiters(t) /\ t # ts => ts_lockobj[t] \in Locks \ {m}
    BY <1>3 DEF TurnstileInv, HashInv
  <2>2. \A t \in Turnstiles : HasWaiters(t) => mtx_lock'[ts_lockobj[t]].contested = 1
    BY <1>3, <1>5, <2>1 DEF TurnstileInv, ContestedInv, Contested
  <2>3. \A t \in Turnstiles : HasWaiters(t) =>
           \/ ts_owner'[t] = mtx_lock'[ts_lockobj[t]].owner
           \/ \E u \in Threads : pc'[u] = "unpend" /\ tsp'[u] = t
    <3> SUFFICES ASSUME NEW t \in Turnstiles, HasWaiters(t)
                 PROVE  \/ ts_owner'[t] = mtx_lock'[ts_lockobj[t]].owner
                        \/ \E u \in Threads : pc'[u] = "unpend" /\ tsp'[u] = t
      OBVIOUS
    <3>1. CASE t = ts
      BY <3>1, <1>3, <1>5, <1>7
    <3>2. CASE t # ts
      <4>1. \/ ts_owner[t] = mtx_lock[ts_lockobj[t]].owner
            \/ \E u \in Threads : pc[u] = "unpend" /\ tsp[u] = t
        BY DEF TurnstileInv, ContestedInv, Owner
      <4> QED BY <3>2, <4>1, <1>1, <1>5, <1>6, <1>7, <2>1 DEF OthersStay
    <3> QED BY <3>1, <3>2
  <2>4. \A t \in Turnstiles : ts_owner'[t] # Null /\ ~HasWaiters(t) =>
           pc'[ts_owner'[t]] = "unpend" /\ tsp'[ts_owner'[t]] = t
    <3> SUFFICES ASSUME NEW t \in Turnstiles, ts_owner'[t] # Null, ~HasWaiters(t)
                 PROVE  pc'[ts_owner'[t]] = "unpend" /\ tsp'[ts_owner'[t]] = t
      OBVIOUS
    <3>1. ts_owner'[t] = ts_owner[t] /\ ts_owner[t] \in Threads
      BY <1>3, <1>7 DEF TurnstileInv, TypeOK
    <3>2. pc[ts_owner[t]] = "unpend" /\ tsp[ts_owner[t]] = t
      BY <3>1 DEF TurnstileInv, ContestedInv
    <3> QED BY <3>1, <3>2, <1>1, <1>6 DEF OthersStay
  <2>5. \A l \in Locks : mtx_lock'[l].owner = Null /\ mtx_lock'[l].contested = 1 =>
           \E t \in Turnstiles : HasWaiters(t) /\ ts_lockobj[t] = l
    BY <1>5 DEF TurnstileInv, ContestedInv, Owner, Contested
  <2> QED BY <1>1, <2>2, <2>3, <2>4, <2>5 DEF ContestedInv, HasWaiters, Owner, Contested
<1>12. UnpendInv'
  BY <1>1, <1>6, UnpendFrame DEF SameWaiters, HasWaiters, TurnstileInv, TypeOK
<1>13. SleepersInv'
  <2>1. \A l \in Locks : mtx_lock'[l].contested = 1 => l = m \/ mtx_lock[l].contested = 1
    BY <1>5
  <2> QED BY <1>1, <1>3, <1>6, <2>1, SleepersFrame DEF SameWaiters, HasWaiters, TurnstileInv
<1>14. WakeInv'
  BY <1>1, <1>6, WakeFrame DEF TurnstileInv
<1>15. HeirInv'
  <2>1. NoNewCookie
    BY <1>5 DEF NoNewCookie
  <2> QED BY <1>1, <1>5, <1>6, <2>1, HeirFrame DEF TurnstileInv
<1> QED BY <1>2, <1>8, <1>9, <1>10, <1>11, <1>12, <1>13, <1>14, <1>15 DEF TurnstileInv

(* turnstile_wait() under sched_lock. *)
LEMMA BlockStep ==
    ASSUME TurnstileInv, NEW td \in Threads, Block(td), LockSafe'
    PROVE  TurnstileInv'
<1> USE ConstantsAssumption DEF Turnstiles
<1>1. /\ pc[td] = "block" /\ td_state[td] = "running" /\ sched_lock = Null
      /\ UNCHANGED <<lockVars, tc_lock, tsVars, td_turnstile, td_priority, arg, word, tcp, peer,
                     pending>>
  BY DEF Block, At
<1>2. tsp[td] \in Turnstiles /\ (td_turnstile[td] = Null => Queued(td, tsp[td]))
  BY <1>1 DEF TurnstileInv, StateInv, TypeOK
<1>3. \A u \in Threads : pc[u] \notin {"prop", "sort"}
  BY <1>1 DEF TurnstileInv, StateInv
<1>4. HashInv' /\ PlaceInv' /\ SpareInv'
  BY <1>1 DEF TurnstileInv, HashInv, PlaceInv, SpareInv, HasWaiters, tsVars
<1>5. WordsStay
  BY <1>1, SameOwner DEF lockVars
<1>6. CASE td \in tsnoblock
  <2>1. /\ tsnoblock' = tsnoblock \ {td} /\ pc' = [pc EXCEPT ![td] = "obtain"]
        /\ tsp' = [tsp EXCEPT ![td] = Null] /\ UNCHANGED <<sched_lock, td_blocked, td_state>>
    BY <1>6 DEF Block, Goto
  <2>2. /\ pc'[td] = "obtain" /\ tsp' \in [Threads -> Turnstiles \cup {Null}] /\ OthersStay(td)
    BY <1>1, <2>1 DEF TurnstileInv, LockSafe, LockTypeOK, TypeOK, OthersStay
  <2>3. td_turnstile[td] # Null /\ ~BeingWoken(td)
    BY <1>1, <1>6 DEF TurnstileInv, WakeInv, Committed
  <2>4. TypeOK'
    BY <1>1, <2>1, <2>2 DEF TurnstileInv, TypeOK, LockSafe, tsVars
  <2>5. QueueInv'
    BY <1>1, <2>2, <2>3, InHand DEF TurnstileInv, QueueInv, Queued, OthersStay, tsVars
  <2>6. StateInv' /\ SortInv'
    BY <1>1, <1>3, <2>1, <2>2 DEF TurnstileInv, StateInv, SortInv, Queued, OthersStay, tsVars
  <2>7. PointerInv'
    <3>1. PointersCurrent(td)
      BY <2>2 DEF PointersCurrent
    <3>2. PointerInv /\ tsp \in [Threads -> Turnstiles \cup {Null}]
      BY DEF TurnstileInv, TypeOK
    <3> QED BY <1>1, <2>2, <3>1, <3>2, PointerFrame DEF SameWaiters, HasWaiters, tsVars, lockVars
  <2>8. ContestedInv' /\ UnpendInv'
    BY <1>1, <1>5, <2>2, ContestedFrame, UnpendFrame DEF SameWaiters, HasWaiters, TurnstileInv, TypeOK, tsVars
  <2>9. SleepersInv'
    BY <1>1, <2>2, SleepersFrame DEF SameWaiters, HasWaiters, TurnstileInv, tsVars, lockVars
  <2>10. \A u \in Threads : /\ BeingWoken(u) <=> BeingWoken(u)'
                            /\ u # td => (Committed(u) <=> Committed(u)')
                            /\ ~Committed(td)'
    BY <1>1, <2>1, <2>2 DEF BeingWoken, Committed, OthersStay, tsVars
  <2>11. WakeInv'
    <3>1. /\ \A u \in Threads : Committed(u)' /\ td_turnstile[u] # Null => BeingWoken(u)'
          /\ \A u \in Threads : BeingWoken(u)' => td_turnstile[u] # Null /\ Committed(u)'
      BY <2>3, <2>10 DEF TurnstileInv, WakeInv
    <3>2. \A u \in Threads : u \in tsnoblock' => pc'[u] = "block" /\ td_turnstile[u] # Null
      BY <2>1, <2>2 DEF TurnstileInv, WakeInv, OthersStay
    <3>3. /\ \A u \in Threads, t \in Turnstiles : pc[u] = "unpend" /\ tsp[u] = t =>
                pc'[u] = "unpend" /\ tsp'[u] = t
          /\ \A u \in Threads : pc[u] = "unpendpri" => pc'[u] = "unpendpri"
      BY <1>1, <2>2 DEF OthersStay
    <3> QED BY <1>1, <3>1, <3>2, <3>3 DEF TurnstileInv, WakeInv, tsVars
  <2>12. HeirInv'
    <3> SUFFICES ASSUME NEW l \in Locks, mtx_lock'[l].owner = Null, mtx_lock'[l].contested = 1
                 PROVE  \E u \in Threads : Heir(u, l)'
      BY DEF HeirInv, Owner, Contested
    <3>1. PICK u \in Threads : Heir(u, l)
      BY <1>1 DEF TurnstileInv, HeirInv, Owner, Contested, lockVars
    <3>2. Heir(u, l)'
      BY <1>1, <2>1, <2>2, <2>10, <3>1 DEF Heir, OthersStay
    <3> QED BY <3>2
  <2> QED BY <1>4, <2>4, <2>5, <2>6, <2>7, <2>8, <2>9, <2>11, <2>12 DEF TurnstileInv
<1>7. CASE td \notin tsnoblock
  <2>1. /\ sched_lock' = td /\ td_blocked' = [td_blocked EXCEPT ![td] = tsp[td]]
        /\ td_state' = [td_state EXCEPT ![td] = "lock"] /\ pc' = [pc EXCEPT ![td] = "prop"]
        /\ UNCHANGED <<tsnoblock, tsp>>
    BY <1>7 DEF Block, Goto
  <2>2. /\ pc'[td] = "prop" /\ td_state'[td] = "lock" /\ td_blocked'[td] = tsp[td]
        /\ OthersStay(td)
        /\ \A u \in Threads : u # td => td_state'[u] = td_state[u] /\ td_blocked'[u] = td_blocked[u]
        /\ td_state' \in [Threads -> {"running", "runq", "lock"}]
        /\ td_blocked' \in [Threads -> Turnstiles \cup {Null}]
    BY <1>1, <1>2, <2>1 DEF TurnstileInv, LockSafe, LockTypeOK, TypeOK, OthersStay
  <2>4. TypeOK'
    BY <1>1, <2>1, <2>2 DEF TurnstileInv, TypeOK, LockSafe, tsVars
  <2>5. QueueInv'
    BY <1>1, <2>2 DEF TurnstileInv, QueueInv, Queued, OthersStay, tsVars
  <2>6. StateInv'
    BY <1>1, <1>2, <1>3, <2>1, <2>2 DEF TurnstileInv, StateInv, Queued, OthersStay, tsVars
  <2>7. SortInv'
    BY <1>3, <2>2 DEF SortInv, OthersStay
  <2>8. PointerInv'
    <3>1. PointersCurrent(td)
      BY <2>2 DEF PointersCurrent
    <3>2. PointerInv /\ tsp \in [Threads -> Turnstiles \cup {Null}]
      BY DEF TurnstileInv, TypeOK
    <3> QED BY <1>1, <2>1, <2>2, <3>1, <3>2, PointerFrame DEF SameWaiters, HasWaiters, tsVars, lockVars
  <2>9. ContestedInv' /\ UnpendInv'
    BY <1>1, <1>5, <2>2, ContestedFrame, UnpendFrame DEF SameWaiters, HasWaiters, TurnstileInv, TypeOK, tsVars
  <2>10. SleepersInv'
    BY <1>1, <2>2, SleepersFrame DEF SameWaiters, HasWaiters, TurnstileInv, tsVars, lockVars
  <2>11. \A u \in Threads : (BeingWoken(u) <=> BeingWoken(u)') /\ (Committed(u) <=> Committed(u)')
    BY <1>1, <1>7, <2>1, <2>2 DEF BeingWoken, Committed, OthersStay, tsVars
  <2>12. WakeInv'
    <3>1. \A u \in Threads : u \in tsnoblock => pc'[u] = "block"
      BY <1>7, <2>2 DEF TurnstileInv, WakeInv, OthersStay
    <3>2. /\ \A u \in Threads, t \in Turnstiles : pc[u] = "unpend" /\ tsp[u] = t =>
                pc'[u] = "unpend" /\ tsp'[u] = t
          /\ \A u \in Threads : pc[u] = "unpendpri" => pc'[u] = "unpendpri"
      BY <1>1, <2>2 DEF OthersStay
    <3> QED BY <1>1, <2>1, <2>11, <3>1, <3>2 DEF TurnstileInv, WakeInv, tsVars
  <2>13. HeirInv'
    <3> SUFFICES ASSUME NEW l \in Locks, mtx_lock'[l].owner = Null, mtx_lock'[l].contested = 1
                 PROVE  \E u \in Threads : Heir(u, l)'
      BY DEF HeirInv, Owner, Contested
    <3>1. PICK u \in Threads : Heir(u, l)
      BY <1>1 DEF TurnstileInv, HeirInv, Owner, Contested, lockVars
    <3>2. Heir(u, l)'
      BY <1>1, <1>7, <2>1, <2>2, <2>11, <3>1 DEF Heir, OthersStay
    <3> QED BY <3>2
  <2> QED BY <1>4, <2>4, <2>5, <2>6, <2>7, <2>8, <2>9, <2>10, <2>12, <2>13 DEF TurnstileInv
<1> QED BY <1>6, <1>7

(* What the steps of propagate_priority() have in common: the thread stays *)
(* inhibited, no queue gains or loses a member, and no word changes.       *)
LEMMA PropagationFrame ==
    ASSUME TurnstileInv, LockSafe', NEW td \in Threads, OthersStay(td),
           pc[td] \in {"prop", "sort"}, pc'[td] \in {"prop", "sort", "blocked"},
           td_state[td] = "lock",
           UNCHANGED <<lockVars, tc_turnstiles, ts_pending, ts_free, ts_lockobj, ts_owner,
                       td_turnstile, td_blocked, td_state, tsnoblock, arg, pending>>,
           sched_lock' = IF pc'[td] = "blocked" THEN Null ELSE sched_lock,
           ts_blocked' \in [Turnstiles -> Seq(Threads)],
           \A ts \in Turnstiles : /\ ToSet(ts_blocked'[ts]) = ToSet(ts_blocked[ts])
                                  /\ Len(ts_blocked'[ts]) = Len(ts_blocked[ts])
                                  /\ IsInjective(ts_blocked'[ts]),
           tsp' \in [Threads -> Turnstiles \cup {Null}], peer' \in [Threads -> Threads \cup {Null}],
           tcp' \in [Threads -> Chains \cup {Null}], td_priority' \in [Threads -> Nat],
           pc'[td] # "blocked" => tsp'[td] # Null,
           pc'[td] = "sort" =>
               /\ peer'[td] # Null /\ tcp'[td] \in Chains
               /\ td_state[peer'[td]] = "lock" /\ tsp'[td] = td_blocked[peer'[td]]
               /\ td_turnstile[peer'[td]] = Null => tcp'[td] = TC_HASH[ts_lockobj[tsp'[td]]]
    PROVE  TurnstileInv'
<1> USE ConstantsAssumption DEF Turnstiles
<1>1. \A u \in Threads : u # td =>
         pc'[u] = pc[u] /\ arg'[u] = arg[u] /\ tsp'[u] = tsp[u] /\ peer'[u] = peer[u]
  BY DEF OthersStay
<1>2. sched_lock = td /\ \A u \in Threads : u # td => pc[u] \notin {"prop", "sort"}
  BY DEF TurnstileInv, StateInv
<1>3. SameWaiters
  BY ToSetEmpty DEF SameWaiters, HasWaiters, TurnstileInv, TypeOK
<1>4. \A u \in Threads, ts \in Turnstiles : Queued(u, ts)' <=> Queued(u, ts)
  BY DEF Queued
<1>5. TypeOK'
  BY <1>2 DEF TurnstileInv, TypeOK, LockSafe
<1>6. HashInv' /\ PlaceInv'
  <2>1. tc_turnstiles \in [Chains -> SUBSET Turnstiles] /\ td_turnstile \in [Threads -> Turnstiles \cup {Null}]
        /\ ts_free \in [Turnstiles -> SUBSET Turnstiles]
    BY DEF TurnstileInv, TypeOK
  <2>2. HashInv'
    BY <1>3, <2>1 DEF TurnstileInv, HashInv, SameWaiters
  <2>3. PlaceInv'
    BY <1>3, <2>1 DEF TurnstileInv, PlaceInv, SameWaiters
  <2> QED BY <2>2, <2>3
<1>7. SpareInv'
  BY <1>3 DEF TurnstileInv, SpareInv, SameWaiters
<1>8. QueueInv'
  <2>1. \A ts \in Turnstiles : \A u \in Threads : Queued(u, ts) =>
           /\ td_turnstile[u] = Null /\ pc'[u] \in {"block", "prop", "sort", "blocked"}
           /\ arg[u] = ts_lockobj[ts]
    <3>1. \A ts \in Turnstiles : \A u \in Threads : Queued(u, ts) =>
             /\ td_turnstile[u] = Null /\ pc[u] \in {"block", "prop", "sort", "blocked"}
             /\ arg[u] = ts_lockobj[ts]
      BY DEF TurnstileInv, QueueInv
    <3> QED BY <1>1, <3>1
  <2>2. \A u \in Threads : td_turnstile[u] = Null => \E ts \in Turnstiles : Queued(u, ts)
    BY DEF TurnstileInv, QueueInv
  <2> QED BY <1>4, <2>1, <2>2 DEF QueueInv
<1>9. StateInv'
  <2>1. td_blocked \in [Threads -> Turnstiles \cup {Null}] /\ tsp \in [Threads -> Turnstiles \cup {Null}]
    BY DEF TurnstileInv, TypeOK
  <2>2. \A u \in Threads : td_state[u] = "lock" =>
           td_blocked[u] # Null /\ pc'[u] \in {"prop", "sort", "blocked"}
    BY <1>1 DEF TurnstileInv, StateInv
  <2>3. \A u \in Threads : td_state[u] # "lock" => td_blocked[u] = Null
    BY DEF TurnstileInv, StateInv
  <2>4. \A u \in Threads : td_state[u] = "lock" /\ td_turnstile[u] = Null =>
           Queued(u, td_blocked[u])'
    <3>1. \A u \in Threads : td_state[u] = "lock" /\ td_turnstile[u] = Null =>
             Queued(u, td_blocked[u]) /\ td_blocked[u] \in Turnstiles
      BY <2>1 DEF TurnstileInv, StateInv
    <3> QED BY <1>4, <3>1 DEF Queued
  <2>5. \A u \in Threads : pc'[u] = "block" =>
           tsp'[u] # Null /\ (td_turnstile[u] = Null => u \in ToSet(ts_blocked'[tsp'[u]]))
    <3>1. \A u \in Threads : pc[u] = "block" =>
             tsp[u] \in Turnstiles /\ (td_turnstile[u] = Null => Queued(u, tsp[u]))
      BY <2>1 DEF TurnstileInv, StateInv
    <3>2. \A u \in Threads : pc'[u] = "block" => pc[u] = "block" /\ tsp'[u] = tsp[u]
      BY <1>1
    <3>3. \A u \in Threads, ts \in Turnstiles : Queued(u, ts) => u \in ToSet(ts_blocked'[ts])
      BY <1>4 DEF Queued
    <3> SUFFICES ASSUME NEW u \in Threads, pc'[u] = "block"
                 PROVE  tsp'[u] # Null /\ (td_turnstile[u] = Null => u \in ToSet(ts_blocked'[tsp'[u]]))
      OBVIOUS
    <3>4. /\ tsp[u] \in Turnstiles /\ tsp'[u] = tsp[u]
          /\ td_turnstile[u] = Null => Queued(u, tsp[u])
      BY <3>1, <3>2
    <3> QED BY <3>3, <3>4
  <2>6. \A u \in Threads : pc'[u] = "blocked" /\ td_state[u] # "lock" => td_turnstile[u] # Null
    <3>1. \A u \in Threads : pc[u] = "blocked" /\ td_state[u] # "lock" => td_turnstile[u] # Null
      BY DEF TurnstileInv, StateInv
    <3>2. \A u \in Threads : pc'[u] = "blocked" => u = td \/ pc[u] = "blocked"
      BY <1>1
    <3> QED BY <3>1, <3>2
  <2>7. \A u \in Threads : pc'[u] \in {"prop", "sort"} =>
           sched_lock' = u /\ td_state[u] = "lock" /\ tsp'[u] # Null
    BY <1>1, <1>2
  <2> QED BY <1>1, <2>2, <2>3, <2>4, <2>5, <2>6, <2>7 DEF StateInv, Queued
<1>10. SortInv'
  <2> SUFFICES ASSUME NEW u \in Threads, pc'[u] = "sort" PROVE
        /\ peer'[u] # Null /\ tcp'[u] \in Chains
        /\ td_state[peer'[u]] = "lock" /\ tsp'[u] = td_blocked[peer'[u]]
        /\ td_turnstile[peer'[u]] = Null => tcp'[u] = TC_HASH[ts_lockobj[tsp'[u]]]
    BY DEF SortInv
  <2>1. u = td
    BY <1>1, <1>2
  <2> QED BY <2>1
<1>11. PointerInv'
  <2>1. PointersCurrent(td)
    BY DEF PointersCurrent
  <2>2. PointerInv /\ tsp \in [Threads -> Turnstiles \cup {Null}]
    BY DEF TurnstileInv, TypeOK
  <2> QED BY <1>3, <2>1, <2>2, PointerFrame DEF lockVars
<1>12. WordsStay
  BY SameOwner DEF lockVars
<1>13. ContestedInv' /\ UnpendInv'
  BY <1>3, <1>12, ContestedFrame, UnpendFrame DEF TurnstileInv, TypeOK
<1>14. SleepersInv'
  BY <1>3, SleepersFrame DEF TurnstileInv, lockVars
<1>15. \A u \in Threads : (BeingWoken(u) <=> BeingWoken(u)') /\ (Committed(u) <=> Committed(u)')
  BY <1>1 DEF BeingWoken, Committed
<1>16. WakeInv'
  <2>1. \A u \in Threads : u \in tsnoblock => pc'[u] = "block"
    <3>1. \A u \in Threads : u \in tsnoblock => pc[u] = "block"
      BY DEF TurnstileInv, WakeInv
    <3> QED BY <1>1, <3>1
  <2>2. /\ \A u \in Threads, t \in Turnstiles : pc[u] = "unpend" /\ tsp[u] = t =>
              pc'[u] = "unpend" /\ tsp'[u] = t
        /\ \A u \in Threads : pc[u] = "unpendpri" => pc'[u] = "unpendpri"
    BY <1>1
  <2>3. /\ \A u \in Threads : Committed(u)' /\ td_turnstile[u] # Null => BeingWoken(u)'
        /\ \A u \in Threads : BeingWoken(u)' => td_turnstile[u] # Null /\ Committed(u)'
        /\ \A u \in Threads : u \in tsnoblock => td_turnstile[u] # Null
    BY <1>15 DEF TurnstileInv, WakeInv
  <2>4. /\ \A ts \in Turnstiles, u \in Threads : u \in ts_pending[ts] =>
              \E w \in Threads : pc'[w] = "unpend" /\ tsp'[w] = ts
        /\ \A w, u \in Threads : u \in pending[w] => pc'[w] = "unpendpri"
    <3>1. ASSUME NEW ts \in Turnstiles, NEW u \in Threads, u \in ts_pending[ts]
          PROVE  \E w \in Threads : pc'[w] = "unpend" /\ tsp'[w] = ts
      <4>1. PICK w \in Threads : pc[w] = "unpend" /\ tsp[w] = ts
        BY <3>1 DEF TurnstileInv, WakeInv
      <4>2. w # td
        BY <4>1
      <4>3. pc'[w] = pc[w] /\ tsp'[w] = tsp[w]
        BY <1>1, <4>2
      <4> QED BY <4>1, <4>3
    <3>2. ASSUME NEW w \in Threads, NEW u \in Threads, u \in pending[w]
          PROVE  pc'[w] = "unpendpri"
      <4>1. pc[w] = "unpendpri"
        BY <3>2 DEF TurnstileInv, WakeInv
      <4> QED BY <2>2, <4>1
    <3> QED BY <3>1, <3>2
  <2>5. /\ \A ts, t \in Turnstiles, u \in Threads :
              u \in ts_pending[ts] /\ u \in ts_pending[t] => ts = t
        /\ \A v, w, u \in Threads : u \in pending[v] /\ u \in pending[w] => v = w
        /\ \A w, u \in Threads, ts \in Turnstiles : ~(u \in pending[w] /\ u \in ts_pending[ts])
    BY DEF TurnstileInv, WakeInv
  <2> QED BY <2>1, <2>3, <2>4, <2>5 DEF WakeInv
<1>17. HeirInv'
  <2> SUFFICES ASSUME NEW l \in Locks, mtx_lock'[l].owner = Null, mtx_lock'[l].contested = 1
               PROVE  \E u \in Threads : Heir(u, l)'
    BY DEF HeirInv, Owner, Contested
  <2>1. PICK u \in Threads : Heir(u, l)
    BY DEF TurnstileInv, HeirInv, Owner, Contested, lockVars
  <2>2. Heir(u, l)'
    BY <1>1, <1>15, <2>1 DEF Heir
  <2> QED BY <2>2
<1> QED BY <1>5, <1>6, <1>7, <1>8, <1>9, <1>10, <1>11, <1>13, <1>14, <1>16, <1>17 DEF TurnstileInv

(* propagate_priority() lends a priority to the owner and goes on to the   *)
(* queue the owner is blocked in, whose chain it works out.                *)
LEMMA PropagateStep ==
    ASSUME TurnstileInv, NEW td \in Threads, Propagate(td), LockSafe'
    PROVE  TurnstileInv'
<1> USE ConstantsAssumption DEF Turnstiles
<1> DEFINE owner == ts_owner[tsp[td]]
           lends == owner # Null /\ td_priority[owner] > td_priority[td]
<1>1. /\ pc[td] = "prop"
      /\ UNCHANGED <<lockVars, tc_lock, tsVars, td_turnstile, td_blocked, td_state, tsnoblock,
                     arg, word, pending>>
  BY DEF Propagate
<1>2. td_state[td] = "lock" /\ tsp[td] \in Turnstiles /\ owner \in Threads \cup {Null}
  BY <1>1 DEF TurnstileInv, StateInv, TypeOK
<1>3. /\ ts_blocked' \in [Turnstiles -> Seq(Threads)]
      /\ \A ts \in Turnstiles : ts_blocked'[ts] = ts_blocked[ts] /\ IsInjective(ts_blocked[ts])
  BY <1>1 DEF TurnstileInv, TypeOK, QueueInv, tsVars
<1>4. td_priority' \in [Threads -> Nat]
  <2>1. UNCHANGED td_priority \/ (owner # Null /\ td_priority' = [td_priority EXCEPT ![owner] = td_priority[td]])
    BY DEF Propagate
  <2> QED BY <1>2, <2>1 DEF TurnstileInv, TypeOK
<1>5. /\ pc \in [Threads -> PcValues] /\ tsp \in [Threads -> Turnstiles \cup {Null}]
      /\ peer \in [Threads -> Threads \cup {Null}] /\ tcp \in [Threads -> Chains \cup {Null}]
  BY DEF TurnstileInv, LockSafe, LockTypeOK, TypeOK
<1>6. CASE Switch(td)
  <2>1. /\ sched_lock' = Null /\ pc' = [pc EXCEPT ![td] = "blocked"]
        /\ tsp' = [tsp EXCEPT ![td] = Null] /\ tcp' = [tcp EXCEPT ![td] = Null]
        /\ peer' = [peer EXCEPT ![td] = Null]
    BY <1>6 DEF Switch, Goto
  <2>2. /\ pc'[td] = "blocked" /\ OthersStay(td) /\ tsp' \in [Threads -> Turnstiles \cup {Null}]
        /\ peer' \in [Threads -> Threads \cup {Null}] /\ tcp' \in [Threads -> Chains \cup {Null}]
    BY <1>1, <1>5, <2>1 DEF OthersStay
  <2> QED BY <1>1, <1>2, <1>3, <1>4, <2>1, <2>2, PropagationFrame DEF tsVars
<1>7. CASE lends /\ td_state[owner] = "lock" /\ ~Switch(td)
  <2> DEFINE b == td_blocked[owner]
  <2>1. /\ pc' = [pc EXCEPT ![td] = "sort"] /\ peer' = [peer EXCEPT ![td] = owner]
        /\ tsp' = [tsp EXCEPT ![td] = b] /\ UNCHANGED sched_lock
        /\ tcp' = [tcp EXCEPT ![td] = TC_LOOKUP(ts_lockobj[b])]
    BY <1>7 DEF Propagate, Goto
  <2>2. owner \in Threads /\ b \in Turnstiles
    BY <1>2, <1>7 DEF TurnstileInv, StateInv, TypeOK
  <2>3. /\ TC_LOOKUP(ts_lockobj[b]) \in Chains
        /\ td_turnstile[owner] = Null => TC_LOOKUP(ts_lockobj[b]) = TC_HASH[ts_lockobj[b]]
    <3>1. ts_lockobj[b] \in Locks \cup {Null}
      BY <2>2 DEF TurnstileInv, TypeOK
    <3>2. td_turnstile[owner] = Null => ts_lockobj[b] \in Locks
      BY <1>7, <2>2, InHand DEF TurnstileInv, StateInv, HashInv
    <3> QED BY <3>1, <3>2 DEF TC_LOOKUP
  <2> HIDE DEF b, owner
  <2>4. /\ pc'[td] = "sort" /\ OthersStay(td) /\ tsp' \in [Threads -> Turnstiles \cup {Null}]
        /\ peer' \in [Threads -> Threads \cup {Null}] /\ tcp' \in [Threads -> Chains \cup {Null}]
        /\ peer'[td] = owner /\ tsp'[td] = b /\ tcp'[td] = TC_LOOKUP(ts_lockobj[b])
    BY <1>1, <1>5, <2>1, <2>2, <2>3 DEF OthersStay
  <2>5. pc'[td] = "sort" =>
          /\ peer'[td] # Null /\ tcp'[td] \in Chains
          /\ td_state[peer'[td]] = "lock" /\ tsp'[td] = td_blocked[peer'[td]]
          /\ td_turnstile[peer'[td]] = Null => tcp'[td] = TC_HASH[ts_lockobj[tsp'[td]]]
    BY <1>7, <2>2, <2>3, <2>4 DEF b
  <2> QED BY <1>1, <1>2, <1>3, <1>4, <2>1, <2>2, <2>4, <2>5, PropagationFrame DEF tsVars
<1> QED BY <1>6, <1>7 DEF Propagate

(* An insertion by priority is an insertion somewhere. *)
LEMMA InsertByPriProperties ==
    ASSUME NEW q \in Seq(Threads), NEW td \in Threads, NEW pri
    PROVE  /\ InsertByPri(q, td, pri) \in Seq(Threads)
           /\ InsertByPri(q, td, pri) # <<>> /\ Len(InsertByPri(q, td, pri)) = Len(q) + 1
           /\ ToSet(InsertByPri(q, td, pri)) = ToSet(q) \cup {td}
           /\ IsInjective(q) /\ td \notin ToSet(q) => IsInjective(InsertByPri(q, td, pri))
<1> DEFINE later == {i \in DOMAIN q : td_priority[q[i]] > pri}
           at    == IF later = {} THEN Len(q) + 1
                    ELSE CHOOSE i \in later : \A j \in later : i <= j
<1>1. Len(q) \in Nat /\ DOMAIN q = 1..Len(q)
  BY LenProperties
<1>2. at \in 1..Len(q) + 1
  <2>1. CASE later = {}
    BY <1>1, <2>1
  <2>2. CASE later # {}
    <3>1. later \in SUBSET Nat
      BY <1>1
    <3>2. \E i \in later : \A j \in later : i <= j
      BY <2>2, <3>1, LeastNat
    <3>3. at \in later
      BY <2>2, <3>2
    <3> QED BY <1>1, <3>3
  <2> QED BY <2>1, <2>2
<1>3. InsertByPri(q, td, pri) = InsertAt(q, at, td)
  BY DEF InsertByPri
<1> HIDE DEF at
<1> QED BY <1>2, <1>3, InsertAtElements, InsertAtProperties

(* Moving a thread within its queue. *)
LEMMA Resorted ==
    ASSUME NEW q \in Seq(Threads), IsInjective(q), NEW td \in ToSet(q), NEW pri
    PROVE  LET r == InsertByPri(RemoveAt(q, Position(q, td)), td, pri) IN
           /\ r \in Seq(Threads) /\ ToSet(r) = ToSet(q) /\ Len(r) = Len(q) /\ IsInjective(r)
<1> DEFINE i == Position(q, td)
           s == RemoveAt(q, i)
           r == InsertByPri(s, td, pri)
<1>1. Len(q) \in Nat /\ DOMAIN q = 1..Len(q)
  BY LenProperties
<1>2. i \in 1..Len(q) /\ q[i] = td
  <2>1. \E k \in DOMAIN q : q[k] = td
    BY DEF ToSet
  <2> QED BY <1>1, <2>1 DEF Position
<1>3. td \in Threads
  BY ToSetEmpty
<1> HIDE DEF i
<1>4. /\ s \in Seq(Threads) /\ ToSet(s) = ToSet(q) \ {td} /\ IsInjective(s) /\ td \notin ToSet(s)
  BY <1>2, RemoveAtProperties
<1>5. Len(s) = Len(q) - 1
  <2>1. s = SubSeq(q, 1, i - 1) \o SubSeq(q, i + 1, Len(q))
    BY DEF RemoveAt
  <2>2. SubSeq(q, 1, i - 1) \in Seq(Threads) /\ Len(SubSeq(q, 1, i - 1)) = i - 1
    BY <1>1, <1>2, SubSeqProperties
  <2>3. SubSeq(q, i + 1, Len(q)) \in Seq(Threads) /\ Len(SubSeq(q, i + 1, Len(q))) = Len(q) - i
    <3> DEFINE t == SubSeq(q, i + 1, Len(q))
    <3>1. i + 1 \in Int /\ Len(q) \in Int /\ \A k \in i + 1 .. Len(q) : q[k] \in Threads
      BY <1>1, <1>2
    <3>2. t \in Seq(Threads) /\ Len(t) = IF i + 1 <= Len(q) THEN Len(q) - (i + 1) + 1 ELSE 0
      BY <3>1, SubSeqProperties
    <3> HIDE DEF t
    <3>3. Len(q) \in Nat /\ i \in Nat /\ i <= Len(q)
      BY <1>1, <1>2
    <3>4. Len(t) = IF i + 1 <= Len(q) THEN Len(q) - (i + 1) + 1 ELSE 0
      BY <3>2
    <3>5. Len(t) = Len(q) - i
      BY ONLY <3>3, <3>4
    <3> QED BY <3>2, <3>5 DEF t
  <2> QED BY <1>1, <1>2, <2>1, <2>2, <2>3, ConcatProperties
<1> HIDE DEF s
<1>6. /\ r \in Seq(Threads) /\ Len(r) = Len(s) + 1 /\ ToSet(r) = ToSet(s) \cup {td}
      /\ IsInjective(r)
  BY <1>3, <1>4, InsertByPriProperties
<1> QED BY <1>1, <1>4, <1>5, <1>6 DEF s, i

(* Moving the owner within its queue changes the order of the queue and    *)
(* nothing else.                                                           *)
LEMMA ResortStep ==
    ASSUME TurnstileInv, NEW td \in Threads, Resort(td), LockSafe'
    PROVE  TurnstileInv'
<1> USE ConstantsAssumption DEF Turnstiles
<1> DEFINE ts == tsp[td]
           owner == peer[td]
<1>1. /\ pc[td] = "sort"
      /\ UNCHANGED <<lockVars, tc_lock, tc_turnstiles, ts_pending, ts_free, ts_lockobj, ts_owner,
                     td_turnstile, schedVars, arg, word, pending>>
  BY DEF Resort
<1>2. /\ td_state[td] = "lock" /\ ts \in Turnstiles /\ owner \in Threads
      /\ td_turnstile[owner] = Null => Queued(owner, ts)
  BY <1>1 DEF TurnstileInv, StateInv, SortInv, TypeOK
<1>3. /\ pc \in [Threads -> PcValues] /\ tsp \in [Threads -> Turnstiles \cup {Null}]
      /\ peer \in [Threads -> Threads \cup {Null}] /\ tcp \in [Threads -> Chains \cup {Null}]
      /\ ts_blocked \in [Turnstiles -> Seq(Threads)] /\ td_priority \in [Threads -> Nat]
      /\ \A t \in Turnstiles : IsInjective(ts_blocked[t])
  BY DEF TurnstileInv, LockSafe, LockTypeOK, TypeOK, QueueInv
<1>4. CASE td_turnstile[owner] # Null
  <2>1. /\ sched_lock' = Null /\ pc' = [pc EXCEPT ![td] = "blocked"]
        /\ tsp' = [tsp EXCEPT ![td] = Null] /\ tcp' = [tcp EXCEPT ![td] = Null]
        /\ peer' = [peer EXCEPT ![td] = Null] /\ UNCHANGED ts_blocked
    BY <1>4 DEF Resort, Switch, Goto
  <2>2. /\ pc'[td] = "blocked" /\ OthersStay(td) /\ tsp' \in [Threads -> Turnstiles \cup {Null}]
        /\ peer' \in [Threads -> Threads \cup {Null}] /\ tcp' \in [Threads -> Chains \cup {Null}]
    BY <1>1, <1>3, <2>1 DEF OthersStay
  <2> QED BY <1>1, <1>2, <1>3, <2>1, <2>2, PropagationFrame DEF schedVars
<1>5. CASE td_turnstile[owner] = Null
  <2> DEFINE q == ts_blocked[ts]
             r == ts_blocked'[ts]
  <2>1. /\ UNCHANGED <<sched_lock, tsp>> /\ pc' = [pc EXCEPT ![td] = "prop"]
        /\ tcp' = [tcp EXCEPT ![td] = Null] /\ peer' = [peer EXCEPT ![td] = Null]
    BY <1>5 DEF Resort, Goto
  <2>2. /\ pc'[td] = "prop" /\ OthersStay(td)
        /\ peer' \in [Threads -> Threads \cup {Null}] /\ tcp' \in [Threads -> Chains \cup {Null}]
    BY <1>1, <1>3, <2>1 DEF OthersStay
  <2>3. PICK r1 : /\ ts_blocked' = [ts_blocked EXCEPT ![ts] = r1]
                  /\ r1 \in {q, InsertByPri(RemoveAt(q, Position(q, owner)), owner, td_priority[td])}
    BY <1>5 DEF Resort
  <2>4. r1 \in Seq(Threads) /\ ToSet(r1) = ToSet(q) /\ Len(r1) = Len(q) /\ IsInjective(r1)
    <3>1. q \in Seq(Threads) /\ IsInjective(q) /\ owner \in ToSet(q)
      BY <1>2, <1>3, <1>5 DEF Queued
    <3> HIDE DEF q
    <3> QED BY <2>3, <3>1, Resorted
  <2>5. /\ ts_blocked' \in [Turnstiles -> Seq(Threads)]
        /\ \A t \in Turnstiles : /\ ToSet(ts_blocked'[t]) = ToSet(ts_blocked[t])
                                 /\ Len(ts_blocked'[t]) = Len(ts_blocked[t])
                                 /\ IsInjective(ts_blocked'[t])
    BY <1>2, <1>3, <2>3, <2>4
  <2> QED BY <1>1, <1>2, <1>3, <2>1, <2>2, <2>5, PropagationFrame DEF schedVars
<1> QED BY <1>4, <1>5

(* The owner a turnstile knows is the owner of its mutex, for a thread     *)
(* that has the chain locked and is not unpending it.                      *)
LEMMA OwnerKnown ==
    ASSUME TurnstileInv, NEW td \in Threads, NEW ts \in Turnstiles, HasWaiters(ts),
           ts_lockobj[ts] = arg[td],
           \/ pc[td] \in {"claim", "cmpset", "wait"}
           \/ tc_lock[TC_HASH[arg[td]]] = Null
    PROVE  /\ ts_owner[ts] = Owner(arg[td])
           /\ \A u \in Threads : ~(pc[u] = "unpend" /\ tsp[u] = ts)
<1>1. ASSUME NEW u \in Threads, pc[u] = "unpend", tsp[u] = ts PROVE FALSE
  <2>1. arg[u] = arg[td]
    BY <1>1 DEF TurnstileInv, PointerInv
  <2> QED BY <1>1, <2>1, OneOnChain, NobodyOnChain
<1> QED BY <1>1 DEF TurnstileInv, ContestedInv

(* What turnstile_wait() does under the chain lock, whether the thread     *)
(* brings its own turnstile (home = own) or joins a queue.                 *)
Joins(td, home, own) ==
    LET m == arg[td] IN
    /\ home \in Turnstiles /\ own \in Turnstiles /\ m \in Locks /\ own = td_turnstile[td]
    /\ home = own \/ (HasWaiters(home) /\ ts_lockobj[home] = m)
    /\ \A t \in Turnstiles : HasWaiters(t) /\ t # home => ts_lockobj[t] # m
    /\ tc_turnstiles' \in [Chains -> SUBSET Turnstiles]
    /\ \A c \in Chains : tc_turnstiles'[c] = IF c = TC_HASH[m] THEN tc_turnstiles[c] \cup {home}
                                             ELSE tc_turnstiles[c]
    /\ ts_blocked' \in [Turnstiles -> Seq(Threads)]
    /\ ToSet(ts_blocked'[home]) = ToSet(ts_blocked[home]) \cup {td}
    /\ IsInjective(ts_blocked'[home]) /\ ts_blocked'[home] # <<>>
    /\ Len(ts_blocked'[home]) = Len(ts_blocked[home]) + 1
    /\ ts_lockobj' \in [Turnstiles -> Locks \cup {Null}] /\ ts_lockobj'[home] = m
    /\ ts_owner' \in [Turnstiles -> Threads \cup {Null}] /\ ts_owner'[home] = Owner(m)
    /\ \A t \in Turnstiles : t # home =>
          /\ ts_blocked'[t] = ts_blocked[t] /\ ts_lockobj'[t] = ts_lockobj[t]
          /\ ts_owner'[t] = ts_owner[t]
    /\ ts_free' \in [Turnstiles -> SUBSET Turnstiles]
    /\ \A t \in Turnstiles : ts_free'[t] = IF t = home /\ home # own THEN ts_free[t] \cup {own}
                                           ELSE ts_free[t]
    /\ td_turnstile' \in [Threads -> Turnstiles \cup {Null}] /\ td_turnstile'[td] = Null
    /\ \A u \in Threads : u # td => td_turnstile'[u] = td_turnstile[u]
    /\ tsp' \in [Threads -> Turnstiles \cup {Null}] /\ tsp'[td] = home
    /\ pc[td] = "wait" /\ pc'[td] = "block" /\ OthersStay(td) /\ td_state[td] = "running"
    /\ UNCHANGED <<lockVars, sched_lock, ts_pending, schedVars, arg, tcp, peer, pending>>

(* turnstile_wait() adds the caller to the queue of the turnstile it found,*)
(* and its own turnstile to the spares, or founds the queue with its own.  *)
LEMMA WaitJoins ==
    ASSUME TurnstileInv, NEW td \in Threads, Wait(td)
    PROVE  \E home : Joins(td, home, td_turnstile[td])
<1> USE ConstantsAssumption DEF Turnstiles
<1> DEFINE m == arg[td]
           own == td_turnstile[td]
           ts == tsp[td]
<1>1. /\ pc[td] = "wait" /\ td_state[td] = "running"
      /\ td_turnstile' = [td_turnstile EXCEPT ![td] = Null] /\ pc' = [pc EXCEPT ![td] = "block"]
      /\ UNCHANGED <<lockVars, sched_lock, ts_pending, schedVars, arg, tcp, peer, pending>>
  BY DEF Wait, At, Goto
<1>2. /\ pc \in [Threads -> PcValues] /\ tsp \in [Threads -> Turnstiles \cup {Null}]
      /\ ts_blocked \in [Turnstiles -> Seq(Threads)] /\ m \in Locks /\ TC_HASH[m] \in Chains
      /\ td_turnstile \in [Threads -> Turnstiles \cup {Null}]
      /\ ts_lockobj \in [Turnstiles -> Locks \cup {Null}]
      /\ ts_owner \in [Turnstiles -> Threads \cup {Null}]
      /\ ts_free \in [Turnstiles -> SUBSET Turnstiles]
      /\ tc_turnstiles \in [Chains -> SUBSET Turnstiles]
      /\ Owner(m) \in Threads \cup {Null}
  <2>1. m \in Locks
    BY <1>1 DEF TurnstileInv, LockSafe, LockInv
  <2>2. mtx_lock[m] \in Word
    BY <2>1 DEF TurnstileInv, LockSafe, LockTypeOK
  <2>3. Owner(m) \in Threads \cup {Null}
    BY <2>2, WordFacts DEF Owner
  <2> QED BY <2>1, <2>3 DEF TurnstileInv, LockSafe, LockTypeOK, TypeOK
<1>3. /\ own \in Turnstiles /\ ts_blocked[own] = <<>>
      /\ \A t \in Turnstiles : ~Queued(td, t)
  BY <1>1, OwnIsClean, InHand
<1>4. /\ td_turnstile' \in [Threads -> Turnstiles \cup {Null}] /\ td_turnstile'[td] = Null
      /\ \A u \in Threads : u # td => td_turnstile'[u] = td_turnstile[u]
      /\ pc'[td] = "block" /\ \A u \in Threads : u # td => pc'[u] = pc[u]
  BY <1>1, <1>2
<1>5. CASE ts = Null
  <2>1. /\ tc_turnstiles' = [tc_turnstiles EXCEPT ![TC_HASH[m]] = @ \cup {own}]
        /\ ts_lockobj' = [ts_lockobj EXCEPT ![own] = m]
        /\ ts_blocked' = [ts_blocked EXCEPT ![own] = Append(@, td)]
        /\ ts_owner' = [ts_owner EXCEPT ![own] = Owner(m)]
        /\ tsp' = [tsp EXCEPT ![td] = own] /\ UNCHANGED ts_free
    BY <1>5 DEF Wait, turnstile_setowner, Owner
  <2>2. /\ ts_blocked' \in [Turnstiles -> Seq(Threads)]
        /\ ToSet(ts_blocked'[own]) = ToSet(ts_blocked[own]) \cup {td}
        /\ IsInjective(ts_blocked'[own]) /\ ts_blocked'[own] # <<>>
        /\ Len(ts_blocked'[own]) = Len(ts_blocked[own]) + 1
        /\ \A t \in Turnstiles : t # own => ts_blocked'[t] = ts_blocked[t]
    <3>1. ts_blocked'[own] = Append(<<>>, td)
      BY <1>2, <1>3, <2>1
    <3>2. Len(Append(<<>>, td)) = Len(<<>>) + 1
      OBVIOUS
    <3>3. ts_blocked' \in [Turnstiles -> Seq(Threads)]
      BY <1>2, <2>1, <1>3, SmallQueues
    <3>4. \A t \in Turnstiles : t # own => ts_blocked'[t] = ts_blocked[t]
      BY <1>2, <1>3, <2>1
    <3> QED BY <1>3, <3>1, <3>2, <3>3, <3>4, SmallQueues
  <2>3. \A t \in Turnstiles : HasWaiters(t) => ts_lockobj[t] # m
    BY <1>1, <1>5 DEF TurnstileInv, PointerInv
  <2>4. /\ tc_turnstiles' \in [Chains -> SUBSET Turnstiles]
        /\ \A c \in Chains : tc_turnstiles'[c] = IF c = TC_HASH[m] THEN tc_turnstiles[c] \cup {own}
                                                 ELSE tc_turnstiles[c]
        /\ ts_lockobj' \in [Turnstiles -> Locks \cup {Null}] /\ ts_lockobj'[own] = m
        /\ ts_owner' \in [Turnstiles -> Threads \cup {Null}] /\ ts_owner'[own] = Owner(m)
        /\ \A t \in Turnstiles : t # own => ts_lockobj'[t] = ts_lockobj[t] /\ ts_owner'[t] = ts_owner[t]
        /\ tsp' \in [Threads -> Turnstiles \cup {Null}] /\ tsp'[td] = own
    BY <1>2, <1>3, <2>1
  <2>5. OthersStay(td)
    BY <1>1, <1>4, <2>1, <1>2 DEF OthersStay
  <2>6. Joins(td, own, own)
    BY <1>1, <1>2, <1>3, <1>4, <2>1, <2>2, <2>3, <2>4, <2>5 DEF Joins
  <2> QED BY <2>6
<1>6. CASE ts # Null
  <2>1. /\ ts_blocked' = [ts_blocked EXCEPT ![ts] = InsertByPri(@, td, td_priority[td])]
        /\ ts_free' = [ts_free EXCEPT ![ts] = @ \cup {own}]
        /\ UNCHANGED <<tc_turnstiles, ts_lockobj, ts_owner, tsp>>
    BY <1>6 DEF Wait
  <2>2. /\ ts \in Turnstiles /\ HasWaiters(ts) /\ ts_lockobj[ts] = m /\ ts # own
        /\ ts_owner[ts] = Owner(m)
    BY <1>1, <1>2, <1>3, <1>6, OwnerKnown DEF TurnstileInv, PointerInv, HasWaiters
  <2>3. /\ \A t \in Turnstiles : HasWaiters(t) /\ t # ts => ts_lockobj[t] # m
        /\ ts \in tc_turnstiles[TC_HASH[m]] /\ IsInjective(ts_blocked[ts])
    BY <2>2 DEF TurnstileInv, HashInv, QueueInv
  <2>4. /\ ts_blocked' \in [Turnstiles -> Seq(Threads)]
        /\ ToSet(ts_blocked'[ts]) = ToSet(ts_blocked[ts]) \cup {td}
        /\ IsInjective(ts_blocked'[ts]) /\ ts_blocked'[ts] # <<>>
        /\ Len(ts_blocked'[ts]) = Len(ts_blocked[ts]) + 1
        /\ \A t \in Turnstiles : t # ts => ts_blocked'[t] = ts_blocked[t]
    <3> DEFINE q == ts_blocked[ts]
               r == InsertByPri(q, td, td_priority[td])
    <3>1. q \in Seq(Threads) /\ IsInjective(q) /\ td \notin ToSet(q)
      BY <1>2, <1>3, <2>2, <2>3 DEF Queued
    <3> HIDE DEF q
    <3>2. /\ r \in Seq(Threads) /\ r # <<>> /\ Len(r) = Len(q) + 1
          /\ ToSet(r) = ToSet(q) \cup {td} /\ IsInjective(r)
      BY <3>1, InsertByPriProperties
    <3>3. ts_blocked' = [ts_blocked EXCEPT ![ts] = r]
      BY <2>1 DEF q
    <3> HIDE DEF r
    <3> QED BY <1>2, <2>2, <3>2, <3>3 DEF q
  <2>5. /\ ts_free' \in [Turnstiles -> SUBSET Turnstiles]
        /\ \A t \in Turnstiles : ts_free'[t] = IF t = ts THEN ts_free[t] \cup {own} ELSE ts_free[t]
    BY <1>2, <1>3, <2>1, <2>2
  <2>6. OthersStay(td)
    BY <1>1, <1>4, <2>1 DEF OthersStay
  <2>7. \A c \in Chains : tc_turnstiles'[c] = IF c = TC_HASH[m] THEN tc_turnstiles[c] \cup {ts}
                                              ELSE tc_turnstiles[c]
    BY <2>1, <2>3
  <2>8. Joins(td, ts, own)
    BY <1>1, <1>2, <1>3, <1>4, <2>1, <2>2, <2>3, <2>4, <2>5, <2>6, <2>7 DEF Joins
  <2> QED BY <2>8
<1> QED BY <1>5, <1>6

(* What the joining thread was, and which queues it changes. *)
LEMMA JoinFacts ==
    ASSUME TurnstileInv, NEW td \in Threads, NEW home, NEW own, Joins(td, home, own)
    PROVE  /\ \A t \in Turnstiles : ~Queued(td, t)
           /\ ~Committed(td) /\ ~BeingWoken(td) /\ td \notin tsnoblock
           /\ ~HasWaiters(own) /\ own # Null /\ (home # own => HasWaiters(home))
           /\ ts_pending[own] = {} /\ ts_free[own] = {} /\ ts_lockobj[own] = Null /\ ts_owner[own] = Null
           /\ \A u \in Threads : ~(pc[u] = "unpend" /\ tsp[u] = own)
           /\ \A u \in Threads : ~(pc[u] = "unpend" /\ tsp[u] = home)
           /\ HasWaiters(home)' /\ \A t \in Turnstiles : t # home => (HasWaiters(t)' <=> HasWaiters(t))
           /\ \A u \in Threads, t \in Turnstiles :
                 Queued(u, t)' <=> Queued(u, t) \/ (u = td /\ t = home)
<1> USE ConstantsAssumption DEF Turnstiles
<1>1. pc[td] = "wait" /\ own = td_turnstile[td] /\ home \in Turnstiles /\ own \in Turnstiles
      /\ (home = own \/ (HasWaiters(home) /\ ts_lockobj[home] = arg[td])) /\ td_state[td] = "running"
  BY DEF Joins
<1>2. /\ ts_blocked[own] = <<>> /\ ts_pending[own] = {} /\ ts_free[own] = {}
      /\ ts_lockobj[own] = Null /\ ts_owner[own] = Null
      /\ \A u \in Threads : ~(pc[u] = "unpend" /\ tsp[u] = own)
  BY <1>1, OwnIsClean
<1>3. own # Null /\ \A t \in Turnstiles : ~Queued(td, t)
  BY <1>1, InHand
<1>4. ~Committed(td) /\ ~BeingWoken(td) /\ td \notin tsnoblock
  <2>1. ~Committed(td)
    BY <1>1 DEF Committed
  <2> QED BY <1>1, <2>1 DEF TurnstileInv, WakeInv
<1>5. \A u \in Threads : ~(pc[u] = "unpend" /\ tsp[u] = home)
  <2>1. CASE home = own
    BY <1>2, <2>1
  <2>2. CASE home # own
    BY <1>1, <2>2, OwnerKnown
  <2> QED BY <2>1, <2>2
<1>6. HasWaiters(home)' /\ \A t \in Turnstiles : t # home => (HasWaiters(t)' <=> HasWaiters(t))
  BY DEF Joins, HasWaiters
<1>7. \A u \in Threads, t \in Turnstiles : Queued(u, t)' <=> Queued(u, t) \/ (u = td /\ t = home)
  <2>1. /\ ToSet(ts_blocked'[home]) = ToSet(ts_blocked[home]) \cup {td}
        /\ \A t \in Turnstiles : t # home => ts_blocked'[t] = ts_blocked[t]
    BY DEF Joins
  <2> QED BY <2>1 DEF Queued
<1> QED BY <1>1, <1>2, <1>3, <1>4, <1>5, <1>6, <1>7 DEF HasWaiters

(* Joining keeps the places of the turnstiles. *)
LEMMA JoinPlaces ==
    ASSUME TurnstileInv, NEW td \in Threads, NEW home, NEW own, Joins(td, home, own)
    PROVE  HashInv' /\ PlaceInv' /\ SpareInv'
<1> USE ConstantsAssumption DEF Turnstiles
<1> DEFINE m == arg[td]
<1>1. /\ home \in Turnstiles /\ own \in Turnstiles /\ m \in Locks /\ own = td_turnstile[td]
      /\ \A t \in Turnstiles : HasWaiters(t) /\ t # home => ts_lockobj[t] # m
      /\ TC_HASH[m] \in Chains
  BY DEF Joins
<1>2. /\ ~HasWaiters(own) /\ own # Null /\ (home # own => HasWaiters(home)) /\ ts_free[own] = {}
      /\ HasWaiters(home)' /\ \A t \in Turnstiles : t # home => (HasWaiters(t)' <=> HasWaiters(t))
  BY JoinFacts
<1>3. /\ \A c \in Chains : tc_turnstiles'[c] = IF c = TC_HASH[m] THEN tc_turnstiles[c] \cup {home}
                                               ELSE tc_turnstiles[c]
      /\ ts_lockobj'[home] = m /\ \A t \in Turnstiles : t # home => ts_lockobj'[t] = ts_lockobj[t]
      /\ (home # own => ts_lockobj[home] = m)
  BY DEF Joins
<1>4. /\ \A t \in Turnstiles : ts_free'[t] = IF t = home /\ home # own THEN ts_free[t] \cup {own}
                                             ELSE ts_free[t]
      /\ td_turnstile'[td] = Null /\ \A u \in Threads : u # td => td_turnstile'[u] = td_turnstile[u]
  BY DEF Joins
<1>5. HashInv'
  <2>1. tc_turnstiles \in [Chains -> SUBSET Turnstiles] /\ HashInv
    BY DEF TurnstileInv, TypeOK
  <2>2. \A c \in Chains : \A t \in tc_turnstiles'[c] :
           ts_lockobj'[t] \in Locks /\ TC_HASH[ts_lockobj'[t]] = c /\ HasWaiters(t)'
    <3> SUFFICES ASSUME NEW c \in Chains, NEW t \in tc_turnstiles'[c]
                 PROVE  ts_lockobj'[t] \in Locks /\ TC_HASH[ts_lockobj'[t]] = c /\ HasWaiters(t)'
      OBVIOUS
    <3>0. tc_turnstiles'[c] = IF c = TC_HASH[m] THEN tc_turnstiles[c] \cup {home} ELSE tc_turnstiles[c]
      BY <1>3
    <3>1. t \in tc_turnstiles[c] \/ (t = home /\ c = TC_HASH[m])
      BY <3>0
    <3>2. t \in tc_turnstiles[c] =>
            t \in Turnstiles /\ ts_lockobj[t] \in Locks /\ TC_HASH[ts_lockobj[t]] = c /\ HasWaiters(t)
      BY <2>1 DEF HashInv
    <3> QED BY <1>1, <1>2, <1>3, <3>1, <3>2
  <2>3. \A t \in Turnstiles : HasWaiters(t)' =>
           ts_lockobj'[t] \in Locks /\ t \in tc_turnstiles'[TC_HASH[ts_lockobj'[t]]]
    <3>1. \A t \in Turnstiles : HasWaiters(t) =>
            /\ ts_lockobj[t] \in Locks /\ TC_HASH[ts_lockobj[t]] \in Chains
            /\ t \in tc_turnstiles[TC_HASH[ts_lockobj[t]]]
      BY <2>1 DEF HashInv
    <3> SUFFICES ASSUME NEW t \in Turnstiles, HasWaiters(t)'
                 PROVE  ts_lockobj'[t] \in Locks /\ t \in tc_turnstiles'[TC_HASH[ts_lockobj'[t]]]
      OBVIOUS
    <3>2. CASE t = home
      <4>1. tc_turnstiles'[TC_HASH[m]] = tc_turnstiles[TC_HASH[m]] \cup {home}
        BY <1>1, <1>3
      <4> QED BY <1>1, <1>3, <3>2, <4>1
    <3>3. CASE t # home
      <4>1. ts_lockobj'[t] = ts_lockobj[t] /\ HasWaiters(t)
        BY <1>2, <1>3, <3>3
      <4>2. tc_turnstiles[TC_HASH[ts_lockobj[t]]] \subseteq tc_turnstiles'[TC_HASH[ts_lockobj[t]]]
        BY <1>3, <3>1, <4>1
      <4> QED BY <3>1, <4>1, <4>2
    <3> QED BY <3>2, <3>3
  <2>4. \A t, v \in Turnstiles :
           HasWaiters(t)' /\ HasWaiters(v)' /\ ts_lockobj'[t] = ts_lockobj'[v] => t = v
    BY <1>1, <1>2, <1>3, <2>1 DEF HashInv
  <2> QED BY <2>2, <2>3, <2>4 DEF HashInv
<1>6. PlaceInv'
  <2>1. td_turnstile \in [Threads -> Turnstiles \cup {Null}] /\ PlaceInv
        /\ ts_free \in [Turnstiles -> SUBSET Turnstiles] /\ Null \notin Turnstiles
    BY DEF TurnstileInv, TypeOK
  <2>2. \A t \in Turnstiles : own \notin ts_free[t]
    BY <1>1, <2>1 DEF PlaceInv
  <2>3. \A u \in Threads : u # td => td_turnstile[u] # own
    BY <1>1, <1>2, <2>1 DEF PlaceInv
  <2>4. \A u \in Threads : td_turnstile[u] # Null => ~HasWaiters(td_turnstile[u]) /\ td_turnstile[u] \in Turnstiles
    BY <2>1 DEF PlaceInv
  <2>5. \A u, w \in Threads : td_turnstile'[u] # Null /\ td_turnstile'[u] = td_turnstile'[w] => u = w
    BY <1>4, <2>1 DEF PlaceInv
  <2>6. \A u \in Threads : td_turnstile'[u] # Null => ts_blocked'[td_turnstile'[u]] = <<>>
    <3> SUFFICES ASSUME NEW u \in Threads, td_turnstile'[u] # Null PROVE ts_blocked'[td_turnstile'[u]] = <<>>
      OBVIOUS
    <3>1. u # td /\ td_turnstile'[u] = td_turnstile[u]
      BY <1>4
    <3>2. td_turnstile[u] \in Turnstiles /\ ~HasWaiters(td_turnstile[u]) /\ td_turnstile[u] # own
      BY <2>3, <2>4, <3>1
    <3>3. td_turnstile[u] # home
      BY <1>2, <3>2
    <3> QED BY <1>2, <3>1, <3>2, <3>3 DEF HasWaiters
  <2>7. \A u \in Threads, t \in Turnstiles : td_turnstile'[u] \notin ts_free'[t]
    <3> SUFFICES ASSUME NEW u \in Threads, NEW t \in Turnstiles, td_turnstile'[u] \in ts_free'[t]
                 PROVE  FALSE
      OBVIOUS
    <3>1. td_turnstile'[u] \in ts_free[t] \/ td_turnstile'[u] = own
      BY <1>4
    <3>2. u # td
      BY <1>1, <1>2, <1>4, <2>1, <3>1
    <3> QED BY <1>4, <2>1, <2>3, <3>1, <3>2 DEF PlaceInv
  <2>8. \A t \in Turnstiles : \A s \in ts_free'[t] : ~HasWaiters(s)'
    <3> SUFFICES ASSUME NEW t \in Turnstiles, NEW s \in ts_free'[t] PROVE ~HasWaiters(s)'
      OBVIOUS
    <3>0. ts_free'[t] = IF t = home /\ home # own THEN ts_free[t] \cup {own} ELSE ts_free[t]
      BY <1>4
    <3>1. s \in Turnstiles /\ (s \in ts_free[t] \/ (s = own /\ home # own))
      BY <1>1, <2>1, <3>0
    <3>2. ~HasWaiters(s)
      BY <1>2, <2>1, <3>1 DEF PlaceInv
    <3>3. s # home
      BY <1>2, <2>2, <3>1, <3>2
    <3> QED BY <1>2, <3>1, <3>2, <3>3
  <2>9. \A t, v \in Turnstiles : \A s \in ts_free'[t] : s \in ts_free'[v] => t = v
    <3> SUFFICES ASSUME NEW t \in Turnstiles, NEW v \in Turnstiles, NEW s \in ts_free'[t],
                        s \in ts_free'[v]
                 PROVE  t = v
      OBVIOUS
    <3>1. /\ ts_free'[t] = IF t = home /\ home # own THEN ts_free[t] \cup {own} ELSE ts_free[t]
          /\ ts_free'[v] = IF v = home /\ home # own THEN ts_free[v] \cup {own} ELSE ts_free[v]
      BY <1>4
    <3>2. CASE s = own
      BY <2>2, <3>1, <3>2
    <3>3. CASE s # own
      <4>1. s \in ts_free[t] /\ s \in ts_free[v]
        BY <3>1, <3>3
      <4> QED BY <2>1, <4>1 DEF PlaceInv
    <3> QED BY <3>2, <3>3
  <2> QED BY <2>5, <2>6, <2>7, <2>8, <2>9 DEF PlaceInv, HasWaiters
<1>7. SpareInv'
  <2>1. SpareInv /\ ts_free \in [Turnstiles -> SUBSET Turnstiles] /\ ts_blocked \in [Turnstiles -> Seq(Threads)]
    BY DEF TurnstileInv, TypeOK
  <2>2. /\ ts_blocked'[home] # <<>> /\ Len(ts_blocked'[home]) = Len(ts_blocked[home]) + 1
        /\ \A t \in Turnstiles : t # home => ts_blocked'[t] = ts_blocked[t]
    BY DEF Joins
  <2>3. own \notin ts_free[home] /\ IsFiniteSet(ts_free[home])
    BY <1>1, <2>1 DEF TurnstileInv, PlaceInv, SpareInv
  <2>4. IsFiniteSet(ts_free'[home]) /\ Len(ts_blocked'[home]) = Cardinality(ts_free'[home]) + 1
    <3>1. CASE home = own
      <4>1. ts_free'[home] = {} /\ ts_blocked[home] = <<>>
        BY <1>1, <1>2, <1>4, <3>1 DEF HasWaiters
      <4>2. Len(<<>>) = 0
        OBVIOUS
      <4> QED BY <2>2, <4>1, <4>2, FS_EmptySet
    <3>2. CASE home # own
      <4>1. ts_free'[home] = ts_free[home] \cup {own}
        BY <1>1, <1>4, <3>2
      <4>2. Len(ts_blocked[home]) = Cardinality(ts_free[home]) + 1
        BY <1>1, <1>2, <2>1, <3>2 DEF SpareInv
      <4>3. /\ IsFiniteSet(ts_free[home] \cup {own})
            /\ Cardinality(ts_free[home] \cup {own}) = Cardinality(ts_free[home]) + 1
        BY <2>3, FS_AddElement
      <4> QED BY <2>2, <4>1, <4>2, <4>3
    <3> QED BY <3>1, <3>2
  <2>5. \A t \in Turnstiles : IsFiniteSet(ts_free'[t])
    BY <1>4, <2>1, <2>4 DEF SpareInv
  <2>6. \A t \in Turnstiles : HasWaiters(t)' => Len(ts_blocked'[t]) = Cardinality(ts_free'[t]) + 1
    BY <1>2, <1>4, <2>1, <2>2, <2>4 DEF SpareInv
  <2>7. \A t \in Turnstiles : ~HasWaiters(t)' => ts_free'[t] = {}
    BY <1>2, <1>4, <2>1 DEF SpareInv
  <2>8. \A t \in Turnstiles : ~HasWaiters(t)' =>
          (\E u \in Threads : td_turnstile'[u] = t) \/ (\E v \in Turnstiles : t \in ts_free'[v])
    <3> SUFFICES ASSUME NEW t \in Turnstiles, ~HasWaiters(t)'
                 PROVE  (\E u \in Threads : td_turnstile'[u] = t) \/ (\E v \in Turnstiles : t \in ts_free'[v])
      OBVIOUS
    <3>1. t # home /\ ~HasWaiters(t)
      BY <1>2
    <3>2. CASE t = own
      BY <1>1, <1>4, <3>1, <3>2
    <3>3. CASE t # own
      <4>1. (\E u \in Threads : td_turnstile[u] = t) \/ (\E v \in Turnstiles : t \in ts_free[v])
        BY <2>1, <3>1 DEF SpareInv
      <4>2. \A u \in Threads : td_turnstile[u] = t => u # td /\ td_turnstile'[u] = t
        BY <1>1, <1>4, <3>3
      <4> QED BY <1>4, <4>1, <4>2
    <3> QED BY <3>2, <3>3
  <2> QED BY <2>5, <2>6, <2>7, <2>8 DEF SpareInv
<1> QED BY <1>5, <1>6, <1>7

(* Joining keeps what is known of the queued threads and of the pointers. *)
LEMMA JoinQueues ==
    ASSUME TurnstileInv, NEW td \in Threads, NEW home, NEW own, Joins(td, home, own)
    PROVE  QueueInv' /\ StateInv' /\ SortInv' /\ PointerInv'
<1> USE ConstantsAssumption DEF Turnstiles
<1> DEFINE m == arg[td]
<1>1. /\ home \in Turnstiles /\ own \in Turnstiles /\ m \in Locks /\ own = td_turnstile[td]
      /\ pc[td] = "wait" /\ pc'[td] = "block" /\ td_state[td] = "running" /\ tsp'[td] = home
      /\ td_turnstile'[td] = Null
  BY DEF Joins
<1>2. \A u \in Threads : u # td =>
         /\ pc'[u] = pc[u] /\ tsp'[u] = tsp[u] /\ peer'[u] = peer[u]
         /\ td_turnstile'[u] = td_turnstile[u]
  BY DEF Joins, OthersStay
<1>3. UNCHANGED <<arg, tcp, sched_lock, td_state, td_blocked, mtx_lock>>
  BY DEF Joins, schedVars, lockVars
<1>4. /\ own # Null /\ ~HasWaiters(own) /\ (home # own => HasWaiters(home))
      /\ HasWaiters(home)' /\ \A t \in Turnstiles : t # home => (HasWaiters(t)' <=> HasWaiters(t))
      /\ \A t \in Turnstiles : ~Queued(td, t)
      /\ \A u \in Threads, t \in Turnstiles : Queued(u, t)' <=> Queued(u, t) \/ (u = td /\ t = home)
      /\ ts_lockobj[own] = Null
      /\ \A u \in Threads : ~(pc[u] = "unpend" /\ tsp[u] = own)
      /\ \A u \in Threads : ~(pc[u] = "unpend" /\ tsp[u] = home)
  BY JoinFacts
<1>5. /\ ts_lockobj'[home] = m /\ \A t \in Turnstiles : t # home => ts_lockobj'[t] = ts_lockobj[t]
      /\ (home # own => ts_lockobj[home] = m)
      /\ IsInjective(ts_blocked'[home])
      /\ \A t \in Turnstiles : t # home => ts_blocked'[t] = ts_blocked[t]
  BY DEF Joins
<1>6. \A u \in Threads, t \in Turnstiles : Queued(u, t) => HasWaiters(t) /\ u # td
  BY <1>4, InHand
<1>7. QueueInv'
  <2>1. QueueInv
    BY DEF TurnstileInv
  <2>2. \A t \in Turnstiles : IsInjective(ts_blocked'[t])
    BY <1>5, <2>1 DEF QueueInv
  <2>3. ASSUME NEW t \in Turnstiles, NEW u \in Threads, Queued(u, t)'
        PROVE  /\ td_turnstile'[u] = Null /\ pc'[u] \in {"block", "prop", "sort", "blocked"}
               /\ arg'[u] = ts_lockobj'[t]
    <3>1. CASE u = td
      BY <1>1, <1>3, <1>4, <1>5, <2>3, <3>1
    <3>2. CASE u # td
      <4>1. Queued(u, t) /\ HasWaiters(t)
        BY <1>4, <1>6, <2>3, <3>2
      <4>2. ts_lockobj'[t] = ts_lockobj[t]
        BY <1>4, <1>5, <4>1
      <4> QED BY <1>2, <1>3, <2>1, <3>2, <4>1, <4>2 DEF QueueInv
    <3> QED BY <3>1, <3>2
  <2>4. \A u \in Threads : td_turnstile'[u] = Null => \E t \in Turnstiles : Queued(u, t)'
    BY <1>1, <1>2, <1>4, <2>1 DEF QueueInv
  <2> QED BY <2>2, <2>3, <2>4 DEF QueueInv
<1>8. StateInv'
  <2>1. StateInv /\ td_blocked \in [Threads -> Turnstiles \cup {Null}]
        /\ tsp \in [Threads -> Turnstiles \cup {Null}]
    BY DEF TurnstileInv, TypeOK
  <2>2. \A u \in Threads : td_state[u] = "lock" => u # td
    BY <1>1
  <2>3. Queued(td, home)' /\ \A u \in Threads, t \in Turnstiles : Queued(u, t) => Queued(u, t)'
    BY <1>1, <1>4
  <2>4. Null \notin Turnstiles
    OBVIOUS
  <2>5. ASSUME NEW u \in Threads
        PROVE  /\ td_state'[u] = "lock" => td_blocked'[u] # Null /\ pc'[u] \in {"prop", "sort", "blocked"}
               /\ td_state'[u] # "lock" => td_blocked'[u] = Null
               /\ td_state'[u] = "lock" /\ td_turnstile'[u] = Null =>
                     ts_blocked'[td_blocked'[u]] # <<>> /\ u \in ToSet(ts_blocked'[td_blocked'[u]])
               /\ pc'[u] = "block" => tsp'[u] # Null
               /\ pc'[u] = "block" /\ td_turnstile'[u] = Null => u \in ToSet(ts_blocked'[tsp'[u]])
               /\ pc'[u] = "blocked" /\ td_state'[u] # "lock" => td_turnstile'[u] # Null
               /\ pc'[u] \in {"prop", "sort"} =>
                     sched_lock' = u /\ td_state'[u] = "lock" /\ tsp'[u] # Null
    <3>1. CASE u = td
      BY <1>1, <1>3, <2>1, <2>3, <2>4, <3>1 DEF StateInv, Queued
    <3>2. CASE u # td
      <4>1. /\ pc'[u] = pc[u] /\ tsp'[u] = tsp[u] /\ td_turnstile'[u] = td_turnstile[u]
            /\ td_state'[u] = td_state[u] /\ td_blocked'[u] = td_blocked[u] /\ sched_lock' = sched_lock
        BY <1>2, <1>3, <3>2
      <4>2. td_state[u] = "lock" /\ td_turnstile[u] = Null =>
              u \in ToSet(ts_blocked'[td_blocked[u]]) /\ ts_blocked'[td_blocked[u]] # <<>>
        <5> SUFFICES ASSUME td_state[u] = "lock", td_turnstile[u] = Null
                     PROVE  u \in ToSet(ts_blocked'[td_blocked[u]]) /\ ts_blocked'[td_blocked[u]] # <<>>
          OBVIOUS
        <5>1. td_blocked[u] \in Turnstiles /\ Queued(u, td_blocked[u])
          BY <2>1 DEF StateInv
        <5>2. ts_blocked'[td_blocked[u]] # <<>>
          BY <1>4, <1>6, <5>1 DEF HasWaiters
        <5> QED BY <2>3, <5>1, <5>2 DEF Queued
      <4>3. pc[u] = "block" /\ td_turnstile[u] = Null =>
              u \in ToSet(ts_blocked'[tsp[u]])
        <5> SUFFICES ASSUME pc[u] = "block", td_turnstile[u] = Null
                     PROVE  u \in ToSet(ts_blocked'[tsp[u]])
          OBVIOUS
        <5>1. tsp[u] \in Turnstiles /\ Queued(u, tsp[u])
          BY <2>1 DEF StateInv
        <5> QED BY <2>3, <5>1 DEF Queued
      <4> QED BY <2>1, <4>1, <4>2, <4>3 DEF StateInv, Queued, HasWaiters
    <3> QED BY <3>1, <3>2
  <2> QED BY <2>5 DEF StateInv, Queued
<1>9. SortInv'
  <2>1. SortInv /\ StateInv /\ peer \in [Threads -> Threads \cup {Null}]
        /\ td_blocked \in [Threads -> Turnstiles \cup {Null}]
    BY DEF TurnstileInv, TypeOK
  <2> SUFFICES ASSUME NEW u \in Threads, pc'[u] = "sort"
               PROVE  /\ peer'[u] # Null /\ tcp'[u] \in Chains
                      /\ td_state'[peer'[u]] = "lock" /\ tsp'[u] = td_blocked'[peer'[u]]
                      /\ td_turnstile'[peer'[u]] = Null => tcp'[u] = TC_HASH[ts_lockobj'[tsp'[u]]]
    BY DEF SortInv
  <2>2. u # td /\ pc[u] = "sort" /\ peer'[u] = peer[u] /\ tsp'[u] = tsp[u]
    BY <1>1, <1>2
  <2>3. /\ peer[u] \in Threads /\ tcp[u] \in Chains /\ td_state[peer[u]] = "lock"
        /\ tsp[u] = td_blocked[peer[u]]
        /\ td_turnstile[peer[u]] = Null => tcp[u] = TC_HASH[ts_lockobj[tsp[u]]]
    BY <2>1, <2>2 DEF SortInv
  <2>4. peer[u] # td
    BY <1>1, <2>3
  <2>5. td_turnstile[peer[u]] = Null => ts_lockobj'[tsp[u]] = ts_lockobj[tsp[u]]
    <3>1. td_turnstile[peer[u]] = Null => tsp[u] \in Turnstiles /\ Queued(peer[u], tsp[u])
      BY <2>1, <2>3 DEF StateInv
    <3> QED BY <1>4, <1>5, <1>6, <2>3, <3>1
  <2> QED BY <1>2, <1>3, <2>2, <2>3, <2>4, <2>5
<1>10. PointerInv'
  <2>1. PointerInv /\ tsp \in [Threads -> Turnstiles \cup {Null}]
    BY DEF TurnstileInv, TypeOK
  <2>2. \A u \in Threads : u # td /\ pc[u] \in {"claim", "cmpset", "wait", "unpend"} => arg[u] # m
    BY <1>1, OneOnChain
  <2>3. \A t \in Turnstiles : t # home => (ts_blocked'[t] # <<>> <=> ts_blocked[t] # <<>>)
    BY <1>4 DEF HasWaiters
  <2>4. \A t \in Turnstiles : ts_lockobj'[t] # ts_lockobj[t] => t = home /\ ts_lockobj[t] = Null
    BY <1>4, <1>5
  <2> SUFFICES ASSUME NEW u \in Threads PROVE
        /\ pc'[u] \in {"cmpset", "wait"} /\ tsp'[u] = Null =>
              \A t \in Turnstiles : ts_blocked'[t] # <<>> => ts_lockobj'[t] # arg'[u]
        /\ pc'[u] \in {"cmpset", "wait", "claim"} /\ tsp'[u] # Null =>
              ts_blocked'[tsp'[u]] # <<>> /\ ts_lockobj'[tsp'[u]] = arg'[u]
        /\ pc'[u] \in {"claim", "unpend"} => tsp'[u] # Null
        /\ pc'[u] = "unpend" => ts_lockobj'[tsp'[u]] = arg'[u]
        /\ pc'[u] = "unpend" /\ ts_blocked'[tsp'[u]] # <<>> => mtx_lock'[arg'[u]].owner = Null
        /\ pc'[u] \in {"claimpri", "unpend", "unpendpri", "uswitch", "uyield"} => peer'[u] # Null
    BY DEF PointerInv, HasWaiters, Owner
  <2>5. CASE u = td
    BY <1>1, <2>5
  <2>6. CASE u # td
    <3>1. pc'[u] = pc[u] /\ tsp'[u] = tsp[u] /\ peer'[u] = peer[u] /\ arg'[u] = arg[u]
          /\ mtx_lock'[arg[u]] = mtx_lock[arg[u]]
      BY <1>2, <1>3, <2>6
    <3>2. pc[u] \in {"cmpset", "wait"} /\ tsp[u] = Null =>
             \A t \in Turnstiles : ts_blocked'[t] # <<>> => ts_lockobj'[t] # arg[u]
      BY <1>5, <2>1, <2>2, <2>3, <2>6 DEF PointerInv, HasWaiters
    <3>3. pc[u] \in {"cmpset", "wait", "claim"} /\ tsp[u] # Null =>
             ts_blocked'[tsp[u]] # <<>> /\ ts_lockobj'[tsp[u]] = arg[u]
      <4>1. pc[u] \in {"cmpset", "wait", "claim"} /\ tsp[u] # Null =>
              tsp[u] \in Turnstiles /\ HasWaiters(tsp[u]) /\ ts_lockobj[tsp[u]] = arg[u]
        BY <2>1 DEF PointerInv
      <4> QED BY <1>4, <1>5, <2>2, <2>3, <2>6, <4>1 DEF HasWaiters
    <3>4. pc[u] = "unpend" => /\ tsp[u] \in Turnstiles /\ tsp[u] # Null /\ tsp[u] # home
                              /\ ts_lockobj'[tsp[u]] = arg[u]
      BY <1>4, <1>5, <2>1 DEF PointerInv
    <3>5. pc[u] = "unpend" /\ ts_blocked'[tsp[u]] # <<>> => mtx_lock[arg[u]].owner = Null
      BY <2>1, <2>3, <3>4 DEF PointerInv, HasWaiters, Owner
    <3> QED BY <2>1, <3>1, <3>2, <3>3, <3>4, <3>5 DEF PointerInv
  <2> QED BY <2>5, <2>6
<1> QED BY <1>7, <1>8, <1>9, <1>10

(* turnstile_wait() under the chain lock. *)
LEMMA WaitStep ==
    ASSUME TurnstileInv, NEW td \in Threads, Wait(td)
    PROVE  TurnstileInv'
<1> USE ConstantsAssumption DEF Turnstiles
<1>1. PICK home : Joins(td, home, td_turnstile[td])
  BY WaitJoins
<1> DEFINE m == arg[td]
           own == td_turnstile[td]
<1>2. LockSafe'
  BY WaitSafe DEF TurnstileInv
<1>3. /\ home \in Turnstiles /\ own \in Turnstiles /\ m \in Locks
      /\ pc[td] = "wait" /\ pc'[td] = "block" /\ td_state[td] = "running" /\ tsp'[td] = home
      /\ td_turnstile'[td] = Null /\ td_turnstile' \in [Threads -> Turnstiles \cup {Null}]
  BY <1>1 DEF Joins
<1>4. \A u \in Threads : u # td =>
         /\ pc'[u] = pc[u] /\ tsp'[u] = tsp[u] /\ td_turnstile'[u] = td_turnstile[u]
  BY <1>1 DEF Joins, OthersStay
<1>5. UNCHANGED <<arg, td_state, mtx_lock, ts_pending, pending, tsnoblock>>
  BY <1>1 DEF Joins, schedVars, lockVars
<1>6. /\ ~Committed(td) /\ ~BeingWoken(td) /\ td \notin tsnoblock
      /\ own # Null /\ ~HasWaiters(own) /\ (home # own => HasWaiters(home))
      /\ HasWaiters(home)' /\ \A t \in Turnstiles : t # home => (HasWaiters(t)' <=> HasWaiters(t))
      /\ ts_lockobj[own] = Null /\ ts_pending[own] = {} /\ ts_owner[own] = Null
      /\ \A u \in Threads : ~(pc[u] = "unpend" /\ tsp[u] = own)
      /\ \A u \in Threads : ~(pc[u] = "unpend" /\ tsp[u] = home)
  BY <1>1, JoinFacts
<1>7. /\ ts_lockobj'[home] = m /\ \A t \in Turnstiles : t # home => ts_lockobj'[t] = ts_lockobj[t]
      /\ ts_owner'[home] = Owner(m) /\ \A t \in Turnstiles : t # home => ts_owner'[t] = ts_owner[t]
      /\ (home # own => ts_lockobj[home] = m)
  BY <1>1 DEF Joins
<1>8. TypeOK'
  BY <1>1, <1>2 DEF Joins, TurnstileInv, TypeOK, LockSafe, schedVars, lockVars
<1>9. HashInv' /\ PlaceInv' /\ SpareInv' /\ QueueInv' /\ StateInv' /\ SortInv' /\ PointerInv'
  BY <1>1, JoinPlaces, JoinQueues
<1>10. Contested(m) /\ Owner(m) # Null
  BY <1>3 DEF TurnstileInv, LockSafe, ChainInv
<1>11. ContestedInv'
  <2>1. ContestedInv /\ ts_owner \in [Turnstiles -> Threads \cup {Null}]
        /\ \A t \in Turnstiles : HasWaiters(t) => ts_lockobj[t] \in Locks
    BY DEF TurnstileInv, TypeOK, HashInv
  <2>2. \A t \in Turnstiles : HasWaiters(t)' => mtx_lock[ts_lockobj'[t]].contested = 1
    BY <1>6, <1>7, <1>10, <2>1 DEF ContestedInv, Contested
  <2>3. ASSUME NEW t \in Turnstiles, HasWaiters(t)'
        PROVE  \/ ts_owner'[t] = mtx_lock[ts_lockobj'[t]].owner
               \/ \E u \in Threads : pc'[u] = "unpend" /\ tsp'[u] = t
    <3>1. CASE t = home
      BY <1>7, <3>1 DEF Owner
    <3>2. CASE t # home
      <4>1. \/ ts_owner[t] = mtx_lock[ts_lockobj[t]].owner
            \/ \E u \in Threads : pc[u] = "unpend" /\ tsp[u] = t
        BY <1>6, <2>1, <2>3, <3>2 DEF ContestedInv, Owner
      <4> QED BY <1>3, <1>4, <1>7, <3>2, <4>1
    <3> QED BY <3>1, <3>2
  <2>4. ASSUME NEW t \in Turnstiles, ts_owner'[t] # Null, ~HasWaiters(t)'
        PROVE  pc'[ts_owner'[t]] = "unpend" /\ tsp'[ts_owner'[t]] = t
    <3>1. t # home /\ ~HasWaiters(t) /\ ts_owner'[t] = ts_owner[t] /\ ts_owner[t] \in Threads
      BY <1>6, <1>7, <2>1, <2>4
    <3>2. pc[ts_owner[t]] = "unpend" /\ tsp[ts_owner[t]] = t
      BY <2>1, <2>4, <3>1 DEF ContestedInv
    <3> QED BY <1>3, <1>4, <3>1, <3>2
  <2>5. ASSUME NEW l \in Locks, mtx_lock[l].owner = Null, mtx_lock[l].contested = 1
        PROVE  \E t \in Turnstiles : HasWaiters(t)' /\ ts_lockobj'[t] = l
    <3>1. PICK t \in Turnstiles : HasWaiters(t) /\ ts_lockobj[t] = l
      BY <2>1, <2>5 DEF ContestedInv, Owner, Contested
    <3> QED BY <1>6, <1>7, <3>1
  <2> QED BY <1>5, <2>2, <2>3, <2>4, <2>5 DEF ContestedInv, Owner, Contested
<1>12. UnpendInv'
  <2>1. UnpendInv /\ tsp \in [Threads -> Turnstiles \cup {Null}] /\ PointerInv
        /\ ts_pending \in [Turnstiles -> SUBSET Threads]
    BY DEF TurnstileInv, TypeOK
  <2>2. ASSUME NEW t \in Turnstiles, ts_lockobj'[t] # Null, ~HasWaiters(t)'
        PROVE  \E u \in Threads : pc'[u] = "unpend" /\ tsp'[u] = t
    <3>1. t # home /\ ~HasWaiters(t) /\ ts_lockobj[t] # Null
      BY <1>6, <1>7, <2>2
    <3>2. \E u \in Threads : pc[u] = "unpend" /\ tsp[u] = t
      BY <2>1, <3>1 DEF UnpendInv
    <3> QED BY <1>3, <1>4, <3>2
  <2>3. ASSUME NEW u \in Threads, pc'[u] = "unpend", ts_blocked'[tsp'[u]] = <<>>
        PROVE  \E h \in ts_pending[tsp'[u]] : td_turnstile'[h] = tsp'[u]
    <3>1. u # td /\ pc[u] = "unpend" /\ tsp'[u] = tsp[u] /\ tsp[u] \in Turnstiles
      BY <1>3, <1>4, <2>1, <2>3 DEF PointerInv
    <3>2. ~HasWaiters(tsp[u])
      BY <1>6, <2>3, <3>1 DEF HasWaiters
    <3>3. PICK h \in ts_pending[tsp[u]] : td_turnstile[h] = tsp[u]
      BY <2>1, <3>1, <3>2 DEF UnpendInv
    <3>4. h \in Threads /\ BeingWoken(h)
      BY <2>1, <3>1, <3>3 DEF BeingWoken
    <3>5. h # td
      BY <1>6, <3>4
    <3> QED BY <1>4, <3>1, <3>3, <3>4, <3>5
  <2> QED BY <1>5, <2>2, <2>3 DEF UnpendInv, HasWaiters
<1>13. SleepersInv'
  <2> SUFFICES ASSUME ~Adaptive, NEW l \in Locks, mtx_lock[l].contested = 1
               PROVE  \/ \E t \in Turnstiles : HasWaiters(t)' /\ ts_lockobj'[t] = l
                      \/ \E u \in Threads : pc'[u] = "wait" /\ arg[u] = l
    BY <1>5 DEF SleepersInv, Contested
  <2>1. CASE l = m
    BY <1>3, <1>6, <1>7, <2>1
  <2>2. CASE l # m
    <3>1. \/ \E t \in Turnstiles : HasWaiters(t) /\ ts_lockobj[t] = l
          \/ \E u \in Threads : pc[u] = "wait" /\ arg[u] = l
      BY DEF TurnstileInv, SleepersInv, Contested
    <3> QED BY <1>3, <1>4, <1>6, <1>7, <2>2, <3>1
  <2> QED BY <2>1, <2>2
<1>14. \A u \in Threads : /\ BeingWoken(u)' <=> BeingWoken(u)
                          /\ u # td => (Committed(u)' <=> Committed(u))
  BY <1>4, <1>5 DEF BeingWoken, Committed
<1>15. WakeInv'
  <2>1. WakeInv
    BY DEF TurnstileInv
  <2>2. \A u \in Threads : Committed(u)' /\ td_turnstile'[u] # Null => BeingWoken(u)'
    BY <1>3, <1>4, <1>14, <2>1 DEF WakeInv
  <2>3. \A u \in Threads : BeingWoken(u)' => td_turnstile'[u] # Null /\ Committed(u)'
    BY <1>4, <1>6, <1>14, <2>1 DEF WakeInv
  <2>4. \A u \in Threads : u \in tsnoblock => pc'[u] = "block" /\ td_turnstile'[u] # Null
    BY <1>4, <1>6, <2>1 DEF WakeInv
  <2>5. /\ \A u \in Threads, t \in Turnstiles : pc[u] = "unpend" /\ tsp[u] = t =>
              pc'[u] = "unpend" /\ tsp'[u] = t
        /\ \A u \in Threads : pc[u] = "unpendpri" => pc'[u] = "unpendpri"
    BY <1>3, <1>4
  <2> QED BY <1>5, <2>1, <2>2, <2>3, <2>4, <2>5 DEF WakeInv
<1>16. HeirInv'
  <2> SUFFICES ASSUME NEW l \in Locks, mtx_lock[l].owner = Null, mtx_lock[l].contested = 1
               PROVE  \E u \in Threads : Heir(u, l)'
    BY <1>5 DEF HeirInv, Owner, Contested
  <2>1. PICK u \in Threads : Heir(u, l)
    BY DEF TurnstileInv, HeirInv, Owner, Contested
  <2>2. u # td
    BY <1>3, <2>1 DEF Heir
  <2>3. Heir(u, l)'
    BY <1>4, <1>5, <1>14, <2>1, <2>2 DEF Heir
  <2> QED BY <2>3
<1> QED BY <1>2, <1>8, <1>9, <1>11, <1>12, <1>13, <1>15, <1>16 DEF TurnstileInv

(* What a contested release does under the chain lock: the first waiter    *)
(* td1 leaves the queue of ts for its pending list with the turnstile      *)
(* given, ts itself when the queue runs empty.                             *)
Signals(td, ts, td1, given) ==
    LET m == arg[td] IN
    /\ ts \in Turnstiles /\ td1 \in Threads /\ given \in Turnstiles /\ m \in Locks
    /\ HasWaiters(ts) /\ ts_lockobj[ts] = m /\ Queued(td1, ts) /\ tc_lock[TC_HASH[m]] = Null
    /\ ts_blocked' \in [Turnstiles -> Seq(Threads)]
    /\ ToSet(ts_blocked'[ts]) = ToSet(ts_blocked[ts]) \ {td1} /\ IsInjective(ts_blocked'[ts])
    /\ Len(ts_blocked'[ts]) = Len(ts_blocked[ts]) - 1
    /\ ts_pending' \in [Turnstiles -> SUBSET Threads]
    /\ ts_pending'[ts] = ts_pending[ts] \cup {td1}
    /\ \A t \in Turnstiles : t # ts =>
          ts_blocked'[t] = ts_blocked[t] /\ ts_pending'[t] = ts_pending[t]
    /\ tc_turnstiles' \in [Chains -> SUBSET Turnstiles]
    /\ \A c \in Chains : tc_turnstiles'[c] = IF c = TC_HASH[m] /\ ts_blocked'[ts] = <<>>
                                             THEN tc_turnstiles[c] \ {ts} ELSE tc_turnstiles[c]
    /\ IF ts_blocked'[ts] = <<>> THEN given = ts ELSE given \in ts_free[ts]
    /\ ts_free' \in [Turnstiles -> SUBSET Turnstiles]
    /\ \A t \in Turnstiles : ts_free'[t] = ts_free[t] \ {given}
    /\ td_turnstile' \in [Threads -> Turnstiles \cup {Null}] /\ td_turnstile'[td1] = given
    /\ \A u \in Threads : u # td1 => td_turnstile'[u] = td_turnstile[u]
    /\ tsp' \in [Threads -> Turnstiles \cup {Null}] /\ tsp'[td] = ts
    /\ peer' \in [Threads -> Threads \cup {Null}] /\ peer'[td] = td1
    /\ mtx_lock'[m].owner = Null /\ (mtx_lock'[m].contested = 1 <=> ts_blocked'[ts] # <<>>)
    /\ \A l \in Locks : l # m => mtx_lock'[l] = mtx_lock[l]
    /\ pc[td] = "ulookup" /\ pc'[td] = "unpend" /\ OthersStay(td)
    /\ UNCHANGED <<sched_lock, ts_lockobj, ts_owner, schedVars, arg, tcp, pending>>

(* The contested release is such a step. *)
LEMMA UnlockSignals ==
    ASSUME TurnstileInv, NEW td \in Threads, UnlockSignal(td)
    PROVE  \E ts, td1, given : Signals(td, ts, td1, given)
<1> USE ConstantsAssumption DEF Turnstiles
<1> DEFINE m == arg[td]
           ts == turnstile_lookup(m)
           td1 == Head(ts_blocked[ts])
           rest == Tail(ts_blocked[ts])
<1>1. /\ pc[td] = "ulookup" /\ tc_lock[TC_HASH[m]] = Null /\ ts # Null
      /\ mtx_lock' = [mtx_lock EXCEPT ![m] = ReleasedWord(ts)]
      /\ tsp' = [tsp EXCEPT ![td] = ts] /\ peer' = [peer EXCEPT ![td] = td1]
      /\ pc' = [pc EXCEPT ![td] = "unpend"]
      /\ UNCHANGED <<sched_lock, ts_lockobj, ts_owner, schedVars, arg, tcp, pending>>
  BY DEF UnlockSignal, At, Goto
<1>2. m \in Locks /\ TC_HASH[m] \in Chains
  BY <1>1 DEF TurnstileInv, LockSafe, LockInv
<1>3. ts \in Turnstiles /\ HasWaiters(ts) /\ ts_lockobj[ts] = m
  BY <1>1, <1>2, LookupFinds
<1> HIDE DEF ts
<1>4. /\ pc \in [Threads -> PcValues] /\ mtx_lock \in [Locks -> Word]
      /\ tsp \in [Threads -> Turnstiles \cup {Null}] /\ peer \in [Threads -> Threads \cup {Null}]
      /\ ts_blocked \in [Turnstiles -> Seq(Threads)] /\ ts_pending \in [Turnstiles -> SUBSET Threads]
      /\ td_turnstile \in [Threads -> Turnstiles \cup {Null}]
      /\ ts_free \in [Turnstiles -> SUBSET Turnstiles]
      /\ tc_turnstiles \in [Chains -> SUBSET Turnstiles]
  BY DEF TurnstileInv, LockSafe, LockTypeOK, TypeOK
<1>5. /\ td1 \in Threads /\ Queued(td1, ts) /\ rest \in Seq(Threads)
      /\ ToSet(rest) = ToSet(ts_blocked[ts]) \ {td1} /\ IsInjective(rest)
      /\ Len(rest) = Len(ts_blocked[ts]) - 1
  <2>1. ts_blocked[ts] \in Seq(Threads) /\ ts_blocked[ts] # <<>> /\ IsInjective(ts_blocked[ts])
    BY <1>3, <1>4 DEF TurnstileInv, QueueInv, HasWaiters
  <2>2. Len(rest) = Len(ts_blocked[ts]) - 1
    BY <2>1, EmptySeq, LenProperties, HeadTailProperties
  <2> QED BY <2>1, <2>2, TailProperties DEF Queued
<1> HIDE DEF rest, td1
<1>6. /\ ts_blocked' = [ts_blocked EXCEPT ![ts] = rest]
      /\ ts_pending' = [ts_pending EXCEPT ![ts] = ts_pending[ts] \cup {td1}]
  BY <1>3, <1>4 DEF UnlockSignal, turnstile_signal, rest, td1, ts
<1>7. ts_blocked'[ts] = rest /\ \A t \in Turnstiles : t # ts => ts_blocked'[t] = ts_blocked[t]
  BY <1>3, <1>4, <1>6
<1>8. /\ ts_blocked' \in [Turnstiles -> Seq(Threads)] /\ ts_pending' \in [Turnstiles -> SUBSET Threads]
      /\ ts_pending'[ts] = ts_pending[ts] \cup {td1}
      /\ \A t \in Turnstiles : t # ts => ts_pending'[t] = ts_pending[t]
  BY <1>3, <1>4, <1>5, <1>6
<1>9. PICK given \in Turnstiles :
        /\ td_turnstile' = [td_turnstile EXCEPT ![td1] = given]
        /\ IF rest = <<>> THEN given = ts ELSE given \in ts_free[ts]
        /\ ts_free' \in [Turnstiles -> SUBSET Turnstiles]
        /\ \A t \in Turnstiles : ts_free'[t] = ts_free[t] \ {given}
        /\ tc_turnstiles' \in [Chains -> SUBSET Turnstiles]
        /\ \A c \in Chains : tc_turnstiles'[c] = IF c = TC_HASH[m] /\ rest = <<>>
                                                 THEN tc_turnstiles[c] \ {ts} ELSE tc_turnstiles[c]
  <2>0. /\ \A t \in Turnstiles : \A s \in ts_free[t] : ~HasWaiters(s)
        /\ \A t, v \in Turnstiles : \A s \in ts_free[t] : s \in ts_free[v] => t = v
    BY DEF TurnstileInv, PlaceInv
  <2>1. CASE rest = <<>>
    <3>1. /\ tc_turnstiles' = [tc_turnstiles EXCEPT ![TC_HASH[m]] = @ \ {ts}]
          /\ td_turnstile' = [td_turnstile EXCEPT ![td1] = ts] /\ UNCHANGED ts_free
      BY <2>1 DEF UnlockSignal, turnstile_signal, rest, td1, ts
    <3>2. \A t \in Turnstiles : ts \notin ts_free[t]
      BY <1>3, <2>0
    <3>3. /\ tc_turnstiles' \in [Chains -> SUBSET Turnstiles]
          /\ \A c \in Chains : tc_turnstiles'[c] = IF c = TC_HASH[m] THEN tc_turnstiles[c] \ {ts}
                                                   ELSE tc_turnstiles[c]
      BY <1>2, <1>4, <3>1
    <3>4. /\ ts_free' \in [Turnstiles -> SUBSET Turnstiles]
          /\ \A t \in Turnstiles : ts_free'[t] = ts_free[t] \ {ts}
      BY <1>4, <3>1, <3>2
    <3> QED BY <1>3, <2>1, <3>1, <3>3, <3>4
  <2>2. CASE rest # <<>>
    <3>1. PICK spare \in ts_free[ts] :
            /\ ts_free' = [ts_free EXCEPT ![ts] = @ \ {spare}]
            /\ td_turnstile' = [td_turnstile EXCEPT ![td1] = spare] /\ UNCHANGED tc_turnstiles
      BY <2>2 DEF UnlockSignal, turnstile_signal, rest, td1, ts
    <3>2. spare \in Turnstiles /\ \A t \in Turnstiles : t # ts => spare \notin ts_free[t]
      BY <1>3, <1>4, <2>0
    <3>3. /\ ts_free' \in [Turnstiles -> SUBSET Turnstiles]
          /\ \A t \in Turnstiles : ts_free'[t] = ts_free[t] \ {spare}
      BY <1>3, <1>4, <3>1, <3>2
    <3> QED BY <1>4, <2>2, <3>1, <3>2, <3>3
  <2> QED BY <2>1, <2>2
<1>10. /\ td_turnstile' \in [Threads -> Turnstiles \cup {Null}] /\ td_turnstile'[td1] = given
       /\ \A u \in Threads : u # td1 => td_turnstile'[u] = td_turnstile[u]
  BY <1>4, <1>5, <1>9
<1>11. /\ mtx_lock'[m].owner = Null /\ (mtx_lock'[m].contested = 1 <=> rest # <<>>)
       /\ \A l \in Locks : l # m => mtx_lock'[l] = mtx_lock[l]
  <2>1. ReleasedWord(ts) = IF rest = <<>> THEN MTX_UNOWNED ELSE MTX_CONTESTED
    BY DEF ReleasedWord, rest
  <2>2. mtx_lock'[m] = ReleasedWord(ts) /\ \A l \in Locks : l # m => mtx_lock'[l] = mtx_lock[l]
    BY <1>1, <1>2, <1>4
  <2> QED BY <2>1, <2>2, WordFacts
<1>12. /\ tsp' \in [Threads -> Turnstiles \cup {Null}] /\ tsp'[td] = ts
       /\ peer' \in [Threads -> Threads \cup {Null}] /\ peer'[td] = td1
       /\ pc'[td] = "unpend" /\ OthersStay(td)
  BY <1>1, <1>3, <1>4, <1>5 DEF OthersStay
<1>13. Signals(td, ts, td1, given)
  BY <1>1, <1>2, <1>3, <1>5, <1>7, <1>8, <1>9, <1>10, <1>11, <1>12 DEF Signals
<1> QED BY <1>13

(* What the signalled thread was, and which queues the signal changes. *)
LEMMA SignalFacts ==
    ASSUME TurnstileInv, NEW td \in Threads, NEW ts, NEW td1, NEW given, Signals(td, ts, td1, given)
    PROVE  /\ td1 # td /\ td_turnstile[td1] = Null /\ arg[td1] = arg[td]
           /\ pc[td1] \in {"block", "prop", "sort", "blocked"}
           /\ td1 \notin tsnoblock /\ ~BeingWoken(td1) /\ Committed(td1)
           /\ ts_owner[ts] = td /\ ts_pending[ts] = {}
           /\ \A u \in Threads : ~(pc[u] = "unpend" /\ tsp[u] = ts)
           /\ \A u \in Threads : arg[u] = arg[td] => pc[u] \notin {"claim", "cmpset", "wait", "unpend"}
           /\ \A u \in Threads, t \in Turnstiles : Queued(u, t)' <=> Queued(u, t) /\ u # td1
           /\ \A t \in Turnstiles : t # ts => (HasWaiters(t)' <=> HasWaiters(t))
           /\ ~HasWaiters(given)' /\ given # Null
           /\ \A u \in Threads : td_turnstile[u] # given
           /\ \A t \in Turnstiles : ts \notin ts_free[t]
           /\ \A t \in Turnstiles : HasWaiters(t) /\ t # ts => ts_lockobj[t] # arg[td]
<1> USE ConstantsAssumption DEF Turnstiles
<1> DEFINE m == arg[td]
<1>1. /\ ts \in Turnstiles /\ td1 \in Threads /\ given \in Turnstiles /\ m \in Locks
      /\ HasWaiters(ts) /\ ts_lockobj[ts] = m /\ Queued(td1, ts) /\ tc_lock[TC_HASH[m]] = Null
      /\ pc[td] = "ulookup"
  BY DEF Signals
<1>2. /\ td_turnstile[td1] = Null /\ arg[td1] = m /\ pc[td1] \in {"block", "prop", "sort", "blocked"}
  BY <1>1 DEF TurnstileInv, QueueInv
<1>3. td1 \notin tsnoblock /\ ~BeingWoken(td1)
  BY <1>1, <1>2 DEF TurnstileInv, WakeInv
<1>4. Committed(td1)
  BY <1>1, <1>2, <1>3 DEF TurnstileInv, StateInv, Committed
<1>5. /\ ts_owner[ts] = Owner(m) /\ \A u \in Threads : ~(pc[u] = "unpend" /\ tsp[u] = ts)
  BY <1>1, OwnerKnown
<1>6. Owner(m) = td
  BY <1>1 DEF TurnstileInv, LockSafe, LockInv
<1>7. ts_pending[ts] = {}
  <2>1. ASSUME NEW h \in ts_pending[ts] PROVE FALSE
    BY <1>1, <1>5, <2>1 DEF TurnstileInv, WakeInv, TypeOK
  <2> QED BY <2>1
<1>8. \A u \in Threads : arg[u] = m => pc[u] \notin {"claim", "cmpset", "wait", "unpend"}
  BY <1>1, NobodyOnChain
<1>9. \A t \in Turnstiles : HasWaiters(t) /\ t # ts => ts_lockobj[t] # m
  BY <1>1 DEF TurnstileInv, HashInv
<1>10. \A t \in Turnstiles : Queued(td1, t) => t = ts
  <2>1. \A t \in Turnstiles : Queued(td1, t) => HasWaiters(t) /\ ts_lockobj[t] = m
    BY <1>1, <1>2, InHand DEF TurnstileInv, QueueInv
  <2> QED BY <1>9, <2>1
<1>11. /\ \A u \in Threads, t \in Turnstiles : Queued(u, t)' <=> Queued(u, t) /\ u # td1
       /\ \A t \in Turnstiles : t # ts => (HasWaiters(t)' <=> HasWaiters(t))
  <2>1. /\ ToSet(ts_blocked'[ts]) = ToSet(ts_blocked[ts]) \ {td1}
        /\ \A t \in Turnstiles : t # ts => ts_blocked'[t] = ts_blocked[t]
    BY DEF Signals
  <2> QED BY <1>10, <2>1 DEF Queued, HasWaiters
<1>12. /\ \A t \in Turnstiles : ts \notin ts_free[t]
       /\ \A u \in Threads : td_turnstile[u] # ts
       /\ \A s \in ts_free[ts] : s # ts /\ ~HasWaiters(s) /\ \A u \in Threads : td_turnstile[u] # s
  BY <1>1 DEF TurnstileInv, PlaceInv
<1>13. ~HasWaiters(given)' /\ \A u \in Threads : td_turnstile[u] # given
  <2>1. IF ts_blocked'[ts] = <<>> THEN given = ts ELSE given \in ts_free[ts]
    BY DEF Signals
  <2>2. CASE ts_blocked'[ts] = <<>>
    BY <1>12, <2>1, <2>2 DEF HasWaiters
  <2>3. CASE ts_blocked'[ts] # <<>>
    BY <1>1, <1>11, <1>12, <2>1, <2>3
  <2> QED BY <2>2, <2>3
<1> QED BY <1>1, <1>2, <1>3, <1>4, <1>5, <1>6, <1>7, <1>8, <1>9, <1>11, <1>12, <1>13

(* The signal keeps the places of the turnstiles. *)
LEMMA SignalPlaces ==
    ASSUME TurnstileInv, NEW td \in Threads, NEW ts, NEW td1, NEW given, Signals(td, ts, td1, given)
    PROVE  HashInv' /\ PlaceInv' /\ SpareInv'
<1> USE ConstantsAssumption DEF Turnstiles
<1> DEFINE m == arg[td]
<1>1. /\ ts \in Turnstiles /\ td1 \in Threads /\ given \in Turnstiles /\ m \in Locks
      /\ HasWaiters(ts) /\ ts_lockobj[ts] = m /\ UNCHANGED ts_lockobj
      /\ IF ts_blocked'[ts] = <<>> THEN given = ts ELSE given \in ts_free[ts]
  BY DEF Signals
<1>2. /\ td_turnstile[td1] = Null /\ given # Null
      /\ \A t \in Turnstiles : t # ts => (HasWaiters(t)' <=> HasWaiters(t))
      /\ ts_blocked'[given] = <<>> /\ \A u \in Threads : td_turnstile[u] # given
      /\ \A t \in Turnstiles : ts \notin ts_free[t]
  BY SignalFacts DEF HasWaiters
<1>3. /\ \A c \in Chains : tc_turnstiles'[c] = IF c = TC_HASH[m] /\ ts_blocked'[ts] = <<>>
                                               THEN tc_turnstiles[c] \ {ts} ELSE tc_turnstiles[c]
      /\ \A t \in Turnstiles : ts_free'[t] = ts_free[t] \ {given}
      /\ td_turnstile'[td1] = given /\ \A u \in Threads : u # td1 => td_turnstile'[u] = td_turnstile[u]
  BY DEF Signals
<1>4. /\ HashInv /\ PlaceInv /\ SpareInv /\ tc_turnstiles \in [Chains -> SUBSET Turnstiles]
      /\ td_turnstile \in [Threads -> Turnstiles \cup {Null}]
      /\ ts_free \in [Turnstiles -> SUBSET Turnstiles] /\ ts_blocked \in [Turnstiles -> Seq(Threads)]
  BY DEF TurnstileInv, TypeOK
<1>5. HashInv'
  <2>1. \A c \in Chains : \A t \in tc_turnstiles'[c] :
           ts_lockobj[t] \in Locks /\ TC_HASH[ts_lockobj[t]] = c /\ HasWaiters(t)'
    <3> SUFFICES ASSUME NEW c \in Chains, NEW t \in tc_turnstiles'[c]
                 PROVE  ts_lockobj[t] \in Locks /\ TC_HASH[ts_lockobj[t]] = c /\ HasWaiters(t)'
      OBVIOUS
    <3>0. tc_turnstiles'[c] = IF c = TC_HASH[m] /\ ts_blocked'[ts] = <<>>
                               THEN tc_turnstiles[c] \ {ts} ELSE tc_turnstiles[c]
      BY <1>3
    <3>1. t \in tc_turnstiles[c] /\ (t = ts => c # TC_HASH[m] \/ ts_blocked'[ts] # <<>>)
      BY <3>0
    <3>2. t \in Turnstiles /\ ts_lockobj[t] \in Locks /\ TC_HASH[ts_lockobj[t]] = c /\ HasWaiters(t)
      BY <1>4, <3>1 DEF HashInv
    <3> QED BY <1>1, <1>2, <3>1, <3>2 DEF HasWaiters
  <2>2. \A t \in Turnstiles : HasWaiters(t)' =>
           ts_lockobj[t] \in Locks /\ t \in tc_turnstiles'[TC_HASH[ts_lockobj[t]]]
    <3> SUFFICES ASSUME NEW t \in Turnstiles, HasWaiters(t)'
                 PROVE  ts_lockobj[t] \in Locks /\ t \in tc_turnstiles'[TC_HASH[ts_lockobj[t]]]
      OBVIOUS
    <3>0. HasWaiters(t)
      BY <1>1, <1>2
    <3>1. ts_lockobj[t] \in Locks /\ t \in tc_turnstiles[TC_HASH[ts_lockobj[t]]]
          /\ TC_HASH[ts_lockobj[t]] \in Chains
      BY <1>4, <3>0 DEF HashInv
    <3>2. t = ts => ts_blocked'[ts] # <<>>
      BY DEF HasWaiters
    <3> QED BY <1>3, <3>1, <3>2
  <2>3. \A t, v \in Turnstiles :
           HasWaiters(t)' /\ HasWaiters(v)' /\ ts_lockobj[t] = ts_lockobj[v] => t = v
    <3>1. \A t \in Turnstiles : HasWaiters(t)' => HasWaiters(t)
      BY <1>1, <1>2
    <3> QED BY <1>4, <3>1 DEF HashInv
  <2> QED BY <1>1, <2>1, <2>2, <2>3 DEF HashInv
<1>6. PlaceInv'
  <2>1. \A u, w \in Threads : td_turnstile'[u] # Null /\ td_turnstile'[u] = td_turnstile'[w] => u = w
    <3> SUFFICES ASSUME NEW u \in Threads, NEW w \in Threads, td_turnstile'[u] # Null,
                        td_turnstile'[u] = td_turnstile'[w]
                 PROVE  u = w
      OBVIOUS
    <3>1. CASE u # td1 /\ w # td1
      <4>1. td_turnstile'[u] = td_turnstile[u] /\ td_turnstile'[w] = td_turnstile[w]
        BY <1>3, <3>1
      <4> QED BY <1>4, <4>1 DEF PlaceInv
    <3>2. CASE u = td1 \/ w = td1
      BY <1>2, <1>3, <3>2
    <3> QED BY <3>1, <3>2
  <2>2. \A t \in Turnstiles : HasWaiters(t)' => HasWaiters(t)
    BY <1>1, <1>2
  <2>3. \A u \in Threads : td_turnstile'[u] # Null => ts_blocked'[td_turnstile'[u]] = <<>>
    <3> SUFFICES ASSUME NEW u \in Threads, td_turnstile'[u] # Null PROVE ts_blocked'[td_turnstile'[u]] = <<>>
      OBVIOUS
    <3>1. CASE u = td1
      BY <1>2, <1>3, <3>1
    <3>2. CASE u # td1
      <4>1. td_turnstile'[u] = td_turnstile[u] /\ td_turnstile[u] \in Turnstiles
            /\ ~HasWaiters(td_turnstile[u])
        BY <1>3, <1>4, <3>2 DEF PlaceInv
      <4> QED BY <2>2, <4>1 DEF HasWaiters
    <3> QED BY <3>1, <3>2
  <2>4. \A u \in Threads, t \in Turnstiles : td_turnstile'[u] \notin ts_free'[t]
    BY <1>3, <1>4 DEF PlaceInv
  <2>5. \A t \in Turnstiles : \A s \in ts_free'[t] : ~HasWaiters(s)'
    BY <1>3, <1>4, <2>2 DEF PlaceInv
  <2>6. \A t, v \in Turnstiles : \A s \in ts_free'[t] : s \in ts_free'[v] => t = v
    BY <1>3, <1>4 DEF PlaceInv
  <2> QED BY <2>1, <2>3, <2>4, <2>5, <2>6 DEF PlaceInv, HasWaiters
<1>7. SpareInv'
  <2>1. /\ Len(ts_blocked'[ts]) = Len(ts_blocked[ts]) - 1 /\ ts_blocked' \in [Turnstiles -> Seq(Threads)]
        /\ \A t \in Turnstiles : t # ts => ts_blocked'[t] = ts_blocked[t]
    BY DEF Signals
  <2>2. IsFiniteSet(ts_free[ts]) /\ Len(ts_blocked[ts]) = Cardinality(ts_free[ts]) + 1
    BY <1>1, <1>4 DEF SpareInv
  <2>3. \A t \in Turnstiles : t # ts => ts_free'[t] = ts_free[t]
    <3> SUFFICES ASSUME NEW t \in Turnstiles, t # ts PROVE given \notin ts_free[t]
      <4>1. \A v \in Turnstiles : given \notin ts_free[v] => ts_free'[v] = ts_free[v]
        <5> SUFFICES ASSUME NEW v \in Turnstiles, given \notin ts_free[v] PROVE ts_free'[v] = ts_free[v]
          OBVIOUS
        <5>1. ts_free'[v] = ts_free[v] \ {given}
          BY <1>3
        <5> QED BY <5>1
      <4> QED BY <4>1
    <3>1. given = ts \/ given \in ts_free[ts]
      BY <1>1
    <3> QED BY <1>1, <1>2, <1>4, <3>1 DEF PlaceInv
  <2>4. CASE ts_blocked'[ts] = <<>>
    <3>1. ts_free'[ts] = ts_free[ts]
      <4>1. given = ts /\ ts_free'[ts] = ts_free[ts] \ {given} /\ ts \notin ts_free[ts]
        BY <1>1, <1>2, <1>3, <2>4
      <4> QED BY <4>1
    <3>2. Cardinality(ts_free[ts]) = 0
      <4>1. Len(ts_blocked'[ts]) = 0
        BY <2>4
      <4>2. Cardinality(ts_free[ts]) \in Nat
        BY <2>2, FS_CardinalityType
      <4> QED BY <2>1, <2>2, <4>1, <4>2
    <3>3. ts_free'[ts] = {}
      BY <2>2, <3>1, <3>2, FS_EmptySet
    <3>4. \A t \in Turnstiles : IsFiniteSet(ts_free'[t])
      BY <1>4, <2>3, <3>3, FS_EmptySet DEF SpareInv
    <3>5. \A t \in Turnstiles : HasWaiters(t)' => Len(ts_blocked'[t]) = Cardinality(ts_free'[t]) + 1
      BY <1>2, <1>4, <2>1, <2>3, <2>4 DEF SpareInv, HasWaiters
    <3>6. \A t \in Turnstiles : ~HasWaiters(t)' => ts_free'[t] = {}
      BY <1>2, <1>4, <2>3, <3>3 DEF SpareInv
    <3>7. ASSUME NEW t \in Turnstiles, ~HasWaiters(t)'
          PROVE  (\E u \in Threads : td_turnstile'[u] = t) \/ (\E v \in Turnstiles : t \in ts_free'[v])
      <4>1. CASE t = ts
        BY <1>1, <1>3, <2>4, <4>1
      <4>2. CASE t # ts
        <5>1. (\E u \in Threads : td_turnstile[u] = t) \/ (\E v \in Turnstiles : t \in ts_free[v])
          BY <1>2, <1>4, <3>7, <4>2 DEF SpareInv
        <5>2. \A u \in Threads : td_turnstile[u] = t => td_turnstile'[u] = t
          BY <1>2, <1>3, <1>4
        <5> QED BY <2>3, <3>1, <5>1, <5>2
      <4> QED BY <4>1, <4>2
    <3> QED BY <3>4, <3>5, <3>6, <3>7 DEF SpareInv
  <2>5. CASE ts_blocked'[ts] # <<>>
    <3>1. given \in ts_free[ts] /\ ts_free'[ts] = ts_free[ts] \ {given}
      BY <1>1, <1>3, <2>5
    <3>2. /\ IsFiniteSet(ts_free'[ts]) /\ Cardinality(ts_free'[ts]) = Cardinality(ts_free[ts]) - 1
      BY <2>2, <3>1, FS_RemoveElement
    <3>3. Cardinality(ts_free[ts]) \in Nat
      BY <2>2, FS_CardinalityType
    <3>4. \A t \in Turnstiles : IsFiniteSet(ts_free'[t])
      BY <1>4, <2>3, <3>2 DEF SpareInv
    <3>5. \A t \in Turnstiles : HasWaiters(t)' => Len(ts_blocked'[t]) = Cardinality(ts_free'[t]) + 1
      <4>1. Len(ts_blocked'[ts]) = Cardinality(ts_free'[ts]) + 1
        BY <2>1, <2>2, <3>2, <3>3
      <4> QED BY <1>2, <1>4, <2>1, <2>3, <4>1 DEF SpareInv
    <3>6. \A t \in Turnstiles : ~HasWaiters(t)' => t # ts /\ ts_free'[t] = {}
      BY <1>2, <1>4, <2>3, <2>5 DEF SpareInv, HasWaiters
    <3>7. ASSUME NEW t \in Turnstiles, ~HasWaiters(t)'
          PROVE  (\E u \in Threads : td_turnstile'[u] = t) \/ (\E v \in Turnstiles : t \in ts_free'[v])
      <4>1. (\E u \in Threads : td_turnstile[u] = t) \/ (\E v \in Turnstiles : t \in ts_free[v])
        BY <1>2, <1>4, <3>6, <3>7 DEF SpareInv
      <4>2. \A u \in Threads : td_turnstile[u] = t => td_turnstile'[u] = t
        BY <1>2, <1>3, <1>4
      <4> QED BY <1>1, <1>3, <4>1, <4>2
    <3> QED BY <3>4, <3>5, <3>6, <3>7 DEF SpareInv
  <2> QED BY <2>4, <2>5
<1> QED BY <1>5, <1>6, <1>7

(* The signal keeps what is known of the queued threads and the pointers. *)
LEMMA SignalQueues ==
    ASSUME TurnstileInv, NEW td \in Threads, NEW ts, NEW td1, NEW given, Signals(td, ts, td1, given)
    PROVE  QueueInv' /\ StateInv' /\ SortInv' /\ PointerInv'
<1> USE ConstantsAssumption DEF Turnstiles
<1> DEFINE m == arg[td]
<1>1. /\ ts \in Turnstiles /\ td1 \in Threads /\ m \in Locks /\ ts_lockobj[ts] = m
      /\ pc[td] = "ulookup" /\ pc'[td] = "unpend" /\ tsp'[td] = ts /\ peer'[td] = td1
      /\ td_turnstile'[td1] = given
      /\ mtx_lock'[m].owner = Null /\ \A l \in Locks : l # m => mtx_lock'[l] = mtx_lock[l]
  BY DEF Signals
<1>2. /\ \A u \in Threads : u # td => pc'[u] = pc[u] /\ tsp'[u] = tsp[u] /\ peer'[u] = peer[u]
      /\ \A u \in Threads : u # td1 => td_turnstile'[u] = td_turnstile[u]
  BY DEF Signals, OthersStay
<1>3. UNCHANGED <<arg, tcp, sched_lock, td_state, td_blocked, ts_lockobj>>
  BY DEF Signals, schedVars
<1>4. /\ td1 # td /\ given # Null
      /\ \A u \in Threads, t \in Turnstiles : Queued(u, t)' <=> Queued(u, t) /\ u # td1
      /\ \A t \in Turnstiles : t # ts => (HasWaiters(t)' <=> HasWaiters(t))
      /\ \A u \in Threads : ~(pc[u] = "unpend" /\ tsp[u] = ts)
      /\ \A u \in Threads : arg[u] = m => pc[u] \notin {"claim", "cmpset", "wait", "unpend"}
  BY SignalFacts
<1>5. QueueInv'
  <2>1. QueueInv /\ Null \notin Turnstiles
    BY DEF TurnstileInv
  <2>2. \A t \in Turnstiles : IsInjective(ts_blocked'[t])
    BY <2>1 DEF Signals, QueueInv
  <2>3. ASSUME NEW t \in Turnstiles, NEW u \in Threads, Queued(u, t)'
        PROVE  /\ td_turnstile'[u] = Null /\ pc'[u] \in {"block", "prop", "sort", "blocked"}
               /\ arg'[u] = ts_lockobj'[t]
    <3>1. Queued(u, t) /\ u # td1
      BY <1>4, <2>3
    <3>2. /\ td_turnstile[u] = Null /\ pc[u] \in {"block", "prop", "sort", "blocked"}
          /\ arg[u] = ts_lockobj[t]
      BY <2>1, <3>1 DEF QueueInv
    <3> QED BY <1>1, <1>2, <1>3, <3>1, <3>2
  <2>4. \A u \in Threads : td_turnstile'[u] = Null => \E t \in Turnstiles : Queued(u, t)'
    BY <1>1, <1>2, <1>4, <2>1 DEF QueueInv
  <2> QED BY <2>2, <2>3, <2>4 DEF QueueInv
<1>6. StateInv'
  <2>1. StateInv /\ td_blocked \in [Threads -> Turnstiles \cup {Null}]
        /\ tsp \in [Threads -> Turnstiles \cup {Null}]
    BY DEF TurnstileInv, TypeOK
  <2>2. ASSUME NEW u \in Threads
        PROVE  /\ td_state'[u] = "lock" => td_blocked'[u] # Null /\ pc'[u] \in {"prop", "sort", "blocked"}
               /\ td_state'[u] # "lock" => td_blocked'[u] = Null
               /\ td_state'[u] = "lock" /\ td_turnstile'[u] = Null => u \in ToSet(ts_blocked'[td_blocked'[u]])
               /\ pc'[u] = "block" => tsp'[u] # Null
               /\ pc'[u] = "block" /\ td_turnstile'[u] = Null => u \in ToSet(ts_blocked'[tsp'[u]])
               /\ pc'[u] = "blocked" /\ td_state'[u] # "lock" => td_turnstile'[u] # Null
               /\ pc'[u] \in {"prop", "sort"} =>
                     sched_lock' = u /\ td_state'[u] = "lock" /\ tsp'[u] # Null
    <3>1. CASE u = td
      BY <1>1, <1>3, <2>1, <3>1 DEF StateInv
    <3>2. CASE u # td
      <4>1. /\ pc'[u] = pc[u] /\ tsp'[u] = tsp[u]
            /\ td_state'[u] = td_state[u] /\ td_blocked'[u] = td_blocked[u] /\ sched_lock' = sched_lock
            /\ (td_turnstile'[u] = Null => td_turnstile[u] = Null /\ u # td1)
            /\ (td_turnstile[u] # Null => td_turnstile'[u] # Null)
        BY <1>1, <1>2, <1>3, <1>4, <3>2
      <4>2. td_state[u] = "lock" /\ td_turnstile'[u] = Null => Queued(u, td_blocked[u])'
        BY <1>4, <2>1, <4>1 DEF StateInv
      <4>3. pc[u] = "block" /\ td_turnstile'[u] = Null => Queued(u, tsp[u])'
        BY <1>4, <2>1, <4>1 DEF StateInv
      <4> QED BY <2>1, <4>1, <4>2, <4>3 DEF StateInv, Queued
    <3> QED BY <3>1, <3>2
  <2> QED BY <2>2 DEF StateInv, Queued
<1>7. SortInv'
  <2> SUFFICES ASSUME NEW u \in Threads, pc'[u] = "sort"
               PROVE  /\ peer'[u] # Null /\ tcp'[u] \in Chains
                      /\ td_state'[peer'[u]] = "lock" /\ tsp'[u] = td_blocked'[peer'[u]]
                      /\ td_turnstile'[peer'[u]] = Null => tcp'[u] = TC_HASH[ts_lockobj'[tsp'[u]]]
    BY DEF SortInv
  <2>1. u # td /\ pc[u] = "sort" /\ peer'[u] = peer[u] /\ tsp'[u] = tsp[u]
    BY <1>1, <1>2
  <2>2. /\ peer[u] \in Threads /\ peer[u] # Null /\ tcp[u] \in Chains /\ td_state[peer[u]] = "lock"
        /\ tsp[u] = td_blocked[peer[u]]
        /\ td_turnstile[peer[u]] = Null => tcp[u] = TC_HASH[ts_lockobj[tsp[u]]]
    BY <2>1 DEF TurnstileInv, TypeOK, SortInv
  <2>3. td_turnstile'[peer[u]] = Null => td_turnstile[peer[u]] = Null
    BY <1>1, <1>2, <1>4, <2>2
  <2> QED BY <1>3, <2>1, <2>2, <2>3
<1>8. PointerInv'
  <2>1. PointerInv /\ tsp \in [Threads -> Turnstiles \cup {Null}]
        /\ \A u \in Threads : pc[u] = "unpend" => arg[u] \in Locks
    BY DEF TurnstileInv, TypeOK, LockSafe, LockInv
  <2>2. \A t \in Turnstiles : t # ts => (ts_blocked'[t] # <<>> <=> ts_blocked[t] # <<>>)
    BY <1>4 DEF HasWaiters
  <2> SUFFICES ASSUME NEW u \in Threads PROVE
        /\ pc'[u] \in {"cmpset", "wait"} /\ tsp'[u] = Null =>
              \A t \in Turnstiles : ts_blocked'[t] # <<>> => ts_lockobj[t] # arg[u]
        /\ pc'[u] \in {"cmpset", "wait", "claim"} /\ tsp'[u] # Null =>
              ts_blocked'[tsp'[u]] # <<>> /\ ts_lockobj[tsp'[u]] = arg[u]
        /\ pc'[u] \in {"claim", "unpend"} => tsp'[u] # Null
        /\ pc'[u] = "unpend" => ts_lockobj[tsp'[u]] = arg[u]
        /\ pc'[u] = "unpend" /\ ts_blocked'[tsp'[u]] # <<>> => mtx_lock'[arg[u]].owner = Null
        /\ pc'[u] \in {"claimpri", "unpend", "unpendpri", "uswitch", "uyield"} => peer'[u] # Null
    BY <1>3 DEF PointerInv, HasWaiters, Owner
  <2>3. CASE u = td
    BY <1>1, <2>3
  <2>4. CASE u # td
    <3>1. pc'[u] = pc[u] /\ tsp'[u] = tsp[u] /\ peer'[u] = peer[u]
      BY <1>2, <2>4
    <3>2. pc[u] \in {"cmpset", "wait"} /\ tsp[u] = Null =>
             \A t \in Turnstiles : ts_blocked'[t] # <<>> => ts_lockobj[t] # arg[u]
      BY <1>1, <1>4, <2>1, <2>2 DEF PointerInv, HasWaiters
    <3>3. pc[u] \in {"cmpset", "wait", "claim"} /\ tsp[u] # Null =>
             ts_blocked'[tsp[u]] # <<>> /\ ts_lockobj[tsp[u]] = arg[u]
      BY <1>1, <1>4, <2>1, <2>2 DEF PointerInv, HasWaiters
    <3>4. pc[u] = "unpend" => tsp[u] \in Turnstiles /\ tsp[u] # ts /\ arg[u] # m
      BY <1>4, <2>1 DEF PointerInv
    <3>5. pc[u] = "unpend" /\ ts_blocked'[tsp[u]] # <<>> => mtx_lock'[arg[u]].owner = Null
      BY <1>1, <2>1, <2>2, <3>4 DEF PointerInv, HasWaiters, Owner
    <3> QED BY <2>1, <3>1, <3>2, <3>3, <3>5 DEF PointerInv
  <2> QED BY <2>3, <2>4
<1> QED BY <1>5, <1>6, <1>7, <1>8

(* turnstile_signal() and the release of the word. *)
LEMMA UnlockSignalStep ==
    ASSUME TurnstileInv, NEW td \in Threads, UnlockSignal(td)
    PROVE  TurnstileInv'
<1> USE ConstantsAssumption DEF Turnstiles
<1>1. PICK ts, td1, given : Signals(td, ts, td1, given)
  BY UnlockSignals
<1> DEFINE m == arg[td]
<1>2. LockSafe'
  BY UnlockSignalSafe DEF TurnstileInv
<1>3. /\ ts \in Turnstiles /\ td1 \in Threads /\ given \in Turnstiles /\ m \in Locks
      /\ ts_lockobj[ts] = m /\ HasWaiters(ts)
      /\ pc[td] = "ulookup" /\ pc'[td] = "unpend" /\ tsp'[td] = ts
      /\ td_turnstile'[td1] = given /\ (ts_blocked'[ts] = <<>> => given = ts)
      /\ mtx_lock'[m].owner = Null /\ (mtx_lock'[m].contested = 1 <=> ts_blocked'[ts] # <<>>)
      /\ \A l \in Locks : l # m => mtx_lock'[l] = mtx_lock[l]
      /\ ts_pending'[ts] = ts_pending[ts] \cup {td1}
      /\ \A t \in Turnstiles : t # ts => ts_pending'[t] = ts_pending[t]
  BY <1>1 DEF Signals
<1>4. /\ \A u \in Threads : u # td => pc'[u] = pc[u] /\ tsp'[u] = tsp[u]
      /\ \A u \in Threads : u # td1 => td_turnstile'[u] = td_turnstile[u]
  BY <1>1 DEF Signals, OthersStay
<1>5. UNCHANGED <<arg, td_state, tsnoblock, pending, ts_lockobj, ts_owner>>
  BY <1>1 DEF Signals, schedVars
<1>6. /\ td1 # td /\ arg[td1] = m /\ pc[td1] \in {"block", "prop", "sort", "blocked"}
      /\ td1 \notin tsnoblock /\ ~BeingWoken(td1) /\ Committed(td1) /\ given # Null
      /\ ts_owner[ts] = td /\ ts_pending[ts] = {} /\ td_turnstile[td1] = Null
      /\ \A u \in Threads : ~(pc[u] = "unpend" /\ tsp[u] = ts)
      /\ \A t \in Turnstiles : t # ts => (HasWaiters(t)' <=> HasWaiters(t))
      /\ \A t \in Turnstiles : HasWaiters(t) /\ t # ts => ts_lockobj[t] # m
  BY <1>1, SignalFacts
<1>7. TypeOK'
  BY <1>1, <1>2 DEF Signals, TurnstileInv, TypeOK, LockSafe, schedVars
<1>8. HashInv' /\ PlaceInv' /\ SpareInv' /\ QueueInv' /\ StateInv' /\ SortInv' /\ PointerInv'
  BY <1>1, SignalPlaces, SignalQueues
<1>9. HasWaiters(ts)' <=> ts_blocked'[ts] # <<>>
  BY DEF HasWaiters
<1>10. ContestedInv'
  <2>1. ContestedInv /\ ts_owner \in [Turnstiles -> Threads \cup {Null}]
        /\ \A t \in Turnstiles : HasWaiters(t) => ts_lockobj[t] \in Locks
    BY DEF TurnstileInv, TypeOK, HashInv
  <2>2. \A t \in Turnstiles : t # ts /\ HasWaiters(t)' =>
           HasWaiters(t) /\ ts_lockobj[t] \in Locks /\ mtx_lock'[ts_lockobj[t]] = mtx_lock[ts_lockobj[t]]
    BY <1>3, <1>6, <2>1
  <2>3. \A t \in Turnstiles : HasWaiters(t)' => mtx_lock'[ts_lockobj[t]].contested = 1
    BY <1>3, <1>9, <2>1, <2>2 DEF ContestedInv, Contested
  <2>4. \A t \in Turnstiles : HasWaiters(t)' =>
           \/ ts_owner[t] = mtx_lock'[ts_lockobj[t]].owner
           \/ \E u \in Threads : pc'[u] = "unpend" /\ tsp'[u] = t
    <3> SUFFICES ASSUME NEW t \in Turnstiles, HasWaiters(t)'
                 PROVE  \/ ts_owner[t] = mtx_lock'[ts_lockobj[t]].owner
                        \/ \E u \in Threads : pc'[u] = "unpend" /\ tsp'[u] = t
      OBVIOUS
    <3>1. CASE t = ts
      BY <1>3, <3>1
    <3>2. CASE t # ts
      <4>1. \/ ts_owner[t] = mtx_lock[ts_lockobj[t]].owner
            \/ \E u \in Threads : pc[u] = "unpend" /\ tsp[u] = t
        BY <2>1, <2>2, <3>2 DEF ContestedInv, Owner
      <4> QED BY <1>3, <1>4, <2>2, <3>2, <4>1
    <3> QED BY <3>1, <3>2
  <2>5. \A t \in Turnstiles : ts_owner[t] # Null /\ ~HasWaiters(t)' =>
           pc'[ts_owner[t]] = "unpend" /\ tsp'[ts_owner[t]] = t
    <3> SUFFICES ASSUME NEW t \in Turnstiles, ts_owner[t] # Null, ~HasWaiters(t)'
                 PROVE  pc'[ts_owner[t]] = "unpend" /\ tsp'[ts_owner[t]] = t
      OBVIOUS
    <3>1. CASE t = ts
      BY <1>3, <1>6, <3>1
    <3>2. CASE t # ts
      <4>1. ts_owner[t] \in Threads /\ pc[ts_owner[t]] = "unpend" /\ tsp[ts_owner[t]] = t
        BY <1>6, <2>1, <3>2 DEF ContestedInv
      <4> QED BY <1>3, <1>4, <4>1
    <3> QED BY <3>1, <3>2
  <2>6. \A l \in Locks : mtx_lock'[l].owner = Null /\ mtx_lock'[l].contested = 1 =>
           \E t \in Turnstiles : HasWaiters(t)' /\ ts_lockobj[t] = l
    <3> SUFFICES ASSUME NEW l \in Locks, mtx_lock'[l].owner = Null, mtx_lock'[l].contested = 1
                 PROVE  \E t \in Turnstiles : HasWaiters(t)' /\ ts_lockobj[t] = l
      OBVIOUS
    <3>1. CASE l = m
      BY <1>3, <1>9, <3>1
    <3>2. CASE l # m
      <4>1. PICK t \in Turnstiles : HasWaiters(t) /\ ts_lockobj[t] = l
        BY <1>3, <2>1, <3>2 DEF ContestedInv, Owner, Contested
      <4> QED BY <1>3, <1>6, <3>2, <4>1
    <3> QED BY <3>1, <3>2
  <2> QED BY <1>5, <2>3, <2>4, <2>5, <2>6 DEF ContestedInv, Owner, Contested
<1>11. UnpendInv'
  <2>1. UnpendInv /\ PointerInv /\ tsp \in [Threads -> Turnstiles \cup {Null}]
        /\ ts_pending \in [Turnstiles -> SUBSET Threads]
    BY DEF TurnstileInv, TypeOK
  <2>2. ASSUME NEW t \in Turnstiles, ts_lockobj[t] # Null, ~HasWaiters(t)'
        PROVE  \E u \in Threads : pc'[u] = "unpend" /\ tsp'[u] = t
    <3>1. CASE t = ts
      BY <1>3, <3>1
    <3>2. CASE t # ts
      <4>1. \E u \in Threads : pc[u] = "unpend" /\ tsp[u] = t
        BY <1>6, <2>1, <2>2, <3>2 DEF UnpendInv
      <4> QED BY <1>3, <1>4, <4>1
    <3> QED BY <3>1, <3>2
  <2>3. ASSUME NEW u \in Threads, pc'[u] = "unpend", ts_blocked'[tsp'[u]] = <<>>
        PROVE  \E h \in ts_pending'[tsp'[u]] : td_turnstile'[h] = tsp'[u]
    <3>1. CASE u = td
      BY <1>3, <2>3, <3>1
    <3>2. CASE u # td
      <4>1. pc[u] = "unpend" /\ tsp'[u] = tsp[u] /\ tsp[u] \in Turnstiles /\ tsp[u] # ts
        BY <1>4, <1>6, <2>1, <2>3, <3>2 DEF PointerInv
      <4>2. ~HasWaiters(tsp[u])
        BY <1>6, <2>3, <4>1 DEF HasWaiters
      <4>3. PICK h \in ts_pending[tsp[u]] : td_turnstile[h] = tsp[u]
        BY <2>1, <4>1, <4>2 DEF UnpendInv
      <4>4. h \in Threads /\ BeingWoken(h)
        BY <2>1, <4>1, <4>3 DEF BeingWoken
      <4>5. h # td1
        BY <1>6, <4>4
      <4>6. ts_pending'[tsp[u]] = ts_pending[tsp[u]] /\ td_turnstile'[h] = td_turnstile[h]
        BY <1>3, <1>4, <4>1, <4>4, <4>5
      <4> QED BY <4>1, <4>3, <4>6
    <3> QED BY <3>1, <3>2
  <2> QED BY <1>5, <2>2, <2>3 DEF UnpendInv, HasWaiters
<1>12. SleepersInv'
  <2> SUFFICES ASSUME ~Adaptive, NEW l \in Locks, mtx_lock'[l].contested = 1
               PROVE  \/ \E t \in Turnstiles : HasWaiters(t)' /\ ts_lockobj[t] = l
                      \/ \E u \in Threads : pc'[u] = "wait" /\ arg[u] = l
    BY <1>5 DEF SleepersInv, Contested
  <2>1. CASE l = m
    BY <1>3, <1>9, <2>1
  <2>2. CASE l # m
    <3>1. \/ \E t \in Turnstiles : HasWaiters(t) /\ ts_lockobj[t] = l
          \/ \E u \in Threads : pc[u] = "wait" /\ arg[u] = l
      BY <1>3, <2>2 DEF TurnstileInv, SleepersInv, Contested
    <3> QED BY <1>3, <1>4, <1>6, <2>2, <3>1
  <2> QED BY <2>1, <2>2
<1>13. \A u \in Threads : /\ BeingWoken(u)' <=> BeingWoken(u) \/ u = td1
                          /\ Committed(u)' <=> Committed(u)
  <2>1. \A u \in Threads : (\E t \in Turnstiles : u \in ts_pending'[t]) <=>
                           (\E t \in Turnstiles : u \in ts_pending[t]) \/ u = td1
    BY <1>3
  <2>2. \A u \in Threads : BeingWoken(u)' <=> BeingWoken(u) \/ u = td1
    BY <1>5, <2>1 DEF BeingWoken
  <2>3. \A u \in Threads : Committed(u)' <=> Committed(u)
    BY <1>3, <1>4, <1>5 DEF Committed
  <2> QED BY <2>2, <2>3
<1>14. WakeInv'
  <2>1. WakeInv
    BY DEF TurnstileInv
  <2>2. \A u \in Threads : Committed(u)' /\ td_turnstile'[u] # Null => BeingWoken(u)'
    BY <1>4, <1>13, <2>1 DEF WakeInv
  <2>3. \A u \in Threads : BeingWoken(u)' => td_turnstile'[u] # Null /\ Committed(u)'
    BY <1>3, <1>4, <1>6, <1>13, <2>1 DEF WakeInv
  <2>4. \A u \in Threads : u \in tsnoblock => pc'[u] = "block" /\ td_turnstile'[u] # Null
    BY <1>3, <1>4, <1>6, <2>1 DEF WakeInv
  <2>5. \A t \in Turnstiles, u \in Threads : u \in ts_pending'[t] =>
           \E w \in Threads : pc'[w] = "unpend" /\ tsp'[w] = t
    <3> SUFFICES ASSUME NEW t \in Turnstiles, NEW u \in Threads, u \in ts_pending'[t]
                 PROVE  \E w \in Threads : pc'[w] = "unpend" /\ tsp'[w] = t
      OBVIOUS
    <3>1. CASE t = ts
      BY <1>3, <3>1
    <3>2. CASE t # ts
      <4>1. PICK w \in Threads : pc[w] = "unpend" /\ tsp[w] = t
        BY <1>3, <2>1, <3>2 DEF WakeInv
      <4> QED BY <1>3, <1>4, <4>1
    <3> QED BY <3>1, <3>2
  <2>6. \A w, u \in Threads : u \in pending[w] => pc'[w] = "unpendpri"
    BY <1>3, <1>4, <2>1 DEF WakeInv
  <2>7. /\ \A t \in Turnstiles : td1 \notin ts_pending[t]
        /\ \A u \in Threads : td1 \notin pending[u]
    BY <1>6 DEF BeingWoken
  <2>8. \A t \in Turnstiles, u \in Threads :
           u \in ts_pending'[t] => (u = td1 /\ t = ts) \/ (u # td1 /\ u \in ts_pending[t])
    BY <1>3, <1>6, <2>7
  <2>9. /\ \A t, v \in Turnstiles, u \in Threads :
              u \in ts_pending'[t] /\ u \in ts_pending'[v] => t = v
        /\ \A w, u \in Threads, t \in Turnstiles : ~(u \in pending[w] /\ u \in ts_pending'[t])
    BY <2>1, <2>7, <2>8 DEF WakeInv
  <2> QED BY <1>5, <2>1, <2>2, <2>3, <2>4, <2>5, <2>6, <2>9 DEF WakeInv
<1>15. HeirInv'
  <2> SUFFICES ASSUME NEW l \in Locks, mtx_lock'[l].owner = Null, mtx_lock'[l].contested = 1
               PROVE  \E u \in Threads : Heir(u, l)'
    BY DEF HeirInv, Owner, Contested
  <2>1. CASE l = m
    <3>1. Heir(td1, l)'
      BY <1>3, <1>4, <1>5, <1>6, <1>13, <2>1 DEF Heir
    <3> QED BY <1>3, <3>1
  <2>2. CASE l # m
    <3>1. PICK u \in Threads : Heir(u, l)
      BY <1>3, <2>2 DEF TurnstileInv, HeirInv, Owner, Contested
    <3>2. u # td
      BY <1>3, <3>1 DEF Heir
    <3>3. Heir(u, l)'
      BY <1>4, <1>5, <1>13, <3>1, <3>2 DEF Heir
    <3> QED BY <3>3
  <2> QED BY <2>1, <2>2
<1> QED BY <1>2, <1>7, <1>8, <1>10, <1>11, <1>12, <1>14, <1>15 DEF TurnstileInv

(* turnstile_unpend() under the chain lock. *)
LEMMA UnpendStep ==
    ASSUME TurnstileInv, NEW td \in Threads, Unpend(td)
    PROVE  TurnstileInv'
<1> USE ConstantsAssumption DEF Turnstiles
<1> DEFINE ts == tsp[td]
<1>1. /\ pc[td] = "unpend" /\ pending' = [pending EXCEPT ![td] = ts_pending[ts]]
      /\ ts_pending' = [ts_pending EXCEPT ![ts] = {}]
      /\ ts_lockobj' = [ts_lockobj EXCEPT ![ts] = IF ts_blocked[ts] = <<>> THEN Null ELSE @]
      /\ ts_owner' = [ts_owner EXCEPT ![ts] = Null]
      /\ tsp' = [tsp EXCEPT ![td] = Null] /\ pc' = [pc EXCEPT ![td] = "unpendpri"]
      /\ UNCHANGED <<lockVars, sched_lock, tc_turnstiles, ts_blocked, ts_free, td_turnstile,
                     schedVars, arg, tcp, peer>>
  BY DEF Unpend, At, Goto
<1>2. LockSafe'
  BY UnpendSafe DEF TurnstileInv
<1>3. /\ pc \in [Threads -> PcValues] /\ tsp \in [Threads -> Turnstiles \cup {Null}]
      /\ ts_pending \in [Turnstiles -> SUBSET Threads] /\ pending \in [Threads -> SUBSET Threads]
      /\ ts_lockobj \in [Turnstiles -> Locks \cup {Null}]
      /\ ts_owner \in [Turnstiles -> Threads \cup {Null}]
  BY DEF TurnstileInv, LockSafe, LockTypeOK, TypeOK
<1>4. ts \in Turnstiles /\ ts_lockobj[ts] = arg[td] /\ (HasWaiters(ts) => Owner(arg[td]) = Null)
      /\ arg[td] \in Locks /\ peer[td] # Null
  BY <1>1, <1>3 DEF TurnstileInv, PointerInv, LockSafe, LockInv
<1>5. pending[td] = {}
  <2>1. ASSUME NEW h \in pending[td] PROVE FALSE
    BY <1>1, <1>3, <2>1 DEF TurnstileInv, WakeInv
  <2> QED BY <2>1
<1>6. \A u \in Threads : u # td /\ pc[u] = "unpend" => tsp[u] \in Turnstiles /\ tsp[u] # ts
  <2>1. \A u \in Threads : u # td /\ pc[u] = "unpend" => arg[u] # arg[td]
    BY <1>1, OneOnChain
  <2> QED BY <1>3, <1>4, <2>1 DEF TurnstileInv, PointerInv
<1>7. /\ pc'[td] = "unpendpri" /\ pending'[td] = ts_pending[ts] /\ ts_pending'[ts] = {}
      /\ \A u \in Threads : u # td => pc'[u] = pc[u] /\ tsp'[u] = tsp[u] /\ pending'[u] = pending[u]
      /\ \A t \in Turnstiles : t # ts => ts_pending'[t] = ts_pending[t]
  BY <1>1, <1>3, <1>4
<1>8. /\ ts_owner'[ts] = Null /\ \A t \in Turnstiles : t # ts => ts_owner'[t] = ts_owner[t]
      /\ ts_lockobj'[ts] = (IF HasWaiters(ts) THEN ts_lockobj[ts] ELSE Null)
      /\ \A t \in Turnstiles : t # ts => ts_lockobj'[t] = ts_lockobj[t]
  BY <1>1, <1>3, <1>4 DEF HasWaiters
<1>9. \A t \in Turnstiles : HasWaiters(t) => ts_lockobj'[t] = ts_lockobj[t]
  BY <1>8
<1>10. \A t \in Turnstiles : (HasWaiters(t)' <=> HasWaiters(t)) /\ \A u \in Threads : Queued(u, t)' <=> Queued(u, t)
  BY <1>1 DEF HasWaiters, Queued
<1>11. TypeOK'
  <2>1. /\ pending' \in [Threads -> SUBSET Threads] /\ ts_pending' \in [Turnstiles -> SUBSET Threads]
        /\ ts_lockobj' \in [Turnstiles -> Locks \cup {Null}]
        /\ ts_owner' \in [Turnstiles -> Threads \cup {Null}]
        /\ tsp' \in [Threads -> Turnstiles \cup {Null}]
    BY <1>1, <1>3, <1>4
  <2> QED BY <1>1, <1>2, <2>1 DEF TurnstileInv, TypeOK, LockSafe, schedVars
<1>12. HashInv' /\ PlaceInv' /\ SpareInv'
  <2>1. tc_turnstiles \in [Chains -> SUBSET Turnstiles]
    BY DEF TurnstileInv, TypeOK
  <2>2. HashInv'
    BY <1>1, <1>9, <2>1 DEF TurnstileInv, HashInv, HasWaiters
  <2>3. PlaceInv' /\ SpareInv'
    BY <1>1 DEF TurnstileInv, PlaceInv, SpareInv, HasWaiters
  <2> QED BY <2>2, <2>3
<1>13. \A u \in Threads, t \in Turnstiles : Queued(u, t) => HasWaiters(t) /\ u # td
  BY <1>1, InHand DEF TurnstileInv, QueueInv
<1>14. QueueInv'
  BY <1>1, <1>7, <1>9, <1>10, <1>13 DEF TurnstileInv, QueueInv
<1>15. StateInv'
  BY <1>1, <1>7 DEF TurnstileInv, StateInv, Queued, schedVars
<1>16. SortInv'
  <2> SUFFICES ASSUME NEW u \in Threads, pc'[u] = "sort"
               PROVE  /\ peer'[u] # Null /\ tcp'[u] \in Chains
                      /\ td_state'[peer'[u]] = "lock" /\ tsp'[u] = td_blocked'[peer'[u]]
                      /\ td_turnstile'[peer'[u]] = Null => tcp'[u] = TC_HASH[ts_lockobj'[tsp'[u]]]
    BY DEF SortInv
  <2>1. u # td /\ pc[u] = "sort" /\ tsp'[u] = tsp[u]
    BY <1>7
  <2>2. /\ peer[u] \in Threads /\ peer[u] # Null /\ tcp[u] \in Chains /\ td_state[peer[u]] = "lock"
        /\ tsp[u] = td_blocked[peer[u]]
        /\ td_turnstile[peer[u]] = Null => tcp[u] = TC_HASH[ts_lockobj[tsp[u]]]
    BY <2>1 DEF TurnstileInv, TypeOK, SortInv
  <2>3. td_turnstile[peer[u]] = Null => ts_lockobj'[tsp[u]] = ts_lockobj[tsp[u]]
    <3>1. td_turnstile[peer[u]] = Null => tsp[u] \in Turnstiles /\ Queued(peer[u], tsp[u])
      BY <2>2 DEF TurnstileInv, StateInv, TypeOK
    <3> QED BY <1>9, <1>13, <2>2, <3>1
  <2> QED BY <1>1, <2>1, <2>2, <2>3 DEF schedVars
<1>17. PointerInv'
  <2>1. PointerInv
    BY DEF TurnstileInv
  <2> SUFFICES ASSUME NEW u \in Threads PROVE
        /\ pc'[u] \in {"cmpset", "wait"} /\ tsp'[u] = Null =>
              \A t \in Turnstiles : HasWaiters(t) => ts_lockobj'[t] # arg[u]
        /\ pc'[u] \in {"cmpset", "wait", "claim"} /\ tsp'[u] # Null =>
              ts_blocked[tsp'[u]] # <<>> /\ ts_lockobj'[tsp'[u]] = arg[u]
        /\ pc'[u] \in {"claim", "unpend"} => tsp'[u] # Null
        /\ pc'[u] = "unpend" => ts_lockobj'[tsp'[u]] = arg[u]
        /\ pc'[u] = "unpend" /\ ts_blocked[tsp'[u]] # <<>> => mtx_lock[arg[u]].owner = Null
        /\ pc'[u] \in {"claimpri", "unpend", "unpendpri", "uswitch", "uyield"} => peer[u] # Null
    BY <1>1, <1>10 DEF PointerInv, HasWaiters, Owner, lockVars
  <2>2. CASE u = td
    BY <1>4, <1>7, <2>2
  <2>3. CASE u # td
    <3>1. pc'[u] = pc[u] /\ tsp'[u] = tsp[u]
      BY <1>7, <2>3
    <3>2. pc[u] \in {"cmpset", "wait"} /\ tsp[u] = Null =>
             \A t \in Turnstiles : HasWaiters(t) => ts_lockobj'[t] # arg[u]
      BY <1>9, <2>1 DEF PointerInv
    <3>3. pc[u] \in {"cmpset", "wait", "claim"} /\ tsp[u] # Null =>
             ts_blocked[tsp[u]] # <<>> /\ ts_lockobj'[tsp[u]] = arg[u]
      BY <1>3, <1>9, <2>1 DEF PointerInv, HasWaiters
    <3>4. pc[u] = "unpend" => ts_lockobj'[tsp[u]] = arg[u]
      BY <1>6, <1>8, <2>1, <2>3 DEF PointerInv
    <3> QED BY <2>1, <3>1, <3>2, <3>3, <3>4 DEF PointerInv, HasWaiters, Owner
  <2> QED BY <2>2, <2>3
<1>18. ContestedInv'
  <2>1. ContestedInv /\ \A t \in Turnstiles : HasWaiters(t) => ts_lockobj[t] \in Locks
    BY DEF TurnstileInv, HashInv
  <2>2. UNCHANGED mtx_lock
    BY <1>1 DEF lockVars
  <2>3. \A t \in Turnstiles : HasWaiters(t) => mtx_lock[ts_lockobj'[t]].contested = 1
    BY <1>9, <2>1 DEF ContestedInv, Contested
  <2>4. ASSUME NEW t \in Turnstiles, HasWaiters(t)
        PROVE  \/ ts_owner'[t] = mtx_lock[ts_lockobj'[t]].owner
               \/ \E u \in Threads : pc'[u] = "unpend" /\ tsp'[u] = t
    <3>1. CASE t = ts
      BY <1>4, <1>8, <2>4, <3>1 DEF Owner
    <3>2. CASE t # ts
      <4>1. \/ ts_owner[t] = mtx_lock[ts_lockobj[t]].owner
            \/ \E u \in Threads : u # td /\ pc[u] = "unpend" /\ tsp[u] = t
        BY <2>1, <2>4, <3>2 DEF ContestedInv, Owner
      <4> QED BY <1>7, <1>8, <3>2, <4>1
    <3> QED BY <3>1, <3>2
  <2>5. ASSUME NEW t \in Turnstiles, ts_owner'[t] # Null, ~HasWaiters(t)
        PROVE  pc'[ts_owner'[t]] = "unpend" /\ tsp'[ts_owner'[t]] = t
    <3>1. t # ts /\ ts_owner'[t] = ts_owner[t] /\ ts_owner[t] \in Threads
      BY <1>3, <1>8, <2>5
    <3>2. pc[ts_owner[t]] = "unpend" /\ tsp[ts_owner[t]] = t
      BY <2>1, <2>5, <3>1 DEF ContestedInv
    <3> QED BY <1>7, <3>1, <3>2
  <2>6. \A l \in Locks : Owner(l) = Null /\ Contested(l) =>
           \E t \in Turnstiles : HasWaiters(t) /\ ts_lockobj'[t] = l
    BY <1>9, <2>1 DEF ContestedInv
  <2> QED BY <1>10, <2>2, <2>3, <2>4, <2>5, <2>6 DEF ContestedInv, Owner, Contested
<1>19. UnpendInv'
  <2>1. UnpendInv
    BY DEF TurnstileInv
  <2>2. ASSUME NEW t \in Turnstiles, ts_lockobj'[t] # Null, ~HasWaiters(t)
        PROVE  \E u \in Threads : pc'[u] = "unpend" /\ tsp'[u] = t
    <3>1. t # ts /\ ts_lockobj[t] # Null
      BY <1>8, <2>2
    <3>2. PICK u \in Threads : pc[u] = "unpend" /\ tsp[u] = t
      BY <2>1, <2>2, <3>1 DEF UnpendInv
    <3> QED BY <1>7, <3>1, <3>2
  <2>3. ASSUME NEW u \in Threads, pc'[u] = "unpend", ts_blocked[tsp'[u]] = <<>>
        PROVE  \E h \in ts_pending'[tsp'[u]] : td_turnstile[h] = tsp'[u]
    <3>1. u # td /\ pc[u] = "unpend" /\ tsp'[u] = tsp[u] /\ tsp[u] \in Turnstiles /\ tsp[u] # ts
      BY <1>6, <1>7, <2>3
    <3>2. \E h \in ts_pending[tsp[u]] : td_turnstile[h] = tsp[u]
      BY <2>1, <2>3, <3>1 DEF UnpendInv, HasWaiters
    <3> QED BY <1>7, <3>1, <3>2
  <2> QED BY <1>1, <2>2, <2>3 DEF UnpendInv, HasWaiters
<1>20. SleepersInv'
  <2> SUFFICES ASSUME ~Adaptive, NEW l \in Locks, Contested(l)
               PROVE  \/ \E t \in Turnstiles : HasWaiters(t) /\ ts_lockobj'[t] = l
                      \/ \E u \in Threads : pc'[u] = "wait" /\ arg[u] = l
    BY <1>1, <1>10 DEF SleepersInv, Contested, lockVars
  <2>1. \/ \E t \in Turnstiles : HasWaiters(t) /\ ts_lockobj[t] = l
        \/ \E u \in Threads : pc[u] = "wait" /\ arg[u] = l
    BY DEF TurnstileInv, SleepersInv
  <2> QED BY <1>1, <1>7, <1>9, <2>1
<1>21. \A u \in Threads : (BeingWoken(u)' <=> BeingWoken(u)) /\ (Committed(u)' <=> Committed(u))
  <2>1. \A u \in Threads : (\E t \in Turnstiles : u \in ts_pending[t]) =>
                           u \in pending'[td] \/ (\E t \in Turnstiles : u \in ts_pending'[t])
    BY <1>7
  <2>2. \A u \in Threads : (\E t \in Turnstiles : u \in ts_pending'[t]) =>
                           (\E t \in Turnstiles : u \in ts_pending[t])
    BY <1>7
  <2>3. \A u, w \in Threads : u \in pending[w] => u \in pending'[w]
    BY <1>5, <1>7
  <2>4. \A u, w \in Threads : u \in pending'[w] => u \in pending[w] \/ (w = td /\ u \in ts_pending[ts])
    BY <1>7
  <2>5. \A u \in Threads : BeingWoken(u)' => BeingWoken(u)
    BY <1>4, <2>2, <2>4 DEF BeingWoken
  <2>6. \A u \in Threads : BeingWoken(u) => BeingWoken(u)'
    BY <2>1, <2>3 DEF BeingWoken
  <2>7. \A u \in Threads : Committed(u)' <=> Committed(u)
    BY <1>1, <1>7 DEF Committed, schedVars
  <2> QED BY <2>5, <2>6, <2>7
<1>22. WakeInv'
  <2>1. WakeInv
    BY DEF TurnstileInv
  <2>2. UNCHANGED <<td_turnstile, tsnoblock>>
    BY <1>1 DEF schedVars
  <2>3. /\ \A u \in Threads : Committed(u)' /\ td_turnstile[u] # Null => BeingWoken(u)'
        /\ \A u \in Threads : BeingWoken(u)' => td_turnstile[u] # Null /\ Committed(u)'
    BY <1>21, <2>1 DEF WakeInv
  <2>4. \A u \in Threads : u \in tsnoblock => pc'[u] = "block" /\ td_turnstile[u] # Null
    BY <1>1, <1>7, <2>1 DEF WakeInv
  <2>5. ASSUME NEW t \in Turnstiles, NEW u \in Threads, u \in ts_pending'[t]
        PROVE  t # ts /\ u \in ts_pending[t] /\ \E w \in Threads : pc'[w] = "unpend" /\ tsp'[w] = t
    <3>1. t # ts /\ u \in ts_pending[t]
      BY <1>7, <2>5
    <3>2. PICK w \in Threads : pc[w] = "unpend" /\ tsp[w] = t
      BY <2>1, <3>1 DEF WakeInv
    <3> QED BY <1>7, <3>1, <3>2
  <2>6. \A w, u \in Threads : u \in pending'[w] => pc'[w] = "unpendpri"
    BY <1>1, <1>7, <2>1 DEF WakeInv
  <2>7. \A t, v \in Turnstiles, u \in Threads :
           u \in ts_pending'[t] /\ u \in ts_pending'[v] => t = v
    BY <2>1, <2>5 DEF WakeInv
  <2>8. \A w, u \in Threads : u \in pending'[w] =>
           (w = td /\ u \in ts_pending[ts]) \/ (w # td /\ u \in pending[w])
    BY <1>7
  <2>9. \A u, w, h \in Threads : h \in pending'[u] /\ h \in pending'[w] => u = w
    BY <1>4, <2>1, <2>8 DEF WakeInv
  <2>10. \A w, u \in Threads, t \in Turnstiles : ~(u \in pending'[w] /\ u \in ts_pending'[t])
    BY <1>4, <2>1, <2>5, <2>8 DEF WakeInv
  <2> QED BY <2>2, <2>3, <2>4, <2>5, <2>6, <2>7, <2>9, <2>10 DEF WakeInv
<1>23. HeirInv'
  <2> SUFFICES ASSUME NEW l \in Locks, Owner(l) = Null, Contested(l)
               PROVE  \E u \in Threads : Heir(u, l)'
    BY <1>1 DEF HeirInv, Owner, Contested, lockVars
  <2>1. PICK u \in Threads : Heir(u, l)
    BY DEF TurnstileInv, HeirInv
  <2>2. u # td
    BY <1>1, <2>1 DEF Heir
  <2>3. Heir(u, l)'
    BY <1>1, <1>7, <1>21, <2>1, <2>2 DEF Heir, schedVars
  <2> QED BY <2>3
<1> QED BY <1>2, <1>11, <1>12, <1>14, <1>15, <1>16, <1>17, <1>18, <1>19, <1>20, <1>22, <1>23
        DEF TurnstileInv

(* turnstile_unpend() under sched_lock. *)
LEMMA UnpendPriStep ==
    ASSUME TurnstileInv, NEW td \in Threads, UnpendPri(td), LockSafe'
    PROVE  TurnstileInv'
<1> USE ConstantsAssumption DEF Turnstiles
<1> DEFINE pend == pending[td]
           blocked == {t \in pend : td_state[t] = "lock"}
<1>1. /\ pc[td] = "unpendpri" /\ td_state[td] = "running" /\ sched_lock = Null
      /\ td_priority' = [td_priority EXCEPT ![td] = LentPri(td)]
      /\ td_blocked' = [t \in Threads |-> IF t \in blocked THEN Null ELSE td_blocked[t]]
      /\ td_state' = [t \in Threads |-> IF t \in blocked THEN "runq" ELSE td_state[t]]
      /\ tsnoblock' = tsnoblock \cup (pend \ blocked)
      /\ pending' = [pending EXCEPT ![td] = {}] /\ pc' = [pc EXCEPT ![td] = "uswitch"]
      /\ UNCHANGED <<lockVars, spinVars, tsVars, td_turnstile, arg, word, tsp, tcp, peer>>
  BY DEF UnpendPri, At, Goto
<1>2. /\ pc \in [Threads -> PcValues] /\ td_state \in [Threads -> {"running", "runq", "lock"}]
      /\ td_blocked \in [Threads -> Turnstiles \cup {Null}] /\ tsnoblock \subseteq Threads
      /\ pending \in [Threads -> SUBSET Threads] /\ td_priority \in [Threads -> Nat]
      /\ tsp \in [Threads -> Turnstiles \cup {Null}] /\ peer \in [Threads -> Threads \cup {Null}]
      /\ peer[td] # Null
  BY <1>1 DEF TurnstileInv, LockSafe, LockTypeOK, TypeOK, PointerInv
<1>3. \A u \in Threads : pc[u] \notin {"prop", "sort"}
  BY <1>1 DEF TurnstileInv, StateInv
<1>4. \A h \in pend : /\ h \in Threads /\ BeingWoken(h) /\ td_turnstile[h] # Null /\ Committed(h)
                      /\ h # td
  <2>1. ASSUME NEW h \in pend
        PROVE  h \in Threads /\ BeingWoken(h) /\ td_turnstile[h] # Null /\ Committed(h)
    <3>1. h \in Threads /\ BeingWoken(h)
      BY <1>2, <2>1 DEF BeingWoken
    <3> QED BY <3>1 DEF TurnstileInv, WakeInv
  <2> QED BY <1>1, <2>1 DEF Committed
<1>5. \A h \in pend : /\ h \in blocked => pc[h] = "blocked"
                      /\ h \notin blocked => pc[h] = "block" /\ h \notin tsnoblock
  BY <1>3, <1>4 DEF TurnstileInv, StateInv, Committed
<1> HIDE DEF pend, blocked
<1>6. blocked \subseteq pend /\ \A h \in pend : h \in blocked <=> td_state[h] = "lock"
  BY DEF blocked
<1>7. /\ pc'[td] = "uswitch" /\ pending'[td] = {} /\ OthersStay(td)
      /\ \A u \in Threads : u # td => pc'[u] = pc[u] /\ pending'[u] = pending[u]
  BY <1>1, <1>2 DEF OthersStay
<1>8. \A u \in Threads : /\ u \in blocked => td_state'[u] = "runq" /\ td_blocked'[u] = Null
                         /\ u \notin blocked => td_state'[u] = td_state[u] /\ td_blocked'[u] = td_blocked[u]
  BY <1>1
<1>9. td_priority' \in [Threads -> Nat]
  <2> DEFINE ps == {td_priority[Head(ts_blocked[ts])] : ts \in td_contested(td)} \cup {BasePri[td]}
  <2>1. \A ts \in td_contested(td) : Head(ts_blocked[ts]) \in Threads
    <3> SUFFICES ASSUME NEW ts \in td_contested(td) PROVE Head(ts_blocked[ts]) \in Threads
      OBVIOUS
    <3>1. ts \in Turnstiles /\ ts_owner[ts] = td
      BY DEF td_contested
    <3>2. HasWaiters(ts)
      BY <1>1, <3>1 DEF TurnstileInv, ContestedInv
    <3> QED BY <3>1, <3>2, HeadInQueue DEF TurnstileInv, TypeOK, HasWaiters
  <2>2. ps \in SUBSET Nat
    BY <1>2, <2>1
  <2>3. \E p \in ps : \A q \in ps : p <= q
    <3>1. ps # {}
      OBVIOUS
    <3> HIDE DEF ps
    <3> QED BY <2>2, <3>1, LeastNat
  <2>4. LentPri(td) = CHOOSE p \in ps : \A q \in ps : p <= q
    BY DEF LentPri
  <2> HIDE DEF ps
  <2>5. LentPri(td) \in Nat
    BY <2>2, <2>3, <2>4
  <2> QED BY <1>1, <1>2, <2>5
<1>10. TypeOK'
  <2>1. /\ td_state' \in [Threads -> {"running", "runq", "lock"}]
        /\ td_blocked' \in [Threads -> Turnstiles \cup {Null}]
        /\ tsnoblock' \in SUBSET Threads /\ pending' \in [Threads -> SUBSET Threads]
    BY <1>1, <1>2, <1>4
  <2> QED BY <1>1, <1>9, <2>1 DEF TurnstileInv, TypeOK, LockSafe, spinVars, tsVars
<1>11. HashInv' /\ PlaceInv' /\ SpareInv'
  BY <1>1 DEF TurnstileInv, HashInv, PlaceInv, SpareInv, HasWaiters, tsVars
<1>12. QueueInv'
  <2>1. \A u \in Threads, t \in Turnstiles : Queued(u, t) => u # td
    BY <1>1 DEF TurnstileInv, QueueInv
  <2> QED BY <1>1, <1>7, <2>1 DEF TurnstileInv, QueueInv, Queued, tsVars
<1>13. StateInv'
  <2>1. ASSUME NEW u \in Threads
        PROVE  /\ td_state'[u] = "lock" => td_blocked[u] # Null /\ td_blocked'[u] = td_blocked[u]
                     /\ pc'[u] \in {"prop", "sort", "blocked"}
               /\ td_state'[u] # "lock" => td_blocked'[u] = Null
               /\ td_state'[u] = "lock" /\ td_turnstile[u] = Null => Queued(u, td_blocked[u])
               /\ pc'[u] = "block" => tsp[u] # Null
               /\ pc'[u] = "block" /\ td_turnstile[u] = Null => Queued(u, tsp[u])
               /\ pc'[u] = "blocked" /\ td_state'[u] # "lock" => td_turnstile[u] # Null
               /\ pc'[u] \notin {"prop", "sort"}
    <3>1. CASE u = td
      BY <1>1, <1>4, <1>6, <1>7, <1>8, <3>1 DEF TurnstileInv, StateInv
    <3>2. CASE u \in blocked
      BY <1>3, <1>4, <1>5, <1>6, <1>7, <1>8, <3>2
    <3>3. CASE u # td /\ u \notin blocked
      BY <1>3, <1>7, <1>8, <3>3 DEF TurnstileInv, StateInv
    <3> QED BY <3>1, <3>2, <3>3
  <2> QED BY <1>1, <2>1 DEF StateInv, Queued, tsVars
<1>14. SortInv'
  BY <1>3, <1>7 DEF SortInv
<1>15. WordsStay /\ SameWaiters
  <2>1. WordsStay
    BY <1>1, SameOwner DEF lockVars
  <2> QED BY <1>1, <2>1 DEF SameWaiters, HasWaiters, tsVars
<1>16. PointerInv'
  <2>1. PointersCurrent(td)
    BY <1>1, <1>2, <1>7 DEF PointersCurrent
  <2>2. PointerInv
    BY DEF TurnstileInv
  <2>3. UNCHANGED <<mtx_lock, ts_lockobj, tsp>>
    BY <1>1 DEF lockVars, tsVars
  <2> QED BY <1>2, <1>7, <1>15, <2>1, <2>2, <2>3, PointerFrame
<1>17. ContestedInv' /\ UnpendInv' /\ SleepersInv'
  <2>1. UNCHANGED <<mtx_lock, ts_lockobj, ts_owner, ts_pending, td_turnstile>>
    BY <1>1 DEF lockVars, tsVars
  <2>2. ContestedInv'
    BY <1>1, <1>7, <1>15, <2>1, ContestedFrame DEF TurnstileInv, TypeOK
  <2>3. UnpendInv'
    BY <1>1, <1>2, <1>7, <1>15, <2>1, UnpendFrame DEF TurnstileInv
  <2>4. SleepersInv'
    BY <1>1, <1>7, <1>15, <2>1, SleepersFrame DEF TurnstileInv
  <2> QED BY <2>2, <2>3, <2>4
<1>18. \A u \in Threads : /\ BeingWoken(u)' <=> BeingWoken(u) /\ u \notin pend
                          /\ Committed(u)' <=> Committed(u) /\ u \notin pend
  <2>1. UNCHANGED ts_pending
    BY <1>1 DEF tsVars
  <2>2. /\ \A w, h \in Threads : h \in pend /\ h \in pending[w] => w = td
        /\ \A h \in Threads, t \in Turnstiles : ~(h \in pend /\ h \in ts_pending[t])
    BY DEF pend, TurnstileInv, WakeInv
  <2>3. \A w, u \in Threads : u \in pending'[w] <=> w # td /\ u \in pending[w]
    BY <1>7
  <2>4. \A u \in Threads : BeingWoken(u)' <=> BeingWoken(u) /\ u \notin pend
    <3> SUFFICES ASSUME NEW u \in Threads
                 PROVE  BeingWoken(u)' <=> BeingWoken(u) /\ u \notin pend
      OBVIOUS
    <3>1. CASE u \in pend
      BY <2>1, <2>2, <2>3, <3>1 DEF BeingWoken
    <3>2. CASE u \notin pend
      <4>1. \A w \in Threads : u \in pending'[w] <=> u \in pending[w]
        BY <2>3, <3>2 DEF pend
      <4> QED BY <2>1, <3>2, <4>1 DEF BeingWoken
    <3> QED BY <3>1, <3>2
  <2>5. \A u \in Threads : Committed(u)' <=> Committed(u) /\ u \notin pend
    <3> SUFFICES ASSUME NEW u \in Threads
                 PROVE  Committed(u)' <=> Committed(u) /\ u \notin pend
      OBVIOUS
    <3>1. u \in tsnoblock' <=> u \in tsnoblock \/ (u \in pend /\ u \notin blocked)
      BY <1>1
    <3>2. CASE u \in pend
      BY <1>4, <1>5, <1>6, <1>7, <1>8, <3>1, <3>2 DEF Committed
    <3>3. CASE u \notin pend
      BY <1>1, <1>6, <1>7, <1>8, <3>1, <3>3 DEF Committed
    <3> QED BY <3>2, <3>3
  <2> QED BY <2>4, <2>5
<1>19. WakeInv'
  <2>1. WakeInv
    BY DEF TurnstileInv
  <2>2. UNCHANGED <<td_turnstile, ts_pending, tsp>>
    BY <1>1 DEF tsVars
  <2>3. /\ \A u \in Threads : Committed(u)' /\ td_turnstile[u] # Null => BeingWoken(u)'
        /\ \A u \in Threads : BeingWoken(u)' => td_turnstile[u] # Null /\ Committed(u)'
    BY <1>18, <2>1 DEF WakeInv
  <2>4. \A u \in Threads : u \in tsnoblock' => pc'[u] = "block" /\ td_turnstile[u] # Null
    <3> SUFFICES ASSUME NEW u \in Threads, u \in tsnoblock'
                 PROVE  pc'[u] = "block" /\ td_turnstile[u] # Null
      OBVIOUS
    <3>1. u \in tsnoblock \/ (u \in pend /\ u \notin blocked)
      BY <1>1
    <3>2. pc[u] = "block" /\ td_turnstile[u] # Null
      BY <1>4, <1>5, <2>1, <3>1 DEF WakeInv
    <3> QED BY <1>1, <1>7, <3>2
  <2>5. \A t \in Turnstiles, u \in Threads : u \in ts_pending[t] =>
           \E w \in Threads : pc'[w] = "unpend" /\ tsp[w] = t
    BY <1>1, <1>7, <2>1 DEF WakeInv
  <2>6. \A w, u \in Threads : u \in pending'[w] => w # td /\ u \in pending[w] /\ pc'[w] = "unpendpri"
    BY <1>7, <2>1 DEF WakeInv
  <2> QED BY <2>1, <2>2, <2>3, <2>4, <2>5, <2>6 DEF WakeInv
<1>20. HeirInv'
  <2>1. UNCHANGED <<mtx_lock, arg>>
    BY <1>1 DEF lockVars
  <2> SUFFICES ASSUME NEW l \in Locks, Owner(l) = Null, Contested(l)
               PROVE  \E u \in Threads : Heir(u, l)'
    BY <2>1 DEF HeirInv, Owner, Contested
  <2>2. PICK u \in Threads : Heir(u, l)
    BY DEF TurnstileInv, HeirInv
  <2>3. u # td
    BY <1>1, <2>2 DEF Heir
  <2>4. tsnoblock \subseteq tsnoblock' /\ pend \ blocked \subseteq tsnoblock'
    BY <1>1
  <2>5. CASE u \in pend
    BY <1>4, <1>5, <1>7, <1>8, <2>1, <2>2, <2>3, <2>4, <2>5 DEF Heir
  <2>6. CASE u \notin pend
    BY <1>6, <1>7, <1>8, <1>18, <2>1, <2>2, <2>3, <2>4, <2>6 DEF Heir
  <2> QED BY <2>5, <2>6
<1> QED BY <1>10, <1>11, <1>12, <1>13, <1>14, <1>16, <1>17, <1>19, <1>20 DEF TurnstileInv

-----------------------------------------------------------------------------
(* The invariant of the turnstiles, and what follows from it. *)

(* Every step of the program preserves the invariant.                      *)
LEMMA TurnstileStep ==
    ASSUME TurnstileInv, [Next]_vars
    PROVE  TurnstileInv'
<1>1. LockSafe'
  BY LockSafeStep DEF TurnstileInv
<1>2. ASSUME NEW td \in Threads, NEW m \in Locks, MtxLock(td, m) PROVE TurnstileInv'
  BY <1>2, MtxLockStep
<1>3. ASSUME NEW td \in Threads, NEW m \in Locks, MtxTrylock(td, m) PROVE TurnstileInv'
  BY <1>3, MtxTrylockStep
<1>4. ASSUME NEW td \in Threads, NEW m \in Locks, MtxUnlock(td, m) PROVE TurnstileInv'
  BY <1>4, MtxUnlockStep
<1>5. ASSUME NEW td \in Threads, LockStep(td) PROVE TurnstileInv'
  <2>1. CASE Obtain(td)
    BY <1>1, <2>1, ObtainStep
  <2>2. CASE Lookup(td)
    BY <2>2, LookupStep
  <2>3. CASE Claim(td)
    BY <2>3, ClaimStep
  <2>4. CASE ClaimPri(td)
    BY <2>4, ClaimPriStep
  <2>5. CASE Cmpset(td)
    BY <2>5, CmpsetStep
  <2>6. CASE Spin(td) \/ Resume(td)
    BY <1>1, <2>6, SpinResumeStep
  <2>7. CASE Wait(td)
    BY <2>7, WaitStep
  <2>8. CASE Block(td)
    BY <1>1, <2>8, BlockStep
  <2>9. CASE Propagate(td)
    BY <1>1, <2>9, PropagateStep
  <2>10. CASE Resort(td)
    BY <1>1, <2>10, ResortStep
  <2> QED BY <1>5, <2>1, <2>2, <2>3, <2>4, <2>5, <2>6, <2>7, <2>8, <2>9, <2>10 DEF LockStep
<1>6. ASSUME NEW td \in Threads, UnlockStep(td) PROVE TurnstileInv'
  <2>1. CASE UnlockNoSleepers(td)
    BY <2>1, UnlockNoSleepersStep
  <2>2. CASE UnlockSignal(td)
    BY <2>2, UnlockSignalStep
  <2>3. CASE Unpend(td)
    BY <2>3, UnpendStep
  <2>4. CASE UnpendPri(td)
    BY <1>1, <2>4, UnpendPriStep
  <2>5. CASE USwitch(td) \/ UYield(td)
    BY <1>1, <2>5, USwitchStep
  <2> QED BY <1>6, <2>1, <2>2, <2>3, <2>4, <2>5 DEF UnlockStep
<1>7. ASSUME NEW td \in Threads, Preempt(td) \/ Dispatch(td) PROVE TurnstileInv'
  BY <1>1, <1>7, SchedulerStep
<1>8. CASE UNCHANGED vars
  <2>1. UNCHANGED <<lockVars, tc_lock, sched_lock, tc_turnstiles, ts_blocked, ts_pending, ts_free,
                    ts_lockobj, ts_owner, td_turnstile, td_blocked, td_state, td_priority, tsnoblock,
                    pc, arg, word, tsp, tcp, peer, pending>>
    BY <1>8 DEF vars, spinVars, tsVars, schedVars, locals
  <2>2. TypeOK' /\ HashInv' /\ PlaceInv' /\ SpareInv'
    BY <1>1, <2>1 DEF TurnstileInv, TypeOK, LockSafe, HashInv, PlaceInv, SpareInv, HasWaiters
  <2>3. QueueInv' /\ StateInv' /\ SortInv'
    BY <2>1 DEF TurnstileInv, QueueInv, StateInv, SortInv, Queued
  <2>4. PointerInv' /\ ContestedInv' /\ UnpendInv' /\ SleepersInv'
    BY <2>1 DEF TurnstileInv, PointerInv, ContestedInv, UnpendInv, SleepersInv, HasWaiters, Owner,
                Contested, lockVars
  <2>5. \A u \in Threads : (Committed(u) <=> Committed(u)') /\ (BeingWoken(u) <=> BeingWoken(u)')
    BY <2>1 DEF Committed, BeingWoken
  <2>6. WakeInv'
    BY <2>1, <2>5 DEF TurnstileInv, WakeInv
  <2>7. HeirInv'
    BY <2>1, <2>5 DEF TurnstileInv, HeirInv, Heir, Owner, Contested, lockVars
  <2> QED BY <1>1, <2>2, <2>3, <2>4, <2>6, <2>7 DEF TurnstileInv
<1> QED BY <1>2, <1>3, <1>4, <1>5, <1>6, <1>7, <1>8 DEF Next, Client

(* The turnstiles are sound in every reachable state: the inductive        *)
(* invariant the following theorems read their properties off.             *)
THEOREM TurnstileSafety == Spec => []TurnstileInv
<1>1. Init => TurnstileInv
  <2> SUFFICES ASSUME Init PROVE TurnstileInv
    OBVIOUS
  <2> USE ConstantsAssumption DEF Turnstiles
  <2>1. LockSafe
    <3>1. LockTypeOK
      BY WordFacts DEF Init, LockTypeOK, PcValues
    <3>2. LockInv
      BY WordFacts DEF Init, LockInv, Owner, Contested, Acquiring
    <3>3. ChainInv
      BY DEF Init, ChainInv
    <3> QED BY <3>1, <3>2, <3>3 DEF LockSafe
  <2>2. TypeOK
    BY <2>1 DEF LockSafe, Init, TypeOK
  <2>3. /\ \A td \in Threads : /\ pc[td] = "idle" /\ td_state[td] = "runq" /\ td_turnstile[td] = td
                               /\ td # Null /\ td_blocked[td] = Null /\ pending[td] = {}
        /\ \A ts \in Turnstiles : /\ ts_blocked[ts] = <<>> /\ ts_pending[ts] = {} /\ ts_free[ts] = {}
                                  /\ ts_lockobj[ts] = Null /\ ts_owner[ts] = Null
        /\ \A c \in Chains : tc_turnstiles[c] = {}
        /\ \A m \in Locks : mtx_lock[m].contested = 0
        /\ tsnoblock = {}
    BY WordFacts DEF Init
  <2>4. \A td \in Threads, ts \in Turnstiles : ~Queued(td, ts)
    BY <2>3, SmallQueues DEF Queued
  <2>5. HashInv /\ PlaceInv
    BY <2>3 DEF HashInv, PlaceInv, HasWaiters
  <2>6. SpareInv
    BY <2>3, FS_EmptySet DEF SpareInv, HasWaiters
  <2>7. QueueInv
    <3>1. \A ts \in Turnstiles : IsInjective(ts_blocked[ts])
      BY <2>3, SmallQueues
    <3> QED BY <2>3, <2>4, <3>1 DEF QueueInv
  <2>8. StateInv /\ SortInv
    BY <2>3 DEF StateInv, SortInv
  <2>9. PointerInv /\ ContestedInv
    BY <2>3 DEF PointerInv, ContestedInv, HasWaiters, Contested
  <2>10. UnpendInv /\ SleepersInv
    BY <2>3 DEF UnpendInv, SleepersInv, HasWaiters, Contested
  <2>11. WakeInv
    BY <2>3 DEF WakeInv, Committed, BeingWoken
  <2>12. HeirInv
    BY <2>3 DEF HeirInv, Contested
  <2> QED BY <2>1, <2>2, <2>5, <2>6, <2>7, <2>8, <2>9, <2>10, <2>11, <2>12 DEF TurnstileInv
<1>2. TurnstileInv /\ [Next]_vars => TurnstileInv'
  BY TurnstileStep
<1> QED BY <1>1, <1>2, PTL DEF Spec

(* No wakeup is lost: a thread that blocks, or is past the point where it  *)
(* could still be told not to, is in the queue a contested release will    *)
(* find, or in the pending list of a turnstile_unpend() under way.         *)
THEOREM NoLostWakeupHolds == Spec => []NoLostWakeup
<1>1. TurnstileInv => NoLostWakeup
  <2> SUFFICES ASSUME TurnstileInv, NEW td \in Threads, Committed(td), ~BeingWoken(td)
               PROVE  /\ mtx_lock[arg[td]].contested = 1
                      /\ \E ts \in tc_turnstiles[TC_HASH[arg[td]]] :
                            ts_lockobj[ts] = arg[td] /\ Queued(td, ts)
    BY DEF NoLostWakeup
  <2>1. td_turnstile[td] = Null
    BY DEF TurnstileInv, WakeInv
  <2>2. PICK ts \in Turnstiles : Queued(td, ts)
    BY <2>1 DEF TurnstileInv, QueueInv
  <2>3. arg[td] = ts_lockobj[ts] /\ HasWaiters(ts)
    BY <2>2, InHand DEF TurnstileInv, QueueInv
  <2> QED BY <2>2, <2>3 DEF TurnstileInv, HashInv, ContestedInv, Contested
<1> QED BY <1>1, TurnstileSafety, PTL

(* A mutex released with the contested cookie, which every fast path       *)
(* refuses, has a woken thread that will claim it.                         *)
THEOREM ContestedHasHeirHolds == Spec => []ContestedHasHeir
<1>1. TurnstileInv => ContestedHasHeir
  BY WordFacts DEF TurnstileInv, HeirInv, ContestedHasHeir, Owner, Contested
<1> QED BY <1>1, TurnstileSafety, PTL

(* Turnstiles are lent, never lost or shared, for any number of threads.   *)
THEOREM TurnstileConservationHolds == Spec => []TurnstileConservation
<1>1. TurnstileInv => TurnstileConservation
  <2> SUFFICES ASSUME TurnstileInv PROVE TurnstileConservation
    OBVIOUS
  <2> USE ConstantsAssumption DEF Turnstiles
  <2>1. ASSUME NEW ts \in Turnstiles
        PROVE  Cardinality({td \in Threads : td_turnstile[td] = ts})
                 + Cardinality({c \in Chains : ts \in tc_turnstiles[c]})
                 + Cardinality({t \in Turnstiles : ts \in ts_free[t]}) = 1
    <3> DEFINE hands == {td \in Threads : td_turnstile[td] = ts}
               chains == {c \in Chains : ts \in tc_turnstiles[c]}
               homes == {t \in Turnstiles : ts \in ts_free[t]}
    <3> SUFFICES Cardinality(hands) + Cardinality(chains) + Cardinality(homes) = 1
      OBVIOUS
    <3>1. CASE HasWaiters(ts)
      <4>1. hands = {} /\ homes = {}
        BY <3>1 DEF TurnstileInv, PlaceInv
      <4> DEFINE c0 == TC_HASH[ts_lockobj[ts]]
      <4>2. c0 \in Chains /\ ts \in tc_turnstiles[c0]
        BY <3>1 DEF TurnstileInv, HashInv
      <4>3. \A c \in Chains : ts \in tc_turnstiles[c] => c = c0
        BY DEF TurnstileInv, HashInv
      <4>4. chains = {c0}
        BY <4>2, <4>3
      <4> HIDE DEF hands, chains, homes, c0
      <4>5. Cardinality(hands) = 0 /\ Cardinality(homes) = 0
        BY <4>1, FS_EmptySet
      <4>6. Cardinality(chains) = 1
        BY <4>4, FS_Singleton
      <4> QED BY <4>5, <4>6
    <3>2. CASE ~HasWaiters(ts)
      <4>1. chains = {}
        BY <3>2 DEF TurnstileInv, HashInv
      <4>2. CASE \E td \in Threads : td_turnstile[td] = ts
        <5>1. PICK td \in Threads : td_turnstile[td] = ts
          BY <4>2
        <5>2. hands = {td} /\ homes = {}
          BY <5>1 DEF TurnstileInv, PlaceInv
        <5> HIDE DEF hands, chains, homes
        <5>3. Cardinality(chains) = 0 /\ Cardinality(homes) = 0
          BY <4>1, <5>2, FS_EmptySet
        <5>4. Cardinality(hands) = 1
          BY <5>2, FS_Singleton
        <5> QED BY <5>3, <5>4
      <4>3. CASE ~ \E td \in Threads : td_turnstile[td] = ts
        <5>1. PICK t \in Turnstiles : ts \in ts_free[t]
          BY <3>2, <4>3 DEF TurnstileInv, SpareInv
        <5>2. hands = {} /\ homes = {t}
          BY <4>3, <5>1 DEF TurnstileInv, PlaceInv
        <5> HIDE DEF hands, chains, homes
        <5>3. Cardinality(hands) = 0 /\ Cardinality(chains) = 0
          BY <4>1, <5>2, FS_EmptySet
        <5>4. Cardinality(homes) = 1
          BY <5>2, FS_Singleton
        <5> QED BY <5>3, <5>4
      <4> QED BY <4>2, <4>3
    <3> QED BY <3>1, <3>2
  <2>2. \A c \in Chains : \A ts \in tc_turnstiles[c] :
           Len(ts_blocked[ts]) = Cardinality(ts_free[ts]) + 1
    BY DEF TurnstileInv, TypeOK, HashInv, SpareInv
  <2>3. \A td \in Threads : pc[td] = "wait" => td_turnstile[td] # Null
    BY InHand
  <2>4. ASSUME NEW td \in Threads, pc[td] = "wait"
        PROVE  LET ts == td_turnstile[td] IN
               /\ ts # Null
               /\ ts_blocked[ts] = <<>> /\ ts_pending[ts] = {} /\ ts_free[ts] = {}
               /\ ts_lockobj[ts] = Null /\ ts_owner[ts] = Null
    BY <2>3, <2>4, OwnIsClean
  <2>5. TypeOK
    BY DEF TurnstileInv
  <2> QED BY <2>1, <2>2, <2>4, <2>5 DEF TurnstileConservation
<1> QED BY <1>1, TurnstileSafety, PTL

(* A contested release or claim finds the turnstile, the waiter and the    *)
(* owner it takes for granted, td_contested holds no empty turnstile, and  *)
(* propagate_priority() moves the owner in the queue it is really in, with *)
(* that queue's chain locked.                                              *)
THEOREM TurnstileFoundHolds == Spec => []TurnstileFound
<1>1. TurnstileInv => TurnstileFound
  <2> SUFFICES ASSUME TurnstileInv, NEW td \in Threads
               PROVE  LET m  == arg[td]
                          ts == turnstile_lookup(m)
                      IN
                      /\ pc[td] = "ulookup" /\ tc_lock[TC_HASH[m]] = Null =>
                            \/ ts = Null /\ Adaptive
                            \/ ts # Null /\ ts_owner[ts] = td /\ ts_blocked[ts] # <<>>
                      /\ pc[td] = "claim" =>
                            tsp[td] # Null /\ ts_owner[tsp[td]] = Null /\ ts_blocked[tsp[td]] # <<>>
                      /\ pc[td] = "wait" /\ tsp[td] # Null => ts_owner[tsp[td]] = mtx_lock[m].owner
                      /\ pc[td] # "unpend" => \A t \in td_contested(td) : ts_blocked[t] # <<>>
                      /\ pc[td] = "sort" /\ td_turnstile[peer[td]] = Null =>
                            Queued(peer[td], tsp[td]) /\ tsp[td] \in tc_turnstiles[tcp[td]]
    BY DEF TurnstileFound
  <2> USE ConstantsAssumption DEF Turnstiles
  <2> DEFINE m == arg[td]
             ts == turnstile_lookup(m)
  <2>1. ASSUME pc[td] = "ulookup", tc_lock[TC_HASH[m]] = Null
        PROVE  \/ ts = Null /\ Adaptive
               \/ ts # Null /\ ts_owner[ts] = td /\ ts_blocked[ts] # <<>>
    <3>1. m \in Locks /\ Owner(m) = td /\ Contested(m)
      BY <2>1 DEF TurnstileInv, LockSafe, LockInv
    <3>2. CASE ts = Null
      <4>1. ~ \E t \in Turnstiles : HasWaiters(t) /\ ts_lockobj[t] = m
        BY <3>1, <3>2, LookupFinds
      <4>2. ~ \E u \in Threads : pc[u] = "wait" /\ arg[u] = m
        BY <2>1, NobodyOnChain
      <4> QED BY <3>1, <3>2, <4>1, <4>2 DEF TurnstileInv, SleepersInv
    <3>3. CASE ts # Null
      <4>1. ts \in Turnstiles /\ HasWaiters(ts) /\ ts_lockobj[ts] = m
        BY <3>1, <3>3, LookupFinds
      <4> HIDE DEF ts
      <4>2. ts_owner[ts] = Owner(m)
        BY <2>1, <4>1, OwnerKnown
      <4> QED BY <3>1, <3>3, <4>1, <4>2 DEF HasWaiters
    <3> QED BY <3>2, <3>3
  <2>2. ASSUME pc[td] \in {"claim", "wait"}, tsp[td] # Null
        PROVE  ts_owner[tsp[td]] = Owner(m) /\ HasWaiters(tsp[td])
    <3>1. tsp[td] \in Turnstiles /\ HasWaiters(tsp[td]) /\ ts_lockobj[tsp[td]] = m
      BY <2>2 DEF TurnstileInv, TypeOK, PointerInv
    <3> QED BY <2>2, <3>1, OwnerKnown
  <2>3. ASSUME pc[td] = "claim"
        PROVE  tsp[td] # Null /\ ts_owner[tsp[td]] = Null /\ ts_blocked[tsp[td]] # <<>>
    <3>1. tsp[td] # Null /\ Owner(m) = Null
      BY <2>3 DEF TurnstileInv, PointerInv, LockSafe, ChainInv
    <3> QED BY <2>2, <2>3, <3>1 DEF HasWaiters
  <2>4. pc[td] # "unpend" => \A t \in td_contested(td) : ts_blocked[t] # <<>>
    BY DEF TurnstileInv, ContestedInv, td_contested, HasWaiters
  <2>5. ASSUME pc[td] = "sort", td_turnstile[peer[td]] = Null
        PROVE  Queued(peer[td], tsp[td]) /\ tsp[td] \in tc_turnstiles[tcp[td]]
    <3>1. /\ peer[td] \in Threads /\ tsp[td] = td_blocked[peer[td]] /\ td_state[peer[td]] = "lock"
          /\ tcp[td] = TC_HASH[ts_lockobj[tsp[td]]]
      BY <2>5 DEF TurnstileInv, SortInv, TypeOK
    <3>2. tsp[td] \in Turnstiles /\ Queued(peer[td], tsp[td])
      BY <2>5, <3>1 DEF TurnstileInv, StateInv, TypeOK
    <3>3. HasWaiters(tsp[td])
      BY <3>1, <3>2, InHand
    <3> QED BY <3>1, <3>2, <3>3 DEF TurnstileInv, HashInv
  <2> QED BY <2>1, <2>2, <2>3, <2>4, <2>5 DEF Owner
<1> QED BY <1>1, TurnstileSafety, PTL

-----------------------------------------------------------------------------
(* Priorities: what a thread owes to those that wait for it. *)

(* A thread that runs at a borrowed priority still has a turnstile to give *)
(* it back for, or is about to give it back.                               *)
LoanInv ==
    /\ \A td \in Threads : td_priority[td] # BasePri[td] =>
          pc[td] = "unpendpri" \/ \E ts \in Turnstiles : ts_owner[ts] = td
    /\ \A td \in Threads : pc[td] = "claimpri" => \E ts \in Turnstiles : ts_owner[ts] = td
    /\ \A td \in Threads : pc[td] = "unpend" => ts_owner[tsp[td]] = td

(* The first thread in the queue of ts. *)
First(ts, h) == ts_blocked[ts] # <<>> /\ Head(ts_blocked[ts]) = h

(* Some propagation will lend h's priority, or a more urgent one, to the   *)
(* owner of ts.                                                            *)
WillLend(ts, h) ==
    \E td \in Threads :
        /\ tsp[td] = ts
        /\ \/ pc[td] = "prop" /\ td_priority[td] <= td_priority[h]
           \/ pc[td] = "sort" /\ peer[td] = h

(* The owner o of ts is as urgent as its first waiter h, or will be when   *)
(* o, h or a thread that propagates its priority is through.               *)
Covered(ts, o, h) ==
    \/ td_priority[o] <= td_priority[h]
    \/ pc[h] = "block"
    \/ pc[o] \in {"unpend", "unpendpri"}
    \/ pc[o] = "claimpri" /\ peer[o] = h
    \/ WillLend(ts, h)

(* Loans are returned, and the owners of contested mutexes get them.       *)
PriInv ==
    /\ LoanInv
    /\ \A td \in Threads : pc[td] = "sort" => td_priority[td] <= td_priority[peer[td]]
    /\ \A ts \in Turnstiles, o, h \in Threads :
          ts_owner[ts] = o /\ First(ts, h) => Covered(ts, o, h)

(* A thread that owes a priority or waits for one to be lent has reached   *)
(* one of these stages.                                                    *)
Lending == {"claimpri", "block", "prop", "sort", "unpend", "unpendpri"}

(* The first thread of a queue is in it, and in no other.                  *)
LEMMA FirstFacts ==
    ASSUME TurnstileInv, NEW ts \in Turnstiles, NEW h, First(ts, h)
    PROVE  /\ h \in Threads /\ Queued(h, ts) /\ HasWaiters(ts) /\ td_turnstile[h] = Null
           /\ pc[h] \in {"block", "prop", "sort", "blocked"}
           /\ \A t \in Turnstiles : Queued(h, t) => t = ts
<1>1. ts_blocked[ts] \in Seq(Threads) /\ ts_blocked[ts] # <<>> /\ h = Head(ts_blocked[ts])
  BY DEF First, TurnstileInv, TypeOK
<1>2. h \in Threads /\ Queued(h, ts) /\ HasWaiters(ts)
  BY <1>1, HeadInQueue DEF Queued, HasWaiters
<1>3. /\ td_turnstile[h] = Null /\ pc[h] \in {"block", "prop", "sort", "blocked"}
      /\ arg[h] = ts_lockobj[ts]
  BY <1>2 DEF TurnstileInv, QueueInv
<1>4. ASSUME NEW t \in Turnstiles, Queued(h, t) PROVE t = ts
  <2>1. arg[h] = ts_lockobj[t] /\ HasWaiters(t)
    BY <1>2, <1>4, InHand DEF TurnstileInv, QueueInv
  <2> QED BY <1>2, <1>3, <2>1 DEF TurnstileInv, HashInv
<1> QED BY <1>2, <1>3, <1>4

(* Only the holder of sched_lock propagates. *)
LEMMA OnePropagates ==
    ASSUME TurnstileInv, NEW td \in Threads, pc[td] \in {"prop", "sort"}
    PROVE  sched_lock = td /\ sched_lock # Null
BY ConstantsAssumption DEF TurnstileInv, StateInv

(* A step of a thread that is at none of those stages, or that goes from   *)
(* turnstile_unpend()'s one section to the other, leaves what the others   *)
(* owe as it was.                                                          *)
LEMMA CoverKept ==
    ASSUME NEW td \in Threads, OthersStay(td), UNCHANGED td_priority,
           pc[td] \notin Lending \/ (pc[td] = "unpend" /\ pc'[td] = "unpendpri"),
           NEW ts \in Turnstiles, NEW o \in Threads, NEW h \in Threads, Covered(ts, o, h)
    PROVE  Covered(ts, o, h)'
<1>1. \A u \in Threads : pc[u] \in Lending \ {"unpend"} =>
         pc'[u] = pc[u] /\ tsp'[u] = tsp[u] /\ peer'[u] = peer[u]
  BY DEF OthersStay, Lending
<1>2. CASE WillLend(ts, h)
  <2>1. PICK u \in Threads : /\ tsp[u] = ts
                             /\ \/ pc[u] = "prop" /\ td_priority[u] <= td_priority[h]
                                \/ pc[u] = "sort" /\ peer[u] = h
    BY <1>2 DEF WillLend
  <2>2. tsp'[u] = tsp[u] /\ pc'[u] = pc[u] /\ peer'[u] = peer[u]
    BY <1>1, <2>1 DEF Lending
  <2>3. WillLend(ts, h)'
    BY <2>1, <2>2 DEF WillLend
  <2> QED BY <2>3 DEF Covered
<1>3. CASE pc[o] \in {"unpend", "unpendpri"}
  <2>1. pc'[o] \in {"unpend", "unpendpri"}
    BY <1>3 DEF OthersStay, Lending
  <2> QED BY <2>1 DEF Covered
<1>4. CASE pc[h] = "block" \/ (pc[o] = "claimpri" /\ peer[o] = h)
  <2>1. pc'[h] = "block" \/ (pc'[o] = "claimpri" /\ peer'[o] = h)
    BY <1>1, <1>4 DEF Lending
  <2> QED BY <2>1 DEF Covered
<1>5. CASE td_priority[o] <= td_priority[h]
  BY <1>5 DEF Covered
<1> QED BY <1>2, <1>3, <1>4, <1>5 DEF Covered

(* The steps that concern no priority: those that touch neither queues nor *)
(* owners, by a thread that owes nothing by the stage it is at ...         *)
LEMMA PriLight ==
    ASSUME TurnstileInv, PriInv, NEW td \in Threads, OthersStay(td),
           UNCHANGED <<ts_owner, ts_blocked, td_priority>>,
           pc[td] \notin Lending, pc'[td] \notin {"unpend", "claimpri", "sort"}
    PROVE  PriInv'
<1>1. LoanInv'
  BY DEF PriInv, LoanInv, OthersStay, Lending
<1>2. ASSUME NEW u \in Threads, pc'[u] = "sort" PROVE td_priority'[u] <= td_priority'[peer'[u]]
  <2>1. u # td /\ pc[u] = "sort" /\ peer'[u] = peer[u]
    BY <1>2 DEF OthersStay
  <2> QED BY <2>1 DEF PriInv
<1>3. ASSUME NEW ts \in Turnstiles, NEW o \in Threads, NEW h \in Threads,
             (ts_owner[ts] = o)', First(ts, h)'
      PROVE  Covered(ts, o, h)'
  <2>1. Covered(ts, o, h)
    BY <1>3 DEF PriInv, First
  <2> QED BY <2>1, CoverKept
<1> QED BY <1>1, <1>2, <1>3 DEF PriInv

(* ... and those of the scheduler. *)
LEMMA PriSame ==
    ASSUME PriInv, UNCHANGED <<pc, tsp, peer, ts_owner, ts_blocked, td_priority>>
    PROVE  PriInv'
<1>1. LoanInv'
  BY DEF PriInv, LoanInv
<1>2. \A ts \in Turnstiles, o, h \in Threads : Covered(ts, o, h)' <=> Covered(ts, o, h)
  BY DEF Covered, WillLend
<1> QED BY <1>1, <1>2 DEF PriInv, First

(* Claiming a turnstile: its first waiter's priority is still to be taken. *)
LEMMA ClaimPriority ==
    ASSUME TurnstileInv, PriInv, NEW td \in Threads, Claim(td)
    PROVE  PriInv'
<1> USE ConstantsAssumption DEF Turnstiles
<1> DEFINE ts == tsp[td]
<1>1. /\ pc[td] = "claim" /\ pc' = [pc EXCEPT ![td] = "claimpri"]
      /\ ts_owner' = [ts_owner EXCEPT ![ts] = td]
      /\ peer' = [peer EXCEPT ![td] = Head(ts_blocked[ts])]
      /\ tsp' = [tsp EXCEPT ![td] = Null]
      /\ UNCHANGED <<ts_blocked, td_priority>>
  BY DEF Claim, At, Goto, turnstile_setowner, schedVars
<1>2. /\ pc \in [Threads -> PcValues] /\ tsp \in [Threads -> Turnstiles \cup {Null}]
      /\ peer \in [Threads -> Threads \cup {Null}]
      /\ ts_owner \in [Turnstiles -> Threads \cup {Null}]
  BY DEF TurnstileInv, TypeOK, LockTypeOK
<1>3. ts \in Turnstiles /\ HasWaiters(ts) /\ ts_lockobj[ts] = arg[td] /\ Owner(arg[td]) = Null
  BY <1>1, <1>2 DEF TurnstileInv, PointerInv, LockSafe, ChainInv
<1>4. ts_owner[ts] = Null /\ \A u \in Threads : ~(pc[u] = "unpend" /\ tsp[u] = ts)
  BY <1>1, <1>3, OwnerKnown
<1>5. OthersStay(td) /\ pc'[td] = "claimpri" /\ peer'[td] = Head(ts_blocked[ts])
  BY <1>1, <1>2 DEF OthersStay, Claim
<1>6. /\ ts_owner'[ts] = td
      /\ \A t \in Turnstiles : t # ts => ts_owner'[t] = ts_owner[t]
      /\ \A t \in Turnstiles, u \in Threads : ts_owner[t] = u => ts_owner'[t] = u
  BY <1>1, <1>2, <1>3, <1>4
<1> HIDE DEF ts
<1>7. LoanInv'
  <2>1. ASSUME NEW u \in Threads, td_priority'[u] # BasePri[u]
        PROVE  pc'[u] = "unpendpri" \/ \E t \in Turnstiles : ts_owner'[t] = u
    BY <1>1, <1>3, <1>5, <1>6, <2>1 DEF PriInv, LoanInv, OthersStay
  <2>2. ASSUME NEW u \in Threads, pc'[u] = "claimpri" PROVE \E t \in Turnstiles : ts_owner'[t] = u
    BY <1>3, <1>5, <1>6, <2>2 DEF PriInv, LoanInv, OthersStay
  <2>3. ASSUME NEW u \in Threads, pc'[u] = "unpend" PROVE ts_owner'[tsp'[u]] = u
    <3>1. u # td /\ pc[u] = "unpend" /\ tsp'[u] = tsp[u]
      BY <1>5, <2>3 DEF OthersStay
    <3>2. ts_owner[tsp[u]] = u /\ tsp[u] \in Turnstiles
      BY <1>2, <3>1 DEF PriInv, LoanInv, TurnstileInv, PointerInv
    <3> QED BY <1>6, <3>1, <3>2
  <2> QED BY <2>1, <2>2, <2>3 DEF LoanInv
<1>8. ASSUME NEW u \in Threads, pc'[u] = "sort" PROVE td_priority'[u] <= td_priority'[peer'[u]]
  <2>1. u # td /\ pc[u] = "sort" /\ peer'[u] = peer[u]
    BY <1>5, <1>8 DEF OthersStay
  <2> QED BY <1>1, <2>1 DEF PriInv
<1>9. ASSUME NEW t \in Turnstiles, NEW o \in Threads, NEW h \in Threads,
             (ts_owner[t] = o)', First(t, h)'
      PROVE  Covered(t, o, h)'
  <2>1. First(t, h)
    BY <1>1, <1>9 DEF First
  <2>2. CASE t = ts
    <3>1. o = td /\ peer'[td] = h
      BY <1>5, <1>6, <1>9, <2>1, <2>2 DEF First
    <3> QED BY <1>5, <3>1 DEF Covered
  <2>3. CASE t # ts
    <3>1. Covered(t, o, h)
      BY <1>6, <1>9, <2>1, <2>3 DEF PriInv
    <3> QED BY <1>1, <1>5, <3>1, CoverKept DEF Lending
  <2> QED BY <2>2, <2>3
<1> QED BY <1>7, <1>8, <1>9 DEF PriInv

(* turnstile_claim() under sched_lock: the claimer becomes as urgent as    *)
(* the waiter it found first.                                              *)
LEMMA ClaimPriPriority ==
    ASSUME TurnstileInv, PriInv, NEW td \in Threads, ClaimPri(td)
    PROVE  PriInv'
<1> USE ConstantsAssumption DEF Turnstiles
<1> DEFINE pri == td_priority[peer[td]]
<1>1. /\ pc[td] = "claimpri" /\ pc' = [pc EXCEPT ![td] = "idle"] /\ sched_lock = Null
      /\ td_priority' = [td_priority EXCEPT ![td] = IF pri < td_priority[td] THEN pri ELSE td_priority[td]]
      /\ peer' = [peer EXCEPT ![td] = Null]
      /\ UNCHANGED <<ts_owner, ts_blocked, tsp>>
  BY DEF ClaimPri, At, Return, Goto, tsVars
<1>2. /\ pc \in [Threads -> PcValues] /\ td_priority \in [Threads -> Nat]
      /\ peer \in [Threads -> Threads \cup {Null}]
  BY DEF TurnstileInv, TypeOK, LockTypeOK
<1>3. peer[td] \in Threads
  BY <1>1, <1>2 DEF TurnstileInv, PointerInv
<1>4. \A u \in Threads : u # td => /\ pc'[u] = pc[u] /\ peer'[u] = peer[u]
                                   /\ td_priority'[u] = td_priority[u]
  BY <1>1, <1>2
<1>5. /\ pc'[td] = "idle" /\ pri \in Nat /\ td_priority'[td] \in Nat
      /\ td_priority'[td] <= td_priority[td] /\ td_priority'[td] <= pri
  BY <1>1, <1>2, <1>3
<1>6. \A u \in Threads : pc[u] \notin {"prop", "sort"}
  BY <1>1, OnePropagates
<1> HIDE DEF pri
<1>7. LoanInv'
  BY <1>1, <1>4, <1>5 DEF PriInv, LoanInv
<1>8. \A u \in Threads : pc'[u] # "sort"
  BY <1>4, <1>5, <1>6
<1>9. ASSUME NEW t \in Turnstiles, NEW o \in Threads, NEW h \in Threads,
             (ts_owner[t] = o)', First(t, h)'
      PROVE  Covered(t, o, h)'
  <2>1. First(t, h) /\ ts_owner[t] = o
    BY <1>1, <1>9 DEF First
  <2>2. h # td
    BY <1>1, <2>1, FirstFacts
  <2>3. Covered(t, o, h) /\ ~WillLend(t, h)
    BY <1>6, <2>1 DEF PriInv, WillLend
  <2>4. CASE o = td
    <3>1. td_priority'[td] <= td_priority'[h] \/ pc'[h] = "block"
      <4>1. td_priority[td] \in Nat /\ td_priority[h] \in Nat
        BY <1>2
      <4>2. td_priority[td] <= td_priority[h] \/ pc[h] = "block" \/ peer[td] = h
        BY <1>1, <2>3, <2>4 DEF Covered
      <4> QED BY <1>4, <1>5, <2>2, <4>1, <4>2 DEF pri
    <3> QED BY <2>4, <3>1 DEF Covered
  <2>5. CASE o # td
    BY <1>4, <2>2, <2>3, <2>5 DEF Covered
  <2> QED BY <2>4, <2>5
<1> QED BY <1>7, <1>8, <1>9 DEF PriInv

(* The first of a queue after an insertion was so before or is the one     *)
(* inserted.                                                               *)
LEMMA InsertedFirst ==
    ASSUME NEW q \in Seq(Threads), NEW td \in Threads, NEW pri
    PROVE  \/ Head(InsertByPri(q, td, pri)) = td
           \/ q # <<>> /\ Head(InsertByPri(q, td, pri)) = Head(q)
<1> DEFINE later == {i \in DOMAIN q : td_priority[q[i]] > pri}
           at    == IF later = {} THEN Len(q) + 1
                    ELSE CHOOSE i \in later : \A j \in later : i <= j
<1>1. Len(q) \in Nat /\ DOMAIN q = 1..Len(q) /\ (q # <<>> => Len(q) # 0)
  BY LenProperties, EmptySeq
<1>2. at \in 1..Len(q) + 1
  <2>1. CASE later = {}
    BY <1>1, <2>1
  <2>2. CASE later # {}
    <3>1. later \in SUBSET Nat
      BY <1>1
    <3>2. \E i \in later : \A j \in later : i <= j
      BY <2>2, <3>1, LeastNat
    <3>3. at \in later
      BY <2>2, <3>2
    <3> QED BY <1>1, <3>3
  <2> QED BY <2>1, <2>2
<1>3. InsertByPri(q, td, pri) = InsertAt(q, at, td)
  BY DEF InsertByPri
<1> HIDE DEF at
<1> DEFINE r == InsertAt(q, at, td)
<1>4. r \in Seq(Threads) /\ Len(r) = Len(q) + 1 /\ r[1] = IF 1 < at THEN q[1] ELSE IF 1 = at THEN td ELSE q[0]
  BY <1>1, <1>2, InsertAtElements
<1> HIDE DEF r
<1>5. r # <<>> /\ Head(r) = r[1]
  BY <1>1, <1>4, EmptySeq, HeadTailProperties
<1>6. CASE at = 1
  BY <1>3, <1>4, <1>5, <1>6 DEF r
<1>7. CASE at # 1
  <2>1. 1 < at /\ Len(q) # 0
    BY <1>1, <1>2, <1>7
  <2>2. q # <<>> /\ Head(q) = q[1]
    BY <1>1, <2>1, EmptySeq, HeadTailProperties
  <2> QED BY <1>3, <1>4, <1>5, <2>1, <2>2 DEF r
<1> QED BY <1>6, <1>7

(* turnstile_wait() under the chain lock: whoever becomes the first of the *)
(* queue has its priority still to lend.                                   *)
LEMMA WaitPriority ==
    ASSUME TurnstileInv, PriInv, NEW td \in Threads, Wait(td)
    PROVE  PriInv'
<1> USE ConstantsAssumption DEF Turnstiles
<1>1. PICK home : Joins(td, home, td_turnstile[td])
  BY WaitJoins
<1> DEFINE own == td_turnstile[td]
<1>2. /\ home \in Turnstiles /\ own \in Turnstiles /\ pc[td] = "wait" /\ pc'[td] = "block"
      /\ OthersStay(td) /\ tsp'[td] = home /\ UNCHANGED td_priority
      /\ home = own \/ (HasWaiters(home) /\ ts_lockobj[home] = arg[td])
      /\ ts_owner'[home] = Owner(arg[td])
      /\ \A t \in Turnstiles : t # home =>
            ts_blocked'[t] = ts_blocked[t] /\ ts_owner'[t] = ts_owner[t]
  BY <1>1 DEF Joins, schedVars
<1>3. /\ ts_owner[own] = Null /\ ts_blocked[own] = <<>>
      /\ \A u \in Threads : ~(pc[u] = "unpend" /\ tsp[u] = home)
  BY <1>1, JoinFacts DEF HasWaiters
<1>4. home # own => ts_owner'[home] = ts_owner[home]
  BY <1>2, OwnerKnown
<1>5. \A t \in Turnstiles, u \in Threads : ts_owner[t] = u => ts_owner'[t] = u
  BY <1>2, <1>3, <1>4
<1>6. ASSUME NEW h, First(home, h)' PROVE h = td \/ (home # own /\ First(home, h))
  <2>1. tsp \in [Threads -> Turnstiles \cup {Null}] /\ ts_blocked \in [Turnstiles -> Seq(Threads)]
    BY DEF TurnstileInv, TypeOK
  <2>2. CASE tsp[td] = Null
    <3>1. tsp' = [tsp EXCEPT ![td] = own] /\ ts_blocked' = [ts_blocked EXCEPT ![own] = Append(@, td)]
      BY <2>2 DEF Wait
    <3>2. home = own /\ ts_blocked'[home] = Append(<<>>, td)
      BY <1>2, <1>3, <2>1, <3>1
    <3>3. Append(<<>>, td) = <<td>> /\ Head(<<td>>) = td
      OBVIOUS
    <3> QED BY <1>6, <3>2, <3>3 DEF First
  <2>3. CASE tsp[td] # Null
    <3>1. /\ UNCHANGED tsp
          /\ ts_blocked' = [ts_blocked EXCEPT ![tsp[td]] = InsertByPri(@, td, td_priority[td])]
      BY <2>3 DEF Wait
    <3>2. home = tsp[td] /\ HasWaiters(home)
      BY <1>2, <1>3, <2>3, <3>1 DEF TurnstileInv, PointerInv
    <3>3. ts_blocked'[home] = InsertByPri(ts_blocked[home], td, td_priority[td])
      BY <1>2, <2>1, <3>1, <3>2
    <3>4. ts_blocked[home] \in Seq(Threads)
      BY <1>2, <2>1
    <3>5. \/ Head(ts_blocked'[home]) = td
          \/ ts_blocked[home] # <<>> /\ Head(ts_blocked'[home]) = Head(ts_blocked[home])
      BY <3>3, <3>4, InsertedFirst
    <3> QED BY <1>3, <1>6, <3>2, <3>5 DEF First, HasWaiters
  <2> QED BY <2>2, <2>3
<1>7. LoanInv'
  <2>1. ASSUME NEW u \in Threads, td_priority'[u] # BasePri[u]
        PROVE  pc'[u] = "unpendpri" \/ \E t \in Turnstiles : ts_owner'[t] = u
    BY <1>2, <1>5, <2>1 DEF PriInv, LoanInv, OthersStay
  <2>2. ASSUME NEW u \in Threads, pc'[u] = "claimpri" PROVE \E t \in Turnstiles : ts_owner'[t] = u
    BY <1>2, <1>5, <2>2 DEF PriInv, LoanInv, OthersStay
  <2>3. ASSUME NEW u \in Threads, pc'[u] = "unpend" PROVE ts_owner'[tsp'[u]] = u
    <3>1. u # td /\ pc[u] = "unpend" /\ tsp'[u] = tsp[u]
      BY <1>2, <2>3 DEF OthersStay
    <3>2. ts_owner[tsp[u]] = u /\ tsp[u] \in Turnstiles
      BY <3>1 DEF PriInv, LoanInv, TurnstileInv, PointerInv, TypeOK
    <3> QED BY <1>5, <3>1, <3>2
  <2> QED BY <2>1, <2>2, <2>3 DEF LoanInv
<1>8. ASSUME NEW u \in Threads, pc'[u] = "sort" PROVE td_priority'[u] <= td_priority'[peer'[u]]
  <2>1. u # td /\ pc[u] = "sort" /\ peer'[u] = peer[u]
    BY <1>2, <1>8 DEF OthersStay
  <2> QED BY <1>2, <2>1 DEF PriInv
<1>9. ASSUME NEW t \in Turnstiles, NEW o \in Threads, NEW h \in Threads,
             (ts_owner[t] = o)', First(t, h)'
      PROVE  Covered(t, o, h)'
  <2>1. CASE h = td
    BY <1>2, <2>1 DEF Covered
  <2>2. CASE h # td
    <3>1. First(t, h) /\ ts_owner[t] = o
      <4>1. CASE t = home
        BY <1>4, <1>6, <1>9, <2>2, <4>1
      <4>2. CASE t # home
        BY <1>2, <1>9, <4>2 DEF First
      <4> QED BY <4>1, <4>2
    <3>2. Covered(t, o, h)
      BY <3>1 DEF PriInv
    <3> QED BY <1>2, <3>2, CoverKept DEF Lending
  <2> QED BY <2>1, <2>2
<1> QED BY <1>7, <1>8, <1>9 DEF PriInv

(* turnstile_wait() under sched_lock: the thread goes on to lend its       *)
(* priority, or was told not to block and is in no queue any more.         *)
LEMMA BlockPriority ==
    ASSUME TurnstileInv, PriInv, NEW td \in Threads, Block(td)
    PROVE  PriInv'
<1> USE ConstantsAssumption DEF Turnstiles
<1>1. /\ pc[td] = "block" /\ sched_lock = Null
      /\ pc' = [pc EXCEPT ![td] = IF td \in tsnoblock THEN "obtain" ELSE "prop"]
      /\ td \notin tsnoblock => UNCHANGED tsp
      /\ UNCHANGED <<ts_owner, ts_blocked, td_priority, peer>>
  BY DEF Block, At, Goto, tsVars
<1>2. pc \in [Threads -> PcValues] /\ td_priority \in [Threads -> Nat]
  BY DEF TurnstileInv, TypeOK, LockTypeOK
<1>3. pc'[td] = (IF td \in tsnoblock THEN "obtain" ELSE "prop") /\ OthersStay(td)
  BY <1>1, <1>2 DEF OthersStay, Block, TurnstileInv, TypeOK
<1>4. \A u \in Threads : pc[u] \notin {"prop", "sort"}
  BY <1>1, OnePropagates
<1>5. LoanInv'
  BY <1>1, <1>3 DEF PriInv, LoanInv, OthersStay
<1>6. \A u \in Threads : pc'[u] # "sort"
  BY <1>3, <1>4 DEF OthersStay
<1>7. ASSUME NEW t \in Turnstiles, NEW o \in Threads, NEW h \in Threads,
             (ts_owner[t] = o)', First(t, h)'
      PROVE  Covered(t, o, h)'
  <2>1. First(t, h) /\ ts_owner[t] = o
    BY <1>1, <1>7 DEF First
  <2>2. Covered(t, o, h) /\ ~WillLend(t, h)
    BY <1>4, <2>1 DEF PriInv, WillLend
  <2>3. CASE h = td
    <3>1. Queued(td, t) /\ td_turnstile[td] = Null
      BY <2>1, <2>3, FirstFacts
    <3>2. td \notin tsnoblock
      BY <3>1 DEF TurnstileInv, WakeInv
    <3>3. Queued(td, tsp[td]) /\ tsp[td] \in Turnstiles
      BY <1>1, <3>1 DEF TurnstileInv, StateInv, TypeOK
    <3>4. tsp[td] = t
      BY <2>1, <2>3, <3>3, FirstFacts
    <3>5. tsp'[td] = t /\ pc'[td] = "prop" /\ td_priority'[td] <= td_priority'[h]
      BY <1>1, <1>2, <1>3, <2>3, <3>2, <3>4
    <3>6. WillLend(t, h)'
      BY <3>5 DEF WillLend
    <3> QED BY <3>6 DEF Covered
  <2>4. CASE h # td
    <3>1. pc'[h] = pc[h]
      BY <1>3, <2>4 DEF OthersStay
    <3>2. CASE o = td
      BY <1>1, <2>2, <3>1, <3>2 DEF Covered
    <3>3. CASE o # td
      BY <1>1, <1>3, <2>2, <3>1, <3>3 DEF Covered, OthersStay
    <3> QED BY <3>2, <3>3
  <2> QED BY <2>3, <2>4
<1> QED BY <1>5, <1>6, <1>7 DEF PriInv

(* One turn of propagate_priority(): the owner of the queue is as urgent   *)
(* as the thread that lends from now on; if it is blocked itself, the next *)
(* turn is about the queue it is in.                                       *)
LEMMA PropagatePriority ==
    ASSUME TurnstileInv, PriInv, NEW td \in Threads, Propagate(td)
    PROVE  PriInv'
<1> USE ConstantsAssumption DEF Turnstiles
<1> DEFINE pri == td_priority[td]
           w   == ts_owner[tsp[td]]
           lends == w # Null /\ td_priority[w] > pri
<1>1. pc[td] = "prop" /\ UNCHANGED <<ts_owner, ts_blocked>>
  BY DEF Propagate, tsVars
<1>2. /\ pc \in [Threads -> PcValues] /\ td_priority \in [Threads -> Nat]
      /\ tsp \in [Threads -> Turnstiles \cup {Null}] /\ peer \in [Threads -> Threads \cup {Null}]
      /\ ts_owner \in [Turnstiles -> Threads \cup {Null}]
      /\ td_state \in [Threads -> {"running", "runq", "lock"}]
  BY DEF TurnstileInv, TypeOK, LockTypeOK
<1>3. tsp[td] \in Turnstiles /\ w \in Threads \cup {Null}
  BY <1>1, <1>2 DEF TurnstileInv, StateInv
<1>4. \A u \in Threads : u # td => pc[u] \notin {"prop", "sort"}
  BY <1>1, OnePropagates
<1>5. OthersStay(td)
  BY <1>2 DEF OthersStay, Propagate, Switch, Goto
<1>6. CASE ~lends
  <2>1. UNCHANGED td_priority /\ pc'[td] = "blocked"
    BY <1>2, <1>6 DEF Propagate, Switch, Goto
  <2>2. LoanInv'
    BY <1>1, <1>5, <2>1 DEF PriInv, LoanInv, OthersStay
  <2>3. \A u \in Threads : pc'[u] # "sort"
    BY <1>4, <1>5, <2>1 DEF OthersStay
  <2>4. ASSUME NEW t \in Turnstiles, NEW o \in Threads, NEW h \in Threads,
               (ts_owner[t] = o)', First(t, h)'
        PROVE  Covered(t, o, h)'
    <3>1. First(t, h) /\ ts_owner[t] = o
      BY <1>1, <2>4 DEF First
    <3>2. Covered(t, o, h)
      BY <3>1 DEF PriInv
    <3>3. CASE WillLend(t, h)
      <4>1. tsp[td] = t /\ pri <= td_priority[h]
        BY <1>1, <1>4, <3>3 DEF WillLend
      <4>2. ~ (td_priority[o] > pri)
        BY <1>6, <3>1, <4>1
      <4>3. td_priority[o] <= td_priority[h]
        BY <1>2, <4>1, <4>2
      <4> QED BY <2>1, <4>3 DEF Covered
    <3>4. CASE ~WillLend(t, h)
      BY <1>1, <1>5, <2>1, <3>2, <3>4 DEF Covered, OthersStay
    <3> QED BY <3>3, <3>4
  <2> QED BY <2>2, <2>3, <2>4 DEF PriInv
<1>7. CASE lends
  <2>1. w \in Threads /\ td_priority[w] > pri /\ w # td
    BY <1>2, <1>3, <1>7
  <2>2. /\ td_priority' = [td_priority EXCEPT ![w] = pri]
        /\ td_state[w] # "lock" => pc'[td] = "blocked"
        /\ td_state[w] = "lock" => /\ pc'[td] = "sort" /\ peer'[td] = w
                                   /\ tsp'[td] = td_blocked[w]
    BY <1>2, <1>7, <2>1 DEF Propagate, Switch, Goto
  <2>3. td_priority'[w] = pri /\ \A u \in Threads : u # w => td_priority'[u] = td_priority[u]
    BY <1>2, <2>1, <2>2
  <2>4. \A u \in Threads : td_priority'[u] \in Nat /\ td_priority[u] \in Nat /\ td_priority'[u] <= td_priority[u]
    BY <1>2, <2>1, <2>3
  <2> HIDE DEF w, pri
  <2>5. LoanInv'
    <3>1. ASSUME NEW u \in Threads, td_priority'[u] # BasePri[u]
          PROVE  pc'[u] = "unpendpri" \/ \E t \in Turnstiles : ts_owner'[t] = u
      <4>1. CASE u = w
        BY <1>1, <1>3, <4>1 DEF w
      <4>2. CASE u # w
        BY <1>1, <1>5, <2>3, <3>1, <4>2 DEF PriInv, LoanInv, OthersStay
      <4> QED BY <4>1, <4>2
    <3>2. pc'[td] \in {"blocked", "sort"}
      BY <2>2
    <3>3. \A u \in Threads : pc'[u] \in {"claimpri", "unpend"} => u # td
      BY <3>2
    <3> QED BY <1>1, <1>5, <3>1, <3>3 DEF PriInv, LoanInv, OthersStay
  <2>6. ASSUME NEW u \in Threads, pc'[u] = "sort" PROVE td_priority'[u] <= td_priority'[peer'[u]]
    <3>1. u = td
      BY <1>4, <1>5, <2>6 DEF OthersStay
    <3>2. peer'[td] = w
      BY <2>2, <2>6, <3>1
    <3>3. td_priority'[td] = pri /\ td_priority'[w] = pri
      BY <2>1, <2>3 DEF pri
    <3> QED BY <2>4, <3>1, <3>2, <3>3
  <2>7. ASSUME NEW t \in Turnstiles, NEW o \in Threads, NEW h \in Threads,
               (ts_owner[t] = o)', First(t, h)'
        PROVE  Covered(t, o, h)'
    <3>1. First(t, h) /\ ts_owner[t] = o
      BY <1>1, <2>7 DEF First
    <3>2. Covered(t, o, h)
      BY <3>1 DEF PriInv
    <3>3. CASE h # w
      <4>1. CASE WillLend(t, h)
        <5>1. tsp[td] = t /\ td_priority[td] <= td_priority[h]
          BY <1>1, <1>4, <4>1 DEF WillLend
        <5>2. o = w /\ pri <= td_priority[h]
          BY <3>1, <5>1 DEF w, pri
        <5> QED BY <2>3, <3>3, <5>2 DEF Covered
      <4>2. CASE td_priority[o] <= td_priority[h]
        <5>1. td_priority'[o] <= td_priority'[h]
          BY <2>3, <2>4, <3>3, <4>2
        <5> QED BY <5>1 DEF Covered
      <4>3. CASE \/ pc[h] = "block" \/ pc[o] \in {"unpend", "unpendpri"}
                 \/ (pc[o] = "claimpri" /\ peer[o] = h)
        BY <1>1, <1>5, <4>3 DEF Covered, OthersStay
      <4> QED BY <3>2, <4>1, <4>2, <4>3 DEF Covered
    <3>4. CASE h = w
      <4>1. Queued(w, t) /\ td_turnstile[w] = Null /\ pc[w] \in {"block", "prop", "sort", "blocked"}
        BY <3>1, <3>4, FirstFacts
      <4>2. CASE td_state[w] = "lock"
        <5>1. td_blocked[w] \in Turnstiles /\ Queued(w, td_blocked[w])
          BY <2>1, <4>1, <4>2 DEF TurnstileInv, StateInv, TypeOK
        <5>2. td_blocked[w] = t
          BY <3>1, <3>4, <5>1, FirstFacts
        <5>3. pc'[td] = "sort" /\ peer'[td] = h /\ tsp'[td] = t
          BY <2>2, <3>4, <4>2, <5>2
        <5>4. WillLend(t, h)'
          BY <5>3 DEF WillLend
        <5> QED BY <5>4 DEF Covered
      <4>3. CASE td_state[w] # "lock"
        <5>1. pc[w] = "block"
          BY <2>1, <4>1, <4>3 DEF TurnstileInv, StateInv
        <5>2. pc'[h] = "block"
          BY <1>5, <2>1, <3>4, <5>1 DEF OthersStay
        <5> QED BY <5>2 DEF Covered
      <4> QED BY <4>2, <4>3
    <3> QED BY <3>3, <3>4
  <2> QED BY <2>5, <2>6, <2>7 DEF PriInv
<1> QED BY <1>6, <1>7

(* The first of a queue in which one thread has moved was so before or is  *)
(* that thread.                                                            *)
LEMMA ResortedFirst ==
    ASSUME NEW q \in Seq(Threads), NEW td \in ToSet(q), NEW pri, Position(q, td) # 1
    PROVE  LET r == InsertByPri(RemoveAt(q, Position(q, td)), td, pri) IN
           Head(r) = td \/ Head(r) = Head(q)
<1> DEFINE i == Position(q, td)
           s == RemoveAt(q, i)
<1>1. Len(q) \in Nat /\ DOMAIN q = 1..Len(q) /\ td \in Threads
  BY LenProperties, ToSetEmpty
<1>2. i \in 1..Len(q) /\ i # 1
  <2>1. \E k \in DOMAIN q : q[k] = td
    BY DEF ToSet
  <2> QED BY <1>1, <2>1 DEF Position
<1> HIDE DEF i
<1> DEFINE a == SubSeq(q, 1, i - 1)
           b == SubSeq(q, i + 1, Len(q))
<1>3. s = a \o b
  BY DEF RemoveAt
<1>4. a \in Seq(Threads) /\ Len(a) = i - 1 /\ a[1] = q[1]
  BY <1>1, <1>2, SubSeqProperties
<1>5. b \in Seq(Threads)
  <2>1. i + 1 \in Int /\ Len(q) \in Int /\ \A k \in i + 1 .. Len(q) : q[k] \in Threads
    BY <1>1, <1>2
  <2> QED BY <2>1, SubSeqProperties
<1> HIDE DEF a, b, s
<1>6. s \in Seq(Threads) /\ Len(s) = Len(a) + Len(b) /\ s[1] = a[1]
  <2>1. Len(a) \in Nat /\ Len(b) \in Nat /\ 1 <= Len(a)
    BY <1>2, <1>4, <1>5, LenProperties
  <2>2. /\ s \in Seq(Threads) /\ Len(s) = Len(a) + Len(b)
        /\ \A k \in 1 .. Len(a) + Len(b) : s[k] = IF k <= Len(a) THEN a[k] ELSE b[k - Len(a)]
    BY <1>3, <1>4, <1>5, ConcatProperties
  <2> QED BY <2>1, <2>2
<1>7. s # <<>> /\ Head(s) = s[1]
  <2>1. Len(s) # 0 /\ Len(s) \in Nat
    BY <1>2, <1>4, <1>5, <1>6, LenProperties
  <2> QED BY <1>6, <2>1, EmptySeq, HeadTailProperties
<1>8. Head(q) = q[1]
  <2>1. Len(q) # 0
    BY <1>1, <1>2
  <2> QED BY <2>1, EmptySeq, HeadTailProperties
<1>9. \/ Head(InsertByPri(s, td, pri)) = td
      \/ s # <<>> /\ Head(InsertByPri(s, td, pri)) = Head(s)
  BY <1>1, <1>6, InsertedFirst
<1> QED BY <1>4, <1>6, <1>7, <1>8, <1>9 DEF s, i

(* The rest of a turn: the owner moves up in its queue, and its first      *)
(* waiter is as before, or is the one whose priority is being lent.        *)
LEMMA ResortPriority ==
    ASSUME TurnstileInv, PriInv, NEW td \in Threads, Resort(td)
    PROVE  PriInv'
<1> USE ConstantsAssumption DEF Turnstiles
<1> DEFINE ts == tsp[td]
           w  == peer[td]
<1>1. pc[td] = "sort" /\ UNCHANGED <<ts_owner, td_priority>>
  BY DEF Resort, schedVars
<1>2. /\ pc \in [Threads -> PcValues] /\ td_priority \in [Threads -> Nat]
      /\ tsp \in [Threads -> Turnstiles \cup {Null}] /\ peer \in [Threads -> Threads \cup {Null}]
      /\ ts_blocked \in [Turnstiles -> Seq(Threads)]
  BY DEF TurnstileInv, TypeOK, LockTypeOK
<1>3. ts \in Turnstiles /\ w \in Threads /\ td_priority[td] <= td_priority[w]
  BY <1>1, <1>2 DEF TurnstileInv, StateInv, SortInv, PriInv
<1>4. \A u \in Threads : u # td => pc[u] \notin {"prop", "sort"}
  BY <1>1, OnePropagates
<1>5. OthersStay(td) /\ pc'[td] \in {"blocked", "prop"}
  BY <1>2 DEF OthersStay, Resort, Switch, Goto
<1>6. LoanInv'
  BY <1>1, <1>5 DEF PriInv, LoanInv, OthersStay
<1>7. \A u \in Threads : pc'[u] # "sort"
  BY <1>4, <1>5 DEF OthersStay
<1>8. ASSUME NEW t \in Turnstiles, NEW o \in Threads, NEW h \in Threads, First(t, h), ts_owner[t] = o,
             ~WillLend(t, h)
      PROVE  Covered(t, o, h)'
  <2>1. Covered(t, o, h)
    BY <1>8 DEF PriInv
  <2> QED BY <1>1, <1>5, <1>8, <2>1 DEF Covered, OthersStay
<1>9. CASE td_turnstile[w] # Null
  <2>1. UNCHANGED ts_blocked
    BY <1>9 DEF Resort
  <2>2. ASSUME NEW t \in Turnstiles, NEW o \in Threads, NEW h \in Threads,
               (ts_owner[t] = o)', First(t, h)'
        PROVE  Covered(t, o, h)'
    <3>1. First(t, h) /\ ts_owner[t] = o
      BY <1>1, <2>1, <2>2 DEF First
    <3>2. td_turnstile[h] = Null
      BY <3>1, FirstFacts
    <3>3. ~WillLend(t, h)
      BY <1>1, <1>4, <1>9, <3>2 DEF WillLend
    <3> QED BY <1>8, <3>1, <3>3
  <2> QED BY <1>6, <1>7, <2>2 DEF PriInv
<1>10. CASE td_turnstile[w] = Null
  <2> DEFINE q == ts_blocked[ts]
             i == Position(q, w)
             stays == i = 1 \/ td_priority[q[i - 1]] <= td_priority[td]
             r == InsertByPri(RemoveAt(q, i), w, td_priority[td])
  <2>1. /\ ts_blocked' = [ts_blocked EXCEPT ![ts] = IF stays THEN ts_blocked[ts] ELSE r]
        /\ pc' = [pc EXCEPT ![td] = "prop"] /\ UNCHANGED tsp
    BY <1>10 DEF Resort, Goto
  <2>2. pc'[td] = "prop" /\ tsp'[td] = ts
    BY <1>2, <2>1
  <2>3. /\ ts_blocked'[ts] = IF stays THEN q ELSE r
        /\ \A t \in Turnstiles : t # ts => ts_blocked'[t] = ts_blocked[t]
    BY <1>2, <1>3, <2>1
  <2>4. w \in ToSet(q) /\ q \in Seq(Threads) /\ q # <<>>
    <3>1. td_state[w] = "lock" /\ ts = td_blocked[w]
      BY <1>1 DEF TurnstileInv, SortInv
    <3>2. Queued(w, ts)
      BY <1>3, <1>10, <3>1 DEF TurnstileInv, StateInv
    <3>3. HasWaiters(ts)
      BY <1>3, <3>2, InHand
    <3> QED BY <1>2, <1>3, <3>2, <3>3 DEF Queued, HasWaiters
  <2>5. Head(ts_blocked'[ts]) = w \/ Head(ts_blocked'[ts]) = Head(q)
    <3>1. CASE stays
      BY <2>3, <3>1
    <3>2. CASE ~stays
      <4>1. Head(r) = w \/ Head(r) = Head(q)
        BY <2>4, <3>2, ResortedFirst
      <4> QED BY <2>3, <3>2, <4>1
    <3> QED BY <3>1, <3>2
  <2> HIDE DEF i, stays, r, q, w, ts
  <2>6. ASSUME NEW t \in Turnstiles, NEW o \in Threads, NEW h \in Threads,
               (ts_owner[t] = o)', First(t, h)'
        PROVE  Covered(t, o, h)'
    <3>1. CASE t = ts /\ h = w
      <4>1. tsp'[td] = t /\ pc'[td] = "prop" /\ td_priority'[td] <= td_priority'[h]
        BY <1>1, <1>3, <2>2, <3>1
      <4>2. WillLend(t, h)'
        BY <4>1 DEF WillLend
      <4> QED BY <4>2 DEF Covered
    <3>2. CASE ~(t = ts /\ h = w)
      <4>1. First(t, h) /\ ts_owner[t] = o
        <5>1. CASE t = ts
          <6>1. Head(ts_blocked'[ts]) = h
            BY <2>6, <5>1 DEF First
          <6> QED BY <1>1, <2>4, <2>5, <2>6, <3>2, <5>1, <6>1 DEF First, q
        <5>2. CASE t # ts
          BY <1>1, <2>3, <2>6, <5>2 DEF First
        <5> QED BY <5>1, <5>2
      <4>2. ~WillLend(t, h)
        <5>1. ~(tsp[td] = t /\ peer[td] = h)
          BY <3>2 DEF ts, w
        <5> QED BY <1>1, <1>4, <5>1 DEF WillLend
      <4> QED BY <1>8, <4>1, <4>2
    <3> QED BY <3>1, <3>2
  <2> QED BY <1>6, <1>7, <2>6 DEF PriInv
<1> QED BY <1>9, <1>10

(* A contested release: until turnstile_unpend() is through, what the      *)
(* releaser owes is open.                                                  *)
LEMMA SignalPriority ==
    ASSUME TurnstileInv, PriInv, NEW td \in Threads, UnlockSignal(td)
    PROVE  PriInv'
<1>1. PICK ts, td1, given : Signals(td, ts, td1, given)
  BY UnlockSignals
<1>2. /\ pc[td] = "ulookup" /\ pc'[td] = "unpend" /\ tsp'[td] = ts /\ OthersStay(td)
      /\ ts \in Turnstiles /\ \A t \in Turnstiles : t # ts => ts_blocked'[t] = ts_blocked[t]
  BY <1>1 DEF Signals
<1>3. UNCHANGED <<ts_owner, td_priority>>
  BY DEF UnlockSignal, schedVars
<1>4. ts_owner[ts] = td
  BY <1>1, SignalFacts
<1>5. LoanInv'
  BY <1>2, <1>3, <1>4 DEF PriInv, LoanInv, OthersStay
<1>6. ASSUME NEW u \in Threads, pc'[u] = "sort" PROVE td_priority'[u] <= td_priority'[peer'[u]]
  <2>1. u # td /\ pc[u] = "sort" /\ peer'[u] = peer[u]
    BY <1>2, <1>6 DEF OthersStay
  <2> QED BY <1>3, <2>1 DEF PriInv
<1>7. ASSUME NEW t \in Turnstiles, NEW o \in Threads, NEW h \in Threads,
             (ts_owner[t] = o)', First(t, h)'
      PROVE  Covered(t, o, h)'
  <2>1. CASE o = td
    BY <1>2, <2>1 DEF Covered
  <2>2. CASE o # td
    <3>1. First(t, h) /\ ts_owner[t] = o
      BY <1>2, <1>3, <1>4, <1>7, <2>2 DEF First
    <3>2. Covered(t, o, h)
      BY <3>1 DEF PriInv
    <3> QED BY <1>2, <1>3, <3>2, CoverKept DEF Lending
  <2> QED BY <2>1, <2>2
<1> QED BY <1>5, <1>6, <1>7 DEF PriInv

(* turnstile_unpend() under the chain lock takes the turnstile off the     *)
(* releaser's list, and off nobody else's.                                 *)
LEMMA UnpendPriority ==
    ASSUME TurnstileInv, PriInv, NEW td \in Threads, Unpend(td)
    PROVE  PriInv'
<1> USE ConstantsAssumption DEF Turnstiles
<1> DEFINE ts == tsp[td]
<1>1. /\ pc[td] = "unpend" /\ pc' = [pc EXCEPT ![td] = "unpendpri"]
      /\ ts_owner' = [ts_owner EXCEPT ![ts] = Null]
      /\ tsp' = [tsp EXCEPT ![td] = Null]
      /\ UNCHANGED <<ts_blocked, td_priority, peer, arg>>
  BY DEF Unpend, At, Goto, schedVars
<1>2. /\ pc \in [Threads -> PcValues] /\ tsp \in [Threads -> Turnstiles \cup {Null}]
      /\ ts_owner \in [Turnstiles -> Threads \cup {Null}]
  BY DEF TurnstileInv, TypeOK, LockTypeOK
<1>3. pc'[td] = "unpendpri" /\ OthersStay(td)
  BY <1>1, <1>2 DEF OthersStay
<1>4. ts \in Turnstiles /\ ts_owner[ts] = td
  BY <1>1, <1>2 DEF TurnstileInv, PointerInv, PriInv, LoanInv
<1>5. ts_owner'[ts] = Null /\ \A t \in Turnstiles : t # ts => ts_owner'[t] = ts_owner[t]
  BY <1>1, <1>2, <1>4
<1> HIDE DEF ts
<1>6. \A t \in Turnstiles, u \in Threads : u # td /\ ts_owner[t] = u => ts_owner'[t] = u
  BY <1>4, <1>5
<1>7. LoanInv'
  <2>1. ASSUME NEW u \in Threads, td_priority'[u] # BasePri[u]
        PROVE  pc'[u] = "unpendpri" \/ \E t \in Turnstiles : ts_owner'[t] = u
    BY <1>1, <1>3, <1>6, <2>1 DEF PriInv, LoanInv, OthersStay
  <2>2. ASSUME NEW u \in Threads, pc'[u] = "claimpri" PROVE \E t \in Turnstiles : ts_owner'[t] = u
    BY <1>3, <1>6, <2>2 DEF PriInv, LoanInv, OthersStay
  <2>3. ASSUME NEW u \in Threads, pc'[u] = "unpend" PROVE ts_owner'[tsp'[u]] = u
    <3>1. u # td /\ pc[u] = "unpend" /\ tsp'[u] = tsp[u]
      BY <1>3, <2>3 DEF OthersStay
    <3>2. ts_owner[tsp[u]] = u /\ tsp[u] \in Turnstiles
      BY <1>2, <3>1 DEF PriInv, LoanInv, TurnstileInv, PointerInv
    <3> QED BY <1>6, <3>1, <3>2
  <2> QED BY <2>1, <2>2, <2>3 DEF LoanInv
<1>8. ASSUME NEW u \in Threads, pc'[u] = "sort" PROVE td_priority'[u] <= td_priority'[peer'[u]]
  <2>1. pc[u] = "sort"
    BY <1>3, <1>8 DEF OthersStay
  <2> QED BY <1>1, <2>1 DEF PriInv
<1>9. ASSUME NEW t \in Turnstiles, NEW o \in Threads, NEW h \in Threads,
             (ts_owner[t] = o)', First(t, h)'
      PROVE  Covered(t, o, h)'
  <2>1. First(t, h) /\ ts_owner[t] = o
    BY <1>1, <1>5, <1>9 DEF First
  <2>2. Covered(t, o, h)
    BY <2>1 DEF PriInv
  <2> QED BY <1>1, <1>3, <2>2, CoverKept
<1> QED BY <1>7, <1>8, <1>9 DEF PriInv

(* What a thread is left with is its own priority or that of the first     *)
(* waiter of a lock it still has, and no more than any of them.            *)
LEMMA LentPriFacts ==
    ASSUME TurnstileInv, NEW td \in Threads, pc[td] # "unpend"
    PROVE  /\ LentPri(td) \in Nat
           /\ LentPri(td) # BasePri[td] => \E ts \in Turnstiles : ts_owner[ts] = td
           /\ \A ts \in Turnstiles, h \in Threads :
                 ts_owner[ts] = td /\ First(ts, h) => LentPri(td) <= td_priority[h]
<1> USE ConstantsAssumption DEF Turnstiles
<1> DEFINE cps == {td_priority[Head(ts_blocked[ts])] : ts \in td_contested(td)}
           all == cps \cup {BasePri[td]}
<1>1. \A ts \in td_contested(td) : ts \in Turnstiles /\ ts_owner[ts] = td /\ ts_blocked[ts] # <<>>
  BY DEF TurnstileInv, ContestedInv, td_contested, HasWaiters
<1>2. \A ts \in td_contested(td) : td_priority[Head(ts_blocked[ts])] \in Nat
  <2> SUFFICES ASSUME NEW ts \in td_contested(td) PROVE td_priority[Head(ts_blocked[ts])] \in Nat
    OBVIOUS
  <2>1. ts_blocked[ts] \in Seq(Threads) /\ ts_blocked[ts] # <<>>
    BY <1>1 DEF TurnstileInv, TypeOK
  <2>2. Head(ts_blocked[ts]) \in Threads
    BY <2>1, HeadInQueue
  <2> QED BY <2>2 DEF TurnstileInv, TypeOK
<1>3. all \in SUBSET Nat /\ all # {}
  BY <1>2
<1>4. \E p \in all : \A q \in all : p <= q
  BY <1>3, LeastNat
<1>5. LentPri(td) = CHOOSE p \in all : \A q \in all : p <= q
  BY DEF LentPri
<1>6. LentPri(td) \in all /\ \A q \in all : LentPri(td) <= q
  BY <1>4, <1>5
<1>7. ASSUME NEW ts \in Turnstiles, NEW h \in Threads, ts_owner[ts] = td, First(ts, h)
      PROVE  LentPri(td) <= td_priority[h]
  <2>1. td_priority[h] \in all
    BY <1>7 DEF First, td_contested
  <2> QED BY <1>6, <2>1
<1>8. LentPri(td) # BasePri[td] => \E ts \in Turnstiles : ts_owner[ts] = td
  BY <1>1, <1>6
<1> QED BY <1>3, <1>6, <1>7, <1>8

(* turnstile_unpend() under sched_lock: the releaser gives back what it    *)
(* does not owe for another lock.                                          *)
LEMMA UnpendPriPriority ==
    ASSUME TurnstileInv, PriInv, NEW td \in Threads, UnpendPri(td)
    PROVE  PriInv'
<1> USE ConstantsAssumption DEF Turnstiles
<1>1. /\ pc[td] = "unpendpri" /\ pc' = [pc EXCEPT ![td] = "uswitch"] /\ sched_lock = Null
      /\ td_priority' = [td_priority EXCEPT ![td] = LentPri(td)]
      /\ UNCHANGED <<ts_owner, ts_blocked, tsp, peer>>
  BY DEF UnpendPri, At, Goto, tsVars
<1>2. pc \in [Threads -> PcValues] /\ td_priority \in [Threads -> Nat]
  BY DEF TurnstileInv, TypeOK, LockTypeOK
<1>3. /\ pc'[td] = "uswitch" /\ td_priority'[td] = LentPri(td)
      /\ \A u \in Threads : u # td => pc'[u] = pc[u] /\ td_priority'[u] = td_priority[u]
  BY <1>1, <1>2
<1>4. \A u \in Threads : pc[u] \notin {"prop", "sort"}
  BY <1>1, OnePropagates
<1>5. LoanInv'
  <2>1. ASSUME NEW u \in Threads, td_priority'[u] # BasePri[u]
        PROVE  pc'[u] = "unpendpri" \/ \E t \in Turnstiles : ts_owner'[t] = u
    <3>1. CASE u = td
      BY <1>1, <1>3, <2>1, <3>1, LentPriFacts
    <3>2. CASE u # td
      BY <1>1, <1>3, <2>1, <3>2 DEF PriInv, LoanInv
    <3> QED BY <3>1, <3>2
  <2> QED BY <1>1, <1>3, <2>1 DEF PriInv, LoanInv
<1>6. \A u \in Threads : pc'[u] # "sort"
  BY <1>3, <1>4
<1>7. ASSUME NEW t \in Turnstiles, NEW o \in Threads, NEW h \in Threads,
             (ts_owner[t] = o)', First(t, h)'
      PROVE  Covered(t, o, h)'
  <2>1. First(t, h) /\ ts_owner[t] = o
    BY <1>1, <1>7 DEF First
  <2>2. h # td
    BY <1>1, <2>1, FirstFacts
  <2>3. CASE o = td
    <3>1. LentPri(td) <= td_priority[h]
      BY <1>1, <2>1, <2>3, LentPriFacts
    <3> QED BY <1>3, <2>2, <2>3, <3>1 DEF Covered
  <2>4. CASE o # td
    <3>1. Covered(t, o, h) /\ ~WillLend(t, h)
      BY <1>4, <2>1 DEF PriInv, WillLend
    <3> QED BY <1>1, <1>3, <2>2, <2>4, <3>1 DEF Covered
  <2> QED BY <2>3, <2>4
<1> QED BY <1>5, <1>6, <1>7 DEF PriInv

(* Every step of the program keeps the promises about priorities. *)
LEMMA PriStep ==
    ASSUME TurnstileInv, PriInv, [Next]_vars
    PROVE  PriInv'
<1> USE DEF TurnstileInv, TypeOK, LockTypeOK
<1>1. ASSUME NEW td \in Threads, Client(td) PROVE PriInv'
  <2>1. PICK m \in Locks : MtxLock(td, m) \/ MtxTrylock(td, m) \/ MtxUnlock(td, m)
    BY <1>1 DEF Client
  <2>2. /\ pc[td] = "idle" /\ pc'[td] \in {"idle", "obtain", "ulookup"}
        /\ OthersStay(td) /\ UNCHANGED <<ts_owner, ts_blocked, td_priority>>
    BY <2>1 DEF MtxLock, MtxTrylock, MtxUnlock, At, Goto, OthersStay, tsVars, schedVars, locals
  <2> QED BY <2>2, PriLight DEF Lending
<1>2. ASSUME NEW td \in Threads, LockStep(td) PROVE PriInv'
  <2>1. CASE Obtain(td) \/ Lookup(td) \/ Cmpset(td) \/ Spin(td) \/ Resume(td)
    <3>1. /\ pc[td] \in {"obtain", "lookup", "cmpset", "spin", "blocked"}
          /\ pc'[td] \in {"idle", "obtain", "lookup", "claim", "cmpset", "wait", "spin"}
          /\ OthersStay(td) /\ UNCHANGED <<ts_owner, ts_blocked, td_priority>>
      BY <2>1 DEF Obtain, Lookup, Cmpset, Spin, Resume, At, Goto, Return, OthersStay, tsVars,
                  schedVars, locals
    <3> QED BY <3>1, PriLight DEF Lending
  <2> QED BY <1>2, <2>1, ClaimPriority, ClaimPriPriority, WaitPriority, BlockPriority,
             PropagatePriority, ResortPriority DEF LockStep
<1>3. ASSUME NEW td \in Threads, UnlockStep(td) PROVE PriInv'
  <2>1. CASE UnlockNoSleepers(td) \/ USwitch(td) \/ UYield(td)
    <3>1. /\ pc[td] \in {"ulookup", "uswitch", "uyield"} /\ pc'[td] \in {"idle", "uyield"}
          /\ OthersStay(td) /\ UNCHANGED <<ts_owner, ts_blocked, td_priority>>
      BY <2>1 DEF UnlockNoSleepers, USwitch, UYield, At, Goto, Return, OthersStay, tsVars,
                  schedVars
    <3> QED BY <3>1, PriLight DEF Lending
  <2> QED BY <1>3, <2>1, SignalPriority, UnpendPriority, UnpendPriPriority DEF UnlockStep
<1>4. ASSUME NEW td \in Threads, Preempt(td) \/ Dispatch(td) PROVE PriInv'
  BY <1>4, PriSame DEF Preempt, Dispatch, tsVars, locals
<1>5. CASE UNCHANGED vars
  BY <1>5, PriSame DEF vars, tsVars, schedVars, locals
<1> QED BY <1>1, <1>2, <1>3, <1>4, <1>5 DEF Next

(* Loans are given and returned in every reachable state. *)
THEOREM PrioritySafety == Spec => [](TurnstileInv /\ PriInv)
<1>1. Init => PriInv
  <2> SUFFICES ASSUME Init PROVE PriInv
    OBVIOUS
  <2>1. /\ \A td \in Threads : td_priority[td] = BasePri[td] /\ pc[td] = "idle"
        /\ \A ts \in Turnstiles : ts_blocked[ts] = <<>>
    BY DEF Init
  <2>2. LoanInv
    BY <2>1 DEF LoanInv
  <2>3. \A ts \in Turnstiles, h \in Threads : ~First(ts, h)
    BY <2>1 DEF First
  <2> QED BY <2>1, <2>2, <2>3 DEF PriInv
<1>2. TurnstileInv /\ PriInv /\ [Next]_vars => PriInv'
  BY PriStep
<1> QED BY <1>1, <1>2, TurnstileSafety, PTL DEF Spec

(* Priority inheritance works for any number of threads and any chain of   *)
(* mutexes: once the priorities are settled, an owner is as urgent as the  *)
(* first thread blocked on its mutex.                                      *)
THEOREM PriorityInheritanceHolds == Spec => []PriorityInheritance
<1>1. TurnstileInv /\ PriInv => PriorityInheritance
  <2> SUFFICES ASSUME TurnstileInv, PriInv, PrioritiesSettled, NEW ts \in Turnstiles,
                      ts_owner[ts] # Null, ts_blocked[ts] # <<>>
               PROVE  td_priority[ts_owner[ts]] <= td_priority[Head(ts_blocked[ts])]
    BY DEF PriorityInheritance
  <2>1. PICK h : h = Head(ts_blocked[ts])
    OBVIOUS
  <2>2. PICK o \in Threads : o = ts_owner[ts]
    BY DEF TurnstileInv, TypeOK
  <2>3. First(ts, h) /\ h \in Threads
    <3>1. First(ts, h)
      BY <2>1 DEF First
    <3> QED BY <3>1, FirstFacts
  <2>4. Covered(ts, o, h)
    BY <2>2, <2>3 DEF PriInv
  <2>5. td_priority[o] <= td_priority[h]
    BY <2>3, <2>4 DEF Covered, WillLend, PrioritiesSettled
  <2> QED BY <2>1, <2>2, <2>5
<1> QED BY <1>1, PrioritySafety, PTL

(* A thread that runs without any mutex has given back what it was lent.   *)
THEOREM PriorityReturnedHolds == Spec => []PriorityReturned
<1>1. TurnstileInv /\ PriInv => PriorityReturned
  <2> SUFFICES ASSUME TurnstileInv, PriInv, NEW td \in Threads, pc[td] = "idle",
                      \A m \in Locks : held[td][m] = 0, td_priority[td] # BasePri[td]
               PROVE  FALSE
    BY DEF PriorityReturned
  <2>1. PICK ts \in Turnstiles : ts_owner[ts] = td
    BY DEF PriInv, LoanInv
  <2>2. HasWaiters(ts) /\ ts_lockobj[ts] \in Locks
    BY <2>1, ConstantsAssumption DEF TurnstileInv, ContestedInv, HashInv
  <2>3. ~ \E u \in Threads : pc[u] = "unpend" /\ tsp[u] = ts
    BY <2>1 DEF PriInv, LoanInv
  <2>4. Owner(ts_lockobj[ts]) = td
    BY <2>1, <2>2, <2>3 DEF TurnstileInv, ContestedInv
  <2> QED BY <2>2, <2>4 DEF TurnstileInv, LockSafe, LockInv
<1> QED BY <1>1, PrioritySafety, PTL
=============================================================================
