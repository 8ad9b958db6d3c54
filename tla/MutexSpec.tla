----------------------------- MODULE MutexSpec -------------------------------
(***************************************************************************)
(* What sleep mutexes promise their clients (mutex(9), sys/sys/mutex.h):   *)
(* a call of mtx_lock() returns only when no other thread holds the mutex, *)
(* a thread inside mtx_lock() does nothing else, and recursion is counted. *)
(* How a thread waits, and who is woken, is not visible here.              *)
(***************************************************************************)
EXTENDS Integers

CONSTANTS Threads, Locks, Null

VARIABLES
    depth,   \* how many times each thread holds each mutex
    wants    \* the mutex a thread is waiting for inside mtx_lock(), or Null

vars == <<depth, wants>>

Init ==
    /\ depth = [td \in Threads |-> [m \in Locks |-> 0]]
    /\ wants = [td \in Threads |-> Null]

Free(td, m) == \A u \in Threads : u # td => depth[u][m] = 0

(* mtx_lock() or mtx_trylock() succeeds at once, perhaps recursively. *)
Acquire(td, m) ==
    /\ wants[td] = Null
    /\ Free(td, m)
    /\ depth' = [depth EXCEPT ![td][m] = @ + 1]
    /\ UNCHANGED wants

(* mtx_lock() has to wait. *)
Request(td, m) ==
    /\ wants[td] = Null
    /\ depth[td][m] = 0
    /\ wants' = [wants EXCEPT ![td] = m]
    /\ UNCHANGED depth

(* A waiting mtx_lock() returns. *)
Grant(td, m) ==
    /\ wants[td] = m
    /\ Free(td, m)
    /\ wants' = [wants EXCEPT ![td] = Null]
    /\ depth' = [depth EXCEPT ![td][m] = @ + 1]

(* mtx_unlock() *)
Release(td, m) ==
    /\ wants[td] = Null
    /\ depth[td][m] > 0
    /\ depth' = [depth EXCEPT ![td][m] = @ - 1]
    /\ UNCHANGED wants

Next == \E td \in Threads, m \in Locks :
    Acquire(td, m) \/ Request(td, m) \/ Grant(td, m) \/ Release(td, m)

Spec == Init /\ [][Next]_vars

=============================================================================
