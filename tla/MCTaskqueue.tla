----------------------------- MODULE MCTaskqueue -----------------------------
(* Instances of Taskqueue for TLC. *)
EXTENDS Taskqueue, TLC

CONSTANTS tqh, h1, h2, w1, w2, w3, k1

MCih_pri == tqh :> 1 @@ h1 :> 1 @@ h2 :> 2

MCta_priority == w1 :> 0 @@ w2 :> 1 @@ w3 :> 1 @@ k1 :> 0

=============================================================================
