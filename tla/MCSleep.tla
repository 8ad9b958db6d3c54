------------------------------- MODULE MCSleep -------------------------------
(* Instances of Sleep for TLC. *)
EXTENDS Sleep

CONSTANTS t1, t2, t3, w1, w2, cv1, b0

(* t1 sleeps in every way, t2 on its channel or beside it; t3 does not. *)
ManySleeps ==
    [td \in Threads |->
        CASE td = t1 -> {w1, cv1} \X BOOLEAN \X BOOLEAN
          [] td = t2 -> {<<w2, FALSE, FALSE>>, <<w1, TRUE, FALSE>>}
          [] OTHER   -> {}]

OneBucket == [w \in Idents |-> b0]
=============================================================================
