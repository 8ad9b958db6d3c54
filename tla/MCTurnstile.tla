----------------------------- MODULE MCTurnstile -----------------------------
(* Instances of Turnstile for TLC: thread and lock names and the values of *)
(* the function constants that a configuration file cannot write.          *)
EXTENDS Turnstile, TLC

CONSTANTS t1, t2, t3, t4, chain0, chain1

(* Two mutexes on different chains; t1 is the least urgent thread. *)
TwoLocks   == {1, 2}
SplitHash  == (1 :> chain0) @@ (2 :> chain1)
ThreePris  == [t \in Threads |-> IF t = t1 THEN 3 ELSE IF t = t2 THEN 2 ELSE 1]
OneLock    == {1}
OneHash    == (1 :> chain0)
OneUse     == [t \in Threads |-> {1}]
AllUses    == [t \in Threads |-> {1, 2}]
=============================================================================
