-------------------------------- MODULE Queue --------------------------------
(***************************************************************************)
(* The kernel's tail queues (sys/sys/queue.h) are sequences; this is the   *)
(* one operation that the sequences of the community modules lack in a     *)
(* form that can be reasoned about.                                        *)
(***************************************************************************)
EXTENDS Naturals, Sequences

(* TAILQ_REMOVE of every member of S: the others stay, in their order. *)
Dequeued(q, S) ==
    LET kept[n \in 0..Len(q)] ==
            IF n = 0 THEN <<>>
            ELSE IF q[n] \in S THEN kept[n - 1] ELSE Append(kept[n - 1], q[n])
    IN  kept[Len(q)]

=============================================================================
