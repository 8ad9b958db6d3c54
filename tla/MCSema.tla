------------------------------- MODULE MCSema --------------------------------
(* Instances of Sema for TLC. *)
EXTENDS Sema, TLC

CONSTANTS t1, t2, t3, t4

=============================================================================
