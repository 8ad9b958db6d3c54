-------------------------------- MODULE MCSx ---------------------------------
(* Instances of Sx for TLC. *)
EXTENDS Sx, TLC

CONSTANTS t1, t2, t3, t4

=============================================================================
