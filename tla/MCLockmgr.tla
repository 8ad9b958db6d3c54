------------------------------ MODULE MCLockmgr ------------------------------
(* Instances of Lockmgr for TLC. *)
EXTENDS Lockmgr, TLC

CONSTANTS t1, t2, t3, t4

Symmetry3 == Permutations({t1, t2, t3})

=============================================================================
