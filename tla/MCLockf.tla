------------------------------- MODULE MCLockf -------------------------------
(* Instances of Lockf for TLC. *)
EXTENDS Lockf, TLC

CONSTANTS p1, p2, p3, f1

Symmetry2 == Permutations({p1, p2})
Symmetry3 == Permutations({p1, p2, p3})

=============================================================================
