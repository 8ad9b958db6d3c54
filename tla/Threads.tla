------------------------------- MODULE Threads -------------------------------
(* The threads that use the locks made of a mutex and condition variables. *)
EXTENDS FiniteSets

CONSTANT Threads    \* kernel threads

ASSUME ThreadsAssumption == IsFiniteSet(Threads)

=============================================================================
