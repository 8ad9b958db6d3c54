------------------------------ MODULE MCCallout ------------------------------
(* Instances of Callout for TLC. *)
EXTENDS Callout

CONSTANTS c1, c2, s1, f1
=============================================================================
