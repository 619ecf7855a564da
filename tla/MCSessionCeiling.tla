-------------------------- MODULE MCSessionCeiling --------------------------
(* Instances of SessionCeiling for TLC. *)
EXTENDS SessionCeiling, TLC

Symmetry == Permutations(Workers)

=============================================================================
