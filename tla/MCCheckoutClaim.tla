-------------------------- MODULE MCCheckoutClaim --------------------------
(* Instances of CheckoutClaim for TLC. *)
EXTENDS CheckoutClaim, TLC

Symmetry == Permutations(Workers) \cup Permutations(RowIds) \cup Permutations(Nonces)

===========================================================================
