---------------------------- MODULE MCCheckout ----------------------------
(* Small instances of Checkout for TLC. *)
EXTENDS Checkout, TLC

Symmetry == Permutations(Orders) \cup Permutations(Requests) \cup Permutations(Writers)
=============================================================================
