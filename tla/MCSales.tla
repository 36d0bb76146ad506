------------------------------ MODULE MCSales ------------------------------
(* Small instances of Sales for TLC. *)
EXTENDS Sales, TLC

Symmetry == Permutations(Workers) \cup Permutations(Intents)
=============================================================================
