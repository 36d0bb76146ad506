----------------------------- MODULE MCRefunds -----------------------------
(* Small instances of Refunds for TLC. *)
EXTENDS Refunds, TLC

CONSTANTS r1, r2, x1, s1, s2, a1, a2

Symmetry == Permutations({r1, r2})
=============================================================================
