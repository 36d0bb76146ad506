----------------------------- MODULE MCOutbox -----------------------------
(* A small instance of Outbox for TLC. *)
EXTENDS Outbox

CONSTANTS w1, w2

(* Rows 1 and 2 are about one aggregate, any other about another. *)
TwoAggregates == [r \in Rows |-> IF r <= 2 THEN "a" ELSE "b"]
=============================================================================
