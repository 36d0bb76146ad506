---------------------------- MODULE MCFulfilment ----------------------------
(* Instances of Fulfilment for TLC: the values are in the .cfg files. *)
EXTENDS Fulfilment
=============================================================================
