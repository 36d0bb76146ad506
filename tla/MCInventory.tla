---------------------------- MODULE MCInventory ----------------------------
(* Small instances of Inventory for TLC. *)
EXTENDS Inventory, TLC

CONSTANTS o1, o2

Line(q, k, s) == [quantity |-> q, kind |-> k, spill |-> s]
NoLine == Line(0, "stock", FALSE)

Zero == [p \in Products |-> 0]

(* One product: shelf lines, preorder lines and lines that may spill. *)
OneProductRequests ==
    {[p \in Products |-> l] : l \in {Line(1, "stock", FALSE), Line(2, "backorder", FALSE),
                                     Line(2, "stock", TRUE)}}

(* Two products: two shelf lines, a preorder line and a shelf line, a       *)
(* preorder line alone.                                                     *)
TwoProductRequests ==
    {[p \in Products |-> IF p = 1 THEN a ELSE b] :
        <<a, b>> \in {<<Line(1, "stock", FALSE), Line(1, "stock", FALSE)>>,
                      <<Line(1, "backorder", FALSE), Line(1, "stock", FALSE)>>,
                      <<Line(1, "backorder", FALSE), NoLine>>}}

(* A shelf line of every product. *)
ShelfRequests == {[p \in Products |-> Line(1, "stock", FALSE)]}

(* A parcel or a remainder of one unit, named as stock or as a claim. *)
OneUnitParcels ==
    {[p \in Products |-> [k \in Kinds |-> IF p = 1 /\ k = kind THEN 1 ELSE 0]] : kind \in Kinds}

OneUnitLosses == {[Zero EXCEPT ![1] = 1]}

OrderSymmetry == Permutations(Orders)
=============================================================================
