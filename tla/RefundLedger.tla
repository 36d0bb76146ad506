---------------------------- MODULE RefundLedger ----------------------------
(***************************************************************************)
(* What the refunds of one payment promise, whatever operators, sweeps,    *)
(* webhooks and banks do: money is promised before it is returned, never   *)
(* more than was paid is promised, and a promise is taken back only while  *)
(* its money is not out.  Refunds is shown to implement this.              *)
(***************************************************************************)
EXTENDS Integers

CONSTANT Paid    \* what the buyer paid

VARIABLES
    promised,   \* money set aside for refunds
    returned    \* money of refunds recorded as returned

ledger == <<promised, returned>>

Init == promised = 0 /\ returned = 0

Promise == /\ promised' > promised /\ promised' <= Paid
           /\ UNCHANGED returned
Return == /\ returned' > returned /\ returned' <= promised
          /\ UNCHANGED promised
Void == /\ promised' < promised /\ promised' >= returned
        /\ UNCHANGED returned
(* The bank sends a returned amount back: owed again. *)
SendBack == /\ returned' < returned /\ returned' >= 0
            /\ UNCHANGED promised
(* A refund made outside the application is taken note of: promised and     *)
(* returned at once, and nobody here can keep it within what was paid.      *)
TakeNote == /\ promised' > promised
            /\ returned' - returned = promised' - promised

Next == Promise \/ Return \/ Void \/ SendBack \/ TakeNote

Spec == Init /\ [][Next]_ledger
=============================================================================
