------------------------------- MODULE Sales -------------------------------
(***************************************************************************)
(* One placed order from its hold to its payment, its cancellation and its *)
(* shipment: src/src/modules/orders (services/status.ts, cancel.ts) and    *)
(* src/src/modules/payments (services/settlement.ts, intent.ts,            *)
(* offline.ts, transfer.ts, effects.ts).                                   *)
(*                                                                         *)
(* Every transaction is one action; between a read, a call to the provider *)
(* and the conditional write that follows anything may happen.  Stock is   *)
(* reduced to this order's hold and the units others may take (Inventory   *)
(* has the counters), a refund to whether it was opened (Refunds has its   *)
(* life), and an outbox row to a member of events, delivered at least once *)
(* (Outbox has the relay).                                                 *)
(***************************************************************************)
EXTENDS Integers, FiniteSets

CONSTANTS
    Operators,    \* the workers that record money by hand
    Workers,      \* requests, webhooks, sweeps and event handlers at work at once
    Intents,      \* intents the provider may open for this order
    NoIntent,
    Outcomes,     \* what may become of an intent at the provider
    Divergences,  \* which departures from the documented behaviour may happen
    MaxFaults     \* bound: crashes and calls the provider does not answer

ASSUME SalesAssumption ==
    /\ Operators \subseteq Workers
    /\ NoIntent \notin Intents /\ IsFiniteSet(Intents) /\ IsFiniteSet(Workers)
    /\ Outcomes \subseteq {"requires_action", "processing", "declined", "succeeded", "odd"}
    /\ "succeeded" \in Outcomes
    /\ Divergences \subseteq {"offline beside a new intent"}
    /\ MaxFaults \in Nat

VARIABLES
    order,   \* the order's status, and whether a parcel of it left
    hold,    \* the state of its hold
    free,    \* units of the same product on the shelf
    pay,     \* the payment row of the order
    refund,  \* was money set aside to be returned?
    keep,    \* did an operator cancel without a refund?
    events,  \* outbox rows not yet handled
    psp,     \* intent -> its state at the provider
    call,    \* worker -> what it is doing
    faults

vars == <<order, hold, free, pay, refund, keep, events, psp, call, faults>>
stock == <<hold, free>>
goods == <<order, hold, free>>

-----------------------------------------------------------------------------
(* The tables of domain/lifecycle.ts. *)

Confirmable == {"requires_confirmation", "declined"}
Settleable == Confirmable \cup {"requires_action", "processing"}
(* Mutated form of SuccessSettleable, not the code: a closed row takes no success. *)
SuccessWhileOpen == Settleable
SuccessSettleable == Settleable \cup {"cancelled"}
PastPayment == {"paid", "processing", "shipped"}
CancellableBy(actor) ==
    CASE actor = "customer" -> {"pending", "paid"}
      [] actor = "admin" -> {"pending", "paid", "processing"}
      [] actor = "system" -> {"pending"}

PaymentStatuses == SuccessSettleable \cup {"none", "succeeded"}
NoPayment == [status |-> "none", manual |-> FALSE, transfer |-> FALSE, ref |-> NoIntent]
OpenTransfer(row) == row.status = "requires_action" /\ row.manual
CancelledTransfer(row) == row.status = "cancelled" /\ row.transfer

(* odd stands for a success over another amount, currency or payment. *)
Answers == {"open"} \cup Outcomes
(* made: opened, its secret not yet shown to the buyer. *)
IntentStates == Answers \cup {"none", "made", "cancelled"}
Steps == {"idle", "upserting", "preparing", "attaching", "confirming", "settling", "mismatched",
          "closing", "closed", "refunding", "offline", "recording"}
Idle == [pc |-> "idle", ref |-> NoIntent, new |-> FALSE, says |-> "open", event |-> FALSE]

-----------------------------------------------------------------------------
Init ==
    /\ order = [status |-> "pending", parcel |-> FALSE]
    /\ hold = "held"
    /\ free = 0
    /\ pay = NoPayment
    /\ refund = FALSE
    /\ keep = FALSE
    /\ events = {"created"}
    /\ psp = [i \in Intents |-> "none"]
    /\ call = [w \in Workers |-> Idle]
    /\ faults = 0

Does(w, work) == call' = [call EXCEPT ![w] = work]
GoesTo(w, pc) == Does(w, [call[w] EXCEPT !.pc = pc])
(* A handler goes on to the refund after its settlement, a request ends. *)
Finishes(w) == IF call[w].event THEN GoesTo(w, "refunding") ELSE Does(w, Idle)
Fault == faults < MaxFaults /\ faults' = faults + 1
(* Mutated form of Payable, not the code: late money revives a cancelled order. *)
PayableAfterCancel == order.status \in {"pending", "cancelled"}
Payable == order.status = "pending"

-----------------------------------------------------------------------------
(* Stock: the sweep, and what others do with the units. *)

SweepExpires ==
    /\ hold = "held"
    /\ hold' = "released" /\ free' = free + 1
    /\ events' = events \cup {"expired"}
    /\ UNCHANGED <<order, pay, refund, keep, psp, call, faults>>

OthersBuy ==
    /\ free > 0 /\ free' = free - 1
    /\ UNCHANGED <<order, hold, pay, refund, keep, events, psp, call, faults>>

(* Mutated form of GiveBackStock, not the code: only a hold not yet paid goes back. *)
GiveBackUnpaid ==
    IF hold = "held" THEN hold' = "released" /\ free' = free + 1 ELSE UNCHANGED stock

GiveBackStock ==
    IF hold \in {"held", "committed"} THEN hold' = "released" /\ free' = free + 1
    ELSE UNCHANGED stock

-----------------------------------------------------------------------------
(* Cancelling, in one transaction: the status, the stock and the outbox row. *)

CancelFrom(statuses, wantsRefund) ==
    /\ order.status \in statuses /\ ~ order.parcel
    /\ order' = [order EXCEPT !.status = "cancelled"]
    /\ GiveBackStock
    /\ keep' = ~ wantsRefund

CancelOnRequest(actor) ==
    /\ actor \in {"customer", "admin"}
    /\ \E wantsRefund \in IF actor = "admin" THEN BOOLEAN ELSE {TRUE} :
           CancelFrom(CancellableBy(actor), wantsRefund)
    /\ events' = events \cup {"cancelled"}
    /\ UNCHANGED <<pay, refund, psp, call, faults>>

(* Mutated form of ExpireReservation, not the code: the row is taken off whatever happened. *)
ExpireForgetting ==
    /\ "expired" \in events
    /\ events' = events \ {"expired"}
    /\ UNCHANGED <<goods, keep, pay, refund, psp, call, faults>>

(* The handler of RESERVATION_EXPIRED. *)
ExpireReservation ==
    /\ "expired" \in events
    /\ \/ /\ CancelFrom(CancellableBy("system"), TRUE)
          /\ events' = (events \ {"expired"}) \cup {"cancelled"}
       \/ /\ ~ (Payable /\ ~ order.parcel)
          /\ events' = events \ {"expired"}
          /\ UNCHANGED <<goods, keep>>
    /\ UNCHANGED <<pay, refund, psp, call, faults>>

-----------------------------------------------------------------------------
(* Fulfilment, as far as it competes with a cancel. *)

Process ==
    /\ order.status = "paid"
    /\ order' = [order EXCEPT !.status = "processing"]
    /\ UNCHANGED <<stock, pay, refund, keep, events, psp, call, faults>>

ShipPart ==
    /\ order.status = "processing" /\ ~ order.parcel
    /\ order' = [order EXCEPT !.parcel = TRUE]
    /\ UNCHANGED <<stock, pay, refund, keep, events, psp, call, faults>>

Ship ==
    /\ order.status = "processing"
    /\ order' = [status |-> "shipped", parcel |-> TRUE]
    /\ hold' = IF hold = "committed" THEN "shipped" ELSE hold
    /\ UNCHANGED <<free, pay, refund, keep, events, psp, call, faults>>

-----------------------------------------------------------------------------
(* Opening a payment: openTransferPayment, createIntent. *)

OpenTransferPayment(isTransfer) ==
    /\ "created" \in events
    /\ events' = events \ {"created"}
    /\ pay' = IF isTransfer /\ Payable /\ pay.status = "none"
              THEN [NoPayment EXCEPT !.status = "requires_action", !.manual = TRUE, !.transfer = TRUE]
              ELSE pay
    /\ UNCHANGED <<goods, refund, keep, psp, call, faults>>

CreateIntent(w) ==
    /\ call[w].pc = "idle" /\ Payable
    /\ GoesTo(w, "upserting")
    /\ UNCHANGED <<goods, pay, refund, keep, events, psp, faults>>

(* Opening an intent and recording money by hand may overlap in the code;   *)
(* without that divergence one waits for the other.                         *)
Overlaps(pcs) ==
    "offline beside a new intent" \notin Divergences /\ \E w \in Workers : call[w].pc \in pcs

UpsertIntent(w) ==
    /\ call[w].pc = "upserting"
    /\ ~ Overlaps({"offline", "recording", "settling"})
    /\ IF pay.status \in {"none"} \cup Confirmable \/ OpenTransfer(pay)
       THEN /\ pay' = [pay EXCEPT !.status = "requires_confirmation", !.manual = FALSE]
            /\ Does(w, [Idle EXCEPT !.pc = "preparing", !.ref = pay.ref])
       ELSE Does(w, Idle) /\ UNCHANGED pay
    /\ UNCHANGED <<goods, refund, keep, events, psp, faults>>

(* The provider finds the intent it is given, or opens one. *)
PrepareIntent(w) ==
    LET i == call[w].ref IN
    /\ call[w].pc = "preparing"
    /\ \/ /\ i # NoIntent
          /\ IF psp[i] = "cancelled" THEN Does(w, Idle) ELSE GoesTo(w, "attaching")
          /\ UNCHANGED psp
       \/ /\ i = NoIntent
          /\ \E new \in Intents :
                /\ psp[new] = "none"
                /\ psp' = [psp EXCEPT ![new] = "made"]
                /\ Does(w, [call[w] EXCEPT !.pc = "attaching", !.ref = new])
    /\ UNCHANGED <<goods, pay, refund, keep, events, faults>>

(* The bound on intents is reached: no answer. *)
NoMoreIntents(w) ==
    /\ call[w].pc = "preparing" /\ call[w].ref = NoIntent
    /\ \A i \in Intents : psp[i] # "none"
    /\ Does(w, Idle)
    /\ UNCHANGED <<goods, pay, refund, keep, events, psp, faults>>

(* Mutated form of AttachProviderRef, not the code: a stray intent is shown to the buyer too. *)
AttachShowingBoth(w) ==
    /\ call[w].pc = "attaching"
    /\ pay' = IF pay.ref = NoIntent THEN [pay EXCEPT !.ref = call[w].ref] ELSE pay
    /\ psp' = [psp EXCEPT ![call[w].ref] = IF @ = "made" THEN "open" ELSE @]
    /\ Does(w, Idle)
    /\ UNCHANGED <<goods, refund, keep, events, faults>>

(* The first intent stays; a stray one is closed and never shown. *)
AttachProviderRef(w) ==
    LET i == call[w].ref IN
    /\ call[w].pc = "attaching"
    /\ pay' = IF pay.ref = NoIntent THEN [pay EXCEPT !.ref = i] ELSE pay
    /\ psp' = [psp EXCEPT ![i] = CASE @ = "made" /\ pay.ref \in {NoIntent, i} -> "open"
                                   [] @ = "made" /\ pay.ref \notin {NoIntent, i} -> "cancelled"
                                   [] OTHER -> @]
    /\ Does(w, Idle)
    /\ UNCHANGED <<goods, refund, keep, events, faults>>

-----------------------------------------------------------------------------
(* The provider, external: the buyer pays there, or the bank decides. *)

After(state) == CASE state \in {"open", "declined"} -> Outcomes
                  [] state \in {"requires_action", "processing"} -> Outcomes \ {"requires_action", "processing"}
                  [] OTHER -> {}
ProviderMoves(i) ==
    /\ \E s \in After(psp[i]) : psp' = [psp EXCEPT ![i] = s]
    /\ UNCHANGED <<goods, pay, refund, keep, events, call, faults>>

-----------------------------------------------------------------------------
(* Learning how a payment stands, then settling: confirmPayment,            *)
(* syncPayment, applyWebhookSettlement, reconcileStalePayments.             *)

Hears(w, i, new) ==
    Does(w, [call[w] EXCEPT !.pc = "settling", !.ref = i, !.new = new,
                            !.says = IF psp'[i] \in Answers THEN psp'[i] ELSE "open"])

ConfirmPayment(w) ==
    /\ call[w].pc = "idle"
    /\ pay.ref # NoIntent /\ ~ pay.manual /\ pay.status \in Confirmable
    /\ Payable /\ hold # "released"
    /\ Does(w, [Idle EXCEPT !.pc = "confirming", !.ref = pay.ref])
    /\ UNCHANGED <<goods, pay, refund, keep, events, psp, faults>>

ConfirmAtProvider(w) ==
    LET i == call[w].ref IN
    /\ call[w].pc = "confirming"
    /\ \/ \E s \in After(psp[i]) : psp' = [psp EXCEPT ![i] = s]
       \/ After(psp[i]) = {} /\ UNCHANGED psp
    /\ Hears(w, i, TRUE)
    /\ UNCHANGED <<goods, pay, refund, keep, events, faults>>

(* A webhook or a poll; the sweep leaves cancelled rows out. *)
Retrieve(w) ==
    /\ call[w].pc = "idle"
    /\ pay.ref # NoIntent /\ pay.status \in SuccessSettleable
    /\ UNCHANGED psp /\ Hears(w, pay.ref, FALSE)
    /\ UNCHANGED <<goods, pay, refund, keep, events, faults>>

(* open, requires_action, processing, declined. *)
RecordAnswer(w) ==
    LET says == call[w].says
        from == IF says = "declined" /\ ~ call[w].new THEN Settleable \ {"declined"} ELSE Settleable
    IN
    /\ call[w].pc = "settling" /\ says \notin {"succeeded", "odd"}
    /\ pay' = IF says # "open" /\ pay.status \in from THEN [pay EXCEPT !.status = says] ELSE pay
    /\ Finishes(w)
    /\ UNCHANGED <<goods, refund, keep, events, psp, faults>>

(* Mutated form of Retaken, not the code: a released hold is paid without its units. *)
RetakenFromNobody == TRUE

(* retakeReleasedForOrder: are the units there, taken again if need be? *)
Retaken == hold # "released" \/ free > 0

(* markPaid inside the settlement's transaction. *)
MarkPaid ==
    /\ order' = [order EXCEPT !.status = "paid"]
    /\ free' = IF hold = "released" THEN free - 1 ELSE free
    /\ hold' = "committed"

(* The order can no longer take the money: it goes back. *)
LostMoney == order.status \notin PastPayment

SettleSuccess(w) ==
    /\ call[w].pc = "settling" /\ call[w].says = "succeeded"
    /\ \/ /\ pay.status \notin SuccessSettleable
          /\ UNCHANGED <<goods, pay, refund>>
       \/ /\ pay.status \in SuccessSettleable
          /\ pay' = [pay EXCEPT !.status = "succeeded"]
          /\ IF Payable /\ Retaken
             THEN MarkPaid /\ UNCHANGED refund
             ELSE refund' = (refund \/ LostMoney) /\ UNCHANGED goods
    /\ Finishes(w)
    /\ UNCHANGED <<keep, events, psp, faults>>

(* A success that is not the payment frozen for the order: returned. *)
SettleMismatch(w) ==
    /\ call[w].pc = "settling" /\ call[w].says = "odd"
    /\ IF pay.status \in SuccessSettleable
       THEN /\ pay' = [pay EXCEPT !.status = "succeeded"]
            /\ refund' = TRUE
            /\ GoesTo(w, "mismatched")
       ELSE Finishes(w) /\ UNCHANGED <<pay, refund>>
    /\ UNCHANGED <<goods, keep, events, psp, faults>>

CancelMismatched(w) ==
    /\ call[w].pc = "mismatched"
    /\ \/ CancelFrom(CancellableBy("system"), TRUE) /\ events' = events \cup {"cancelled"}
       \/ ~ Payable /\ UNCHANGED <<goods, keep, events>>
    /\ Finishes(w)
    /\ UNCHANGED <<pay, refund, psp, faults>>

-----------------------------------------------------------------------------
(* The handler of ORDER_CANCELLED: close the intent, then return the money. *)

HandleCancelled(w) ==
    /\ "cancelled" \in events /\ call[w].pc = "idle"
    /\ Does(w, [Idle EXCEPT !.event = TRUE,
                            !.pc = CASE pay.status \notin Settleable -> "refunding"
                                     [] pay.status \in Settleable /\ (pay.manual \/ pay.ref = NoIntent) -> "closed"
                                     [] OTHER -> "closing",
                            !.ref = pay.ref])
    /\ UNCHANGED <<goods, pay, refund, keep, events, psp, faults>>

InFlight(i) == psp[i] \in {"processing", "succeeded", "odd"}

CloseIntent(w) ==
    LET i == call[w].ref IN
    /\ call[w].pc = "closing"
    /\ IF InFlight(i)
       THEN UNCHANGED psp /\ Hears(w, i, FALSE)
       ELSE psp' = [psp EXCEPT ![i] = "cancelled"] /\ GoesTo(w, "closed")
    /\ UNCHANGED <<goods, pay, refund, keep, events, faults>>

(* Logged, and left to the reconciliation. *)
CloseUnanswered(w) ==
    /\ call[w].pc = "closing" /\ Fault
    /\ \/ UNCHANGED psp
       \/ ~ InFlight(call[w].ref) /\ psp' = [psp EXCEPT ![call[w].ref] = "cancelled"]
    /\ GoesTo(w, "refunding")
    /\ UNCHANGED <<goods, pay, refund, keep, events>>

CloseRow(w) ==
    /\ call[w].pc = "closed"
    /\ pay' = IF pay.status \in Settleable THEN [pay EXCEPT !.status = "cancelled"] ELSE pay
    /\ GoesTo(w, "refunding")
    /\ UNCHANGED <<goods, refund, keep, events, psp, faults>>

(* Mutated form of RefundForOrder, not the code: the row is taken off, the money forgotten. *)
RefundForgotten(w) ==
    /\ call[w].pc = "refunding"
    /\ events' = events \ {"cancelled"}
    /\ Does(w, Idle)
    /\ UNCHANGED <<goods, pay, refund, keep, psp, faults>>

RefundForOrder(w) ==
    /\ call[w].pc = "refunding"
    /\ refund' = (refund \/ (~ keep /\ pay.status = "succeeded"))
    /\ events' = events \ {"cancelled"}
    /\ Does(w, Idle)
    /\ UNCHANGED <<goods, pay, keep, psp, faults>>

-----------------------------------------------------------------------------
(* An operator records money that arrived outside the provider. *)

LateTransfer == CancelledTransfer(pay) /\ ~ Payable

RecordOfflinePayment(w) ==
    /\ w \in Operators /\ call[w].pc = "idle"
    /\ ~ Overlaps({"preparing", "attaching"})
    /\ Payable \/ LateTransfer
    /\ Does(w, [Idle EXCEPT !.ref = pay.ref,
                            !.pc = IF pay.ref = NoIntent \/ pay.manual THEN "recording" ELSE "offline"])
    /\ UNCHANGED <<goods, pay, refund, keep, events, psp, faults>>

CloseForOffline(w) ==
    LET i == call[w].ref IN
    /\ call[w].pc = "offline"
    /\ IF InFlight(i) THEN Does(w, Idle) /\ UNCHANGED psp
       ELSE psp' = [psp EXCEPT ![i] = "cancelled"] /\ GoesTo(w, "recording")
    /\ UNCHANGED <<goods, pay, refund, keep, events, faults>>

(* The row becomes the offline one, whatever intent was attached meanwhile. *)
UpsertOffline(w) ==
    /\ call[w].pc = "recording"
    /\ IF pay.status \in {"none"} \cup Confirmable \/ OpenTransfer(pay) \/ CancelledTransfer(pay)
       THEN /\ pay' = [pay EXCEPT !.status = "requires_confirmation", !.manual = TRUE, !.ref = NoIntent]
            /\ Does(w, [Idle EXCEPT !.pc = "settling", !.says = "succeeded"])
       ELSE Does(w, Idle) /\ UNCHANGED pay
    /\ UNCHANGED <<goods, refund, keep, events, psp, faults>>

-----------------------------------------------------------------------------
Crash(w) ==
    /\ call[w].pc # "idle" /\ Fault
    /\ Does(w, Idle)
    /\ UNCHANGED <<goods, pay, refund, keep, events, psp>>

Step(w) ==
    \/ UpsertIntent(w) \/ PrepareIntent(w) \/ NoMoreIntents(w) \/ AttachProviderRef(w)
    \/ ConfirmAtProvider(w) \/ RecordAnswer(w) \/ SettleSuccess(w)
    \/ SettleMismatch(w) \/ CancelMismatched(w)
    \/ CloseIntent(w) \/ CloseRow(w) \/ RefundForOrder(w)
    \/ CloseForOffline(w) \/ UpsertOffline(w)

Next ==
    \/ SweepExpires \/ OthersBuy \/ ExpireReservation
    \/ \E actor \in {"customer", "admin"} : CancelOnRequest(actor)
    \/ Process \/ ShipPart \/ Ship
    \/ \E isTransfer \in BOOLEAN : OpenTransferPayment(isTransfer)
    \/ \E i \in Intents : ProviderMoves(i)
    \/ \E w \in Workers :
          \/ CreateIntent(w) \/ ConfirmPayment(w) \/ Retrieve(w) \/ HandleCancelled(w)
          \/ RecordOfflinePayment(w)
          \/ Step(w) \/ CloseUnanswered(w) \/ Crash(w)

Spec == Init /\ [][Next]_vars

-----------------------------------------------------------------------------
(* Properties. *)

(* Every variable has its shape. *)
TypeOK ==
    /\ order \in [status : {"pending", "cancelled"} \cup PastPayment, parcel : BOOLEAN]
    /\ hold \in {"held", "committed", "released", "shipped"}
    /\ free \in Nat
    /\ pay \in [status : PaymentStatuses, manual : BOOLEAN, transfer : BOOLEAN,
                ref : Intents \cup {NoIntent}]
    /\ refund \in BOOLEAN /\ keep \in BOOLEAN
    /\ events \subseteq {"created", "expired", "cancelled"}
    /\ psp \in [Intents -> IntentStates]
    /\ call \in [Workers -> [pc : Steps, ref : Intents \cup {NoIntent}, new : BOOLEAN,
                             says : Answers, event : BOOLEAN]]
    /\ faults \in 0 .. MaxFaults

(* The hold follows the order whatever order the sweep, a payment, a cancel *)
(* and a shipment come in: a sold order's units are set aside until they    *)
(* leave, a cancelled one's are back, and none is made or lost on the way   *)
(* (the one unit is with the order, on the shelf, or sold to others).       *)
StockFollowsOrder ==
    /\ order.status \in {"paid", "processing"} => hold = "committed"
    /\ order.status = "shipped" => hold = "shipped"
    /\ order.status = "cancelled" => hold = "released"
    /\ order.status = "pending" => hold \in {"held", "released"}
    /\ hold # "released" => free = 0

(* Money recorded as received is never simply kept: the order was served,   *)
(* or its return is recorded or on its way, unless an operator chose so.    *)
MoneyMatched ==
    pay.status = "succeeded" =>
        \/ order.status \in PastPayment
        \/ refund \/ keep
        \/ "cancelled" \in events

(* Nobody gets the goods and all the money back. *)
NeverServedAndRefunded == refund => order.status \notin PastPayment

(* The buyer is charged once: by one intent, or by the money an operator    *)
(* records, however intents, confirmations and records overlap.             *)
PaidOnce ==
    LET charged == {i \in Intents : psp[i] \in {"succeeded", "odd"}} IN
    /\ Cardinality(charged) <= 1
    /\ pay.status = "succeeded" /\ pay.manual => charged = {}

-----------------------------------------------------------------------------
(* Liveness.  Handlers are retried until they end, the provider repeats its *)
(* webhooks.                                                                *)
FairSpec ==
    /\ Spec
    /\ \A w \in Workers : WF_vars(Step(w))
    /\ SF_vars(\E w \in Workers : Retrieve(w))
    /\ SF_vars(\E w \in Workers : HandleCancelled(w))
    /\ WF_vars(ExpireReservation)

(* An order whose units the sweep gave back is not left open: it is         *)
(* cancelled, or a payment takes them again, whoever crashes on the way.    *)
PendingEnds == order.status = "pending" /\ hold = "released" ~> order.status # "pending"

(* Money taken at the provider ends with a served order or a refund, even   *)
(* when it lands after the order was cancelled or its units were resold.    *)
MoneyEnds ==
    \A i \in Intents : psp[i] \in {"succeeded", "odd"}
                           ~> order.status \in PastPayment \/ refund \/ keep

=============================================================================
