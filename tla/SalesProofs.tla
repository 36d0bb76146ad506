---------------------------- MODULE SalesProofs ----------------------------
(***************************************************************************)
(* Sales: stock follows the order, money is matched, nobody has both the   *)
(* goods and the money, and the buyer is charged once, for any number of   *)
(* workers, intents, crashes and unanswered calls.                         *)
(***************************************************************************)
EXTENDS Sales, FiniteSetTheorems, TLAPS

-----------------------------------------------------------------------------
(* The strengthenings. *)

(* At most the one unit of the order is back on the shelf. *)
StockInv == StockFollowsOrder /\ free <= 1

(* Only the cancel of an order announces it, and only the handler of that   *)
(* event refunds it.                                                        *)
AfterTheCancel ==
    /\ "cancelled" \in events => order.status = "cancelled"
    /\ \A w \in Workers :
          /\ call[w].event => order.status = "cancelled"
          /\ call[w].pc \in {"closing", "closed", "refunding"} => call[w].event

(* An order is sold for money that was recorded, and money is set aside     *)
(* only once it was; that record is final.                                  *)
SoldForMoney == order.status \in PastPayment \/ refund => pay.status = "succeeded"

Money == SoldForMoney /\ NeverServedAndRefunded /\ MoneyMatched

(* A buyer can only pay through the intent the payment row shows. *)
ShownIsTheRows == \A i \in Intents : psp[i] \in Answers => pay.ref = i
RowsByHand ==
    /\ pay.status = "none" => pay.ref = NoIntent
    /\ pay.manual => pay.ref = NoIntent
(* While an intent is being prepared the row is not an operator's, and no   *)
(* operator is recording; one who is has seen to it that nobody can pay.    *)
Opening(w) == call[w].pc \in {"preparing", "attaching"}
Recording(w) == call[w].pc \in {"offline", "recording"}
ApartFromIntents ==
    /\ \A w \in Workers : Opening(w) => ~ pay.manual /\ pay.status # "none"
    /\ \A v, w \in Workers : Opening(v) => ~ Recording(w)
    /\ \A w \in Workers, i \in Intents : Recording(w) /\ psp[i] \in Answers =>
          call[w].pc = "offline" /\ call[w].ref = i

ChargeInv == ShownIsTheRows /\ RowsByHand /\ ApartFromIntents

-----------------------------------------------------------------------------
(* Types. *)

(* What a worker may be doing. *)
Calls == [pc : Steps, ref : Intents \cup {NoIntent}, new : BOOLEAN, says : Answers, event : BOOLEAN]

LEMMA CallType ==
    ASSUME TypeOK, NEW w \in Workers, NEW work \in Calls
    PROVE  [call EXCEPT ![w] = work] \in [Workers -> Calls]
BY DEF TypeOK, Calls

LEMMA IdleCall == Idle \in Calls
BY DEF Idle, Calls, Steps, Answers

(* What a worker sets out to do. *)
LEMMA WorkType ==
    ASSUME NEW pc \in Steps, NEW ref \in Intents \cup {NoIntent}
    PROVE  /\ [Idle EXCEPT !.pc = pc, !.ref = ref] \in Calls
           /\ [Idle EXCEPT !.ref = ref, !.pc = pc] \in Calls
           /\ [Idle EXCEPT !.event = TRUE, !.pc = pc, !.ref = ref] \in Calls
           /\ [Idle EXCEPT !.pc = pc, !.says = "succeeded"] \in Calls
<1>1. "succeeded" \in Answers
  BY SalesAssumption DEF Answers
<1> QED BY IdleCall, <1>1 DEF Idle, Calls

LEMMA FaultType ==
    ASSUME TypeOK, faults' = faults \/ Fault
    PROVE  faults' \in 0 .. MaxFaults
<1>1. MaxFaults \in Nat
  BY SalesAssumption
<1>2. faults \in 0 .. MaxFaults
  BY DEF TypeOK
<1>3. CASE faults' = faults
  BY <1>2, <1>3
<1>4. CASE Fault
  <2>1. faults < MaxFaults /\ faults' = faults + 1
    BY <1>4 DEF Fault
  <2> QED BY <1>1, <1>2, <2>1
<1> QED BY <1>3, <1>4

(* Moving on to another step keeps the shape. *)
LEMMA GoesToType ==
    ASSUME TypeOK, NEW w \in Workers, NEW pc \in Steps, GoesTo(w, pc)
    PROVE  call' \in [Workers -> Calls]
<1>1. [call[w] EXCEPT !.pc = pc] \in Calls
  BY DEF TypeOK, Calls
<1> QED BY <1>1, CallType DEF GoesTo, Does

LEMMA FinishesType ==
    ASSUME TypeOK, NEW w \in Workers, Finishes(w)
    PROVE  call' \in [Workers -> Calls]
BY GoesToType, CallType, IdleCall DEF Finishes, Does, Steps

(* What an intent may become is a state an intent may be in. *)
LEMMA AfterType ==
    ASSUME NEW state, NEW s \in After(state)
    PROVE  s \in Outcomes
BY DEF After

LEMMA HearsType ==
    ASSUME TypeOK, NEW w \in Workers, NEW i \in Intents \cup {NoIntent}, NEW new \in BOOLEAN,
           Hears(w, i, new)
    PROVE  call' \in [Workers -> Calls]
<1> DEFINE says == IF psp'[i] \in Answers THEN psp'[i] ELSE "open"
           work == [call[w] EXCEPT !.pc = "settling", !.ref = i, !.new = new, !.says = says]
<1>1. says \in Answers
  BY DEF Answers
<1>2. call[w] \in Calls
  BY DEF TypeOK, Calls
<1>3. work \in Calls
  <2> HIDE DEF says
  <2> QED BY <1>1, <1>2 DEF Calls, Steps
<1> QED BY <1>3, CallType DEF Hears, Does

(* The initial state has its shape. *)
LEMMA InitType == Init => TypeOK
<1> SUFFICES ASSUME Init PROVE TypeOK
  OBVIOUS
<1>1. call \in [Workers -> Calls]
  BY IdleCall DEF Init
<1>2. NoPayment \in [status : PaymentStatuses, manual : BOOLEAN, transfer : BOOLEAN,
                     ref : Intents \cup {NoIntent}]
  BY DEF NoPayment, PaymentStatuses
<1>3. psp \in [Intents -> IntentStates]
  BY DEF Init, IntentStates
<1>4. faults \in 0 .. MaxFaults
  <2>1. MaxFaults \in Nat
    BY SalesAssumption
  <2>2. faults = 0
    BY DEF Init
  <2> QED BY <2>1, <2>2
<1> QED BY <1>1, <1>2, <1>3, <1>4 DEF Init, TypeOK, Calls

LEMMA CancelType ==
    ASSUME TypeOK, NEW statuses, NEW wantsRefund \in BOOLEAN, CancelFrom(statuses, wantsRefund)
    PROVE  /\ order' \in [status : {"pending", "cancelled"} \cup PastPayment, parcel : BOOLEAN]
           /\ hold' \in {"held", "committed", "released", "shipped"}
           /\ free' \in Nat
           /\ keep' \in BOOLEAN
BY DEF TypeOK, CancelFrom, GiveBackStock, stock

(* Each action keeps the types. *)
LEMMA StepType == TypeOK /\ [Next]_vars => TypeOK'
<1> SUFFICES ASSUME TypeOK, [Next]_vars PROVE TypeOK'
  OBVIOUS
<1> USE DEF goods, stock
<1>1. CASE UNCHANGED vars
  BY <1>1 DEF vars, TypeOK
<1>2. CASE SweepExpires \/ OthersBuy
  <2>1. free' \in Nat
    BY <1>2 DEF SweepExpires, OthersBuy, TypeOK
  <2>2. CASE SweepExpires
    BY <2>1, <2>2 DEF SweepExpires, TypeOK
  <2>3. CASE OthersBuy
    BY <2>1, <2>3 DEF OthersBuy, TypeOK
  <2> QED BY <1>2, <2>2, <2>3
<1>3. CASE ExpireReservation
  BY <1>3, CancelType DEF ExpireReservation, TypeOK
<1>4. ASSUME NEW actor \in {"customer", "admin"}, CancelOnRequest(actor) PROVE TypeOK'
  <2>1. PICK wantsRefund \in BOOLEAN : CancelFrom(CancellableBy(actor), wantsRefund)
    BY <1>4 DEF CancelOnRequest
  <2> QED BY <1>4, <2>1, CancelType DEF CancelOnRequest, TypeOK
<1>5. CASE Process \/ ShipPart \/ Ship
  <2>1. order' \in [status : {"pending", "cancelled"} \cup PastPayment, parcel : BOOLEAN]
    <3>1. CASE Process \/ ShipPart
      BY <3>1 DEF Process, ShipPart, TypeOK, PastPayment
    <3>2. CASE Ship
      BY <3>2 DEF Ship, PastPayment
    <3> QED BY <1>5, <3>1, <3>2
  <2>2. hold' \in {"held", "committed", "released", "shipped"}
    BY <1>5 DEF Process, ShipPart, Ship, TypeOK
  <2> QED BY <1>5, <2>1, <2>2 DEF Process, ShipPart, Ship, TypeOK
<1>6. ASSUME NEW isTransfer \in BOOLEAN, OpenTransferPayment(isTransfer) PROVE TypeOK'
  BY <1>6 DEF OpenTransferPayment, TypeOK, NoPayment, PaymentStatuses, SuccessSettleable, Settleable
<1>7. ASSUME NEW i \in Intents, ProviderMoves(i) PROVE TypeOK'
  BY <1>7, AfterType DEF ProviderMoves, TypeOK, IntentStates, Answers
<1>8. ASSUME NEW w \in Workers, CreateIntent(w) \/ ConfirmPayment(w) \/ HandleCancelled(w)
                                 \/ RecordOfflinePayment(w) \/ Crash(w)
      PROVE  TypeOK'
  <2>1. call' \in [Workers -> Calls]
    <3>1. pay.ref \in Intents \cup {NoIntent}
      BY DEF TypeOK
    <3>2. CASE CreateIntent(w)
      BY <3>2, GoesToType DEF CreateIntent, Steps
    <3>3. CASE ConfirmPayment(w)
      BY <3>1, <3>3, CallType, WorkType DEF ConfirmPayment, Does, Steps
    <3>4. CASE HandleCancelled(w)
      <4> DEFINE pc == CASE pay.status \notin Settleable -> "refunding"
                         [] pay.status \in Settleable /\ (pay.manual \/ pay.ref = NoIntent) -> "closed"
                         [] OTHER -> "closing"
      <4>1. pc \in Steps
        BY DEF Steps
      <4>2. Does(w, [Idle EXCEPT !.event = TRUE, !.pc = pc, !.ref = pay.ref])
        BY <3>4 DEF HandleCancelled
      <4> HIDE DEF pc
      <4> QED BY <3>1, <4>1, <4>2, CallType, WorkType DEF Does
    <3>5. CASE RecordOfflinePayment(w)
      <4> DEFINE pc == IF pay.ref = NoIntent \/ pay.manual THEN "recording" ELSE "offline"
      <4>1. pc \in Steps
        BY DEF Steps
      <4>2. Does(w, [Idle EXCEPT !.ref = pay.ref, !.pc = pc])
        BY <3>5 DEF RecordOfflinePayment
      <4> HIDE DEF pc
      <4> QED BY <3>1, <4>1, <4>2, CallType, WorkType DEF Does
    <3>6. CASE Crash(w)
      BY <3>6, CallType, IdleCall DEF Crash, Does
    <3> QED BY <1>8, <3>2, <3>3, <3>4, <3>5, <3>6
  <2>2. faults' \in 0 .. MaxFaults
    BY <1>8, FaultType
       DEF CreateIntent, ConfirmPayment, HandleCancelled, RecordOfflinePayment, Crash
  <2> QED BY <1>8, <2>1, <2>2
         DEF CreateIntent, ConfirmPayment, HandleCancelled, RecordOfflinePayment, Crash, TypeOK, Calls
<1>9. ASSUME NEW w \in Workers, Retrieve(w) PROVE TypeOK'
  BY <1>9, HearsType DEF Retrieve, TypeOK, Calls
<1>10. ASSUME NEW w \in Workers, UpsertIntent(w) \/ UpsertOffline(w) PROVE TypeOK'
  <2>1. pay' \in [status : PaymentStatuses, manual : BOOLEAN, transfer : BOOLEAN,
                  ref : Intents \cup {NoIntent}]
    BY <1>10 DEF UpsertIntent, UpsertOffline, TypeOK, PaymentStatuses, SuccessSettleable, Settleable,
                Confirmable
  <2>2. call' \in [Workers -> Calls]
    <3>1. pay.ref \in Intents \cup {NoIntent}
      BY DEF TypeOK
    <3>2. /\ [Idle EXCEPT !.pc = "preparing", !.ref = pay.ref] \in Calls
          /\ [Idle EXCEPT !.pc = "settling", !.says = "succeeded"] \in Calls
      BY <3>1, WorkType DEF Steps
    <3> QED BY <1>10, <3>2, CallType, IdleCall DEF UpsertIntent, UpsertOffline, Does
  <2> QED BY <1>10, <2>1, <2>2 DEF UpsertIntent, UpsertOffline, TypeOK, Calls
<1>11. ASSUME NEW w \in Workers, PrepareIntent(w) \/ NoMoreIntents(w) PROVE TypeOK'
  <2>1. call' \in [Workers -> Calls]
    <3>1. ASSUME NEW i \in Intents PROVE [call[w] EXCEPT !.pc = "attaching", !.ref = i] \in Calls
      BY DEF TypeOK, Calls, Steps
    <3> QED BY <1>11, <3>1, CallType, IdleCall, GoesToType DEF PrepareIntent, NoMoreIntents, Does, Steps
  <2>2. psp' \in [Intents -> IntentStates]
    BY <1>11 DEF PrepareIntent, NoMoreIntents, TypeOK, IntentStates
  <2> QED BY <1>11, <2>1, <2>2 DEF PrepareIntent, NoMoreIntents, TypeOK, Calls
<1>12. ASSUME NEW w \in Workers, AttachProviderRef(w) PROVE TypeOK'
  <2>1. call' \in [Workers -> Calls]
    BY <1>12, CallType, IdleCall DEF AttachProviderRef, Does
  <2>2. psp' \in [Intents -> IntentStates]
    BY <1>12 DEF AttachProviderRef, TypeOK, IntentStates, Answers
  <2>3. pay' \in [status : PaymentStatuses, manual : BOOLEAN, transfer : BOOLEAN,
                  ref : Intents \cup {NoIntent}]
    BY <1>12 DEF AttachProviderRef, TypeOK
  <2> QED BY <1>12, <2>1, <2>2, <2>3 DEF AttachProviderRef, TypeOK, Calls
<1>13. ASSUME NEW w \in Workers, ConfirmAtProvider(w) \/ CloseIntent(w) \/ CloseForOffline(w) PROVE TypeOK'
  <2>1. psp' \in [Intents -> IntentStates]
    <3>1. psp \in [Intents -> IntentStates]
      BY DEF TypeOK
    <3>2. \A s \in {"cancelled"} \cup Outcomes : s \in IntentStates
      BY DEF IntentStates, Answers
    <3>3. UNCHANGED psp \/ \E s \in {"cancelled"} \cup Outcomes : psp' = [psp EXCEPT ![call[w].ref] = s]
      BY <1>13, AfterType DEF ConfirmAtProvider, CloseIntent, CloseForOffline
    <3> QED BY <3>1, <3>2, <3>3
  <2>2. call[w].ref \in Intents \cup {NoIntent}
    BY DEF TypeOK
  <2>3. call' \in [Workers -> Calls]
    BY <1>13, <2>2, HearsType, GoesToType, CallType, IdleCall
       DEF ConfirmAtProvider, CloseIntent, CloseForOffline, Does, Steps
  <2> QED BY <1>13, <2>1, <2>3 DEF ConfirmAtProvider, CloseIntent, CloseForOffline, TypeOK, Calls
<1>14. ASSUME NEW w \in Workers, CloseUnanswered(w) PROVE TypeOK'
  <2>1. call' \in [Workers -> Calls]
    BY <1>14, GoesToType DEF CloseUnanswered, Steps
  <2>2. faults' \in 0 .. MaxFaults
    BY <1>14, FaultType DEF CloseUnanswered
  <2>3. psp' \in [Intents -> IntentStates]
    BY <1>14 DEF CloseUnanswered, TypeOK, IntentStates
  <2> QED BY <1>14, <2>1, <2>2, <2>3 DEF CloseUnanswered, TypeOK, Calls
<1>15. ASSUME NEW w \in Workers, RecordAnswer(w) \/ CloseRow(w) \/ RefundForOrder(w) PROVE TypeOK'
  <2>1. call' \in [Workers -> Calls]
    BY <1>15, FinishesType, GoesToType, CallType, IdleCall
       DEF RecordAnswer, CloseRow, RefundForOrder, Does, Steps
  <2>2. pay' \in [status : PaymentStatuses, manual : BOOLEAN, transfer : BOOLEAN,
                  ref : Intents \cup {NoIntent}]
    <3>1. call[w].says \in Answers
      BY DEF TypeOK
    <3>2. call[w].says \notin {"open", "succeeded", "odd"} => call[w].says \in PaymentStatuses
      BY <3>1, SalesAssumption DEF Answers, PaymentStatuses, SuccessSettleable, Settleable, Confirmable
    <3>3. CASE RecordAnswer(w)
      BY <3>2, <3>3 DEF RecordAnswer, TypeOK
    <3>4. CASE CloseRow(w)
      BY <3>4 DEF CloseRow, TypeOK, PaymentStatuses, SuccessSettleable
    <3>5. CASE RefundForOrder(w)
      BY <3>5 DEF RefundForOrder, TypeOK
    <3> QED BY <1>15, <3>3, <3>4, <3>5
  <2> QED BY <1>15, <2>1, <2>2 DEF RecordAnswer, CloseRow, RefundForOrder, TypeOK, Calls
<1>16. ASSUME NEW w \in Workers, SettleSuccess(w) PROVE TypeOK'
  <2>1. call' \in [Workers -> Calls]
    BY <1>16, FinishesType DEF SettleSuccess
  <2>2. free' \in Nat
    BY <1>16 DEF SettleSuccess, MarkPaid, Retaken, TypeOK
  <2> QED BY <1>16, <2>1, <2>2
         DEF SettleSuccess, MarkPaid, LostMoney, TypeOK, Calls, PaymentStatuses, PastPayment
<1>17. ASSUME NEW w \in Workers, SettleMismatch(w) PROVE TypeOK'
  BY <1>17, FinishesType, GoesToType
     DEF SettleMismatch, TypeOK, Calls, PaymentStatuses, Steps
<1>18. ASSUME NEW w \in Workers, CancelMismatched(w) PROVE TypeOK'
  BY <1>18, FinishesType, CancelType DEF CancelMismatched, TypeOK, Calls
<1> QED BY <1>1, <1>2, <1>3, <1>4, <1>5, <1>6, <1>7, <1>8, <1>9, <1>10, <1>11, <1>12, <1>13, <1>14,
           <1>15, <1>16, <1>17, <1>18 DEF Next, Step

(* Every variable of Sales keeps its shape; the units on the shelf never go *)
(* below zero, so no payment takes units that are not there.                *)
THEOREM TypeCorrect == Spec => []TypeOK
<1> QED BY InitType, StepType, PTL DEF Spec

-----------------------------------------------------------------------------
(* Stock follows the order. *)

LEMMA CancelStock ==
    ASSUME TypeOK, StockInv, NEW statuses \in SUBSET {"pending", "paid", "processing"},
           NEW wantsRefund \in BOOLEAN, CancelFrom(statuses, wantsRefund)
    PROVE  StockInv'
<1>1. order'.status = "cancelled"
  BY DEF CancelFrom, TypeOK
<1>2. hold' = "released" /\ free' \in Nat /\ free' <= 1
  BY DEF CancelFrom, GiveBackStock, stock, TypeOK, StockInv, StockFollowsOrder
<1> QED BY <1>1, <1>2 DEF StockInv, StockFollowsOrder

LEMMA CancellableStatuses ==
    ASSUME NEW actor \in {"customer", "admin", "system"}
    PROVE  CancellableBy(actor) \in SUBSET {"pending", "paid", "processing"}
BY DEF CancellableBy

LEMMA StockStep == TypeOK /\ StockInv /\ [Next]_vars => StockInv'
<1> SUFFICES ASSUME TypeOK, StockInv, [Next]_vars PROVE StockInv'
  OBVIOUS
<1>1. CASE UNCHANGED goods
  BY <1>1 DEF goods, StockInv, StockFollowsOrder
<1>2. CASE SweepExpires
  BY <1>2 DEF SweepExpires, StockInv, StockFollowsOrder, TypeOK, PastPayment
<1>3. CASE OthersBuy
  BY <1>3 DEF OthersBuy, StockInv, StockFollowsOrder, TypeOK
<1>4. CASE ExpireReservation
  <2>1. CASE CancelFrom(CancellableBy("system"), TRUE)
    BY <2>1, CancelStock, CancellableStatuses
  <2> QED BY <1>1, <1>4, <2>1 DEF ExpireReservation
<1>5. ASSUME NEW actor \in {"customer", "admin"}, CancelOnRequest(actor) PROVE StockInv'
  <2>1. PICK wantsRefund \in BOOLEAN : CancelFrom(CancellableBy(actor), wantsRefund)
    BY <1>5 DEF CancelOnRequest
  <2> QED BY <2>1, CancelStock, CancellableStatuses
<1>6. CASE Process \/ ShipPart
  BY <1>6 DEF Process, ShipPart, stock, StockInv, StockFollowsOrder, TypeOK
<1>7. CASE Ship
  BY <1>7 DEF Ship, StockInv, StockFollowsOrder, TypeOK
<1>8. ASSUME NEW w \in Workers, SettleSuccess(w) PROVE StockInv'
  <2>1. CASE MarkPaid /\ Payable /\ Retaken
    BY <2>1 DEF MarkPaid, Payable, Retaken, StockInv, StockFollowsOrder, TypeOK
  <2> QED BY <1>1, <1>8, <2>1 DEF SettleSuccess
<1>9. ASSUME NEW w \in Workers, CancelMismatched(w) PROVE StockInv'
  <2>1. CASE CancelFrom(CancellableBy("system"), TRUE)
    BY <2>1, CancelStock, CancellableStatuses
  <2> QED BY <1>1, <1>9, <2>1 DEF CancelMismatched
<1>10. \/ UNCHANGED goods
       \/ SweepExpires \/ OthersBuy \/ ExpireReservation \/ Process \/ ShipPart \/ Ship
       \/ \E actor \in {"customer", "admin"} : CancelOnRequest(actor)
       \/ \E w \in Workers : SettleSuccess(w) \/ CancelMismatched(w)
  BY DEF Next, Step, vars, goods, OpenTransferPayment, ProviderMoves, CreateIntent, ConfirmPayment,
         Retrieve, HandleCancelled, RecordOfflinePayment, CloseUnanswered, Crash, UpsertIntent,
         PrepareIntent, NoMoreIntents, AttachProviderRef, ConfirmAtProvider, RecordAnswer,
         SettleMismatch, CloseIntent, CloseRow, RefundForOrder, CloseForOffline, UpsertOffline
<1> QED BY <1>1, <1>2, <1>3, <1>4, <1>5, <1>6, <1>7, <1>8, <1>9, <1>10

(* The hold follows the order and the one unit is never made or lost:       *)
(* whatever order the sweep, the cancels, the payments and the shipments    *)
(* of cancel.ts, settlement.ts and status.ts come in.                       *)
THEOREM StockFollows == Spec => []StockFollowsOrder
<1>1. Init => StockInv
  BY DEF Init, StockInv, StockFollowsOrder
<1>2. StockInv => StockFollowsOrder
  BY DEF StockInv
<1> QED BY <1>1, <1>2, StockStep, TypeCorrect, PTL DEF Spec

-----------------------------------------------------------------------------
(* Money is matched. *)

(* Nothing reopens a cancelled order. *)
LEMMA CancelIsFinal ==
    ASSUME TypeOK, [Next]_vars, order.status = "cancelled"
    PROVE  order'.status = "cancelled"
<1>1. CASE UNCHANGED order
  BY <1>1
<1>2. ASSUME NEW statuses \in SUBSET {"pending", "paid", "processing"}, NEW r \in BOOLEAN,
             CancelFrom(statuses, r)
      PROVE  order'.status = "cancelled"
  BY <1>2 DEF CancelFrom, TypeOK
<1>3. \/ UNCHANGED order
      \/ \E statuses \in SUBSET {"pending", "paid", "processing"}, r \in BOOLEAN : CancelFrom(statuses, r)
  BY CancellableStatuses DEF Next, Step, vars, goods, SweepExpires, OthersBuy, ExpireReservation, CancelOnRequest, Process,
         ShipPart, Ship, OpenTransferPayment, ProviderMoves, CreateIntent, ConfirmPayment,
         Retrieve, HandleCancelled, RecordOfflinePayment, CloseUnanswered, Crash, UpsertIntent,
         PrepareIntent, NoMoreIntents, AttachProviderRef, ConfirmAtProvider, RecordAnswer,
         SettleSuccess, MarkPaid, Payable, SettleMismatch, CancelMismatched, CloseIntent, CloseRow,
         RefundForOrder, CloseForOffline, UpsertOffline
<1> QED BY <1>1, <1>2, <1>3

(* A worker keeps to its event: work taken up in the name of a cancelled    *)
(* order, and only such work, closes and refunds.                           *)
ByEvent(work) ==
    /\ work.event => order'.status = "cancelled"
    /\ work.pc \in {"closing", "closed", "refunding"} => work.event

Alone(w) == \A v \in Workers \ {w} : call'[v] = call[v]

LEMMA DoesWork ==
    ASSUME TypeOK, NEW w \in Workers, NEW work \in Calls, Does(w, work)
    PROVE  Alone(w) /\ call'[w] = work
BY DEF TypeOK, Does, Alone

LEMMA GoesToWork ==
    ASSUME TypeOK, NEW w \in Workers, NEW pc \in Steps, GoesTo(w, pc)
    PROVE  /\ Alone(w)
           /\ call'[w].pc = pc
           /\ call'[w].event = call[w].event
<1>1. call[w] \in Calls
  BY DEF TypeOK, Calls
<1>2. [call[w] EXCEPT !.pc = pc] \in Calls
  BY <1>1 DEF Calls
<1>3. Alone(w) /\ call'[w] = [call[w] EXCEPT !.pc = pc]
  BY <1>2, DoesWork DEF GoesTo
<1> QED BY <1>1, <1>3 DEF Calls

LEMMA IdleWork ==
    ASSUME TypeOK, NEW w \in Workers, Does(w, Idle)
    PROVE  Alone(w) /\ call'[w].pc = "idle" /\ call'[w].event = FALSE
BY DoesWork, IdleCall DEF Idle

(* Work set out from Idle. *)
LEMMA SetsOut ==
    ASSUME TypeOK, NEW w \in Workers, NEW pc \in Steps,
           \/ \E ref \in Intents \cup {NoIntent} :
                 \/ Does(w, [Idle EXCEPT !.pc = pc, !.ref = ref])
                 \/ Does(w, [Idle EXCEPT !.ref = ref, !.pc = pc])
           \/ Does(w, [Idle EXCEPT !.pc = pc, !.says = "succeeded"])
    PROVE  Alone(w) /\ call'[w].pc = pc /\ call'[w].event = FALSE
<1>1. ASSUME NEW ref \in Intents \cup {NoIntent}, Does(w, [Idle EXCEPT !.pc = pc, !.ref = ref])
      PROVE  Alone(w) /\ call'[w].pc = pc /\ call'[w].event = FALSE
  <2>1. call'[w] = [Idle EXCEPT !.pc = pc, !.ref = ref] /\ Alone(w)
    BY <1>1, DoesWork, WorkType
  <2> QED BY <2>1 DEF Idle
<1>2. ASSUME NEW ref \in Intents \cup {NoIntent}, Does(w, [Idle EXCEPT !.ref = ref, !.pc = pc])
      PROVE  Alone(w) /\ call'[w].pc = pc /\ call'[w].event = FALSE
  <2>1. call'[w] = [Idle EXCEPT !.ref = ref, !.pc = pc] /\ Alone(w)
    BY <1>2, DoesWork, WorkType
  <2> QED BY <2>1 DEF Idle
<1>3. CASE Does(w, [Idle EXCEPT !.pc = pc, !.says = "succeeded"])
  <2>1. call'[w] = [Idle EXCEPT !.pc = pc, !.says = "succeeded"] /\ Alone(w)
    BY <1>3, DoesWork, WorkType
  <2> QED BY <2>1 DEF Idle
<1> QED BY <1>1, <1>2, <1>3

LEMMA HearsWork ==
    ASSUME TypeOK, NEW w \in Workers, NEW i \in Intents \cup {NoIntent}, NEW new \in BOOLEAN,
           Hears(w, i, new)
    PROVE  Alone(w) /\ call'[w].pc = "settling" /\ call'[w].event = call[w].event
<1> DEFINE says == IF psp'[i] \in Answers THEN psp'[i] ELSE "open"
<1>1. says \in Answers
  BY DEF Answers
<1>2. call[w] \in Calls
  BY DEF TypeOK, Calls
<1>3. Does(w, [call[w] EXCEPT !.pc = "settling", !.ref = i, !.new = new, !.says = says])
  BY DEF Hears
<1> HIDE DEF says
<1>4. [call[w] EXCEPT !.pc = "settling", !.ref = i, !.new = new, !.says = says] \in Calls
  BY <1>1, <1>2 DEF Calls, Steps
<1>5. Alone(w) /\ call'[w] = [call[w] EXCEPT !.pc = "settling", !.ref = i, !.new = new, !.says = says]
  BY <1>3, <1>4, DoesWork
<1> QED BY <1>2, <1>5 DEF Calls

LEMMA AfterOne ==
    ASSUME TypeOK, [Next]_vars, AfterTheCancel, NEW w \in Workers, Alone(w), ByEvent(call'[w]),
           "cancelled" \in events' => "cancelled" \in events \/ order'.status = "cancelled"
    PROVE  AfterTheCancel'
BY CancelIsFinal DEF AfterTheCancel, Alone, ByEvent

LEMMA AfterFinishes ==
    ASSUME TypeOK, [Next]_vars, AfterTheCancel, NEW w \in Workers, Finishes(w),
           "cancelled" \in events' => "cancelled" \in events \/ order'.status = "cancelled"
    PROVE  AfterTheCancel'
<1>1. call[w].event => order'.status = "cancelled"
  BY CancelIsFinal DEF AfterTheCancel
<1>2. CASE call[w].event
  BY <1>1, <1>2, AfterOne, GoesToWork DEF Finishes, ByEvent, Steps
<1>3. CASE ~ call[w].event
  BY <1>3, AfterOne, IdleWork DEF Finishes, ByEvent
<1> QED BY <1>2, <1>3

LEMMA AfterStep == TypeOK /\ AfterTheCancel /\ [Next]_vars => AfterTheCancel'
<1> SUFFICES ASSUME TypeOK, AfterTheCancel, [Next]_vars PROVE AfterTheCancel'
  OBVIOUS
<1>1. CASE UNCHANGED call /\ ("cancelled" \in events' => "cancelled" \in events \/ order'.status = "cancelled")
  BY <1>1, CancelIsFinal DEF AfterTheCancel
<1>2. ASSUME NEW actor \in {"customer", "admin", "system"}, NEW r \in BOOLEAN,
             CancelFrom(CancellableBy(actor), r)
      PROVE  order'.status = "cancelled"
  BY <1>2 DEF CancelFrom, TypeOK
<1>3. CASE SweepExpires \/ OthersBuy \/ ExpireReservation
  <2>1. UNCHANGED call
    BY <1>3 DEF SweepExpires, OthersBuy, ExpireReservation
  <2>2. "cancelled" \in events' => "cancelled" \in events \/ order'.status = "cancelled"
    <3>1. CASE SweepExpires \/ OthersBuy
      BY <3>1 DEF SweepExpires, OthersBuy
    <3>2. CASE ExpireReservation
      BY <1>2, <3>2 DEF ExpireReservation
    <3> QED BY <1>3, <3>1, <3>2
  <2> QED BY <1>1, <2>1, <2>2
<1>4. CASE \/ Process \/ ShipPart \/ Ship
           \/ \E actor \in {"customer", "admin"} : CancelOnRequest(actor)
           \/ \E isTransfer \in BOOLEAN : OpenTransferPayment(isTransfer)
           \/ \E i \in Intents : ProviderMoves(i)
  <2>1. UNCHANGED call
    BY <1>4 DEF Process, ShipPart, Ship, CancelOnRequest, OpenTransferPayment, ProviderMoves
  <2>2. ASSUME NEW actor \in {"customer", "admin"}, CancelOnRequest(actor) PROVE order'.status = "cancelled"
    BY <1>2, <2>2 DEF CancelOnRequest
  <2>3. CASE Process \/ ShipPart \/ Ship \/ \E i \in Intents : ProviderMoves(i)
    BY <1>1, <2>1, <2>3 DEF Process, ShipPart, Ship, ProviderMoves
  <2>4. CASE \E isTransfer \in BOOLEAN : OpenTransferPayment(isTransfer)
    BY <1>1, <2>1, <2>4 DEF OpenTransferPayment
  <2> QED BY <1>1, <1>4, <2>1, <2>2, <2>3, <2>4
<1>5. ASSUME NEW w \in Workers, CreateIntent(w) \/ ConfirmPayment(w) \/ Retrieve(w)
                 \/ RecordOfflinePayment(w) \/ UpsertIntent(w) \/ PrepareIntent(w) \/ NoMoreIntents(w)
                 \/ AttachProviderRef(w) \/ ConfirmAtProvider(w) \/ CloseForOffline(w)
                 \/ UpsertOffline(w) \/ Crash(w) \/ HandleCancelled(w)
      PROVE  AfterTheCancel'
  <2>1. UNCHANGED events
    BY <1>5 DEF CreateIntent, ConfirmPayment, Retrieve, RecordOfflinePayment, UpsertIntent,
         PrepareIntent, NoMoreIntents, AttachProviderRef, ConfirmAtProvider, CloseForOffline,
         UpsertOffline, Crash, HandleCancelled
  <2>2. call[w].event => order'.status = "cancelled"
    BY CancelIsFinal DEF AfterTheCancel
  <2>3. /\ Alone(w)
        /\ call'[w].pc \in {"closing", "closed", "refunding"} => call'[w].event
        /\ call'[w].event => order'.status = "cancelled"
    <3>1. CASE CreateIntent(w)
      BY <2>2, <3>1, GoesToWork DEF CreateIntent, Steps
    <3>2. CASE Retrieve(w) \/ ConfirmAtProvider(w)
      BY <2>2, <3>2, HearsWork DEF Retrieve, ConfirmAtProvider, TypeOK
    <3>3. CASE ConfirmPayment(w)
      BY <3>3, SetsOut DEF ConfirmPayment, TypeOK, Steps
    <3>4. CASE RecordOfflinePayment(w)
      <4> DEFINE pc == IF pay.ref = NoIntent \/ pay.manual THEN "recording" ELSE "offline"
      <4>1. pc \in Steps \ {"closing", "closed", "refunding"}
        BY DEF Steps
      <4>2. Does(w, [Idle EXCEPT !.ref = pay.ref, !.pc = pc])
        BY <3>4 DEF RecordOfflinePayment
      <4>3. pay.ref \in Intents \cup {NoIntent}
        BY DEF TypeOK
      <4> HIDE DEF pc
      <4> QED BY <4>1, <4>2, <4>3, SetsOut
    <3>5. CASE NoMoreIntents(w) \/ AttachProviderRef(w) \/ Crash(w)
      BY <3>5, IdleWork DEF NoMoreIntents, AttachProviderRef, Crash
    <3>6. CASE CloseForOffline(w)
      BY <2>2, <3>6, IdleWork, GoesToWork DEF CloseForOffline, Steps
    <3>7. CASE UpsertOffline(w) \/ UpsertIntent(w)
      <4>1. CASE Does(w, Idle)
        BY <4>1, IdleWork
      <4>2. CASE Does(w, [Idle EXCEPT !.pc = "preparing", !.ref = pay.ref])
        BY <4>2, SetsOut DEF TypeOK, Steps
      <4>3. CASE Does(w, [Idle EXCEPT !.pc = "settling", !.says = "succeeded"])
        BY <4>3, SetsOut DEF Steps
      <4> QED BY <3>7, <4>1, <4>2, <4>3 DEF UpsertOffline, UpsertIntent
    <3>8. CASE PrepareIntent(w)
      <4>1. call[w] \in Calls
        BY DEF TypeOK, Calls
      <4>2. ASSUME NEW new \in Intents, Does(w, [call[w] EXCEPT !.pc = "attaching", !.ref = new])
            PROVE  Alone(w) /\ call'[w].pc = "attaching" /\ call'[w].event = call[w].event
        <5>1. [call[w] EXCEPT !.pc = "attaching", !.ref = new] \in Calls
          BY <4>1 DEF Calls, Steps
        <5>2. Alone(w) /\ call'[w] = [call[w] EXCEPT !.pc = "attaching", !.ref = new]
          BY <4>2, <5>1, DoesWork
        <5> QED BY <4>1, <5>2 DEF Calls
      <4>3. \/ Does(w, Idle) \/ GoesTo(w, "attaching")
            \/ \E new \in Intents : Does(w, [call[w] EXCEPT !.pc = "attaching", !.ref = new])
        BY <3>8 DEF PrepareIntent
      <4> QED BY <2>2, <4>2, <4>3, IdleWork, GoesToWork DEF Steps
    <3>9. CASE HandleCancelled(w)
      <4>1. order'.status = "cancelled"
        BY <3>9 DEF HandleCancelled, AfterTheCancel, goods
      <4>2. PICK pc \in Steps : Does(w, [Idle EXCEPT !.event = TRUE, !.pc = pc, !.ref = pay.ref])
        BY <3>9 DEF HandleCancelled, Steps
      <4>3. [Idle EXCEPT !.event = TRUE, !.pc = pc, !.ref = pay.ref] \in Calls
        BY WorkType DEF TypeOK
      <4>4. Alone(w) /\ call'[w] = [Idle EXCEPT !.event = TRUE, !.pc = pc, !.ref = pay.ref]
        BY <4>2, <4>3, DoesWork
      <4> QED BY <4>1, <4>4 DEF Idle
    <3> QED BY <1>5, <3>1, <3>2, <3>3, <3>4, <3>5, <3>6, <3>7, <3>8, <3>9
  <2> QED BY <2>1, <2>3, AfterOne DEF ByEvent
<1>6. ASSUME NEW w \in Workers, RecordAnswer(w) \/ SettleSuccess(w) \/ CancelMismatched(w) PROVE AfterTheCancel'
  <2>1. CASE RecordAnswer(w) \/ SettleSuccess(w)
    BY <2>1, AfterFinishes DEF RecordAnswer, SettleSuccess
  <2>2. CASE CancelMismatched(w)
    BY <1>2, <2>2, AfterFinishes DEF CancelMismatched
  <2> QED BY <1>6, <2>1, <2>2
<1>7. ASSUME NEW w \in Workers, SettleMismatch(w) \/ CloseIntent(w) \/ CloseUnanswered(w) \/ CloseRow(w)
                                 \/ RefundForOrder(w)
      PROVE  AfterTheCancel'
  <2>1. "cancelled" \in events' => "cancelled" \in events
    BY <1>7 DEF SettleMismatch, CloseIntent, CloseUnanswered, CloseRow, RefundForOrder
  <2>2. call[w].event => order'.status = "cancelled"
    BY CancelIsFinal DEF AfterTheCancel
  <2>3. call[w].pc \in {"closing", "closed", "refunding"} => call[w].event
    BY DEF AfterTheCancel
  <2>4. \/ Finishes(w)
        \/ /\ Alone(w)
           /\ call'[w].pc \in {"closing", "closed", "refunding"} => call'[w].event
           /\ call'[w].event => call[w].event
    <3>1. CASE SettleMismatch(w)
      BY <3>1, GoesToWork DEF SettleMismatch, Steps
    <3>2. CASE CloseIntent(w)
      BY <2>3, <3>2, HearsWork, GoesToWork DEF CloseIntent, Steps, TypeOK
    <3>3. CASE CloseUnanswered(w) \/ CloseRow(w)
      BY <2>3, <3>3, GoesToWork DEF CloseUnanswered, CloseRow, Steps
    <3>4. CASE RefundForOrder(w)
      BY <3>4, IdleWork DEF RefundForOrder
    <3> QED BY <1>7, <3>1, <3>2, <3>3, <3>4
  <2> QED BY <2>1, <2>2, <2>4, AfterOne, AfterFinishes DEF ByEvent
<1> QED BY <1>1, <1>3, <1>4, <1>5, <1>6, <1>7 DEF Next, Step, vars

(* What leaves the order, the refund and the success of the payment alone. *)
LEMMA MoneyFrame ==
    ASSUME Money, UNCHANGED <<order, refund, keep>>, "cancelled" \in events => "cancelled" \in events',
           pay'.status = pay.status \/ (pay.status # "succeeded" /\ pay'.status # "succeeded")
    PROVE  Money'
<1>1. SoldForMoney'
  BY DEF Money, SoldForMoney
<1>2. NeverServedAndRefunded'
  BY DEF Money, NeverServedAndRefunded
<1>3. MoneyMatched'
  BY DEF Money, MoneyMatched
<1> QED BY <1>1, <1>2, <1>3 DEF Money

LEMMA MoneyCancel ==
    ASSUME TypeOK, Money, NEW actor \in {"customer", "admin", "system"}, NEW wantsRefund \in BOOLEAN,
           CancelFrom(CancellableBy(actor), wantsRefund), "cancelled" \in events', UNCHANGED <<pay, refund>>
    PROVE  Money'
<1>1. order'.status = "cancelled"
  BY DEF CancelFrom, TypeOK
<1>2. order'.status \notin PastPayment
  BY <1>1 DEF PastPayment
<1>3. SoldForMoney'
  BY <1>2 DEF Money, SoldForMoney
<1>4. NeverServedAndRefunded' /\ MoneyMatched'
  BY <1>2 DEF NeverServedAndRefunded, MoneyMatched
<1> QED BY <1>3, <1>4 DEF Money

(* A success recorded now: the row was open to it, so nothing was served or *)
(* set aside before.                                                        *)
LEMMA NotYetMoney ==
    ASSUME Money, pay.status \in SuccessSettleable
    PROVE  order.status \notin PastPayment /\ refund = FALSE
<1>1. pay.status # "succeeded"
  BY DEF SuccessSettleable, Settleable, Confirmable
<1>2. order.status \notin PastPayment /\ ~ refund
  BY <1>1 DEF Money, SoldForMoney
<1> QED BY <1>2

LEMMA MoneyStep == TypeOK /\ AfterTheCancel /\ Money /\ [Next]_vars => Money'
<1> SUFFICES ASSUME TypeOK, AfterTheCancel, Money, [Next]_vars PROVE Money'
  OBVIOUS
<1>1. CASE UNCHANGED <<order, pay, refund, keep>> /\ ("cancelled" \in events => "cancelled" \in events')
  BY <1>1, MoneyFrame
<1>2. CASE SweepExpires \/ \E isTransfer \in BOOLEAN : OpenTransferPayment(isTransfer)
  <2>1. UNCHANGED <<order, refund, keep>> /\ ("cancelled" \in events => "cancelled" \in events')
    BY <1>2 DEF SweepExpires, OpenTransferPayment, goods
  <2>2. pay'.status = pay.status \/ (pay.status # "succeeded" /\ pay'.status # "succeeded")
    BY <1>2 DEF SweepExpires, OpenTransferPayment, NoPayment, TypeOK
  <2> QED BY <2>1, <2>2, MoneyFrame
<1>3. ASSUME NEW w \in Workers, UpsertIntent(w) \/ UpsertOffline(w) \/ AttachProviderRef(w)
                                 \/ RecordAnswer(w) \/ CloseRow(w)
      PROVE  Money'
  <2>1. UNCHANGED <<order, refund, keep, events>>
    BY <1>3 DEF UpsertIntent, UpsertOffline, AttachProviderRef, RecordAnswer, CloseRow, goods
  <2>2. pay'.status = pay.status \/ (pay.status # "succeeded" /\ pay'.status # "succeeded")
    <3>1. CASE UpsertIntent(w)
      BY <3>1 DEF UpsertIntent, TypeOK, Confirmable, OpenTransfer
    <3>2. CASE UpsertOffline(w)
      BY <3>2 DEF UpsertOffline, TypeOK, Confirmable, OpenTransfer, CancelledTransfer
    <3>3. CASE AttachProviderRef(w)
      BY <3>3 DEF AttachProviderRef, TypeOK
    <3>4. CASE RecordAnswer(w)
      BY <3>4 DEF RecordAnswer, TypeOK, Settleable, Confirmable
    <3>5. CASE CloseRow(w)
      BY <3>5 DEF CloseRow, TypeOK, Settleable, Confirmable
    <3> QED BY <1>3, <3>1, <3>2, <3>3, <3>4, <3>5
  <2> QED BY <2>1, <2>2, MoneyFrame
<1>4. CASE ExpireReservation
  <2>1. CASE CancelFrom(CancellableBy("system"), TRUE) /\ "cancelled" \in events'
    BY <1>4, <2>1, MoneyCancel DEF ExpireReservation
  <2>2. CASE UNCHANGED <<goods, keep>> /\ events' = events \ {"expired"}
    BY <1>1, <1>4, <2>2 DEF ExpireReservation, goods
  <2> QED BY <1>4, <2>1, <2>2 DEF ExpireReservation
<1>5. ASSUME NEW actor \in {"customer", "admin"}, CancelOnRequest(actor) PROVE Money'
  <2>1. PICK wantsRefund \in BOOLEAN : CancelFrom(CancellableBy(actor), wantsRefund)
    BY <1>5 DEF CancelOnRequest
  <2> QED BY <1>5, <2>1, MoneyCancel DEF CancelOnRequest
<1>6. ASSUME NEW w \in Workers, CancelMismatched(w) PROVE Money'
  <2>1. CASE CancelFrom(CancellableBy("system"), TRUE) /\ "cancelled" \in events'
    BY <1>6, <2>1, MoneyCancel DEF CancelMismatched
  <2>2. CASE UNCHANGED <<goods, keep, events>>
    BY <1>1, <1>6, <2>2 DEF CancelMismatched, goods
  <2> QED BY <1>6, <2>1, <2>2 DEF CancelMismatched
<1>7. CASE Process \/ ShipPart \/ Ship
  <2>1. order.status \in PastPayment /\ order'.status \in PastPayment
    BY <1>7 DEF Process, ShipPart, Ship, TypeOK, PastPayment
  <2>2. UNCHANGED <<pay, refund>>
    BY <1>7 DEF Process, ShipPart, Ship
  <2>3. ~ refund
    BY <2>1 DEF Money, NeverServedAndRefunded
  <2>4. SoldForMoney'
    BY <2>1, <2>2 DEF Money, SoldForMoney
  <2> QED BY <2>1, <2>2, <2>3, <2>4 DEF Money, NeverServedAndRefunded, MoneyMatched
<1>8. ASSUME NEW w \in Workers, SettleSuccess(w) PROVE Money'
  <2>1. CASE UNCHANGED <<goods, pay, refund>>
    BY <1>1, <1>8, <2>1 DEF SettleSuccess, goods
  <2>2. CASE pay.status \in SuccessSettleable /\ pay' = [pay EXCEPT !.status = "succeeded"]
    <3>1. pay'.status = "succeeded"
      BY <2>2 DEF TypeOK
    <3>2. order.status \notin PastPayment /\ ~ refund
      BY <2>2, NotYetMoney
    <3>3. CASE MarkPaid /\ UNCHANGED refund
      <4>1. order'.status \in PastPayment
        BY <3>3 DEF MarkPaid, TypeOK, PastPayment
      <4> QED BY <3>1, <3>2, <3>3, <4>1 DEF Money, SoldForMoney, NeverServedAndRefunded, MoneyMatched
    <3>4. CASE refund' = (refund \/ LostMoney) /\ UNCHANGED goods
      <4>1. refund' /\ order'.status \notin PastPayment
        BY <3>2, <3>4 DEF LostMoney, goods
      <4> QED BY <3>1, <4>1 DEF Money, SoldForMoney, NeverServedAndRefunded, MoneyMatched
    <3> QED BY <1>8, <2>1, <3>3, <3>4 DEF SettleSuccess
  <2> QED BY <1>8, <2>1, <2>2 DEF SettleSuccess
<1>9. ASSUME NEW w \in Workers, SettleMismatch(w) PROVE Money'
  <2>1. CASE UNCHANGED <<pay, refund>>
    BY <1>1, <1>9, <2>1 DEF SettleMismatch, goods
  <2>2. CASE pay.status \in SuccessSettleable /\ pay' = [pay EXCEPT !.status = "succeeded"] /\ refund'
    <3>1. pay'.status = "succeeded"
      BY <2>2 DEF TypeOK
    <3>2. order'.status \notin PastPayment
      BY <1>9, <2>2, NotYetMoney DEF SettleMismatch, goods
    <3> QED BY <2>2, <3>1, <3>2 DEF Money, SoldForMoney, NeverServedAndRefunded, MoneyMatched
  <2> QED BY <1>9, <2>1, <2>2 DEF SettleMismatch
<1>10. ASSUME NEW w \in Workers, RefundForOrder(w) PROVE Money'
  <2>1. order'.status = "cancelled" /\ UNCHANGED <<pay, keep>>
    BY <1>10 DEF RefundForOrder, AfterTheCancel, goods
  <2>2. refund' <=> (refund \/ (~ keep /\ pay.status = "succeeded"))
    BY <1>10 DEF RefundForOrder
  <2>3. order'.status \notin PastPayment
    BY <2>1 DEF PastPayment
  <2>4. SoldForMoney'
    BY <2>1, <2>2, <2>3 DEF Money, SoldForMoney
  <2>5. MoneyMatched'
    BY <2>1, <2>2 DEF MoneyMatched
  <2> QED BY <2>3, <2>4, <2>5 DEF Money, NeverServedAndRefunded
<1>11. ASSUME NEW w \in Workers, CreateIntent(w) \/ ConfirmPayment(w) \/ Retrieve(w) \/ HandleCancelled(w)
                 \/ RecordOfflinePayment(w) \/ PrepareIntent(w) \/ NoMoreIntents(w) \/ ConfirmAtProvider(w)
                 \/ CloseIntent(w) \/ CloseUnanswered(w) \/ CloseForOffline(w) \/ Crash(w)
      PROVE  Money'
  BY <1>1, <1>11 DEF CreateIntent, ConfirmPayment, Retrieve, HandleCancelled, RecordOfflinePayment,
         PrepareIntent, NoMoreIntents, ConfirmAtProvider, CloseIntent, CloseUnanswered, CloseForOffline,
         Crash, goods
<1>12. CASE OthersBuy \/ UNCHANGED vars \/ \E i \in Intents : ProviderMoves(i)
  BY <1>1, <1>12 DEF OthersBuy, vars, ProviderMoves, goods
<1> QED BY <1>2, <1>3, <1>4, <1>5, <1>6, <1>7, <1>8, <1>9, <1>10, <1>11, <1>12 DEF Next, Step

LEMMA MoneyHolds == Spec => [](AfterTheCancel /\ Money)
<1>1. Init => AfterTheCancel /\ Money
  BY DEF Init, AfterTheCancel, Idle, Money, SoldForMoney, NeverServedAndRefunded, MoneyMatched,
         PastPayment, NoPayment
<1> QED BY <1>1, AfterStep, MoneyStep, TypeCorrect, PTL DEF Spec

(* Recorded money is served, set aside, on its way back, or kept by an      *)
(* operator's choice: no interleaving of settlement.ts, cancel.ts and the   *)
(* handlers of effects.ts loses it.                                         *)
THEOREM MoneyIsMatched == Spec => []MoneyMatched
<1>1. Money => MoneyMatched
  BY DEF Money
<1> QED BY <1>1, MoneyHolds, PTL

(* Nobody has both the goods and the money, however often a settlement, a   *)
(* cancel and their handlers are repeated.                                  *)
THEOREM NotServedAndRefunded == Spec => []NeverServedAndRefunded
<1>1. Money => NeverServedAndRefunded
  BY DEF Money
<1> QED BY <1>1, MoneyHolds, PTL

-----------------------------------------------------------------------------
(* The buyer is charged once. *)

(* The program as its documents describe it: money recorded by hand closes  *)
(* every intent, also the one being opened beside it.                       *)
NoOverlap == "offline beside a new intent" \notin Divergences

(* What a worker's next step may be, as far as intents are concerned: it    *)
(* neither starts to open one nor to record money.                          *)
LEMMA ChargeFrame ==
    ASSUME TypeOK, ChargeInv, NEW w \in Workers, Alone(w), pay'.manual = pay.manual, pay'.ref = pay.ref,
           pay'.status = "none" <=> pay.status = "none",
           \A i \in Intents : psp'[i] \in Answers => psp[i] \in Answers,
           call'[w].pc \in {"preparing", "attaching"} => Opening(w),
           ~ Recording(w)'
    PROVE  ChargeInv'
<1>1. ShownIsTheRows'
  BY DEF ChargeInv, ShownIsTheRows
<1>2. RowsByHand'
  BY DEF ChargeInv, RowsByHand
<1>3. \A v \in Workers : Opening(v)' => Opening(v)
  BY DEF Opening, Alone
<1>4. \A v \in Workers : Recording(v)' => Recording(v) /\ call'[v] = call[v]
  BY DEF Recording, Alone
<1>5. ApartFromIntents'
  BY <1>3, <1>4 DEF ChargeInv, ApartFromIntents
<1> QED BY <1>1, <1>2, <1>5 DEF ChargeInv

(* Likewise when no worker moves. *)
LEMMA ChargeStill ==
    ASSUME ChargeInv, UNCHANGED call, pay'.manual = pay.manual, pay'.ref = pay.ref,
           pay'.status = "none" <=> pay.status = "none",
           \A i \in Intents : psp'[i] \in Answers => psp[i] \in Answers
    PROVE  ChargeInv'
BY DEF ChargeInv, ShownIsTheRows, RowsByHand, ApartFromIntents, Opening, Recording

(* An intent that moves at the provider was one the buyer could pay. *)
LEMMA AfterAnswers ==
    ASSUME NEW state \in IntentStates, NEW s \in After(state)
    PROVE  state \in Answers
BY DEF After, IntentStates

LEMMA FinishesWork ==
    ASSUME TypeOK, NEW w \in Workers, Finishes(w)
    PROVE  Alone(w) /\ call'[w].pc \in {"refunding", "idle"}
BY GoesToWork, IdleWork DEF Finishes, Steps

(* Steps that leave the intents and the row's identity alone. *)
LEMMA ChargeAlone ==
    ASSUME TypeOK, ChargeInv, NEW w \in Workers,
           \/ CreateIntent(w) \/ ConfirmPayment(w) \/ Retrieve(w) \/ HandleCancelled(w) \/ NoMoreIntents(w)
           \/ RecordAnswer(w) \/ SettleSuccess(w) \/ SettleMismatch(w) \/ CancelMismatched(w)
           \/ CloseRow(w) \/ RefundForOrder(w) \/ Crash(w)
    PROVE  ChargeInv'
<1>1. UNCHANGED psp
  BY DEF CreateIntent, ConfirmPayment, Retrieve, HandleCancelled, NoMoreIntents, RecordAnswer, SettleSuccess,
         SettleMismatch, CancelMismatched, CloseRow, RefundForOrder, Crash
<1>2. Alone(w) /\ call'[w].pc \notin {"preparing", "attaching", "offline", "recording"}
  <2>1. CASE CreateIntent(w) \/ CloseRow(w)
    BY <2>1, GoesToWork DEF CreateIntent, CloseRow, Steps
  <2>2. CASE ConfirmPayment(w)
    BY <2>2, SetsOut DEF ConfirmPayment, TypeOK, Steps
  <2>3. CASE Retrieve(w)
    BY <2>3, HearsWork DEF Retrieve, TypeOK
  <2>4. CASE HandleCancelled(w)
    <3>1. PICK pc \in {"closing", "closed", "refunding"} :
             Does(w, [Idle EXCEPT !.event = TRUE, !.pc = pc, !.ref = pay.ref])
      BY <2>4 DEF HandleCancelled
    <3>2. [Idle EXCEPT !.event = TRUE, !.pc = pc, !.ref = pay.ref] \in Calls
      BY WorkType DEF TypeOK, Steps
    <3>3. Alone(w) /\ call'[w] = [Idle EXCEPT !.event = TRUE, !.pc = pc, !.ref = pay.ref]
      BY <3>1, <3>2, DoesWork
    <3> QED BY <3>3 DEF Idle
  <2>5. CASE NoMoreIntents(w) \/ RefundForOrder(w) \/ Crash(w)
    BY <2>5, IdleWork DEF NoMoreIntents, RefundForOrder, Crash
  <2>6. CASE RecordAnswer(w) \/ SettleSuccess(w) \/ CancelMismatched(w)
    BY <2>6, FinishesWork DEF RecordAnswer, SettleSuccess, CancelMismatched
  <2>7. CASE SettleMismatch(w)
    BY <2>7, FinishesWork, GoesToWork DEF SettleMismatch, Steps
  <2> QED BY <2>1, <2>2, <2>3, <2>4, <2>5, <2>6, <2>7
<1>3. pay'.manual = pay.manual /\ pay'.ref = pay.ref /\ (pay'.status = "none" <=> pay.status = "none")
  <2>1. CASE RecordAnswer(w)
    <3>1. call[w].says # "none"
      BY SalesAssumption DEF TypeOK, Answers
    <3> QED BY <2>1, <3>1 DEF RecordAnswer, TypeOK, Settleable, Confirmable
  <2>2. CASE SettleSuccess(w)
    BY <2>2 DEF SettleSuccess, TypeOK, SuccessSettleable, Settleable, Confirmable
  <2>3. CASE SettleMismatch(w)
    BY <2>3 DEF SettleMismatch, TypeOK, SuccessSettleable, Settleable, Confirmable
  <2>4. CASE CloseRow(w)
    BY <2>4 DEF CloseRow, TypeOK, Settleable, Confirmable
  <2>5. CASE CreateIntent(w) \/ ConfirmPayment(w) \/ Retrieve(w) \/ HandleCancelled(w) \/ NoMoreIntents(w)
             \/ CancelMismatched(w) \/ RefundForOrder(w) \/ Crash(w)
    BY <2>5 DEF CreateIntent, ConfirmPayment, Retrieve, HandleCancelled, NoMoreIntents, CancelMismatched,
         RefundForOrder, Crash
  <2> QED BY <2>1, <2>2, <2>3, <2>4, <2>5
<1> QED BY <1>1, <1>2, <1>3, ChargeFrame DEF Recording, Opening

(* Steps that ask the provider about an intent, or have it closed. *)
LEMMA ChargeAtProvider ==
    ASSUME TypeOK, ChargeInv, NEW w \in Workers,
           PrepareIntent(w) \/ ConfirmAtProvider(w) \/ CloseIntent(w) \/ CloseUnanswered(w)
    PROVE  ChargeInv'
<1>1. UNCHANGED pay
  BY DEF PrepareIntent, ConfirmAtProvider, CloseIntent, CloseUnanswered
<1>2. "made" \notin Answers /\ "cancelled" \notin Answers
  BY SalesAssumption DEF Answers
<1>3. \A i \in Intents : psp'[i] \in Answers => psp[i] \in Answers
  <2>1. CASE PrepareIntent(w)
    BY <1>2, <2>1 DEF PrepareIntent, TypeOK
  <2>2. CASE ConfirmAtProvider(w)
    <3>1. CASE UNCHANGED psp
      BY <3>1
    <3>2. ASSUME NEW s \in After(psp[call[w].ref]), psp' = [psp EXCEPT ![call[w].ref] = s]
          PROVE  \A i \in Intents : psp'[i] \in Answers => psp[i] \in Answers
      <4>1. call[w].ref \in Intents => psp[call[w].ref] \in Answers
        BY AfterAnswers DEF TypeOK
      <4> QED BY <3>2, <4>1 DEF TypeOK
    <3> QED BY <2>2, <3>1, <3>2 DEF ConfirmAtProvider
  <2>3. CASE CloseIntent(w) \/ CloseUnanswered(w)
    BY <1>2, <2>3 DEF CloseIntent, CloseUnanswered, TypeOK
  <2> QED BY <2>1, <2>2, <2>3
<1>4. Alone(w) /\ call'[w].pc \notin {"offline", "recording"}
      /\ (call'[w].pc \in {"preparing", "attaching"} => Opening(w))
  <2>1. CASE PrepareIntent(w)
    <3>1. Opening(w)
      BY <2>1 DEF PrepareIntent, Opening
    <3>2. call[w] \in Calls
      BY DEF TypeOK, Calls
    <3>3. ASSUME NEW new \in Intents, Does(w, [call[w] EXCEPT !.pc = "attaching", !.ref = new])
          PROVE  Alone(w) /\ call'[w].pc = "attaching"
      <4>1. [call[w] EXCEPT !.pc = "attaching", !.ref = new] \in Calls
        BY <3>2 DEF Calls, Steps
      <4>2. Alone(w) /\ call'[w] = [call[w] EXCEPT !.pc = "attaching", !.ref = new]
        BY <3>3, <4>1, DoesWork
      <4> QED BY <3>2, <4>2 DEF Calls
    <3>4. \/ Does(w, Idle) \/ GoesTo(w, "attaching")
          \/ \E new \in Intents : Does(w, [call[w] EXCEPT !.pc = "attaching", !.ref = new])
      BY <2>1 DEF PrepareIntent
    <3> QED BY <3>1, <3>3, <3>4, IdleWork, GoesToWork DEF Steps
  <2>2. CASE ConfirmAtProvider(w)
    BY <2>2, HearsWork DEF ConfirmAtProvider, TypeOK
  <2>3. CASE CloseIntent(w)
    BY <2>3, HearsWork, GoesToWork DEF CloseIntent, TypeOK, Steps
  <2>4. CASE CloseUnanswered(w)
    BY <2>4, GoesToWork DEF CloseUnanswered, Steps
  <2> QED BY <2>1, <2>2, <2>3, <2>4
<1> QED BY <1>1, <1>3, <1>4, ChargeFrame DEF Recording

(* The row is taken for an intent while no operator records. *)
LEMMA ChargeUpsertIntent ==
    ASSUME NoOverlap, TypeOK, ChargeInv, NEW w \in Workers, UpsertIntent(w)
    PROVE  ChargeInv'
<1>1. CASE Does(w, Idle) /\ UNCHANGED pay
  BY <1>1, IdleWork, ChargeFrame DEF UpsertIntent, Recording, Opening
<1>2. CASE /\ pay' = [pay EXCEPT !.status = "requires_confirmation", !.manual = FALSE]
           /\ Does(w, [Idle EXCEPT !.pc = "preparing", !.ref = pay.ref])
  <2>1. Alone(w) /\ call'[w].pc = "preparing"
    BY <1>2, SetsOut DEF TypeOK, Steps
  <2>2. pay'.status = "requires_confirmation" /\ pay'.manual = FALSE /\ pay'.ref = pay.ref
    BY <1>2 DEF TypeOK
  <2>3. UNCHANGED psp
    BY DEF UpsertIntent
  <2>4. \A v \in Workers : call[v].pc \notin {"offline", "recording", "settling"}
    BY DEF UpsertIntent, Overlaps, NoOverlap
  <2>5. \A v \in Workers : ~ Recording(v)'
    BY <2>1, <2>4 DEF Alone, Recording
  <2> QED BY <2>2, <2>3, <2>5 DEF ChargeInv, ShownIsTheRows, RowsByHand, ApartFromIntents
<1> QED BY <1>1, <1>2 DEF UpsertIntent

(* The first intent is attached and shown, a stray one is not. *)
LEMMA ChargeAttach ==
    ASSUME TypeOK, ChargeInv, NEW w \in Workers, AttachProviderRef(w)
    PROVE  ChargeInv'
<1> DEFINE i == call[w].ref
<1>1. Opening(w) /\ ~ pay.manual /\ pay.status # "none"
  BY DEF AttachProviderRef, Opening, ChargeInv, ApartFromIntents
<1>2. Alone(w) /\ call'[w].pc = "idle"
  BY IdleWork DEF AttachProviderRef
<1>3. pay'.manual = pay.manual /\ pay'.status = pay.status /\ pay'.ref = IF pay.ref = NoIntent THEN i ELSE pay.ref
  BY DEF AttachProviderRef, TypeOK
<1>4. "cancelled" \notin Answers
  BY SalesAssumption DEF Answers
<1>5. \A j \in Intents : psp'[j] \in Answers => pay'.ref = j
  <2> TAKE j \in Intents
  <2>1. CASE j # i \/ psp'[j] = psp[j]
    <3>1. psp'[j] = psp[j]
      BY <2>1 DEF AttachProviderRef, TypeOK
    <3>2. psp[j] \in Answers => pay.ref = j /\ pay.ref # NoIntent
      BY SalesAssumption DEF ChargeInv, ShownIsTheRows
    <3> QED BY <1>3, <3>1, <3>2
  <2>2. CASE j = i /\ psp'[j] # psp[j]
    <3>1. psp[i] = "made" /\ psp'[i] = IF pay.ref \in {NoIntent, i} THEN "open" ELSE "cancelled"
      BY <2>2 DEF AttachProviderRef, TypeOK
    <3> QED BY <1>3, <1>4, <2>2, <3>1
  <2> QED BY <2>1, <2>2
<1>6. ShownIsTheRows' /\ RowsByHand'
  BY <1>1, <1>3, <1>5 DEF ShownIsTheRows, RowsByHand
<1>7. \A v \in Workers : ~ Recording(v)'
  BY <1>1, <1>2 DEF ChargeInv, ApartFromIntents, Alone, Recording
<1>8. \A v \in Workers : Opening(v)' => ~ pay'.manual /\ pay'.status # "none"
  BY <1>1, <1>3
<1> QED BY <1>6, <1>7, <1>8 DEF ChargeInv, ApartFromIntents

(* An operator starts only while nobody opens an intent. *)
LEMMA ChargeRecord ==
    ASSUME NoOverlap, TypeOK, ChargeInv, NEW w \in Workers, RecordOfflinePayment(w)
    PROVE  ChargeInv'
<1> DEFINE pc == IF pay.ref = NoIntent \/ pay.manual THEN "recording" ELSE "offline"
<1>1. pc \in Steps /\ pc \in {"recording", "offline"}
  BY DEF Steps
<1>2. Does(w, [Idle EXCEPT !.ref = pay.ref, !.pc = pc])
  BY DEF RecordOfflinePayment
<1>3. pay.ref \in Intents \cup {NoIntent}
  BY DEF TypeOK
<1>4. Alone(w) /\ call'[w].pc = pc /\ call'[w].ref = pay.ref
  <2> HIDE DEF pc
  <2>1. [Idle EXCEPT !.ref = pay.ref, !.pc = pc] \in Calls
    BY <1>1, <1>3, WorkType
  <2>2. Alone(w) /\ call'[w] = [Idle EXCEPT !.ref = pay.ref, !.pc = pc]
    BY <1>2, <2>1, DoesWork
  <2> QED BY <2>2 DEF Idle
<1>5. UNCHANGED <<pay, psp>>
  BY DEF RecordOfflinePayment
<1>6. \A v \in Workers : ~ Opening(v)
  BY DEF RecordOfflinePayment, Overlaps, NoOverlap, Opening
<1>7. \A v \in Workers : ~ Opening(v)'
  BY <1>1, <1>4, <1>6 DEF Opening, Alone
<1>8. \A j \in Intents : psp[j] \in Answers => pc = "offline" /\ pay.ref = j
  BY SalesAssumption DEF ChargeInv, ShownIsTheRows, RowsByHand
<1>9. \A v \in Workers, j \in Intents : Recording(v)' /\ psp'[j] \in Answers =>
          call'[v].pc = "offline" /\ call'[v].ref = j
  BY <1>4, <1>5, <1>8 DEF ChargeInv, ApartFromIntents, Recording, Alone
<1> QED BY <1>5, <1>7, <1>9 DEF ChargeInv, ShownIsTheRows, RowsByHand, ApartFromIntents

(* The intent is closed before the row becomes the operator's. *)
LEMMA ChargeClose ==
    ASSUME TypeOK, ChargeInv, NEW w \in Workers, CloseForOffline(w)
    PROVE  ChargeInv'
<1>1. "cancelled" \notin Answers
  BY SalesAssumption DEF Answers
<1>2. UNCHANGED pay
  BY DEF CloseForOffline
<1>3. CASE Does(w, Idle) /\ UNCHANGED psp
  BY <1>2, <1>3, IdleWork, ChargeFrame DEF Recording
<1>4. CASE psp' = [psp EXCEPT ![call[w].ref] = "cancelled"] /\ GoesTo(w, "recording")
  <2>1. Recording(w) /\ \A v \in Workers : ~ Opening(v)
    BY DEF CloseForOffline, Recording, ChargeInv, ApartFromIntents
  <2>2. Alone(w) /\ call'[w].pc = "recording"
    BY <1>4, GoesToWork DEF Steps
  <2>3. \A v \in Workers : ~ Opening(v)'
    BY <2>1, <2>2 DEF Opening, Alone
  <2>4. \A j \in Intents : psp[j] \in Answers => j = call[w].ref
    BY <2>1 DEF ChargeInv, ApartFromIntents
  <2>5. \A j \in Intents : psp'[j] \notin Answers
    BY <1>1, <1>4, <2>4 DEF TypeOK
  <2> QED BY <1>2, <2>3, <2>5 DEF ChargeInv, ShownIsTheRows, RowsByHand, ApartFromIntents
<1> QED BY <1>3, <1>4 DEF CloseForOffline

LEMMA ChargeUpsertOffline ==
    ASSUME TypeOK, ChargeInv, NEW w \in Workers, UpsertOffline(w)
    PROVE  ChargeInv'
<1>1. UNCHANGED psp /\ Recording(w)
  BY DEF UpsertOffline, Recording
<1>2. CASE Does(w, Idle) /\ UNCHANGED pay
  BY <1>1, <1>2, IdleWork, ChargeFrame DEF Recording
<1>3. CASE /\ pay' = [pay EXCEPT !.status = "requires_confirmation", !.manual = TRUE, !.ref = NoIntent]
           /\ Does(w, [Idle EXCEPT !.pc = "settling", !.says = "succeeded"])
  <2>1. pay'.status = "requires_confirmation" /\ pay'.ref = NoIntent
    BY <1>3 DEF TypeOK
  <2>2. Alone(w) /\ call'[w].pc = "settling"
    BY <1>3, SetsOut DEF Steps
  <2>3. \A v \in Workers : ~ Opening(v)'
    BY <1>1, <2>2 DEF ChargeInv, ApartFromIntents, Opening, Alone
  <2>4. \A j \in Intents : psp[j] \notin Answers
    BY <1>1 DEF UpsertOffline, ChargeInv, ApartFromIntents
  <2> QED BY <1>1, <2>1, <2>3, <2>4 DEF ChargeInv, ShownIsTheRows, RowsByHand, ApartFromIntents
<1> QED BY <1>2, <1>3 DEF UpsertOffline

(* Every row that waits for a transfer was none before. *)
LEMMA ChargeTransfer ==
    ASSUME TypeOK, ChargeInv, NEW isTransfer \in BOOLEAN, OpenTransferPayment(isTransfer)
    PROVE  ChargeInv'
<1>1. UNCHANGED <<psp, call>>
  BY DEF OpenTransferPayment
<1>2. CASE UNCHANGED pay
  BY <1>1, <1>2, ChargeStill
<1>3. CASE pay.status = "none" /\ pay'.status = "requires_action" /\ pay'.ref = NoIntent
  <2>1. pay.ref = NoIntent /\ \A v \in Workers : ~ Opening(v)
    BY <1>3 DEF ChargeInv, RowsByHand, ApartFromIntents
  <2>2. \A j \in Intents : psp[j] \notin Answers
    BY <2>1, SalesAssumption DEF ChargeInv, ShownIsTheRows
  <2> QED BY <1>1, <1>3, <2>1, <2>2 DEF ChargeInv, ShownIsTheRows, RowsByHand, ApartFromIntents, Opening
<1> QED BY <1>2, <1>3 DEF OpenTransferPayment, NoPayment

LEMMA ChargeStep == NoOverlap /\ TypeOK /\ ChargeInv /\ [Next]_vars => ChargeInv'
<1> SUFFICES ASSUME NoOverlap, TypeOK, ChargeInv, [Next]_vars PROVE ChargeInv'
  OBVIOUS
<1>1. CASE UNCHANGED <<pay, psp, call>>
  BY <1>1, ChargeStill
<1>2. ASSUME NEW i \in Intents, ProviderMoves(i) PROVE ChargeInv'
  <2>1. UNCHANGED <<pay, call>>
    BY <1>2 DEF ProviderMoves
  <2>2. \A j \in Intents : psp'[j] \in Answers => psp[j] \in Answers
    BY <1>2, AfterAnswers DEF ProviderMoves, TypeOK
  <2> QED BY <2>1, <2>2, ChargeStill
<1>3. CASE SweepExpires \/ OthersBuy \/ ExpireReservation \/ Process \/ ShipPart \/ Ship
           \/ (\E actor \in {"customer", "admin"} : CancelOnRequest(actor)) \/ UNCHANGED vars
  BY <1>1, <1>3 DEF SweepExpires, OthersBuy, ExpireReservation, Process, ShipPart, Ship, CancelOnRequest, vars
<1> QED BY <1>2, <1>3, ChargeAlone, ChargeAtProvider, ChargeUpsertIntent, ChargeAttach, ChargeRecord,
           ChargeClose, ChargeUpsertOffline, ChargeTransfer DEF Next, Step

(* At most one intent took money, and none when an operator recorded it. *)
LEMMA ChargedOnce == TypeOK /\ ChargeInv => PaidOnce
<1> SUFFICES ASSUME TypeOK, ChargeInv PROVE PaidOnce
  OBVIOUS
<1> DEFINE charged == {i \in Intents : psp[i] \in {"succeeded", "odd"}}
<1>1. \A i \in charged : pay.ref = i
  <2>1. \A i \in charged : psp[i] \in Answers
    BY DEF TypeOK, IntentStates
  <2> QED BY <2>1 DEF ChargeInv, ShownIsTheRows
<1>2. Cardinality(charged) <= 1
  <2>1. charged \subseteq {pay.ref}
    BY <1>1
  <2>2. IsFiniteSet({pay.ref}) /\ Cardinality({pay.ref}) = 1
    BY FS_Singleton
  <2> QED BY <2>1, <2>2, FS_Subset
<1>3. pay.manual => charged = {}
  <2>1. pay.manual => pay.ref \notin Intents
    BY SalesAssumption DEF ChargeInv, RowsByHand
  <2> QED BY <1>1, <2>1
<1> QED BY <1>2, <1>3 DEF PaidOnce

(* The buyer is charged once, by an intent or by the operator's record, as  *)
(* long as opening an intent (intent.ts) and recording money by hand        *)
(* (offline.ts) do not overlap: the one departure that breaks it.           *)
THEOREM PaidOnlyOnce ==
    ASSUME NoOverlap
    PROVE  Spec => []PaidOnce
<1>1. Init => ChargeInv
  <2> SUFFICES ASSUME Init PROVE ChargeInv
    OBVIOUS
  <2>1. \A i \in Intents : psp[i] \notin Answers
    BY SalesAssumption DEF Init, Answers
  <2>2. \A w \in Workers : call[w].pc = "idle"
    BY DEF Init, Idle
  <2>3. pay.ref = NoIntent
    BY DEF Init, NoPayment
  <2> QED BY <2>1, <2>2, <2>3 DEF ChargeInv, ShownIsTheRows, RowsByHand, ApartFromIntents, Opening, Recording
<1>2. TypeOK /\ ChargeInv /\ [Next]_vars => ChargeInv'
  BY ChargeStep
<1> QED BY <1>1, <1>2, TypeCorrect, ChargedOnce, PTL DEF Spec

=============================================================================
