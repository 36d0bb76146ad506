------------------------------ MODULE Refunds ------------------------------
(***************************************************************************)
(* The refunds of one succeeded payment (src/src/modules/payments).        *)
(*                                                                         *)
(* A refund is a record on the payment document, opened before anyone is   *)
(* asked for the money.  Requests, the retry sweep, webhooks and operators *)
(* each read the document, decide on what they read, and write later with  *)
(* one conditional write: every read and every write is an action.  The    *)
(* provider and the bank are external: they answer late, not at all, or    *)
(* change their mind.  An attempt is named by the worker that makes it     *)
(* (the code's fence token `attemptedAt`: one instant per attempt).        *)
(***************************************************************************)
EXTENDS Integers, FiniteSets, Sums

CONSTANTS
    Own,            \* ids of records this application may open
    Outside,        \* ids of refunds made in the provider's dashboard
    Paid,           \* the payment's amount, in minor units
    Amounts,        \* amounts an operator may ask to return
    DisputeAmount,  \* what a chargeback takes
    Sweeps,         \* automatic callers at work at once: sweep, listeners, webhooks
    Staff,          \* requests of operators at work at once
    NoOne,          \* no attempt
    Divergences,    \* which departures from the documented behaviour may happen (see below)
    MaxFaults       \* bound: outages, crashes, stalls, chargebacks, refunds sent back or made outside

ASSUME RefundsAssumption ==
    /\ Own \cap Outside = {} /\ IsFiniteSet(Own) /\ IsFiniteSet(Outside)
    /\ Paid \in Nat /\ DisputeAmount \in 0 .. Paid
    /\ Amounts \subseteq Nat \ {0}
    /\ Sweeps \cap Staff = {} /\ NoOne \notin Sweeps \cup Staff \cup Own \cup Outside
    /\ Divergences \subseteq
          {"stale hand", "hand undone", "disputed unasked", "removed unasked", "imported twice"}
    /\ MaxFaults \in Nat

VARIABLES
    manual,    \* was the payment recorded by hand (no provider behind it)?
    refunded,  \* the payment's amountRefunded
    records,   \* id -> refund record on the payment
    copies,    \* id -> a second record the import pushed for the same refund
    dispute,   \* the chargeback as the payment stores it
    stamp,     \* the order's paymentStatus
    call,      \* worker -> the request, sweep or webhook it is working on
    psp,       \* id -> the refund at the provider
    bank,      \* the chargeback as the bank has it
    given,     \* money operators handed back themselves
    faults     \* how much of MaxFaults was used

doc == <<refunded, records, copies, stamp>>
outer == <<psp, bank, given>>
vars == <<manual, refunded, records, copies, dispute, stamp, call, psp, bank, given,
          faults>>

Ids == Own \cup Outside
Workers == Sweeps \cup Staff

Statuses == {"none", "pending", "succeeded", "failed"}
(* declined stands for every definite refusal, removed for an adapter that   *)
(* is not registered any more, unclear for no answer.                       *)
Reasons == {"none", "declined", "disputed", "removed", "funds", "unclear", "canceled"}
Final == {"declined", "disputed", "removed"}
Record == [status : Statuses, amount : Nat, reason : Reasons, attempt : Workers \cup {NoOne},
           old : BOOLEAN, waiting : BOOLEAN, ref : BOOLEAN, reversed : BOOLEAN]
NoRecord == [status |-> "none", amount |-> 0, reason |-> "none", attempt |-> NoOne,
             old |-> FALSE, waiting |-> FALSE, ref |-> FALSE, reversed |-> FALSE]

Steps == {"idle", "opening", "claiming", "sending", "settling", "attaching", "failing",
          "asking", "applying", "handing", "canceling"}
(* What a worker remembers: the record and the total it read, the answer it got. *)
Work == [pc : Steps, rec : Ids \cup {NoOne}, amount : Nat, all : BOOLEAN, seen : Nat,
         read : Record, reason : Reasons]
Idle == [pc |-> "idle", rec |-> NoOne, amount |-> 0, all |-> FALSE, seen |-> 0,
         read |-> NoRecord, reason |-> "none"]

-----------------------------------------------------------------------------
(* The rules (domain/lifecycle.ts, domain/disputes.ts). *)

(* Mutated form of Open, not the code: a voided record counted as owed. *)
OpenThoughVoid(d) == d.status \in {"pending", "failed"}

Open(d) == d.status \in {"pending", "failed"} /\ d.reason # "canceled"
MayHaveMoved(d) == ~ d.reversed /\ (d.status = "succeeded" \/ d.ref)
OpenChargeback == dispute = "open"
LostToChargebacks == IF dispute = "lost" THEN DisputeAmount ELSE 0
Remaining(total) == Paid - total - LostToChargebacks

(* Mutated form of FullyRefunded, not the code: promised taken for returned. *)
FullyPromised(docs, total) == Remaining(total) <= 0

FullyRefunded(docs, total) == Remaining(total) <= 0 /\ \A x \in Ids : ~ Open(docs[x])

Promised(docs) ==
    Sum([x \in Ids |-> IF docs[x].status # "none" /\ docs[x].reason # "canceled"
                       THEN docs[x].amount ELSE 0])
ReturnedBy(docs) ==
    Sum([x \in Ids |-> IF docs[x].status = "succeeded" THEN docs[x].amount ELSE 0])

(* An open record that was never accepted and no longer fits beside what    *)
(* the provider holds: kept unsent for staff.                               *)
ExceedsRemaining(docs, r) ==
    /\ Open(docs[r]) /\ ~ MayHaveMoved(docs[r])
    /\ Sum([x \in Ids |-> IF x = r \/ MayHaveMoved(docs[x]) THEN docs[x].amount ELSE 0])
          + ReturnedBy(copies) > Paid

(* Mutated form of MayBeSettledByHand, not the code: no answer taken for a refusal. *)
MayBeSettledUnclear(r) ==
    IF manual THEN records[r].status = "pending" ELSE records[r].status = "failed"

MayBeSettledByHand(r) ==
    LET d == records[r] IN
    CASE manual -> d.status = "pending"
      [] ~ manual /\ d.reason = "disputed" -> LostToChargebacks >= d.amount
      [] ~ manual /\ d.reason # "disputed" ->
            \/ ExceedsRemaining(records, r)
            \/ d.status = "failed" /\ (d.reversed \/ d.reason \in {"declined", "removed", "funds"})

MayBeCanceled(r) ==
    /\ ~ records[r].reversed
    /\ \/ MayBeSettledByHand(r)
       \/ records[r].reason = "disputed" /\ dispute \in {"won", "lost"}

(* Mutated form of Claimable, not the code: an attempt nobody finishes is never taken over. *)
ClaimableOnce(d) ==
    \/ d.status = "failed" /\ d.reason \notin Final \cup {"canceled"} /\ ~ d.reversed /\ ~ d.waiting
    \/ d.status = "pending" /\ ~ d.ref /\ d.attempt = NoOne

Claimable(d) ==
    \/ d.status = "failed" /\ d.reason \notin Final \cup {"canceled"} /\ ~ d.reversed /\ ~ d.waiting
    \/ d.status = "pending" /\ ~ d.ref /\ (d.attempt = NoOne \/ d.old)

-----------------------------------------------------------------------------
Init ==
    /\ manual \in BOOLEAN
    /\ refunded = 0
    /\ records = [x \in Ids |-> NoRecord]
    /\ copies = [x \in Ids |-> NoRecord]
    /\ dispute = "none"
    /\ stamp = "none"
    /\ call = [w \in Workers |-> Idle]
    /\ psp = [x \in Ids |-> [status |-> "none", amount |-> 0]]
    /\ bank = "none"
    /\ given = 0
    /\ faults = 0

Does(w, work) == call' = [call EXCEPT ![w] = work]
Rests(w) == Does(w, Idle)
Fault == faults < MaxFaults /\ faults' = faults + 1

-----------------------------------------------------------------------------
(* Opening a record: performRefund, openRefund. *)

Reading(amount, all) ==
    [Idle EXCEPT !.pc = "opening", !.amount = amount, !.all = all, !.seen = refunded]

(* An operator asks for an amount; refused while a chargeback is open. *)
BeginRefund(w, amount) ==
    /\ w \in Staff /\ call[w].pc = "idle"
    /\ ~ OpenChargeback
    /\ amount <= Remaining(refunded)
    /\ Does(w, Reading(amount, FALSE))
    /\ UNCHANGED <<manual, doc, dispute, outer, faults>>

(* The listener of a cancelled order asks for everything left. *)
BeginCancellationRefund(w) ==
    /\ w \in Sweeps /\ call[w].pc = "idle"
    /\ Remaining(refunded) > 0
    /\ Does(w, Reading(Remaining(refunded), TRUE))
    /\ UNCHANGED <<manual, doc, dispute, outer, faults>>

Opened(amount, by) == [NoRecord EXCEPT !.status = "pending", !.amount = amount, !.attempt = by]

(* What sendToProvider refuses before it asks anyone: all of it while a     *)
(* chargeback is open, else all of it where the adapter is not registered   *)
(* (one process of the deployment may have it when another has not).        *)
Refusals == IF OpenChargeback THEN {"disputed"} ELSE {"none", "removed"}

(* attemptRefund on the document as the write left it: hand-paid money and   *)
(* a record that does not fit wait for a person, a refused one fails.       *)
Attempt(docs, r, refusal) ==
    IF manual \/ ExceedsRemaining(docs, r) THEN Idle
    ELSE [Idle EXCEPT !.rec = r,
                      !.pc = IF refusal = "none" THEN "sending" ELSE "failing",
                      !.reason = refusal]

(* Mutated form of StillAsRead, not the code: the total is not compared. *)
StillAsReadBlindly(w) == TRUE

(* The conditional write's filter on amountRefunded. *)
StillAsRead(w) == refunded = call[w].seen

OpenRefund(w, r) ==
    /\ call[w].pc = "opening" /\ r \in Own /\ records[r].status = "none"
    /\ StillAsRead(w)
    /\ refunded' = call[w].seen + call[w].amount
    /\ records' = [records EXCEPT ![r] = Opened(call[w].amount, w)]
    /\ \E refusal \in Refusals : Does(w, Attempt(records', r, refusal))
    /\ UNCHANGED <<manual, copies, dispute, stamp, outer, faults>>

(* Somebody else moved the total: read again, ask for what is left or stop. *)
OpenMissed(w) ==
    /\ call[w].pc = "opening"
    /\ ~ StillAsRead(w)
    /\ LET left == Remaining(refunded)
           amount == IF call[w].all THEN left ELSE call[w].amount
       IN IF amount > 0 /\ amount <= left THEN Does(w, Reading(amount, call[w].all)) ELSE Rests(w)
    /\ UNCHANGED <<manual, doc, dispute, outer, faults>>

(* The bound on records is reached. *)
OutOfRecords(w) ==
    /\ call[w].pc = "opening" /\ \A r \in Own : records[r].status # "none"
    /\ Rests(w)
    /\ UNCHANGED <<manual, doc, dispute, outer, faults>>

(* Inside the transaction of a return, or of a payment that came too late:  *)
(* capped at what is left, sent after the commit through a claim.           *)
OpenReturnRefund(r, amount) ==
    LET capped == IF amount < Remaining(refunded) THEN amount ELSE Remaining(refunded) IN
    /\ r \in Own /\ records[r].status = "none"
    /\ capped > 0
    /\ refunded' = refunded + capped
    /\ records' = [records EXCEPT ![r] = Opened(capped, NoOne)]
    /\ UNCHANGED <<manual, copies, dispute, stamp, call, outer, faults>>

-----------------------------------------------------------------------------
(* Sending a record that is open: settleOpenRefunds, the sweep, the retry. *)

StartAttempt(w, r) ==
    /\ w \in Sweeps /\ call[w].pc = "idle"
    /\ ~ manual /\ Open(records[r])
    /\ ~ (records[r].ref /\ records[r].status = "pending")
    /\ ~ ExceedsRemaining(records, r)
    /\ Does(w, [Idle EXCEPT !.pc = "claiming", !.rec = r])
    /\ UNCHANGED <<manual, doc, dispute, outer, faults>>

(* The claimed record that is refused so fails for good and nobody is asked, *)
(* not even whether an attempt before this one went through: a departure    *)
(* from the documented behaviour where one did.                             *)
Unasked(r, refusal) == refusal # "none" /\ psp[r].status \in {"pending", "succeeded"}
Departure(refusal) == IF refusal = "disputed" THEN "disputed unasked" ELSE "removed unasked"

Claim(w) ==
    LET r == call[w].rec IN
    /\ call[w].pc = "claiming"
    /\ \/ /\ Claimable(records[r])
          /\ records' = [records EXCEPT ![r].status = "pending", ![r].attempt = w,
                                        ![r].old = FALSE, ![r].waiting = FALSE]
          /\ \E refusal \in Refusals :
                /\ Unasked(r, refusal) => Departure(refusal) \in Divergences
                /\ Does(w, Attempt(records', r, refusal))
       \/ ~ Claimable(records[r]) /\ Rests(w) /\ UNCHANGED records
    /\ UNCHANGED <<manual, refunded, copies, dispute, stamp, outer, faults>>

(* The provider, external.  One refund per record's key, however often it   *)
(* is asked; never more than it holds; none while the bank disputes.        *)
Capacity ==
    Paid - (IF bank \in {"open", "lost"} THEN DisputeAmount ELSE 0)
         - Sum([x \in Ids |-> IF psp[x].status \in {"pending", "succeeded"} THEN psp[x].amount ELSE 0])

Answer(w, pc, reason) == Does(w, [call[w] EXCEPT !.pc = pc, !.reason = reason])
StepFor(status) == CASE status = "pending" -> "attaching"
                     [] status = "succeeded" -> "settling"
                     [] OTHER -> "failing"

AskProvider(w) ==
    LET r == call[w].rec
        amount == records[r].amount
    IN
    /\ call[w].pc = "sending"
    /\ \/ /\ psp[r].status # "none"
          /\ Answer(w, StepFor(psp[r].status),
                    IF psp[r].status = "failed" THEN "declined" ELSE "none")
          /\ UNCHANGED psp
       \/ /\ psp[r].status = "none" /\ bank # "open" /\ amount <= Capacity
          /\ \E s \in {"pending", "succeeded"} :
                /\ psp' = [psp EXCEPT ![r] = [status |-> s, amount |-> amount]]
                /\ Answer(w, StepFor(s), "none")
       \/ /\ psp[r].status = "none"
          /\ \E reason \in {"declined", "funds", "disputed"} :
                /\ bank = "open" <=> reason = "disputed"
                /\ Answer(w, "failing", reason)
          /\ UNCHANGED psp
    /\ UNCHANGED <<manual, doc, dispute, bank, given, faults>>

(* No answer: the refund was made, or it was not. *)
ProviderSilent(w) ==
    LET r == call[w].rec IN
    /\ call[w].pc = "sending"
    /\ Fault
    /\ Answer(w, "failing", "unclear")
    /\ \/ UNCHANGED psp
       \/ /\ psp[r].status = "none" /\ bank # "open" /\ records[r].amount <= Capacity
          /\ psp' = [psp EXCEPT ![r] = [status |-> "succeeded", amount |-> records[r].amount]]
    /\ UNCHANGED <<manual, doc, dispute, bank, given>>

-----------------------------------------------------------------------------
(* Recording the answer: each write lands only on the record as expected. *)

Stamped(docs) == IF FullyRefunded(docs, refunded) THEN "refunded" ELSE "partial"

Settled(d, ref) == [d EXCEPT !.status = "succeeded", !.ref = @ \/ ref, !.reason = "none",
                             !.waiting = FALSE]
SettleRecord(r, ref) ==
    /\ records' = [records EXCEPT ![r] = Settled(@, ref)]
    /\ stamp' = Stamped(records')

(* Mutated form of Attempting, not the code: an answer without its fence token. *)
AttemptingUnfenced(w) == records[call[w].rec].status = "pending"

(* The record is still the attempt of w. *)
Attempting(w) ==
    records[call[w].rec].status = "pending" /\ records[call[w].rec].attempt = w

SettleAttempt(w) ==
    LET r == call[w].rec IN
    /\ call[w].pc = "settling"
    /\ IF Attempting(w) /\ ~ records[r].reversed
       THEN SettleRecord(r, TRUE) ELSE UNCHANGED <<records, stamp>>
    /\ Rests(w)
    /\ UNCHANGED <<manual, refunded, copies, dispute, outer, faults>>

(* Accepted and not settled: the provider's id is kept, the record waits. *)
KeepPending(w) ==
    LET r == call[w].rec IN
    /\ call[w].pc = "attaching"
    /\ records' = IF Attempting(w) /\ ~ records[r].reversed
                  THEN [records EXCEPT ![r].ref = TRUE] ELSE records
    /\ Rests(w)
    /\ UNCHANGED <<manual, refunded, copies, dispute, stamp, outer, faults>>

Failed(d, reason) == [d EXCEPT !.status = "failed", !.reason = reason,
                               !.waiting = reason \notin Final]

RecordRefundFailure(w) ==
    LET r == call[w].rec IN
    /\ call[w].pc = "failing"
    /\ records' = IF Attempting(w)
                  THEN [records EXCEPT ![r] = Failed(@, call[w].reason)] ELSE records
    /\ Rests(w)
    /\ UNCHANGED <<manual, refunded, copies, dispute, stamp, outer, faults>>

-----------------------------------------------------------------------------
(* Asking how a refund stands: the sweep's re-read, and the webhook's list. *)

(* What the caller makes of the record it read. *)
KnownAs(d) == CASE d.status = "none" -> "none"
                [] d.status # "none" /\ Open(d) /\ ~ d.reversed -> "pending"
                [] d.status = "succeeded" -> "succeeded"
                [] OTHER -> "failed"

BeginAsking(w, x) ==
    /\ w \in Sweeps /\ call[w].pc = "idle" /\ ~ manual
    /\ Does(w, [Idle EXCEPT !.pc = "asking", !.rec = x, !.seen = refunded,
                            !.read = records[x]])
    /\ UNCHANGED <<manual, doc, dispute, outer, faults>>

(* applyRefundDelivery: a delivery names some refund of this payment.  The   *)
(* payment is read first, then the provider's refunds are listed and looked *)
(* up in what was read: x may have been opened, or made, in between.        *)
SyncRefund(w, x) == (\E y \in Ids : psp[y].status # "none") /\ BeginAsking(w, x)

(* rereadRefund: the sweep, for one the provider accepted a while ago. *)
RereadRefund(w, r) ==
    /\ records[r].status = "pending" /\ records[r].ref /\ ~ records[r].reversed /\ records[r].old
    /\ BeginAsking(w, r)

(* The provider says how it stands (or does not, or its adapter is gone);   *)
(* what was read decides what is written.                                   *)
HearState(w) ==
    LET known == KnownAs(call[w].read)
        says == psp[call[w].rec].status
    IN
    /\ call[w].pc = "asking"
    /\ \/ /\ \/ says = "succeeded" /\ known \in {"pending", "none"}
             \/ says = "failed" /\ known \in {"pending", "succeeded"}
          /\ Does(w, [call[w] EXCEPT !.pc = "applying",
                                     !.reason = IF says = "failed" THEN "declined" ELSE "none"])
       \/ Rests(w)
    /\ UNCHANGED <<manual, doc, dispute, outer, faults>>

(* applyRefundState, a success: settles whatever is still open by then. *)
ApplySuccess(w) ==
    LET r == call[w].rec IN
    /\ call[w].pc = "applying" /\ call[w].reason = "none" /\ KnownAs(call[w].read) = "pending"
    /\ IF records[r].status \in {"pending", "failed"} /\ ~ records[r].reversed
       THEN SettleRecord(r, TRUE) ELSE UNCHANGED <<records, stamp>>
    /\ Rests(w)
    /\ UNCHANGED <<manual, refunded, copies, dispute, outer, faults>>

Reversed(d, reason) == [d EXCEPT !.status = "failed", !.reason = reason, !.reversed = TRUE,
                                 !.waiting = FALSE]

(* A failure: an open record fails for good, a settled one is owed again,   *)
(* even one an operator paid by hand after that very failure.               *)
ApplyFailure(w) ==
    LET r == call[w].rec
        wasSettled == call[w].read.status = "succeeded"
        from == IF wasSettled THEN {"succeeded"} ELSE {"pending", "failed"}
        docs == [records EXCEPT ![r] = Reversed(@, call[w].reason)]
        hit == records[r].status \in from /\ ~ records[r].reversed /\ records[r].reason # "canceled"
    IN
    /\ call[w].pc = "applying" /\ call[w].reason # "none"
    /\ hit /\ wasSettled /\ "hand undone" \notin Divergences => records[r].ref
    /\ records' = IF hit THEN docs ELSE records
    /\ stamp' = IF ~ (hit /\ wasSettled) THEN stamp
                ELSE IF \E x \in Ids : "succeeded" \in {docs[x].status, copies[x].status}
                     THEN "partial" ELSE "none"
    /\ Rests(w)
    /\ UNCHANGED <<manual, refunded, copies, dispute, outer, faults>>

(* importRefund: one that was unknown when the payment was read.  Read again *)
(* on a miss, a few times; what is compared is the total and the provider's *)
(* id on the records, so a refund of ours that went out since the read and  *)
(* whose answer is not recorded yet is imported beside its own record.      *)
ImportRefund(w) ==
    LET x == call[w].rec
        known == records[x].ref \/ copies[x].ref
        imported == Settled([NoRecord EXCEPT !.amount = psp[x].amount], TRUE)
        total == refunded + psp[x].amount
    IN
    /\ call[w].pc = "applying" /\ call[w].reason = "none" /\ KnownAs(call[w].read) = "none"
    /\ \/ /\ StillAsRead(w) /\ ~ known
          /\ IF records[x].status = "none"
             THEN records' = [records EXCEPT ![x] = imported] /\ UNCHANGED copies
             ELSE /\ "imported twice" \in Divergences
                  /\ copies' = [copies EXCEPT ![x] = imported] /\ UNCHANGED records
          /\ refunded' = total
          /\ stamp' = IF FullyRefunded(records', total) THEN "refunded" ELSE "partial"
          /\ Rests(w)
       \/ /\ ~ StillAsRead(w) \/ known
          /\ Rests(w) \/ (~ known /\ Does(w, [call[w] EXCEPT !.seen = refunded]))
          /\ UNCHANGED doc
    /\ UNCHANGED <<manual, dispute, outer, faults>>

-----------------------------------------------------------------------------
(* Operators: money returned outside the application, records voided. *)

ReadForHand(w, r) ==
    /\ w \in Staff /\ call[w].pc = "idle"
    /\ Open(records[r]) /\ MayBeSettledByHand(r)
    /\ Does(w, [Idle EXCEPT !.pc = "handing", !.rec = r, !.read = records[r]])
    /\ UNCHANGED <<manual, doc, dispute, outer, faults>>

(* The operator's writes compare the status that was read (and, to cancel,  *)
(* the refusal and the total), so they may land on a record that another    *)
(* attempt moved since, or that somebody is at work on.                     *)
Undisturbed(w) ==
    LET d == records[call[w].rec]
        read == call[w].read
    IN
    /\ <<d.reason, d.ref, d.attempt>> = <<read.reason, read.ref, read.attempt>>
    /\ \A v \in Workers \ {w} : call[v].rec # call[w].rec

(* The operator hands the money over, unless the bank already has. *)
SettleRefundByHand(w) ==
    LET r == call[w].rec
        hit == records[r].status = call[w].read.status
    IN
    /\ call[w].pc = "handing"
    /\ hit /\ "stale hand" \notin Divergences => Undisturbed(w)
    /\ IF hit
       THEN /\ SettleRecord(r, FALSE)
            /\ given' = IF records[r].reason = "disputed" THEN given ELSE given + records[r].amount
       ELSE UNCHANGED <<records, stamp, given>>
    /\ Rests(w)
    /\ UNCHANGED <<manual, refunded, copies, dispute, psp, bank, faults>>

ReadForCancel(w, r) ==
    /\ w \in Staff /\ call[w].pc = "idle"
    /\ Open(records[r]) /\ MayBeCanceled(r)
    /\ Does(w, [Idle EXCEPT !.pc = "canceling", !.rec = r, !.seen = refunded,
                            !.read = records[r]])
    /\ UNCHANGED <<manual, doc, dispute, outer, faults>>

(* Mutated form of CancelRefund, not the code: a share that is not released. *)
CancelKeepingShare(w) ==
    LET r == call[w].rec IN
    /\ call[w].pc = "canceling"
    /\ records' = [records EXCEPT ![r].status = "failed", ![r].reason = "canceled"]
    /\ Rests(w)
    /\ UNCHANGED <<manual, refunded, copies, dispute, stamp, outer, faults>>

CancelRefund(w) ==
    LET r == call[w].rec
        hit == /\ StillAsRead(w)
               /\ records[r].status = call[w].read.status /\ records[r].reason = call[w].read.reason
    IN
    /\ call[w].pc = "canceling"
    /\ hit /\ "stale hand" \notin Divergences => Undisturbed(w)
    /\ IF hit
       THEN /\ refunded' = refunded - records[r].amount
            /\ records' = [records EXCEPT ![r].status = "failed", ![r].reason = "canceled",
                                          ![r].waiting = FALSE]
       ELSE UNCHANGED <<refunded, records>>
    /\ Rests(w)
    /\ UNCHANGED <<manual, copies, dispute, stamp, outer, faults>>

-----------------------------------------------------------------------------
(* Webhooks of disputes, in any order; only newer news is stored. *)
DeliverDispute(news) ==
    /\ ~ manual
    /\ \/ news = "open" /\ bank # "none" /\ dispute = "none"
       \/ news \in {"won", "lost"} /\ bank = news /\ dispute \in {"none", "open"}
    /\ dispute' = news
    /\ UNCHANGED <<manual, doc, call, outer, faults>>

(* The provider and the bank on their own. *)
ProviderDecides(x) ==
    /\ psp[x].status = "pending"
    /\ \E s \in {"succeeded", "failed"} : psp' = [psp EXCEPT ![x].status = s]
    /\ UNCHANGED <<manual, doc, dispute, call, bank, given, faults>>

BankSendsBack(x) ==
    /\ psp[x].status = "succeeded" /\ Fault
    /\ psp' = [psp EXCEPT ![x].status = "failed"]
    /\ UNCHANGED <<manual, doc, dispute, call, bank, given>>

DashboardRefund(x, amount) ==
    /\ ~ manual /\ x \in Outside /\ psp[x].status = "none"
    /\ bank # "open" /\ amount <= Capacity
    /\ Fault
    /\ psp' = [psp EXCEPT ![x] = [status |-> "succeeded", amount |-> amount]]
    /\ UNCHANGED <<manual, doc, dispute, call, bank, given>>

BankMoves(state) ==
    /\ ~ manual /\ DisputeAmount > 0
    /\ \/ bank = "none" /\ state = "open" /\ Fault
       \/ bank = "open" /\ state \in {"won", "lost"} /\ UNCHANGED faults
    /\ bank' = state
    /\ UNCHANGED <<manual, doc, dispute, call, psp, given>>

(* Clocks.  An adapter's request times out well before its attempt is old;  *)
(* a process that outlives its attempt otherwise has stalled.               *)
AttemptAges(r) ==
    LET running == {w \in Workers :
                       /\ w = records[r].attempt /\ call[w].rec = r
                       /\ call[w].pc \in {"sending", "settling", "attaching", "failing"}}
    IN
    /\ records[r].status = "pending" /\ records[r].attempt # NoOne /\ ~ records[r].old
    /\ \A w \in running : call[w].pc # "sending"
    /\ IF running = {} THEN UNCHANGED faults ELSE Fault
    /\ records' = [records EXCEPT ![r].old = TRUE]
    /\ UNCHANGED <<manual, refunded, copies, dispute, stamp, call, outer>>

RetryDelayEnds(r) ==
    /\ records[r].waiting
    /\ records' = [records EXCEPT ![r].waiting = FALSE]
    /\ UNCHANGED <<manual, refunded, copies, dispute, stamp, call, outer, faults>>

Crash(w) ==
    /\ call[w].pc # "idle"
    /\ Fault
    /\ Rests(w)
    /\ UNCHANGED <<manual, doc, dispute, outer>>

-----------------------------------------------------------------------------
WriteStep(w) ==
    \/ \E r \in Own : OpenRefund(w, r)
    \/ OpenMissed(w) \/ OutOfRecords(w) \/ Claim(w) \/ AskProvider(w)
    \/ SettleAttempt(w) \/ KeepPending(w) \/ RecordRefundFailure(w)
    \/ HearState(w) \/ ApplySuccess(w) \/ ApplyFailure(w) \/ ImportRefund(w)
    \/ SettleRefundByHand(w) \/ CancelRefund(w)

SweepVisits(r) == \E w \in Sweeps : StartAttempt(w, r) \/ RereadRefund(w, r)

Next ==
    \/ \E w \in Workers : WriteStep(w) \/ ProviderSilent(w) \/ Crash(w)
    \/ \E w \in Staff, amount \in Amounts : BeginRefund(w, amount)
    \/ \E w \in Sweeps : BeginCancellationRefund(w)
    \/ \E r \in Own, amount \in Amounts : OpenReturnRefund(r, amount)
    \/ \E w \in Sweeps, x \in Ids : SyncRefund(w, x)
    \/ \E w \in Staff, r \in Own : ReadForHand(w, r) \/ ReadForCancel(w, r)
    \/ \E r \in Own : SweepVisits(r)
    \/ \E x \in Ids : ProviderDecides(x) \/ BankSendsBack(x) \/ AttemptAges(x) \/ RetryDelayEnds(x)
    \/ \E x \in Outside, amount \in Amounts : DashboardRefund(x, amount)
    \/ \E s \in {"open", "won", "lost"} : DeliverDispute(s) \/ BankMoves(s)

Spec == Init /\ [][Next]_vars

-----------------------------------------------------------------------------
(* Properties. *)

(* Every record and every worker has its shape. *)
TypeOK ==
    /\ manual \in BOOLEAN
    /\ refunded \in Nat
    /\ records \in [Ids -> Record] /\ copies \in [Ids -> Record]
    /\ dispute \in {"none", "open", "won", "lost"} /\ bank \in {"none", "open", "won", "lost"}
    /\ stamp \in {"none", "partial", "refunded"}
    /\ call \in [Workers -> Work]
    /\ psp \in [Ids -> [status : Statuses, amount : Nat]]
    /\ given \in Nat
    /\ faults \in 0 .. MaxFaults

(* amountRefunded is always exactly what the records that are not voided    *)
(* name, however requests, imports and cancels of one payment interleave    *)
(* (addRefund, importRefund and cancelRefund all compare it).               *)
TotalIsWhatRecordsName == refunded = Promised(records) + Promised(copies)

(* What the buyer has in hand. *)
Received ==
    given + Sum([x \in Ids |-> IF psp[x].status = "succeeded" THEN psp[x].amount ELSE 0])

(* The buyer never gets back more than was paid, as long as nobody refunds  *)
(* behind the application's back: not by two requests at once, a retry of   *)
(* a refund that had gone through, a late answer, a refund the bank sends   *)
(* back, or an operator paying by hand.                                     *)
NeverOverPaid == (\A x \in Outside : psp[x].status = "none") => Received <= Paid

(* A record that is settled and was not paid by hand is money that left the *)
(* provider (and can only have come back since): nothing is announced, and  *)
(* no credit note issued, for a refund that was merely asked for.           *)
SettledMeansReturned ==
    \A x \in Ids : \A d \in {records[x], copies[x]} :
        d.status = "succeeded" /\ d.ref => psp[x].status \in {"succeeded", "failed"}
                                          /\ psp[x].amount = d.amount

(* The order's payment stamp agrees with the records: none without a        *)
(* settled record, and, unless a lost chargeback took the rest, never       *)
(* `refunded` while a record is still owed.                                 *)
StampAgrees ==
    /\ stamp = "none" <=> \A x \in Ids : "succeeded" \notin {records[x].status, copies[x].status}
    /\ stamp = "refunded" /\ dispute # "lost" => \A x \in Ids : ~ Open(records[x])

(* A voided record is closed for good: never sent, never settled. *)
CanceledStaysClosed ==
    [][\A x \in Ids : records[x].reason = "canceled" => records'[x] = records[x]]_vars

(* The records implement the ledger of promises: see RefundLedger. *)
Ledger == INSTANCE RefundLedger WITH promised <- refunded,
                                     returned <- ReturnedBy(records) + ReturnedBy(copies)
ImplementsLedger == Ledger!Spec

-----------------------------------------------------------------------------
(* Liveness.  The sweep runs every few minutes and visits every record that *)
(* is due; calls end in an answer or a timeout; clocks move on.             *)
FairSpec ==
    /\ Spec
    /\ \A w \in Workers : WF_vars(WriteStep(w))
    /\ \A r \in Own : SF_vars(SweepVisits(r))
    /\ \A x \in Ids : WF_vars(AttemptAges(x)) /\ WF_vars(RetryDelayEnds(x))

(* Nobody has to act again, or only a person can. *)
Ended(r) ==
    \/ manual \/ ~ Open(records[r]) \/ records[r].reversed
    \/ records[r].status = "failed" /\ records[r].reason \in Final
    \/ ExceedsRemaining(records, r)
AskedAbout(r) == \E w \in Workers : call[w].rec = r /\ call[w].pc \in {"sending", "asking"}

(* No open refund is ever forgotten: until it ends, the provider is asked   *)
(* about it again and again, whoever crashed holding it.                    *)
NeverForgotten == \A r \in Own : []<>(Ended(r) \/ AskedAbout(r))

=============================================================================
