------------------------- MODULE RefundMoneyProofs -------------------------
(***************************************************************************)
(* Refunds: the records against the money.  A settled record is money that *)
(* left the provider, and nobody is paid back more than was paid.          *)
(***************************************************************************)
EXTENDS RefundsProofs

-----------------------------------------------------------------------------
(* The strengthening for settled records. *)

Running == {"sending", "settling", "attaching", "failing"}

(* One record against the refund the provider has under its key. *)
RecordTrue(x) ==
    LET d == records[x]
        s == psp[x].status
    IN
    /\ s # "none" /\ x \in Own => d.status # "none"
    /\ d.status # "none" /\ x \in Outside => s # "none"
    /\ s # "none" /\ d.status # "none" => psp[x].amount = d.amount
    /\ d.status = "none" => ~ d.ref /\ ~ d.reversed
    /\ d.status = "pending" => ~ d.reversed
    /\ d.status = "failed" /\ d.ref => d.reversed
    /\ d.status = "succeeded" /\ d.ref => s \in Reached
    /\ d.reversed => s = "failed"
    /\ d.reason = "canceled" => ~ d.ref
    /\ d.reason \in Final => d.status = "failed"
    /\ manual => s = "none" /\ ~ d.ref

(* What a worker is about to write against the record as it stands. *)
WorkTrue(w) ==
    /\ manual => call[w].pc \in {"idle", "opening", "handing", "canceling"}
    /\ call[w].pc \in Running /\ Attempting(w) => ~ records[call[w].rec].ref
    /\ call[w].pc = "handing" /\ call[w].read.ref => call[w].read.status = "failed"
    /\ call[w].pc = "canceling" => ~ call[w].read.ref

AllTrue == (\A x \in Ids : RecordTrue(x)) /\ \A w \in Workers : WorkTrue(w)

(* A second record of a refund tells the truth about it too. *)
CopiesTrue == \A x \in Ids :
    copies[x].status = "succeeded" => psp[x].status \in Reached /\ psp[x].amount = copies[x].amount

-----------------------------------------------------------------------------
(* What each action writes. *)

(* The one record a step may write, field by field. *)
Keeps(r, fields) == \A f \in fields : records'[r][f] = records[r][f]
Same == UNCHANGED <<records, psp, manual>>

OpenWrites(r, by) ==
    /\ records[r].status = "none"
    /\ records'[r].status = "pending" /\ records'[r].reason = "none"
    /\ ~ records'[r].ref /\ ~ records'[r].reversed
    /\ records'[r].attempt = by /\ ~ records'[r].old
    /\ OnlyRecord(r) /\ UNCHANGED <<psp, manual, given>>

LEMMA OpenedWrites ==
    ASSUME Booked, NEW r \in Ids, NEW by \in Workers \cup {NoOne}, NEW amount \in Nat, records[r].status = "none",
           records' = [records EXCEPT ![r] = Opened(amount, by)], UNCHANGED <<copies, psp, manual, given>>
    PROVE  OpenWrites(r, by)
<1> DEFINE d == Opened(amount, by)
<1>1. records \in [Ids -> Record] /\ records' = [records EXCEPT ![r] = d]
  BY DEF Booked, TypeOK
<1>2. d \in Record /\ d.status = "pending" /\ d.reason = "none" /\ ~ d.ref /\ ~ d.reversed
      /\ d.attempt = by /\ ~ d.old
  BY OpenedType
<1> HIDE DEF d
<1> QED BY <1>1, <1>2 DEF OpenWrites, OnlyRecord

LEMMA OpenRefundWrites ==
    ASSUME Booked, NEW w \in Workers, NEW r \in Own, OpenRefund(w, r)
    PROVE  OpenWrites(r, w) /\ \E refusal \in Refusals : Does(w, Attempt(records', r, refusal))
<1>1. r \in Ids /\ w \in Workers \cup {NoOne} /\ call[w].amount \in Nat
  BY DEF Ids, Booked, TypeOK, Work
<1>2. /\ records[r].status = "none" /\ records' = [records EXCEPT ![r] = Opened(call[w].amount, w)]
      /\ UNCHANGED <<copies, psp, manual, given>> /\ \E refusal \in Refusals : Does(w, Attempt(records', r, refusal))
  BY DEF OpenRefund, outer
<1> QED BY <1>1, <1>2, OpenedWrites

LEMMA OpenReturnRefundWrites ==
    ASSUME Booked, NEW r \in Own, NEW amount \in Amounts, OpenReturnRefund(r, amount)
    PROVE  OpenWrites(r, NoOne) /\ UNCHANGED call
<1> DEFINE capped == IF amount < Remaining(refunded) THEN amount ELSE Remaining(refunded)
<1>1. r \in Ids /\ NoOne \in Workers \cup {NoOne}
  BY DEF Ids
<1>2. amount \in Nat /\ refunded \in Nat
  <2>1. Amounts \subseteq Nat \ {0}
    BY RefundsAssumption
  <2> QED BY <2>1 DEF Booked, TypeOK
<1>3. Remaining(refunded) \in Int
  BY <1>2, RemainingType
<1>4. /\ records[r].status = "none" /\ capped > 0 /\ records' = [records EXCEPT ![r] = Opened(capped, NoOne)]
      /\ UNCHANGED <<copies, psp, manual, given, call>>
  BY DEF OpenReturnRefund, outer
<1>5. capped \in Nat
  BY <1>2, <1>3, <1>4
<1> HIDE DEF capped
<1> QED BY <1>1, <1>4, <1>5, OpenedWrites

ClaimWrites(w, r) ==
    /\ Claimable(records[r])
    /\ records'[r].status = "pending" /\ records'[r].attempt = w /\ ~ records'[r].old
    /\ Keeps(r, {"amount", "reason", "ref", "reversed"})
    /\ OnlyRecord(r) /\ UNCHANGED <<psp, manual, given>>

TakenOn(w, r, refusal) ==
    /\ Unasked(r, refusal) => Departure(refusal) \in Divergences
    /\ Does(w, Attempt(records', r, refusal))

LEMMA ClaimIs ==
    ASSUME Booked, NEW w \in Workers, Claim(w)
    PROVE  /\ call[w].rec \in Ids /\ call[w].pc = "claiming"
           /\ \/ Same /\ Rests(w) /\ given' = given
              \/ /\ ClaimWrites(w, call[w].rec)
                 /\ \E refusal \in Refusals : TakenOn(w, call[w].rec, refusal)
<1> DEFINE r == call[w].rec
           d == [records[r] EXCEPT !.status = "pending", !.attempt = w, !.old = FALSE, !.waiting = FALSE]
<1>1. r \in Ids /\ call[w].pc = "claiming"
  BY DEF Booked, WorkSound, Sound, Claim
<1>2. UNCHANGED <<copies, psp, manual, given>>
  BY DEF Claim, outer
<1>3. CASE ~ Claimable(records[r])
  BY <1>1, <1>2, <1>3 DEF Claim, Same
<1>4. CASE Claimable(records[r])
  <2>1. records[r] \in Record /\ records \in [Ids -> Record]
    BY <1>1 DEF Booked, TypeOK
  <2>2. records' = [records EXCEPT ![r].status = "pending", ![r].attempt = w,
                                   ![r].old = FALSE, ![r].waiting = FALSE]
        /\ \E refusal \in Refusals : TakenOn(w, r, refusal)
    BY <1>4 DEF Claim, TakenOn
  <2>3. records' = [records EXCEPT ![r] = d]
    BY <1>1, <2>1, <2>2 DEF Record
  <2>4. d.status = "pending" /\ d.attempt = w /\ ~ d.old /\ d.amount = records[r].amount
        /\ d.reason = records[r].reason /\ d.ref = records[r].ref /\ d.reversed = records[r].reversed
    BY <2>1 DEF Record
  <2> HIDE DEF d
  <2>5. records'[r] = d /\ OnlyRecord(r)
    BY <1>1, <1>2, <2>1, <2>3 DEF OnlyRecord
  <2>6. ClaimWrites(w, r)
    BY <1>2, <1>4, <2>2, <2>4, <2>5 DEF ClaimWrites, Keeps
  <2> QED BY <1>1, <2>2, <2>6
<1> QED BY <1>3, <1>4

(* A record becomes settled. *)
SettleWrites(r, ref) ==
    /\ records'[r].status = "succeeded" /\ records'[r].reason = "none"
    /\ records'[r].ref = (records[r].ref \/ ref)
    /\ Keeps(r, {"amount", "reversed"})
    /\ OnlyRecord(r) /\ UNCHANGED <<psp, manual>>

LEMMA SettleIs ==
    ASSUME Booked, NEW r \in Ids, NEW ref \in BOOLEAN, SettleRecord(r, ref), UNCHANGED <<copies, psp, manual>>
    PROVE  SettleWrites(r, ref)
<1> DEFINE d == Settled(records[r], ref)
<1>1. records[r] \in Record /\ records \in [Ids -> Record]
  BY DEF Booked, TypeOK
<1>2. records' = [records EXCEPT ![r] = d]
  BY <1>1 DEF SettleRecord
<1>3. d.status = "succeeded" /\ d.reason = "none" /\ d.amount = records[r].amount
      /\ d.ref = (records[r].ref \/ ref) /\ d.reversed = records[r].reversed
  BY <1>1 DEF Settled, Record
<1> HIDE DEF d
<1>4. records'[r] = d /\ OnlyRecord(r)
  BY <1>1, <1>2 DEF OnlyRecord
<1> QED BY <1>3, <1>4 DEF SettleWrites, Keeps

LEMMA SettleAttemptIs ==
    ASSUME Booked, NEW w \in Workers, SettleAttempt(w)
    PROVE  /\ call[w].rec \in Ids /\ call[w].pc = "settling" /\ Rests(w) /\ given' = given
           /\ \/ Same
              \/ Attempting(w) /\ SettleWrites(call[w].rec, TRUE)
<1> DEFINE r == call[w].rec
<1>1. r \in Ids /\ call[w].pc = "settling" /\ Rests(w) /\ UNCHANGED <<copies, psp, manual, given>>
  BY DEF Booked, WorkSound, Sound, SettleAttempt, outer
<1>2. CASE Attempting(w) /\ ~ records[r].reversed
  <2>1. SettleRecord(r, TRUE)
    BY <1>2 DEF SettleAttempt
  <2> QED BY <1>1, <1>2, <2>1, SettleIs
<1>3. CASE ~ (Attempting(w) /\ ~ records[r].reversed)
  BY <1>1, <1>3 DEF SettleAttempt, Same
<1> QED BY <1>1, <1>2, <1>3

LEMMA ApplySuccessIs ==
    ASSUME Booked, NEW w \in Workers, ApplySuccess(w)
    PROVE  /\ call[w].rec \in Ids /\ call[w].pc = "applying" /\ call[w].reason = "none" /\ Rests(w)
           /\ given' = given
           /\ \/ Same
              \/ /\ records[call[w].rec].status \in {"pending", "failed"}
                 /\ SettleWrites(call[w].rec, TRUE)
<1> DEFINE r == call[w].rec
           open == records[r].status \in {"pending", "failed"} /\ ~ records[r].reversed
<1>1. r \in Ids /\ call[w].pc = "applying" /\ call[w].reason = "none" /\ Rests(w)
      /\ UNCHANGED <<copies, psp, manual, given>>
  BY DEF Booked, WorkSound, Sound, ApplySuccess, outer
<1>2. CASE open
  <2>1. SettleRecord(r, TRUE)
    BY <1>2 DEF ApplySuccess
  <2> QED BY <1>1, <1>2, <2>1, SettleIs
<1>3. CASE ~ open
  BY <1>1, <1>3 DEF ApplySuccess, Same
<1> QED BY <1>1, <1>2, <1>3

(* By hand, the record is as it was read and nobody else is at work on it.  *)
LEMMA ByHandIs ==
    ASSUME NoStaleHand, Booked, NEW w \in Workers, SettleRefundByHand(w)
    PROVE  /\ call[w].rec \in Ids /\ call[w].pc = "handing" /\ Rests(w)
           /\ \/ Same /\ given' = given
              \/ /\ Undisturbed(w) /\ records[call[w].rec].status = call[w].read.status
                 /\ records[call[w].rec].status \in {"pending", "failed"}
                 /\ SettleWrites(call[w].rec, FALSE)
                 /\ given' = IF records[call[w].rec].reason = "disputed" THEN given
                             ELSE given + records[call[w].rec].amount
<1> DEFINE r == call[w].rec
           hit == records[r].status = call[w].read.status
<1>1. r \in Ids /\ call[w].pc = "handing" /\ Rests(w) /\ UNCHANGED <<copies, psp, manual>> /\ Open(call[w].read)
  BY DEF Booked, WorkSound, Sound, SettleRefundByHand
<1>2. CASE hit
  <2>1. SettleRecord(r, FALSE) /\ Undisturbed(w)
        /\ given' = IF records[r].reason = "disputed" THEN given ELSE given + records[r].amount
    BY <1>2 DEF SettleRefundByHand, NoStaleHand
  <2>2. records[r].status \in {"pending", "failed"}
    BY <1>1, <1>2 DEF Open
  <2> QED BY <1>1, <1>2, <2>1, <2>2, SettleIs
<1>3. CASE ~ hit
  BY <1>1, <1>3 DEF SettleRefundByHand, Same
<1> QED BY <1>1, <1>2, <1>3

ImportWrites(x) ==
    /\ records[x].status = "none" /\ psp[x].status # "none"
    /\ records'[x].status = "succeeded" /\ records'[x].reason = "none"
    /\ records'[x].ref /\ ~ records'[x].reversed /\ records'[x].amount = psp[x].amount
    /\ OnlyRecord(x) /\ UNCHANGED <<psp, manual>>

LEMMA ImportIs ==
    ASSUME Books, NEW w \in Workers, ImportRefund(w)
    PROVE  /\ call[w].rec \in Ids /\ call[w].pc = "applying" /\ call[w].reason = "none"
           /\ psp[call[w].rec].status \in Reached /\ given' = given
           /\ Same \/ ImportWrites(call[w].rec)
<1> DEFINE x == call[w].rec
           d == Settled([NoRecord EXCEPT !.amount = psp[x].amount], TRUE)
<1>1. x \in Ids /\ call[w].pc = "applying" /\ call[w].reason = "none" /\ UNCHANGED <<psp, manual, given>>
  BY DEF Books, Booked, WorkSound, Sound, ImportRefund, outer
<1>2. psp[x].status \in Reached
  BY <1>1 DEF Books, HeardWell, HeardOf
<1>3. psp[x].amount \in Nat /\ records \in [Ids -> Record]
  BY <1>1 DEF Books, Booked, TypeOK
<1>4. d.status = "succeeded" /\ d.reason = "none" /\ d.amount = psp[x].amount /\ d.ref /\ ~ d.reversed
  BY <1>3, ImportedType
<1>5. \/ records[x].status = "none" /\ records' = [records EXCEPT ![x] = d] /\ UNCHANGED copies
      \/ UNCHANGED records
  BY DEF ImportRefund, doc
<1> HIDE DEF d
<1>6. CASE records[x].status = "none" /\ records' = [records EXCEPT ![x] = d] /\ UNCHANGED copies
  <2>1. records'[x] = d /\ OnlyRecord(x)
    BY <1>1, <1>3, <1>6 DEF OnlyRecord
  <2>2. psp[x].status # "none"
    BY <1>2 DEF Reached
  <2>3. ImportWrites(x)
    BY <1>1, <1>4, <1>6, <2>1, <2>2 DEF ImportWrites
  <2> QED BY <1>1, <1>2, <2>3
<1>7. CASE UNCHANGED records
  BY <1>1, <1>2, <1>7 DEF Same
<1> QED BY <1>5, <1>6, <1>7

LEMMA KeepPendingIs ==
    ASSUME Booked, NEW w \in Workers, KeepPending(w)
    PROVE  /\ call[w].rec \in Ids /\ call[w].pc = "attaching" /\ Rests(w) /\ given' = given
           /\ \/ Same
              \/ /\ Attempting(w) /\ records'[call[w].rec].ref /\ OnlyRecord(call[w].rec)
                 /\ Keeps(call[w].rec, {"status", "amount", "reason", "reversed", "attempt", "old"})
                 /\ UNCHANGED <<psp, manual>>
<1> DEFINE r == call[w].rec
<1>1. r \in Ids /\ call[w].pc = "attaching" /\ Rests(w) /\ UNCHANGED <<copies, psp, manual, given>>
  BY DEF Booked, WorkSound, Sound, KeepPending, outer
<1>2. records[r] \in Record /\ records \in [Ids -> Record]
  BY <1>1 DEF Booked, TypeOK
<1>3. CASE Attempting(w) /\ ~ records[r].reversed
  <2>1. records' = [records EXCEPT ![r].ref = TRUE]
    BY <1>3 DEF KeepPending
  <2>2. /\ records'[r].ref /\ OnlyRecord(r) /\ records'[r].status = records[r].status
        /\ records'[r].amount = records[r].amount /\ records'[r].reason = records[r].reason
        /\ records'[r].reversed = records[r].reversed /\ records'[r].attempt = records[r].attempt
        /\ records'[r].old = records[r].old
    BY <1>1, <1>2, <2>1 DEF OnlyRecord, Record
  <2> QED BY <1>1, <1>3, <2>2 DEF Keeps
<1>4. CASE ~ (Attempting(w) /\ ~ records[r].reversed)
  BY <1>1, <1>4 DEF KeepPending, Same
<1> QED BY <1>3, <1>4

FailWrites(r, reason) ==
    /\ records'[r].status = "failed" /\ records'[r].reason = reason
    /\ Keeps(r, {"amount", "ref"})
    /\ OnlyRecord(r) /\ UNCHANGED <<psp, manual, given>>

LEMMA RecordFailureIs ==
    ASSUME Booked, NEW w \in Workers, RecordRefundFailure(w)
    PROVE  /\ call[w].rec \in Ids /\ call[w].pc = "failing" /\ Rests(w)
           /\ \/ Same /\ given' = given
              \/ /\ Attempting(w) /\ FailWrites(call[w].rec, call[w].reason) /\ call[w].reason # "canceled"
                 /\ records'[call[w].rec].reversed = records[call[w].rec].reversed
<1> DEFINE r == call[w].rec
           d == Failed(records[r], call[w].reason)
<1>1. r \in Ids /\ call[w].pc = "failing" /\ Rests(w) /\ UNCHANGED <<copies, psp, manual, given>>
      /\ call[w].reason \in Reasons /\ call[w].reason # "canceled"
  BY DEF Booked, TypeOK, WorkSound, Sound, Work, RecordRefundFailure, outer
<1>2. records[r] \in Record /\ records \in [Ids -> Record]
  BY <1>1 DEF Booked, TypeOK
<1>3. CASE Attempting(w)
  <2>1. records' = [records EXCEPT ![r] = d]
    BY <1>3 DEF RecordRefundFailure
  <2>2. d.status = "failed" /\ d.reason = call[w].reason /\ d.amount = records[r].amount
        /\ d.ref = records[r].ref /\ d.reversed = records[r].reversed
    BY <1>1, <1>2, FailedType
  <2> HIDE DEF d
  <2>3. records'[r] = d /\ OnlyRecord(r)
    BY <1>1, <1>2, <2>1 DEF OnlyRecord
  <2> QED BY <1>1, <1>3, <2>2, <2>3 DEF FailWrites, Keeps
<1>4. CASE ~ Attempting(w)
  BY <1>1, <1>4 DEF RecordRefundFailure, Same
<1> QED BY <1>3, <1>4

LEMMA ApplyFailureIs ==
    ASSUME Books, NEW w \in Workers, ApplyFailure(w)
    PROVE  /\ call[w].rec \in Ids /\ call[w].pc = "applying" /\ Rests(w)
           /\ psp[call[w].rec].status = "failed"
           /\ \/ Same /\ given' = given
              \/ /\ FailWrites(call[w].rec, call[w].reason) /\ call[w].reason # "canceled"
                 /\ records'[call[w].rec].reversed
                 /\ records[call[w].rec].status # "none" /\ ~ records[call[w].rec].reversed
                 /\ records[call[w].rec].status = "succeeded" /\ "hand undone" \notin Divergences =>
                       records[call[w].rec].ref
<1> DEFINE r == call[w].rec
           d == Reversed(records[r], call[w].reason)
           docs == [records EXCEPT ![r] = d]
           wasSettled == call[w].read.status = "succeeded"
           from == IF wasSettled THEN {"succeeded"} ELSE {"pending", "failed"}
           hit == records[r].status \in from /\ ~ records[r].reversed /\ records[r].reason # "canceled"
<1>1. r \in Ids /\ call[w].pc = "applying" /\ Rests(w) /\ UNCHANGED <<copies, psp, manual, given>>
      /\ call[w].reason \in Reasons /\ call[w].reason # "canceled" /\ call[w].reason # "none"
  BY DEF Books, Booked, TypeOK, WorkSound, Sound, Work, ApplyFailure, outer
<1>2. records[r] \in Record /\ records \in [Ids -> Record]
  BY <1>1 DEF Books, Booked, TypeOK
<1>3. psp[r].status = "failed"
  BY <1>1 DEF Books, HeardWell, HeardOf
<1>4. /\ records' = IF hit THEN docs ELSE records
      /\ hit /\ wasSettled /\ "hand undone" \notin Divergences => records[r].ref
  BY DEF ApplyFailure
<1>5. CASE hit
  <2>1. records' = docs
    BY <1>4, <1>5
  <2>2. d.status = "failed" /\ d.reason = call[w].reason /\ d.amount = records[r].amount
        /\ d.ref = records[r].ref /\ d.reversed
    BY <1>1, <1>2, ReversedType
  <2>3. records[r].status # "none" /\ ~ records[r].reversed
        /\ (records[r].status = "succeeded" /\ "hand undone" \notin Divergences => records[r].ref)
    BY <1>4, <1>5
  <2> HIDE DEF d
  <2>4. records'[r] = d /\ OnlyRecord(r)
    BY <1>1, <1>2, <2>1 DEF OnlyRecord
  <2>5. FailWrites(r, call[w].reason)
    BY <1>1, <2>2, <2>4 DEF FailWrites, Keeps
  <2> HIDE DEF hit
  <2> QED BY <1>1, <1>3, <2>2, <2>3, <2>4, <2>5
<1>6. CASE ~ hit
  <2>1. UNCHANGED records
    BY <1>4, <1>6
  <2> HIDE DEF hit
  <2> QED BY <1>1, <1>3, <2>1 DEF Same
<1> QED BY <1>5, <1>6

LEMMA CancelIs ==
    ASSUME NoStaleHand, Booked, NEW w \in Workers, CancelRefund(w)
    PROVE  /\ call[w].rec \in Ids /\ call[w].pc = "canceling" /\ Rests(w)
           /\ \/ Same /\ given' = given
              \/ /\ Undisturbed(w) /\ records[call[w].rec].status = call[w].read.status
                 /\ records[call[w].rec].status \in {"pending", "failed"}
                 /\ FailWrites(call[w].rec, "canceled")
                 /\ records'[call[w].rec].reversed = records[call[w].rec].reversed
<1> DEFINE r == call[w].rec
           hit == /\ StillAsRead(w)
                  /\ records[r].status = call[w].read.status /\ records[r].reason = call[w].read.reason
<1>1. r \in Ids /\ call[w].pc = "canceling" /\ Rests(w) /\ UNCHANGED <<copies, psp, manual, given>>
      /\ Open(call[w].read)
  BY DEF Booked, WorkSound, Sound, CancelRefund, outer
<1>2. records[r] \in Record /\ records \in [Ids -> Record]
  BY <1>1 DEF Booked, TypeOK
<1>3. CASE hit
  <2>1. Undisturbed(w)
        /\ records' = [records EXCEPT ![r].status = "failed", ![r].reason = "canceled", ![r].waiting = FALSE]
    BY <1>3 DEF CancelRefund, NoStaleHand
  <2>2. records[r].status \in {"pending", "failed"}
    BY <1>1, <1>3 DEF Open
  <2>3. /\ records'[r].status = "failed" /\ records'[r].reason = "canceled"
        /\ records'[r].amount = records[r].amount /\ records'[r].ref = records[r].ref
        /\ records'[r].reversed = records[r].reversed /\ OnlyRecord(r)
    BY <1>1, <1>2, <2>1 DEF OnlyRecord, Record
  <2>4. FailWrites(r, "canceled")
    BY <1>1, <2>3 DEF FailWrites, Keeps
  <2> QED BY <1>1, <1>3, <2>1, <2>2, <2>3, <2>4
<1>4. CASE ~ hit
  <2>1. UNCHANGED records
    BY <1>4 DEF CancelRefund
  <2> QED BY <1>1, <2>1 DEF Same
<1> QED BY <1>3, <1>4

LEMMA ClockIs ==
    ASSUME Booked, NEW r \in Ids, AttemptAges(r) \/ RetryDelayEnds(r)
    PROVE  /\ Keeps(r, {"status", "amount", "reason", "ref", "reversed", "attempt"})
           /\ OnlyRecord(r) /\ UNCHANGED <<psp, manual, call, given>>
           /\ \/ records'[r].old = records[r].old
              \/ \A v \in Workers : v = records[r].attempt /\ call[v].rec = r => call[v].pc # "sending"
<1>1. records[r] \in Record /\ records \in [Ids -> Record]
  BY DEF Booked, TypeOK
<1>2. \/ records' = [records EXCEPT ![r].old = TRUE]
      \/ records' = [records EXCEPT ![r].waiting = FALSE]
  BY DEF AttemptAges, RetryDelayEnds
<1>3. UNCHANGED <<copies, psp, manual, call, given>>
  BY DEF AttemptAges, RetryDelayEnds, outer
<1>4. AttemptAges(r) => \A v \in Workers : v = records[r].attempt /\ call[v].rec = r => call[v].pc # "sending"
  BY DEF AttemptAges
<1>5. RetryDelayEnds(r) => records'[r].old = records[r].old
  BY <1>1 DEF RetryDelayEnds, Record
<1>6. /\ OnlyRecord(r) /\ records'[r].status = records[r].status
      /\ records'[r].amount = records[r].amount /\ records'[r].reason = records[r].reason
      /\ records'[r].ref = records[r].ref /\ records'[r].reversed = records[r].reversed
      /\ records'[r].attempt = records[r].attempt
  BY <1>1, <1>2, <1>3 DEF OnlyRecord, Record
<1> QED BY <1>3, <1>4, <1>5, <1>6 DEF Keeps

(* The provider takes a refund for the amount of the record. *)
Takes(w) ==
    LET r == call[w].rec IN
    /\ psp[r].status = "none" /\ psp'[r].status \in {"pending", "succeeded"}
    /\ psp'[r].amount = records[r].amount
    /\ \A y \in Ids \ {r} : psp'[y] = psp[y]

LEMMA AskIs ==
    ASSUME Booked, NEW w \in Workers, AskProvider(w) \/ ProviderSilent(w)
    PROVE  /\ call[w].rec \in Ids /\ call[w].pc = "sending" /\ records[call[w].rec].status # "none"
           /\ UNCHANGED <<records, manual, given>>
           /\ UNCHANGED psp \/ Takes(w)
<1> DEFINE r == call[w].rec
<1>1. r \in Ids /\ call[w].pc = "sending" /\ records[r].status # "none" /\ UNCHANGED <<records, manual, given>>
  BY DEF Booked, WorkSound, Sound, AskProvider, ProviderSilent, doc
<1>2. UNCHANGED psp \/ (psp[r].status = "none"
          /\ \E s \in {"pending", "succeeded"} : psp' = [psp EXCEPT ![r] = [status |-> s, amount |-> records[r].amount]])
  BY DEF AskProvider, ProviderSilent
<1>3. psp \in [Ids -> [status : Statuses, amount : Nat]]
  BY DEF Booked, TypeOK
<1> QED BY <1>1, <1>2, <1>3 DEF Takes

-----------------------------------------------------------------------------
(* Settled records are true, step by step. *)

LEMMA SameTrue ==
    ASSUME AllTrue, Same
    PROVE  \A x \in Ids : RecordTrue(x)'
BY DEF AllTrue, Same, RecordTrue

LEMMA OneTrue ==
    ASSUME AllTrue, NEW r \in Ids, OnlyRecord(r), UNCHANGED <<psp, manual>>, RecordTrue(r)'
    PROVE  \A x \in Ids : RecordTrue(x)'
<1>1. ASSUME NEW x \in Ids, x # r PROVE RecordTrue(x)'
  <2>1. RecordTrue(x) /\ records'[x] = records[x]
    BY <1>1 DEF AllTrue, OnlyRecord
  <2> QED BY <2>1 DEF RecordTrue
<1> QED BY <1>1

(* No attempt of v is taken up, and none is accepted, by somebody else. *)
AttemptKept(v) == \A x \in Ids :
    records'[x].status = "pending" /\ records'[x].attempt = v =>
        records[x].status = "pending" /\ records[x].attempt = v /\ (records'[x].ref => records[x].ref)

LEMMA KeptTrue ==
    ASSUME Booked, AllTrue, NEW v \in Workers, call'[v] = call[v], AttemptKept(v), UNCHANGED manual
    PROVE  WorkTrue(v)'
<1>1. WorkTrue(v) /\ Sound(call[v], records)
  BY DEF AllTrue, Booked, WorkSound
<1>2. call[v].pc \in Running => call[v].rec \in Ids
  BY <1>1 DEF Sound, Running
<1> QED BY <1>1, <1>2 DEF WorkTrue, Attempting, AttemptKept

LEMMA OthersTrue ==
    ASSUME Booked, AllTrue, NEW w \in Workers, Alone(w), UNCHANGED manual,
           \A v \in Workers \ {w} : AttemptKept(v), WorkTrue(w)', \A x \in Ids : RecordTrue(x)'
    PROVE  AllTrue'
<1>1. ASSUME NEW v \in Workers PROVE WorkTrue(v)'
  <2>1. CASE v = w
    BY <2>1
  <2>2. CASE v # w
    BY <2>2, KeptTrue DEF Alone
  <2> QED BY <2>1, <2>2
<1> QED BY <1>1 DEF AllTrue

LEMMA SameKept == UNCHANGED records => \A v \in Workers : AttemptKept(v)
BY DEF AttemptKept

LEMMA IdleTrue ==
    ASSUME NEW w \in Workers, call'[w].pc \in {"idle", "opening"}
    PROVE  WorkTrue(w)'
BY DEF WorkTrue, Running

LEMMA RestsTrue ==
    ASSUME Booked, AllTrue, NEW w \in Workers, Rests(w), UNCHANGED manual,
           \A v \in Workers \ {w} : AttemptKept(v), \A x \in Ids : RecordTrue(x)'
    PROVE  AllTrue'
<1>1. call'[w].pc = "idle" /\ Alone(w)
  BY RestsIs DEF Booked
<1> QED BY <1>1, IdleTrue, OthersTrue

(* Nothing written, and the worker has nothing to write. *)
LEMMA SameAll ==
    ASSUME Booked, AllTrue, NEW w \in Workers, Same, Alone(w), WorkTrue(w)'
    PROVE  AllTrue'
BY SameTrue, SameKept, OthersTrue DEF Same

LEMMA SameRests ==
    ASSUME Booked, AllTrue, NEW w \in Workers, Same, Rests(w)
    PROVE  AllTrue'
BY SameTrue, SameKept, RestsTrue DEF Same

LEMMA OpensTrue ==
    ASSUME Booked, AllTrue, NEW r \in Own, NEW by \in Workers \cup {NoOne}, OpenWrites(r, by)
    PROVE  /\ \A x \in Ids : RecordTrue(x)'
           /\ \A v \in Workers \ {by} : AttemptKept(v)
<1>1. r \in Ids /\ r \notin Outside
  BY RefundsAssumption DEF Ids
<1>2. RecordTrue(r)
  BY <1>1 DEF AllTrue
<1>3. psp[r].status = "none"
  BY <1>2 DEF RecordTrue, OpenWrites
<1>4. RecordTrue(r)'
  BY <1>1, <1>3 DEF RecordTrue, OpenWrites, Reached, Final
<1>5. \A x \in Ids : RecordTrue(x)'
  BY <1>1, <1>4, OneTrue DEF OpenWrites
<1>6. \A v \in Workers \ {by} : AttemptKept(v)
  BY DEF AttemptKept, OpenWrites, OnlyRecord
<1> QED BY <1>5, <1>6

LEMMA AttemptTrue ==
    ASSUME Booked, Papers', NEW w \in Workers, NEW r \in Ids, NEW refusal \in Refusals,
           Does(w, Attempt(records', r, refusal)),
           records'[r].status = "pending", records'[r].reason # "canceled", ~ records'[r].ref, UNCHANGED manual
    PROVE  Alone(w) /\ WorkTrue(w)'
<1>1. Attempt(records', r, refusal) \in Work
  BY AttemptSound DEF Papers
<1>2. call'[w] = Attempt(records', r, refusal) /\ Alone(w)
  BY <1>1, DoesIs DEF Booked
<1>3. call'[w].pc \in {"idle", "sending", "failing"} /\ (call'[w].pc # "idle" => call'[w].rec = r /\ ~ manual)
  BY <1>2, AttemptIs DEF Papers
<1> QED BY <1>2, <1>3 DEF WorkTrue, Running

LEMMA OpenRefundTrue ==
    ASSUME Booked, Papers', AllTrue, NEW w \in Workers, NEW r \in Own, OpenRefund(w, r)
    PROVE  AllTrue'
<1>0. PICK refusal \in Refusals : Does(w, Attempt(records', r, refusal))
  BY OpenRefundWrites
<1>1. OpenWrites(r, w) /\ r \in Ids /\ w \in Workers \cup {NoOne}
  BY OpenRefundWrites DEF Ids
<1>2. (\A x \in Ids : RecordTrue(x)') /\ \A v \in Workers \ {w} : AttemptKept(v)
  BY <1>1, OpensTrue
<1>3. Alone(w) /\ WorkTrue(w)'
  BY <1>0, <1>1, AttemptTrue DEF OpenWrites
<1> QED BY <1>1, <1>2, <1>3, OthersTrue DEF OpenWrites

LEMMA OpenReturnRefundTrue ==
    ASSUME Booked, AllTrue, NEW r \in Own, NEW amount \in Amounts, OpenReturnRefund(r, amount)
    PROVE  AllTrue'
<1>1. OpenWrites(r, NoOne) /\ UNCHANGED call
  BY OpenReturnRefundWrites
<1>2. (\A x \in Ids : RecordTrue(x)') /\ \A v \in Workers : AttemptKept(v)
  <2>1. NoOne \in Workers \cup {NoOne} /\ NoOne \notin Workers
    BY RefundsAssumption DEF Workers
  <2>2. (\A x \in Ids : RecordTrue(x)') /\ \A v \in Workers \ {NoOne} : AttemptKept(v)
    BY <1>1, <2>1, OpensTrue
  <2> QED BY <2>1, <2>2
<1>3. \A v \in Workers : WorkTrue(v)'
  BY <1>1, <1>2, KeptTrue DEF OpenWrites
<1> QED BY <1>2, <1>3 DEF AllTrue

LEMMA ClaimTrue ==
    ASSUME Booked, Papers', AllTrue, NEW w \in Workers, Claim(w)
    PROVE  AllTrue'
<1>0. PICK r \in Ids : r = call[w].rec
  BY ClaimIs
<1>1. r \in Ids /\ RecordTrue(r)
  BY <1>0, ClaimIs DEF AllTrue
<1>2. CASE Same /\ Rests(w)
  BY <1>2, SameRests
<1>3. CASE ClaimWrites(w, r) /\ \E refusal \in Refusals : TakenOn(w, r, refusal)
  <2>1. Claimable(records[r]) /\ records'[r].status = "pending" /\ records'[r].amount = records[r].amount
        /\ records'[r].reason = records[r].reason /\ records'[r].ref = records[r].ref
        /\ records'[r].reversed = records[r].reversed /\ records'[r].attempt = w
        /\ OnlyRecord(r) /\ UNCHANGED <<psp, manual>>
    BY <1>3 DEF ClaimWrites, Keeps
  <2>2. ~ records[r].ref /\ ~ records[r].reversed /\ records[r].reason \notin Final
        /\ records[r].status # "none"
    BY <1>1, <2>1 DEF Claimable, RecordTrue
  <2>3. records[r].reason # "canceled"
    BY <1>1, <2>1 DEF Claimable, Booked, CanceledIsFailed
  <2>4. RecordTrue(r)'
    BY <1>1, <2>1, <2>2, <2>3 DEF RecordTrue
  <2>5. \A x \in Ids : RecordTrue(x)'
    BY <1>1, <2>1, <2>4, OneTrue
  <2>6. \A v \in Workers \ {w} : AttemptKept(v)
    BY <2>1 DEF AttemptKept, OnlyRecord
  <2>7. Alone(w) /\ WorkTrue(w)'
    <3>1. PICK refusal \in Refusals : Does(w, Attempt(records', r, refusal))
      BY <1>3 DEF TakenOn
    <3> QED BY <1>1, <2>1, <2>2, <2>3, <3>1, AttemptTrue
  <2> QED BY <2>1, <2>5, <2>6, <2>7, OthersTrue
<1> QED BY <1>0, <1>2, <1>3, ClaimIs

(* A record that is settled leaves no attempt, and its refund is out. *)
LEMMA SettlesTrue ==
    ASSUME Booked, AllTrue, NEW w \in Workers, Rests(w), NEW r \in Ids, NEW ref \in BOOLEAN,
           SettleWrites(r, ref), records[r].status # "none",
           records[r].ref \/ ref => psp[r].status \in Reached, ref => ~ manual
    PROVE  AllTrue'
<1>1. RecordTrue(r)
  BY DEF AllTrue
<1>2. records'[r].status = "succeeded" /\ records'[r].reason = "none"
      /\ records'[r].ref = (records[r].ref \/ ref) /\ records'[r].amount = records[r].amount
      /\ records'[r].reversed = records[r].reversed /\ OnlyRecord(r) /\ UNCHANGED <<psp, manual>>
  BY DEF SettleWrites, Keeps
<1>3. RecordTrue(r)'
  BY <1>1, <1>2 DEF RecordTrue, Final
<1>4. \A v \in Workers : AttemptKept(v)
  BY <1>2 DEF AttemptKept, OnlyRecord
<1> QED BY <1>2, <1>3, <1>4, OneTrue, RestsTrue

LEMMA SettleAttemptTrue ==
    ASSUME Books, AllTrue, NEW w \in Workers, SettleAttempt(w)
    PROVE  AllTrue'
<1> DEFINE r == call[w].rec
<1>1. r \in Ids /\ call[w].pc = "settling" /\ Rests(w) /\ WorkTrue(w) /\ HeardOf(call[w], psp)
  BY SettleAttemptIs DEF Books, AllTrue, HeardWell
<1>2. psp[r].status \in Reached /\ ~ manual
  BY <1>1 DEF HeardOf, WorkTrue
<1>3. CASE Attempting(w) /\ SettleWrites(r, TRUE)
  <2>1. records[r].status # "none"
    BY <1>3 DEF Attempting
  <2> QED BY <1>1, <1>2, <1>3, <2>1, SettlesTrue DEF Books
<1> QED BY <1>1, <1>3, SettleAttemptIs, SameRests DEF Books

LEMMA ApplySuccessTrue ==
    ASSUME Books, AllTrue, NEW w \in Workers, ApplySuccess(w)
    PROVE  AllTrue'
<1> DEFINE r == call[w].rec
<1>1. r \in Ids /\ call[w].pc = "applying" /\ call[w].reason = "none" /\ Rests(w) /\ WorkTrue(w)
      /\ HeardOf(call[w], psp)
  BY ApplySuccessIs DEF Books, AllTrue, HeardWell
<1>2. psp[r].status \in Reached /\ ~ manual
  BY <1>1 DEF HeardOf, WorkTrue
<1>3. CASE records[r].status \in {"pending", "failed"} /\ SettleWrites(r, TRUE)
  BY <1>1, <1>2, <1>3, SettlesTrue DEF Books
<1> QED BY <1>1, <1>3, ApplySuccessIs, SameRests DEF Books

(* An operator settles a record the provider accepted only after it failed. *)
LEMMA SettleByHandTrue ==
    ASSUME NoStaleHand, Booked, AllTrue, NEW w \in Workers, SettleRefundByHand(w)
    PROVE  AllTrue'
<1> DEFINE r == call[w].rec
<1>1. r \in Ids /\ call[w].pc = "handing" /\ Rests(w) /\ WorkTrue(w) /\ RecordTrue(r)
  BY ByHandIs DEF AllTrue
<1>2. CASE /\ Undisturbed(w) /\ records[r].status = call[w].read.status
           /\ records[r].status \in {"pending", "failed"} /\ SettleWrites(r, FALSE)
  <2>1. records[r].ref => records[r].status = "failed"
    BY <1>1, <1>2 DEF Undisturbed, WorkTrue
  <2>2. records[r].ref => psp[r].status \in Reached
    BY <1>1, <2>1 DEF RecordTrue, Reached
  <2> QED BY <1>1, <1>2, <2>2, SettlesTrue
<1> QED BY <1>1, <1>2, ByHandIs, SameRests

LEMMA ImportRefundTrue ==
    ASSUME Books, AllTrue, NEW w \in Workers, ImportRefund(w)
    PROVE  AllTrue'
<1>0. PICK r \in Ids : r = call[w].rec
  BY ImportIs
<1>1. r \in Ids /\ call[w].pc = "applying" /\ psp[r].status \in Reached /\ WorkTrue(w) /\ RecordTrue(r)
  BY <1>0, ImportIs DEF AllTrue
<1>2. ~ manual /\ UNCHANGED manual
  BY <1>1 DEF WorkTrue, ImportRefund
<1>3. Alone(w) /\ call'[w].pc \in {"idle", "applying"}
  BY ImportsIs DEF Books
<1>4. WorkTrue(w)'
  BY <1>2, <1>3 DEF WorkTrue, Running
<1>5. CASE ImportWrites(r)
  <2>1. RecordTrue(r)'
    BY <1>1, <1>2, <1>5 DEF RecordTrue, ImportWrites, Reached, Final
  <2>2. \A v \in Workers : AttemptKept(v)
    BY <1>5 DEF AttemptKept, ImportWrites, OnlyRecord
  <2>3. \A x \in Ids : RecordTrue(x)'
    BY <1>1, <1>5, <2>1, OneTrue DEF ImportWrites
  <2> QED BY <1>2, <1>3, <1>4, <2>2, <2>3, OthersTrue DEF Books
<1>6. CASE Same
  BY <1>3, <1>4, <1>6, SameAll DEF Books
<1> QED BY <1>0, <1>5, <1>6, ImportIs

LEMMA KeepPendingTrue ==
    ASSUME Booked, AllTrue, NEW w \in Workers, KeepPending(w)
    PROVE  AllTrue'
<1>0. PICK r \in Ids : r = call[w].rec
  BY KeepPendingIs
<1>1. r \in Ids /\ call[w].pc = "attaching" /\ Rests(w) /\ WorkTrue(w) /\ RecordTrue(r)
  BY <1>0, KeepPendingIs DEF AllTrue
<1>2. CASE Same
  BY <1>1, <1>2, SameRests
<1>3. CASE ~ Same
  <2>1. /\ records[r].status = "pending" /\ records[r].attempt = w /\ records'[r].ref
        /\ records'[r].status = records[r].status /\ records'[r].amount = records[r].amount
        /\ records'[r].reason = records[r].reason /\ records'[r].reversed = records[r].reversed
        /\ records'[r].attempt = records[r].attempt
        /\ OnlyRecord(r) /\ UNCHANGED <<psp, manual>>
    BY <1>0, <1>3, KeepPendingIs DEF Keeps, Attempting
  <2>2. ~ manual
    BY <1>1 DEF WorkTrue
  <2>3. records[r].reason # "canceled"
    BY <1>1, <2>1 DEF Booked, CanceledIsFailed
  <2>4. RecordTrue(r)'
    BY <1>1, <2>1, <2>2, <2>3 DEF RecordTrue
  <2>5. \A v \in Workers \ {w} : AttemptKept(v)
    BY <2>1 DEF AttemptKept, OnlyRecord
  <2> QED BY <1>1, <2>1, <2>4, <2>5, OneTrue, RestsTrue
<1> QED BY <1>2, <1>3

(* A record fails: only one that was never accepted, unless it is reversed. *)
LEMMA FailsTrue ==
    ASSUME Booked, AllTrue, NEW w \in Workers, Rests(w), NEW r \in Ids, NEW reason \in Reasons,
           FailWrites(r, reason), records[r].status # "none",
           records[r].ref => records'[r].reversed /\ reason # "canceled",
           records'[r].reversed => psp[r].status = "failed"
    PROVE  AllTrue'
<1>1. RecordTrue(r)
  BY DEF AllTrue
<1>2. records'[r].status = "failed" /\ records'[r].reason = reason
      /\ records'[r].amount = records[r].amount /\ records'[r].ref = records[r].ref
      /\ OnlyRecord(r) /\ UNCHANGED <<psp, manual>>
  BY DEF FailWrites, Keeps
<1>3. RecordTrue(r)'
  BY <1>1, <1>2 DEF RecordTrue, Final
<1>4. \A v \in Workers : AttemptKept(v)
  BY <1>2 DEF AttemptKept, OnlyRecord
<1> QED BY <1>2, <1>3, <1>4, OneTrue, RestsTrue

LEMMA RecordFailureTrue ==
    ASSUME Booked, AllTrue, NEW w \in Workers, RecordRefundFailure(w)
    PROVE  AllTrue'
<1>0. PICK r \in Ids : r = call[w].rec
  BY RecordFailureIs
<1>1. call[w].pc = "failing" /\ Rests(w) /\ WorkTrue(w) /\ RecordTrue(r) /\ call[w].reason \in Reasons
  BY RecordFailureIs DEF AllTrue, Booked, TypeOK, Work
<1>2. CASE Same
  BY <1>1, <1>2, SameRests
<1>3. CASE ~ Same
  <2>1. Attempting(w) /\ FailWrites(r, call[w].reason) /\ records'[r].reversed = records[r].reversed
    BY <1>0, <1>3, RecordFailureIs
  <2>2. records[r].status = "pending" /\ ~ records[r].ref
    BY <1>0, <1>1, <2>1 DEF WorkTrue, Attempting, Running
  <2>3. ~ records'[r].reversed
    BY <1>1, <2>1, <2>2 DEF RecordTrue
  <2> QED BY <1>1, <2>1, <2>2, <2>3, FailsTrue
<1> QED BY <1>2, <1>3

LEMMA ApplyFailureTrue ==
    ASSUME Books, AllTrue, NEW w \in Workers, ApplyFailure(w)
    PROVE  AllTrue'
<1>0. PICK r \in Ids : r = call[w].rec
  BY ApplyFailureIs
<1>1. Rests(w) /\ psp[r].status = "failed" /\ call[w].reason \in Reasons
  BY <1>0, ApplyFailureIs DEF Books, Booked, TypeOK, Work
<1>2. CASE Same
  BY <1>1, <1>2, SameRests DEF Books
<1>3. CASE ~ Same
  <2>1. FailWrites(r, call[w].reason) /\ call[w].reason # "canceled" /\ records'[r].reversed
        /\ records[r].status # "none"
    BY <1>0, <1>3, ApplyFailureIs
  <2> QED BY <1>1, <2>1, FailsTrue DEF Books
<1> QED BY <1>2, <1>3

LEMMA CancelTrue ==
    ASSUME NoStaleHand, Booked, AllTrue, NEW w \in Workers, CancelRefund(w)
    PROVE  AllTrue'
<1>0. PICK r \in Ids : r = call[w].rec
  BY CancelIs
<1>1. Rests(w) /\ call[w].pc = "canceling" /\ WorkTrue(w) /\ RecordTrue(r) /\ "canceled" \in Reasons
  BY CancelIs DEF AllTrue, Reasons
<1>2. CASE Same
  BY <1>1, <1>2, SameRests
<1>3. CASE ~ Same
  <2>1. Undisturbed(w) /\ FailWrites(r, "canceled") /\ records[r].status \in {"pending", "failed"}
        /\ records'[r].reversed = records[r].reversed
    BY <1>0, <1>3, CancelIs
  <2>2. ~ records[r].ref
    BY <1>0, <1>1, <2>1 DEF WorkTrue, Undisturbed
  <2>3. records'[r].reversed => psp[r].status = "failed"
    BY <1>1, <2>1 DEF RecordTrue
  <2> QED BY <1>1, <2>1, <2>2, <2>3, FailsTrue
<1> QED BY <1>2, <1>3

LEMMA ClockTrue ==
    ASSUME Booked, AllTrue, NEW r \in Ids, AttemptAges(r) \/ RetryDelayEnds(r)
    PROVE  AllTrue'
<1>1. /\ records'[r].status = records[r].status /\ records'[r].amount = records[r].amount
      /\ records'[r].reason = records[r].reason /\ records'[r].ref = records[r].ref
      /\ records'[r].reversed = records[r].reversed /\ records'[r].attempt = records[r].attempt
      /\ OnlyRecord(r) /\ UNCHANGED <<psp, manual, call>>
  BY ClockIs DEF Keeps
<1>2. RecordTrue(r)
  BY DEF AllTrue
<1>3. RecordTrue(r)'
  BY <1>1, <1>2 DEF RecordTrue
<1>4. \A x \in Ids : RecordTrue(x)'
  BY <1>1, <1>3, OneTrue
<1>5. \A v \in Workers : AttemptKept(v)
  BY <1>1 DEF AttemptKept, OnlyRecord
<1>6. \A v \in Workers : WorkTrue(v)'
  BY <1>1, <1>5, KeptTrue
<1> QED BY <1>4, <1>6 DEF AllTrue

(* The provider's side moves and the records do not. *)
Beside(x) ==
    LET d == psp'[x] IN
    /\ d.status # "none" => ~ manual /\ (x \in Own => records[x].status # "none")
    /\ d.status # "none" /\ records[x].status # "none" => d.amount = records[x].amount
    /\ psp[x].status # "none" => d.status # "none"
    /\ psp[x].status \in Reached => d.status \in Reached
    /\ psp[x].status = "failed" => d.status = "failed"

LEMMA BesideTrue ==
    ASSUME AllTrue, UNCHANGED <<records, manual>>, \A x \in Ids : psp'[x] = psp[x] \/ Beside(x)
    PROVE  \A x \in Ids : RecordTrue(x)'
<1>1. ASSUME NEW x \in Ids PROVE RecordTrue(x)'
  <2>1. RecordTrue(x)
    BY DEF AllTrue
  <2>2. CASE psp'[x] = psp[x]
    BY <2>1, <2>2 DEF RecordTrue
  <2>3. CASE Beside(x)
    BY <2>1, <2>3 DEF RecordTrue, Beside
  <2> QED BY <2>2, <2>3
<1> QED BY <1>1

LEMMA NobodyTrue ==
    ASSUME Booked, AllTrue, UNCHANGED <<records, manual, call>>, \A x \in Ids : psp'[x] = psp[x] \/ Beside(x)
    PROVE  AllTrue'
<1>1. \A x \in Ids : RecordTrue(x)'
  BY BesideTrue
<1>2. \A v \in Workers : WorkTrue(v)'
  BY SameKept, KeptTrue
<1> QED BY <1>1, <1>2 DEF AllTrue

LEMMA AskTrue ==
    ASSUME Booked, AllTrue, NEW w \in Workers, AskProvider(w) \/ ProviderSilent(w)
    PROVE  AllTrue'
<1>0. PICK r \in Ids : r = call[w].rec
  BY AskIs
<1>1. call[w].pc = "sending" /\ records[r].status # "none" /\ UNCHANGED <<records, manual>>
      /\ (UNCHANGED psp \/ Takes(w)) /\ WorkTrue(w)
  BY <1>0, AskIs DEF AllTrue
<1>2. ~ manual /\ (Attempting(w) => ~ records[r].ref)
  BY <1>0, <1>1 DEF WorkTrue, Running
<1>3. \A x \in Ids : psp'[x] = psp[x] \/ Beside(x)
  BY <1>0, <1>1, <1>2 DEF Takes, Beside, Reached
<1>4. Alone(w) /\ call'[w].pc \in {"attaching", "settling", "failing"} /\ call'[w].rec = r
  BY <1>0, AskedIs
<1>5. Attempting(w)' => Attempting(w)
  BY <1>0, <1>1, <1>4 DEF Attempting
<1>6. WorkTrue(w)'
  BY <1>1, <1>2, <1>4, <1>5 DEF WorkTrue
<1> QED BY <1>1, <1>3, <1>4, <1>6, BesideTrue, SameKept, OthersTrue

LEMMA ProviderTrue ==
    ASSUME Booked, AllTrue, NEW x \in Ids, ProviderDecides(x) \/ BankSendsBack(x)
    PROVE  AllTrue'
<1>1. psp \in [Ids -> [status : Statuses, amount : Nat]] /\ RecordTrue(x)
  BY DEF Booked, TypeOK, AllTrue
<1>2. UNCHANGED <<records, manual, call>> /\ psp[x].status # "none"
  BY DEF ProviderDecides, BankSendsBack, doc
<1>3. /\ psp'[x].status \in Reached /\ psp'[x].amount = psp[x].amount /\ psp[x].status # "failed"
      /\ \A y \in Ids \ {x} : psp'[y] = psp[y]
  BY <1>1 DEF ProviderDecides, BankSendsBack, Reached
<1>4. Beside(x)
  BY <1>1, <1>2, <1>3 DEF RecordTrue, Beside, Reached
<1> QED BY <1>2, <1>3, <1>4, NobodyTrue

LEMMA DashboardTrue ==
    ASSUME Booked, AllTrue, NEW x \in Outside, NEW amount \in Amounts, DashboardRefund(x, amount)
    PROVE  AllTrue'
<1>1. x \in Ids /\ x \notin Own /\ psp \in [Ids -> [status : Statuses, amount : Nat]] /\ RecordTrue(x)
  BY RefundsAssumption DEF Booked, TypeOK, AllTrue, Ids
<1>2. UNCHANGED <<records, manual, call>> /\ ~ manual /\ psp[x].status = "none"
      /\ psp' = [psp EXCEPT ![x] = [status |-> "succeeded", amount |-> amount]]
  BY DEF DashboardRefund, doc
<1>3. records[x].status = "none"
  BY <1>1, <1>2 DEF RecordTrue
<1>4. psp'[x].status = "succeeded" /\ \A y \in Ids \ {x} : psp'[y] = psp[y]
  BY <1>1, <1>2
<1>5. Beside(x)
  BY <1>1, <1>2, <1>3, <1>4 DEF Beside, Reached
<1> QED BY <1>2, <1>4, <1>5, NobodyTrue

(* Setting out, and hearing how a refund stands. *)
LEMMA StartAttemptTrue ==
    ASSUME Booked, AllTrue, NEW w \in Workers, NEW r \in Ids, StartAttempt(w, r) \/ BeginAsking(w, r)
    PROVE  AllTrue'
<1>1. Same /\ ~ manual
  BY DEF StartAttempt, BeginAsking, Same, doc, outer
<1>2. CASE StartAttempt(w, r)
  <2>1. Alone(w) /\ call'[w].pc = "claiming"
    BY <1>2, SetsOut
  <2>2. WorkTrue(w)'
    BY <1>1, <2>1 DEF WorkTrue, Running, Same
  <2> QED BY <1>1, <2>1, <2>2, SameAll
<1>3. CASE BeginAsking(w, r)
  <2>1. Alone(w) /\ call'[w].pc = "asking"
    BY <1>3, SetsOut
  <2>2. WorkTrue(w)'
    BY <1>1, <2>1 DEF WorkTrue, Running, Same
  <2> QED BY <1>1, <2>1, <2>2, SameAll
<1> QED BY <1>2, <1>3

LEMMA HearStateTrue ==
    ASSUME Booked, AllTrue, NEW w \in Workers, HearState(w)
    PROVE  AllTrue'
<1>1. Same /\ call[w].pc = "asking" /\ WorkTrue(w)
  BY DEF HearState, Same, doc, outer, AllTrue
<1>2. ~ manual
  BY <1>1 DEF WorkTrue
<1>3. Alone(w) /\ call'[w].pc \in {"idle", "applying"}
  BY HearsState
<1>4. WorkTrue(w)'
  BY <1>1, <1>2, <1>3 DEF WorkTrue, Running, Same
<1> QED BY <1>1, <1>3, <1>4, SameAll

(* A record an operator may settle or void was accepted only if it failed   *)
(* and was reversed.                                                        *)
LEMMA HandTrue ==
    ASSUME Booked, AllTrue, NEW r \in Ids, Open(records[r]), MayBeSettledByHand(r)
    PROVE  records[r].ref => records[r].status = "failed"
<1>1. RecordTrue(r)
  BY DEF AllTrue
<1>2. CASE manual
  BY <1>1, <1>2 DEF RecordTrue
<1>3. CASE records[r].reason = "disputed"
  BY <1>1, <1>3 DEF RecordTrue, Final
<1>4. CASE ~ manual /\ ExceedsRemaining(records, r)
  <2>1. ~ MayHaveMoved(records[r])
    BY <1>4 DEF ExceedsRemaining
  <2> QED BY <1>1, <2>1 DEF RecordTrue, MayHaveMoved, Open
<1> QED BY <1>2, <1>3, <1>4 DEF MayBeSettledByHand

LEMMA ReadToActTrue ==
    ASSUME Booked, AllTrue, NEW w \in Workers, NEW r \in Ids, ReadForHand(w, r) \/ ReadForCancel(w, r)
    PROVE  AllTrue'
<1>1. Same /\ Open(records[r]) /\ RecordTrue(r)
  BY DEF ReadForHand, ReadForCancel, Same, doc, outer, AllTrue
<1>2. CASE ReadForHand(w, r)
  <2>1. Alone(w) /\ call'[w].pc = "handing" /\ call'[w].read = records[r]
    BY <1>2, SetsOut
  <2>2. records[r].ref => records[r].status = "failed"
    BY <1>1, <1>2, HandTrue DEF ReadForHand
  <2>3. WorkTrue(w)'
    BY <2>1, <2>2 DEF WorkTrue, Running
  <2> QED BY <1>1, <2>1, <2>3, SameAll
<1>3. CASE ReadForCancel(w, r)
  <2>1. Alone(w) /\ call'[w].pc = "canceling" /\ call'[w].read = records[r]
    BY <1>3, SetsOut
  <2>2. ~ records[r].reversed /\ (MayBeSettledByHand(r) \/ records[r].reason = "disputed")
    BY <1>3 DEF ReadForCancel, MayBeCanceled
  <2>3. ~ records[r].ref
    <3>1. records[r].ref => records[r].status = "failed"
      BY <1>1, <2>2, HandTrue DEF RecordTrue, Final
    <3> QED BY <1>1, <2>2, <3>1 DEF RecordTrue
  <2>4. WorkTrue(w)'
    BY <2>1, <2>3 DEF WorkTrue, Running
  <2> QED BY <1>1, <2>1, <2>4, SameAll
<1> QED BY <1>2, <1>3

LEMMA StepTrue ==
    ASSUME NoStaleHand, Books, Papers', AllTrue, Next
    PROVE  AllTrue'
<1> USE DEF Books
<1>1. Sweeps \subseteq Workers /\ Staff \subseteq Workers /\ Own \subseteq Ids
  BY DEF Workers, Ids
<1>2. ASSUME NEW w \in Workers,
             (\E amount \in Amounts : BeginRefund(w, amount)) \/ BeginCancellationRefund(w) \/ OpenMissed(w)
      PROVE  AllTrue'
  <2>1. Alone(w) /\ call'[w].pc \in {"idle", "opening"}
    BY <1>2, AsksFor
  <2>2. Same
    BY <1>2 DEF BeginRefund, BeginCancellationRefund, OpenMissed, Same, doc, outer
  <2> QED BY <2>1, <2>2, IdleTrue, SameAll
<1>3. ASSUME NEW w \in Workers, OutOfRecords(w) \/ Crash(w)
      PROVE  AllTrue'
  <2>1. Rests(w) /\ Same
    BY <1>3 DEF OutOfRecords, Crash, Same, doc, outer
  <2> QED BY <2>1, SameRests
<1>4. ASSUME NEW w \in Workers, WriteStep(w) \/ ProviderSilent(w) \/ Crash(w)
      PROVE  AllTrue'
  <2>1. CASE (\E r \in Own : OpenRefund(w, r)) \/ OpenMissed(w) \/ OutOfRecords(w) \/ Claim(w) \/ AskProvider(w)
    BY <1>2, <1>3, <2>1, OpenRefundTrue, ClaimTrue, AskTrue
  <2>2. CASE \/ SettleAttempt(w) \/ KeepPending(w) \/ RecordRefundFailure(w)
             \/ HearState(w) \/ ApplySuccess(w) \/ ApplyFailure(w)
    BY <2>2, SettleAttemptTrue, KeepPendingTrue, RecordFailureTrue, HearStateTrue, ApplySuccessTrue,
       ApplyFailureTrue
  <2>3. CASE ImportRefund(w) \/ SettleRefundByHand(w) \/ CancelRefund(w) \/ ProviderSilent(w) \/ Crash(w)
    BY <1>3, <2>3, ImportRefundTrue, SettleByHandTrue, CancelTrue, AskTrue
  <2> QED BY <1>4, <2>1, <2>2, <2>3 DEF WriteStep
<1>5. CASE \E w \in Staff, amount \in Amounts : BeginRefund(w, amount)
  BY <1>1, <1>2, <1>5
<1>6. CASE \E w \in Sweeps : BeginCancellationRefund(w)
  BY <1>1, <1>2, <1>6
<1>7. CASE \E r \in Own, amount \in Amounts : OpenReturnRefund(r, amount)
  BY <1>7, OpenReturnRefundTrue
<1>8. CASE \E w \in Sweeps, x \in Ids : SyncRefund(w, x)
  BY <1>1, <1>8, StartAttemptTrue DEF SyncRefund
<1>9. CASE \E w \in Staff, r \in Own : ReadForHand(w, r) \/ ReadForCancel(w, r)
  BY <1>1, <1>9, ReadToActTrue
<1>10. CASE \E r \in Own : SweepVisits(r)
  BY <1>1, <1>10, StartAttemptTrue DEF SweepVisits, RereadRefund
<1>11. CASE \E x \in Ids : ProviderDecides(x) \/ BankSendsBack(x) \/ AttemptAges(x) \/ RetryDelayEnds(x)
  BY <1>11, ProviderTrue, ClockTrue
<1>12. CASE \E x \in Outside, amount \in Amounts : DashboardRefund(x, amount)
  BY <1>12, DashboardTrue
<1>13. CASE \E s \in {"open", "won", "lost"} : DeliverDispute(s) \/ BankMoves(s)
  <2>1. UNCHANGED <<records, manual, call, psp>>
    BY <1>13 DEF DeliverDispute, BankMoves, doc, outer
  <2> QED BY <2>1, NobodyTrue
<1> QED BY <1>4, <1>5, <1>6, <1>7, <1>8, <1>9, <1>10, <1>11, <1>12, <1>13 DEF Next

LEMMA TrueInit == Init => AllTrue
<1> SUFFICES ASSUME Init PROVE AllTrue
  OBVIOUS
<1>1. /\ records = [x \in Ids |-> NoRecord] /\ call = [w \in Workers |-> Idle]
      /\ psp = [x \in Ids |-> [status |-> "none", amount |-> 0]]
  BY DEF Init
<1>2. ASSUME NEW x \in Ids PROVE RecordTrue(x)
  BY <1>1 DEF RecordTrue, NoRecord, Final
<1>3. ASSUME NEW w \in Workers PROVE WorkTrue(w)
  BY <1>1 DEF WorkTrue, Idle, Running
<1> QED BY <1>2, <1>3 DEF AllTrue

LEMMA TrueStep ==
    ASSUME NoStaleHand, Books, AllTrue, [Next]_vars
    PROVE  AllTrue'
<1>1. CASE UNCHANGED vars
  BY <1>1 DEF vars, AllTrue, RecordTrue, WorkTrue, Attempting
<1>2. CASE Next
  <2>1. Papers'
    BY <1>2, StepAdvances DEF Books, Advances
  <2> QED BY <1>2, <2>1, StepTrue
<1> QED BY <1>1, <1>2

LEMMA CopiesStep ==
    ASSUME NoStaleHand, Books, CopiesTrue, [Next]_vars
    PROVE  CopiesTrue'
<1>1. CASE UNCHANGED vars
  BY <1>1 DEF vars, CopiesTrue
<1>2. CASE Next
  <2>1. Kind /\ Onward
    BY <1>2, StepAdvances, StepOnward DEF Books, Advances
  <2>2. CASE UNCHANGED copies
    BY <2>1, <2>2 DEF CopiesTrue, Onward, Reached
  <2>3. ASSUME NEW x \in Ids, Doubles(x) PROVE CopiesTrue'
    <3>1. psp'[x].status \in Reached /\ psp'[x].amount = copies'[x].amount
      BY <2>1, <2>3 DEF Doubles, Onward, Reached
    <3>2. ASSUME NEW y \in Ids \ {x}, copies'[y].status = "succeeded"
          PROVE  psp'[y].status \in Reached /\ psp'[y].amount = copies'[y].amount
      <4>1. copies'[y] = copies[y]
        BY <2>3 DEF Doubles
      <4> QED BY <2>1, <3>2, <4>1 DEF CopiesTrue, Onward, Reached
    <3> QED BY <3>1, <3>2 DEF CopiesTrue
  <2> QED BY <2>1, <2>2, <2>3 DEF Kind, Quiet, Opens, Settles, SendsBack, Imports, Voids, OnlyRecord
<1> QED BY <1>1, <1>2

(* Each record tells the truth about the refund the provider has under its  *)
(* key, and each answer a worker still carries is one the provider gave:    *)
(* so no late settleRefund or failRefund writes what did not happen.        *)
THEOREM TrueInvariant ==
    ASSUME NoStaleHand
    PROVE  Spec => [](Books /\ AllTrue /\ CopiesTrue)
<1>1. Init => AllTrue /\ CopiesTrue
  <2>1. Init => \A x \in Ids : copies[x].status = "none"
    BY DEF Init, NoRecord
  <2> QED BY <2>1, TrueInit DEF CopiesTrue
<1>2. Books /\ AllTrue /\ CopiesTrue /\ [Next]_vars => AllTrue' /\ CopiesTrue'
  BY TrueStep, CopiesStep
<1> QED BY <1>1, <1>2, BooksInvariant, PTL DEF Spec

(* A settled record that was not paid by hand is money that left the        *)
(* provider, in the amount the record names.                                *)
THEOREM SettledWasReturned ==
    ASSUME NoStaleHand
    PROVE  Spec => []SettledMeansReturned
<1>1. AllTrue /\ CopiesTrue => SettledMeansReturned
  <2> SUFFICES ASSUME AllTrue, CopiesTrue, NEW x \in Ids, NEW d \in {records[x], copies[x]},
                      d.status = "succeeded" /\ d.ref
               PROVE  psp[x].status \in {"succeeded", "failed"} /\ psp[x].amount = d.amount
    BY DEF SettledMeansReturned
  <2>1. CASE d = records[x]
    BY <2>1 DEF AllTrue, RecordTrue, Reached
  <2>2. CASE d = copies[x]
    BY <2>2 DEF CopiesTrue, Reached
  <2> QED BY <2>1, <2>2
<1> QED BY <1>1, TrueInvariant, PTL

-----------------------------------------------------------------------------
(* The strengthening for what the buyer has in hand. *)

(* The program as its documents describe it: operators write on what they   *)
(* read, their payments are not undone by late news, no record is called    *)
(* refused while its refund is out, whether a chargeback or a missing       *)
(* adapter kept it from being asked for again, and no refund of ours is     *)
(* taken for one made outside.                                              *)
Documented ==
    /\ NoStaleHand
    /\ "hand undone" \notin Divergences
    /\ "disputed unasked" \notin Divergences
    /\ "removed unasked" \notin Divergences
    /\ "imported twice" \notin Divergences

NoOutside == \A x \in Outside : psp[x].status = "none"
Out == {"pending", "succeeded"}
Refused == {"declined", "funds", "disputed", "removed"}

(* Settled with the operator's own money: nothing of it is at the provider. *)
HandPaid(x) ==
    /\ records[x].status = "succeeded" /\ psp[x].status \notin Out
    /\ ~ records[x].ref \/ records[x].reversed
HandPart(x) == IF HandPaid(x) THEN records[x].amount ELSE 0
ByOperators == Sum([x \in Ids |-> HandPart(x)])

(* A record that is voided or refused has no refund out at the provider. *)
PaidRecord(x) ==
    records[x].reason = "canceled" \/ (records[x].status = "failed" /\ records[x].reason \in Refused)
        => psp[x].status \notin Out

(* Who is about to ask for a new refund still holds the attempt; who is      *)
(* about to write a refusal knows of no refund; who is about to act for an  *)
(* operator read a record that is owed and not out.                         *)
PaidWork(w) ==
    LET c == call[w] IN
    /\ c.pc = "sending" /\ psp[c.rec].status = "none" => Attempting(w) /\ ~ records[c.rec].old
    /\ c.pc = "failing" /\ c.reason \in Refused /\ Attempting(w) => psp[c.rec].status \notin Out
    /\ c.pc = "handing" =>
          \/ manual \/ c.read.reason = "disputed"
          \/ c.read.reversed /\ psp[c.rec].status = "failed"
          \/ c.read.status = "failed" /\ c.read.reason \in Refused
    /\ c.pc = "canceling" => manual \/ (c.read.status = "failed" /\ c.read.reason \in Refused)

Squared ==
    /\ \A x \in Ids : PaidRecord(x)
    /\ \A w \in Workers : PaidWork(w)
    /\ given <= ByOperators
NoCopies == \A x \in Ids : copies[x].status = "none"
AllPaid == refunded <= Paid /\ NoCopies /\ Squared

LEMMA NoCopiesTotals ==
    ASSUME Booked, NoCopies
    PROVE  Promised(copies) = 0 /\ ReturnedBy(copies) = 0
<1> DEFINE f == [x \in Ids |-> Counts(copies[x])]
           g == [x \in Ids |-> Back(copies[x])]
<1>1. copies \in [Ids -> Record]
  BY DEF Booked, TypeOK
<1>2. Promised(copies) = Sum(f) /\ f \in [Ids -> Nat] /\ ReturnedBy(copies) = Sum(g) /\ g \in [Ids -> Nat]
  BY <1>1, PromisedIs
<1>3. \A x \in Ids : f[x] = 0 /\ g[x] = 0
  BY DEF NoCopies, Counts, Back
<1> HIDE DEF f, g
<1> QED BY <1>2, <1>3, Finite, SumZero

(* Hand-paid records and refunds that went through are different shares of  *)
(* what the records promise.                                                *)
LEMMA PaidIsEnough ==
    ASSUME Books, AllTrue, AllPaid, NoOutside
    PROVE  Received <= Paid
<1> DEFINE f == [x \in Ids |-> HandPart(x)]
           g == [x \in Ids |-> IF psp[x].status = "succeeded" THEN psp[x].amount ELSE 0]
           h == [x \in Ids |-> f[x] + g[x]]
           k == [x \in Ids |-> Counts(records[x])]
<1>1. records \in [Ids -> Record] /\ psp \in [Ids -> [status : Statuses, amount : Nat]] /\ given \in Nat
      /\ refunded \in Nat
  BY DEF Books, Booked, TypeOK
<1>2. f \in [Ids -> Nat] /\ g \in [Ids -> Nat] /\ k \in [Ids -> Nat]
  BY <1>1 DEF HandPart, Record, Counts
<1>3. h \in [Ids -> Nat] /\ \A x \in Ids : h[x] = f[x] + g[x]
  BY <1>2
<1>4. ASSUME NEW x \in Ids PROVE h[x] <= k[x]
  <2>1. RecordTrue(x) /\ PaidRecord(x) /\ (records[x].reason = "canceled" => records[x].status = "failed")
    BY DEF AllTrue, AllPaid, Squared, Books, Booked, CanceledIsFailed
  <2>2. records[x].amount \in Nat /\ psp[x].amount \in Nat /\ k[x] = Counts(records[x])
        /\ f[x] = HandPart(x) /\ g[x] = IF psp[x].status = "succeeded" THEN psp[x].amount ELSE 0
    BY <1>1 DEF Record
  <2>3. CASE psp[x].status = "succeeded"
    <3>1. x \in Own
      BY <2>3 DEF NoOutside, Ids
    <3>2. records[x].status # "none" /\ psp[x].amount = records[x].amount /\ records[x].reason # "canceled"
      BY <2>1, <2>3, <3>1 DEF RecordTrue, PaidRecord, Out
    <3>3. ~ HandPaid(x)
      BY <2>3 DEF HandPaid, Out
    <3> QED BY <1>3, <2>2, <2>3, <3>2, <3>3 DEF Counts, HandPart
  <2>4. CASE psp[x].status # "succeeded" /\ HandPaid(x)
    BY <1>3, <2>1, <2>2, <2>4 DEF Counts, HandPart, HandPaid
  <2>5. CASE psp[x].status # "succeeded" /\ ~ HandPaid(x)
    BY <1>2, <1>3, <2>2, <2>5 DEF HandPart
  <2> QED BY <2>3, <2>4, <2>5
<1>5. ByOperators = Sum(f) /\ Received = given + Sum(g) /\ Promised(records) = Sum(k)
  BY <1>1, PromisedIs DEF ByOperators, Received
<1> HIDE DEF f, g, h, k
<1>6. Sum(h) = Sum(f) + Sum(g)
  BY <1>2, <1>3, Finite, SumAdd
<1>7. Sum(h) <= Sum(k)
  BY <1>2, <1>3, <1>4, Finite, SumMonotone
<1>8. Sum(f) \in Nat /\ Sum(g) \in Nat /\ Sum(k) \in Nat
  BY <1>2, Finite, SumType
<1>9. given <= Sum(f) /\ Sum(k) <= Paid
  <2>1. Promised(copies) = 0 /\ refunded = Promised(records) + Promised(copies)
    BY NoCopiesTotals DEF AllPaid, Books, Booked, TotalIsWhatRecordsName
  <2> QED BY <1>1, <1>5, <1>8, <2>1 DEF AllPaid, Squared
<1> QED BY <1>1, <1>5, <1>6, <1>7, <1>8, <1>9, PaidType

(* No open record is ever found not to fit beside what the provider holds:  *)
(* what may have moved was promised.                                        *)
LEMMA NothingExceeds ==
    ASSUME Booked, AllTrue, refunded <= Paid, NoCopies, NEW r \in Ids
    PROVE  ~ ExceedsRemaining(records, r)
<1> SUFFICES ASSUME ExceedsRemaining(records, r) PROVE FALSE
  OBVIOUS
<1> DEFINE f == [x \in Ids |-> IF x = r \/ MayHaveMoved(records[x]) THEN records[x].amount ELSE 0]
           k == [x \in Ids |-> Counts(records[x])]
<1>1. records \in [Ids -> Record] /\ refunded \in Nat
  BY DEF Booked, TypeOK
<1>2. f \in [Ids -> Nat] /\ k \in [Ids -> Nat]
  BY <1>1 DEF Record, Counts
<1>3. Open(records[r]) /\ Sum(f) + ReturnedBy(copies) > Paid
  BY DEF ExceedsRemaining
<1>4. ASSUME NEW x \in Ids PROVE f[x] <= k[x]
  <2>1. RecordTrue(x) /\ records[x].amount \in Nat
        /\ (records[x].reason = "canceled" => records[x].status = "failed")
    BY <1>1 DEF AllTrue, Record, Booked, CanceledIsFailed
  <2>2. x = r \/ MayHaveMoved(records[x]) => records[x].status # "none" /\ records[x].reason # "canceled"
    BY <1>3, <2>1 DEF Open, MayHaveMoved, RecordTrue
  <2> QED BY <2>1, <2>2 DEF Counts
<1>5. Sum(k) + Promised(copies) <= Paid
  BY <1>1, PromisedIs DEF Booked, TotalIsWhatRecordsName
<1>7. Promised(copies) = 0 /\ ReturnedBy(copies) = 0
  BY NoCopiesTotals
<1> HIDE DEF f, k
<1>6. Sum(f) <= Sum(k) /\ Sum(f) \in Nat /\ Sum(k) \in Nat
  BY <1>2, <1>4, Finite, SumMonotone, SumType
<1> QED BY <1>3, <1>5, <1>6, <1>7, PaidType

-----------------------------------------------------------------------------
(* Workers that did not move, and records nobody wrote. *)

(* What v is about to do is not overtaken by the step. *)
Steady(v) ==
    LET r == call[v].rec IN
    /\ call[v].pc = "sending" /\ Attempting(v) /\ ~ records[r].old /\ psp'[r].status = "none" =>
          records'[r].status = "pending" /\ records'[r].attempt = v /\ ~ records'[r].old
    /\ call[v].pc = "failing" /\ records'[r].status = "pending" /\ records'[r].attempt = v =>
          Attempting(v) /\ (psp[r].status \notin Out => psp'[r].status \notin Out)

LEMMA SteadyPaid ==
    ASSUME Booked, Onward, NEW v \in Workers, PaidWork(v), call'[v] = call[v], Steady(v), UNCHANGED manual
    PROVE  PaidWork(v)'
<1>1. call[v].pc \notin {"idle", "opening"} => call[v].rec \in Ids
  BY DEF Booked, WorkSound, Sound
<1>2. call[v].rec \in Ids /\ psp'[call[v].rec].status = "none" => psp[call[v].rec].status = "none"
  BY DEF Onward
<1>3. call[v].rec \in Ids /\ psp[call[v].rec].status = "failed" => psp'[call[v].rec].status = "failed"
  BY DEF Onward
<1>4. ASSUME call'[v].pc = "sending", psp'[call'[v].rec].status = "none"
      PROVE  Attempting(v)' /\ ~ records'[call'[v].rec].old
  BY <1>1, <1>2, <1>4 DEF PaidWork, Steady, Attempting
<1>5. ASSUME call'[v].pc = "failing", call'[v].reason \in Refused, Attempting(v)'
      PROVE  psp'[call'[v].rec].status \notin Out
  BY <1>5 DEF PaidWork, Steady, Attempting
<1>6. ASSUME call'[v].pc = "handing"
      PROVE  \/ manual' \/ call'[v].read.reason = "disputed"
             \/ call'[v].read.reversed /\ psp'[call'[v].rec].status = "failed"
             \/ call'[v].read.status = "failed" /\ call'[v].read.reason \in Refused
  BY <1>1, <1>3, <1>6 DEF PaidWork
<1>7. ASSUME call'[v].pc = "canceling"
      PROVE  manual' \/ (call'[v].read.status = "failed" /\ call'[v].read.reason \in Refused)
  BY <1>7 DEF PaidWork
<1> QED BY <1>4, <1>5, <1>6, <1>7 DEF PaidWork

LEMMA SameSteady ==
    ASSUME NEW v \in Workers, UNCHANGED <<records, psp>>
    PROVE  Steady(v)
BY DEF Steady, Attempting

LEMMA SteadyElsewhere ==
    ASSUME Booked, NEW v \in Workers, NEW r \in Ids, OnlyRecord(r), UNCHANGED psp, call[v].rec # r
    PROVE  Steady(v)
<1>1. call[v].pc \in {"sending", "failing"} => call[v].rec \in Ids
  BY DEF Booked, WorkSound, Sound
<1> QED BY <1>1 DEF Steady, Attempting, OnlyRecord

LEMMA RestingPaid ==
    ASSUME NEW w \in Workers, call'[w].pc \notin {"sending", "failing", "handing", "canceling"}
    PROVE  PaidWork(w)'
BY DEF PaidWork

(* What operators gave is covered as long as no hand-paid record is lost.   *)
HandKept(x) == HandPaid(x) => HandPaid(x)' /\ records'[x].amount = records[x].amount

LEMMA HandsCover ==
    ASSUME Booked, Papers', given <= ByOperators, given' = given, \A x \in Ids : HandKept(x)
    PROVE  (given <= ByOperators)'
<1> DEFINE f == [x \in Ids |-> HandPart(x)]
           g == [x \in Ids |-> HandPart(x)']
<1>1. records \in [Ids -> Record] /\ records' \in [Ids -> Record] /\ given \in Nat
  BY DEF Booked, TypeOK, Papers
<1>2. f \in [Ids -> Nat] /\ g \in [Ids -> Nat]
  BY <1>1 DEF HandPart, Record
<1>3. ASSUME NEW x \in Ids PROVE f[x] <= g[x]
  <2>1. records[x].amount \in Nat /\ records'[x].amount \in Nat
    BY <1>1 DEF Record
  <2> QED BY <2>1 DEF HandPart, HandKept
<1>4. ByOperators = Sum(f) /\ ByOperators' = Sum(g)
  BY DEF ByOperators
<1> HIDE DEF f, g
<1>5. Sum(f) <= Sum(g) /\ Sum(f) \in Nat /\ Sum(g) \in Nat
  BY <1>2, <1>3, Finite, SumMonotone, SumType
<1> QED BY <1>1, <1>4, <1>5

(* A worker writes one record. *)
LEMMA OneSquared ==
    ASSUME Booked, Papers', Onward, Squared, NEW w \in Workers, NEW r \in Ids, Alone(w), PaidWork(w)',
           OnlyRecord(r), UNCHANGED <<psp, manual, given>>, PaidRecord(r)', HandKept(r),
           \A v \in Workers \ {w} : call[v].rec = r => Steady(v)
    PROVE  Squared'
<1>1. ASSUME NEW x \in Ids PROVE PaidRecord(x)' /\ HandKept(x)
  <2>1. CASE x = r
    BY <2>1
  <2>2. CASE x # r
    <3>1. records'[x] = records[x] /\ PaidRecord(x)
      BY <2>2 DEF OnlyRecord, Squared
    <3> QED BY <3>1 DEF PaidRecord, HandKept, HandPaid
  <2> QED BY <2>1, <2>2
<1>2. ASSUME NEW v \in Workers PROVE PaidWork(v)'
  <2>1. CASE v = w
    BY <2>1
  <2>2. CASE v # w
    <3>1. Steady(v)
      BY <2>2, SteadyElsewhere
    <3> QED BY <2>2, <3>1, SteadyPaid DEF Alone, Squared
  <2> QED BY <2>1, <2>2
<1>3. (given <= ByOperators)'
  BY <1>1, HandsCover DEF Squared
<1> QED BY <1>1, <1>2, <1>3 DEF Squared

(* Nothing is written but a worker's own plan. *)
LEMMA SameSquared ==
    ASSUME Booked, Papers', Onward, Squared, NEW w \in Workers, Alone(w), PaidWork(w)',
           Same, given' = given
    PROVE  Squared'
<1>1. ASSUME NEW x \in Ids PROVE PaidRecord(x)' /\ HandKept(x)
  BY DEF Squared, PaidRecord, HandKept, HandPaid, Same
<1>2. ASSUME NEW v \in Workers PROVE PaidWork(v)'
  BY SameSteady, SteadyPaid DEF Alone, Squared, Same
<1>3. (given <= ByOperators)'
  BY <1>1, HandsCover DEF Squared
<1> QED BY <1>1, <1>2, <1>3 DEF Squared

LEMMA RestsSquared ==
    ASSUME Booked, Papers', Onward, Squared, NEW w \in Workers, Rests(w), Same, given' = given
    PROVE  Squared'
<1>1. call'[w].pc = "idle" /\ Alone(w)
  BY RestsIs DEF Booked
<1> QED BY <1>1, RestingPaid, SameSquared

-----------------------------------------------------------------------------
(* What each action leaves paid. *)

LEMMA OpensPaid ==
    ASSUME Booked, AllTrue, NEW r \in Own, NEW by \in Workers \cup {NoOne}, OpenWrites(r, by)
    PROVE  /\ r \in Ids /\ PaidRecord(r)' /\ HandKept(r) /\ psp[r].status = "none"
           /\ \A v \in Workers \ {by} : Steady(v)
<1>1. r \in Ids
  BY DEF Ids
<1>2. psp[r].status = "none" /\ records[r].status = "none" /\ records'[r].status = "pending"
      /\ records'[r].reason = "none" /\ records'[r].attempt = by /\ OnlyRecord(r) /\ UNCHANGED psp
  BY <1>1 DEF AllTrue, RecordTrue, OpenWrites
<1>3. PaidRecord(r)' /\ HandKept(r)
  BY <1>2 DEF PaidRecord, HandKept, HandPaid
<1>4. ASSUME NEW v \in Workers \ {by} PROVE Steady(v)
  <2>1. CASE call[v].rec = r
    BY <1>2, <2>1 DEF Steady, Attempting
  <2> QED BY <1>1, <1>2, <2>1, SteadyElsewhere
<1> QED BY <1>1, <1>2, <1>3, <1>4

LEMMA AttemptPaid ==
    ASSUME Booked, Papers', NEW w \in Workers, NEW r \in Ids, NEW refusal \in Refusals,
           Does(w, Attempt(records', r, refusal)),
           records'[r].status = "pending", records'[r].reason # "canceled", records'[r].attempt = w,
           ~ records'[r].old, refusal # "none" => psp'[r].status \notin Out
    PROVE  Alone(w) /\ PaidWork(w)'
<1>1. Attempt(records', r, refusal) \in Work
  BY AttemptSound DEF Papers
<1>2. call'[w] = Attempt(records', r, refusal) /\ Alone(w)
  BY <1>1, DoesIs DEF Booked
<1>3. /\ call'[w].pc \in {"idle", "sending", "failing"} /\ (call'[w].pc # "idle" => call'[w].rec = r)
      /\ (call'[w].pc = "failing" => refusal # "none")
  BY <1>2, AttemptIs DEF Papers
<1>4. call'[w].pc = "sending" => Attempting(w)' /\ ~ records'[r].old
  BY <1>3 DEF Attempting
<1> QED BY <1>2, <1>3, <1>4 DEF PaidWork

LEMMA OpenRefundSquared ==
    ASSUME Booked, Papers', Onward, AllTrue, Squared, NEW w \in Workers, NEW r \in Own, OpenRefund(w, r)
    PROVE  Squared'
<1>0. PICK refusal \in Refusals : Does(w, Attempt(records', r, refusal))
  BY OpenRefundWrites
<1>1. OpenWrites(r, w) /\ w \in Workers \cup {NoOne}
  BY OpenRefundWrites
<1>2. /\ r \in Ids /\ PaidRecord(r)' /\ HandKept(r) /\ psp[r].status = "none"
      /\ \A v \in Workers \ {w} : Steady(v)
  BY <1>1, OpensPaid
<1>3. psp'[r].status \notin Out
  BY <1>1, <1>2 DEF OpenWrites, Out
<1>4. Alone(w) /\ PaidWork(w)'
  BY <1>0, <1>1, <1>2, <1>3, AttemptPaid DEF OpenWrites
<1> QED BY <1>1, <1>2, <1>4, OneSquared DEF OpenWrites

LEMMA OpenReturnRefundSquared ==
    ASSUME Booked, Papers', Onward, AllTrue, Squared, NEW r \in Own, NEW amount \in Amounts,
           OpenReturnRefund(r, amount)
    PROVE  Squared'
<1>0. NoOne \in Workers \cup {NoOne} /\ NoOne \notin Workers
  BY RefundsAssumption DEF Workers
<1>1. OpenWrites(r, NoOne) /\ UNCHANGED call
  BY OpenReturnRefundWrites
<1>2. r \in Ids /\ PaidRecord(r)' /\ HandKept(r) /\ \A v \in Workers \ {NoOne} : Steady(v)
  BY <1>0, <1>1, OpensPaid
<1>3. ASSUME NEW x \in Ids PROVE PaidRecord(x)' /\ HandKept(x)
  <2>1. CASE x # r
    <3>1. records'[x] = records[x] /\ psp' = psp /\ PaidRecord(x)
      BY <1>1, <2>1 DEF OpenWrites, OnlyRecord, Squared
    <3> QED BY <3>1 DEF PaidRecord, HandKept, HandPaid
  <2> QED BY <1>2, <2>1
<1>4. ASSUME NEW v \in Workers PROVE PaidWork(v)'
  BY <1>0, <1>1, <1>2, SteadyPaid DEF Squared, OpenWrites
<1>5. (given <= ByOperators)'
  BY <1>1, <1>3, HandsCover DEF Squared, OpenWrites
<1> QED BY <1>3, <1>4, <1>5 DEF Squared

LEMMA ClaimSquared ==
    ASSUME Documented, Booked, Papers', Onward, AllTrue, Squared, NEW w \in Workers, Claim(w)
    PROVE  Squared'
<1>0. PICK r \in Ids : r = call[w].rec
  BY ClaimIs
<1>1. CASE Same /\ Rests(w) /\ given' = given
  BY <1>1, RestsSquared
<1>2. CASE ClaimWrites(w, r) /\ \E refusal \in Refusals : TakenOn(w, r, refusal)
  <2>0. PICK refusal \in Refusals : Does(w, Attempt(records', r, refusal)) /\ ~ Unasked(r, refusal)
    BY <1>2 DEF TakenOn, Departure, Documented
  <2>1. Claimable(records[r]) /\ records'[r].status = "pending"
        /\ records'[r].reason = records[r].reason /\ records'[r].attempt = w /\ ~ records'[r].old
        /\ OnlyRecord(r) /\ UNCHANGED <<psp, manual, given>>
    BY <1>2 DEF ClaimWrites, Keeps
  <2>2. records[r].reason # "canceled" /\ records[r].status \in {"pending", "failed"}
    BY <2>1 DEF Claimable, Booked, CanceledIsFailed
  <2>3. PaidRecord(r)' /\ HandKept(r)
    BY <2>1, <2>2 DEF PaidRecord, HandKept, HandPaid
  <2>4. refusal # "none" => psp'[r].status \notin Out
    BY <2>0, <2>1 DEF Unasked, Out
  <2>5. Alone(w) /\ PaidWork(w)'
    BY <2>0, <2>1, <2>2, <2>4, AttemptPaid
  <2>6. ASSUME NEW v \in Workers \ {w}, call[v].rec = r PROVE Steady(v)
    <3>1. NoOne \notin Workers
      BY RefundsAssumption DEF Workers
    <3> QED BY <2>1, <2>6, <3>1 DEF Steady, Attempting, Claimable
  <2> QED BY <2>1, <2>3, <2>5, <2>6, OneSquared
<1> QED BY <1>0, <1>1, <1>2, ClaimIs

(* A worker that settles or fails its own attempt. *)
LEMMA OwnAttempt ==
    ASSUME NEW w \in Workers, Attempting(w), NEW v \in Workers \ {w}, call[v].rec = call[w].rec,
           records'[call[w].rec].status \in {"succeeded", "failed"}
           \/ records'[call[w].rec].attempt = w
    PROVE  Steady(v)
BY DEF Steady, Attempting

LEMMA SettleAttemptSquared ==
    ASSUME Booked, Papers', Onward, Squared, NEW w \in Workers, SettleAttempt(w)
    PROVE  Squared'
<1>0. PICK r \in Ids : r = call[w].rec
  BY SettleAttemptIs
<1>1. Rests(w) /\ given' = given /\ call'[w].pc = "idle" /\ Alone(w)
  BY SettleAttemptIs, RestsIs DEF Booked
<1>2. CASE Attempting(w) /\ SettleWrites(r, TRUE)
  <2>1. records[r].status = "pending" /\ records'[r].status = "succeeded" /\ records'[r].reason = "none"
        /\ OnlyRecord(r) /\ UNCHANGED <<psp, manual>>
    BY <1>0, <1>2 DEF SettleWrites, Attempting
  <2>2. PaidRecord(r)' /\ HandKept(r)
    BY <2>1 DEF PaidRecord, HandKept, HandPaid
  <2>3. \A v \in Workers \ {w} : call[v].rec = r => Steady(v)
    BY <1>0, <1>2, <2>1, OwnAttempt
  <2> QED BY <1>1, <2>1, <2>2, <2>3, RestingPaid, OneSquared
<1> QED BY <1>0, <1>1, <1>2, SettleAttemptIs, RestsSquared

LEMMA KeepPendingSquared ==
    ASSUME Booked, Papers', Onward, Squared, NEW w \in Workers, KeepPending(w)
    PROVE  Squared'
<1>0. PICK r \in Ids : r = call[w].rec
  BY KeepPendingIs
<1>1. Rests(w) /\ given' = given /\ call'[w].pc = "idle" /\ Alone(w)
  BY KeepPendingIs, RestsIs DEF Booked
<1>2. CASE ~ Same
  <2>1. Attempting(w) /\ records[r].status = "pending" /\ records'[r].status = "pending"
        /\ records'[r].reason = records[r].reason /\ records'[r].attempt = w
        /\ OnlyRecord(r) /\ UNCHANGED <<psp, manual>>
    BY <1>0, <1>2, KeepPendingIs DEF Keeps, Attempting
  <2>2. PaidRecord(r)' /\ HandKept(r)
    BY <2>1 DEF PaidRecord, HandKept, HandPaid, Squared
  <2>3. \A v \in Workers \ {w} : call[v].rec = r => Steady(v)
    BY <1>0, <2>1, OwnAttempt
  <2> QED BY <1>1, <2>1, <2>2, <2>3, RestingPaid, OneSquared
<1> QED BY <1>1, <1>2, RestsSquared

LEMMA RecordFailureSquared ==
    ASSUME Booked, Papers', Onward, Squared, NEW w \in Workers, RecordRefundFailure(w)
    PROVE  Squared'
<1>0. PICK r \in Ids : r = call[w].rec
  BY RecordFailureIs
<1>1. Rests(w) /\ call[w].pc = "failing" /\ call'[w].pc = "idle" /\ Alone(w) /\ PaidWork(w)
  BY RecordFailureIs, RestsIs DEF Booked, Squared
<1>2. CASE Same /\ given' = given
  BY <1>1, <1>2, RestsSquared
<1>3. CASE Attempting(w) /\ FailWrites(r, call[w].reason) /\ call[w].reason # "canceled"
  <2>1. records[r].status = "pending" /\ records'[r].status = "failed" /\ records'[r].reason = call[w].reason
        /\ OnlyRecord(r) /\ UNCHANGED <<psp, manual, given>>
    BY <1>0, <1>3 DEF FailWrites, Attempting
  <2>2. call[w].reason \in Refused => psp[r].status \notin Out
    BY <1>0, <1>1, <1>3 DEF PaidWork
  <2>3. PaidRecord(r)' /\ HandKept(r)
    BY <1>3, <2>1, <2>2 DEF PaidRecord, HandKept, HandPaid
  <2>4. \A v \in Workers \ {w} : call[v].rec = r => Steady(v)
    BY <1>0, <1>3, <2>1, OwnAttempt
  <2> QED BY <1>1, <2>1, <2>3, <2>4, RestingPaid, OneSquared
<1> QED BY <1>0, <1>2, <1>3, RecordFailureIs

(* News of a refund that reached its end: nobody asks for that one anew.    *)
LEMMA NewsSteady ==
    ASSUME NEW r \in Ids, psp[r].status \in Reached, UNCHANGED psp,
           records'[r].status \in {"succeeded", "failed"}, NEW v \in Workers, call[v].rec = r
    PROVE  Steady(v)
BY DEF Steady, Reached

LEMMA ApplySuccessSquared ==
    ASSUME Books, Papers', Onward, Squared, NEW w \in Workers, ApplySuccess(w)
    PROVE  Squared'
<1> USE DEF Books
<1>0. PICK r \in Ids : r = call[w].rec
  BY ApplySuccessIs
<1>1. Rests(w) /\ given' = given /\ call'[w].pc = "idle" /\ Alone(w) /\ psp[r].status \in Reached
  BY <1>0, ApplySuccessIs, RestsIs DEF Booked, HeardWell, HeardOf
<1>2. CASE records[r].status \in {"pending", "failed"} /\ SettleWrites(r, TRUE)
  <2>1. records[r].status # "succeeded" /\ records'[r].status = "succeeded" /\ records'[r].reason = "none"
        /\ OnlyRecord(r) /\ UNCHANGED <<psp, manual>>
    BY <1>2 DEF SettleWrites
  <2>2. PaidRecord(r)' /\ HandKept(r)
    BY <2>1 DEF PaidRecord, HandKept, HandPaid
  <2>3. \A v \in Workers \ {w} : call[v].rec = r => Steady(v)
    BY <1>1, <2>1, NewsSteady
  <2> QED BY <1>1, <2>1, <2>2, <2>3, RestingPaid, OneSquared
<1> QED BY <1>0, <1>1, <1>2, ApplySuccessIs, RestsSquared

LEMMA ApplyFailureSquared ==
    ASSUME Documented, Books, Papers', Onward, Squared, NEW w \in Workers, ApplyFailure(w)
    PROVE  Squared'
<1>4. Booked
  BY DEF Books
<1>0. PICK r \in Ids : r = call[w].rec
  BY ApplyFailureIs
<1>1. Rests(w) /\ call'[w].pc = "idle" /\ Alone(w) /\ psp[r].status = "failed"
  BY <1>0, ApplyFailureIs, RestsIs DEF Books, Booked
<1>2. CASE Same /\ given' = given
  BY <1>1, <1>2, <1>4, RestsSquared
<1>3. CASE ~ (Same /\ given' = given)
  <2>1. FailWrites(r, call[w].reason) /\ ~ records[r].reversed
        /\ (records[r].status = "succeeded" => records[r].ref)
    BY <1>0, <1>3, ApplyFailureIs DEF Documented
  <2>2. records'[r].status = "failed" /\ OnlyRecord(r) /\ UNCHANGED <<psp, manual, given>>
    BY <2>1 DEF FailWrites
  <2>3. PaidRecord(r)' /\ HandKept(r)
    BY <1>1, <2>1, <2>2 DEF PaidRecord, HandKept, HandPaid, Out
  <2>4. \A v \in Workers \ {w} : call[v].rec = r => Steady(v)
    BY <1>1, <2>2, NewsSteady DEF Reached
  <2> QED BY <1>1, <2>2, <2>3, <2>4, <1>4, RestingPaid, OneSquared
<1> QED BY <1>2, <1>3

LEMMA ImportSquared ==
    ASSUME Books, Papers', Onward, Squared, NEW w \in Workers, ImportRefund(w)
    PROVE  Squared'
<1> USE DEF Books
<1>0. PICK r \in Ids : r = call[w].rec
  BY ImportIs
<1>1. given' = given /\ call'[w].pc \in {"idle", "applying"} /\ Alone(w) /\ psp[r].status \in Reached
      /\ UNCHANGED manual
  BY <1>0, ImportIs, ImportsIs DEF ImportRefund
<1>2. CASE Same
  BY <1>1, <1>2, RestingPaid, SameSquared
<1>3. CASE ImportWrites(r)
  <2>1. records[r].status = "none" /\ records'[r].status = "succeeded" /\ records'[r].reason = "none"
        /\ OnlyRecord(r) /\ UNCHANGED <<psp, manual>>
    BY <1>3 DEF ImportWrites
  <2>2. PaidRecord(r)' /\ HandKept(r)
    BY <2>1 DEF PaidRecord, HandKept, HandPaid
  <2>3. \A v \in Workers \ {w} : call[v].rec = r => Steady(v)
    BY <1>1, <2>1, NewsSteady
  <2> QED BY <1>1, <2>1, <2>2, <2>3, RestingPaid, OneSquared
<1> QED BY <1>0, <1>2, <1>3, ImportIs

(* An operator's payment is for a record with nothing of it at the provider, *)
(* or for what the bank took.                                               *)
LEMMA ByHandCovers ==
    ASSUME Booked, Papers', given <= ByOperators, NEW r \in Ids, OnlyRecord(r), UNCHANGED psp,
           records'[r].amount = records[r].amount, ~ HandPaid(r), HandPaid(r)',
           given' = given + records[r].amount
    PROVE  (given <= ByOperators)'
<1> DEFINE f == [x \in Ids |-> HandPart(x)]
           g == [x \in Ids |-> HandPart(x)']
<1>1. records \in [Ids -> Record] /\ records' \in [Ids -> Record] /\ given \in Nat /\ records[r].amount \in Nat
  BY DEF Booked, TypeOK, Papers, Record
<1>2. f \in [Ids -> Nat] /\ g \in [Ids -> Nat]
  BY <1>1 DEF HandPart, Record
<1>3. ASSUME NEW x \in Ids \ {r} PROVE g[x] = f[x]
  <2>1. records'[x] = records[x] /\ psp' = psp
    BY DEF OnlyRecord
  <2> QED BY <2>1 DEF HandPart, HandPaid
<1>4. f[r] = 0 /\ g[r] = records[r].amount
  BY DEF HandPart
<1>5. ByOperators = Sum(f) /\ ByOperators' = Sum(g)
  BY DEF ByOperators
<1> HIDE DEF f, g
<1>6. Sum(g) - g[r] = Sum(f) - f[r]
  BY <1>2, <1>3, Finite, SumChange
<1>7. Sum(f) \in Nat /\ Sum(g) \in Nat
  BY <1>2, Finite, SumType
<1> QED BY <1>1, <1>4, <1>5, <1>6, <1>7

LEMMA ByHandSquared ==
    ASSUME Documented, Booked, Papers', Onward, AllTrue, Squared, NEW w \in Workers, SettleRefundByHand(w)
    PROVE  Squared'
<1>a. NoStaleHand
  BY DEF Documented
<1>0. PICK r \in Ids : r = call[w].rec
  BY <1>a, ByHandIs
<1>1. Rests(w) /\ call[w].pc = "handing" /\ call'[w].pc = "idle" /\ Alone(w) /\ PaidWork(w) /\ WorkTrue(w)
      /\ RecordTrue(r) /\ PaidRecord(r)
  BY <1>a, ByHandIs, RestsIs DEF Booked, Squared, AllTrue
<1>2. CASE Same /\ given' = given
  BY <1>1, <1>2, RestsSquared
<1>3. CASE ~ (Same /\ given' = given)
  <2>1. Undisturbed(w) /\ records[r].status = call[w].read.status /\ records[r].status \in {"pending", "failed"}
        /\ SettleWrites(r, FALSE)
        /\ given' = IF records[r].reason = "disputed" THEN given ELSE given + records[r].amount
    BY <1>a, <1>0, <1>3, ByHandIs
  <2>2. records'[r].status = "succeeded" /\ records'[r].reason = "none" /\ records'[r].amount = records[r].amount
        /\ (records'[r].ref => records[r].ref) /\ records'[r].reversed = records[r].reversed
        /\ OnlyRecord(r) /\ UNCHANGED <<psp, manual>>
    BY <2>1 DEF SettleWrites, Keeps
  <2>3. records[r].reason = call[w].read.reason /\ records[r].ref = call[w].read.ref
        /\ \A v \in Workers \ {w} : call[v].rec # r
    BY <1>0, <2>1 DEF Undisturbed
  <2>4. ~ HandPaid(r)
    BY <2>1 DEF HandPaid
  <2>5. ASSUME NEW x \in Ids PROVE PaidRecord(x)' /\ HandKept(x)
    <3>1. CASE x = r
      BY <2>2, <2>4, <3>1 DEF PaidRecord, HandKept
    <3>2. CASE x # r
      <4>1. records'[x] = records[x] /\ psp' = psp /\ PaidRecord(x)
        BY <2>2, <3>2 DEF OnlyRecord, Squared
      <4> QED BY <4>1 DEF PaidRecord, HandKept, HandPaid
    <3> QED BY <3>1, <3>2
  <2>6. ASSUME NEW v \in Workers PROVE PaidWork(v)'
    <3>1. CASE v = w
      BY <1>1, <3>1, RestingPaid
    <3>2. CASE v # w
      <4>1. Steady(v)
        BY <2>2, <2>3, <3>2, SteadyElsewhere
      <4> QED BY <1>1, <2>2, <3>2, <4>1, SteadyPaid DEF Alone, Squared
    <3> QED BY <3>1, <3>2
  <2>7. (given <= ByOperators)'
    <3>1. CASE records[r].reason = "disputed"
      BY <2>1, <2>5, <3>1, HandsCover DEF Squared
    <3>2. CASE records[r].reason # "disputed"
      <4>1. psp[r].status \notin Out
        <5>1. CASE manual
          BY <1>1, <5>1 DEF RecordTrue, Out
        <5>2. CASE call[w].read.reversed /\ psp[r].status = "failed"
          BY <5>2 DEF Out
        <5>3. CASE call[w].read.status = "failed" /\ call[w].read.reason \in Refused
          BY <1>1, <2>1, <2>3, <5>3 DEF PaidRecord
        <5> QED BY <1>0, <1>1, <2>3, <3>2, <5>1, <5>2, <5>3 DEF PaidWork
      <4>2. ~ records[r].ref \/ records[r].reversed
        BY <1>1, <2>1, <2>3 DEF WorkTrue, RecordTrue
      <4>3. HandPaid(r)'
        BY <2>2, <4>1, <4>2 DEF HandPaid
      <4> QED BY <2>1, <2>2, <2>4, <3>2, <4>3, ByHandCovers DEF Squared
    <3> QED BY <3>1, <3>2
  <2> QED BY <2>5, <2>6, <2>7 DEF Squared
<1> QED BY <1>2, <1>3

LEMMA CancelSquared ==
    ASSUME Documented, Booked, Papers', Onward, AllTrue, Squared, NEW w \in Workers, CancelRefund(w)
    PROVE  Squared'
<1>a. NoStaleHand
  BY DEF Documented
<1>0. PICK r \in Ids : r = call[w].rec
  BY <1>a, CancelIs
<1>1. Rests(w) /\ call[w].pc = "canceling" /\ call'[w].pc = "idle" /\ Alone(w) /\ PaidWork(w)
      /\ RecordTrue(r) /\ PaidRecord(r)
  BY <1>a, CancelIs, RestsIs DEF Booked, Squared, AllTrue
<1>2. CASE Same /\ given' = given
  BY <1>1, <1>2, RestsSquared
<1>3. CASE ~ (Same /\ given' = given)
  <2>1. Undisturbed(w) /\ records[r].status = call[w].read.status /\ records[r].status \in {"pending", "failed"}
        /\ FailWrites(r, "canceled")
    BY <1>a, <1>0, <1>3, CancelIs
  <2>2. OnlyRecord(r) /\ UNCHANGED <<psp, manual, given>>
    BY <2>1 DEF FailWrites
  <2>3. records[r].reason = call[w].read.reason /\ \A v \in Workers \ {w} : call[v].rec # r
    BY <1>0, <2>1 DEF Undisturbed
  <2>4. psp[r].status \notin Out
    <3>1. CASE manual
      BY <1>1, <3>1 DEF RecordTrue, Out
    <3> QED BY <1>1, <2>1, <2>3, <3>1 DEF PaidWork, PaidRecord
  <2>5. PaidRecord(r)' /\ HandKept(r)
    BY <2>1, <2>2, <2>4 DEF PaidRecord, HandKept, HandPaid
  <2> QED BY <1>1, <2>2, <2>3, <2>5, RestingPaid, OneSquared
<1> QED BY <1>2, <1>3

(* Steps that are nobody's: clocks, and the provider and the bank alone.    *)
LEMMA NobodySquared ==
    ASSUME Booked, Papers', Onward, Squared, UNCHANGED <<call, manual, given>>,
           \A v \in Workers : Steady(v), \A x \in Ids : PaidRecord(x)' /\ HandKept(x)
    PROVE  Squared'
<1>1. ASSUME NEW v \in Workers PROVE PaidWork(v)'
  BY SteadyPaid DEF Squared
<1>2. (given <= ByOperators)'
  BY HandsCover DEF Squared
<1> QED BY <1>1, <1>2 DEF Squared

LEMMA ClockSquared ==
    ASSUME Booked, Papers', Onward, Squared, NEW r \in Ids, AttemptAges(r) \/ RetryDelayEnds(r)
    PROVE  Squared'
<1>1. /\ records'[r].status = records[r].status /\ records'[r].amount = records[r].amount
      /\ records'[r].reason = records[r].reason /\ records'[r].ref = records[r].ref
      /\ records'[r].reversed = records[r].reversed /\ records'[r].attempt = records[r].attempt
      /\ OnlyRecord(r) /\ UNCHANGED <<psp, manual, call, given>>
  BY ClockIs DEF Keeps
<1>2. \/ records'[r].old = records[r].old
      \/ \A v \in Workers : v = records[r].attempt /\ call[v].rec = r => call[v].pc # "sending"
  BY ClockIs
<1>3. ASSUME NEW v \in Workers PROVE Steady(v)
  <2>1. CASE call[v].rec = r
    BY <1>1, <1>2, <2>1 DEF Steady, Attempting
  <2> QED BY <1>1, <2>1, SteadyElsewhere
<1>4. ASSUME NEW x \in Ids PROVE PaidRecord(x)' /\ HandKept(x)
  <2>1. PaidRecord(x) /\ (x # r => records'[x] = records[x])
    BY <1>1 DEF Squared, OnlyRecord
  <2>2. CASE x = r
    BY <1>1, <2>1, <2>2 DEF PaidRecord, HandKept, HandPaid
  <2>3. CASE x # r
    BY <1>1, <2>1, <2>3 DEF PaidRecord, HandKept, HandPaid
  <2> QED BY <2>2, <2>3
<1> QED BY <1>1, <1>3, <1>4, NobodySquared

(* The provider's books change only where a refund was out already.         *)
LEMMA MovesSquared ==
    ASSUME Booked, Papers', Onward, Squared, UNCHANGED <<records, call, manual, given>>,
           \A x \in Ids : psp[x].status \notin Out => psp'[x] = psp[x]
    PROVE  Squared'
<1>1. ASSUME NEW v \in Workers PROVE Steady(v)
  <2>1. call[v].pc \in {"sending", "failing"} => call[v].rec \in Ids
    BY DEF Booked, WorkSound, Sound
  <2> QED BY <2>1 DEF Steady, Attempting
<1>2. ASSUME NEW x \in Ids PROVE PaidRecord(x)' /\ HandKept(x)
  BY DEF PaidRecord, HandKept, HandPaid, Squared
<1> QED BY <1>1, <1>2, NobodySquared

LEMMA AskSquared ==
    ASSUME Booked, Papers', Onward, Squared, NEW w \in Workers, AskProvider(w) \/ ProviderSilent(w)
    PROVE  Squared'
<1>0. PICK r \in Ids : r = call[w].rec
  BY AskIs
<1>1. call[w].pc = "sending" /\ UNCHANGED <<records, manual, given>> /\ (UNCHANGED psp \/ Takes(w)) /\ PaidWork(w)
  BY AskIs DEF Squared
<1>2. /\ call'[w].pc \in {"attaching", "settling", "failing"} /\ call'[w].rec = r /\ Alone(w)
      /\ call'[w].pc = "failing" /\ call'[w].reason # "unclear" => psp'[r].status \in {"none", "failed"}
  BY <1>0, AskedIs
<1>3. PaidWork(w)'
  BY <1>2 DEF PaidWork, Refused, Out
<1>4. Takes(w) => psp[r].status = "none" /\ records[r].status = "pending" /\ records[r].attempt = w
                  /\ \A y \in Ids \ {r} : psp'[y] = psp[y]
  BY <1>0, <1>1 DEF Takes, PaidWork, Attempting
<1>5. ASSUME NEW v \in Workers \ {w} PROVE Steady(v)
  <2>1. call[v].pc \in {"sending", "failing"} => call[v].rec \in Ids
    BY DEF Booked, WorkSound, Sound
  <2>2. CASE UNCHANGED psp
    BY <1>1, <2>2, SameSteady
  <2>3. CASE Takes(w) /\ call[v].rec = r
    BY <1>1, <1>4, <2>3 DEF Steady, Attempting
  <2>4. CASE Takes(w) /\ call[v].rec # r
    BY <1>1, <1>4, <2>1, <2>4 DEF Steady, Attempting
  <2> QED BY <1>1, <2>2, <2>3, <2>4
<1>6. ASSUME NEW x \in Ids PROVE PaidRecord(x)' /\ HandKept(x)
  <2>1. PaidRecord(x) /\ (records[x].reason = "canceled" => records[x].status = "failed")
    BY DEF Squared, Booked, CanceledIsFailed
  <2>2. CASE psp'[x] = psp[x]
    BY <1>1, <2>1, <2>2 DEF PaidRecord, HandKept, HandPaid
  <2>3. CASE Takes(w) /\ x = r
    BY <1>1, <1>4, <2>1, <2>3 DEF PaidRecord, HandKept, HandPaid
  <2> QED BY <1>1, <1>4, <2>2, <2>3
<1>7. ASSUME NEW v \in Workers PROVE PaidWork(v)'
  <2>1. CASE v = w
    BY <1>3, <2>1
  <2>2. CASE v # w
    BY <1>1, <1>2, <1>5, <2>2, SteadyPaid DEF Alone, Squared
  <2> QED BY <2>1, <2>2
<1>8. (given <= ByOperators)'
  BY <1>1, <1>6, HandsCover DEF Squared
<1> QED BY <1>6, <1>7, <1>8 DEF Squared

LEMMA ReadToActSquared ==
    ASSUME Booked, Papers', Onward, AllTrue, AllPaid, NEW w \in Workers, NEW r \in Ids,
           ReadForHand(w, r) \/ ReadForCancel(w, r)
    PROVE  Squared'
<1>1. Same /\ given' = given /\ Open(records[r]) /\ RecordTrue(r) /\ ~ ExceedsRemaining(records, r)
  BY NothingExceeds DEF ReadForHand, ReadForCancel, Same, doc, outer, AllTrue, AllPaid
<1>2. ASSUME MayBeSettledByHand(r)
      PROVE  \/ manual \/ records[r].reason = "disputed"
             \/ records[r].status = "failed" /\ (records[r].reversed \/ records[r].reason \in Refused)
  BY <1>1, <1>2 DEF MayBeSettledByHand, Refused
<1>3. CASE ReadForHand(w, r)
  <2>1. Alone(w) /\ call'[w].pc = "handing" /\ call'[w].rec = r /\ call'[w].read = records[r]
    BY <1>3, SetsOut
  <2>2. MayBeSettledByHand(r)
    BY <1>3 DEF ReadForHand
  <2>3. records[r].reversed => psp[r].status = "failed"
    BY <1>1 DEF RecordTrue
  <2>4. PaidWork(w)'
    BY <1>1, <1>2, <2>1, <2>2, <2>3 DEF PaidWork, Same
  <2> QED BY <1>1, <2>1, <2>4, SameSquared DEF AllPaid
<1>4. CASE ReadForCancel(w, r)
  <2>1. Alone(w) /\ call'[w].pc = "canceling" /\ call'[w].rec = r /\ call'[w].read = records[r]
    BY <1>4, SetsOut
  <2>2. ~ records[r].reversed /\ (MayBeSettledByHand(r) \/ records[r].reason = "disputed")
    BY <1>4 DEF ReadForCancel, MayBeCanceled
  <2>3. records[r].reason = "disputed" => records[r].status = "failed" /\ records[r].reason \in Refused
    BY <1>1 DEF RecordTrue, Final, Refused
  <2>4. manual \/ (records[r].status = "failed" /\ records[r].reason \in Refused)
    BY <1>2, <2>2, <2>3
  <2>5. PaidWork(w)'
    BY <1>1, <2>1, <2>4 DEF PaidWork, Same
  <2> QED BY <1>1, <2>1, <2>5, SameSquared DEF AllPaid
<1> QED BY <1>3, <1>4

-----------------------------------------------------------------------------
(* Every step leaves it paid. *)

LEMMA StepSquared ==
    ASSUME Documented, Books, Papers', Onward, AllTrue, AllPaid, NoOutside', Next
    PROVE  Squared'
<1>1. Booked /\ Squared /\ Sweeps \subseteq Workers /\ Staff \subseteq Workers /\ Own \subseteq Ids
  BY DEF Books, AllPaid, Workers, Ids
<1>2. ASSUME NEW w \in Workers, OutOfRecords(w) \/ Crash(w)
      PROVE  Squared'
  <2>1. Rests(w) /\ Same /\ given' = given
    BY <1>2 DEF OutOfRecords, Crash, Same, doc, outer
  <2> QED BY <1>1, <2>1, RestsSquared
<1>3. ASSUME NEW w \in Workers,
             (\E amount \in Amounts : BeginRefund(w, amount)) \/ BeginCancellationRefund(w) \/ OpenMissed(w)
      PROVE  Squared'
  <2>1. Alone(w) /\ call'[w].pc \in {"idle", "opening"}
    BY <1>1, <1>3, AsksFor
  <2>2. Same /\ given' = given
    BY <1>3 DEF BeginRefund, BeginCancellationRefund, OpenMissed, Same, doc, outer
  <2> QED BY <1>1, <2>1, <2>2, RestingPaid, SameSquared
<1>4. ASSUME NEW w \in Workers, HearState(w)
      PROVE  Squared'
  <2>1. Alone(w) /\ call'[w].pc \in {"idle", "applying"}
    BY <1>1, <1>4, HearsState
  <2>2. Same /\ given' = given
    BY <1>4 DEF HearState, Same, doc, outer
  <2> QED BY <1>1, <2>1, <2>2, RestingPaid, SameSquared
<1>5. ASSUME NEW w \in Workers, NEW r \in Ids, StartAttempt(w, r) \/ BeginAsking(w, r)
      PROVE  Squared'
  <2>1. Alone(w) /\ call'[w].pc \in {"claiming", "asking"}
    <3>1. CASE StartAttempt(w, r)
      <4>1. Alone(w) /\ call'[w].pc = "claiming"
        BY <1>1, <3>1, SetsOut
      <4> QED BY <4>1
    <3>2. CASE BeginAsking(w, r)
      <4>1. Alone(w) /\ call'[w].pc = "asking"
        BY <1>1, <3>2, SetsOut
      <4> QED BY <4>1
    <3> QED BY <1>5, <3>1, <3>2
  <2>2. Same /\ given' = given
    BY <1>5 DEF StartAttempt, BeginAsking, Same, doc, outer
  <2> QED BY <1>1, <2>1, <2>2, RestingPaid, SameSquared
<1>6. ASSUME NEW w \in Workers, WriteStep(w) \/ ProviderSilent(w) \/ Crash(w)
      PROVE  Squared'
  <2>1. CASE (\E r \in Own : OpenRefund(w, r)) \/ OpenMissed(w) \/ OutOfRecords(w) \/ Claim(w) \/ AskProvider(w)
    BY <1>1, <1>2, <1>3, <2>1, OpenRefundSquared, ClaimSquared, AskSquared
  <2>2. CASE SettleAttempt(w) \/ KeepPending(w) \/ RecordRefundFailure(w) \/ HearState(w) \/ ApplySuccess(w)
    BY <1>1, <1>4, <2>2, SettleAttemptSquared, KeepPendingSquared, RecordFailureSquared, ApplySuccessSquared
  <2>3. CASE ApplyFailure(w) \/ ImportRefund(w) \/ SettleRefundByHand(w) \/ CancelRefund(w)
             \/ ProviderSilent(w) \/ Crash(w)
    BY <1>1, <1>2, <2>3, ApplyFailureSquared, ImportSquared, ByHandSquared, CancelSquared, AskSquared
  <2> QED BY <1>6, <2>1, <2>2, <2>3 DEF WriteStep
<1>7. CASE \E w \in Staff, amount \in Amounts : BeginRefund(w, amount)
  BY <1>1, <1>3, <1>7
<1>8. CASE \E w \in Sweeps : BeginCancellationRefund(w)
  BY <1>1, <1>3, <1>8
<1>9. CASE \E r \in Own, amount \in Amounts : OpenReturnRefund(r, amount)
  BY <1>1, <1>9, OpenReturnRefundSquared
<1>10. CASE \E w \in Sweeps, x \in Ids : SyncRefund(w, x)
  BY <1>1, <1>5, <1>10 DEF SyncRefund
<1>11. CASE \E w \in Staff, r \in Own : ReadForHand(w, r) \/ ReadForCancel(w, r)
  BY <1>1, <1>11, ReadToActSquared
<1>12. CASE \E r \in Own : SweepVisits(r)
  BY <1>1, <1>5, <1>12 DEF SweepVisits, RereadRefund
<1>13. CASE \E x \in Ids : AttemptAges(x) \/ RetryDelayEnds(x)
  BY <1>1, <1>13, ClockSquared
<1>14. CASE \E x \in Ids : ProviderDecides(x) \/ BankSendsBack(x)
  <2>1. PICK x \in Ids : ProviderDecides(x) \/ BankSendsBack(x)
    BY <1>14
  <2>2. UNCHANGED <<records, call, manual, given>> /\ psp[x].status \in Out
    BY <2>1 DEF ProviderDecides, BankSendsBack, doc, Out
  <2>3. psp \in [Ids -> [status : Statuses, amount : Nat]]
    BY <1>1 DEF Booked, TypeOK
  <2>4. \A y \in Ids \ {x} : psp'[y] = psp[y]
    BY <2>1, <2>3 DEF ProviderDecides, BankSendsBack
  <2> QED BY <1>1, <2>2, <2>4, MovesSquared
<1>15. CASE \E x \in Outside, amount \in Amounts : DashboardRefund(x, amount)
  <2>1. PICK x \in Outside, amount \in Amounts : DashboardRefund(x, amount)
    BY <1>15
  <2>2. x \in Ids /\ psp \in [Ids -> [status : Statuses, amount : Nat]]
    BY <1>1 DEF Booked, TypeOK, Ids
  <2>3. psp'[x].status = "succeeded"
    BY <2>1, <2>2 DEF DashboardRefund
  <2> QED BY <2>3 DEF NoOutside
<1>16. CASE \E s \in {"open", "won", "lost"} : DeliverDispute(s) \/ BankMoves(s)
  <2>1. UNCHANGED <<records, manual, call, psp, given>>
    BY <1>16 DEF DeliverDispute, BankMoves, doc, outer
  <2> QED BY <1>1, <2>1, MovesSquared
<1> QED BY <1>6, <1>7, <1>8, <1>9, <1>10, <1>11, <1>12, <1>13, <1>14, <1>15, <1>16 DEF Next

(* The total stays within what was paid: it grows by what is opened, and     *)
(* with nothing refunded outside there is nothing to import, and nothing of *)
(* ours is imported.                                                        *)
LEMMA StepWithinPaid ==
    ASSUME Documented, Books, AllTrue, refunded <= Paid, NoCopies, NoOutside, Papers', Kind
    PROVE  refunded' <= Paid /\ NoCopies'
<1>1. refunded \in Nat
  BY DEF Books, Booked, TypeOK
<1>2. ASSUME NEW x \in Ids, Imports(x) PROVE FALSE
  <2>1. records[x].status = "none" /\ psp[x].status # "none" /\ RecordTrue(x)
    BY <1>2 DEF Imports, AllTrue
  <2> QED BY <2>1 DEF RecordTrue, NoOutside, Ids
<1>3. ASSUME NEW x \in Ids, Voids(x) PROVE refunded' <= Paid /\ NoCopies'
  <2>1. records[x].amount \in Nat /\ refunded' = refunded - records[x].amount
    BY <1>3 DEF Books, Booked, TypeOK, Record, Voids
  <2>2. NoCopies'
    BY <1>3 DEF Voids, OnlyRecord, NoCopies
  <2> QED BY <1>1, <2>1, <2>2, PaidType
<1>4. CASE Quiet
  BY <1>4 DEF Quiet, NoCopies
<1>6. ASSUME NEW x \in Ids, Doubles(x) PROVE FALSE
  BY <1>6 DEF Doubles, Documented
<1>5. ASSUME NEW x \in Ids, Opens(x) \/ Settles(x) \/ SendsBack(x) PROVE refunded' <= Paid /\ NoCopies'
  BY <1>5 DEF Opens, Settles, SendsBack, OnlyRecord, NoCopies
<1> QED BY <1>2, <1>3, <1>4, <1>5, <1>6 DEF Kind

LEMMA PaidInit == Init => (NoOutside => AllPaid)
<1> SUFFICES ASSUME Init PROVE AllPaid
  OBVIOUS
<1>1. /\ records = [x \in Ids |-> NoRecord] /\ copies = records
      /\ call = [w \in Workers |-> Idle] /\ refunded = 0 /\ given = 0
      /\ psp = [x \in Ids |-> [status |-> "none", amount |-> 0]]
  BY DEF Init
<1>2. ASSUME NEW x \in Ids PROVE PaidRecord(x) /\ HandPart(x) = 0
  BY <1>1 DEF PaidRecord, HandPart, HandPaid, NoRecord, Out
<1>3. ASSUME NEW w \in Workers PROVE PaidWork(w)
  BY <1>1 DEF PaidWork, Idle
<1>4. given <= ByOperators
  <2> DEFINE f == [x \in Ids |-> HandPart(x)]
  <2>1. f \in [Ids -> Nat] /\ \A x \in Ids : f[x] = 0
    BY <1>2
  <2>2. ByOperators = Sum(f)
    BY DEF ByOperators
  <2> HIDE DEF f
  <2>3. Sum(f) = 0
    BY <2>1, Finite, SumZero
  <2> QED BY <1>1, <2>2, <2>3
<1>5. NoCopies
  BY <1>1 DEF NoCopies, NoRecord
<1> QED BY <1>1, <1>2, <1>3, <1>4, <1>5, PaidType DEF AllPaid, Squared

LEMMA PaidStep ==
    ASSUME Documented, Books, AllTrue, NoOutside => AllPaid, [Next]_vars
    PROVE  (NoOutside => AllPaid)'
<1>1. CASE UNCHANGED vars
  <2>1. UNCHANGED <<manual, refunded, records, copies, call, psp, given>>
    BY <1>1 DEF vars
  <2>2. (\A x \in Ids : PaidRecord(x) <=> PaidRecord(x)') /\ (\A w \in Workers : PaidWork(w) <=> PaidWork(w)')
    BY <2>1 DEF PaidRecord, PaidWork, Attempting
  <2>3. ByOperators' = ByOperators
    BY <2>1 DEF ByOperators, HandPart, HandPaid
  <2> QED BY <2>1, <2>2, <2>3 DEF AllPaid, NoCopies, Squared, NoOutside
<1>2. ASSUME Next, NoOutside' PROVE AllPaid'
  <2>1. Papers' /\ Kind /\ Onward
    BY <1>2, StepAdvances, StepOnward DEF Books, Advances, Documented
  <2>2. NoOutside
    BY <1>2, <2>1 DEF NoOutside, Onward, Ids
  <2>3. Squared'
    BY <1>2, <2>1, <2>2, StepSquared
  <2>4. refunded' <= Paid /\ NoCopies'
    BY <2>1, <2>2, StepWithinPaid DEF AllPaid
  <2> QED BY <2>3, <2>4 DEF AllPaid
<1> QED BY <1>1, <1>2

(* The buyer never gets back more than was paid, for any number of records, *)
(* requests, sweeps, operators, crashes and outages, as long as nobody      *)
(* refunds outside the application and the program is as documented: five   *)
(* departures that its code allows are excluded by name.                    *)
THEOREM NobodyIsOverPaid ==
    ASSUME Documented
    PROVE  Spec => []NeverOverPaid
<1>1. Init => (NoOutside => AllPaid)
  BY PaidInit
<1>2. Books /\ AllTrue /\ (NoOutside => AllPaid) /\ [Next]_vars => (NoOutside => AllPaid)'
  BY PaidStep
<1>3. NoStaleHand
  BY DEF Documented
<1>4. Spec => [](Books /\ AllTrue /\ CopiesTrue)
  BY <1>3, TrueInvariant
<1>5. Books /\ AllTrue /\ (NoOutside => AllPaid) => NeverOverPaid
  <2> SUFFICES ASSUME Books, AllTrue, NoOutside => AllPaid, NoOutside PROVE Received <= Paid
    BY DEF NeverOverPaid, NoOutside
  <2> QED BY PaidIsEnough
<1> QED BY <1>1, <1>2, <1>4, <1>5, PTL DEF Spec
=============================================================================
