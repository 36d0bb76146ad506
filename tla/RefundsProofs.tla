--------------------------- MODULE RefundsProofs ---------------------------
(***************************************************************************)
(* Refunds: the total is what the records name, a voided record stays      *)
(* closed, the stamp agrees with the records, and every step is a step of  *)
(* the abstract ledger, for any number of records, workers, crashes and    *)
(* outages.                                                                *)
(***************************************************************************)
EXTENDS Refunds, SumTheorems

(* The theorems below are about operators whose write lands on the record  *)
(* as they read it; `stale hand` is the departure from that.               *)
NoStaleHand == "stale hand" \notin Divergences

-----------------------------------------------------------------------------
(* The strengthening: what keeps the books. *)

(* What a worker set out to do is still about a record that may be worked   *)
(* on: nobody but a reader who will stop is left at a voided record.        *)
Sound(work, docs) ==
    /\ work.pc \notin {"idle", "opening"} => work.rec \in Ids
    /\ work.pc \in {"idle", "opening"} => work.rec = NoOne
    /\ work.reason # "canceled"
    /\ work.pc = "opening" => work.amount > 0 /\ work.seen + work.amount <= Paid
    /\ work.pc = "sending" => docs[work.rec].status # "none"
    /\ work.pc \in {"handing", "canceling"} => Open(work.read)
    /\ \A x \in Ids : work.rec = x /\ docs[x].reason = "canceled" =>
          work.pc = "asking" /\ KnownAs(work.read) = "failed"
WorkSound == \A w \in Workers : Sound(call[w], records)

CanceledIsFailed ==
    \A x \in Ids : records[x].reason = "canceled" => records[x].status = "failed" /\ ~ records[x].waiting

(* Nothing is promised or sent that is worth nothing. *)
RecordsWorth == \A x \in Ids : records[x].status # "none" => records[x].amount > 0
SentWorth == \A x \in Ids : psp[x].status # "none" => psp[x].amount > 0

(* A second record of a refund is written settled and stays so. *)
CopiesSettled ==
    \A x \in Ids :
        /\ copies[x].reason = "none"
        /\ copies[x].status = "none" \/ (copies[x].status = "succeeded" /\ copies[x].ref /\ copies[x].amount > 0)

Booked == TypeOK /\ TotalIsWhatRecordsName /\ CanceledIsFailed /\ RecordsWorth /\ CopiesSettled
          /\ SentWorth /\ WorkSound

(* TypeOK without the total, in parts. *)
World ==
    /\ manual \in BOOLEAN
    /\ dispute \in {"none", "open", "won", "lost"} /\ bank \in {"none", "open", "won", "lost"}
    /\ psp \in [Ids -> [status : Statuses, amount : Nat]]
    /\ given \in Nat
    /\ faults \in 0 .. MaxFaults
    /\ SentWorth
Papers == records \in [Ids -> Record] /\ copies \in [Ids -> Record] /\ stamp \in {"none", "partial", "refunded"}
Busy == call \in [Workers -> Work] /\ WorkSound

-----------------------------------------------------------------------------
(* The kinds of steps, seen from the records. *)

(* A record is worked on: neither promised, returned nor voided by it. *)
Calm(d, e) ==
    /\ e.amount = d.amount
    /\ e.status = "none" <=> d.status = "none"
    /\ e.status = "succeeded" <=> d.status = "succeeded"
    /\ d.reason = "canceled" \/ e.reason = "canceled" => e = d
Quiet ==
    /\ \A x \in Ids : Calm(records[x], records'[x])
    /\ dispute = "lost" => dispute' = "lost"
    /\ UNCHANGED <<refunded, copies, stamp>>

OnlyRecord(x) == (\A y \in Ids \ {x} : records'[y] = records[y]) /\ UNCHANGED copies
Opens(x) ==
    /\ records[x].status = "none"
    /\ records'[x].status = "pending" /\ records'[x].reason = "none" /\ records'[x].amount > 0
    /\ refunded' = refunded + records'[x].amount /\ refunded' <= Paid
    /\ OnlyRecord(x)
    /\ UNCHANGED <<stamp, dispute>>
Settles(x) ==
    /\ Open(records[x])
    /\ records'[x].status = "succeeded" /\ records'[x].reason = "none"
    /\ records'[x].amount = records[x].amount
    /\ stamp' = Stamped(records')
    /\ OnlyRecord(x)
    /\ UNCHANGED <<refunded, dispute>>
SendsBack(x) ==
    /\ records[x].status = "succeeded"
    /\ records'[x].status = "failed" /\ records'[x].reason # "canceled"
    /\ records'[x].amount = records[x].amount
    /\ stamp' = IF \E y \in Ids : "succeeded" \in {records'[y].status, copies[y].status}
                THEN "partial" ELSE "none"
    /\ OnlyRecord(x)
    /\ UNCHANGED <<refunded, dispute>>
Imports(x) ==
    /\ records[x].status = "none" /\ psp[x].status # "none"
    /\ records'[x].status = "succeeded" /\ records'[x].reason = "none" /\ records'[x].amount > 0
    /\ refunded' = refunded + records'[x].amount
    /\ stamp' = IF FullyRefunded(records', refunded') THEN "refunded" ELSE "partial"
    /\ OnlyRecord(x)
    /\ UNCHANGED dispute
Doubles(x) ==
    /\ "imported twice" \in Divergences
    /\ copies[x].status = "none" /\ psp[x].status \in {"succeeded", "failed"}
    /\ copies'[x].amount = psp[x].amount
    /\ copies'[x].status = "succeeded" /\ copies'[x].ref /\ copies'[x].reason = "none" /\ copies'[x].amount > 0
    /\ \A y \in Ids \ {x} : copies'[y] = copies[y]
    /\ refunded' = refunded + copies'[x].amount
    /\ stamp' = IF FullyRefunded(records', refunded') THEN "refunded" ELSE "partial"
    /\ UNCHANGED <<records, dispute>>
Voids(x) ==
    /\ Open(records[x])
    /\ records'[x].status = "failed" /\ records'[x].reason = "canceled" /\ ~ records'[x].waiting
    /\ records'[x].amount = records[x].amount
    /\ refunded' = refunded - records[x].amount
    /\ OnlyRecord(x)
    /\ UNCHANGED <<stamp, dispute>>

Kind == Quiet \/ \E x \in Ids : Opens(x) \/ Settles(x) \/ SendsBack(x) \/ Imports(x) \/ Voids(x) \/ Doubles(x)
Advances == World' /\ Papers' /\ Busy' /\ Kind

-----------------------------------------------------------------------------
(* Types and totals. *)

LEMMA Finite == IsFiniteSet(Ids)
BY RefundsAssumption, FS_Union DEF Ids

LEMMA FaultType ==
    ASSUME TypeOK, faults' = faults \/ Fault
    PROVE  faults' \in 0 .. MaxFaults
<1>1. MaxFaults \in Nat
  BY RefundsAssumption
<1>2. faults \in 0 .. MaxFaults
  BY DEF TypeOK
<1>3. CASE faults' = faults
  BY <1>2, <1>3
<1>4. CASE Fault
  <2>1. faults < MaxFaults /\ faults' = faults + 1
    BY <1>4 DEF Fault
  <2> QED BY <1>1, <1>2, <2>1
<1> QED BY <1>3, <1>4

LEMMA NoRecordType == NoRecord \in Record
BY DEF NoRecord, Record, Statuses, Reasons

LEMMA IdleType == Idle \in Work /\ \A docs \in [Ids -> Record] : Sound(Idle, docs)
<1>1. Idle \in Work
  BY NoRecordType DEF Idle, Work, Steps, Reasons
<1>2. NoOne \notin Ids
  BY RefundsAssumption DEF Ids
<1> QED BY <1>1, <1>2 DEF Sound, Idle

LEMMA PaidType == Paid \in Nat /\ DisputeAmount \in Nat
<1>1. Paid \in Nat /\ DisputeAmount \in 0 .. Paid
  BY RefundsAssumption
<1> QED BY <1>1

LEMMA RemainingType ==
    ASSUME NEW total \in Nat
    PROVE  Remaining(total) \in Int /\ Remaining(total) + total <= Paid
           /\ (dispute # "lost" => Remaining(total) = Paid - total)
BY PaidType DEF Remaining, LostToChargebacks

(* What the record of x counts for in the total. *)
Counts(d) == IF d.status # "none" /\ d.reason # "canceled" THEN d.amount ELSE 0
Back(d) == IF d.status = "succeeded" THEN d.amount ELSE 0

LEMMA PromisedIs ==
    ASSUME NEW docs \in [Ids -> Record]
    PROVE  /\ Promised(docs) = Sum([x \in Ids |-> Counts(docs[x])])
           /\ [x \in Ids |-> Counts(docs[x])] \in [Ids -> Nat]
           /\ ReturnedBy(docs) = Sum([x \in Ids |-> Back(docs[x])])
           /\ [x \in Ids |-> Back(docs[x])] \in [Ids -> Nat]
BY DEF Promised, ReturnedBy, Counts, Back, Record

LEMMA TotalsType ==
    ASSUME NEW docs \in [Ids -> Record]
    PROVE  Promised(docs) \in Nat /\ ReturnedBy(docs) \in Nat
<1> DEFINE f == [y \in Ids |-> Counts(docs[y])]
           h == [y \in Ids |-> Back(docs[y])]
<1>1. f \in [Ids -> Nat] /\ h \in [Ids -> Nat] /\ Promised(docs) = Sum(f) /\ ReturnedBy(docs) = Sum(h)
  BY PromisedIs
<1> HIDE DEF f, h
<1>2. Sum(f) \in Nat
  BY <1>1, Finite, SumType
<1>3. Sum(h) \in Nat
  BY <1>1, Finite, SumType
<1> QED BY <1>1, <1>2, <1>3

(* The totals follow the one record that changes. *)
LEMMA PromisedChange ==
    ASSUME NEW docs \in [Ids -> Record], NEW new \in [Ids -> Record], NEW x \in Ids,
           \A y \in Ids \ {x} : new[y] = docs[y]
    PROVE  /\ Promised(new) - Counts(new[x]) = Promised(docs) - Counts(docs[x])
           /\ ReturnedBy(new) - Back(new[x]) = ReturnedBy(docs) - Back(docs[x])
<1> DEFINE f == [y \in Ids |-> Counts(docs[y])]
           g == [y \in Ids |-> Counts(new[y])]
           h == [y \in Ids |-> Back(docs[y])]
           k == [y \in Ids |-> Back(new[y])]
<1>1. f \in [Ids -> Nat] /\ g \in [Ids -> Nat] /\ h \in [Ids -> Nat] /\ k \in [Ids -> Nat]
  BY PromisedIs
<1>2. Promised(new) = Sum(g) /\ Promised(docs) = Sum(f) /\ ReturnedBy(new) = Sum(k) /\ ReturnedBy(docs) = Sum(h)
  BY PromisedIs
<1>3. \A y \in Ids \ {x} : g[y] = f[y] /\ k[y] = h[y]
  OBVIOUS
<1>4. g[x] = Counts(new[x]) /\ f[x] = Counts(docs[x]) /\ k[x] = Back(new[x]) /\ h[x] = Back(docs[x])
  OBVIOUS
<1> HIDE DEF f, g, h, k
<1>5. Sum(g) - g[x] = Sum(f) - f[x]
  BY <1>1, <1>3, Finite, SumChange
<1>6. Sum(k) - k[x] = Sum(h) - h[x]
  BY <1>1, <1>3, Finite, SumChange
<1> QED BY <1>2, <1>4, <1>5, <1>6

(* What is returned was promised, and each record's part is in the total. *)
LEMMA PromisedCovers ==
    ASSUME NEW docs \in [Ids -> Record],
           \A y \in Ids : docs[y].reason = "canceled" => docs[y].status = "failed"
    PROVE  /\ Promised(docs) \in Nat /\ ReturnedBy(docs) \in Nat
           /\ ReturnedBy(docs) <= Promised(docs)
           /\ \A x \in Ids : Counts(docs[x]) <= Promised(docs)
<1> DEFINE f == [y \in Ids |-> Counts(docs[y])]
           h == [y \in Ids |-> Back(docs[y])]
<1>1. f \in [Ids -> Nat] /\ h \in [Ids -> Nat]
  BY PromisedIs
<1>2. Promised(docs) = Sum(f) /\ ReturnedBy(docs) = Sum(h)
  BY PromisedIs
<1>3. \A y \in Ids : h[y] <= f[y]
  BY <1>1 DEF Counts, Back, Record
<1>4. \A y \in Ids : f[y] = Counts(docs[y])
  OBVIOUS
<1> HIDE DEF f, h
<1>5. Sum(f) \in Nat /\ Sum(h) \in Nat
  BY <1>1, Finite, SumType
<1>6. Sum(h) <= Sum(f)
  BY <1>1, <1>3, Finite, SumMonotone
<1>7. \A x \in Ids : f[x] <= Sum(f)
  BY <1>1, Finite, EntryInSum
<1> QED BY <1>2, <1>4, <1>5, <1>6, <1>7

(* Records that are only worked on leave both totals alone. *)
LEMMA CalmTotals ==
    ASSUME NEW docs \in [Ids -> Record], NEW new \in [Ids -> Record],
           \A x \in Ids : Calm(docs[x], new[x])
    PROVE  Promised(new) = Promised(docs) /\ ReturnedBy(new) = ReturnedBy(docs)
<1>1. \A x \in Ids : Counts(new[x]) = Counts(docs[x]) /\ Back(new[x]) = Back(docs[x])
  BY DEF Calm, Counts, Back
<1>2. [x \in Ids |-> Counts(docs[x])] = [x \in Ids |-> Counts(new[x])]
      /\ [x \in Ids |-> Back(docs[x])] = [x \in Ids |-> Back(new[x])]
  BY <1>1
<1> QED BY <1>2, PromisedIs

-----------------------------------------------------------------------------
(* The books, by the kind of the step. *)

LEMMA OneRecord ==
    ASSUME TypeOK, Papers', NEW x \in Ids, OnlyRecord(x)
    PROVE  /\ records \in [Ids -> Record] /\ records' \in [Ids -> Record]
           /\ Promised(records') - Counts(records'[x]) = Promised(records) - Counts(records[x])
           /\ ReturnedBy(records') - Back(records'[x]) = ReturnedBy(records) - Back(records[x])
           /\ Promised(records) \in Int /\ Promised(records') \in Int
           /\ ReturnedBy(records) \in Int /\ ReturnedBy(records') \in Int
<1>1. records \in [Ids -> Record] /\ records' \in [Ids -> Record]
  BY DEF TypeOK, Papers
<1>2. Promised(records) \in Int /\ ReturnedBy(records) \in Int
  BY <1>1, TotalsType
<1>3. Promised(records') \in Int /\ ReturnedBy(records') \in Int
  BY <1>1, TotalsType
<1>4. \A y \in Ids \ {x} : records'[y] = records[y]
  BY DEF OnlyRecord
<1>5. /\ Promised(records') - Counts(records'[x]) = Promised(records) - Counts(records[x])
      /\ ReturnedBy(records') - Back(records'[x]) = ReturnedBy(records) - Back(records[x])
  BY <1>1, <1>4, PromisedChange
<1> QED BY <1>1, <1>2, <1>3, <1>5

(* What a record counts for before and after each kind of step. *)
LEMMA OneCounts ==
    ASSUME TypeOK, Papers', CanceledIsFailed, NEW x \in Ids
    PROVE  /\ Opens(x) => /\ Counts(records[x]) = 0 /\ Back(records[x]) = 0
                          /\ Counts(records'[x]) = records'[x].amount /\ Back(records'[x]) = 0
           /\ Settles(x) => /\ Counts(records'[x]) = Counts(records[x]) /\ Back(records[x]) = 0
                            /\ Back(records'[x]) = records[x].amount
           /\ SendsBack(x) => /\ Counts(records'[x]) = Counts(records[x]) /\ Back(records'[x]) = 0
                              /\ Back(records[x]) = records[x].amount
           /\ Imports(x) => /\ Counts(records[x]) = 0 /\ Back(records[x]) = 0
                            /\ Counts(records'[x]) = records'[x].amount
                            /\ Back(records'[x]) = records'[x].amount
           /\ Voids(x) => /\ Counts(records[x]) = records[x].amount /\ Counts(records'[x]) = 0
                          /\ Back(records[x]) = 0 /\ Back(records'[x]) = 0
           /\ records[x].amount \in Nat /\ records'[x].amount \in Nat
<1>1. records[x].amount \in Nat /\ records'[x].amount \in Nat
  BY DEF TypeOK, Papers, Record
<1>2. records[x].reason = "canceled" => records[x].status = "failed"
  BY DEF CanceledIsFailed
<1> QED BY <1>1, <1>2 DEF Opens, Settles, SendsBack, Imports, Voids, Counts, Back, Open

(* A second record of a refund counts in both totals. *)
LEMMA DoubledTotals ==
    ASSUME copies \in [Ids -> Record], copies' \in [Ids -> Record], NEW x \in Ids, Doubles(x)
    PROVE  /\ Promised(copies') = Promised(copies) + copies'[x].amount
           /\ ReturnedBy(copies') = ReturnedBy(copies) + copies'[x].amount
           /\ Promised(copies) \in Int /\ ReturnedBy(copies) \in Int
<1>1. \A y \in Ids \ {x} : copies'[y] = copies[y]
  BY DEF Doubles
<1>2. /\ Promised(copies') - Counts(copies'[x]) = Promised(copies) - Counts(copies[x])
      /\ ReturnedBy(copies') - Back(copies'[x]) = ReturnedBy(copies) - Back(copies[x])
  BY <1>1, PromisedChange
<1>3. /\ Counts(copies[x]) = 0 /\ Counts(copies'[x]) = copies'[x].amount
      /\ Back(copies[x]) = 0 /\ Back(copies'[x]) = copies'[x].amount /\ copies'[x].amount \in Nat
  BY DEF Doubles, Counts, Back, Record
<1>4. Promised(copies) \in Int /\ ReturnedBy(copies) \in Int
  BY TotalsType
<1>5. Promised(copies') \in Int /\ ReturnedBy(copies') \in Int
  BY TotalsType
<1> QED BY <1>2, <1>3, <1>4, <1>5

LEMMA KindKeeps ==
    ASSUME TypeOK, TotalIsWhatRecordsName, CanceledIsFailed, RecordsWorth, CopiesSettled, Papers', Kind
    PROVE  refunded' \in Nat /\ TotalIsWhatRecordsName' /\ CanceledIsFailed' /\ RecordsWorth' /\ CopiesSettled'
<1>1. records \in [Ids -> Record] /\ records' \in [Ids -> Record] /\ refunded \in Nat
      /\ copies \in [Ids -> Record] /\ copies' \in [Ids -> Record]
  BY DEF TypeOK, Papers
<1>2. CanceledIsFailed' /\ RecordsWorth'
  <2>1. CASE Quiet
    BY <2>1 DEF Quiet, Calm, CanceledIsFailed, RecordsWorth
  <2>2. ASSUME NEW x \in Ids, Opens(x) \/ Settles(x) \/ SendsBack(x) \/ Imports(x) \/ Voids(x)
        PROVE  CanceledIsFailed' /\ RecordsWorth'
    <3>1. \A y \in Ids \ {x} : records'[y] = records[y]
      BY <2>2 DEF Opens, Settles, SendsBack, Imports, Voids, OnlyRecord
    <3>2. (records'[x].reason = "canceled" => records'[x].status = "failed" /\ ~ records'[x].waiting)
      BY <2>2 DEF Opens, Settles, SendsBack, Imports, Voids
    <3>3. records'[x].amount > 0
      <4>1. records[x].status # "none" => records[x].amount > 0
        BY DEF RecordsWorth
      <4> QED BY <2>2, <4>1 DEF Opens, Settles, SendsBack, Imports, Voids, Open
    <3> QED BY <3>1, <3>2, <3>3 DEF CanceledIsFailed, RecordsWorth
  <2>3. ASSUME NEW x \in Ids, Doubles(x)
        PROVE  CanceledIsFailed' /\ RecordsWorth'
    BY <2>3 DEF Doubles, CanceledIsFailed, RecordsWorth
  <2> QED BY <2>1, <2>2, <2>3 DEF Kind
<1>3. CopiesSettled'
  <2>1. CASE UNCHANGED copies
    BY <2>1 DEF CopiesSettled
  <2>2. ASSUME NEW x \in Ids, Doubles(x)
        PROVE  CopiesSettled'
    BY <2>2 DEF Doubles, CopiesSettled
  <2> QED BY <2>1, <2>2 DEF Kind, Quiet, Opens, Settles, SendsBack, Imports, Voids, OnlyRecord
<1>4. TotalIsWhatRecordsName'
  <2>1. CASE Quiet
    <3>1. Promised(records') = Promised(records) /\ UNCHANGED <<refunded, copies>>
      BY <1>1, <2>1, CalmTotals DEF Quiet
    <3> QED BY <3>1 DEF TotalIsWhatRecordsName
  <2>2. ASSUME NEW x \in Ids, Opens(x) \/ Settles(x) \/ SendsBack(x) \/ Imports(x) \/ Voids(x)
        PROVE  TotalIsWhatRecordsName'
    <3>1. OnlyRecord(x)
      BY <2>2 DEF Opens, Settles, SendsBack, Imports, Voids
    <3>2. refunded = Promised(records) + Promised(copies) /\ copies' = copies /\ Promised(copies) \in Int
      BY <1>1, <3>1, TotalsType DEF TotalIsWhatRecordsName, OnlyRecord
    <3>3. /\ Promised(records') - Counts(records'[x]) = Promised(records) - Counts(records[x])
          /\ Promised(records) \in Int /\ Promised(records') \in Int
      BY <3>1, OneRecord
    <3>4. refunded' = refunded + (Counts(records'[x]) - Counts(records[x]))
      <4>1. CASE Opens(x)
        BY <1>1, <4>1, OneCounts DEF Opens
      <4>2. CASE Settles(x)
        BY <1>1, <4>2, OneCounts DEF Settles, Counts
      <4>3. CASE SendsBack(x)
        BY <1>1, <4>3, OneCounts DEF SendsBack, Counts
      <4>4. CASE Imports(x)
        BY <1>1, <4>4, OneCounts DEF Imports
      <4>5. CASE Voids(x)
        BY <1>1, <4>5, OneCounts DEF Voids
      <4> QED BY <2>2, <4>1, <4>2, <4>3, <4>4, <4>5
    <3>5. Counts(records'[x]) \in Int /\ Counts(records[x]) \in Int
      BY OneCounts DEF Counts
    <3>6. refunded' = Promised(records') + Promised(copies)
      BY <3>2, <3>3, <3>4, <3>5
    <3> QED BY <3>2, <3>6 DEF TotalIsWhatRecordsName
  <2>3. ASSUME NEW x \in Ids, Doubles(x)
        PROVE  TotalIsWhatRecordsName'
    <3>1. Promised(copies') = Promised(copies) + copies'[x].amount /\ Promised(copies) \in Int
      BY <1>1, <2>3, DoubledTotals
    <3>2. Promised(records) \in Int /\ refunded = Promised(records) + Promised(copies)
      BY <1>1, TotalsType DEF TotalIsWhatRecordsName
    <3>3. refunded' = refunded + copies'[x].amount /\ records' = records /\ copies'[x].amount \in Int
      <4>1. copies'[x].amount \in Int
        BY <1>1 DEF Record
      <4> QED BY <2>3, <4>1 DEF Doubles
    <3>4. refunded' = Promised(records) + Promised(copies')
      BY <3>1, <3>2, <3>3
    <3> QED BY <3>3, <3>4 DEF TotalIsWhatRecordsName
  <2> QED BY <2>1, <2>2, <2>3 DEF Kind
<1>5. refunded' \in Nat
  <2>1. refunded' = Promised(records') + Promised(copies')
    BY <1>4 DEF TotalIsWhatRecordsName
  <2>2. Promised(records') \in Nat /\ Promised(copies') \in Nat
    BY <1>1, TotalsType
  <2> QED BY <2>1, <2>2
<1> QED BY <1>2, <1>3, <1>4, <1>5

-----------------------------------------------------------------------------
(* Workers. *)

LEMMA KeepsWorld ==
    ASSUME Booked, UNCHANGED <<manual, dispute, psp, bank, given>>, faults' = faults \/ Fault
    PROVE  World'
<1>1. faults' \in 0 .. MaxFaults
  BY FaultType DEF Booked
<1> QED BY <1>1 DEF Booked, TypeOK, World, SentWorth

LEMMA CallType ==
    ASSUME TypeOK, NEW w \in Workers, NEW work \in Work
    PROVE  [call EXCEPT ![w] = work] \in [Workers -> Work]
BY DEF TypeOK

(* One worker moves on; the records stay where the others left them.  Only   *)
(* where nobody else is may a record become a voided one.                   *)
KeepsOthers(w) == \A x \in Ids :
    /\ records[x].status # "none" => records'[x].status # "none"
    /\ records'[x].reason = "canceled" =>
          records[x].reason = "canceled" \/ \A v \in Workers \ {w} : call[v].rec # x

LEMMA OthersSound ==
    ASSUME Booked, Papers', NEW w \in Workers, NEW work \in Work, Does(w, work),
           Sound(work, records'), KeepsOthers(w)
    PROVE  Busy'
<1>1. call' \in [Workers -> Work] /\ call'[w] = work /\ \A v \in Workers \ {w} : call'[v] = call[v]
  BY CallType DEF Booked, TypeOK, Does
<1>2. ASSUME NEW v \in Workers PROVE Sound(call'[v], records')
  <2>1. CASE v = w
    BY <1>1, <2>1
  <2>2. CASE v # w
    <3>1. Sound(call[v], records) /\ call'[v] = call[v]
      BY <1>1, <2>2 DEF Booked, WorkSound
    <3>2. \A x \in Ids : (records[x].status # "none" => records'[x].status # "none")
             /\ (records'[x].reason = "canceled" => records[x].reason = "canceled" \/ call[v].rec # x)
      BY <2>2 DEF KeepsOthers
    <3>3. Sound(call[v], records')
      BY <3>1, <3>2 DEF Sound
    <3> QED BY <3>1, <3>3
  <2> QED BY <2>1, <2>2
<1> QED BY <1>1, <1>2 DEF Busy, WorkSound

LEMMA CalmOthers ==
    ASSUME \A x \in Ids : Calm(records[x], records'[x]), NEW w \in Workers
    PROVE  KeepsOthers(w)
BY DEF KeepsOthers, Calm

LEMMA SameIsCalm ==
    ASSUME records' = records
    PROVE  \A x \in Ids : Calm(records[x], records'[x])
BY DEF Calm

(* A worker that reads, hears or gives up: the documents are not written.   *)
LEMMA JustWork ==
    ASSUME Booked, World', NEW w \in Workers, NEW work \in Work, Does(w, work), Sound(work, records),
           UNCHANGED <<doc, dispute>>
    PROVE  Advances
<1>1. UNCHANGED <<records, refunded, copies, stamp, dispute>>
  BY DEF doc
<1>2. Papers' /\ Papers
  BY <1>1 DEF Booked, TypeOK, Papers
<1>3. \A x \in Ids : Calm(records[x], records'[x])
  BY <1>1, SameIsCalm
<1>4. Sound(work, records')
  BY <1>1
<1>5. Busy'
  BY <1>2, <1>3, <1>4, CalmOthers, OthersSound
<1>6. Quiet
  BY <1>1, <1>3 DEF Quiet
<1> QED BY <1>2, <1>5, <1>6 DEF Advances, Kind

LEMMA JustRests ==
    ASSUME Booked, World', NEW w \in Workers, Rests(w), UNCHANGED <<doc, dispute>>
    PROVE  Advances
<1>1. Idle \in Work /\ Sound(Idle, records)
  BY IdleType DEF Booked, TypeOK
<1> QED BY <1>1, JustWork DEF Rests

(* A worker that writes one record, without promising or returning money.   *)
LEMMA WorksOn ==
    ASSUME Booked, World', NEW w \in Workers, NEW work \in Work, Does(w, work), Sound(work, records'),
           NEW r \in Ids, NEW d \in Record, Calm(records[r], d), records' = [records EXCEPT ![r] = d],
           UNCHANGED <<refunded, copies, stamp, dispute>>
    PROVE  Advances
<1>1. records \in [Ids -> Record] /\ copies \in [Ids -> Record] /\ stamp \in {"none", "partial", "refunded"}
  BY DEF Booked, TypeOK
<1>2. Papers'
  BY <1>1 DEF Papers
<1>3. \A x \in Ids : Calm(records[x], records'[x])
  BY <1>1 DEF Calm
<1>4. Busy'
  BY <1>2, <1>3, CalmOthers, OthersSound
<1>5. Quiet
  BY <1>3 DEF Quiet
<1> QED BY <1>2, <1>4, <1>5 DEF Advances, Kind

LEMMA IdleAfter ==
    ASSUME Papers'
    PROVE  Idle \in Work /\ Sound(Idle, records')
BY IdleType DEF Papers

LEMMA RestsAfter ==
    ASSUME Booked, World', NEW w \in Workers, Rests(w), NEW r \in Ids, NEW d \in Record,
           Calm(records[r], d), records' = [records EXCEPT ![r] = d],
           UNCHANGED <<refunded, copies, stamp, dispute>>
    PROVE  Advances
<1>1. records' \in [Ids -> Record]
  BY DEF Booked, TypeOK
<1>2. Idle \in Work /\ Sound(Idle, records')
  BY <1>1, IdleType
<1> QED BY <1>2, WorksOn DEF Rests

(* Nobody moves; the rest of the world or a clock does. *)
LEMMA NobodyMoves ==
    ASSUME Booked, World', call' = call, Papers', \A x \in Ids : Calm(records[x], records'[x]),
           dispute = "lost" => dispute' = "lost", UNCHANGED <<refunded, copies, stamp>>
    PROVE  Advances
<1>1. call' \in [Workers -> Work]
  BY DEF Booked, TypeOK
<1>2. ASSUME NEW v \in Workers PROVE Sound(call'[v], records')
  <2>1. Sound(call[v], records)
    BY DEF Booked, WorkSound
  <2> QED BY <2>1 DEF Sound, Calm
<1>3. Quiet
  BY DEF Quiet
<1> QED BY <1>1, <1>2, <1>3 DEF Advances, Busy, WorkSound, Kind

-----------------------------------------------------------------------------
(* The actions that only read, ask or give up. *)

LEMMA ReadingSound ==
    ASSUME Booked, NEW amount \in Int, NEW all \in BOOLEAN, amount > 0, amount <= Remaining(refunded)
    PROVE  Reading(amount, all) \in Work /\ Sound(Reading(amount, all), records)
<1>1. refunded \in Nat
  BY DEF Booked, TypeOK
<1>2. refunded + amount <= Paid
  BY <1>1, RemainingType, PaidType
<1>3. amount \in Nat
  OBVIOUS
<1>4. Idle \in Work /\ Sound(Idle, records)
  BY IdleType DEF Booked, TypeOK
<1>5. Reading(amount, all) \in Work
  BY <1>1, <1>3, <1>4 DEF Reading, Work, Steps
<1>6. NoOne \notin Ids
  BY RefundsAssumption DEF Ids
<1>7. Sound(Reading(amount, all), records)
  BY <1>2, <1>6 DEF Reading, Sound, Idle
<1> QED BY <1>5, <1>7

LEMMA BeginsReading ==
    ASSUME Booked, NEW w \in Workers, NEW amount \in Int, NEW all \in BOOLEAN, amount > 0,
           amount <= Remaining(refunded), Does(w, Reading(amount, all)),
           UNCHANGED <<manual, doc, dispute, outer, faults>>
    PROVE  Advances
<1>1. World'
  BY KeepsWorld DEF outer
<1> QED BY <1>1, ReadingSound, JustWork

LEMMA BeginRefundAdvances ==
    ASSUME Booked, NEW w \in Workers, NEW amount \in Amounts, BeginRefund(w, amount)
    PROVE  Advances
<1>1. amount \in Int /\ amount > 0
  <2>1. Amounts \subseteq Nat \ {0}
    BY RefundsAssumption
  <2> QED BY <2>1
<1> QED BY <1>1, BeginsReading DEF BeginRefund

LEMMA BeginCancellationAdvances ==
    ASSUME Booked, NEW w \in Workers, BeginCancellationRefund(w)
    PROVE  Advances
<1> DEFINE left == Remaining(refunded)
<1>1. left \in Int
  BY RemainingType DEF Booked, TypeOK
<1>2. left > 0 /\ Does(w, Reading(left, TRUE)) /\ UNCHANGED <<manual, doc, dispute, outer, faults>>
  BY DEF BeginCancellationRefund
<1>3. left <= Remaining(refunded)
  BY <1>1
<1> HIDE DEF left
<1> QED BY <1>1, <1>2, <1>3, BeginsReading

LEMMA OpenMissedAdvances ==
    ASSUME Booked, NEW w \in Workers, OpenMissed(w)
    PROVE  Advances
<1> DEFINE left == Remaining(refunded)
           amount == IF call[w].all THEN left ELSE call[w].amount
<1>1. left \in Int /\ amount \in Int /\ call[w].all \in BOOLEAN
  BY RemainingType DEF Booked, TypeOK, Work
<1>2. World'
  BY KeepsWorld DEF OpenMissed, outer
<1>3. CASE amount > 0 /\ amount <= left
  <2>1. Does(w, Reading(amount, call[w].all))
    BY <1>3 DEF OpenMissed
  <2> HIDE DEF amount
  <2> QED BY <1>1, <1>3, <2>1, BeginsReading DEF OpenMissed
<1>4. CASE ~ (amount > 0 /\ amount <= left)
  BY <1>2, <1>4, JustRests DEF OpenMissed
<1> QED BY <1>3, <1>4

LEMMA OutOfRecordsAdvances ==
    ASSUME Booked, NEW w \in Workers, OutOfRecords(w)
    PROVE  Advances
BY KeepsWorld, JustRests DEF OutOfRecords, outer

LEMMA CrashAdvances ==
    ASSUME Booked, NEW w \in Workers, Crash(w)
    PROVE  Advances
BY KeepsWorld, JustRests DEF Crash, outer

(* Setting out to work on a record that is not voided. *)
LEMMA StartAttemptAdvances ==
    ASSUME Booked, NEW w \in Workers, NEW r \in Ids, StartAttempt(w, r)
    PROVE  Advances
<1> DEFINE work == [Idle EXCEPT !.pc = "claiming", !.rec = r]
<1>1. work \in Work
  BY IdleType DEF Work, Steps
<1>2. records[r].reason # "canceled"
  BY DEF StartAttempt, Open
<1>3. Sound(work, records)
  BY <1>2 DEF Sound, Idle
<1>4. World'
  BY KeepsWorld DEF StartAttempt, outer
<1>5. Does(w, work)
  BY DEF StartAttempt
<1> HIDE DEF work
<1> QED BY <1>1, <1>3, <1>4, <1>5, JustWork DEF StartAttempt

LEMMA BeginAskingAdvances ==
    ASSUME Booked, NEW w \in Workers, NEW x \in Ids, BeginAsking(w, x)
    PROVE  Advances
<1> DEFINE work == [Idle EXCEPT !.pc = "asking", !.rec = x, !.seen = refunded, !.read = records[x]]
<1>1. work \in Work
  BY IdleType DEF Work, Steps, Booked, TypeOK
<1>2. records[x].reason = "canceled" => KnownAs(records[x]) = "failed"
  BY DEF Booked, CanceledIsFailed, KnownAs, Open
<1>3. work.pc = "asking" /\ work.rec = x /\ work.reason = "none" /\ work.read = records[x]
  BY DEF Idle
<1> HIDE DEF work
<1>4. Sound(work, records)
  BY <1>2, <1>3 DEF Sound
<1>5. World'
  BY KeepsWorld DEF BeginAsking, outer
<1>6. Does(w, work)
  BY DEF BeginAsking, work
<1> QED BY <1>1, <1>4, <1>5, <1>6, JustWork DEF BeginAsking

(* An answer that leads to a write found the record open, settled or        *)
(* missing when it was read: not voided.                                    *)
LEMMA HearStateAdvances ==
    ASSUME Booked, NEW w \in Workers, HearState(w)
    PROVE  Advances
<1> DEFINE known == KnownAs(call[w].read)
           says == psp[call[w].rec].status
           work == [call[w] EXCEPT !.pc = "applying",
                                   !.reason = IF says = "failed" THEN "declined" ELSE "none"]
           acts == \/ says = "succeeded" /\ known \in {"pending", "none"}
                   \/ says = "failed" /\ known \in {"pending", "succeeded"}
<1>1. World'
  BY KeepsWorld DEF HearState, outer
<1>2. CASE acts /\ Does(w, work)
  <2>1. call[w] \in Work /\ Sound(call[w], records) /\ call[w].pc = "asking"
    BY DEF Booked, TypeOK, WorkSound, HearState
  <2>2. work \in Work
    BY <2>1 DEF Work, Steps, Reasons
  <2>3. work.pc = "applying" /\ work.rec = call[w].rec /\ work.reason \in {"declined", "none"}
        /\ work.read = call[w].read
    BY <2>1 DEF Work
  <2>4. known # "failed"
    BY <1>2
  <2>5. \A x \in Ids : call[w].rec = x => records[x].reason # "canceled"
    BY <2>1, <2>4 DEF Sound
  <2>6. Does(w, work)
    BY <1>2
  <2> HIDE DEF work
  <2>7. Sound(work, records)
    BY <2>1, <2>3, <2>5 DEF Sound
  <2> QED BY <1>1, <2>2, <2>6, <2>7, JustWork DEF HearState
<1>3. CASE Rests(w)
  BY <1>1, <1>3, JustRests DEF HearState
<1> QED BY <1>2, <1>3 DEF HearState

LEMMA ReadToActAdvances ==
    ASSUME Booked, NEW w \in Workers, NEW r \in Ids, ReadForHand(w, r) \/ ReadForCancel(w, r)
    PROVE  Advances
<1> DEFINE hand == [Idle EXCEPT !.pc = "handing", !.rec = r, !.read = records[r]]
           cancel == [Idle EXCEPT !.pc = "canceling", !.rec = r, !.seen = refunded, !.read = records[r]]
<1>1. hand \in Work /\ cancel \in Work
  BY IdleType DEF Work, Steps, Booked, TypeOK
<1>2. Open(records[r]) /\ records[r].reason # "canceled"
  BY DEF ReadForHand, ReadForCancel, Open
<1>3. hand.pc = "handing" /\ hand.rec = r /\ hand.reason = "none" /\ hand.read = records[r]
      /\ cancel.pc = "canceling" /\ cancel.rec = r /\ cancel.reason = "none" /\ cancel.read = records[r]
  BY DEF Idle
<1>4. Does(w, hand) \/ Does(w, cancel)
  BY DEF ReadForHand, ReadForCancel
<1>5. World' /\ UNCHANGED <<doc, dispute>>
  BY KeepsWorld DEF ReadForHand, ReadForCancel, outer
<1> HIDE DEF hand, cancel
<1>6. Sound(hand, records) /\ Sound(cancel, records)
  BY <1>2, <1>3 DEF Sound
<1> QED BY <1>1, <1>4, <1>5, <1>6, JustWork

(* The provider. *)
LEMMA StepForType ==
    ASSUME NEW status \in Statuses
    PROVE  StepFor(status) \in {"attaching", "settling", "failing"}
BY DEF StepFor, Statuses

LEMMA AnswerAdvances ==
    ASSUME Booked, World', NEW w \in Workers, call[w].pc = "sending",
           NEW pc \in {"attaching", "settling", "failing"}, NEW reason \in Reasons \ {"canceled"},
           Answer(w, pc, reason), UNCHANGED <<doc, dispute>>
    PROVE  Advances
<1> DEFINE work == [call[w] EXCEPT !.pc = pc, !.reason = reason]
<1>1. call[w] \in Work /\ Sound(call[w], records)
  BY DEF Booked, TypeOK, WorkSound
<1>2. work \in Work
  BY <1>1 DEF Work, Steps
<1>3. work.pc = pc /\ work.reason = reason /\ work.rec = call[w].rec
  BY <1>1 DEF Work
<1>4. Does(w, work)
  BY DEF Answer
<1> HIDE DEF work
<1>5. Sound(work, records)
  BY <1>1, <1>3 DEF Sound
<1> QED BY <1>2, <1>4, <1>5, JustWork

LEMMA SendsWorld ==
    ASSUME Booked, NEW w \in Workers, call[w].pc = "sending", NEW s \in Statuses,
           psp' = [psp EXCEPT ![call[w].rec] = [status |-> s, amount |-> records[call[w].rec].amount]],
           UNCHANGED <<manual, dispute, bank, given>>, faults' = faults \/ Fault
    PROVE  World'
<1> DEFINE r == call[w].rec
           sent == [status |-> s, amount |-> records[r].amount]
<1>1. r \in Ids /\ records[r].status # "none"
  BY DEF Booked, WorkSound, Sound
<1>2. records[r].amount \in Nat /\ records[r].amount > 0
  BY <1>1 DEF Booked, TypeOK, Record, RecordsWorth
<1>3. sent \in [status : Statuses, amount : Nat] /\ sent.amount > 0
  BY <1>2
<1>4. psp \in [Ids -> [status : Statuses, amount : Nat]] /\ psp' = [psp EXCEPT ![r] = sent]
  BY DEF Booked, TypeOK
<1> HIDE DEF r, sent
<1>5. psp' \in [Ids -> [status : Statuses, amount : Nat]] /\ psp'[r] = sent
      /\ \A x \in Ids \ {r} : psp'[x] = psp[x]
  BY <1>1, <1>3, <1>4
<1>6. SentWorth'
  BY <1>3, <1>5 DEF Booked, SentWorth
<1>7. faults' \in 0 .. MaxFaults
  BY FaultType DEF Booked
<1> QED BY <1>5, <1>6, <1>7 DEF World, Booked, TypeOK

LEMMA AskProviderAdvances ==
    ASSUME Booked, NEW w \in Workers, AskProvider(w)
    PROVE  Advances
<1> DEFINE r == call[w].rec
           amount == records[r].amount
<1>1. UNCHANGED <<manual, doc, dispute, bank, given, faults>> /\ call[w].pc = "sending"
  BY DEF AskProvider
<1>2. r \in Ids
  BY <1>1 DEF Booked, WorkSound, Sound
<1>3. CASE /\ Answer(w, StepFor(psp[r].status), IF psp[r].status = "failed" THEN "declined" ELSE "none")
           /\ UNCHANGED psp
  <2> DEFINE reason == IF psp[r].status = "failed" THEN "declined" ELSE "none"
  <2>1. reason \in Reasons \ {"canceled"}
    BY DEF Reasons
  <2>2. StepFor(psp[r].status) \in {"attaching", "settling", "failing"}
    BY <1>2, StepForType DEF Booked, TypeOK
  <2>3. World'
    BY <1>1, <1>3, KeepsWorld
  <2> HIDE DEF reason
  <2> QED BY <1>1, <1>3, <2>1, <2>2, <2>3, AnswerAdvances DEF reason
<1>4. ASSUME NEW s \in {"pending", "succeeded"},
             psp' = [psp EXCEPT ![r] = [status |-> s, amount |-> amount]],
             Answer(w, StepFor(s), "none")
      PROVE  Advances
  <2>1. "none" \in Reasons \ {"canceled"} /\ s \in Statuses
    BY DEF Reasons, Statuses
  <2>2. StepFor(s) \in {"attaching", "settling", "failing"}
    BY <2>1, StepForType
  <2>3. World'
    BY <1>1, <1>4, <2>1, SendsWorld
  <2> QED BY <1>1, <1>4, <2>1, <2>2, <2>3, AnswerAdvances
<1>5. ASSUME NEW reason \in {"declined", "funds", "disputed"}, Answer(w, "failing", reason), UNCHANGED psp
      PROVE  Advances
  <2>1. reason \in Reasons \ {"canceled"}
    BY DEF Reasons
  <2>2. World'
    BY <1>1, <1>5, KeepsWorld
  <2> QED BY <1>1, <1>5, <2>1, <2>2, AnswerAdvances
<1> QED BY <1>3, <1>4, <1>5 DEF AskProvider

LEMMA ProviderSilentAdvances ==
    ASSUME Booked, NEW w \in Workers, ProviderSilent(w)
    PROVE  Advances
<1> DEFINE r == call[w].rec
<1>1. UNCHANGED <<manual, doc, dispute, bank, given>> /\ call[w].pc = "sending" /\ Fault
      /\ Answer(w, "failing", "unclear")
  BY DEF ProviderSilent
<1>2. "unclear" \in Reasons \ {"canceled"} /\ "succeeded" \in Statuses
  BY DEF Reasons, Statuses
<1>3. CASE UNCHANGED psp
  <2>1. World'
    BY <1>1, <1>3, KeepsWorld
  <2> QED BY <1>1, <1>2, <2>1, AnswerAdvances
<1>4. CASE psp' = [psp EXCEPT ![r] = [status |-> "succeeded", amount |-> records[r].amount]]
  <2>1. World'
    BY <1>1, <1>2, <1>4, SendsWorld
  <2> QED BY <1>1, <1>2, <2>1, AnswerAdvances
<1> QED BY <1>3, <1>4 DEF ProviderSilent

-----------------------------------------------------------------------------
(* The actions that open a record or take one on. *)

LEMMA AttemptSound ==
    ASSUME NEW docs \in [Ids -> Record], NEW r \in Ids, NEW refusal \in Refusals,
           docs[r].reason # "canceled", docs[r].status # "none"
    PROVE  Attempt(docs, r, refusal) \in Work /\ Sound(Attempt(docs, r, refusal), docs)
<1>1. Idle \in Work /\ Sound(Idle, docs)
  BY IdleType
<1> DEFINE step == IF refusal = "none" THEN "sending" ELSE "failing"
           work == [Idle EXCEPT !.rec = r, !.pc = step, !.reason = refusal]
<1>2. step \in {"failing", "sending"} /\ refusal \in {"disputed", "removed", "none"}
  BY DEF Refusals
<1>3. Attempt(docs, r, refusal) \in {Idle, work}
  BY DEF Attempt
<1> HIDE DEF step
<1>4. work \in Work
  BY <1>1, <1>2 DEF Work, Steps, Reasons
<1>5. work.pc = step /\ work.rec = r /\ work.reason = refusal
  BY DEF Idle
<1> HIDE DEF work
<1>6. Sound(work, docs)
  BY <1>2, <1>5 DEF Sound
<1> QED BY <1>1, <1>3, <1>4, <1>6

LEMMA OpenedType ==
    ASSUME NEW amount \in Nat, NEW by \in Workers \cup {NoOne}
    PROVE  /\ Opened(amount, by) \in Record
           /\ Opened(amount, by).status = "pending" /\ Opened(amount, by).amount = amount
           /\ Opened(amount, by).reason = "none" /\ ~ Opened(amount, by).ref
           /\ ~ Opened(amount, by).reversed /\ Opened(amount, by).attempt = by /\ ~ Opened(amount, by).old
BY NoRecordType DEF Opened, NoRecord, Record, Statuses, Reasons

LEMMA OpensRecord ==
    ASSUME Booked, NEW r \in Ids, records[r].status = "none", NEW amount \in Nat,
           NEW by \in Workers \cup {NoOne}, amount > 0, refunded + amount <= Paid,
           records' = [records EXCEPT ![r] = Opened(amount, by)], refunded' = refunded + amount,
           UNCHANGED <<copies, stamp, dispute>>
    PROVE  /\ Papers' /\ Opens(r) /\ \A w \in Workers : KeepsOthers(w)
           /\ records'[r].reason # "canceled" /\ records'[r].status # "none"
<1>1. records \in [Ids -> Record] /\ copies \in [Ids -> Record] /\ stamp \in {"none", "partial", "refunded"}
  BY DEF Booked, TypeOK
<1> DEFINE d == Opened(amount, by)
<1>2. d \in Record /\ d.status = "pending" /\ d.amount = amount /\ d.reason = "none"
  BY OpenedType
<1>3. records' = [records EXCEPT ![r] = d]
  OBVIOUS
<1> HIDE DEF d
<1>4. records' \in [Ids -> Record] /\ records'[r] = d /\ OnlyRecord(r)
  BY <1>1, <1>2, <1>3 DEF OnlyRecord
<1> QED BY <1>1, <1>2, <1>4 DEF Papers, Opens, KeepsOthers, OnlyRecord

LEMMA OpenRefundAdvances ==
    ASSUME Booked, NEW w \in Workers, NEW r \in Own, OpenRefund(w, r)
    PROVE  Advances
<1>1. r \in Ids /\ w \in Workers \cup {NoOne}
  BY DEF Ids
<1> DEFINE amount == call[w].amount
<1>2. amount \in Nat /\ amount > 0 /\ refunded + amount <= Paid /\ refunded' = refunded + amount
  BY DEF Booked, TypeOK, WorkSound, Sound, Work, OpenRefund, StillAsRead
<1>3. /\ records[r].status = "none" /\ records' = [records EXCEPT ![r] = Opened(amount, w)]
      /\ UNCHANGED <<manual, copies, stamp, dispute, outer, faults>>
  BY DEF OpenRefund
<1>8. PICK refusal \in Refusals : Does(w, Attempt(records', r, refusal))
  BY DEF OpenRefund
<1> HIDE DEF amount
<1>4. Papers' /\ Opens(r) /\ KeepsOthers(w) /\ records'[r].reason # "canceled" /\ records'[r].status # "none"
  BY <1>1, <1>2, <1>3, OpensRecord
<1>5. Attempt(records', r, refusal) \in Work /\ Sound(Attempt(records', r, refusal), records')
  BY <1>1, <1>4, AttemptSound DEF Papers
<1>6. Busy'
  BY <1>8, <1>4, <1>5, OthersSound
<1>7. World'
  BY <1>3, KeepsWorld DEF outer
<1> QED BY <1>1, <1>4, <1>6, <1>7 DEF Advances, Kind

LEMMA OpenReturnRefundAdvances ==
    ASSUME Booked, NEW r \in Own, NEW amount \in Amounts, OpenReturnRefund(r, amount)
    PROVE  Advances
<1> DEFINE capped == IF amount < Remaining(refunded) THEN amount ELSE Remaining(refunded)
<1>1. r \in Ids /\ NoOne \in Workers \cup {NoOne}
  BY DEF Ids
<1>2. amount \in Nat /\ refunded \in Nat
  <2>1. Amounts \subseteq Nat \ {0}
    BY RefundsAssumption
  <2> QED BY <2>1 DEF Booked, TypeOK
<1>3. Remaining(refunded) \in Int /\ Remaining(refunded) + refunded <= Paid /\ Paid \in Nat
  BY <1>2, RemainingType, PaidType
<1>4. /\ records[r].status = "none" /\ capped > 0 /\ refunded' = refunded + capped
      /\ records' = [records EXCEPT ![r] = Opened(capped, NoOne)]
      /\ UNCHANGED <<manual, copies, stamp, dispute, call, outer, faults>>
  BY DEF OpenReturnRefund
<1>5. capped \in Nat /\ refunded + capped <= Paid
  BY <1>2, <1>3, <1>4
<1> HIDE DEF capped
<1>6. Papers' /\ Opens(r)
  BY <1>1, <1>4, <1>5, OpensRecord
<1>7. Busy'
  <2>1. call' \in [Workers -> Work]
    BY <1>4 DEF Booked, TypeOK
  <2>2. ASSUME NEW v \in Workers PROVE Sound(call'[v], records')
    <3>1. Sound(call[v], records) /\ call' = call
      BY <1>4 DEF Booked, WorkSound
    <3>2. KeepsOthers(v) /\ records'[r].reason # "canceled" /\ records'[r].status # "none"
      BY <1>1, <1>4, <1>5, OpensRecord
    <3>3. \A y \in Ids \ {r} : records'[y] = records[y]
      BY <1>6 DEF Opens, OnlyRecord
    <3> QED BY <3>1, <3>2, <3>3 DEF Sound
  <2> QED BY <2>1, <2>2 DEF Busy, WorkSound
<1>8. World'
  BY <1>4, KeepsWorld DEF outer
<1> QED BY <1>1, <1>6, <1>7, <1>8 DEF Advances, Kind

LEMMA ClaimAdvances ==
    ASSUME Booked, NEW w \in Workers, Claim(w)
    PROVE  Advances
<1> DEFINE r == call[w].rec
           d == [records[r] EXCEPT !.status = "pending", !.attempt = w, !.old = FALSE, !.waiting = FALSE]
<1>1. World'
  BY KeepsWorld DEF Claim, outer
<1>2. r \in Ids
  BY DEF Booked, WorkSound, Sound, Claim
<1>3. CASE ~ Claimable(records[r])
  BY <1>1, <1>3, JustRests DEF Claim, doc
<1>4. CASE Claimable(records[r])
  <2>1. records' = [records EXCEPT ![r] = d] /\ UNCHANGED <<refunded, copies, stamp, dispute>>
    <3>1. records' = [records EXCEPT ![r].status = "pending", ![r].attempt = w,
                                     ![r].old = FALSE, ![r].waiting = FALSE]
      BY <1>4 DEF Claim
    <3>2. records \in [Ids -> Record] /\ records[r] \in Record
      BY <1>2 DEF Booked, TypeOK
    <3> QED BY <1>2, <1>4, <3>1, <3>2 DEF Claim, Record
  <2>8. PICK refusal \in Refusals : Does(w, Attempt(records', r, refusal))
    BY <1>4 DEF Claim
  <2>2. records[r] \in Record /\ records \in [Ids -> Record]
    BY <1>2 DEF Booked, TypeOK
  <2>3. d \in Record /\ d.status = "pending" /\ d.reason = records[r].reason /\ d.amount = records[r].amount
    BY <2>2 DEF Record, Statuses
  <2>4. records[r].status \in {"pending", "failed"} /\ records[r].reason # "canceled"
    BY <1>2, <1>4 DEF Claimable, Booked, CanceledIsFailed
  <2> HIDE DEF d
  <2>5. Calm(records[r], d)
    BY <2>3, <2>4 DEF Calm
  <2>6. records' \in [Ids -> Record] /\ records'[r] = d
    BY <1>2, <2>1, <2>2, <2>3
  <2>7. Attempt(records', r, refusal) \in Work /\ Sound(Attempt(records', r, refusal), records')
    BY <1>2, <2>3, <2>4, <2>6, AttemptSound
  <2> QED BY <1>1, <1>2, <2>1, <2>3, <2>5, <2>7, <2>8, WorksOn
<1> QED BY <1>3, <1>4

-----------------------------------------------------------------------------
(* The actions that record an answer. *)

LEMMA SettlesRecord ==
    ASSUME Booked, World', NEW w \in Workers, Rests(w), NEW r \in Ids, NEW ref \in BOOLEAN,
           Open(records[r]), SettleRecord(r, ref), UNCHANGED <<refunded, copies, dispute>>
    PROVE  Advances
<1> DEFINE d == Settled(records[r], ref)
<1>1. records[r] \in Record /\ records \in [Ids -> Record]
  BY DEF Booked, TypeOK
<1>2. records' = [records EXCEPT ![r] = d] /\ stamp' = Stamped(records')
  BY <1>1 DEF SettleRecord
<1>3. d \in Record /\ d.status = "succeeded" /\ d.reason = "none" /\ d.amount = records[r].amount
  BY <1>1 DEF Settled, Record, Statuses, Reasons
<1> HIDE DEF d
<1>4. records' \in [Ids -> Record] /\ records'[r] = d /\ OnlyRecord(r)
  BY <1>1, <1>2, <1>3 DEF OnlyRecord
<1>5. Papers'
  BY <1>2, <1>4 DEF Papers, Stamped, Booked, TypeOK
<1>6. Settles(r)
  BY <1>2, <1>3, <1>4 DEF Settles
<1>7. KeepsOthers(w)
  BY <1>3, <1>4 DEF KeepsOthers, OnlyRecord
<1>8. Busy'
  BY <1>5, <1>7, IdleAfter, OthersSound DEF Rests
<1> QED BY <1>5, <1>6, <1>8 DEF Advances, Kind

LEMMA SettleAttemptAdvances ==
    ASSUME Booked, NEW w \in Workers, SettleAttempt(w)
    PROVE  Advances
<1> DEFINE r == call[w].rec
<1>1. World'
  BY KeepsWorld DEF SettleAttempt, outer
<1>2. r \in Ids
  BY DEF Booked, WorkSound, Sound, SettleAttempt
<1>3. CASE Attempting(w) /\ ~ records[r].reversed
  <2>1. Open(records[r])
    BY <1>2, <1>3 DEF Attempting, Open, Booked, CanceledIsFailed
  <2> QED BY <1>1, <1>2, <1>3, <2>1, SettlesRecord DEF SettleAttempt
<1>4. CASE ~ (Attempting(w) /\ ~ records[r].reversed)
  BY <1>1, <1>4, JustRests DEF SettleAttempt, doc
<1> QED BY <1>3, <1>4

LEMMA KeepPendingAdvances ==
    ASSUME Booked, NEW w \in Workers, KeepPending(w)
    PROVE  Advances
<1> DEFINE r == call[w].rec
           d == [records[r] EXCEPT !.ref = TRUE]
<1>1. World'
  BY KeepsWorld DEF KeepPending, outer
<1>2. r \in Ids
  BY DEF Booked, WorkSound, Sound, KeepPending
<1>3. CASE Attempting(w) /\ ~ records[r].reversed
  <2>1. records[r] \in Record /\ records \in [Ids -> Record]
    BY <1>2 DEF Booked, TypeOK
  <2>2. d \in Record /\ d.status = records[r].status /\ d.reason = records[r].reason
        /\ d.amount = records[r].amount
    BY <2>1 DEF Record
  <2>3. records[r].reason # "canceled"
    BY <1>2, <1>3 DEF Attempting, Booked, CanceledIsFailed
  <2>4. records' = [records EXCEPT ![r] = d]
    BY <1>3 DEF KeepPending
  <2> HIDE DEF d
  <2>5. Calm(records[r], d)
    BY <2>2, <2>3 DEF Calm
  <2> QED BY <1>1, <1>2, <2>2, <2>4, <2>5, RestsAfter DEF KeepPending
<1>4. CASE ~ (Attempting(w) /\ ~ records[r].reversed)
  <2>1. records' = records
    BY <1>4 DEF KeepPending
  <2> QED BY <1>1, <2>1, JustRests DEF KeepPending, doc
<1> QED BY <1>3, <1>4

LEMMA FailedType ==
    ASSUME NEW d \in Record, NEW reason \in Reasons
    PROVE  /\ Failed(d, reason) \in Record /\ Failed(d, reason).status = "failed"
           /\ Failed(d, reason).reason = reason /\ Failed(d, reason).amount = d.amount
           /\ Failed(d, reason).ref = d.ref /\ Failed(d, reason).reversed = d.reversed
BY DEF Failed, Record, Statuses

LEMMA RecordRefundFailureAdvances ==
    ASSUME Booked, NEW w \in Workers, RecordRefundFailure(w)
    PROVE  Advances
<1> DEFINE r == call[w].rec
           d == Failed(records[r], call[w].reason)
<1>1. World'
  BY KeepsWorld DEF RecordRefundFailure, outer
<1>2. r \in Ids /\ call[w].reason \in Reasons /\ call[w].reason # "canceled"
  BY DEF Booked, TypeOK, WorkSound, Sound, RecordRefundFailure, Work
<1>3. CASE Attempting(w)
  <2>1. records[r] \in Record /\ records \in [Ids -> Record]
    BY <1>2 DEF Booked, TypeOK
  <2>2. d \in Record /\ d.status = "failed" /\ d.reason # "canceled" /\ d.amount = records[r].amount
    BY <1>2, <2>1, FailedType
  <2>3. records[r].reason # "canceled" /\ records[r].status = "pending"
    BY <1>2, <1>3 DEF Attempting, Booked, CanceledIsFailed
  <2>4. records' = [records EXCEPT ![r] = d]
    BY <1>3 DEF RecordRefundFailure
  <2> HIDE DEF d
  <2>5. Calm(records[r], d)
    BY <2>2, <2>3 DEF Calm
  <2> QED BY <1>1, <1>2, <2>2, <2>4, <2>5, RestsAfter DEF RecordRefundFailure
<1>4. CASE ~ Attempting(w)
  <2>1. records' = records
    BY <1>4 DEF RecordRefundFailure
  <2> QED BY <1>1, <2>1, JustRests DEF RecordRefundFailure, doc
<1> QED BY <1>3, <1>4

LEMMA ApplySuccessAdvances ==
    ASSUME Booked, NEW w \in Workers, ApplySuccess(w)
    PROVE  Advances
<1> DEFINE r == call[w].rec
           open == records[r].status \in {"pending", "failed"} /\ ~ records[r].reversed
<1>1. World'
  BY KeepsWorld DEF ApplySuccess, outer
<1>2. r \in Ids /\ records[r].reason # "canceled"
  BY DEF Booked, WorkSound, Sound, ApplySuccess
<1>3. CASE open
  <2>1. Open(records[r])
    BY <1>2, <1>3 DEF Open
  <2> QED BY <1>1, <1>2, <1>3, <2>1, SettlesRecord DEF ApplySuccess
<1>4. CASE ~ open
  BY <1>1, <1>4, JustRests DEF ApplySuccess, doc
<1> QED BY <1>3, <1>4

LEMMA ReversedType ==
    ASSUME NEW d \in Record, NEW reason \in Reasons
    PROVE  /\ Reversed(d, reason) \in Record /\ Reversed(d, reason).status = "failed"
           /\ Reversed(d, reason).reason = reason /\ Reversed(d, reason).amount = d.amount
           /\ Reversed(d, reason).ref = d.ref /\ Reversed(d, reason).reversed
BY DEF Reversed, Record, Statuses

LEMMA ApplyFailureAdvances ==
    ASSUME Booked, NEW w \in Workers, ApplyFailure(w)
    PROVE  Advances
<1> DEFINE r == call[w].rec
           d == Reversed(records[r], call[w].reason)
           docs == [records EXCEPT ![r] = d]
           wasSettled == call[w].read.status = "succeeded"
           from == IF wasSettled THEN {"succeeded"} ELSE {"pending", "failed"}
           hit == records[r].status \in from /\ ~ records[r].reversed /\ records[r].reason # "canceled"
<1>1. World'
  BY KeepsWorld DEF ApplyFailure, outer
<1>2. r \in Ids /\ call[w].reason \in Reasons /\ call[w].reason # "canceled"
  BY DEF Booked, TypeOK, WorkSound, Sound, ApplyFailure, Work
<1>3. records[r] \in Record /\ records \in [Ids -> Record]
  BY <1>2 DEF Booked, TypeOK
<1>4. d \in Record /\ d.status = "failed" /\ d.reason = call[w].reason /\ d.amount = records[r].amount
  BY <1>2, <1>3, ReversedType
<1>5. /\ records' = IF hit THEN docs ELSE records
      /\ stamp' = IF ~ (hit /\ wasSettled) THEN stamp
                  ELSE IF \E x \in Ids : "succeeded" \in {docs[x].status, copies[x].status}
                       THEN "partial" ELSE "none"
      /\ Rests(w) /\ UNCHANGED <<refunded, copies, dispute>>
  BY DEF ApplyFailure
<1>6. CASE ~ hit
  <2>1. records' = records /\ stamp' = stamp
    BY <1>5, <1>6
  <2> QED BY <1>1, <1>5, <2>1, JustRests DEF doc
<1>7. CASE hit /\ ~ wasSettled
  <2>1. records' = docs /\ stamp' = stamp /\ records[r].status \in {"pending", "failed"}
        /\ records[r].reason # "canceled"
    BY <1>5, <1>7
  <2> HIDE DEF d
  <2>2. Calm(records[r], d)
    BY <1>2, <1>4, <2>1 DEF Calm
  <2> QED BY <1>1, <1>2, <1>4, <1>5, <2>1, <2>2, RestsAfter
<1>8. CASE hit /\ wasSettled
  <2>1. records' = docs /\ records[r].status = "succeeded"
        /\ stamp' = IF \E x \in Ids : "succeeded" \in {records'[x].status, copies[x].status}
                    THEN "partial" ELSE "none"
    BY <1>5, <1>8
  <2> HIDE DEF d, hit, wasSettled
  <2>2. records' \in [Ids -> Record] /\ records'[r] = d /\ OnlyRecord(r)
    BY <1>2, <1>3, <1>4, <1>5, <2>1 DEF OnlyRecord
  <2>3. Papers'
    BY <1>5, <2>1, <2>2 DEF Papers, Booked, TypeOK
  <2>4. SendsBack(r)
    BY <1>2, <1>4, <1>5, <2>1, <2>2 DEF SendsBack
  <2>5. KeepsOthers(w)
    BY <1>2, <1>4, <2>2 DEF KeepsOthers, OnlyRecord
  <2>6. Busy'
    BY <1>5, <2>3, <2>5, IdleAfter, OthersSound DEF Rests
  <2> QED BY <1>1, <1>2, <2>3, <2>4, <2>6 DEF Advances, Kind
<1> QED BY <1>6, <1>7, <1>8

LEMMA ImportedType ==
    ASSUME NEW amount \in Nat
    PROVE  LET d == Settled([NoRecord EXCEPT !.amount = amount], TRUE) IN
           d \in Record /\ d.status = "succeeded" /\ d.reason = "none" /\ d.amount = amount /\ d.ref
           /\ ~ d.reversed
<1>1. [NoRecord EXCEPT !.amount = amount] \in Record
  BY NoRecordType DEF Record
<1> QED BY <1>1 DEF Settled, NoRecord, Record, Statuses, Reasons

LEMMA ImportRefundAdvances ==
    ASSUME Booked, NEW w \in Workers, ImportRefund(w), psp[call[w].rec].status \in {"succeeded", "failed"}
    PROVE  Advances
<1> DEFINE x == call[w].rec
           d == Settled([NoRecord EXCEPT !.amount = psp[x].amount], TRUE)
           total == refunded + psp[x].amount
           known == records[x].ref \/ copies[x].ref
           work == [call[w] EXCEPT !.seen = refunded]
           writes == /\ refunded' = total /\ Rests(w) /\ dispute' = dispute
                     /\ stamp' = IF FullyRefunded(records', total) THEN "refunded" ELSE "partial"
<1>1. World'
  BY KeepsWorld DEF ImportRefund, outer
<1>2. x \in Ids /\ call[w] \in Work /\ Sound(call[w], records) /\ call[w].pc = "applying"
  BY DEF Booked, TypeOK, WorkSound, Sound, ImportRefund
<1>3. records \in [Ids -> Record] /\ copies \in [Ids -> Record] /\ refunded \in Nat
  BY DEF Booked, TypeOK
<1>4. psp[x].amount \in Nat /\ psp[x].amount > 0
  BY <1>2 DEF Booked, TypeOK, SentWorth
<1>5. d \in Record /\ d.status = "succeeded" /\ d.reason = "none" /\ d.amount = psp[x].amount /\ d.ref
  BY <1>4, ImportedType
<1>6. \/ writes /\ records[x].status = "none" /\ records' = [records EXCEPT ![x] = d] /\ UNCHANGED copies
      \/ /\ writes /\ ~ known /\ copies' = [copies EXCEPT ![x] = d] /\ UNCHANGED records
         /\ "imported twice" \in Divergences
      \/ Rests(w) /\ UNCHANGED <<doc, dispute>>
      \/ Does(w, work) /\ UNCHANGED <<doc, dispute>>
  BY DEF ImportRefund
<1> HIDE DEF d
<1>7. CASE writes /\ records[x].status = "none" /\ records' = [records EXCEPT ![x] = d] /\ UNCHANGED copies
  <2>1. records' \in [Ids -> Record] /\ records'[x] = d /\ OnlyRecord(x)
    BY <1>2, <1>3, <1>5, <1>7 DEF OnlyRecord
  <2>2. stamp' = IF FullyRefunded(records', refunded') THEN "refunded" ELSE "partial"
    BY <1>7
  <2>3. Papers'
    BY <1>3, <1>7, <2>1, <2>2 DEF Papers
  <2>4. Imports(x)
    BY <1>4, <1>5, <1>7, <2>1, <2>2 DEF Imports
  <2>5. KeepsOthers(w)
    BY <1>2, <1>5, <2>1 DEF KeepsOthers, OnlyRecord
  <2>6. Busy'
    BY <1>7, <2>3, <2>5, IdleAfter, OthersSound DEF Rests
  <2> QED BY <1>1, <1>2, <2>3, <2>4, <2>6 DEF Advances, Kind
<1>8. CASE /\ writes /\ ~ known /\ copies' = [copies EXCEPT ![x] = d] /\ UNCHANGED records
           /\ "imported twice" \in Divergences
  <2>1. copies' \in [Ids -> Record] /\ copies'[x] = d /\ \A y \in Ids \ {x} : copies'[y] = copies[y]
    BY <1>2, <1>3, <1>5, <1>8
  <2>2. stamp' = IF FullyRefunded(records', refunded') THEN "refunded" ELSE "partial"
    BY <1>8
  <2>3. Papers'
    BY <1>3, <1>8, <2>1, <2>2 DEF Papers
  <2>4. copies[x].status = "none"
    BY <1>2, <1>8 DEF Booked, CopiesSettled
  <2>5. Doubles(x)
    BY <1>4, <1>5, <1>8, <2>1, <2>2, <2>4 DEF Doubles
  <2>6. KeepsOthers(w)
    BY <1>8, SameIsCalm, CalmOthers
  <2>7. Busy'
    BY <1>8, <2>3, <2>6, IdleAfter, OthersSound DEF Rests
  <2> QED BY <1>1, <1>2, <2>3, <2>5, <2>7 DEF Advances, Kind
<1>9. CASE Rests(w) /\ UNCHANGED <<doc, dispute>>
  BY <1>1, <1>9, JustRests
<1>10. CASE Does(w, work) /\ UNCHANGED <<doc, dispute>>
  <2>1. work \in Work
    BY <1>2, <1>3 DEF Work
  <2>2. work.pc = "applying" /\ work.rec = x /\ work.reason = call[w].reason /\ work.read = call[w].read
    BY <1>2 DEF Work
  <2> HIDE DEF work
  <2>3. Sound(work, records)
    BY <1>2, <2>2 DEF Sound
  <2> QED BY <1>1, <1>10, <2>1, <2>3, JustWork
<1> QED BY <1>6, <1>7, <1>8, <1>9, <1>10

-----------------------------------------------------------------------------
(* The operators' writes: on a record nobody else moved or is at work on.   *)

LEMMA SettleByHandAdvances ==
    ASSUME NoStaleHand, Booked, NEW w \in Workers, SettleRefundByHand(w)
    PROVE  Advances
<1> DEFINE r == call[w].rec
           hit == records[r].status = call[w].read.status
<1>1. r \in Ids /\ Open(call[w].read)
  BY DEF Booked, WorkSound, Sound, SettleRefundByHand
<1>2. UNCHANGED <<manual, refunded, copies, dispute, psp, bank, faults>> /\ Rests(w)
  BY DEF SettleRefundByHand
<1>3. CASE hit
  <2>1. Undisturbed(w)
    BY <1>3 DEF SettleRefundByHand, NoStaleHand
  <2>2. Open(records[r])
    BY <1>1, <1>3, <2>1 DEF Undisturbed, Open
  <2>3. SettleRecord(r, FALSE)
        /\ given' = IF records[r].reason = "disputed" THEN given ELSE given + records[r].amount
    BY <1>3 DEF SettleRefundByHand
  <2>4. given' \in Nat
    BY <1>1, <2>3 DEF Booked, TypeOK, Record
  <2>5. World'
    BY <1>2, <2>4 DEF World, SentWorth, Booked, TypeOK
  <2> QED BY <1>1, <1>2, <2>2, <2>3, <2>5, SettlesRecord
<1>4. CASE ~ hit
  <2>1. UNCHANGED <<records, stamp, given>>
    BY <1>4 DEF SettleRefundByHand
  <2>2. World'
    BY <1>2, <2>1, KeepsWorld
  <2> QED BY <1>2, <2>1, <2>2, JustRests DEF doc
<1> QED BY <1>3, <1>4

LEMMA CancelRefundAdvances ==
    ASSUME NoStaleHand, Booked, NEW w \in Workers, CancelRefund(w)
    PROVE  Advances
<1> DEFINE r == call[w].rec
           d == [records[r] EXCEPT !.status = "failed", !.reason = "canceled", !.waiting = FALSE]
           hit == /\ StillAsRead(w)
                  /\ records[r].status = call[w].read.status /\ records[r].reason = call[w].read.reason
<1>1. r \in Ids /\ Open(call[w].read)
  BY DEF Booked, WorkSound, Sound, CancelRefund
<1>2. UNCHANGED <<manual, copies, dispute, stamp, outer, faults>> /\ Rests(w)
  BY DEF CancelRefund
<1>3. World'
  BY <1>2, KeepsWorld DEF outer
<1>4. CASE hit
  <2>1. Undisturbed(w)
    BY <1>4 DEF CancelRefund, NoStaleHand
  <2>2. Open(records[r])
    BY <1>1, <1>4 DEF Open
  <2>3. records[r] \in Record /\ records \in [Ids -> Record]
    BY <1>1 DEF Booked, TypeOK
  <2>4. records' = [records EXCEPT ![r] = d] /\ refunded' = refunded - records[r].amount
    <3>1. records' = [records EXCEPT ![r].status = "failed", ![r].reason = "canceled", ![r].waiting = FALSE]
          /\ refunded' = refunded - records[r].amount
      BY <1>4 DEF CancelRefund
    <3> QED BY <1>1, <2>3, <3>1 DEF Record
  <2>5. d \in Record /\ d.status = "failed" /\ d.reason = "canceled" /\ ~ d.waiting
        /\ d.amount = records[r].amount
    BY <2>3 DEF Record, Statuses, Reasons
  <2> HIDE DEF d
  <2>6. records' \in [Ids -> Record] /\ records'[r] = d /\ OnlyRecord(r)
    BY <1>1, <1>2, <2>3, <2>4, <2>5 DEF OnlyRecord
  <2>7. Papers'
    BY <1>2, <2>6 DEF Papers, Booked, TypeOK
  <2>8. Voids(r)
    BY <1>2, <2>2, <2>4, <2>5, <2>6 DEF Voids
  <2>9. \A v \in Workers \ {w} : call[v].rec # r
    BY <2>1 DEF Undisturbed
  <2>10. KeepsOthers(w)
    BY <1>1, <2>5, <2>6, <2>9 DEF KeepsOthers, OnlyRecord
  <2>11. Busy'
    BY <1>2, <2>7, <2>10, IdleAfter, OthersSound DEF Rests
  <2> QED BY <1>1, <1>3, <2>7, <2>8, <2>11 DEF Advances, Kind
<1>5. CASE ~ hit
  <2>1. UNCHANGED <<refunded, records>>
    BY <1>5 DEF CancelRefund
  <2> QED BY <1>2, <1>3, <2>1, JustRests DEF doc
<1> QED BY <1>4, <1>5

-----------------------------------------------------------------------------
(* The rest of the world, and the clocks. *)

LEMMA WorldMoves ==
    ASSUME Booked, World', UNCHANGED <<manual, doc, call>>, dispute = "lost" => dispute' = "lost"
    PROVE  Advances
<1>1. UNCHANGED <<records, refunded, copies, stamp>>
  BY DEF doc
<1>2. Papers'
  BY <1>1 DEF Booked, TypeOK, Papers
<1> QED BY <1>1, <1>2, SameIsCalm, NobodyMoves

LEMMA ProviderMoves ==
    ASSUME Booked, NEW x \in Ids, NEW d \in [status : Statuses, amount : Nat],
           d.status # "none" => d.amount > 0, psp' = [psp EXCEPT ![x] = d],
           UNCHANGED <<manual, doc, dispute, call, bank, given>>, faults' = faults \/ Fault
    PROVE  Advances
<1>1. psp \in [Ids -> [status : Statuses, amount : Nat]]
  BY DEF Booked, TypeOK
<1>2. psp' \in [Ids -> [status : Statuses, amount : Nat]] /\ psp'[x] = d
      /\ \A y \in Ids \ {x} : psp'[y] = psp[y]
  BY <1>1
<1>3. SentWorth'
  BY <1>2 DEF Booked, SentWorth
<1>4. faults' \in 0 .. MaxFaults
  BY FaultType DEF Booked
<1>5. World'
  BY <1>2, <1>3, <1>4 DEF World, Booked, TypeOK
<1> QED BY <1>5, WorldMoves

LEMMA ProviderDecidesAdvances ==
    ASSUME Booked, NEW x \in Ids, ProviderDecides(x) \/ BankSendsBack(x)
    PROVE  Advances
<1>1. PICK s \in {"succeeded", "failed"} : psp' = [psp EXCEPT ![x].status = s]
  BY DEF ProviderDecides, BankSendsBack
<1> DEFINE d == [psp[x] EXCEPT !.status = s]
<1>2. psp \in [Ids -> [status : Statuses, amount : Nat]] /\ psp[x].status # "none"
  BY DEF Booked, TypeOK, ProviderDecides, BankSendsBack
<1>3. psp[x].amount > 0
  BY <1>2 DEF Booked, SentWorth
<1>4. d \in [status : Statuses, amount : Nat] /\ d.amount > 0
  BY <1>2, <1>3 DEF Statuses
<1>5. psp' = [psp EXCEPT ![x] = d]
  BY <1>1, <1>2
<1>6. UNCHANGED <<manual, doc, dispute, call, bank, given>> /\ (faults' = faults \/ Fault)
  BY DEF ProviderDecides, BankSendsBack
<1> HIDE DEF d
<1> QED BY <1>4, <1>5, <1>6, ProviderMoves

LEMMA DashboardRefundAdvances ==
    ASSUME Booked, NEW x \in Outside, NEW amount \in Amounts, DashboardRefund(x, amount)
    PROVE  Advances
<1> DEFINE d == [status |-> "succeeded", amount |-> amount]
<1>1. amount \in Nat /\ amount > 0
  <2>1. Amounts \subseteq Nat \ {0}
    BY RefundsAssumption
  <2> QED BY <2>1
<1>2. d \in [status : Statuses, amount : Nat] /\ d.amount > 0
  BY <1>1 DEF Statuses
<1>3. x \in Ids /\ psp' = [psp EXCEPT ![x] = d] /\ Fault
      /\ UNCHANGED <<manual, doc, dispute, call, bank, given>>
  BY DEF DashboardRefund, Ids
<1> HIDE DEF d
<1> QED BY <1>2, <1>3, ProviderMoves

LEMMA DisputeAdvances ==
    ASSUME Booked, NEW s \in {"open", "won", "lost"}, DeliverDispute(s) \/ BankMoves(s)
    PROVE  Advances
<1>1. faults' = faults \/ Fault
  BY DEF DeliverDispute, BankMoves
<1>2. faults' \in 0 .. MaxFaults
  BY <1>1, FaultType DEF Booked
<1>3. CASE DeliverDispute(s)
  <2>1. /\ dispute' = s /\ dispute # "lost" /\ UNCHANGED <<manual, doc, call, outer>>
    BY <1>3 DEF DeliverDispute
  <2>2. World'
    BY <1>2, <2>1 DEF World, Booked, TypeOK, SentWorth, outer
  <2> QED BY <2>1, <2>2, WorldMoves
<1>4. CASE BankMoves(s)
  <2>1. bank' = s /\ UNCHANGED <<manual, doc, dispute, call, psp, given>>
    BY <1>4 DEF BankMoves
  <2>2. World'
    BY <1>2, <2>1 DEF World, Booked, TypeOK, SentWorth
  <2> QED BY <2>1, <2>2, WorldMoves
<1> QED BY <1>3, <1>4

LEMMA ClockAdvances ==
    ASSUME Booked, NEW r \in Ids, AttemptAges(r) \/ RetryDelayEnds(r)
    PROVE  Advances
<1>1. records[r] \in Record /\ records \in [Ids -> Record]
  BY DEF Booked, TypeOK
<1>2. records[r].reason = "canceled" => records[r].status = "failed" /\ ~ records[r].waiting
  BY DEF Booked, CanceledIsFailed
<1> DEFINE aged == [records[r] EXCEPT !.old = TRUE]
           due == [records[r] EXCEPT !.waiting = FALSE]
<1>3. aged \in Record /\ due \in Record
  BY <1>1 DEF Record
<1>4. aged.amount = records[r].amount /\ aged.status = records[r].status /\ aged.reason = records[r].reason
      /\ due.amount = records[r].amount /\ due.status = records[r].status /\ due.reason = records[r].reason
  BY <1>1 DEF Record
<1>5. \/ records' = [records EXCEPT ![r] = aged] /\ records[r].status = "pending"
      \/ records' = [records EXCEPT ![r] = due] /\ records[r].waiting
  BY <1>1 DEF AttemptAges, RetryDelayEnds, Record
<1>6. /\ UNCHANGED <<manual, refunded, copies, dispute, stamp, call, outer>> /\ (faults' = faults \/ Fault)
  BY DEF AttemptAges, RetryDelayEnds
<1> HIDE DEF aged, due
<1>7. Calm(records[r], records'[r]) /\ records'[r] \in Record
      /\ (\A y \in Ids \ {r} : records'[y] = records[y]) /\ records' \in [Ids -> Record]
  BY <1>1, <1>2, <1>3, <1>4, <1>5 DEF Calm
<1>8. Papers'
  BY <1>6, <1>7 DEF Papers, Booked, TypeOK
<1>9. \A x \in Ids : Calm(records[x], records'[x])
  BY <1>7 DEF Calm
<1>10. World'
  BY <1>6, KeepsWorld DEF outer
<1> QED BY <1>6, <1>8, <1>9, <1>10, NobodyMoves

-----------------------------------------------------------------------------
(* What was heard of the provider stays true. *)

Reached == {"succeeded", "failed"}
HeardOf(work, sent) ==
    /\ work.pc = "settling" => sent[work.rec].status \in Reached
    /\ work.pc = "applying" =>
          sent[work.rec].status \in IF work.reason = "none" THEN Reached ELSE {"failed"}
HeardWell == \A w \in Workers : HeardOf(call[w], psp)

(* A refund the provider has does not vanish, change its amount or, once it *)
(* failed, come back.                                                       *)
Onward == \A x \in Ids :
    /\ psp[x].status # "none" => psp'[x].status # "none" /\ psp'[x].amount = psp[x].amount
    /\ psp[x].status \in Reached => psp'[x].status \in Reached
    /\ psp[x].status = "failed" => psp'[x] = psp[x]

LEMMA SameIsOnward == UNCHANGED psp => Onward
BY DEF Onward

LEMMA StepOnward ==
    ASSUME Booked, Next
    PROVE  Onward
<1>1. psp \in [Ids -> [status : Statuses, amount : Nat]]
  BY DEF Booked, TypeOK
<1>2. ASSUME NEW w \in Workers, AskProvider(w) \/ ProviderSilent(w)
      PROVE  Onward
  <2> DEFINE r == call[w].rec
  <2>1. UNCHANGED psp \/ (psp[r].status = "none"
            /\ \E s \in Statuses : psp' = [psp EXCEPT ![r] = [status |-> s, amount |-> records[r].amount]])
    BY <1>2 DEF AskProvider, ProviderSilent, Statuses
  <2> QED BY <1>1, <2>1, SameIsOnward DEF Onward, Reached
<1>3. ASSUME NEW x \in Ids, ProviderDecides(x) \/ BankSendsBack(x)
      PROVE  Onward
  <2>1. \E s \in Reached : psp' = [psp EXCEPT ![x].status = s] /\ (psp[x].status = "pending" \/ (psp[x].status = "succeeded" /\ s = "failed"))
    BY <1>3 DEF ProviderDecides, BankSendsBack, Reached
  <2> QED BY <1>1, <1>3, <2>1 DEF Onward, Reached
<1>4. ASSUME NEW x \in Outside, NEW amount \in Amounts, DashboardRefund(x, amount)
      PROVE  Onward
  BY <1>1, <1>4 DEF DashboardRefund, Onward, Reached
<1>5. ASSUME NEW w \in Workers, WriteStep(w), ~ AskProvider(w)
      PROVE  UNCHANGED psp
  BY <1>5 DEF WriteStep, OpenRefund, OpenMissed, OutOfRecords, Claim, SettleAttempt, KeepPending,
     RecordRefundFailure, HearState, ApplySuccess, ApplyFailure, ImportRefund, SettleRefundByHand,
     CancelRefund, outer
<1>6. ASSUME NEW w \in Workers, WriteStep(w) \/ ProviderSilent(w) \/ Crash(w)
      PROVE  Onward
  <2>1. Crash(w) => UNCHANGED psp
    BY DEF Crash, outer
  <2> QED BY <1>2, <1>5, <1>6, <2>1, SameIsOnward
<1>7. ASSUME NEW r \in Own, SweepVisits(r)
      PROVE  UNCHANGED psp
  BY <1>7 DEF SweepVisits, StartAttempt, RereadRefund, BeginAsking, outer
<1>8. CASE \E w \in Staff, amount \in Amounts : BeginRefund(w, amount)
  BY <1>8, SameIsOnward DEF BeginRefund, outer
<1>9. CASE \E w \in Sweeps : BeginCancellationRefund(w)
  BY <1>9, SameIsOnward DEF BeginCancellationRefund, outer
<1>10. CASE \E r \in Own, amount \in Amounts : OpenReturnRefund(r, amount)
  BY <1>10, SameIsOnward DEF OpenReturnRefund, outer
<1>11. CASE \E w \in Sweeps, x \in Ids : SyncRefund(w, x)
  BY <1>11, SameIsOnward DEF SyncRefund, BeginAsking, outer
<1>12. CASE \E w \in Staff, r \in Own : ReadForHand(w, r) \/ ReadForCancel(w, r)
  BY <1>12, SameIsOnward DEF ReadForHand, ReadForCancel, outer
<1>13. CASE \E x \in Ids : AttemptAges(x) \/ RetryDelayEnds(x)
  BY <1>13, SameIsOnward DEF AttemptAges, RetryDelayEnds, outer
<1>14. CASE \E s \in {"open", "won", "lost"} : DeliverDispute(s) \/ BankMoves(s)
  BY <1>14, SameIsOnward DEF DeliverDispute, BankMoves, outer
<1> QED BY <1>3, <1>4, <1>6, <1>7, <1>8, <1>9, <1>10, <1>11, <1>12, <1>13, <1>14, SameIsOnward DEF Next

(* One worker moved, to something it did hear. *)
LEMMA OneHears ==
    ASSUME Booked, HeardWell, Onward, NEW w \in Workers, \A v \in Workers \ {w} : call'[v] = call[v],
           HeardOf(call'[w], psp')
    PROVE  HeardWell'
<1>1. ASSUME NEW v \in Workers PROVE HeardOf(call'[v], psp')
  <2>1. CASE v = w
    BY <2>1
  <2>2. CASE v # w
    <3>1. HeardOf(call[v], psp) /\ Sound(call[v], records) /\ call'[v] = call[v]
      BY <2>2 DEF HeardWell, Booked, WorkSound
    <3>2. call[v].pc \in {"settling", "applying"} => call[v].rec \in Ids
      BY <3>1 DEF Sound
    <3> QED BY <3>1, <3>2 DEF HeardOf, Onward, Reached
  <2> QED BY <2>1, <2>2
<1> QED BY <1>1 DEF HeardWell

LEMMA NobodyHears ==
    ASSUME Booked, HeardWell, Onward, call' = call
    PROVE  HeardWell'
<1>1. ASSUME NEW v \in Workers PROVE HeardOf(call'[v], psp')
  <2>1. HeardOf(call[v], psp) /\ Sound(call[v], records)
    BY DEF HeardWell, Booked, WorkSound
  <2>2. call[v].pc \in {"settling", "applying"} => call[v].rec \in Ids
    BY <2>1 DEF Sound
  <2> QED BY <2>1, <2>2 DEF HeardOf, Onward, Reached
<1> QED BY <1>1 DEF HeardWell

(* Where a worker that moved is now. *)
Deaf == {"idle", "opening", "claiming", "sending", "attaching", "failing", "asking", "handing", "canceling"}
Alone(w) == \A v \in Workers \ {w} : call'[v] = call[v]

LEMMA DoesIs ==
    ASSUME TypeOK, NEW w \in Workers, NEW work \in Work, Does(w, work)
    PROVE  call'[w] = work /\ Alone(w)
BY DEF TypeOK, Does, Alone

LEMMA RestsIs ==
    ASSUME TypeOK, NEW w \in Workers, Rests(w)
    PROVE  call'[w] = Idle /\ call'[w].pc = "idle" /\ Alone(w)
<1>1. call'[w] = Idle /\ Alone(w)
  BY IdleType, DoesIs DEF Rests
<1> QED BY <1>1 DEF Idle

LEMMA AttemptIs ==
    ASSUME NEW docs \in [Ids -> Record], NEW r \in Ids, NEW refusal \in Refusals
    PROVE  /\ Attempt(docs, r, refusal).pc \in {"idle", "sending", "failing"}
           /\ Attempt(docs, r, refusal).pc # "idle" => Attempt(docs, r, refusal).rec = r /\ ~ manual
           /\ Attempt(docs, r, refusal).pc = "sending" => refusal = "none" /\ ~ OpenChargeback
           /\ Attempt(docs, r, refusal).pc = "failing" =>
                 Attempt(docs, r, refusal).reason = refusal /\ refusal \in {"disputed", "removed"}
BY DEF Attempt, Idle, Refusals

(* Where each action leaves the worker. *)
LEMMA GivesUp ==
    ASSUME TypeOK, NEW w \in Workers,
           \/ OutOfRecords(w) \/ Crash(w) \/ SettleAttempt(w) \/ KeepPending(w) \/ RecordRefundFailure(w)
           \/ ApplySuccess(w) \/ ApplyFailure(w) \/ SettleRefundByHand(w) \/ CancelRefund(w)
    PROVE  call'[w] = Idle /\ call'[w].pc = "idle" /\ Alone(w)
<1>1. Rests(w)
  BY DEF OutOfRecords, Crash, SettleAttempt, KeepPending, RecordRefundFailure, ApplySuccess, ApplyFailure,
     SettleRefundByHand, CancelRefund
<1> QED BY <1>1, RestsIs

LEMMA AsksFor ==
    ASSUME Booked, NEW w \in Workers,
           (\E amount \in Amounts : BeginRefund(w, amount)) \/ BeginCancellationRefund(w) \/ OpenMissed(w)
    PROVE  call'[w].pc \in {"idle", "opening"} /\ Alone(w)
<1>1. ASSUME NEW amount \in Int, NEW all \in BOOLEAN, amount > 0, amount <= Remaining(refunded),
             Does(w, Reading(amount, all))
      PROVE  call'[w].pc = "opening" /\ Alone(w)
  <2>1. Reading(amount, all) \in Work
    BY <1>1, ReadingSound
  <2>2. call'[w] = Reading(amount, all) /\ Alone(w)
    BY <1>1, <2>1, DoesIs DEF Booked
  <2> QED BY <2>2 DEF Reading, Idle
<1>2. ASSUME NEW amount \in Amounts, BeginRefund(w, amount)
      PROVE  call'[w].pc = "opening" /\ Alone(w)
  <2>1. amount \in Int /\ amount > 0
    <3>1. Amounts \subseteq Nat \ {0}
      BY RefundsAssumption
    <3> QED BY <3>1
  <2> QED BY <1>1, <1>2, <2>1 DEF BeginRefund
<1>3. CASE BeginCancellationRefund(w)
  <2> DEFINE left == Remaining(refunded)
  <2>1. left \in Int
    BY RemainingType DEF Booked, TypeOK
  <2>2. left > 0 /\ Does(w, Reading(left, TRUE))
    BY <1>3 DEF BeginCancellationRefund
  <2>3. left <= Remaining(refunded)
    BY <2>1
  <2> HIDE DEF left
  <2> QED BY <1>1, <2>1, <2>2, <2>3
<1>4. CASE OpenMissed(w)
  <2> DEFINE amount == IF call[w].all THEN Remaining(refunded) ELSE call[w].amount
  <2>1. amount \in Int /\ call[w].all \in BOOLEAN
    BY RemainingType DEF Booked, TypeOK, Work
  <2>2. CASE Rests(w)
    BY <2>2, RestsIs DEF Booked
  <2>3. CASE amount > 0 /\ amount <= Remaining(refunded) /\ Does(w, Reading(amount, call[w].all))
    <3> HIDE DEF amount
    <3> QED BY <1>1, <2>1, <2>3
  <2> QED BY <1>4, <2>2, <2>3 DEF OpenMissed
<1> QED BY <1>2, <1>3, <1>4

LEMMA TakesOn ==
    ASSUME Booked, Papers', NEW w \in Workers, Claim(w) \/ \E r \in Own : OpenRefund(w, r)
    PROVE  call'[w].pc \in {"idle", "sending", "failing"} /\ Alone(w)
<1>1. CASE Rests(w)
  BY <1>1, RestsIs DEF Booked
<1>2. ASSUME NEW r \in Ids, NEW refusal \in Refusals, Does(w, Attempt(records', r, refusal)),
             records'[r].reason # "canceled", records'[r].status # "none"
      PROVE  call'[w].pc \in {"idle", "sending", "failing"} /\ Alone(w)
  <2>1. records' \in [Ids -> Record]
    BY DEF Papers
  <2>2. Attempt(records', r, refusal) \in Work
    BY <1>2, <2>1, AttemptSound
  <2>3. call'[w] = Attempt(records', r, refusal) /\ Alone(w)
    BY <1>2, <2>2, DoesIs DEF Booked
  <2> QED BY <2>1, <2>3, AttemptIs
<1>3. ASSUME NEW r \in Own, OpenRefund(w, r)
      PROVE  call'[w].pc \in {"idle", "sending", "failing"} /\ Alone(w)
  <2>1. r \in Ids /\ records' = [records EXCEPT ![r] = Opened(call[w].amount, w)]
    BY <1>3 DEF OpenRefund, Ids
  <2>3. PICK refusal \in Refusals : Does(w, Attempt(records', r, refusal))
    BY <1>3 DEF OpenRefund
  <2>2. records'[r].status = "pending" /\ records'[r].reason = "none"
    BY <2>1, OpenedType DEF Booked, TypeOK, Work
  <2> QED BY <1>2, <2>1, <2>2, <2>3
<1>4. CASE Claim(w) /\ ~ Rests(w)
  <2> DEFINE r == call[w].rec
  <2>1. r \in Ids /\ records \in [Ids -> Record]
    BY <1>4 DEF Booked, TypeOK, WorkSound, Sound, Claim
  <2>2. Claimable(records[r])
        /\ records' = [records EXCEPT ![r].status = "pending", ![r].attempt = w,
                                      ![r].old = FALSE, ![r].waiting = FALSE]
    BY <1>4 DEF Claim
  <2>3. records[r].reason # "canceled"
    BY <2>1, <2>2 DEF Claimable, Booked, CanceledIsFailed
  <2>4. records'[r].status = "pending" /\ records'[r].reason # "canceled"
    BY <2>1, <2>2, <2>3 DEF Record
  <2>5. PICK refusal \in Refusals : Does(w, Attempt(records', r, refusal))
    BY <1>4 DEF Claim
  <2> QED BY <1>2, <2>1, <2>4, <2>5
<1> QED BY <1>1, <1>3, <1>4

LEMMA IsAnswered ==
    ASSUME Booked, NEW w \in Workers, call[w].pc = "sending",
           NEW pc \in {"attaching", "settling", "failing"}, NEW reason \in Reasons \ {"canceled"},
           Answer(w, pc, reason)
    PROVE  call'[w].pc = pc /\ call'[w].rec = call[w].rec /\ call'[w].reason = reason /\ Alone(w)
<1> DEFINE work == [call[w] EXCEPT !.pc = pc, !.reason = reason]
<1>1. call[w] \in Work
  BY DEF Booked, TypeOK
<1>2. work \in Work /\ work.pc = pc /\ work.reason = reason /\ work.rec = call[w].rec
  BY <1>1 DEF Work, Steps
<1>3. Does(w, work)
  BY DEF Answer
<1> HIDE DEF work
<1> QED BY <1>2, <1>3, DoesIs DEF Booked

(* What the provider answers, and what it then has. *)
LEMMA AskedIs ==
    ASSUME Booked, NEW w \in Workers, AskProvider(w) \/ ProviderSilent(w)
    PROVE  /\ call[w].pc = "sending" /\ call'[w].pc \in {"attaching", "settling", "failing"}
           /\ call'[w].rec = call[w].rec /\ Alone(w)
           /\ call'[w].pc = "settling" => psp'[call[w].rec].status = "succeeded"
           /\ call'[w].pc = "failing" /\ call'[w].reason # "unclear" =>
                 psp'[call[w].rec].status \in {"none", "failed"} /\ UNCHANGED psp
<1> DEFINE r == call[w].rec
<1>1. call[w].pc = "sending"
  BY DEF AskProvider, ProviderSilent
<1>2. r \in Ids /\ psp \in [Ids -> [status : Statuses, amount : Nat]]
  BY <1>1 DEF Booked, TypeOK, WorkSound, Sound
<1>3. CASE ProviderSilent(w)
  <2>1. "unclear" \in Reasons \ {"canceled"} /\ Answer(w, "failing", "unclear")
    BY <1>3 DEF ProviderSilent, Reasons
  <2> QED BY <1>1, <2>1, IsAnswered
<1>4. CASE /\ psp[r].status # "none" /\ UNCHANGED psp
           /\ Answer(w, StepFor(psp[r].status), IF psp[r].status = "failed" THEN "declined" ELSE "none")
  <2> DEFINE reason == IF psp[r].status = "failed" THEN "declined" ELSE "none"
             step == StepFor(psp[r].status)
  <2>1. reason \in Reasons \ {"canceled"}
    BY DEF Reasons
  <2>2. step \in {"attaching", "settling", "failing"}
    BY <1>2, StepForType
  <2>3. Answer(w, step, reason)
    BY <1>4
  <2>4. (step = "settling" => psp[r].status = "succeeded") /\ (step = "failing" => psp[r].status = "failed")
    BY <1>2, <1>4 DEF StepFor, Statuses
  <2> HIDE DEF reason, step
  <2>5. call'[w].pc = step /\ call'[w].rec = r /\ Alone(w)
    BY <1>1, <2>1, <2>2, <2>3, IsAnswered
  <2> QED BY <1>1, <1>4, <2>2, <2>4, <2>5
<1>5. ASSUME NEW s \in {"pending", "succeeded"}, Answer(w, StepFor(s), "none"),
             psp' = [psp EXCEPT ![r] = [status |-> s, amount |-> records[r].amount]]
      PROVE  /\ call'[w].pc \in {"attaching", "settling"} /\ call'[w].rec = r /\ Alone(w)
             /\ call'[w].pc = "settling" => psp'[r].status = "succeeded"
  <2>1. "none" \in Reasons \ {"canceled"}
    BY DEF Reasons
  <2>2. StepFor(s) \in {"attaching", "settling"} /\ (StepFor(s) = "settling" => s = "succeeded")
    BY DEF StepFor
  <2>3. call'[w].pc = StepFor(s) /\ call'[w].rec = r /\ Alone(w)
    BY <1>1, <1>5, <2>1, <2>2, IsAnswered
  <2>4. psp'[r].status = s
    BY <1>2, <1>5
  <2> QED BY <2>2, <2>3, <2>4
<1>6. ASSUME NEW reason \in {"declined", "funds", "disputed"}, Answer(w, "failing", reason), UNCHANGED psp
      PROVE  call'[w].pc = "failing" /\ call'[w].rec = r /\ Alone(w)
  <2>1. reason \in Reasons \ {"canceled"}
    BY DEF Reasons
  <2> QED BY <1>1, <1>6, <2>1, IsAnswered
<1>7. CASE AskProvider(w)
  BY <1>1, <1>4, <1>5, <1>6, <1>7 DEF AskProvider
<1> QED BY <1>3, <1>7

LEMMA HearsState ==
    ASSUME Booked, NEW w \in Workers, HearState(w)
    PROVE  /\ Alone(w) /\ call'[w].pc \in {"idle", "applying"}
           /\ call'[w].pc = "applying" =>
                 /\ call'[w].rec = call[w].rec /\ call'[w].read = call[w].read
                 /\ call'[w].reason = IF psp[call[w].rec].status = "failed" THEN "declined" ELSE "none"
                 /\ psp[call[w].rec].status \in Reached
<1> DEFINE says == psp[call[w].rec].status
           reason == IF says = "failed" THEN "declined" ELSE "none"
           work == [call[w] EXCEPT !.pc = "applying", !.reason = reason]
<1>1. CASE Rests(w)
  BY <1>1, RestsIs DEF Booked
<1>2. CASE Does(w, work) /\ says \in Reached
  <2>1. call[w] \in Work
    BY DEF Booked, TypeOK
  <2>2. reason \in Reasons
    BY DEF Reasons
  <2> HIDE DEF reason
  <2>3. work \in Work /\ work.pc = "applying" /\ work.rec = call[w].rec /\ work.read = call[w].read
        /\ work.reason = reason
    BY <2>1, <2>2 DEF Work, Steps
  <2> HIDE DEF work
  <2>4. call'[w] = work /\ Alone(w)
    BY <1>2, <2>3, DoesIs DEF Booked
  <2> QED BY <1>2, <2>3, <2>4 DEF reason
<1> QED BY <1>1, <1>2 DEF HearState, Reached

LEMMA ImportsIs ==
    ASSUME Booked, NEW w \in Workers, ImportRefund(w)
    PROVE  /\ Alone(w) /\ call'[w].pc \in {"idle", "applying"}
           /\ call'[w].pc = "applying" =>
                 /\ call'[w].rec = call[w].rec /\ call'[w].read = call[w].read
                 /\ call'[w].reason = call[w].reason /\ call[w].reason = "none" /\ UNCHANGED doc
<1> DEFINE work == [call[w] EXCEPT !.seen = refunded]
<1>1. CASE Rests(w)
  BY <1>1, RestsIs DEF Booked
<1>2. CASE ~ Rests(w)
  <2>1. Does(w, work) /\ UNCHANGED doc /\ call[w].reason = "none" /\ call[w].pc = "applying"
    BY <1>2 DEF ImportRefund
  <2>2. call[w] \in Work /\ refunded \in Nat
    BY DEF Booked, TypeOK
  <2>3. work \in Work /\ work.pc = "applying" /\ work.rec = call[w].rec /\ work.read = call[w].read
        /\ work.reason = call[w].reason
    BY <2>1, <2>2 DEF Work
  <2> HIDE DEF work
  <2>4. call'[w] = work /\ Alone(w)
    BY <2>1, <2>3, DoesIs DEF Booked
  <2> QED BY <2>1, <2>3, <2>4
<1> QED BY <1>1, <1>2

LEMMA SetsOut ==
    ASSUME Booked, NEW w \in Workers, NEW r \in Ids,
           NEW pc \in {"claiming", "asking", "handing", "canceling"},
           CASE pc = "claiming" -> StartAttempt(w, r)
             [] pc = "asking" -> BeginAsking(w, r)
             [] pc = "handing" -> ReadForHand(w, r)
             [] OTHER -> ReadForCancel(w, r)
    PROVE  /\ Alone(w) /\ call'[w].rec = r /\ call'[w].pc = pc
           /\ pc # "claiming" => call'[w].read = records[r]
<1> DEFINE claim == [Idle EXCEPT !.pc = "claiming", !.rec = r]
           ask == [Idle EXCEPT !.pc = "asking", !.rec = r, !.seen = refunded, !.read = records[r]]
           hand == [Idle EXCEPT !.pc = "handing", !.rec = r, !.read = records[r]]
           cancel == [Idle EXCEPT !.pc = "canceling", !.rec = r, !.seen = refunded, !.read = records[r]]
<1>1. claim \in Work /\ ask \in Work /\ hand \in Work /\ cancel \in Work
  BY IdleType DEF Work, Steps, Booked, TypeOK
<1>2. /\ claim.pc = "claiming" /\ claim.rec = r
      /\ ask.pc = "asking" /\ ask.rec = r /\ ask.read = records[r]
      /\ hand.pc = "handing" /\ hand.rec = r /\ hand.read = records[r]
      /\ cancel.pc = "canceling" /\ cancel.rec = r /\ cancel.read = records[r]
  BY DEF Idle
<1>3. /\ pc = "claiming" => Does(w, claim)
      /\ pc = "asking" => Does(w, ask)
      /\ pc = "handing" => Does(w, hand)
      /\ pc = "canceling" => Does(w, cancel)
  BY DEF StartAttempt, BeginAsking, ReadForHand, ReadForCancel
<1> HIDE DEF claim, ask, hand, cancel
<1>4. CASE pc = "claiming"
  BY <1>1, <1>2, <1>3, <1>4, DoesIs DEF Booked
<1>5. CASE pc = "asking"
  BY <1>1, <1>2, <1>3, <1>5, DoesIs DEF Booked
<1>6. CASE pc = "handing"
  BY <1>1, <1>2, <1>3, <1>6, DoesIs DEF Booked
<1>7. CASE pc = "canceling"
  BY <1>1, <1>2, <1>3, <1>7, DoesIs DEF Booked
<1> QED BY <1>4, <1>5, <1>6, <1>7

-----------------------------------------------------------------------------
(* Every step keeps the books. *)

LEMMA DeafHears ==
    ASSUME Booked, HeardWell, Onward, NEW w \in Workers, Alone(w), call'[w].pc \in Deaf
    PROVE  HeardWell'
<1>1. HeardOf(call'[w], psp')
  BY DEF HeardOf, Deaf
<1> QED BY <1>1, OneHears DEF Alone

LEMMA StepHeard ==
    ASSUME Booked, HeardWell, Papers', Next
    PROVE  HeardWell'
<1>1. Onward /\ TypeOK
  BY StepOnward DEF Booked
<1>2. ASSUME NEW w \in Workers,
             \/ OutOfRecords(w) \/ Crash(w) \/ SettleAttempt(w) \/ KeepPending(w) \/ RecordRefundFailure(w)
             \/ ApplySuccess(w) \/ ApplyFailure(w) \/ SettleRefundByHand(w) \/ CancelRefund(w)
      PROVE  HeardWell'
  <2>1. Alone(w) /\ call'[w].pc = "idle"
    BY <1>1, <1>2, GivesUp
  <2> QED BY <1>1, <2>1, DeafHears DEF Deaf
<1>3. ASSUME NEW w \in Workers,
             (\E amount \in Amounts : BeginRefund(w, amount)) \/ BeginCancellationRefund(w) \/ OpenMissed(w)
      PROVE  HeardWell'
  <2>1. Alone(w) /\ call'[w].pc \in {"idle", "opening"}
    BY <1>3, AsksFor
  <2> QED BY <1>1, <2>1, DeafHears DEF Deaf
<1>4. ASSUME NEW w \in Workers, Claim(w) \/ \E r \in Own : OpenRefund(w, r)
      PROVE  HeardWell'
  <2>1. Alone(w) /\ call'[w].pc \in {"idle", "sending", "failing"}
    BY <1>4, TakesOn
  <2> QED BY <1>1, <2>1, DeafHears DEF Deaf
<1>5. ASSUME NEW w \in Workers, AskProvider(w) \/ ProviderSilent(w)
      PROVE  HeardWell'
  <2>1. /\ call'[w].pc \in {"attaching", "settling", "failing"} /\ call'[w].rec = call[w].rec /\ Alone(w)
        /\ call'[w].pc = "settling" => psp'[call[w].rec].status = "succeeded"
    BY <1>5, AskedIs
  <2>2. HeardOf(call'[w], psp')
    BY <2>1 DEF HeardOf, Reached
  <2> QED BY <1>1, <2>1, <2>2, OneHears DEF Alone
<1>6. ASSUME NEW w \in Workers, HearState(w)
      PROVE  HeardWell'
  <2>1. psp' = psp
    BY <1>6 DEF HearState, outer
  <2>2. HeardOf(call'[w], psp')
    BY <1>6, <2>1, HearsState DEF HeardOf, Reached
  <2> QED BY <1>1, <1>6, <2>2, HearsState, OneHears DEF Alone
<1>7. ASSUME NEW w \in Workers, ImportRefund(w)
      PROVE  HeardWell'
  <2>1. psp' = psp
    BY <1>7 DEF ImportRefund, outer
  <2>2. HeardOf(call[w], psp) /\ call[w].pc = "applying"
    BY <1>7 DEF HeardWell, ImportRefund
  <2>3. HeardOf(call'[w], psp')
    BY <1>7, <2>1, <2>2, ImportsIs DEF HeardOf
  <2> QED BY <1>1, <1>7, <2>3, ImportsIs, OneHears DEF Alone
<1>8. ASSUME NEW w \in Workers, NEW r \in Ids, StartAttempt(w, r)
      PROVE  HeardWell'
  <2>1. Alone(w) /\ call'[w].pc = "claiming"
    BY <1>8, SetsOut
  <2> QED BY <1>1, <2>1, DeafHears DEF Deaf
<1>9. ASSUME NEW w \in Workers, NEW r \in Ids, BeginAsking(w, r)
      PROVE  HeardWell'
  <2>1. Alone(w) /\ call'[w].pc = "asking"
    BY <1>9, SetsOut
  <2> QED BY <1>1, <2>1, DeafHears DEF Deaf
<1>10. ASSUME NEW w \in Workers, NEW r \in Ids, ReadForHand(w, r) \/ ReadForCancel(w, r)
       PROVE  HeardWell'
  <2>1. CASE ReadForHand(w, r)
    <3>1. Alone(w) /\ call'[w].pc = "handing"
      BY <2>1, SetsOut
    <3> QED BY <1>1, <3>1, DeafHears DEF Deaf
  <2>2. CASE ReadForCancel(w, r)
    <3>1. Alone(w) /\ call'[w].pc = "canceling"
      BY <2>2, SetsOut
    <3> QED BY <1>1, <3>1, DeafHears DEF Deaf
  <2> QED BY <1>10, <2>1, <2>2
<1>11. ASSUME call' = call
       PROVE  HeardWell'
  BY <1>1, <1>11, NobodyHears
<1>12. ASSUME NEW w \in Workers, WriteStep(w) \/ ProviderSilent(w) \/ Crash(w)
       PROVE  HeardWell'
  BY <1>2, <1>3, <1>4, <1>5, <1>6, <1>7, <1>12 DEF WriteStep
<1>13. Sweeps \subseteq Workers /\ Staff \subseteq Workers /\ Own \subseteq Ids
  BY DEF Workers, Ids
<1>14. CASE \E w \in Staff, amount \in Amounts : BeginRefund(w, amount)
  BY <1>3, <1>13, <1>14
<1>15. CASE \E w \in Sweeps : BeginCancellationRefund(w)
  BY <1>3, <1>13, <1>15
<1>16. CASE \E r \in Own, amount \in Amounts : OpenReturnRefund(r, amount)
  BY <1>11, <1>16 DEF OpenReturnRefund
<1>17. CASE \E w \in Sweeps, x \in Ids : SyncRefund(w, x)
  BY <1>9, <1>13, <1>17 DEF SyncRefund
<1>18. CASE \E w \in Staff, r \in Own : ReadForHand(w, r) \/ ReadForCancel(w, r)
  BY <1>10, <1>13, <1>18
<1>19. CASE \E r \in Own : SweepVisits(r)
  BY <1>8, <1>9, <1>13, <1>19 DEF SweepVisits, RereadRefund
<1>20. CASE \E x \in Ids : ProviderDecides(x) \/ BankSendsBack(x) \/ AttemptAges(x) \/ RetryDelayEnds(x)
  BY <1>11, <1>20 DEF ProviderDecides, BankSendsBack, AttemptAges, RetryDelayEnds
<1>21. CASE \E x \in Outside, amount \in Amounts : DashboardRefund(x, amount)
  BY <1>11, <1>21 DEF DashboardRefund
<1>22. CASE \E s \in {"open", "won", "lost"} : DeliverDispute(s) \/ BankMoves(s)
  BY <1>11, <1>22 DEF DeliverDispute, BankMoves
<1> QED BY <1>12, <1>14, <1>15, <1>16, <1>17, <1>18, <1>19, <1>20, <1>21, <1>22 DEF Next

LEMMA StepAdvances ==
    ASSUME NoStaleHand, Booked, HeardWell, Next
    PROVE  Advances
<1>1. Sweeps \subseteq Workers /\ Staff \subseteq Workers /\ Own \subseteq Ids /\ Outside \subseteq Ids
  BY DEF Workers, Ids
<1>2. ASSUME NEW w \in Workers, ImportRefund(w)
      PROVE  Advances
  <2>1. psp[call[w].rec].status \in {"succeeded", "failed"}
    BY <1>2 DEF HeardWell, HeardOf, ImportRefund, Reached
  <2> QED BY <1>2, <2>1, ImportRefundAdvances
<1>3. ASSUME NEW w \in Workers, WriteStep(w) \/ ProviderSilent(w) \/ Crash(w)
      PROVE  Advances
  <2>1. CASE (\E r \in Own : OpenRefund(w, r)) \/ OpenMissed(w) \/ OutOfRecords(w) \/ Claim(w) \/ AskProvider(w)
    BY <2>1, OpenRefundAdvances, OpenMissedAdvances, OutOfRecordsAdvances, ClaimAdvances, AskProviderAdvances
  <2>2. CASE \/ SettleAttempt(w) \/ KeepPending(w) \/ RecordRefundFailure(w)
             \/ HearState(w) \/ ApplySuccess(w) \/ ApplyFailure(w)
    BY <2>2, SettleAttemptAdvances, KeepPendingAdvances, RecordRefundFailureAdvances, HearStateAdvances,
       ApplySuccessAdvances, ApplyFailureAdvances
  <2>3. CASE SettleRefundByHand(w) \/ CancelRefund(w) \/ ProviderSilent(w) \/ Crash(w)
    BY <2>3, SettleByHandAdvances, CancelRefundAdvances, ProviderSilentAdvances, CrashAdvances
  <2> QED BY <1>2, <1>3, <2>1, <2>2, <2>3 DEF WriteStep
<1>4. CASE \E w \in Staff, amount \in Amounts : BeginRefund(w, amount)
  BY <1>1, <1>4, BeginRefundAdvances
<1>5. CASE \E w \in Sweeps : BeginCancellationRefund(w)
  BY <1>1, <1>5, BeginCancellationAdvances
<1>6. CASE \E r \in Own, amount \in Amounts : OpenReturnRefund(r, amount)
  BY <1>6, OpenReturnRefundAdvances
<1>7. CASE \E w \in Sweeps, x \in Ids : SyncRefund(w, x)
  BY <1>1, <1>7, BeginAskingAdvances DEF SyncRefund
<1>8. CASE \E w \in Staff, r \in Own : ReadForHand(w, r) \/ ReadForCancel(w, r)
  BY <1>1, <1>8, ReadToActAdvances
<1>9. CASE \E r \in Own : SweepVisits(r)
  BY <1>1, <1>9, StartAttemptAdvances, BeginAskingAdvances DEF SweepVisits, RereadRefund
<1>10. CASE \E x \in Ids : ProviderDecides(x) \/ BankSendsBack(x) \/ AttemptAges(x) \/ RetryDelayEnds(x)
  BY <1>10, ProviderDecidesAdvances, ClockAdvances
<1>11. CASE \E x \in Outside, amount \in Amounts : DashboardRefund(x, amount)
  BY <1>11, DashboardRefundAdvances
<1>12. CASE \E s \in {"open", "won", "lost"} : DeliverDispute(s) \/ BankMoves(s)
  BY <1>12, DisputeAdvances
<1> QED BY <1>3, <1>4, <1>5, <1>6, <1>7, <1>8, <1>9, <1>10, <1>11, <1>12 DEF Next

Books == Booked /\ HeardWell

LEMMA BooksInit == Init => Books
<1> SUFFICES ASSUME Init PROVE Books
  OBVIOUS
<1>1. records = [x \in Ids |-> NoRecord] /\ copies = records /\ call = [w \in Workers |-> Idle] /\ refunded = 0
      /\ psp = [x \in Ids |-> [status |-> "none", amount |-> 0]]
  BY DEF Init
<1>2. records \in [Ids -> Record] /\ call \in [Workers -> Work]
  BY <1>1, NoRecordType, IdleType
<1>3. faults \in 0 .. MaxFaults
  <2>1. MaxFaults \in Nat /\ faults = 0
    BY RefundsAssumption DEF Init
  <2> QED BY <2>1
<1>4. psp \in [Ids -> [status : Statuses, amount : Nat]]
  BY <1>1 DEF Statuses
<1>5. TypeOK
  BY <1>1, <1>2, <1>3, <1>4 DEF Init, TypeOK
<1>6. TotalIsWhatRecordsName
  <2> DEFINE f == [x \in Ids |-> Counts(records[x])]
  <2>1. Promised(records) = Sum(f) /\ f \in [Ids -> Nat]
    BY <1>2, PromisedIs
  <2>2. \A x \in Ids : f[x] = 0
    BY <1>1 DEF Counts, NoRecord
  <2> HIDE DEF f
  <2>3. Sum(f) = 0
    BY <2>1, <2>2, Finite, SumZero
  <2> QED BY <1>1, <2>1, <2>3 DEF TotalIsWhatRecordsName
<1>7. CanceledIsFailed /\ RecordsWorth /\ CopiesSettled /\ SentWorth
  BY <1>1 DEF CanceledIsFailed, RecordsWorth, CopiesSettled, SentWorth, NoRecord
<1>8. WorkSound
  BY <1>1, <1>2, IdleType DEF WorkSound
<1>9. HeardWell
  BY <1>1 DEF HeardWell, HeardOf, Idle
<1> QED BY <1>5, <1>6, <1>7, <1>8, <1>9 DEF Books, Booked

LEMMA BooksStep ==
    ASSUME NoStaleHand, Books, [Next]_vars
    PROVE  Books' /\ (Advances \/ UNCHANGED vars)
<1>1. CASE Next
  <2>1. Advances
    BY <1>1, StepAdvances DEF Books
  <2>2. HeardWell'
    BY <1>1, <2>1, StepHeard DEF Books, Advances
  <2>3. refunded' \in Nat /\ TotalIsWhatRecordsName' /\ CanceledIsFailed' /\ RecordsWorth' /\ CopiesSettled'
    BY <2>1, KindKeeps DEF Books, Booked, Advances
  <2>4. TypeOK' /\ SentWorth' /\ WorkSound'
    BY <2>1, <2>3 DEF Advances, World, Papers, Busy, TypeOK
  <2> QED BY <2>1, <2>2, <2>3, <2>4 DEF Books, Booked
<1>2. CASE UNCHANGED vars
  <2>1. Books'
    BY <1>2 DEF vars, Books, Booked, TypeOK, TotalIsWhatRecordsName, Promised, CanceledIsFailed, RecordsWorth,
       CopiesSettled, SentWorth, WorkSound, HeardWell
  <2> QED BY <1>2, <2>1
<1> QED BY <1>1, <1>2

(* The books balance at every instant: whatever addRefund, claimRefund,     *)
(* settleRefund, failRefund and the sync of a provider's report write, in    *)
(* any order, `amountRefunded` is the sum of the records not voided, and     *)
(* what a worker holds in memory is still true of the record it works on.    *)
THEOREM BooksInvariant ==
    ASSUME NoStaleHand
    PROVE  Spec => []Books
<1>1. Init => Books
  BY BooksInit
<1>2. Books /\ [Next]_vars => Books'
  BY BooksStep
<1> QED BY <1>1, <1>2, PTL DEF Spec

(* Every record and every worker has its shape; the total in particular is   *)
(* never negative, whatever cancels interleave.                             *)
THEOREM TypeCorrect ==
    ASSUME NoStaleHand
    PROVE  Spec => []TypeOK
<1>1. Books => TypeOK
  BY DEF Books, Booked
<1> QED BY <1>1, BooksInvariant, PTL

(* amountRefunded is exactly what the records that are not voided name,     *)
(* however requests, imports and cancels interleave.                        *)
THEOREM TotalAgrees ==
    ASSUME NoStaleHand
    PROVE  Spec => []TotalIsWhatRecordsName
<1>1. Books => TotalIsWhatRecordsName
  BY DEF Books, Booked
<1> QED BY <1>1, BooksInvariant, PTL

(* A voided record is never sent or settled again. *)
THEOREM CanceledIsClosed ==
    ASSUME NoStaleHand
    PROVE  Spec => CanceledStaysClosed
<1>1. ASSUME Books, [Next]_vars
      PROVE  [\A x \in Ids : records[x].reason = "canceled" => records'[x] = records[x]]_vars
  <2>1. CASE UNCHANGED vars
    BY <2>1
  <2>2. CASE Kind
    <3>1. CASE Quiet
      BY <3>1 DEF Quiet, Calm
    <3>2. ASSUME NEW y \in Ids, Opens(y) \/ Settles(y) \/ SendsBack(y) \/ Imports(y) \/ Voids(y)
          PROVE  \A x \in Ids : records[x].reason = "canceled" => records'[x] = records[x]
      <4>1. \A x \in Ids \ {y} : records'[x] = records[x]
        BY <3>2 DEF Opens, Settles, SendsBack, Imports, Voids, OnlyRecord
      <4>2. records[y].reason # "canceled"
        BY <1>1, <3>2 DEF Opens, Settles, SendsBack, Imports, Voids, Open, Books, Booked, CanceledIsFailed
      <4> QED BY <4>1, <4>2
    <3>3. ASSUME NEW y \in Ids, Doubles(y)
          PROVE  records' = records
      BY <3>3 DEF Doubles
    <3> QED BY <2>2, <3>1, <3>2, <3>3 DEF Kind
  <2> QED BY <1>1, <2>1, <2>2, BooksStep DEF Advances
<1> QED BY <1>1, BooksInvariant, PTL DEF Spec, CanceledStaysClosed

-----------------------------------------------------------------------------
(* The stamp.  `refunded` was stamped for a total that left nothing to ask  *)
(* for, so that no later record could be opened beside it.                  *)
StampInv == StampAgrees /\ (stamp = "refunded" /\ dispute # "lost" => refunded >= Paid)

LEMMA FullIs ==
    ASSUME NEW docs \in [Ids -> Record], NEW total \in Nat, FullyRefunded(docs, total)
    PROVE  (dispute # "lost" => total >= Paid) /\ \A x \in Ids : ~ Open(docs[x])
<1>1. Remaining(total) <= 0 /\ \A x \in Ids : ~ Open(docs[x])
  BY DEF FullyRefunded
<1>2. dispute # "lost" => Remaining(total) = Paid - total
  BY RemainingType
<1> QED BY <1>1, <1>2, PaidType

LEMMA StampKeeps ==
    ASSUME Books, Papers', refunded' \in Nat, StampInv, Kind
    PROVE  StampInv'
<1>1. records \in [Ids -> Record] /\ records' \in [Ids -> Record] /\ refunded \in Nat /\ Paid \in Nat
  BY PaidType DEF Books, Booked, TypeOK, Papers
<1>2. CASE Quiet
  <2>1. \A x \in Ids : (records'[x].status = "succeeded" <=> records[x].status = "succeeded")
                       /\ (Open(records'[x]) <=> Open(records[x]))
    <3>1. ASSUME NEW x \in Ids
          PROVE  (records'[x].status = "succeeded" <=> records[x].status = "succeeded")
                 /\ (Open(records'[x]) <=> Open(records[x]))
      <4>1. Calm(records[x], records'[x]) /\ records[x].status \in Statuses /\ records'[x].status \in Statuses
        BY <1>1, <1>2 DEF Quiet, Record
      <4> QED BY <4>1 DEF Calm, Open, Statuses
    <3> QED BY <3>1
  <2>2. dispute' # "lost" => dispute # "lost"
    BY <1>2 DEF Quiet
  <2> QED BY <1>2, <2>1, <2>2 DEF Quiet, StampInv, StampAgrees
<1>3. ASSUME NEW x \in Ids, Opens(x)
      PROVE  StampInv'
  <2>1. copies' = copies /\ \A y \in Ids : records'[y].status = "succeeded" <=> records[y].status = "succeeded"
    BY <1>3 DEF Opens, OnlyRecord
  <2>2. records'[x].amount \in Nat /\ refunded < Paid
    BY <1>1, <1>3 DEF Opens, Record
  <2>3. ~ (stamp = "refunded" /\ dispute # "lost")
    BY <1>1, <2>2 DEF StampInv
  <2> QED BY <1>3, <2>1, <2>3 DEF Opens, StampInv, StampAgrees
<1>4. ASSUME NEW x \in Ids, Settles(x)
      PROVE  StampInv'
  <2>1. records'[x].status = "succeeded" /\ stamp' = Stamped(records') /\ UNCHANGED <<refunded, dispute>>
    BY <1>4 DEF Settles
  <2>2. stamp' = "refunded" => FullyRefunded(records', refunded)
    BY <2>1 DEF Stamped
  <2>3. stamp' = "refunded" => (dispute # "lost" => refunded >= Paid) /\ \A y \in Ids : ~ Open(records'[y])
    BY <1>1, <2>2, FullIs
  <2>4. stamp' # "none"
    BY <2>1 DEF Stamped
  <2> QED BY <2>1, <2>3, <2>4 DEF StampInv, StampAgrees
<1>5. ASSUME NEW x \in Ids, SendsBack(x)
      PROVE  StampInv'
  BY <1>5 DEF SendsBack, OnlyRecord, StampInv, StampAgrees
<1>6. ASSUME NEW x \in Ids, Imports(x)
      PROVE  StampInv'
  <2>1. records'[x].status = "succeeded" /\ UNCHANGED dispute
        /\ stamp' = IF FullyRefunded(records', refunded') THEN "refunded" ELSE "partial"
    BY <1>6 DEF Imports
  <2>2. stamp' = "refunded" => FullyRefunded(records', refunded')
    BY <2>1
  <2>3. stamp' = "refunded" => (dispute # "lost" => refunded' >= Paid) /\ \A y \in Ids : ~ Open(records'[y])
    BY <1>1, <2>2, FullIs
  <2>4. stamp' # "none"
    BY <2>1
  <2> QED BY <2>1, <2>3, <2>4 DEF StampInv, StampAgrees
<1>7. ASSUME NEW x \in Ids, Voids(x)
      PROVE  StampInv'
  <2>1. copies' = copies /\ \A y \in Ids : records'[y].status = "succeeded" <=> records[y].status = "succeeded"
    BY <1>7 DEF Voids, OnlyRecord, Open
  <2>2. ~ (stamp = "refunded" /\ dispute # "lost")
    BY <1>7 DEF Voids, StampInv, StampAgrees
  <2> QED BY <1>7, <2>1, <2>2 DEF Voids, StampInv, StampAgrees
<1>8. ASSUME NEW x \in Ids, Doubles(x)
      PROVE  StampInv'
  <2>1. copies'[x].status = "succeeded" /\ UNCHANGED dispute
        /\ stamp' = IF FullyRefunded(records', refunded') THEN "refunded" ELSE "partial"
    BY <1>8 DEF Doubles
  <2>2. stamp' = "refunded" => FullyRefunded(records', refunded')
    BY <2>1
  <2>3. stamp' = "refunded" => (dispute # "lost" => refunded' >= Paid) /\ \A y \in Ids : ~ Open(records'[y])
    BY <1>1, <2>2, FullIs
  <2>4. stamp' # "none"
    BY <2>1
  <2> QED BY <2>1, <2>3, <2>4 DEF StampInv, StampAgrees
<1> QED BY <1>2, <1>3, <1>4, <1>5, <1>6, <1>7, <1>8 DEF Kind

(* The order's stamp agrees with the records: none without a settled record, *)
(* never `refunded` while one is owed, unless a lost chargeback took it.     *)
THEOREM StampIsRight ==
    ASSUME NoStaleHand
    PROVE  Spec => []StampAgrees
<1>1. Init => StampInv
  BY DEF Init, StampInv, StampAgrees, NoRecord
<1>2. ASSUME Books, StampInv, [Next]_vars
      PROVE  StampInv'
  <2>1. Books' /\ (Advances \/ UNCHANGED vars)
    BY <1>2, BooksStep
  <2>2. refunded' \in Nat
    BY <2>1 DEF Books, Booked, TypeOK
  <2>3. CASE Advances
    BY <1>2, <2>2, <2>3, StampKeeps DEF Advances
  <2>4. CASE UNCHANGED vars
    BY <1>2, <2>4 DEF vars, StampInv, StampAgrees
  <2> QED BY <2>1, <2>3, <2>4
<1>3. StampInv => StampAgrees
  BY DEF StampInv
<1> QED BY <1>1, <1>2, <1>3, BooksInvariant, PTL DEF Spec

-----------------------------------------------------------------------------
(* The ledger of promises. *)

LEMMA LedgerInit == Init => Ledger!Init
<1> SUFFICES ASSUME Init PROVE Ledger!Init
  OBVIOUS
<1> DEFINE h == [x \in Ids |-> Back(records[x])]
<1>1. records = [x \in Ids |-> NoRecord] /\ records \in [Ids -> Record] /\ refunded = 0 /\ copies = records
  BY NoRecordType DEF Init
<1>2. ReturnedBy(records) = Sum(h) /\ h \in [Ids -> Nat]
  BY <1>1, PromisedIs
<1>3. \A x \in Ids : h[x] = 0
  BY <1>1 DEF Back, NoRecord
<1> HIDE DEF h
<1>4. Sum(h) = 0
  BY <1>2, <1>3, Finite, SumZero
<1> QED BY <1>1, <1>2, <1>4 DEF Ledger!Init

LEMMA LedgerStep ==
    ASSUME Books, Books', Papers', Kind
    PROVE  [Ledger!Next]_(Ledger!ledger)
<1>1. records \in [Ids -> Record] /\ records' \in [Ids -> Record] /\ refunded \in Nat /\ refunded' \in Nat
      /\ copies \in [Ids -> Record] /\ copies' \in [Ids -> Record] /\ TypeOK /\ CanceledIsFailed
  BY DEF Books, Booked, TypeOK
<1>2. /\ ReturnedBy(records) \in Nat /\ ReturnedBy(records') \in Nat
      /\ ReturnedBy(copies) \in Nat /\ ReturnedBy(copies') \in Nat
  BY <1>1, TotalsType
<1>3. /\ ReturnedBy(records') + ReturnedBy(copies') <= refunded'
      /\ ReturnedBy(records) + ReturnedBy(copies) <= refunded
  <2>1. \A y \in Ids : records[y].reason = "canceled" => records[y].status = "failed"
    BY DEF Books, Booked, CanceledIsFailed
  <2>2. \A y \in Ids : records'[y].reason = "canceled" => records'[y].status = "failed"
    BY DEF Books, Booked, CanceledIsFailed
  <2>3. ReturnedBy(records) <= Promised(records)
    BY <1>1, <2>1, PromisedCovers
  <2>4. ReturnedBy(records') <= Promised(records')
    BY <1>1, <2>2, PromisedCovers
  <2>5. ReturnedBy(copies) <= Promised(copies)
    <3>1. \A y \in Ids : copies[y].reason = "canceled" => copies[y].status = "failed"
      BY DEF Books, Booked, CopiesSettled
    <3> QED BY <1>1, <3>1, PromisedCovers
  <2>6. ReturnedBy(copies') <= Promised(copies')
    <3>1. \A y \in Ids : copies'[y].reason = "canceled" => copies'[y].status = "failed"
      BY DEF Books, Booked, CopiesSettled
    <3> QED BY <1>1, <3>1, PromisedCovers
  <2>7. /\ Promised(records) \in Nat /\ Promised(records') \in Nat
        /\ Promised(copies) \in Nat /\ Promised(copies') \in Nat
    BY <1>1, TotalsType
  <2>8. /\ refunded = Promised(records) + Promised(copies)
        /\ refunded' = Promised(records') + Promised(copies')
    BY DEF Books, Booked, TotalIsWhatRecordsName
  <2> QED BY <1>2, <2>3, <2>4, <2>5, <2>6, <2>7, <2>8
<1>4. CASE Quiet
  <2>1. ReturnedBy(records') = ReturnedBy(records) /\ refunded' = refunded /\ copies' = copies
    BY <1>1, <1>4, CalmTotals DEF Quiet
  <2> QED BY <2>1 DEF Ledger!ledger
<1>5. ASSUME NEW x \in Ids, Opens(x) \/ Settles(x) \/ SendsBack(x) \/ Imports(x) \/ Voids(x)
      PROVE  Ledger!Next
  <2> DEFINE before == ReturnedBy(records) + ReturnedBy(copies)
             after == ReturnedBy(records') + ReturnedBy(copies')
  <2>0. refunded \in Nat /\ refunded' \in Nat
    BY <1>1
  <2>1. after - Back(records'[x]) = before - Back(records[x])
    <3>1. ReturnedBy(records') - Back(records'[x]) = ReturnedBy(records) - Back(records[x])
      BY <1>1, <1>5, OneRecord DEF Opens, Settles, SendsBack, Imports, Voids
    <3>2. copies' = copies
      BY <1>5 DEF Opens, Settles, SendsBack, Imports, Voids, OnlyRecord
    <3>3. Back(records'[x]) \in Int /\ Back(records[x]) \in Int
      BY <1>1, OneCounts DEF Back
    <3> QED BY <1>2, <3>1, <3>2, <3>3
  <2>2. records[x].amount \in Nat /\ records'[x].amount \in Nat
    BY <1>1, OneCounts
  <2>3. records[x].status # "none" => records[x].amount > 0
    BY DEF Books, Booked, RecordsWorth
  <2>4. before \in Nat /\ after \in Nat /\ before <= refunded /\ after <= refunded'
    BY <1>2, <1>3
  <2>5. CASE Opens(x)
    <3>1. Back(records[x]) = 0 /\ Back(records'[x]) = 0 /\ refunded' = refunded + records'[x].amount
          /\ records'[x].amount > 0 /\ refunded' <= Paid
      BY <1>1, <2>5, OneCounts DEF Opens
    <3> HIDE DEF before, after
    <3>2. after = before /\ refunded' > refunded /\ refunded' <= Paid
      BY <1>1, <2>1, <2>2, <2>4, <3>1
    <3> QED BY <3>2 DEF Ledger!Next, Ledger!Promise, before, after
  <2>6. CASE Settles(x)
    <3>1. Back(records[x]) = 0 /\ Back(records'[x]) = records[x].amount /\ refunded' = refunded
          /\ records[x].amount > 0
      BY <1>1, <2>3, <2>6, OneCounts DEF Settles, Open
    <3> HIDE DEF before, after
    <3>2. after > before /\ after <= refunded /\ refunded' = refunded
      BY <1>1, <2>1, <2>2, <2>4, <3>1
    <3> QED BY <3>2 DEF Ledger!Next, Ledger!Return, before, after
  <2>7. CASE SendsBack(x)
    <3>1. Back(records'[x]) = 0 /\ Back(records[x]) = records[x].amount /\ refunded' = refunded
          /\ records[x].amount > 0
      BY <1>1, <2>3, <2>7, OneCounts DEF SendsBack
    <3> HIDE DEF before, after
    <3>2. after < before /\ after >= 0 /\ refunded' = refunded
      BY <1>1, <2>1, <2>2, <2>4, <3>1
    <3> QED BY <3>2 DEF Ledger!Next, Ledger!SendBack, before, after
  <2>8. CASE Imports(x)
    <3>1. Back(records[x]) = 0 /\ Back(records'[x]) = records'[x].amount
          /\ refunded' = refunded + records'[x].amount /\ records'[x].amount > 0
      BY <1>1, <2>8, OneCounts DEF Imports
    <3> HIDE DEF before, after
    <3>2. after - before = refunded' - refunded /\ refunded' > refunded
      BY <2>0, <2>1, <2>2, <2>4, <3>1
    <3> QED BY <3>2 DEF Ledger!Next, Ledger!TakeNote, before, after
  <2>9. CASE Voids(x)
    <3>1. Back(records[x]) = 0 /\ Back(records'[x]) = 0 /\ refunded' = refunded - records[x].amount
          /\ records[x].amount > 0
      BY <1>1, <2>3, <2>9, OneCounts DEF Voids, Open
    <3> HIDE DEF before, after
    <3>2. after = before /\ refunded' < refunded /\ refunded' >= before
      BY <1>1, <2>1, <2>2, <2>4, <3>1
    <3> QED BY <3>2 DEF Ledger!Next, Ledger!Void, before, after
  <2> QED BY <1>5, <2>5, <2>6, <2>7, <2>8, <2>9
<1>6. ASSUME NEW x \in Ids, Doubles(x)
      PROVE  Ledger!Next
  <2>1. ReturnedBy(copies') = ReturnedBy(copies) + copies'[x].amount
    BY <1>1, <1>6, DoubledTotals
  <2>2. records' = records /\ refunded' = refunded + copies'[x].amount /\ copies'[x].amount > 0
        /\ copies'[x].amount \in Nat
    BY <1>1, <1>6 DEF Doubles, Record
  <2> DEFINE before == ReturnedBy(records) + ReturnedBy(copies)
             after == ReturnedBy(records') + ReturnedBy(copies')
  <2>3. after - before = refunded' - refunded /\ refunded' > refunded
    BY <1>1, <1>2, <2>1, <2>2
  <2> QED BY <2>3 DEF Ledger!Next, Ledger!TakeNote
<1> QED BY <1>4, <1>5, <1>6 DEF Kind

(* Every step of the records is a step of the ledger of promises or leaves   *)
(* it alone: promised before returned, and taken back only while not out.    *)
THEOREM RefundsImplementLedger ==
    ASSUME NoStaleHand
    PROVE  Spec => ImplementsLedger
<1>1. Init => Ledger!Init
  BY LedgerInit
<1>2. ASSUME Books, [Next]_vars
      PROVE  [Ledger!Next]_(Ledger!ledger)
  <2>1. Books' /\ (Advances \/ UNCHANGED vars)
    BY <1>2, BooksStep
  <2>2. CASE Advances
    BY <1>2, <2>1, <2>2, LedgerStep DEF Advances
  <2>3. CASE UNCHANGED vars
    BY <2>3 DEF vars, Ledger!ledger, ReturnedBy
  <2> QED BY <2>1, <2>2, <2>3
<1> QED BY <1>1, <1>2, BooksInvariant, PTL DEF Spec, ImplementsLedger, Ledger!Spec
=============================================================================
