---------------------------- MODULE OutboxProofs ----------------------------
(***************************************************************************)
(* Outbox: at least once, and in order per aggregate, for any number of    *)
(* rows, handlers, relays, crashes and stalls.                             *)
(***************************************************************************)
EXTENDS Outbox, TLAPS

(* The strengthening.  A relay without a failure so far has seen its row    *)
(* handled by every handler before the next one.                            *)
HandledSoFar ==
    \A w \in Workers : relay[w].pc # "idle" /\ relay[w].settled =>
        \A h \in 1 .. Handlers : h < relay[w].next => relay[w].row \in processed[h]

(* Rows of an aggregate commit in order, and a relay works on a row only    *)
(* once the older ones are settled; both stay so.                           *)
CommittedInOrder ==
    ~ LateCommits => \A a \in Rows, b \in Rows :
        Older(a, b) /\ rows[b].status # "unwritten" => rows[a].status # "unwritten"
HeadsInOrder ==
    ~ LateCommits => \A w \in Workers, a \in Rows :
        relay[w].pc # "idle" => rows[relay[w].row].status # "unwritten"
            /\ (Older(a, relay[w].row) => rows[a].status \in {"published", "dead"})

Inv ==
    /\ TypeOK
    /\ HandledSoFar
    /\ PublishedMeansHandled
    /\ CommittedInOrder
    /\ HeadsInOrder
    /\ OrderKept

(* What a row's status may do in one step: move forward, never back. *)
Forward ==
    \A r \in Rows :
        /\ rows[r].status \in {"published", "dead"} =>
              rows'[r].status = rows[r].status /\ rows'[r].attempts = rows[r].attempts
        /\ rows[r].status # "unwritten" => rows'[r].status # "unwritten"

-----------------------------------------------------------------------------
(* A worker that is not idle has all the fields of a busy one. *)
LEMMA BusyType ==
    ASSUME TypeOK, NEW w \in Workers, relay[w].pc # "idle"
    PROVE  relay[w] \in Busy
BY DEF TypeOK, Idle

(* The initial state satisfies the invariant. *)
LEMMA InitInv == Init => Inv
<1> SUFFICES ASSUME Init PROVE Inv
  OBVIOUS
<1>1. TypeOK
  BY OutboxAssumption DEF Init, TypeOK, Row, Statuses
<1>2. HandledSoFar /\ HeadsInOrder
  BY DEF Init, HandledSoFar, HeadsInOrder, Idle
<1>3. PublishedMeansHandled /\ CommittedInOrder /\ OrderKept
  BY DEF Init, PublishedMeansHandled, CommittedInOrder, OrderKept
<1> QED
  BY <1>1, <1>2, <1>3 DEF Inv

(* Each action keeps the types. *)
LEMMA StepType == TypeOK /\ [Next]_vars => TypeOK'
<1> SUFFICES ASSUME TypeOK, [Next]_vars PROVE TypeOK'
  OBVIOUS
<1>1. CASE UNCHANGED vars
  BY <1>1 DEF vars, TypeOK
<1>2. ASSUME NEW w \in Workers, NEW r \in Rows, FindHead(w, r) PROVE TypeOK'
  <2>1. [pc |-> "claiming", row |-> r, attempts |-> rows[r].attempts,
         next |-> 1, settled |-> TRUE] \in Busy
    BY DEF TypeOK, Row, Busy
  <2> QED BY <1>2, <2>1 DEF FindHead, TypeOK
<1>3. ASSUME NEW w \in Workers, Claim(w) PROVE TypeOK'
  <2>1. relay[w] \in Busy
    BY <1>3, BusyType DEF Claim
  <2>2. [relay[w] EXCEPT !.pc = "dispatching"] \in Busy
    BY <2>1 DEF Busy
  <2>3. relay' \in [Workers -> Busy \cup {Idle}]
    BY <1>3, <2>1, <2>2 DEF Claim, TypeOK, Busy
  <2>4. rows' \in [Rows -> Row]
    BY <1>3, <2>1 DEF Claim, TypeOK, Row, Busy
  <2> QED BY <1>3, <2>3, <2>4 DEF Claim, TypeOK
<1>4. ASSUME NEW w \in Workers, ClaimLost(w) \/ TellDead(w) PROVE TypeOK'
  <2>1. relay[w] \in Busy
    BY <1>4, BusyType DEF ClaimLost, TellDead
  <2> QED BY <1>4, <2>1 DEF ClaimLost, TellDead, TypeOK, Busy
<1>5. ASSUME NEW w \in Workers, NEW ok \in BOOLEAN, RunHandler(w, ok) PROVE TypeOK'
  <2>1. relay[w] \in Busy
    BY <1>5, BusyType DEF RunHandler
  <2> DEFINE s == relay[w].settled /\ ok
             n == relay[w].next + 1
  <2>2. s \in BOOLEAN /\ n \in Nat
    BY <2>1 DEF Busy
  <2>3. relay' \in [Workers -> Busy \cup {Idle}]
    <3>1. relay' = [relay EXCEPT ![w] = [relay[w] EXCEPT !.next = n, !.settled = s]]
      BY <1>5, <2>1 DEF RunHandler, TypeOK, Busy
    <3> HIDE DEF s, n
    <3>2. [relay[w] EXCEPT !.next = n, !.settled = s] \in Busy
      BY <2>1, <2>2 DEF Busy
    <3> QED BY <3>1, <3>2 DEF TypeOK
  <2>4. processed' \in [1 .. Handlers -> SUBSET Rows]
    BY <1>5, <2>1 DEF RunHandler, TypeOK, Busy
  <2> QED BY <1>5, <2>3, <2>4 DEF RunHandler, TypeOK
<1>6. ASSUME NEW w \in Workers, MarkPublished(w) PROVE TypeOK'
  <2>1. relay[w] \in Busy
    BY <1>6, BusyType DEF MarkPublished, Dispatched
  <2>2. rows' \in [Rows -> Row]
    <3> DEFINE r == relay[w].row
               doc == [rows[r] EXCEPT !.status = "published", !.lock = NoWorker]
    <3>1. r \in Rows
      BY <2>1 DEF Busy
    <3>2. rows' = Settled(r, doc)
      BY <1>6 DEF MarkPublished
    <3> HIDE DEF r
    <3>3. doc \in Row
      BY <3>1 DEF TypeOK, Row, Statuses
    <3> HIDE DEF doc
    <3> QED BY <3>1, <3>2, <3>3 DEF TypeOK, Settled
  <2> QED BY <1>6, <2>2 DEF MarkPublished, TypeOK
<1>7. ASSUME NEW w \in Workers, MarkFailed(w) PROVE TypeOK'
  <2>1. relay[w] \in Busy
    BY <1>7, BusyType DEF MarkFailed, Dispatched
  <2>2. relay[w].row \in Rows /\ FailedDoc(w) \in Row
    BY <2>1 DEF FailedDoc, AttemptsNow, Busy, Row, Statuses
  <2>3. rows' \in [Rows -> Row]
    BY <1>7, <2>2 DEF MarkFailed, Settled, TypeOK
  <2>4. relay' \in [Workers -> Busy \cup {Idle}]
    <3>1. AfterFailure(w) \in Busy \cup {Idle}
      BY <2>1 DEF AfterFailure, Busy
    <3> QED BY <1>7, <3>1 DEF MarkFailed, TypeOK
  <2> QED BY <1>7, <2>3, <2>4 DEF MarkFailed, TypeOK
<1>8. ASSUME NEW w \in Workers, Crash(w) PROVE TypeOK'
  BY <1>8 DEF Crash, TypeOK
<1>9. ASSUME NEW r \in Rows, Enqueue(r) \/ BackoffEnds(r) PROVE TypeOK'
  <2>1. rows' \in [Rows -> Row]
    <3>1. [rows[r] EXCEPT !.status = "pending", !.due = TRUE] \in Row
      BY DEF TypeOK, Row, Statuses
    <3>2. [rows[r] EXCEPT !.due = TRUE] \in Row
      BY DEF TypeOK, Row
    <3>3. \/ rows' = [rows EXCEPT ![r] = [rows[r] EXCEPT !.status = "pending", !.due = TRUE]]
          \/ rows' = [rows EXCEPT ![r] = [rows[r] EXCEPT !.due = TRUE]]
      BY <1>9 DEF Enqueue, BackoffEnds, TypeOK, Row
    <3> QED BY <3>1, <3>2, <3>3 DEF TypeOK
  <2> QED BY <1>9, <2>1 DEF Enqueue, BackoffEnds, TypeOK
<1>10. ASSUME NEW r \in Rows, LeaseLapses(r) PROVE TypeOK'
  <2>1. rows' \in [Rows -> Row]
    BY <1>10 DEF LeaseLapses, TypeOK, Row
  <2>2. stalls' \in Nat
    BY <1>10 DEF LeaseLapses, TypeOK
  <2> QED BY <1>10, <2>1, <2>2 DEF LeaseLapses, TypeOK
<1> QED
  BY <1>1, <1>2, <1>3, <1>4, <1>5, <1>6, <1>7, <1>8, <1>9, <1>10 DEF Next, RelayStep

(* Statuses only move forward. *)
LEMMA StepForward == TypeOK /\ [Next]_vars => Forward
<1> SUFFICES ASSUME TypeOK, [Next]_vars PROVE Forward
  OBVIOUS
<1>1. CASE rows' = rows
  BY <1>1 DEF Forward
<1>2. ASSUME NEW w \in Workers, Claim(w) PROVE Forward
  BY <1>2 DEF Claim, TypeOK, Row, Forward
<1>3. ASSUME NEW w \in Workers, MarkPublished(w) PROVE Forward
  BY <1>3 DEF MarkPublished, Settled, TypeOK, Row, Forward
<1>4. ASSUME NEW w \in Workers, MarkFailed(w) PROVE Forward
  <2>1. FailedDoc(w).status # "unwritten"
    BY DEF FailedDoc
  <2> QED BY <1>4, <2>1 DEF MarkFailed, Settled, TypeOK, Forward
<1>5. ASSUME NEW r \in Rows, Enqueue(r) \/ BackoffEnds(r) \/ LeaseLapses(r) PROVE Forward
  <2>1. CASE Enqueue(r)
    BY <2>1 DEF Enqueue, TypeOK, Row, Forward
  <2>2. CASE BackoffEnds(r)
    BY <2>2 DEF BackoffEnds, TypeOK, Row, Forward
  <2>3. CASE LeaseLapses(r)
    BY <2>3 DEF LeaseLapses, TypeOK, Row, Forward
  <2> QED BY <1>5, <2>1, <2>2, <2>3
<1>6. ASSUME NEW w \in Workers,
             \/ \E r \in Rows : FindHead(w, r)
             \/ \E ok \in BOOLEAN : RunHandler(w, ok)
             \/ ClaimLost(w) \/ TellDead(w) \/ Crash(w)
      PROVE  Forward
  BY <1>1, <1>6 DEF FindHead, RunHandler, ClaimLost, TellDead, Crash
<1>7. CASE UNCHANGED vars
  BY <1>1, <1>7 DEF vars
<1> QED
  BY <1>2, <1>3, <1>4, <1>5, <1>6, <1>7 DEF Next, RelayStep

(* Only RunHandler adds to what was handled; nothing takes away. *)
LEMMA StepProcessed ==
    ASSUME TypeOK, [Next]_vars
    PROVE  \/ processed' = processed
           \/ \E w \in Workers, ok \in BOOLEAN : RunHandler(w, ok)
BY DEF Next, RelayStep, FindHead, Claim, ClaimLost, MarkPublished, MarkFailed, TellDead,
       BackoffEnds, LeaseLapses, Crash, Enqueue, vars

(* What was handled stays handled. *)
LEMMA ProcessedGrows ==
    ASSUME TypeOK, [Next]_vars
    PROVE  \A h \in 1 .. Handlers : processed[h] \subseteq processed'[h]
<1>1. CASE processed' = processed
  BY <1>1
<1>2. ASSUME NEW w \in Workers, NEW ok \in BOOLEAN, RunHandler(w, ok)
      PROVE  \A h \in 1 .. Handlers : processed[h] \subseteq processed'[h]
  BY <1>2 DEF RunHandler, TypeOK
<1> QED
  BY <1>1, <1>2, StepProcessed

(* What a step may do to a worker: leave it, start it on a head, end it, or *)
(* move it on within its row without un-failing it or skipping a handler.   *)
LEMMA StepWorker ==
    ASSUME TypeOK, [Next]_vars, NEW w \in Workers
    PROVE  \/ relay'[w].pc = "idle"
           \/ \E r \in Rows : IsHead(r) /\ rows' = rows /\ relay'[w].row = r /\ relay'[w].next = 1
           \/ /\ relay[w].pc # "idle"
              /\ relay'[w].row = relay[w].row
              /\ relay'[w].next = relay[w].next /\ relay'[w].settled = relay[w].settled
           \/ \E ok \in BOOLEAN : RunHandler(w, ok)
<1> DEFINE Goal ==
           \/ relay'[w].pc = "idle"
           \/ \E r \in Rows : IsHead(r) /\ rows' = rows /\ relay'[w].row = r /\ relay'[w].next = 1
           \/ /\ relay[w].pc # "idle"
              /\ relay'[w].row = relay[w].row
              /\ relay'[w].next = relay[w].next /\ relay'[w].settled = relay[w].settled
           \/ \E ok \in BOOLEAN : RunHandler(w, ok)
<1>1. CASE relay'[w] = relay[w]
  BY <1>1
<1>2. ASSUME NEW v \in Workers, RelayStep(v) \/ Crash(v), v # w PROVE relay'[w] = relay[w]
  BY <1>2 DEF RelayStep, Crash, FindHead, Claim, ClaimLost, RunHandler, MarkPublished,
              MarkFailed, TellDead, TypeOK
<1>3. CASE \E r \in Rows : FindHead(w, r)
  BY <1>3 DEF FindHead, TypeOK
<1>4. CASE Claim(w)
  <2>1. relay[w] \in Busy
    BY <1>4, BusyType DEF Claim
  <2> QED BY <1>4, <2>1 DEF Claim, TypeOK, Busy
<1>5. CASE ClaimLost(w) \/ MarkPublished(w) \/ TellDead(w) \/ Crash(w)
  BY <1>5 DEF ClaimLost, MarkPublished, TellDead, Crash, TypeOK, Idle
<1>6. CASE MarkFailed(w)
  <2>1. relay[w] \in Busy /\ relay[w].pc # "idle"
    BY <1>6, BusyType DEF MarkFailed, Dispatched
  <2>2. relay'[w] = Idle \/ relay'[w] = [relay[w] EXCEPT !.pc = "telling"]
    BY <1>6 DEF MarkFailed, AfterFailure, TypeOK
  <2> QED BY <2>1, <2>2 DEF Busy, Idle
<1>7. ASSUME NEW r \in Rows, LeaseLapses(r) PROVE Goal
  <2>1. CASE Dispatching(rows[r].lock, r) /\ rows[r].lock = w
    <3>1. relay[w] \in Busy /\ relay[w].pc # "idle"
      BY <2>1, BusyType DEF Dispatching
    <3> QED BY <1>7, <2>1, <3>1 DEF LeaseLapses, TypeOK, Busy
  <2>2. CASE ~ (Dispatching(rows[r].lock, r) /\ rows[r].lock = w)
    BY <1>1, <1>7, <2>2 DEF LeaseLapses, TypeOK
  <2> QED BY <2>1, <2>2
<1>8. CASE \E r \in Rows : Enqueue(r) \/ BackoffEnds(r)
  BY <1>1, <1>8 DEF Enqueue, BackoffEnds
<1>9. CASE UNCHANGED vars
  BY <1>1, <1>9 DEF vars
<1>10. ASSUME NEW v \in Workers, RelayStep(v) \/ Crash(v) PROVE Goal
  <2>1. CASE v # w
    BY <1>1, <1>2, <1>10, <2>1
  <2>2. CASE v = w
    BY <1>3, <1>4, <1>5, <1>6, <1>10, <2>2 DEF RelayStep
  <2> QED BY <2>1, <2>2
<1> QED
  BY <1>7, <1>8, <1>9, <1>10 DEF Next

(* The next handler run by a worker extends what its row was handled by. *)
LEMMA StepHandledSoFar == Inv /\ [Next]_vars => HandledSoFar'
<1> SUFFICES ASSUME Inv, [Next]_vars, NEW w \in Workers,
                    relay'[w].pc # "idle", relay'[w].settled,
                    NEW h \in 1 .. Handlers, h < relay'[w].next
             PROVE  relay'[w].row \in processed'[h]
  BY DEF HandledSoFar
<1>1. TypeOK
  BY DEF Inv
<1>2. processed[h] \subseteq processed'[h]
  BY <1>1, ProcessedGrows
<1>3. CASE relay'[w].next = 1
  BY <1>3
<1>4. CASE /\ relay[w].pc # "idle"
           /\ relay'[w].row = relay[w].row
           /\ relay'[w].next = relay[w].next /\ relay'[w].settled = relay[w].settled
  BY <1>2, <1>4 DEF Inv, HandledSoFar
<1>5. ASSUME NEW ok \in BOOLEAN, RunHandler(w, ok) PROVE relay'[w].row \in processed'[h]
  <2>1. relay[w] \in Busy /\ relay[w].pc # "idle"
    BY <1>1, <1>5, BusyType DEF RunHandler
  <2>2. relay'[w] = [relay[w] EXCEPT !.next = relay[w].next + 1, !.settled = relay[w].settled /\ ok]
    BY <1>1, <1>5, <2>1 DEF RunHandler, TypeOK, Busy
  <2>3. relay'[w].row = relay[w].row /\ relay'[w].next = relay[w].next + 1
    BY <2>1, <2>2 DEF Busy
  <2>4. relay'[w].settled = (relay[w].settled /\ ok)
    BY <2>1, <2>2 DEF Busy
  <2>5. ok /\ relay[w].settled
    BY <2>4
  <2>6. relay[w].next \in Nat
    BY <2>1 DEF Busy
  <2>7. CASE h = relay[w].next
    BY <1>1, <1>5, <2>3, <2>5, <2>7 DEF RunHandler, TypeOK
  <2>8. CASE h < relay[w].next
    BY <1>2, <2>1, <2>3, <2>5, <2>8 DEF Inv, HandledSoFar
  <2> QED BY <2>3, <2>6, <2>7, <2>8
<1> QED
  BY <1>1, <1>3, <1>4, <1>5, StepWorker

(* Only MarkPublished publishes and only Enqueue writes. *)
LEMMA StepStatus ==
    ASSUME TypeOK, [Next]_vars, NEW r \in Rows
    PROVE  /\ rows'[r].status = "published" =>
                \/ rows[r].status = "published"
                \/ \E w \in Workers : MarkPublished(w) /\ relay[w].row = r
           /\ rows'[r].status # "unwritten" => rows[r].status # "unwritten" \/ Enqueue(r)
<1> DEFINE Goal ==
           /\ rows'[r].status = "published" =>
                \/ rows[r].status = "published"
                \/ \E w \in Workers : MarkPublished(w) /\ relay[w].row = r
           /\ rows'[r].status # "unwritten" => rows[r].status # "unwritten" \/ Enqueue(r)
<1>1. CASE rows'[r].status = rows[r].status
  BY <1>1
<1>2. ASSUME NEW w \in Workers, Claim(w) PROVE rows'[r].status = rows[r].status
  BY <1>2 DEF Claim, TypeOK, Row
<1>3. ASSUME NEW w \in Workers, MarkPublished(w) PROVE Goal
  BY <1>3 DEF MarkPublished, Settled, TypeOK, Row
<1>4. ASSUME NEW w \in Workers, MarkFailed(w) PROVE Goal
  <2>1. FailedDoc(w).status # "published"
    BY DEF FailedDoc
  <2> QED BY <1>4, <2>1 DEF MarkFailed, Settled, TypeOK
<1>5. ASSUME NEW x \in Rows, Enqueue(x) PROVE Goal
  BY <1>5 DEF Enqueue, TypeOK, Row
<1>6. ASSUME NEW x \in Rows, BackoffEnds(x) \/ LeaseLapses(x)
      PROVE  rows'[r].status = rows[r].status
  <2>1. CASE BackoffEnds(x)
    BY <2>1 DEF BackoffEnds, TypeOK, Row
  <2>2. CASE LeaseLapses(x)
    BY <2>2 DEF LeaseLapses, TypeOK, Row
  <2> QED BY <1>6, <2>1, <2>2
<1>7. ASSUME NEW w \in Workers,
             \/ \E x \in Rows : FindHead(w, x)
             \/ \E ok \in BOOLEAN : RunHandler(w, ok)
             \/ ClaimLost(w) \/ TellDead(w) \/ Crash(w)
      PROVE  rows'[r].status = rows[r].status
  BY <1>7 DEF FindHead, RunHandler, ClaimLost, TellDead, Crash
<1>8. CASE UNCHANGED vars
  BY <1>1, <1>8 DEF vars
<1> QED
  BY <1>1, <1>2, <1>3, <1>4, <1>5, <1>6, <1>7, <1>8 DEF Next, RelayStep

(* A row is published only after its last handler. *)
LEMMA StepPublished == Inv /\ [Next]_vars => PublishedMeansHandled'
<1> SUFFICES ASSUME Inv, [Next]_vars, NEW r \in Rows, NEW h \in 1 .. Handlers,
                    rows'[r].status = "published"
             PROVE  r \in processed'[h]
  BY DEF PublishedMeansHandled
<1>1. processed[h] \subseteq processed'[h]
  BY ProcessedGrows DEF Inv
<1>2. CASE rows[r].status = "published"
  BY <1>1, <1>2 DEF Inv, PublishedMeansHandled
<1>3. ASSUME NEW w \in Workers, MarkPublished(w), relay[w].row = r PROVE r \in processed'[h]
  <2>1. relay[w].pc # "idle" /\ relay[w].settled /\ relay[w].next > Handlers
    BY <1>3 DEF MarkPublished, Dispatched
  <2>2. relay[w].next \in Nat
    BY <2>1, BusyType DEF Inv, Busy
  <2>3. h < relay[w].next
    BY <2>1, <2>2, OutboxAssumption
  <2> QED BY <1>1, <1>3, <2>1, <2>3 DEF Inv, HandledSoFar
<1> QED
  BY <1>2, <1>3, StepStatus DEF Inv

(* Rows of one aggregate are written in order. *)
LEMMA StepCommitted == Inv /\ [Next]_vars => CommittedInOrder'
<1> SUFFICES ASSUME Inv, [Next]_vars, ~ LateCommits, NEW a \in Rows, NEW b \in Rows,
                    Older(a, b), rows'[b].status # "unwritten"
             PROVE  rows'[a].status # "unwritten"
  BY DEF CommittedInOrder, Older
<1>1. Forward
  BY StepForward DEF Inv
<1>2. CASE rows[b].status # "unwritten"
  BY <1>1, <1>2 DEF Inv, CommittedInOrder, Forward
<1>3. CASE Enqueue(b)
  BY <1>1, <1>3 DEF Enqueue, Forward
<1> QED
  BY <1>2, <1>3, StepStatus DEF Inv

(* Nothing older than a row being relayed is left to do. *)
LEMMA StepHeads == Inv /\ [Next]_vars => HeadsInOrder'
<1> SUFFICES ASSUME Inv, [Next]_vars, ~ LateCommits, NEW w \in Workers, NEW a \in Rows,
                    relay'[w].pc # "idle"
             PROVE  /\ rows'[relay'[w].row].status # "unwritten"
                    /\ Older(a, relay'[w].row) => rows'[a].status \in {"published", "dead"}
  BY DEF HeadsInOrder, Older
<1>1. TypeOK /\ TypeOK' /\ Forward
  BY StepForward, StepType DEF Inv
<1>2. relay'[w] \in Busy /\ relay'[w].row \in Rows
  BY <1>1 DEF TypeOK, Busy, Idle
<1>3. ASSUME NEW r \in Rows, IsHead(r), rows' = rows, relay'[w].row = r
      PROVE  /\ rows'[r].status # "unwritten"
             /\ Older(a, r) => rows'[a].status \in {"published", "dead"}
  <2>1. rows[r].status = "pending"
    BY <1>3 DEF IsHead
  <2>2. Older(a, r) => rows[a].status # "pending" /\ rows[a].status # "unwritten"
    BY <1>3, <2>1 DEF IsHead, Inv, CommittedInOrder
  <2>3. rows[a].status \in Statuses
    BY <1>1 DEF TypeOK, Row
  <2> QED BY <1>3, <2>1, <2>2, <2>3 DEF Statuses
<1>4. CASE relay[w].pc # "idle" /\ relay'[w].row = relay[w].row
  BY <1>1, <1>2, <1>4 DEF Inv, HeadsInOrder, Forward
<1>5. ASSUME NEW ok \in BOOLEAN, RunHandler(w, ok)
      PROVE  relay[w].pc # "idle" /\ relay'[w].row = relay[w].row
  <2>1. relay[w] \in Busy
    BY <1>1, <1>5, BusyType DEF RunHandler
  <2> QED BY <1>1, <1>5, <2>1 DEF RunHandler, TypeOK, Busy
<1> QED
  BY <1>1, <1>3, <1>4, <1>5, StepWorker

(* So a handler never gets a row before an older one. *)
LEMMA StepOrder == Inv /\ [Next]_vars => OrderKept'
<1> SUFFICES ASSUME Inv, [Next]_vars, ~ LateCommits, NEW a \in Rows, NEW b \in Rows,
                    NEW h \in 1 .. Handlers, Older(a, b), b \in processed'[h]
             PROVE  a \in processed'[h] \/ rows'[a].status = "dead"
  BY DEF OrderKept, Older
<1>1. TypeOK /\ Forward /\ processed[h] \subseteq processed'[h]
  BY StepForward, ProcessedGrows DEF Inv
<1>2. CASE b \in processed[h]
  BY <1>1, <1>2 DEF Inv, OrderKept, Forward
<1>3. CASE b \notin processed[h]
  <2>1. PICK w \in Workers, ok \in BOOLEAN : RunHandler(w, ok)
    BY <1>1, <1>3, StepProcessed
  <2>2. relay[w].row = b /\ relay[w].pc # "idle"
    BY <1>1, <1>3, <2>1 DEF RunHandler, TypeOK
  <2>3. rows[a].status \in {"published", "dead"}
    BY <2>2 DEF Inv, HeadsInOrder
  <2>4. rows[a].status = "published" => a \in processed[h]
    BY DEF Inv, PublishedMeansHandled
  <2> QED BY <1>1, <2>3, <2>4 DEF Forward
<1> QED
  BY <1>2, <1>3

-----------------------------------------------------------------------------
(* The inductive invariant holds in every behaviour. *)
LEMMA InvariantHolds == Spec => []Inv
<1>1. Inv /\ [Next]_vars => Inv'
  <2> SUFFICES ASSUME Inv, [Next]_vars PROVE Inv'
    OBVIOUS
  <2>1. TypeOK'
    BY StepType DEF Inv
  <2> QED
    BY <2>1, StepHandledSoFar, StepPublished, StepCommitted, StepHeads, StepOrder DEF Inv
<1> QED
  BY InitInv, <1>1, PTL DEF Spec

(* Every document and worker keeps its shape, for any number of them. *)
THEOREM TypeCorrect == Spec => []TypeOK
<1>1. Inv => TypeOK
  BY DEF Inv
<1> QED
  BY InvariantHolds, <1>1, PTL

(* No published event was missed by a handler, however relays die, stall    *)
(* past their leases and race each other.                                   *)
THEOREM AtLeastOnce == Spec => []PublishedMeansHandled
<1>1. Inv => PublishedMeansHandled
  BY DEF Inv
<1> QED
  BY InvariantHolds, <1>1, PTL

(* Handlers meet the rows of an aggregate in order, unless rows commit out  *)
(* of the order they were written in.                                       *)
THEOREM OrderPerAggregate == Spec => []OrderKept
<1>1. Inv => OrderKept
  BY DEF Inv
<1> QED
  BY InvariantHolds, <1>1, PTL

(* No late verdict changes a settled row. *)
THEOREM SettledRowsStay == Spec => SettledForGood
<1>1. Inv /\ [Next]_vars =>
        [\A r \in Rows : rows[r].status \in {"published", "dead"} =>
            rows'[r].status = rows[r].status /\ rows'[r].attempts = rows[r].attempts]_vars
  BY StepForward DEF Inv, Forward
<1> QED
  BY InvariantHolds, <1>1, PTL DEF Spec, SettledForGood

-----------------------------------------------------------------------------
(* The lease.  While none has lapsed under a relay, a relay that dispatches *)
(* holds the lease of its row, which is still pending; one that announces a *)
(* death has parked its row; and what was announced is parked.              *)
LeaseHeld ==
    stalls = 0 =>
        /\ \A w \in Workers : relay[w].pc = "dispatching" =>
              rows[relay[w].row].lock = w /\ rows[relay[w].row].status = "pending"
        /\ \A w \in Workers : relay[w].pc = "telling" => rows[relay[w].row].status = "dead"
        /\ ToldOnlyIfDead

(* A dispatching relay that keeps its row keeps the lease. *)
LEMMA StepLease == TypeOK /\ LeaseHeld /\ [Next]_vars => LeaseHeld'
<1> SUFFICES ASSUME TypeOK, LeaseHeld, [Next]_vars, stalls' = 0 PROVE LeaseHeld'
  BY DEF LeaseHeld
<1>0. stalls = 0
  <2>1. ASSUME NEW r \in Rows, LeaseLapses(r) PROVE stalls' = stalls
    BY <2>1 DEF LeaseLapses, TypeOK
  <2>2. ASSUME NEW w \in Workers, RelayStep(w) \/ Crash(w) PROVE stalls' = stalls
    BY <2>2 DEF RelayStep, FindHead, Claim, ClaimLost, RunHandler, MarkPublished, MarkFailed,
                TellDead, Crash
  <2>3. ASSUME NEW r \in Rows, Enqueue(r) \/ BackoffEnds(r) PROVE stalls' = stalls
    BY <2>3 DEF Enqueue, BackoffEnds
  <2>4. stalls' = stalls
    BY <2>1, <2>2, <2>3 DEF Next, vars
  <2> QED BY <2>4
<1>1. CASE UNCHANGED vars
  BY <1>1 DEF vars, LeaseHeld, ToldOnlyIfDead
<1>2. ASSUME NEW w \in Workers, NEW r \in Rows, FindHead(w, r) PROVE LeaseHeld'
  BY <1>0, <1>2 DEF FindHead, LeaseHeld, ToldOnlyIfDead, TypeOK
<1>3. ASSUME NEW w \in Workers, Claim(w) PROVE LeaseHeld'
  <2>1. relay[w] \in Busy
    BY <1>3, BusyType DEF Claim
  <2>2. NoWorker \notin Workers
    BY OutboxAssumption
  <2> QED BY <1>0, <1>3, <2>1, <2>2 DEF Claim, Claimable, LeaseHeld, ToldOnlyIfDead, TypeOK, Busy, Row
<1>4. ASSUME NEW w \in Workers, ClaimLost(w) \/ Crash(w) PROVE LeaseHeld'
  BY <1>0, <1>4 DEF ClaimLost, Crash, Idle, LeaseHeld, ToldOnlyIfDead, TypeOK
<1>5. ASSUME NEW w \in Workers, NEW ok \in BOOLEAN, RunHandler(w, ok) PROVE LeaseHeld'
  <2>1. relay[w] \in Busy
    BY <1>5, BusyType DEF RunHandler
  <2>2. \A v \in Workers : relay'[v].pc = relay[v].pc /\ relay'[v].row = relay[v].row
    BY <1>5, <2>1 DEF RunHandler, TypeOK, Busy
  <2>3. rows' = rows /\ told' = told
    BY <1>5 DEF RunHandler
  <2>4. ToldOnlyIfDead'
    BY <1>0, <2>3 DEF LeaseHeld, ToldOnlyIfDead
  <2>5. \A v \in Workers :
            /\ relay'[v].pc = "dispatching" =>
                  rows'[relay'[v].row].lock = v /\ rows'[relay'[v].row].status = "pending"
            /\ relay'[v].pc = "telling" => rows'[relay'[v].row].status = "dead"
    <3> SUFFICES ASSUME NEW v \in Workers
                 PROVE  /\ relay'[v].pc = "dispatching" =>
                              rows'[relay'[v].row].lock = v /\ rows'[relay'[v].row].status = "pending"
                        /\ relay'[v].pc = "telling" => rows'[relay'[v].row].status = "dead"
      OBVIOUS
    <3>1. rows'[relay'[v].row] = rows[relay[v].row] /\ relay'[v].pc = relay[v].pc
      BY <2>2, <2>3
    <3> QED BY <1>0, <3>1 DEF LeaseHeld
  <2> QED BY <2>4, <2>5 DEF LeaseHeld
<1>6. ASSUME NEW w \in Workers, MarkPublished(w) PROVE LeaseHeld'
  <2>1. relay[w] \in Busy
    BY <1>6, BusyType DEF MarkPublished, Dispatched
  <2> QED BY <1>0, <1>6, <2>1
          DEF MarkPublished, Dispatched, Settled, Idle, LeaseHeld, ToldOnlyIfDead, TypeOK, Busy, Row
<1>7. ASSUME NEW w \in Workers, MarkFailed(w) PROVE LeaseHeld'
  <2> DEFINE r == relay[w].row
  <2>1. relay[w] \in Busy /\ r \in Rows
    BY <1>7, BusyType DEF MarkFailed, Dispatched, Busy
  <2>2. rows[r].status = "pending" /\ rows[r].lock = w
    BY <1>0, <1>7 DEF MarkFailed, Dispatched, LeaseHeld
  <2>3. rows' = [rows EXCEPT ![r] = FailedDoc(w)]
    BY <1>7, <2>2 DEF MarkFailed, Settled
  <2>4. \A v \in Workers \ {w} : relay'[v] = relay[v]
    BY <1>7 DEF MarkFailed, TypeOK
  <2>5. relay'[w].pc # "dispatching"
        /\ (relay'[w].pc = "telling" => relay'[w].row = r /\ rows'[r].status = "dead")
    <3>1. relay'[w] = AfterFailure(w)
      BY <1>7 DEF MarkFailed, TypeOK
    <3>2. CASE IsDead(w)
      BY <2>1, <2>3, <3>1, <3>2 DEF AfterFailure, FailedDoc, TypeOK, Busy
    <3>3. CASE ~ IsDead(w)
      BY <3>1, <3>3 DEF AfterFailure, Idle
    <3> QED BY <3>2, <3>3
  <2>6. \A v \in Workers \ {w} : relay[v].pc = "dispatching" => relay[v].row # r
    BY <1>0, <2>2 DEF LeaseHeld
  <2>7. \A x \in Rows \ {r} : rows'[x] = rows[x]
    BY <2>3 DEF TypeOK
  <2>8. \A v \in Workers : relay[v].pc # "idle" => relay[v].row \in Rows
    BY BusyType DEF Busy
  <2>9. \A v \in Workers \ {w} :
            /\ relay'[v].pc = "dispatching" =>
                  rows'[relay'[v].row].lock = v /\ rows'[relay'[v].row].status = "pending"
            /\ relay'[v].pc = "telling" => rows'[relay'[v].row].status = "dead"
    BY <1>0, <2>2, <2>4, <2>6, <2>7, <2>8 DEF LeaseHeld
  <2>10. ToldOnlyIfDead'
    BY <1>0, <1>7, <2>2, <2>7 DEF MarkFailed, LeaseHeld, ToldOnlyIfDead, TypeOK
  <2> HIDE DEF r
  <2> QED BY <2>5, <2>9, <2>10 DEF LeaseHeld
<1>8. ASSUME NEW w \in Workers, TellDead(w) PROVE LeaseHeld'
  <2>1. relay[w] \in Busy
    BY <1>8, BusyType DEF TellDead
  <2> QED BY <1>0, <1>8, <2>1 DEF TellDead, Idle, LeaseHeld, ToldOnlyIfDead, TypeOK
<1>9. ASSUME NEW r \in Rows, Enqueue(r) \/ BackoffEnds(r) PROVE LeaseHeld'
  <2>1. \A x \in Rows : /\ rows'[x].lock = rows[x].lock
                        /\ rows[x].status # "unwritten" => rows'[x].status = rows[x].status
    BY <1>9 DEF Enqueue, BackoffEnds, TypeOK, Row
  <2>2. \A v \in Workers : relay[v].pc # "idle" => relay[v].row \in Rows
    BY BusyType DEF Busy
  <2> QED BY <1>0, <1>9, <2>1, <2>2 DEF Enqueue, BackoffEnds, LeaseHeld, ToldOnlyIfDead, TypeOK
<1>10. ASSUME NEW r \in Rows, LeaseLapses(r) PROVE LeaseHeld'
  <2>1. \A v \in Workers : relay[v].pc = "dispatching" => relay[v].row # r
    BY <1>0, <1>10 DEF LeaseLapses, Dispatching, LeaseHeld, TypeOK
  <2>2. \A x \in Rows : rows'[x].status = rows[x].status /\ (x # r => rows'[x] = rows[x])
    BY <1>10 DEF LeaseLapses, TypeOK, Row
  <2>3. \A v \in Workers : relay[v].pc # "idle" => relay[v].row \in Rows
    BY BusyType DEF Busy
  <2> QED BY <1>0, <1>10, <2>1, <2>2, <2>3 DEF LeaseLapses, LeaseHeld, ToldOnlyIfDead, TypeOK
<1> QED
  BY <1>1, <1>2, <1>3, <1>4, <1>5, <1>6, <1>7, <1>8, <1>9, <1>10 DEF Next, RelayStep

(* It holds in every behaviour. *)
LEMMA LeaseHolds == Spec => []LeaseHeld
<1>1. Init => LeaseHeld
  BY DEF Init, Idle, LeaseHeld, ToldOnlyIfDead
<1> QED
  BY <1>1, StepLease, TypeCorrect, PTL DEF Spec

(* Two relays never dispatch one row at the same time, for any number of    *)
(* relays, rows and crashes, as long as no lease lapses under a live relay. *)
THEOREM OneRelayAtATime == Spec => []OneAtATime
<1>1. LeaseHeld => OneAtATime
  BY DEF LeaseHeld, OneAtATime
<1> QED
  BY LeaseHolds, <1>1, PTL

(* Nor is a row announced as dead that was not parked. *)
THEOREM OnlyTheDeadAreTold == Spec => []ToldOnlyIfDead
<1>1. LeaseHeld => ToldOnlyIfDead
  BY DEF LeaseHeld, ToldOnlyIfDead
<1> QED
  BY LeaseHolds, <1>1, PTL

=============================================================================
