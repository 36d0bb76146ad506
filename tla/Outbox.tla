------------------------------- MODULE Outbox -------------------------------
(***************************************************************************)
(* The transactional outbox (src/src/kernel/outbox.ts) and the event bus it *)
(* dispatches on (src/src/kernel/events.ts).                               *)
(*                                                                         *)
(* A row is written in the transaction of the change it announces.  Relays *)
(* (the nudge after a commit, the sweep of every minute, in any process)   *)
(* read each aggregate's oldest pending row, claim it with one conditional *)
(* write that sets a lease, run the handlers one after the other and       *)
(* settle the row with another conditional write.  A worker here is one    *)
(* `relayOne`, from the read of its head on: the heads of one pass run in  *)
(* parallel, and so do passes, so their steps interleave freely.  Clocks   *)
(* are abstracted to what is read off them: whether a row's backoff is     *)
(* over and whether its lease has lapsed.                                  *)
(***************************************************************************)
EXTENDS Integers, FiniteSets

CONSTANTS
    Rows,         \* the rows there may be: naturals, in order of createdAt
    AggregateOf,  \* row -> what it is about
    Handlers,     \* how many handlers are subscribed
    Workers,      \* relayOne calls under way at once
    NoWorker,     \* no lease
    MaxAttempts,  \* NODE_OUTBOX_MAX_ATTEMPTS
    LateCommits,  \* may an older row of an aggregate commit after a newer one?
    MaxCrashes,   \* bound: relays that die
    MaxStalls     \* bound: leases that lapse under a relay that is still alive

ASSUME OutboxAssumption ==
    /\ Rows \subseteq Nat
    /\ Handlers \in Nat
    /\ NoWorker \notin Workers
    /\ MaxAttempts \in Nat \ {0}
    /\ LateCommits \in BOOLEAN
    /\ MaxCrashes \in Nat /\ MaxStalls \in Nat

VARIABLES
    rows,       \* row -> its document
    relay,      \* worker -> what it is doing
    processed,  \* handler -> rows it has handled without throwing
    told,       \* rows announced as dead
    crashes, stalls

vars == <<rows, relay, processed, told, crashes, stalls>>

Statuses == {"unwritten", "pending", "published", "dead"}
Row == [status : Statuses, attempts : Nat, due : BOOLEAN, lock : Workers \cup {NoWorker}]

(* `attempts` is the count read with the head, `next` the handler to run.   *)
Busy == [pc : {"claiming", "dispatching", "telling"}, row : Rows, attempts : Nat,
         next : Nat, settled : BOOLEAN]
Idle == [pc |-> "idle"]

-----------------------------------------------------------------------------
Init ==
    /\ rows = [r \in Rows |-> [status |-> "unwritten", attempts |-> 0, due |-> FALSE,
                               lock |-> NoWorker]]
    /\ relay = [w \in Workers |-> Idle]
    /\ processed = [h \in 1 .. Handlers |-> {}]
    /\ told = {}
    /\ crashes = 0 /\ stalls = 0

Older(a, b) == AggregateOf[a] = AggregateOf[b] /\ a < b

(* enqueueOutboxEvent: the caller's transaction commits, the row is there.  *)
(* (An abort leaves no trace.)                                              *)
Enqueue(r) ==
    /\ rows[r].status = "unwritten"
    /\ ~ LateCommits => \A x \in Rows : Older(x, r) => rows[x].status # "unwritten"
    /\ rows' = [rows EXCEPT ![r].status = "pending", ![r].due = TRUE]
    /\ UNCHANGED <<relay, processed, told, crashes, stalls>>

(* Mutated form of IsHead, not the code: the due filter before the grouping by aggregate. *)
IsHeadOfDue(r) ==
    /\ rows[r].status = "pending" /\ rows[r].due /\ rows[r].lock = NoWorker
    /\ \A x \in Rows : Older(x, r) =>
          ~ (rows[x].status = "pending" /\ rows[x].due /\ rows[x].lock = NoWorker)

(* findHeads: the oldest pending row of an aggregate, if it is due and      *)
(* unclaimed.                                                               *)
IsHead(r) ==
    /\ rows[r].status = "pending"
    /\ \A x \in Rows : Older(x, r) => rows[x].status # "pending"
    /\ rows[r].due
    /\ rows[r].lock = NoWorker

FindHead(w, r) ==
    /\ relay[w].pc = "idle"
    /\ IsHead(r)
    /\ relay' = [relay EXCEPT ![w] = [pc |-> "claiming", row |-> r, attempts |-> rows[r].attempts,
                                      next |-> 1, settled |-> TRUE]]
    /\ UNCHANGED <<rows, processed, told, crashes, stalls>>

(* Mutated form of Claimable, not the code: a claim that ignores the lease. *)
ClaimableUnlocked(r) == rows[r].status = "pending"

(* claim: still pending and unclaimed.  Backoff is not looked at again. *)
Claimable(r) == rows[r].status = "pending" /\ rows[r].lock = NoWorker

Claim(w) ==
    LET r == relay[w].row IN
    /\ relay[w].pc = "claiming"
    /\ Claimable(r)
    /\ rows' = [rows EXCEPT ![r].lock = w]
    /\ relay' = [relay EXCEPT ![w].pc = "dispatching"]
    /\ UNCHANGED <<processed, told, crashes, stalls>>

ClaimLost(w) ==
    /\ relay[w].pc = "claiming"
    /\ ~ Claimable(relay[w].row)
    /\ relay' = [relay EXCEPT ![w] = Idle]
    /\ UNCHANGED <<rows, processed, told, crashes, stalls>>

(* emitDomainEvent: the next handler runs; whether or not it throws, the    *)
(* ones after it still run.                                                 *)
RunHandler(w, ok) ==
    LET h == relay[w].next IN
    /\ relay[w].pc = "dispatching"
    /\ h <= Handlers
    /\ processed' = IF ok THEN [processed EXCEPT ![h] = @ \cup {relay[w].row}] ELSE processed
    /\ relay' = [relay EXCEPT ![w].next = h + 1, ![w].settled = @ /\ ok]
    /\ UNCHANGED <<rows, told, crashes, stalls>>

Dispatched(w) == relay[w].pc = "dispatching" /\ relay[w].next > Handlers

(* Mutated form of Settled, not the code: a verdict written whatever the status. *)
SettledBlindly(r, doc) == [rows EXCEPT ![r] = doc]

(* Both settling writes match only a row that is still pending. *)
Settled(r, doc) == IF rows[r].status = "pending" THEN [rows EXCEPT ![r] = doc] ELSE rows

(* Mutated form of MarkPublished, not the code: published although a handler threw. *)
MarkPublishedAnyway(w) ==
    LET r == relay[w].row IN
    /\ Dispatched(w)
    /\ rows' = Settled(r, [rows[r] EXCEPT !.status = "published", !.lock = NoWorker])
    /\ relay' = [relay EXCEPT ![w] = Idle]
    /\ UNCHANGED <<processed, told, crashes, stalls>>

MarkPublished(w) ==
    LET r == relay[w].row IN
    /\ Dispatched(w) /\ relay[w].settled
    /\ rows' = Settled(r, [rows[r] EXCEPT !.status = "published", !.lock = NoWorker])
    /\ relay' = [relay EXCEPT ![w] = Idle]
    /\ UNCHANGED <<processed, told, crashes, stalls>>

(* markFailed counts from the attempts read with the head, and clears       *)
(* whatever lease the row has by now.                                       *)
AttemptsNow(w) == relay[w].attempts + 1
IsDead(w) == AttemptsNow(w) >= MaxAttempts
FailedDoc(w) == [status |-> IF IsDead(w) THEN "dead" ELSE "pending",
                 attempts |-> AttemptsNow(w), due |-> FALSE, lock |-> NoWorker]

(* Mutated form of AfterFailure, not the code: every failure announced as a death. *)
AlwaysTell(w) == [relay[w] EXCEPT !.pc = "telling"]

(* A row found out of attempts is announced next, whether or not the write  *)
(* matched.                                                                 *)
AfterFailure(w) == IF IsDead(w) THEN [relay[w] EXCEPT !.pc = "telling"] ELSE Idle

MarkFailed(w) ==
    LET r == relay[w].row IN
    /\ Dispatched(w) /\ ~ relay[w].settled
    /\ rows' = Settled(r, FailedDoc(w))
    /\ relay' = [relay EXCEPT ![w] = AfterFailure(w)]
    /\ UNCHANGED <<processed, told, crashes, stalls>>

(* OUTBOX_EVENT_DEAD, a plain emit. *)
TellDead(w) ==
    /\ relay[w].pc = "telling"
    /\ told' = told \cup {relay[w].row}
    /\ relay' = [relay EXCEPT ![w] = Idle]
    /\ UNCHANGED <<rows, processed, crashes, stalls>>

BackoffEnds(r) ==
    /\ rows[r].status = "pending" /\ ~ rows[r].due
    /\ rows' = [rows EXCEPT ![r].due = TRUE]
    /\ UNCHANGED <<relay, processed, told, crashes, stalls>>

(* The lease of row r runs out: its relay died, or is slower than the lease. *)
Dispatching(w, r) == relay[w].pc = "dispatching" /\ relay[w].row = r

(* Mutated form of LeaseLapses, not the code: a lease only a live relay can lose. *)
LeaseHeldByTheDead(r) ==
    LET w == rows[r].lock IN
    /\ w # NoWorker /\ Dispatching(w, r)
    /\ stalls < MaxStalls /\ stalls' = stalls + 1
    /\ rows' = [rows EXCEPT ![r].lock = NoWorker]
    /\ UNCHANGED <<relay, processed, told, crashes>>

LeaseLapses(r) ==
    LET w == rows[r].lock IN
    /\ w # NoWorker
    /\ IF Dispatching(w, r)
       THEN stalls < MaxStalls /\ stalls' = stalls + 1
       ELSE UNCHANGED stalls
    /\ rows' = [rows EXCEPT ![r].lock = NoWorker]
    /\ UNCHANGED <<relay, processed, told, crashes>>

Crash(w) ==
    /\ relay[w].pc # "idle"
    /\ crashes < MaxCrashes /\ crashes' = crashes + 1
    /\ relay' = [relay EXCEPT ![w] = Idle]
    /\ UNCHANGED <<rows, processed, told, stalls>>

-----------------------------------------------------------------------------
RelayStep(w) ==
    \/ \E r \in Rows : FindHead(w, r)
    \/ Claim(w) \/ ClaimLost(w)
    \/ \E ok \in BOOLEAN : RunHandler(w, ok)
    \/ MarkPublished(w) \/ MarkFailed(w) \/ TellDead(w)

Next ==
    \/ \E w \in Workers : RelayStep(w) \/ Crash(w)
    \/ \E r \in Rows : Enqueue(r) \/ BackoffEnds(r) \/ LeaseLapses(r)

Spec == Init /\ [][Next]_vars

-----------------------------------------------------------------------------
(* Properties. *)

(* Every document and worker has its shape. *)
TypeOK ==
    /\ rows \in [Rows -> Row]
    /\ relay \in [Workers -> Busy \cup {Idle}]
    /\ processed \in [1 .. Handlers -> SUBSET Rows]
    /\ told \in SUBSET Rows
    /\ crashes \in Nat /\ stalls \in Nat

(* At least once: a row is published only when every handler has handled it *)
(* (markPublished after dispatch), whatever crashed, stalled or raced.      *)
PublishedMeansHandled ==
    \A r \in Rows, h \in 1 .. Handlers : rows[r].status = "published" => r \in processed[h]

(* Order per aggregate: a handler that has handled a row had handled every  *)
(* older row of its aggregate first, but for those parked as dead           *)
(* (findHeads picks the head before the due filter).  An older row that     *)
(* commits late is ordered by its write, which may be too late for this.    *)
OrderKept ==
    ~ LateCommits =>
        \A a \in Rows, b \in Rows, h \in 1 .. Handlers :
            Older(a, b) /\ b \in processed[h] => a \in processed[h] \/ rows[a].status = "dead"

(* A settled row is settled for good: no relay that comes late with its     *)
(* verdict revives, unpublishes or re-counts it.                            *)
SettledForGood ==
    [][\A r \in Rows : rows[r].status \in {"published", "dead"} =>
          rows'[r].status = rows[r].status /\ rows'[r].attempts = rows[r].attempts]_vars

(* The lease works: as long as none lapses under a relay that is alive, two *)
(* relays never run the handlers of one row at the same time, whatever      *)
(* heads they read and whichever of them die (findHeads, claim).            *)
OneAtATime ==
    stalls = 0 =>
        \A v \in Workers, w \in Workers :
            v # w /\ relay[v].pc = "dispatching" /\ relay[w].pc = "dispatching"
                => relay[v].row # relay[w].row

(* And then only a row that was parked is announced as dead (markFailed     *)
(* announces from the attempts it read, whether or not its write matched).  *)
ToldOnlyIfDead == stalls = 0 => \A r \in told : rows[r].status = "dead"

-----------------------------------------------------------------------------
(* Liveness.  The sweep runs every minute, so some relay keeps reading      *)
(* heads; a relay that is alive goes on; clocks move on.                    *)
FairSpec ==
    /\ Spec
    /\ \A w \in Workers : WF_vars(RelayStep(w))
    /\ \A r \in Rows : WF_vars(BackoffEnds(r)) /\ WF_vars(LeaseLapses(r))

(* Every committed row is settled in the end: published or parked, even if  *)
(* relays die holding it and whatever its handlers do.                      *)
EveryRowSettles ==
    \A r \in Rows :
        rows[r].status = "pending" ~> rows[r].status \in {"published", "dead"}

=============================================================================
