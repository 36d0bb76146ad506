----------------------------- MODULE Inventory -----------------------------
(***************************************************************************)
(* Stock counters and order holds (src/src/modules/inventory).             *)
(*                                                                         *)
(* Three collections: `levels` (one row of counters per product), `holds`  *)
(* (one reservation document per order) and `ledger` (the append-only      *)
(* movement rows, kept here as the sum of the deltas they record).  Every  *)
(* operation that runs in one MongoDB transaction is one action.  The only *)
(* operations that are NOT one transaction are a checkout's reserve, which *)
(* writes the hold, takes the lines one conditional write each and gives   *)
(* them back on a refusal, and a downward stocktake correction: each of    *)
(* their writes is an action of its own, interleaved with everything else. *)
(***************************************************************************)
EXTENDS Integers, FiniteSets, Sums

CONSTANTS
    Products,    \* product ids; naturals, because lines are taken in id order
    Orders,      \* order ids
    Requests,    \* what a checkout may ask to hold
    Parcels,     \* lines a partial shipment or a remainder cancel may name
    Losses,      \* lines a lost parcel or a return may name
    Deliveries,  \* quantities staff may receive or correct by
    Deletable,   \* products staff may hard-delete
    Caps,        \* preorder allowances staff may set
    NoCap,       \* the stored null: no allowance limit
    Faults,      \* the failures that may happen
    MaxFaults,   \* bound: how many of them
    MaxOnHand,   \* bound: units a shelf may reach
    MaxShrink,   \* bound: corrections of a product whose row is not written yet
    MaxOwed,     \* bound: claims a product may reach through top-ups
    MaxClock     \* bound: payments stamped

Kinds == {"stock", "backorder"}
Items == [Products -> [Kinds -> Nat]]
Request == [Products -> [quantity : Nat, kind : Kinds, spill : BOOLEAN]]
FaultKinds == {"crash", "takeThrows", "giveBackThrows", "stall"}

ASSUME InventoryAssumption ==
    /\ Products \subseteq Nat /\ IsFiniteSet(Products)
    /\ IsFiniteSet(Orders)
    /\ Requests \subseteq Request
    /\ Parcels \subseteq Items
    /\ Losses \subseteq [Products -> Nat]
    /\ Deliveries \subseteq Nat \ {0}
    /\ Deletable \subseteq Products
    /\ Caps \subseteq Nat \cup {NoCap} /\ NoCap \notin Nat
    /\ Faults \subseteq FaultKinds
    /\ MaxFaults \in Nat /\ MaxOnHand \in Nat /\ MaxShrink \in Nat /\ MaxOwed \in Nat
    /\ MaxClock \in Nat

VARIABLES
    levels,   \* product -> its counters
    holds,    \* order -> its reservation document
    ledger,   \* product -> the sum of its movement rows
    rsv,      \* order -> the reserve working on it
    shrink,   \* product -> downward correction applied, its row not yet written
    clock,    \* the last payment instant stamped
    faults    \* failures so far

vars == <<levels, holds, ledger, rsv, shrink, clock, faults>>

-----------------------------------------------------------------------------
(* Documents. *)

RowStates == {"none", "open", "removed"}
Level == [row : RowStates, onHand : Int, reserved : Int, available : Int,
          backordered : Int, backorderLimit : Nat \cup {NoCap}]

ZeroLevel(row) == [row |-> row, onHand |-> 0, reserved |-> 0, available |-> 0,
                   backordered |-> 0, backorderLimit |-> 0]

NoItems == [p \in Products |-> [k \in Kinds |-> 0]]

HoldStatus == {"none", "held", "committed", "shipped", "released"}
Hold == [status : HoldStatus, items : Items, committedAt : Nat, due : BOOLEAN]
NoHold == [status |-> "none", items |-> NoItems, committedAt |-> 0, due |-> FALSE]

OpenStatus == {"held", "committed"}

Phases == {"idle", "taking", "recording", "narrowing", "giving",
           "placed", "refused", "crashed"}
Reserve == [pc : Phases, request : Request, todo : SUBSET Products,
            taken : Items, unwritten : Items]
NoRequest == [p \in Products |-> [quantity |-> 0, kind |-> "stock", spill |-> FALSE]]
Resting(pc) == [pc |-> pc, request |-> NoRequest, todo |-> {},
                taken |-> NoItems, unwritten |-> NoItems]

Movement == [onHand : Int, reserved : Int, backordered : Int]

-----------------------------------------------------------------------------
(* The counters: what a movement does, and when the write matches. *)

Reasons == {"reserve", "ship", "release", "expire", "backorder", "owed",
            "allocate", "receive", "restock", "adjust"}

CounterDeltaFor(reason, q, kind) ==
    [onHand |-> CASE reason \in {"receive", "restock", "adjust"} -> q
                  [] reason = "ship" -> -q
                  [] OTHER -> 0,
     reserved |-> CASE reason \in {"reserve", "allocate"} -> q
                    [] reason = "ship" -> -q
                    [] reason \in {"release", "expire"} /\ kind = "stock" -> -q
                    [] OTHER -> 0,
     backordered |-> CASE reason \in {"backorder", "owed"} -> q
                       [] reason = "allocate" -> -q
                       [] reason \in {"release", "expire"} /\ kind = "backorder" -> -q
                       [] OTHER -> 0]

ConditionFor(l, reason, q, kind) ==
    CASE reason = "reserve" -> l.available >= q
      [] reason = "ship" -> l.onHand >= q /\ l.reserved >= q
      [] reason \in {"release", "expire"} ->
            IF kind = "backorder" THEN l.backordered >= q ELSE l.reserved >= q
      [] reason = "backorder" ->
            l.backorderLimit # NoCap => l.backordered + q <= l.backorderLimit
      [] reason = "allocate" -> l.backordered >= q /\ l.available >= q
      [] reason = "adjust" -> l.onHand + q >= l.reserved
      [] OTHER -> TRUE

(* Mutated form of Allowed, not the code: a give-back that skips its condition. *)
AllowedUncheckedGiveBack(l, reason, q, kind) ==
    IF l.row = "open" THEN reason \in {"release", "expire"} \/ ConditionFor(l, reason, q, kind)
                      ELSE reason \notin {"reserve", "backorder", "owed"}

(* Mutated form of Allowed, not the code: an expiry whose condition is off by one. *)
AllowedStrictExpire(l, reason, q, kind) ==
    IF l.row = "open" THEN ConditionFor(l, reason, IF reason = "expire" THEN q + 1 ELSE q, kind)
                      ELSE reason \notin {"reserve", "backorder", "owed"}

(* Does the movement go through?  With no level row a take is refused and   *)
(* anything that gives back or ships is a trivial success.                  *)
Allowed(l, reason, q, kind) ==
    IF l.row = "open" THEN ConditionFor(l, reason, q, kind)
                      ELSE reason \notin {"reserve", "backorder", "owed"}

ApplyDelta(l, reason, q, kind) ==
    LET d == CounterDeltaFor(reason, q, kind) IN
    IF l.row # "open" THEN l
    ELSE [row |-> l.row,
          onHand |-> l.onHand + d.onHand,
          reserved |-> l.reserved + d.reserved,
          available |-> l.available + d.onHand - d.reserved,
          backordered |-> l.backordered + d.backordered,
          backorderLimit |-> l.backorderLimit]

(* One movement per line of `items`.  Lines of different products, and the  *)
(* two kinds of one product, move different counters, so the order in which *)
(* the code walks them makes no difference.                                 *)
LinesAllowed(L, reason, items) ==
    \A p \in Products, k \in Kinds :
        items[p][k] > 0 => Allowed(L[p], reason, items[p][k], k)

LinesMoved(L, reason, items) ==
    [p \in Products |-> ApplyDelta(ApplyDelta(L[p], reason, items[p].stock, "stock"),
                                   reason, items[p].backorder, "backorder")]

(* The ledger rows of a transaction: every counter change it made, from L   *)
(* to M.  A missing row's counters are all zero.                            *)
Recorded(L, M) ==
    [p \in Products |->
        [onHand |-> ledger[p].onHand + M[p].onHand - L[p].onHand,
         reserved |-> ledger[p].reserved + M[p].reserved - L[p].reserved,
         backordered |-> ledger[p].backordered + M[p].backordered - L[p].backordered]]

Logged(m, d) == [onHand |-> m.onHand + d.onHand,
                 reserved |-> m.reserved + d.reserved,
                 backordered |-> m.backordered + d.backordered]

-----------------------------------------------------------------------------
(* Hold lines. *)

NoLines(items) == \A p \in Products, k \in Kinds : items[p][k] = 0
ItemsOf(request) ==
    [p \in Products |-> [k \in Kinds |->
        IF request[p].kind = k THEN request[p].quantity ELSE 0]]
Smaller(a, b) == IF a < b THEN a ELSE b
NatOf(n) == IF n < 0 THEN 0 ELSE n

(* takeFromHold: a preorder line takes the claim first, then shelf units of *)
(* the same product that were allocated meanwhile; never more than is held. *)
TakenFrom(items, lines) ==
    [p \in Products |->
        LET claim == Smaller(lines[p].backorder, items[p].backorder) IN
        [k \in Kinds |->
            IF k = "backorder" THEN claim
            ELSE Smaller(lines[p].stock + lines[p].backorder - claim, items[p].stock)]]
Minus(items, taken) ==
    [p \in Products |-> [k \in Kinds |-> NatOf(items[p][k] - taken[p][k])]]
WithAdded(items, added) ==
    [p \in Products |-> [k \in Kinds |-> items[p][k] + added[p][k]]]
ProductsOf(items, k) == {p \in Products : items[p][k] > 0}

-----------------------------------------------------------------------------
(* Serving the queue of paid preorders, oldest payment first. *)

Waiting(H, o, p) == IF H[o].status = "committed" THEN H[o].items[p].backorder ELSE 0

(* Mutated form of WaitingAhead, not the code: the queue sorted the wrong way. *)
WaitingAheadNewestFirst(H, o, p) ==
    Sum([x \in Orders |->
             IF H[x].committedAt > H[o].committedAt THEN Waiting(H, x, p) ELSE 0])

WaitingAhead(H, o, p) ==
    Sum([x \in Orders |->
             IF H[x].committedAt < H[o].committedAt THEN Waiting(H, x, p) ELSE 0])

Free(L, p) ==
    IF L[p].row = "open" /\ L[p].backordered > 0 /\ L[p].available > 0
    THEN L[p].available ELSE 0

(* What the walk down the queue hands to order o: the free units left by    *)
(* the orders ahead of it, up to what it waits for.                         *)
Given(L, H, o, p) ==
    Smaller(NatOf(Free(L, p) - WaitingAhead(H, o, p)), Waiting(H, o, p))

GivenAll(L, H, p) == Sum([o \in Orders |-> Given(L, H, o, p)])

(* The counters refuse an allocation: the code throws, the transaction      *)
(* aborts.                                                                  *)
AllocateAllowed(L, H, P) ==
    \A p \in P : GivenAll(L, H, p) > 0 => Allowed(L[p], "allocate", GivenAll(L, H, p), "stock")

AllocatedLevels(L, H, P) ==
    [p \in Products |->
        IF p \in P THEN ApplyDelta(L[p], "allocate", GivenAll(L, H, p), "stock") ELSE L[p]]

AllocatedHolds(L, H, P) ==
    [o \in Orders |->
        [H[o] EXCEPT !.items =
            [p \in Products |->
                LET g == IF p \in P THEN Given(L, H, o, p) ELSE 0 IN
                [k \in Kinds |-> IF k = "stock" THEN H[o].items[p].stock + g
                                 ELSE NatOf(H[o].items[p].backorder - g)]]]]

(* Mutated form of ServeAndRecord, not the code: an allocation that writes no ledger row. *)
ServeUnrecorded(L, H, P) ==
    /\ AllocateAllowed(L, H, P)
    /\ levels' = AllocatedLevels(L, H, P)
    /\ holds' = AllocatedHolds(L, H, P)
    /\ ledger' = Recorded(levels, L)

(* The end of a transaction whose own writes left counters L and holds H:   *)
(* the queues of the products P are served in it, everything is recorded.   *)
ServeAndRecord(L, H, P) ==
    /\ AllocateAllowed(L, H, P)
    /\ levels' = AllocatedLevels(L, H, P)
    /\ holds' = AllocatedHolds(L, H, P)
    /\ ledger' = Recorded(levels, AllocatedLevels(L, H, P))

-----------------------------------------------------------------------------
Init ==
    /\ levels = [p \in Products |-> ZeroLevel("none")]
    /\ holds = [o \in Orders |-> NoHold]
    /\ ledger = [p \in Products |-> [onHand |-> 0, reserved |-> 0, backordered |-> 0]]
    /\ rsv = [o \in Orders |-> Resting("idle")]
    /\ shrink = [p \in Products |-> 0]
    /\ clock = 0
    /\ faults = 0

-----------------------------------------------------------------------------
(* reserveForOrder: one action per database write. *)

(* The hold is written first, naming every line. *)
InsertHold(o, request) ==
    /\ rsv[o].pc = "idle"
    /\ holds[o].status = "none"
    /\ ~ NoLines(ItemsOf(request))
    /\ holds' = [holds EXCEPT ![o] = [NoHold EXCEPT !.status = "held",
                                                    !.items = ItemsOf(request)]]
    /\ rsv' = [rsv EXCEPT ![o] =
                 [Resting("taking") EXCEPT !.request = request,
                     !.todo = {p \in Products : request[p].quantity > 0}]]
    /\ UNCHANGED <<levels, ledger, shrink, clock, faults>>

NextLine(o, p) ==
    /\ rsv[o].pc = "taking"
    /\ p \in rsv[o].todo
    /\ \A x \in rsv[o].todo : p <= x

Spills(line) == line.spill /\ line.kind = "stock"
TakeReasonFor(line) == IF line.kind = "backorder" THEN "backorder" ELSE "reserve"
LineItems(p, k, q) == [NoItems EXCEPT ![p][k] = q]

(* applyTransition outside a transaction, first write: the counters. *)
TakeLine(o, p) ==
    LET line == rsv[o].request[p] IN
    /\ NextLine(o, p)
    /\ ~ Spills(line)
    /\ Allowed(levels[p], TakeReasonFor(line), line.quantity, line.kind)
    /\ levels' = [levels EXCEPT ![p] =
                    ApplyDelta(@, TakeReasonFor(line), line.quantity, line.kind)]
    /\ rsv' = [rsv EXCEPT ![o].pc = "recording",
                          ![o].todo = @ \ {p},
                          ![o].unwritten = LineItems(p, line.kind, line.quantity)]
    /\ UNCHANGED <<holds, ledger, shrink, clock, faults>>

(* Second write: the ledger row of the line just taken. *)
RecordLine(o) ==
    LET row == rsv[o].unwritten IN
    /\ rsv[o].pc = "recording"
    /\ ledger' = [p \in Products |->
                    Logged(ledger[p], [onHand |-> 0, reserved |-> row[p].stock,
                                       backordered |-> row[p].backorder])]
    /\ rsv' = [rsv EXCEPT ![o].pc = "taking",
                          ![o].taken = WithAdded(@, row),
                          ![o].unwritten = NoItems]
    /\ UNCHANGED <<levels, holds, shrink, clock, faults>>

(* What a spilling line would take: all from the shelf when it fits, else   *)
(* what the shelf has and a claim for the rest.                             *)
SpillParts(p, q) ==
    LET shelf == IF levels[p].row = "open" THEN Smaller(levels[p].available, q) ELSE 0
    IN  [NoItems EXCEPT ![p] = [k \in Kinds |-> IF k = "stock" THEN shelf ELSE q - shelf]]

SpillAllowed(p, q) ==
    ~ Allowed(levels[p], "reserve", q, "stock") =>
        Allowed(levels[p], "backorder", SpillParts(p, q)[p].backorder, "backorder")

(* takeSpillLine: counters, ledger and the rewritten hold in one            *)
(* transaction.                                                             *)
TakeSpillLine(o, p) ==
    LET q == rsv[o].request[p].quantity
        parts == SpillParts(p, q)
        M == [levels EXCEPT ![p] =
                ApplyDelta(ApplyDelta(@, "reserve", parts[p].stock, "stock"),
                           "backorder", parts[p].backorder, "backorder")]
    IN
    /\ NextLine(o, p)
    /\ Spills(rsv[o].request[p])
    /\ SpillAllowed(p, q)
    /\ levels' = M
    /\ ledger' = Recorded(levels, M)
    /\ holds' = IF holds[o].status \in OpenStatus
                THEN [holds EXCEPT ![o].items[p] = parts[p]] ELSE holds
    /\ rsv' = [rsv EXCEPT ![o].todo = @ \ {p}, ![o].taken = WithAdded(@, parts)]
    /\ UNCHANGED <<shrink, clock, faults>>

(* The counters refuse the line: start unwinding. *)
LineRefused(o, p) ==
    LET line == rsv[o].request[p] IN
    /\ NextLine(o, p)
    /\ IF Spills(line) THEN ~ SpillAllowed(p, line.quantity)
       ELSE ~ Allowed(levels[p], TakeReasonFor(line), line.quantity, line.kind)
    /\ rsv' = [rsv EXCEPT ![o].pc = "narrowing", ![o].todo = {}]
    /\ UNCHANGED <<levels, holds, ledger, shrink, clock, faults>>

(* Every line is taken: the order may be written, its id becomes known. *)
FinishReserve(o) ==
    /\ rsv[o].pc = "taking" /\ rsv[o].todo = {}
    /\ rsv' = [rsv EXCEPT ![o] = Resting("placed")]
    /\ UNCHANGED <<levels, holds, ledger, shrink, clock, faults>>

(* giveBackAndDeleteHold, first write: the hold names only what was taken. *)
NarrowToTaken(o) ==
    /\ rsv[o].pc = "narrowing"
    /\ holds' = IF holds[o].status = "held"
                THEN [holds EXCEPT ![o].items = rsv[o].taken] ELSE holds
    /\ rsv' = [rsv EXCEPT ![o].pc = "giving"]
    /\ UNCHANGED <<levels, ledger, shrink, clock, faults>>

(* The lines are released in parallel, counters then row each; the queue is *)
(* not served.                                                              *)
GiveBackLine(o, p, k) ==
    LET q == rsv[o].taken[p][k]
        goes == Allowed(levels[p], "release", q, k) /\ levels[p].row = "open"
    IN
    /\ rsv[o].pc = "giving" /\ q > 0
    /\ levels' = IF goes THEN [levels EXCEPT ![p] = ApplyDelta(@, "release", q, k)]
                 ELSE levels
    /\ rsv' = [rsv EXCEPT ![o].taken[p][k] = 0,
                          ![o].unwritten[p][k] = IF goes THEN q ELSE @]
    /\ UNCHANGED <<holds, ledger, shrink, clock, faults>>

(* Mutated form of RecordGiveBack, not the code: a give-back whose ledger row is dropped. *)
ForgetGiveBackRow(o, p, k) ==
    /\ rsv[o].pc = "giving" /\ rsv[o].unwritten[p][k] > 0
    /\ rsv' = [rsv EXCEPT ![o].unwritten[p][k] = 0]
    /\ UNCHANGED <<levels, holds, ledger, shrink, clock, faults>>

RecordGiveBack(o, p, k) ==
    LET q == rsv[o].unwritten[p][k] IN
    /\ rsv[o].pc = "giving" /\ q > 0
    /\ ledger' = [ledger EXCEPT ![p] = Logged(@, CounterDeltaFor("release", q, k))]
    /\ rsv' = [rsv EXCEPT ![o].unwritten[p][k] = 0]
    /\ UNCHANGED <<levels, holds, shrink, clock, faults>>


(* Mutated form of DeleteHold, not the code: the hold deleted before its lines are given back. *)
DeleteHoldAtOnce(o) ==
    /\ rsv[o].pc = "giving"
    /\ holds' = [holds EXCEPT ![o] = NoHold]
    /\ rsv' = [rsv EXCEPT ![o] = Resting("refused")]
    /\ UNCHANGED <<levels, ledger, shrink, clock, faults>>

(* Mutated form of DeleteHold, not the code: the hold of a refused checkout never deleted. *)
KeepHold(o) ==
    /\ rsv[o].pc = "giving"
    /\ NoLines(rsv[o].taken) /\ NoLines(rsv[o].unwritten)
    /\ rsv' = [rsv EXCEPT ![o] = Resting("refused")]
    /\ UNCHANGED <<levels, holds, ledger, shrink, clock, faults>>

(* Once every line is back, the hold document goes. *)
DeleteHold(o) ==
    /\ rsv[o].pc = "giving"
    /\ NoLines(rsv[o].taken) /\ NoLines(rsv[o].unwritten)
    /\ holds' = [holds EXCEPT ![o] = NoHold]
    /\ rsv' = [rsv EXCEPT ![o] = Resting("refused")]
    /\ UNCHANGED <<levels, ledger, shrink, clock, faults>>

-----------------------------------------------------------------------------
(* Everything below runs in one transaction.  Callers (orders, payments,    *)
(* delivery, returns) know an order only once its reserve has returned.     *)
Known(o) == rsv[o].pc = "placed"

Released(H, o) == [H EXCEPT ![o].status = "released"]
Stamped(hold) == [hold EXCEPT !.status = "committed", !.committedAt = clock + 1]

(* commitForOrder on a held hold: stamp the payment, serve the lines that   *)
(* now wait for stock.                                                      *)
CommitForOrder(o) ==
    /\ Known(o) /\ holds[o].status = "held"
    /\ clock < MaxClock
    /\ clock' = clock + 1
    /\ ServeAndRecord(levels, [holds EXCEPT ![o] = Stamped(@)],
                      ProductsOf(holds[o].items, "backorder"))
    /\ UNCHANGED <<rsv, shrink, faults>>

(* retakeReleasedForOrder: every line of a released hold taken again, or    *)
(* (short) none.                                                            *)
RetakeAllowed(o) ==
    \A p \in Products :
        LET it == holds[o].items[p] IN
        /\ it.stock > 0 => Allowed(levels[p], "reserve", it.stock, "stock")
        /\ it.backorder > 0 => Allowed(levels[p], "backorder", it.backorder, "backorder")
Retaken(o) ==
    [p \in Products |->
        ApplyDelta(ApplyDelta(levels[p], "reserve", holds[o].items[p].stock, "stock"),
                   "backorder", holds[o].items[p].backorder, "backorder")]

(* A payment that lands after the hold was released: retake, then commit.   *)
CommitReleasedForOrder(o) ==
    /\ Known(o) /\ holds[o].status = "released"
    /\ RetakeAllowed(o)
    /\ clock < MaxClock
    /\ clock' = clock + 1
    /\ ServeAndRecord(Retaken(o), [holds EXCEPT ![o] = Stamped(@)],
                      ProductsOf(holds[o].items, "backorder"))
    /\ UNCHANGED <<rsv, shrink, faults>>

(* shipForOrder: the whole hold leaves; a preorder claim cannot. *)
ShipForOrder(o) ==
    /\ Known(o) /\ holds[o].status \in OpenStatus
    /\ ProductsOf(holds[o].items, "backorder") = {}
    /\ LinesAllowed(levels, "ship", holds[o].items)
    /\ ServeAndRecord(LinesMoved(levels, "ship", holds[o].items),
                      [holds EXCEPT ![o].status = "shipped"], {})
    /\ UNCHANGED <<rsv, shrink, clock, faults>>

(* takeLines: some lines leave the hold, which ends `endsAs` once empty.    *)
TakeLines(o, lines, reason, endsAs) ==
    LET taken == TakenFrom(holds[o].items, lines)
        rest == Minus(holds[o].items, taken)
        freed == IF reason = "release" THEN ProductsOf(taken, "stock") ELSE {}
    IN
    /\ Known(o) /\ holds[o].status \in OpenStatus
    /\ reason = "ship" => ProductsOf(taken, "backorder") = {}
    /\ LinesAllowed(levels, reason, taken)
    /\ ServeAndRecord(LinesMoved(levels, reason, taken),
                      [holds EXCEPT ![o].items = rest,
                                    ![o].status = IF NoLines(rest) THEN endsAs ELSE @],
                      freed)
    /\ UNCHANGED <<rsv, shrink, clock, faults>>

ShipLinesForOrder(o, lines) == TakeLines(o, lines, "ship", "shipped")
ReleaseLinesForOrder(o, lines) == TakeLines(o, lines, "release", "released")
ReleaseTopUpForOrder(o, lines) == TakeLines(o, lines, "release", "shipped")

(* Mutated form of GiveBackHold, not the code: freed units that do not serve the queue. *)
GiveBackUnserved(o, from, reason) ==
    /\ holds[o].status = from
    /\ LinesAllowed(levels, reason, holds[o].items)
    /\ ServeAndRecord(LinesMoved(levels, reason, holds[o].items), Released(holds, o), {})
    /\ UNCHANGED <<rsv, shrink, clock, faults>>

(* claimAndApply with a release or an expiry: the shelf units freed serve   *)
(* the queue first.                                                         *)
GiveBackHold(o, from, reason) ==
    /\ holds[o].status = from
    /\ LinesAllowed(levels, reason, holds[o].items)
    /\ ServeAndRecord(LinesMoved(levels, reason, holds[o].items), Released(holds, o),
                      ProductsOf(holds[o].items, "stock"))
    /\ UNCHANGED <<rsv, shrink, clock, faults>>

ReleaseForOrder(o) == Known(o) /\ GiveBackHold(o, "held", "release")
ReleaseCommittedForOrder(o) == Known(o) /\ GiveBackHold(o, "committed", "release")

(* The sweep: any due hold, whether or not its reserve ever returned. *)
ExpireOne(o) == holds[o].due /\ GiveBackHold(o, "held", "expire")

(* The hold's deadline passes.  A running reserve is over long before its   *)
(* window closes, unless it stalls.                                         *)
HoldLapses(o) ==
    /\ holds[o].status = "held" /\ ~ holds[o].due
    /\ \/ rsv[o].pc \in {"placed", "crashed"} /\ UNCHANGED faults
       \/ /\ rsv[o].pc \notin {"placed", "crashed"}
          /\ "stall" \in Faults /\ faults < MaxFaults /\ faults' = faults + 1
    /\ holds' = [holds EXCEPT ![o].due = TRUE]
    /\ UNCHANGED <<levels, ledger, rsv, shrink, clock>>

ExtendHoldForOrder(o) ==
    /\ Known(o) /\ holds[o].status = "held" /\ holds[o].due
    /\ holds' = [holds EXCEPT ![o].due = FALSE]
    /\ UNCHANGED <<levels, ledger, rsv, shrink, clock, faults>>

(* Mutated form of TopUpParts, not the code: a top-up that takes all that is available. *)
TopUpWholeShelf(lost) ==
    [p \in Products |->
        LET shelf == NatOf(levels[p].available) IN
        [k \in Kinds |-> IF levels[p].row # "open" THEN 0
                         ELSE IF k = "stock" THEN shelf ELSE lost[p] - shelf]]

(* reserveMoreForOrder: a lost parcel is set aside again, shelf units first, *)
(* the rest owed outside the allowance; an ended hold reopens committed.     *)
TopUpParts(lost) ==
    [p \in Products |->
        LET shelf == Smaller(NatOf(levels[p].available), lost[p]) IN
        [k \in Kinds |-> IF levels[p].row # "open" THEN 0
                         ELSE IF k = "stock" THEN shelf ELSE lost[p] - shelf]]

(* Mutated form of ToppedUp, not the code: an ended hold reopened with its old lines. *)
ToppedUpOnEnded(hold, added, stamp) ==
    [hold EXCEPT !.status = "committed", !.items = WithAdded(hold.items, added),
                 !.committedAt = IF hold.committedAt > 0 THEN hold.committedAt ELSE stamp]

ToppedUp(hold, added, stamp) ==
    IF hold.status \in OpenStatus THEN [hold EXCEPT !.items = WithAdded(hold.items, added)]
    ELSE [hold EXCEPT !.status = "committed", !.items = added,
                      !.committedAt = IF hold.committedAt > 0 THEN hold.committedAt ELSE stamp]
ReserveMoreForOrder(o, lost) ==
    LET added == TopUpParts(lost)
        open == holds[o].status \in OpenStatus
        stamp == IF open \/ holds[o].committedAt > 0 THEN clock ELSE clock + 1
        M == [p \in Products |->
                ApplyDelta(ApplyDelta(levels[p], "reserve", added[p].stock, "stock"),
                           "owed", added[p].backorder, "backorder")]
    IN
    /\ Known(o)
    /\ ~ NoLines(added)
    /\ \A p \in Products : M[p].backordered <= MaxOwed
    /\ stamp <= MaxClock
    /\ clock' = stamp
    /\ levels' = M
    /\ ledger' = Recorded(levels, M)
    /\ holds' = [holds EXCEPT ![o] = ToppedUp(@, added, stamp)]
    /\ UNCHANGED <<rsv, shrink, faults>>

-----------------------------------------------------------------------------
(* Staff operations and product events. *)

OpenLevel(p) ==
    /\ levels[p].row = "none"
    /\ levels' = [levels EXCEPT ![p] = ZeroLevel("open")]
    /\ UNCHANGED <<holds, ledger, rsv, shrink, clock, faults>>

RemoveLevel(p) ==
    /\ p \in Deletable
    /\ levels[p].row = "open"
    /\ levels' = [levels EXCEPT ![p] = ZeroLevel("removed")]
    /\ UNCHANGED <<holds, ledger, rsv, shrink, clock, faults>>

(* receive, and adjust upwards: units arrive and serve the queue in one     *)
(* transaction, creating the row when the product has none yet.             *)
ReceiveAndAllocate(p, q, reason) ==
    LET l == IF levels[p].row = "none" THEN ZeroLevel("open") ELSE levels[p]
        M == ApplyDelta(l, reason, q, "stock")
    IN
    /\ levels[p].row # "removed"
    /\ Allowed(l, reason, q, "stock")
    /\ M.onHand <= MaxOnHand
    /\ ServeAndRecord([levels EXCEPT ![p] = M], holds, {p})
    /\ UNCHANGED <<rsv, shrink, clock, faults>>

Receive(p, q) == ReceiveAndAllocate(p, q, "receive")
AdjustUp(p, q) == ReceiveAndAllocate(p, q, "adjust")

(* adjust downwards: no transaction, so the counters first... *)
AdjustDown(p, q) ==
    /\ levels[p].row = "open"
    /\ shrink[p] + q <= MaxShrink
    /\ Allowed(levels[p], "adjust", -q, "stock")
    /\ levels' = [levels EXCEPT ![p] = ApplyDelta(@, "adjust", -q, "stock")]
    /\ shrink' = [shrink EXCEPT ![p] = @ + q]
    /\ UNCHANGED <<holds, ledger, rsv, clock, faults>>

(* ... and the ledger row after. *)
RecordAdjust(p) ==
    /\ shrink[p] > 0
    /\ ledger' = [ledger EXCEPT ![p] =
                    Logged(@, CounterDeltaFor("adjust", -shrink[p], "stock"))]
    /\ shrink' = [shrink EXCEPT ![p] = 0]
    /\ UNCHANGED <<levels, holds, rsv, clock, faults>>

(* restockReturnedLines: returned goods back on the shelf, queues served. *)
RestockReturnedLines(back) ==
    LET M == [p \in Products |-> ApplyDelta(levels[p], "restock", back[p], "stock")] IN
    /\ \E p \in Products : back[p] > 0
    /\ \A p \in Products : M[p].onHand <= MaxOnHand
    /\ ServeAndRecord(M, holds, {p \in Products : back[p] > 0})
    /\ UNCHANGED <<rsv, shrink, clock, faults>>

(* setBackorderLimit creates the row too, when the product has none yet. *)
SetBackorderLimit(p, cap) ==
    LET l == IF levels[p].row = "none" THEN ZeroLevel("open") ELSE levels[p] IN
    /\ levels[p].row # "removed" /\ levels[p].backorderLimit # cap
    /\ levels' = [levels EXCEPT ![p] = [l EXCEPT !.backorderLimit = cap]]
    /\ UNCHANGED <<holds, ledger, rsv, shrink, clock, faults>>

-----------------------------------------------------------------------------
(* Failures the code meets outside transactions.  (Inside one, a failure    *)
(* aborts it: nothing happened.)                                            *)
Fault(kind) == kind \in Faults /\ faults < MaxFaults /\ faults' = faults + 1

(* The process dies during a reserve: what it had in memory is gone. *)
CrashInReserve(o) ==
    /\ rsv[o].pc \in {"taking", "recording", "narrowing", "giving"}
    /\ Fault("crash")
    /\ rsv' = [rsv EXCEPT ![o] = Resting("crashed")]
    /\ UNCHANGED <<levels, holds, ledger, shrink, clock>>

(* It dies between a correction's counters and its row. *)
CrashInAdjust(p) ==
    /\ shrink[p] > 0
    /\ Fault("crash")
    /\ shrink' = [shrink EXCEPT ![p] = 0]
    /\ UNCHANGED <<levels, holds, ledger, rsv, clock>>

(* A line's write throws: the counters' (nothing moved) or the row's (they  *)
(* moved, and the line is not counted as taken).  Either way unwind.        *)
TakeThrows(o) ==
    /\ rsv[o].pc \in {"taking", "recording"}
    /\ rsv[o].pc = "taking" => rsv[o].todo # {}
    /\ Fault("takeThrows")
    /\ rsv' = [rsv EXCEPT ![o].pc = "narrowing", ![o].todo = {}, ![o].unwritten = NoItems]
    /\ UNCHANGED <<levels, holds, ledger, shrink, clock>>

(* A give-back throws before its counters or before its row: logged, the    *)
(* other lines go on.                                                       *)
GiveBackThrows(o, p, k) ==
    /\ rsv[o].pc = "giving"
    /\ Fault("giveBackThrows")
    /\ \/ rsv[o].taken[p][k] > 0 /\ rsv' = [rsv EXCEPT ![o].taken[p][k] = 0]
       \/ rsv[o].unwritten[p][k] > 0 /\ rsv' = [rsv EXCEPT ![o].unwritten[p][k] = 0]
    /\ UNCHANGED <<levels, holds, ledger, shrink, clock>>

-----------------------------------------------------------------------------
ReserveStep(o) ==
    \/ \E request \in Requests : InsertHold(o, request)
    \/ \E p \in Products : TakeLine(o, p) \/ TakeSpillLine(o, p) \/ LineRefused(o, p)
    \/ RecordLine(o) \/ FinishReserve(o) \/ NarrowToTaken(o) \/ DeleteHold(o)
    \/ \E p \in Products, k \in Kinds : GiveBackLine(o, p, k) \/ RecordGiveBack(o, p, k)

HoldStep(o) ==
    \/ CommitForOrder(o) \/ CommitReleasedForOrder(o) \/ ShipForOrder(o)
    \/ ReleaseForOrder(o) \/ ReleaseCommittedForOrder(o)
    \/ ExpireOne(o) \/ HoldLapses(o) \/ ExtendHoldForOrder(o)
    \/ \E lines \in Parcels :
          ShipLinesForOrder(o, lines) \/ ReleaseLinesForOrder(o, lines)
            \/ ReleaseTopUpForOrder(o, lines)
    \/ \E lost \in Losses : ReserveMoreForOrder(o, lost)

StaffStep ==
    \/ \E p \in Products :
          \/ OpenLevel(p) \/ RemoveLevel(p) \/ RecordAdjust(p)
          \/ \E q \in Deliveries : Receive(p, q) \/ AdjustUp(p, q) \/ AdjustDown(p, q)
          \/ \E cap \in Caps : SetBackorderLimit(p, cap)
    \/ \E back \in Losses : RestockReturnedLines(back)

FaultStep ==
    \/ \E o \in Orders : CrashInReserve(o) \/ TakeThrows(o)
    \/ \E o \in Orders, p \in Products, k \in Kinds : GiveBackThrows(o, p, k)
    \/ \E p \in Products : CrashInAdjust(p)

Next == (\E o \in Orders : ReserveStep(o) \/ HoldStep(o)) \/ StaffStep \/ FaultStep

Spec == Init /\ [][Next]_vars

-----------------------------------------------------------------------------
(* Properties. *)

(* Every document has its shape. *)
TypeOK ==
    /\ levels \in [Products -> Level]
    /\ holds \in [Orders -> Hold]
    /\ ledger \in [Products -> Movement]
    /\ rsv \in [Orders -> Reserve]
    /\ shrink \in [Products -> Nat]
    /\ clock \in Nat
    /\ faults \in Nat

Balanced(l) ==
    /\ l.available = l.onHand - l.reserved
    /\ l.available >= 0 /\ l.reserved >= 0 /\ l.backordered >= 0

(* The stored `available` is always what the shelf holds beyond what is     *)
(* promised, and no counter ever goes negative: whatever operations race,   *)
(* and whatever fails between two of their writes, the conditional writes   *)
(* never sell a unit the shelf does not have (conditionFor, applyDelta).    *)
NeverOversold == \A p \in Products : Balanced(levels[p])

(* Units of kind k of product p that the counters owe to order o. *)
SetAside(o, p, k) ==
    IF rsv[o].pc \in {"taking", "recording", "narrowing", "giving"}
    THEN rsv[o].taken[p][k] + (IF rsv[o].pc = "recording" THEN rsv[o].unwritten[p][k] ELSE 0)
    ELSE IF holds[o].status \in OpenStatus THEN holds[o].items[p][k] ELSE 0

(* As long as no process died, stalled or failed a write, each product's    *)
(* counters are exactly the units the open holds (and the reserves under    *)
(* way) name: no unit is leaked, freed twice, or counted for two orders,    *)
(* however checkouts, payments, sweeps, shipments, partial releases and     *)
(* allocations interleave (reserveForOrder, claimAndApply, takeLines).      *)
HoldsBacked ==
    faults = 0 =>
        \A p \in Products :
            levels[p].row = "open" =>
                /\ levels[p].reserved = Sum([o \in Orders |-> SetAside(o, p, "stock")])
                /\ levels[p].backordered = Sum([o \in Orders |-> SetAside(o, p, "backorder")])

(* And replaying a product's movement rows gives its counters, but for the  *)
(* rows a running operation is about to write (applyTransition without a    *)
(* session).                                                                *)
LedgerReplays ==
    \A p \in Products :
        LET inFlight(k, pc) ==
                Sum([o \in Orders |-> IF rsv[o].pc = pc THEN rsv[o].unwritten[p][k] ELSE 0])
        IN
        faults = 0 /\ levels[p].row = "open" =>
            /\ levels[p].onHand + shrink[p] = ledger[p].onHand
            /\ levels[p].reserved + inFlight("stock", "giving")
                 = ledger[p].reserved + inFlight("stock", "recording")
            /\ levels[p].backordered + inFlight("backorder", "giving")
                 = ledger[p].backordered + inFlight("backorder", "recording")

(* No unit is sellable while a paid preorder waits for that product: every  *)
(* write that raises `available` serves the queue (allocateWithin), but for *)
(* the give-back of a checkout refused on a later line, so this is claimed  *)
(* where every checkout has one line.                                       *)
QueueServed ==
    (\A r \in Requests : Cardinality({p \in Products : r[p].quantity > 0}) <= 1) =>
        \A p \in Products, o \in Orders :
            levels[p].row = "open" /\ Waiting(holds, o, p) > 0 => levels[p].available = 0

(* Allocation is first paid, first served: a step that turns some of b's    *)
(* claim into shelf units leaves nobody who paid before b still waiting     *)
(* (findPaidPreorderHolds).                                                 *)
FirstPaidFirstServed ==
    [][\A p \in Products, a \in Orders, b \in Orders :
          /\ holds'[b].status = "committed"
          /\ holds'[b].items[p].stock > holds[b].items[p].stock
          /\ holds'[b].items[p].backorder < holds[b].items[p].backorder
          /\ holds'[a].committedAt < holds'[b].committedAt
          => Waiting(holds', a, p) = 0]_vars

-----------------------------------------------------------------------------
(* Liveness.  A running reserve takes its next step (its process is alive), *)
(* and the sweep, scheduled every few minutes, keeps trying each due hold.  *)

ReserveProgress(o) ==
    \/ \E p \in Products : TakeLine(o, p) \/ TakeSpillLine(o, p) \/ LineRefused(o, p)
    \/ RecordLine(o) \/ FinishReserve(o) \/ NarrowToTaken(o) \/ DeleteHold(o)
    \/ \E p \in Products, k \in Kinds : GiveBackLine(o, p, k) \/ RecordGiveBack(o, p, k)

FairSpec == Spec /\ \A o \in Orders : WF_vars(ReserveProgress(o)) /\ WF_vars(ExpireOne(o))

(* Every reserve ends: it holds all its lines, or it holds none and its     *)
(* hold document is gone, whatever races it.                                *)
ReserveEnds ==
    \A o \in Orders :
        rsv[o].pc = "taking" ~> \/ rsv[o].pc = "placed"
                                \/ rsv[o].pc = "refused" /\ holds[o].status = "none"

(* A hold past its window is given back, unless it was claimed or extended  *)
(* first: the sweep never finds it impossible (runReservationSweep).        *)
DueHoldsEnd ==
    \A o \in Orders :
        holds[o].status = "held" /\ holds[o].due ~> ~ (holds[o].status = "held" /\ holds[o].due)

=============================================================================
