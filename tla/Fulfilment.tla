----------------------------- MODULE Fulfilment -----------------------------
(***************************************************************************)
(* A paid order from its fulfilment orders to its parcels and what comes   *)
(* back: src/src/modules/delivery (services/*.ts over domain/fulfillment,  *)
(* lost, reship) with src/src/modules/returns (create, decide, cancel,     *)
(* receive, close, cancel-remainder) and the order's own moves.            *)
(*                                                                         *)
(* An act of delivery is one transaction that claims the revision of the   *)
(* fulfilment order and writes the order, so it is one action.  What is    *)
(* read before a transaction and used in it (the orders to ensure, the     *)
(* units to release, the units shipped) is kept between two actions.  One  *)
(* product; its stock is reduced to this order's hold (Inventory has the   *)
(* counters) and the money of a return is left to Refunds.                 *)
(***************************************************************************)
EXTENDS Integers, Sequences, FiniteSets, FiniteSetsExt, Sums

CONSTANTS
    Ordered,     \* units bought
    Backorders,  \* how many of them may wait for stock when the order is paid
    Kinds,       \* may the product be physical or digital
    Divergences, \* which departures from the documented behaviour may happen
    MaxGroups,   \* bound: fulfilment orders
    MaxParcels,  \* bound: shipments
    MaxReturns,  \* bound: returns
    MaxEnsuring, \* bound: ensures at work at once
    MaxEvents    \* bound: outbox rows waiting for delivery

ASSUME FulfilmentAssumption ==
    /\ Ordered \in Nat \ {0} /\ Backorders \subseteq 0 .. Ordered
    /\ Kinds \subseteq {"physical", "digital"}
    /\ Divergences \subseteq {"stale allocation", "replaced in transit", "found once released"}
    /\ {MaxGroups, MaxParcels, MaxReturns, MaxEnsuring, MaxEvents} \subseteq Nat
    /\ MaxGroups >= 2  \* what is in stock, and what waits for it

VARIABLES
    order,    \* status, what kind of goods, how many units were backordered
    groups,   \* the fulfilment orders, by number
    parcels,  \* the shipments, by number
    hold,     \* the order's units: set aside, and owed by the shelf
    returns,  \* the returns opened on it
    events,   \* outbox rows of this order, oldest first
    ensuring, \* ensureFulfillmentOrders that saw none and have not written yet
    relay,    \* the allocation being handled: units to release, groups to look at
    asked     \* the shipped units a return being opened has read

vars == <<order, groups, parcels, hold, returns, events, ensuring, relay, asked>>
reads == <<ensuring, relay, asked>>

-----------------------------------------------------------------------------
(* domain/fulfillment.ts: the lines of a fulfilment order and its status. *)

RemainingOf(g) == g.quantity - g.shipped - g.cancelled

StatusOfLines(g, held) ==
    CASE g.quantity = 0 -> "closed"
      [] g.quantity > 0 /\ RemainingOf(g) = 0 -> IF g.shipped > 0 THEN "closed" ELSE "cancelled"
      [] RemainingOf(g) # 0 /\ held -> "on_hold"
      [] OTHER -> IF g.shipped > 0 THEN "in_progress" ELSE "open"

Held(g) == [g EXCEPT !.status = StatusOfLines(g, TRUE)]
Freed(g) == [g EXCEPT !.status = StatusOfLines(g, FALSE), !.reason = "none"]
(* A change of the lines alone keeps an order on hold if it was. *)
Restated(g) == [g EXCEPT !.status = StatusOfLines(g, g.status = "on_hold")]

(* source: the lost parcel it was made for, or 0; found: units closed because it turned up. *)
Group(quantity, reason, source) ==
    LET g == [quantity |-> quantity, shipped |-> 0, cancelled |-> 0, status |-> "open",
              reason |-> reason, source |-> source, found |-> 0]
    IN IF reason = "none" THEN Freed(g) ELSE Held(g)

Workable(g) == g.status \in {"open", "in_progress"} /\ RemainingOf(g) > 0
AwaitingStock(g) == g.status = "on_hold" /\ g.reason = "awaiting_stock"
WithShipped(g, n) == Freed([g EXCEPT !.shipped = @ + n])
WithRemainderCancelled(g) == Freed([g EXCEPT !.cancelled = @ + RemainingOf(g)])

WaitingOf(g) == IF AwaitingStock(g) THEN RemainingOf(g) ELSE 0

Units(s, Count(_)) == Sum([i \in DOMAIN s |-> Count(s[i])])
Remaining(gs) == Units(gs, RemainingOf)
Waiting(gs) == Units(gs, WaitingOf)
Shipped(gs) == Units(gs, LAMBDA g : g.shipped)

-----------------------------------------------------------------------------
(* services/progress.ts and the order's moves. *)

AwaitingGoods == order.status \in {"paid", "processing"}
CanRecordArrival == order.status \in {"processing", "shipped"}
(* reportProgress: an act on an order no longer fulfillable is refused. *)
Reportable == order.status # "cancelled"

(* Mutated form of SettleOrder, not the code: parcels on the way are forgotten. *)
SettleOnceOut(status, gs, ps) ==
    IF Remaining(gs) > 0 \/ ps = <<>> \/ status \notin {"processing", "shipped"} THEN status
    ELSE "delivered"

SettleOrder(status, gs, ps) ==
    LET In(s) == \E i \in DOMAIN ps : ps[i].status = s IN
    CASE Remaining(gs) > 0 \/ ps = <<>> \/ status \notin {"processing", "shipped"} -> status
      [] OTHER -> IF In("shipped") THEN "shipped"
                  ELSE IF status = "processing" /\ ~ In("delivered") THEN "cancelled"
                  ELSE "delivered"

(* ORDER_CANCELLED, and PREORDER_ALLOCATED with what the order still waits for. *)
OrderCancelled == [name |-> "cancelled", waiting |-> 0]
PreorderAllocated(waiting) == [name |-> "allocated", waiting |-> waiting]

(* An order nothing of which arrived is cancelled by the settling itself. *)
Settles(status, gs, ps) ==
    LET to == SettleOrder(status, gs, ps) IN
    /\ order' = [order EXCEPT !.status = to]
    /\ events' = IF to = "cancelled" /\ status # "cancelled" THEN Append(events, OrderCancelled)
                 ELSE events

Started(status) == IF status = "paid" THEN "processing" ELSE status
Room(s, max) == Len(s) < max

-----------------------------------------------------------------------------
(* The hold of the order in inventory. *)

(* takeFromHold: an owed line takes what is owed first, then units set aside. *)
TakenFromHold(stock, owed) ==
    LET claim == Min({owed, hold.owed}) IN
    [stock |-> hold.stock - Min({stock + owed - claim, hold.stock}), owed |-> hold.owed - claim]

(* An allocation row that may still be delivered. *)
AllocationPending == \E i \in DOMAIN events : events[i].name = "allocated"
(* What the order owes changes while the event naming it is on its way. *)
MayChangeOwed == "stale allocation" \in Divergences \/ ~ AllocationPending

(* Units arrive and the queue of paid orders is served (inventory). *)
Allocate ==
    /\ hold.owed > 0 /\ Room(events, MaxEvents)
    /\ \E n \in 1 .. hold.owed :
          /\ hold' = [stock |-> hold.stock + n, owed |-> hold.owed - n]
          /\ events' = Append(events, PreorderAllocated(hold.owed - n))
    /\ UNCHANGED <<order, groups, parcels, returns, reads>>

Init ==
    /\ \E owed \in Backorders, kind \in Kinds :
          /\ order = [status |-> "paid", kind |-> kind, owed |-> owed]
          /\ hold = [stock |-> Ordered - owed, owed |-> owed]
    /\ groups = <<>> /\ parcels = <<>> /\ returns = <<>> /\ events = <<>>
    /\ ensuring = 0 /\ asked = 0
    /\ relay = [busy |-> FALSE, left |-> 0, todo |-> {}]

-----------------------------------------------------------------------------
(* ensure.ts: on the payment's event, every list read and every start. *)

GroupOrderLines ==
    (IF Ordered > order.owed THEN <<Group(Ordered - order.owed, "none", 0)>> ELSE <<>>)
    \o (IF order.owed > 0 THEN <<Group(order.owed, "awaiting_stock", 0)>> ELSE <<>>)

EnsureRead ==
    /\ ensuring < MaxEnsuring /\ AwaitingGoods /\ groups = <<>>
    /\ ensuring' = ensuring + 1
    /\ UNCHANGED <<order, groups, parcels, hold, returns, events, relay, asked>>

EnsureWrite ==
    /\ ensuring > 0 /\ ensuring' = ensuring - 1
    /\ groups' = IF groups = <<>> /\ Reportable THEN GroupOrderLines ELSE groups
    /\ UNCHANGED <<order, parcels, hold, returns, events, relay, asked>>

(* process.ts *)
Process ==
    /\ order.status = "paid" /\ groups # <<>>
    /\ order' = [order EXCEPT !.status = "processing"]
    /\ UNCHANGED <<groups, parcels, hold, returns, events, reads>>

-----------------------------------------------------------------------------
(* ship.ts, fulfill.ts over cut.ts: units leave in a new shipment. *)

CutShipment(g, n, status) ==
    LET gs == [groups EXCEPT ![g] = WithShipped(@, n)]
        ps == Append(parcels, [group |-> g, quantity |-> n, status |-> status])
    IN
    /\ AwaitingGoods /\ Workable(groups[g]) /\ Room(parcels, MaxParcels)
    /\ groups' = gs /\ parcels' = ps
    /\ hold' = TakenFromHold(n, 0)
    /\ Settles(Started(order.status), gs, ps)
    /\ UNCHANGED <<returns, reads>>

Ship(g) ==
    /\ order.kind = "physical"
    /\ \E n \in 1 .. RemainingOf(groups[g]) : CutShipment(g, n, "shipped")

Fulfil(g) ==
    /\ order.kind = "digital"
    /\ CutShipment(g, RemainingOf(groups[g]), "delivered")

(* holds.ts *)
HoldGroup(g) ==
    /\ AwaitingGoods /\ Workable(groups[g])
    /\ groups' = [groups EXCEPT ![g] = Held([@ EXCEPT !.reason = "by staff"])]
    /\ UNCHANGED <<order, parcels, hold, returns, events, reads>>

ReleaseGroup(g) ==
    /\ AwaitingGoods /\ groups[g].status = "on_hold" /\ ~ AwaitingStock(groups[g])
    /\ groups' = [groups EXCEPT ![g] = Freed(@)]
    /\ UNCHANGED <<order, parcels, hold, returns, events, reads>>

-----------------------------------------------------------------------------
(* lost.ts, found.ts, deliver.ts *)

(* Mutated form of WithLoss, not the code: owed units stay on the origin too. *)
WithLossOnly(g, lost, owed) ==
    Restated([g EXCEPT !.shipped = Max({0, @ - lost})])

WithLoss(g, lost, owed) ==
    Restated([g EXCEPT !.shipped = Max({0, @ - lost}), !.quantity = @ - owed])

WithOwed(gs, owed, source) ==
    IF owed = 0 THEN gs ELSE Append(gs, Group(owed, "awaiting_stock", source))
OwedFits(owed) == owed > 0 => Room(groups, MaxGroups) /\ MayChangeOwed

MarkLost(p) ==
    /\ parcels[p].status = "shipped" /\ order.kind = "physical" /\ CanRecordArrival
    /\ parcels' = [parcels EXCEPT ![p].status = "lost"]
    /\ \E owed \in 0 .. parcels[p].quantity :
          /\ OwedFits(owed)
          /\ hold' = [stock |-> hold.stock + parcels[p].quantity - owed,
                      owed |-> hold.owed + owed]
          /\ groups' = WithOwed([groups EXCEPT ![parcels[p].group] =
                                     WithLoss(@, parcels[p].quantity, owed)], owed, p)
    /\ order' = [order EXCEPT !.status = "processing"]
    /\ UNCHANGED <<returns, events, reads>>

(* planRestoration: every unit of the lost parcel must still be open. *)
Linked(p) == {g \in DOMAIN groups : groups[g].source = p}
OwedFor(p) == Units(groups, LAMBDA g : IF g.source = p THEN g.quantity ELSE 0)
(* Mutated form of Restorable, not the code: units sent again are not looked for. *)
RestorableAnyway(p) == TRUE
Restorable(p) ==
    /\ \A g \in Linked(p) : RemainingOf(groups[g]) = groups[g].quantity
    /\ OwedFor(p) <= parcels[p].quantity
    /\ RemainingOf(groups[parcels[p].group]) >= parcels[p].quantity - OwedFor(p)

(* Its owed group was released and another group still waits: the claim given back is theirs. *)
OwnOwed(p) == Units(groups, LAMBDA g : IF g.source = p THEN WaitingOf(g) ELSE 0)
MayBeFound(p) ==
    \/ "found once released" \in Divergences
    \/ Min({OwedFor(p), hold.owed}) = OwnOwed(p)

WithRestoration(g, quantity, owed) ==
    Restated([g EXCEPT !.shipped = @ + quantity, !.quantity = @ + owed])

Restored(p) ==
    [g \in DOMAIN groups |->
        CASE g = parcels[p].group -> WithRestoration(groups[g], parcels[p].quantity, OwedFor(p))
          [] g \in Linked(p) -> [WithRemainderCancelled(groups[g]) EXCEPT !.found = @ + RemainingOf(groups[g])]
          [] OTHER -> groups[g]]

ReleaseTopUp(p) == TakenFromHold(parcels[p].quantity - OwedFor(p), OwedFor(p))

Deliver(p) ==
    LET gs == IF parcels[p].status = "lost" THEN Restored(p) ELSE groups
        ps == [parcels EXCEPT ![p].status = "delivered"]
    IN
    /\ CanRecordArrival /\ parcels[p].status \in {"shipped", "lost"}
    /\ \/ parcels[p].status = "shipped" /\ UNCHANGED hold
       \/ /\ parcels[p].status = "lost" /\ Restorable(p)
          /\ OwedFor(p) > 0 => MayChangeOwed /\ MayBeFound(p)
          /\ hold' = ReleaseTopUp(p)
    /\ groups' = gs /\ parcels' = ps
    /\ Settles(order.status, gs, ps)
    /\ UNCHANGED <<returns, reads>>

-----------------------------------------------------------------------------
(* release-allocated.ts and split.ts: stock arrived for groups that wait. *)

(* Mutated form of ToRelease, not the code: all that waits, whatever is still owed. *)
ToReleaseAll(waiting) == Waiting(groups)
ToRelease(waiting) == Waiting(groups) - waiting

HandleAllocated ==
    /\ ~ relay.busy /\ events # <<>> /\ events[1].name = "allocated"
    /\ AwaitingGoods => groups # <<>>
    /\ relay' = [busy |-> TRUE, left |-> ToRelease(events[1].waiting),
                 todo |-> {<<g, RemainingOf(groups[g])>> :
                              g \in {h \in DOMAIN groups : AwaitingStock(groups[h])}}]
    /\ UNCHANGED <<order, groups, parcels, hold, returns, events, ensuring, asked>>

(* What the group keeps waiting for. *)
Reduced(g, n) == Held([g EXCEPT !.quantity = @ - n])
(* splitAct: the whole group goes, or the part allocated in one of its own. *)
Splits(g, n) ==
    LET held == groups[g] IN
    IF ~ Reportable \/ ~ AwaitingStock(held) \/ n > RemainingOf(held) THEN groups
    ELSE IF n = RemainingOf(held) THEN [groups EXCEPT ![g] = Freed(@)]
    ELSE Append([groups EXCEPT ![g] = Reduced(@, n)],
                Group(n, "none", held.source))

(* The earliest promise goes first: any of them may be. *)
SplitForAllocation ==
    /\ relay.busy /\ relay.left > 0
    /\ \E todo \in relay.todo :
          LET n == Min({todo[2], relay.left}) IN
          /\ Len(Splits(todo[1], n)) <= MaxGroups
          /\ groups' = Splits(todo[1], n)
          /\ relay' = [relay EXCEPT !.left = @ - n, !.todo = @ \ {todo}]
    /\ UNCHANGED <<order, parcels, hold, returns, events, ensuring, asked>>

(* The relay takes the row off, or dies first and delivers it again. *)
EndAllocated ==
    /\ relay.busy /\ (relay.left <= 0 \/ relay.todo = {})
    /\ relay' = [busy |-> FALSE, left |-> 0, todo |-> {}]
    /\ events' \in {events, Tail(events)}
    /\ UNCHANGED <<order, groups, parcels, hold, returns, ensuring, asked>>

-----------------------------------------------------------------------------
(* Cancelling: the whole order, its groups once the event arrives, and the *)
(* remainder of one group (returns/services/cancel-remainder.ts).          *)

CancelOrder ==
    /\ AwaitingGoods /\ parcels = <<>> /\ Room(events, MaxEvents)
    /\ order' = [order EXCEPT !.status = "cancelled"]
    /\ hold' = [stock |-> 0, owed |-> 0]
    /\ events' = Append(events, OrderCancelled)
    /\ UNCHANGED <<groups, parcels, returns, reads>>

CancelAllForOrder ==
    /\ ~ relay.busy /\ events # <<>> /\ events[1] = OrderCancelled
    /\ groups' = [g \in DOMAIN groups |->
                     IF groups[g].status \in {"closed", "cancelled"} THEN groups[g]
                     ELSE WithRemainderCancelled(groups[g])]
    /\ events' = Tail(events)
    /\ UNCHANGED <<order, parcels, hold, returns, reads>>

CancelRemainder(g) ==
    LET gs == [groups EXCEPT ![g] = WithRemainderCancelled(@)]
        n == RemainingOf(groups[g])
    IN
    /\ Reportable /\ n > 0 /\ Room(events, MaxEvents)
    /\ parcels # <<>> \/ \E h \in DOMAIN groups \ {g} : RemainingOf(groups[h]) > 0
    /\ AwaitingStock(groups[g]) => MayChangeOwed
    /\ groups' = gs
    /\ hold' = IF AwaitingStock(groups[g]) THEN TakenFromHold(0, n) ELSE TakenFromHold(n, 0)
    /\ Settles(order.status, gs, parcels)
    /\ UNCHANGED <<parcels, returns, reads>>

-----------------------------------------------------------------------------
(* Returns: what was shipped is read first, the return opened under a lock. *)

(* Mutated form of HoldsReturnedGoods, not the code: only goods that came back count. *)
HoldsReceivedGoods(r) == r.status \in {"received", "closed"} /\ r.remedy # "replace"
HoldsReturnedGoods(r) ==
    /\ r.status \in {"requested", "approved", "received", "closed"}
    /\ r.remedy \notin {"replace", "repair"}
AlreadyReturned == Units(returns, LAMBDA r : IF HoldsReturnedGoods(r) THEN r.quantity ELSE 0)

ReadShipped ==
    /\ asked = 0 /\ Shipped(groups) > 0 /\ Room(returns, MaxReturns)
    /\ asked' = Shipped(groups)
    /\ UNCHANGED <<order, groups, parcels, hold, returns, events, ensuring, relay>>

OpenReturn ==
    /\ asked > 0 /\ asked' = 0
    /\ \/ AlreadyReturned >= asked /\ UNCHANGED returns
       \/ \E n \in 1 .. asked - AlreadyReturned, status \in {"requested", "approved"} :
             returns' = Append(returns, [quantity |-> n, status |-> status, remedy |-> "none"])
    /\ UNCHANGED <<order, groups, parcels, hold, events, ensuring, relay>>

ClaimStatus(r, from, to) ==
    /\ returns[r].status = from
    /\ returns' = [returns EXCEPT ![r].status = to]
    /\ UNCHANGED <<order, groups, parcels, hold, events, reads>>

Decide(r) == \E to \in {"approved", "declined"} : ClaimStatus(r, "requested", to)
CancelReturn(r) == ClaimStatus(r, "approved", "canceled")
CloseReturn(r) == ClaimStatus(r, "received", "closed")

Received(r, remedy) ==
    returns' = [returns EXCEPT ![r].status = "received", ![r].remedy = remedy]

ReceiveReturn(r) ==
    /\ returns[r].status = "approved"
    /\ \E remedy \in {"refund", "repair"} : Received(r, remedy)
    /\ UNCHANGED <<order, groups, parcels, hold, events, reads>>

(* planReopening: the units come off the latest groups that shipped any. *)
After(g, Count(_)) == Sum([h \in DOMAIN groups |-> IF h > g THEN Count(h) ELSE 0])
Reopened(g, needed) ==
    Min({groups[g].shipped, Max({0, needed - After(g, LAMBDA h : groups[h].shipped)})})
(* shareOwed: the first of them carry the part the shelf cannot cover. *)
OwedShare(g, needed, owed) ==
    Min({Reopened(g, needed), Max({0, owed - After(g, LAMBDA h : Reopened(h, needed))})})

InTransit(g) == Units(parcels, LAMBDA p : IF p.group = g /\ p.status = "shipped"
                                          THEN p.quantity ELSE 0)

(* reopenForReplacement, in the transaction of the receipt. *)
ReceiveReplaced(r) ==
    LET n == returns[r].quantity IN
    /\ returns[r].status = "approved" /\ order.kind = "physical"
    /\ order.status \in {"processing", "shipped", "delivered"}
    /\ Shipped(groups) >= n
    /\ \/ "replaced in transit" \in Divergences
       \/ \A g \in DOMAIN groups : groups[g].shipped - Reopened(g, n) >= InTransit(g)
    /\ Received(r, "replace")
    /\ \E owed \in 0 .. n :
          /\ OwedFits(owed)
          /\ hold' = [stock |-> hold.stock + n - owed, owed |-> hold.owed + owed]
          /\ groups' = WithOwed([g \in DOMAIN groups |->
                                    IF Reopened(g, n) = 0 THEN groups[g]
                                    ELSE WithLoss(groups[g], Reopened(g, n),
                                                  OwedShare(g, n, owed))], owed, 0)
    /\ order' = [order EXCEPT !.status = "processing"]
    /\ UNCHANGED <<parcels, events, reads>>

-----------------------------------------------------------------------------
Next ==
    \/ Allocate \/ EnsureRead \/ EnsureWrite \/ Process
    \/ \E g \in DOMAIN groups :
           Ship(g) \/ Fulfil(g) \/ HoldGroup(g) \/ ReleaseGroup(g) \/ CancelRemainder(g)
    \/ \E p \in DOMAIN parcels : MarkLost(p) \/ Deliver(p)
    \/ HandleAllocated \/ SplitForAllocation \/ EndAllocated
    \/ CancelOrder \/ CancelAllForOrder
    \/ ReadShipped \/ OpenReturn
    \/ \E r \in DOMAIN returns :
           Decide(r) \/ CancelReturn(r) \/ ReceiveReturn(r) \/ ReceiveReplaced(r) \/ CloseReturn(r)

Spec == Init /\ [][Next]_vars

-----------------------------------------------------------------------------
(* Properties. *)

GroupStates ==
    [quantity : Nat, shipped : 0 .. Ordered, cancelled : Nat,
     status : {"open", "in_progress", "on_hold", "closed", "cancelled"},
     reason : {"none", "awaiting_stock", "by staff"}, source : 0 .. MaxParcels, found : Nat]

(* The state of the fulfilment orders, shipments, returns and the hold keeps its shape, *)
(* whatever lost, found, split, cancelled and replaced units did to the counts.          *)
TypeOK ==
    /\ order.status \in {"paid", "processing", "shipped", "delivered", "cancelled"}
    /\ order.kind \in Kinds /\ order.owed \in Backorders
    /\ Len(groups) <= MaxGroups /\ Range(groups) \subseteq GroupStates
    /\ Len(parcels) <= MaxParcels
    /\ Range(parcels) \subseteq
           [group : DOMAIN groups, quantity : 1 .. Ordered, status : {"shipped", "delivered", "lost"}]
    /\ hold \in [stock : Nat, owed : Nat]
    /\ Len(returns) <= MaxReturns
    /\ Range(returns) \subseteq
           [quantity : 1 .. Ordered, remedy : {"none", "refund", "repair", "replace"},
            status : {"requested", "approved", "declined", "canceled", "received", "closed"}]
    /\ Range(events) \subseteq [name : {"cancelled", "allocated"}, waiting : 0 .. Ordered]
    /\ ensuring \in 0 .. MaxEnsuring /\ relay.busy \in BOOLEAN /\ asked \in 0 .. Ordered
    /\ relay.todo \subseteq (DOMAIN groups) \X (1 .. Ordered)

Replaced == Units(returns, LAMBDA r : IF r.remedy = "replace" THEN r.quantity ELSE 0)
Sent == Units(parcels, LAMBDA p : IF p.status = "lost" THEN 0 ELSE p.quantity)

(* Losses, parcels found, splits and replacements neither lose a unit nor make one: the *)
(* fulfilment orders always add up to what was bought, none ships or cancels more than  *)
(* it has, and the units they count as shipped are those in parcels that were not lost  *)
(* and not replaced (domain/lost.ts, domain/reship.ts, services/split.ts).              *)
UnitsAccounted ==
    groups # <<>> =>
        /\ Units(groups, LAMBDA g : g.quantity - g.found) = Ordered
        /\ \A g \in DOMAIN groups : RemainingOf(groups[g]) >= 0
        /\ Shipped(groups) = Sent - Replaced

(* Delivery and inventory agree on the units still to send: as many are set aside or    *)
(* owed as remain on the fulfilment orders, no group that stopped waiting lacks its      *)
(* stock, and once the allocation events are handled none waits for units it already    *)
(* has (release-allocated.ts, lost.ts, found.ts, cancel-remainder.ts).                  *)
StockBacked ==
    order.status # "cancelled" /\ groups # <<>> =>
        /\ Remaining(groups) = hold.stock + hold.owed
        /\ Waiting(groups) >= hold.owed
        /\ ~ AllocationPending => Waiting(groups) = hold.owed

(* The order's status follows its parcels through losses, reopenings and cancels: it is *)
(* never delivered or shipped while units remain, never delivered with a parcel still   *)
(* on its way, never left processing once all that is to leave has left, and a          *)
(* cancelled order has nothing to ship once its event is handled (progress.ts).         *)
StatusFollowsGoods ==
    LET onTheWay == \E p \in DOMAIN parcels : parcels[p].status = "shipped" IN
    /\ order.status = "delivered" => Remaining(groups) = 0 /\ ~ onTheWay
    /\ order.status = "shipped" => Remaining(groups) = 0 /\ onTheWay
    /\ order.status = "processing" /\ parcels # <<>> => Remaining(groups) > 0
    /\ order.status = "cancelled" =>
           /\ ~ onTheWay /\ hold.stock + hold.owed = 0
           /\ (\E i \in DOMAIN events : events[i] = OrderCancelled) \/ Remaining(groups) = 0

(* A unit is taken back once: however stale the shipped units an opening read were, the *)
(* returns that keep their goods never name more units than were bought (create.ts).    *)
ReturnedOnce ==
    Units(returns, LAMBDA r : IF r.status \notin {"declined", "canceled"}
                                 /\ r.remedy \notin {"replace", "repair"}
                              THEN r.quantity ELSE 0) <= Ordered
=============================================================================
