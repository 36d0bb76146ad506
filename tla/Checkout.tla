----------------------------- MODULE Checkout -----------------------------
(***************************************************************************)
(* One buyer's cart and the orders placed from it:                         *)
(* src/src/modules/cart (repository.ts, services/items.ts, merge.ts,       *)
(* checkout.ts) and src/src/modules/orders/services/place.ts, crud.ts.     *)
(*                                                                         *)
(* A line write is the repository's own sequence of statements.  A         *)
(* checkout reads the account, the cart, the catalogue and the shelf one   *)
(* after the other, takes a hold, and then writes the order and empties    *)
(* the cart in one transaction.  Taking a hold is one step here (Inventory *)
(* has its steps); what becomes of a placed order is reduced to paid,      *)
(* cancelled or expired (Sales has the rest).                              *)
(***************************************************************************)
EXTENDS Integers, Sequences, FiniteSets, FiniteSetsExt, Sums

CONSTANTS
    Products, Prices,
    Orders,       \* order ids, each used once
    NoOrder,
    Requests,     \* checkouts and orders by hand at work at once
    Writers,      \* requests that write the cart
    Quantities,
    LineMax,      \* cartLineMax
    OpenCap,      \* maxOpenUnpaidOrdersPerAccount
    Units,        \* units of each product to begin with
    MaxBusy,      \* bound: requests at work at the same moment
    MaxVersion,   \* bound: writes to the cart
    MaxFaults     \* bound: crashes, failed writes, stalls, edits of the catalogue

ASSUME CheckoutAssumption ==
    /\ IsFiniteSet(Products) /\ IsFiniteSet(Requests) /\ IsFiniteSet(Orders)
    /\ Prices \subseteq Nat /\ Prices # {}
    /\ NoOrder \notin Orders /\ Quantities \subseteq Nat \ {0}
    /\ {LineMax, OpenCap, Units, MaxBusy, MaxVersion, MaxFaults} \subseteq Nat

VARIABLES
    cart,    \* its version and its lines
    price, listed,  \* the catalogue
    shelf,   \* product -> units not held
    hold,    \* order -> its hold
    order,   \* order -> what was written
    expired, \* orders whose RESERVATION_EXPIRED is on its way
    write,   \* writer -> its line write
    req,     \* request -> its progress
    faults,
    slips    \* faults that part an order from its hold

vars == <<cart, price, listed, shelf, hold, order, expired, write, req, faults, slips>>
catalogue == <<price, listed>>
placed == <<hold, order, expired, shelf>>
trouble == <<faults, slips>>

-----------------------------------------------------------------------------
Lines == [product : Products, quantity : Nat]
QuantityIn(items, p) == Sum([i \in DOMAIN items |-> IF items[i].product = p THEN items[i].quantity ELSE 0])
Has(items, p) == \E i \in DOMAIN items : items[i].product = p
Total(items, prices) == Sum([i \in DOMAIN items |-> items[i].quantity * prices[items[i].product]])

Released == [status |-> "released", items |-> <<>>]
NoHold == [status |-> "none", items |-> <<>>]
NoWrite == [pc |-> "idle", product |-> CHOOSE p \in Products : TRUE, quantity |-> 1, mode |-> "add", tries |-> 0]
Unplaced == [status |-> "none", fromCart |-> FALSE]
NoRequest == [pc |-> "idle", order |-> NoOrder, fromCart |-> FALSE, version |-> 0, items |-> <<>>,
              total |-> 0, shown |-> 0]

Open == {o \in Orders : order[o].status = "pending" /\ order[o].fromCart}

Init ==
    /\ cart = [version |-> 0, items |-> <<>>]
    /\ price = [p \in Products |-> CHOOSE n \in Prices : TRUE]
    /\ listed = [p \in Products |-> TRUE]
    /\ shelf = [p \in Products |-> Units]
    /\ hold = [o \in Orders |-> NoHold]
    /\ order = [o \in Orders |-> Unplaced]
    /\ expired = {}
    /\ write = [w \in Writers |-> NoWrite]
    /\ req = [r \in Requests |-> NoRequest]
    /\ faults = 0 /\ slips = 0

Writing(w, now) == write' = [write EXCEPT ![w] = now]
Asking(r, now) == req' = [req EXCEPT ![r] = now]
RoomForMore ==
    Cardinality({w \in Writers : write[w].pc # "idle"})
        + Cardinality({r \in Requests : req[r].pc # "idle"}) < MaxBusy
Fault == faults < MaxFaults /\ faults' = faults + 1

(* Every write of the cart moves its version on. *)
CartBecomes(items) ==
    /\ cart.version < MaxVersion
    /\ cart' = [version |-> cart.version + 1, items |-> items]

-----------------------------------------------------------------------------
(* upsertLine, statement by statement. *)

MaxTries == 3
StartWrite(w, p, q, mode) ==
    Writing(w, [pc |-> "matching", product |-> p, quantity |-> q, mode |-> mode, tries |-> MaxTries])

UpsertCartItem(w) ==
    /\ write[w].pc = "idle" /\ RoomForMore
    /\ \E p \in Products, q \in Quantities, mode \in {"set", "add", "update"} :
          /\ listed[p]
          /\ mode = "add" \/ q <= LineMax
          /\ StartWrite(w, p, q, mode)
    /\ UNCHANGED <<cart, catalogue, placed, req, trouble>>

(* A merged or reordered line adds what still fits, as the cart stood when read. *)
MergeLine(w) ==
    /\ write[w].pc = "idle" /\ RoomForMore
    /\ \E p \in Products, q \in Quantities :
          LET held == QuantityIn(cart.items, p)
              add == Min({held + q, LineMax}) - held
          IN  /\ listed[p] /\ add > 0
              /\ StartWrite(w, p, add, "add")
    /\ UNCHANGED <<cart, catalogue, placed, req, trouble>>

(* Mutated form of Matching, not the code: an add does not look at the limit. *)
MatchingAny(w) ==
    {i \in DOMAIN cart.items : cart.items[i].product = write[w].product}

(* The lines the first statement may change. *)
Matching(w) ==
    {i \in DOMAIN cart.items :
        /\ cart.items[i].product = write[w].product
        /\ IF write[w].mode = "add" THEN cart.items[i].quantity <= LineMax - write[w].quantity
           ELSE cart.items[i].quantity # write[w].quantity}

MatchExistingLine(w) ==
    /\ write[w].pc = "matching"
    /\ IF Matching(w) # {}
       THEN /\ CartBecomes([cart.items EXCEPT ![Min(Matching(w))].quantity =
                                IF write[w].mode = "add" THEN @ + write[w].quantity ELSE write[w].quantity])
            /\ Writing(w, NoWrite)
       ELSE Writing(w, [write[w] EXCEPT !.pc = "missed"]) /\ UNCHANGED cart
    /\ UNCHANGED <<catalogue, placed, req, trouble>>

Retry(w) == Writing(w, IF write[w].tries <= 1 THEN NoWrite
                       ELSE [write[w] EXCEPT !.pc = "matching", !.tries = @ - 1])

(* Nothing matched: unchangedOrPushed, unchangedOrMissing, resolveAddMiss. *)
ResolveMiss(w) ==
    LET q == write[w].quantity
        now == QuantityIn(cart.items, write[w].product)
        missing == ~ Has(cart.items, write[w].product)
        push == Writing(w, [write[w] EXCEPT !.pc = "pushing"])
    IN
    /\ write[w].pc = "missed"
    /\ \/ write[w].mode = "set" /\ IF now = q THEN Writing(w, NoWrite) ELSE push
       \/ write[w].mode = "update" /\ IF missing \/ now = q THEN Writing(w, NoWrite) ELSE Retry(w)
       \/ /\ write[w].mode = "add"
          /\ CASE now + q > LineMax -> Writing(w, NoWrite)
               [] now + q <= LineMax /\ missing -> push
               [] OTHER -> Retry(w)
    /\ UNCHANGED <<cart, catalogue, placed, req, trouble>>

(* A line that appeared meanwhile makes the insert collide. *)
PushNewLine(w) ==
    /\ write[w].pc = "pushing"
    /\ IF Has(cart.items, write[w].product) THEN Retry(w) /\ UNCHANGED cart
       ELSE /\ CartBecomes(Append(cart.items, [product |-> write[w].product, quantity |-> write[w].quantity]))
            /\ Writing(w, NoWrite)
    /\ UNCHANGED <<catalogue, placed, req, trouble>>

Without(items, p) ==
    LET kept[n \in 0 .. Len(items)] ==
            IF n = 0 THEN <<>>
            ELSE IF items[n].product = p THEN kept[n - 1] ELSE Append(kept[n - 1], items[n])
    IN  kept[Len(items)]

(* A line taken out, by the buyer or after its product was deleted. *)
RemoveLine(p) ==
    /\ Has(cart.items, p) /\ CartBecomes(Without(cart.items, p))
    /\ UNCHANGED <<catalogue, placed, write, req, trouble>>

(* The cart emptied, or its shipping method chosen. *)
ClearLines ==
    /\ CartBecomes(<<>>)
    /\ UNCHANGED <<catalogue, placed, write, req, trouble>>
SetShippingMethod ==
    /\ CartBecomes(cart.items)
    /\ UNCHANGED <<catalogue, placed, write, req, trouble>>

(* The catalogue moves under the cart. *)
EditProduct(p) ==
    /\ Fault
    /\ \/ \E n \in Prices \ {price[p]} : price' = [price EXCEPT ![p] = n] /\ UNCHANGED listed
       \/ listed' = [listed EXCEPT ![p] = ~ @] /\ UNCHANGED price
    /\ UNCHANGED <<cart, placed, write, req, slips>>

-----------------------------------------------------------------------------
(* runCheckout. *)

UnderCap == Cardinality(Open) < OpenCap

(* resolvePaymentMethod: the cap is read before the cart. *)
OrderConfirm(r) ==
    /\ req[r].pc = "idle" /\ RoomForMore /\ UnderCap
    /\ Asking(r, [NoRequest EXCEPT !.pc = "reading", !.fromCart = TRUE,
                                   !.shown = Total(cart.items, price)])
    /\ UNCHANGED <<cart, catalogue, placed, write, trouble>>

(* Mutated form of Fits, not the code: the shelf is not looked at. *)
FitsAnyway(items) == items # <<>>

Fits(items) == \A p \in Products : QuantityIn(items, p) <= shelf[p]

(* evaluateCheckout and the refusals after it, down to the price. *)
Acceptable(items, shown) ==
    /\ items # <<>>
    /\ \A i \in DOMAIN items : listed[items[i].product] /\ items[i].quantity <= LineMax
    /\ Fits(items)
    /\ Total(items, price) = shown

(* The cart, then its products and the shelf.  A cart written between these *)
(* reads is caught by its version at the end, so they are one step.         *)
Judge(r) ==
    /\ req[r].pc = "reading"
    /\ Asking(r, IF Acceptable(cart.items, req[r].shown)
                 THEN [req[r] EXCEPT !.pc = "reserving", !.version = cart.version, !.items = cart.items,
                                     !.total = Total(cart.items, price)]
                 ELSE NoRequest)
    /\ UNCHANGED <<cart, catalogue, placed, write, trouble>>

(* create: an order entered by hand has no cart behind it. *)
CreateByHand(r) ==
    /\ req[r].pc = "idle" /\ RoomForMore
    /\ \E p \in Products :
          LET items == <<[product |-> p, quantity |-> 1]>> IN
          /\ listed[p]
          /\ Asking(r, [NoRequest EXCEPT !.pc = "reserving", !.items = items, !.total = Total(items, price)])
    /\ UNCHANGED <<cart, catalogue, placed, write, trouble>>

-----------------------------------------------------------------------------
(* placeOrder. *)

Taken == {o \in Orders : hold[o].status # "none"}
Freed(o) == [p \in Products |-> shelf[p] + QuantityIn(hold[o].items, p)]

ReserveForOrder(r) ==
    /\ req[r].pc = "reserving"
    /\ \/ /\ Fits(req[r].items)
          /\ \E o \in Orders \ Taken :
                /\ hold' = [hold EXCEPT ![o] = [status |-> "held", items |-> req[r].items]]
                /\ shelf' = [p \in Products |-> shelf[p] - QuantityIn(req[r].items, p)]
                /\ Asking(r, [req[r] EXCEPT !.pc = "writing", !.order = o])
       \/ /\ ~ Fits(req[r].items)
          /\ Asking(r, NoRequest) /\ UNCHANGED <<hold, shelf>>
    /\ UNCHANGED <<cart, catalogue, order, expired, write, trouble>>

(* The transaction: the order (its lines and total are the request's), its  *)
(* event, the cart emptied as it was read.                                  *)
Written(r) ==
    /\ req[r].fromCart => cart.version = req[r].version
    /\ order' = [order EXCEPT ![req[r].order] =
                    [status |-> "pending", fromCart |-> req[r].fromCart]]
    /\ IF req[r].fromCart THEN CartBecomes(<<>>) ELSE UNCHANGED cart

(* Mutated form of WriteOrder, not the code: the cart is emptied as it is, not as it was read. *)
WriteOrderUnconditionally(r) ==
    /\ req[r].pc = "writing"
    /\ order' = [order EXCEPT ![req[r].order] =
                    [status |-> "pending", fromCart |-> req[r].fromCart]]
    /\ IF req[r].fromCart THEN CartBecomes(<<>>) ELSE UNCHANGED cart
    /\ Asking(r, NoRequest)
    /\ UNCHANGED <<catalogue, hold, expired, shelf, write, trouble>>

WriteOrder(r) ==
    /\ req[r].pc = "writing"
    /\ \/ Written(r) /\ Asking(r, NoRequest)
       \/ /\ req[r].fromCart /\ cart.version # req[r].version
          /\ Asking(r, [req[r] EXCEPT !.pc = "releasing"]) /\ UNCHANGED <<cart, order>>
    /\ UNCHANGED <<catalogue, hold, expired, shelf, write, trouble>>

(* The write throws; the commit may have landed all the same. *)
WriteThrows(r) ==
    /\ req[r].pc = "writing" /\ Fault
    /\ Asking(r, [req[r] EXCEPT !.pc = "releasing"])
    /\ \/ UNCHANGED <<cart, order, slips>>
       \/ Written(r) /\ slips' = slips + 1
    /\ UNCHANGED <<catalogue, hold, expired, shelf, write>>

(* Mutated form of ReleaseForOrder, not the code: the hold of an order not written is kept. *)
ReleaseNothing(r) ==
    /\ req[r].pc = "releasing"
    /\ Asking(r, NoRequest)
    /\ hold' = [hold EXCEPT ![req[r].order] = Released]
    /\ UNCHANGED <<cart, catalogue, order, expired, shelf, write, trouble>>

ReleaseForOrder(r) ==
    /\ req[r].pc = "releasing"
    /\ IF hold[req[r].order].status = "held"
       THEN /\ hold' = [hold EXCEPT ![req[r].order] = Released]
            /\ shelf' = Freed(req[r].order)
       ELSE UNCHANGED <<hold, shelf>>
    /\ Asking(r, NoRequest)
    /\ UNCHANGED <<cart, catalogue, order, expired, write, trouble>>

(* The process dies; a hold it took waits for the sweep. *)
Crash(r) ==
    /\ req[r].pc # "idle" /\ Fault
    /\ Asking(r, NoRequest)
    /\ UNCHANGED <<cart, catalogue, placed, write, slips>>

-----------------------------------------------------------------------------
(* What may become of a hold and its order. *)

Placing(o) == \E r \in Requests : req[r].order = o

(* A hold that outlives its minutes; while it is being placed only in a stall. *)
SweepExpires(o) ==
    /\ hold[o].status = "held"
    /\ \/ ~ Placing(o) /\ UNCHANGED trouble
       \/ Placing(o) /\ Fault /\ slips' = slips + 1
    /\ hold' = [hold EXCEPT ![o] = Released]
    /\ shelf' = Freed(o)
    /\ expired' = expired \cup {o}
    /\ UNCHANGED <<cart, catalogue, order, write, req>>

(* The handler finds the order pending, gone past it, or not there at all. *)
ExpireReservation(o) ==
    /\ o \in expired /\ expired' = expired \ {o}
    /\ order' = IF order[o].status = "pending" THEN [order EXCEPT ![o].status = "cancelled"] ELSE order
    /\ UNCHANGED <<cart, catalogue, hold, shelf, write, req, trouble>>

Cancel(o) ==
    /\ order[o].status = "pending"
    /\ order' = [order EXCEPT ![o].status = "cancelled"]
    /\ IF hold[o].status = "held"
       THEN hold' = [hold EXCEPT ![o] = Released] /\ shelf' = Freed(o)
       ELSE UNCHANGED <<hold, shelf>>
    /\ UNCHANGED <<cart, catalogue, expired, write, req, trouble>>

MarkPaid(o) ==
    /\ order[o].status = "pending" /\ hold[o].status = "held"
    /\ order' = [order EXCEPT ![o].status = "paid"]
    /\ hold' = [hold EXCEPT ![o].status = "committed"]
    /\ UNCHANGED <<cart, catalogue, expired, shelf, write, req, trouble>>

-----------------------------------------------------------------------------
Next ==
    \/ \E w \in Writers : \/ UpsertCartItem(w) \/ MergeLine(w)
                          \/ MatchExistingLine(w) \/ ResolveMiss(w) \/ PushNewLine(w)
    \/ \E p \in Products : RemoveLine(p) \/ EditProduct(p)
    \/ ClearLines \/ SetShippingMethod
    \/ \E r \in Requests : \/ OrderConfirm(r) \/ Judge(r) \/ CreateByHand(r)
                           \/ ReserveForOrder(r) \/ WriteOrder(r) \/ WriteThrows(r)
                           \/ ReleaseForOrder(r) \/ Crash(r)
    \/ \E o \in Orders : SweepExpires(o) \/ ExpireReservation(o) \/ Cancel(o) \/ MarkPaid(o)

Spec == Init /\ [][Next]_vars

-----------------------------------------------------------------------------
(* Properties. *)

(* Every variable has its shape; no count goes below zero. *)
TypeOK ==
    /\ cart.version \in 0 .. MaxVersion /\ cart.items \in Seq(Lines)
    /\ price \in [Products -> Prices] /\ listed \in [Products -> BOOLEAN]
    /\ shelf \in [Products -> Nat]
    /\ \A o \in Orders : /\ hold[o].status \in {"none", "held", "released", "committed"}
                         /\ order[o].status \in {"none", "pending", "paid", "cancelled"}
    /\ expired \subseteq Orders
    /\ faults \in 0 .. MaxFaults /\ slips \in 0 .. faults

(* Whatever line writes race, the cart has one line per product and none    *)
(* above the limit (upsertLine's filters, its retries and its collisions).  *)
CartSound ==
    /\ \A i, j \in DOMAIN cart.items : cart.items[i].product = cart.items[j].product => i = j
    /\ \A i \in DOMAIN cart.items : cart.items[i].quantity \in 1 .. LineMax

(* An order placed from the cart is the basket the buyer confirmed: its     *)
(* lines are the ones the same step takes out of the cart, and its total is *)
(* the one shown, whatever prices, line writes and other checkouts did      *)
(* since it was read.  So one basket is never ordered twice.                *)
OrderTakesCart ==
    [][\A o \in Orders : order[o].status = "none" /\ order'[o].fromCart =>
            /\ cart'.items = <<>>
            /\ \E r \in Requests : req[r].order = o /\ req[r].items = cart.items
                                     /\ req[r].total = req[r].shown]_vars

(* No unit is lost or sold twice, whichever step of a placement fails; and  *)
(* a pending order has its units, or its expiry is on the way (unless a     *)
(* commit was unknown or a placement outlived its own hold).                *)
HoldsFollowOrders ==
    /\ \A p \in Products :
          shelf[p] + Sum([o \in Orders |-> IF hold[o].status \in {"held", "committed"}
                                           THEN QuantityIn(hold[o].items, p) ELSE 0]) = Units
    /\ \A o \in Orders :
          order[o].status = "pending" /\ slips = 0 => hold[o].status = "held" \/ o \in expired

=============================================================================
