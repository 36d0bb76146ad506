-------------------------- MODULE InventoryProofs --------------------------
(***************************************************************************)
(* Inventory, for any number of products, orders and units.                *)
(*                                                                         *)
(* First the documents: they keep their types, and no unit is ever sold    *)
(* that the shelf does not have, whatever crashes or throws between two    *)
(* writes (Inv).  Then the books, until the first failure: the counters    *)
(* are what the holds and the running reserves are owed (Kept), the        *)
(* movement rows replay to them (Written), and where checkouts have one    *)
(* line no unit is for sale that a paid preorder waits for (Lined).  Each  *)
(* action keeps all three (Goes): a write of one order because what it     *)
(* changes is its own (OneOrderGoes), a transaction because it serves the  *)
(* queues before it ends (TransactionGoes), staff because the shelf is not *)
(* the holds' (ShelfStepGoes).                                             *)
(***************************************************************************)
EXTENDS Inventory, SumTheorems

-----------------------------------------------------------------------------
(* Operators. *)

(* Every movement keeps the shape of a level. *)
LEMMA ApplyDeltaType ==
    ASSUME NEW l \in Level, NEW reason, NEW q \in Int, NEW kind
    PROVE  ApplyDelta(l, reason, q, kind) \in Level
<1> DEFINE d == CounterDeltaFor(reason, q, kind)
<1>1. d.onHand \in Int /\ d.reserved \in Int /\ d.backordered \in Int
  BY DEF CounterDeltaFor
<1>2. CASE l.row = "open"
  <2> HIDE DEF d
  <2>1. l.row \in RowStates /\ l.backorderLimit \in Nat \cup {NoCap}
    BY DEF Level
  <2>2. /\ l.onHand + d.onHand \in Int
        /\ l.reserved + d.reserved \in Int
        /\ l.available + d.onHand - d.reserved \in Int
        /\ l.backordered + d.backordered \in Int
    BY <1>1 DEF Level
  <2> QED
    BY <1>2, <2>1, <2>2 DEF ApplyDelta, Level, d
<1>3. CASE l.row # "open"
  BY <1>3 DEF ApplyDelta
<1> QED
  BY <1>2, <1>3

(* A movement its condition lets through keeps a level balanced. *)
LEMMA ApplyDeltaBalanced ==
    ASSUME NEW l \in Level, Balanced(l),
           NEW reason \in Reasons, NEW q \in Int, NEW kind \in Kinds,
           reason # "adjust" => q >= 0,
           Allowed(l, reason, q, kind)
    PROVE  Balanced(ApplyDelta(l, reason, q, kind))
BY DEF Balanced, ApplyDelta, Allowed, ConditionFor, CounterDeltaFor, Level, Reasons, Kinds

LevelsOK(L) == L \in [Products -> Level] /\ \A p \in Products : Balanced(L[p])

(* Moving nothing leaves a level balanced, whatever the guard says. *)
LEMMA ApplyZero ==
    ASSUME NEW l \in Level, Balanced(l), NEW reason \in Reasons, NEW kind \in Kinds
    PROVE  Balanced(ApplyDelta(l, reason, 0, kind))
BY DEF Balanced, ApplyDelta, CounterDeltaFor, Level, Reasons, Kinds

(* Giving back or shipping the two kinds of one product's line. *)
LEMMA BothKindsOut ==
    ASSUME NEW l \in Level, Balanced(l),
           NEW reason \in {"ship", "release", "expire"},
           NEW a \in Nat, NEW b \in Nat,
           reason = "ship" => b = 0,
           a > 0 => Allowed(l, reason, a, "stock"),
           b > 0 => Allowed(l, reason, b, "backorder")
    PROVE  Balanced(ApplyDelta(ApplyDelta(l, reason, a, "stock"), reason, b, "backorder"))
BY DEF Balanced, ApplyDelta, Allowed, ConditionFor, CounterDeltaFor, Level

(* Taking shelf units and a claim for one product. *)
LEMMA BothKindsIn ==
    ASSUME NEW l \in Level, Balanced(l),
           NEW reason \in {"backorder", "owed"},
           NEW a \in Nat, NEW b \in Nat,
           a > 0 /\ l.row = "open" => l.available >= a
    PROVE  Balanced(ApplyDelta(ApplyDelta(l, "reserve", a, "stock"), reason, b, "backorder"))
BY DEF Balanced, ApplyDelta, CounterDeltaFor, Level

(* Moving all the lines of a hold out keeps every level sound. *)
LEMMA LinesMovedOK ==
    ASSUME NEW L, LevelsOK(L), NEW items \in Items,
           NEW reason \in {"ship", "release", "expire"},
           reason = "ship" => ProductsOf(items, "backorder") = {},
           LinesAllowed(L, reason, items)
    PROVE  LevelsOK(LinesMoved(L, reason, items))
<1> SUFFICES ASSUME NEW p \in Products
             PROVE  /\ LinesMoved(L, reason, items)[p] \in Level
                    /\ Balanced(LinesMoved(L, reason, items)[p])
  BY DEF LevelsOK, LinesMoved
<1>1. items[p].stock \in Nat /\ items[p].backorder \in Nat
  BY DEF Items, Kinds
<1>2. L[p] \in Level /\ Balanced(L[p])
  BY DEF LevelsOK
<1>3. /\ items[p].stock > 0 => Allowed(L[p], reason, items[p].stock, "stock")
      /\ items[p].backorder > 0 => Allowed(L[p], reason, items[p].backorder, "backorder")
  BY DEF LinesAllowed, Kinds
<1>4. reason = "ship" => items[p].backorder = 0
  BY <1>1 DEF ProductsOf, Kinds
<1> DEFINE M == ApplyDelta(L[p], reason, items[p].stock, "stock")
<1>5. M \in Level
  BY <1>1, <1>2, ApplyDeltaType
<1>6. ApplyDelta(M, reason, items[p].backorder, "backorder") \in Level
  BY <1>1, <1>5, ApplyDeltaType
<1>7. Balanced(ApplyDelta(M, reason, items[p].backorder, "backorder"))
  BY <1>1, <1>2, <1>3, <1>4, BothKindsOut
<1> QED
  BY <1>6, <1>7 DEF LinesMoved

-----------------------------------------------------------------------------
(* Serving the queue. *)

(* What an order waits for is a natural number. *)
LEMMA WaitingType ==
    ASSUME NEW H \in [Orders -> Hold], NEW o \in Orders, NEW p \in Products
    PROVE  Waiting(H, o, p) \in Nat
BY DEF Waiting, Hold, Items, Kinds

(* What the queue hands to one order is a natural number. *)
LEMMA GivenType ==
    ASSUME NEW L \in [Products -> Level], NEW H \in [Orders -> Hold],
           NEW o \in Orders, NEW p \in Products
    PROVE  Given(L, H, o, p) \in Nat
<1>1. WaitingAhead(H, o, p) \in Nat
  <2> DEFINE f == [x \in Orders |->
                     IF H[x].committedAt < H[o].committedAt THEN Waiting(H, x, p) ELSE 0]
  <2>1. f \in [Orders -> Nat]
    BY WaitingType
  <2>2. IsFiniteSet(Orders)
    BY InventoryAssumption
  <2>3. Sum(f) \in Nat
    <3> HIDE DEF f
    <3> QED BY <2>1, <2>2, SumType
  <2> QED
    BY <2>3 DEF WaitingAhead
<1>2. Waiting(H, o, p) \in Nat
  BY WaitingType
<1>3. Free(L, p) \in Int
  BY DEF Free, Level
<1> QED
  BY <1>1, <1>2, <1>3 DEF Given, Smaller, NatOf

(* So is what it hands out in all. *)
LEMMA GivenAllType ==
    ASSUME NEW L \in [Products -> Level], NEW H \in [Orders -> Hold], NEW p \in Products
    PROVE  GivenAll(L, H, p) \in Nat
<1> DEFINE f == [o \in Orders |-> Given(L, H, o, p)]
<1>1. f \in [Orders -> Nat]
  BY GivenType
<1>2. IsFiniteSet(Orders)
  BY InventoryAssumption
<1>3. Sum(f) \in Nat
  <2> HIDE DEF f
  <2> QED BY <1>1, <1>2, SumType
<1> QED
  BY <1>3 DEF GivenAll

(* Serving the queue keeps the shape of every hold. *)
LEMMA AllocatedHoldsType ==
    ASSUME NEW L \in [Products -> Level], NEW H \in [Orders -> Hold],
           NEW P \in SUBSET Products
    PROVE  AllocatedHolds(L, H, P) \in [Orders -> Hold]
<1> DEFINE g(o, p) == IF p \in P THEN Given(L, H, o, p) ELSE 0
           items(o) == [p \in Products |->
                          [k \in Kinds |-> IF k = "stock" THEN H[o].items[p].stock + g(o, p)
                                           ELSE NatOf(H[o].items[p].backorder - g(o, p))]]
<1>1. \A o \in Orders, p \in Products : g(o, p) \in Nat
  BY GivenType
<1>2. \A o \in Orders, p \in Products :
          H[o].items[p].stock \in Nat /\ H[o].items[p].backorder \in Nat
  BY DEF Hold, Items, Kinds
<1>3. \A o \in Orders : items(o) \in Items
  <2> HIDE DEF g
  <2> QED BY <1>1, <1>2 DEF Items, NatOf
<1>4. AllocatedHolds(L, H, P) = [o \in Orders |-> [H[o] EXCEPT !.items = items(o)]]
  BY DEF AllocatedHolds
<1> HIDE DEF items
<1> QED
  BY <1>3, <1>4 DEF Hold

(* Serving the queue keeps every level sound. *)
LEMMA AllocatedLevelsOK ==
    ASSUME NEW L, LevelsOK(L), NEW H \in [Orders -> Hold],
           NEW P \in SUBSET Products, AllocateAllowed(L, H, P)
    PROVE  LevelsOK(AllocatedLevels(L, H, P))
<1> SUFFICES ASSUME NEW p \in Products
             PROVE  /\ AllocatedLevels(L, H, P)[p] \in Level
                    /\ Balanced(AllocatedLevels(L, H, P)[p])
  BY DEF LevelsOK, AllocatedLevels
<1>1. L[p] \in Level /\ Balanced(L[p]) /\ L \in [Products -> Level]
  BY DEF LevelsOK
<1>2. CASE p \notin P
  BY <1>1, <1>2 DEF AllocatedLevels
<1>3. CASE p \in P
  <2> DEFINE n == GivenAll(L, H, p)
  <2>1. n \in Nat
    BY <1>1, GivenAllType
  <2>2. n > 0 => Allowed(L[p], "allocate", n, "stock")
    BY <1>3 DEF AllocateAllowed
  <2>3. AllocatedLevels(L, H, P)[p] = ApplyDelta(L[p], "allocate", n, "stock")
    BY <1>3 DEF AllocatedLevels
  <2> HIDE DEF n
  <2>4. ApplyDelta(L[p], "allocate", n, "stock") \in Level
    BY <1>1, <2>1, ApplyDeltaType
  <2>5. CASE n = 0
    BY <1>1, <2>3, <2>4, <2>5, ApplyZero DEF Reasons, Kinds
  <2>6. CASE n > 0
    BY <1>1, <2>1, <2>2, <2>3, <2>4, <2>6, ApplyDeltaBalanced DEF Reasons, Kinds
  <2> QED
    BY <2>1, <2>5, <2>6
<1> QED
  BY <1>2, <1>3

(* A movement row is a record of integers, and adding one to the ledger     *)
(* keeps it one.                                                            *)
LEMMA DeltaType ==
    ASSUME NEW reason, NEW q \in Int, NEW kind
    PROVE  CounterDeltaFor(reason, q, kind) \in Movement
BY DEF CounterDeltaFor, Movement

(* Adding a movement to a ledger keeps its shape. *)
LEMMA LoggedType ==
    ASSUME NEW m \in Movement, NEW d \in Movement
    PROVE  Logged(m, d) \in Movement
BY DEF Logged, Movement

(* So does recording all the movements of a transaction. *)
LEMMA RecordedType ==
    ASSUME ledger \in [Products -> Movement],
           NEW L \in [Products -> Level], NEW M \in [Products -> Level]
    PROVE  Recorded(L, M) \in [Products -> Movement]
BY DEF Recorded, Movement, Level

(* A transaction that ends by serving queues keeps every document sound.    *)
LEMMA ServeOK ==
    ASSUME TypeOK, NEW L, LevelsOK(L), NEW H \in [Orders -> Hold],
           NEW P \in SUBSET Products, ServeAndRecord(L, H, P)
    PROVE  LevelsOK(levels') /\ holds' \in [Orders -> Hold]
             /\ ledger' \in [Products -> Movement]
<1>1. LevelsOK(AllocatedLevels(L, H, P))
  BY AllocatedLevelsOK DEF ServeAndRecord
<1>2. levels' = AllocatedLevels(L, H, P)
  BY DEF ServeAndRecord
<1>3. holds' \in [Orders -> Hold]
  BY AllocatedHoldsType DEF ServeAndRecord, LevelsOK
<1>4. AllocatedLevels(L, H, P) \in [Products -> Level]
  BY <1>1 DEF LevelsOK
<1>5. ledger' \in [Products -> Movement]
  BY <1>4, RecordedType DEF ServeAndRecord, TypeOK
<1> QED
  BY <1>1, <1>2, <1>3, <1>5

-----------------------------------------------------------------------------
(* The inductive invariant, and what the documents' constructors return. *)

Inv == TypeOK /\ NeverOversold

(* The constant documents have their shapes. *)
LEMMA ConstructorTypes ==
    /\ NoItems \in Items
    /\ NoRequest \in Request
    /\ NoHold \in Hold
    /\ \A pc \in Phases : Resting(pc) \in Reserve
    /\ \A row \in RowStates : ZeroLevel(row) \in Level /\ Balanced(ZeroLevel(row))
<1>1. NoItems \in Items
  BY DEF NoItems, Items
<1>2. NoRequest \in Request
  BY DEF NoRequest, Request, Kinds
<1>3. NoHold \in Hold
  BY <1>1 DEF NoHold, Hold, HoldStatus
<1>4. \A pc \in Phases : Resting(pc) \in Reserve
  BY <1>1, <1>2 DEF Resting, Reserve
<1>5. \A row \in RowStates : ZeroLevel(row) \in Level /\ Balanced(ZeroLevel(row))
  BY DEF ZeroLevel, Level, Balanced
<1> QED
  BY <1>1, <1>2, <1>3, <1>4, <1>5

(* The operators on hold lines return hold lines. *)
LEMMA ItemsTypes ==
    /\ \A request \in Request : ItemsOf(request) \in Items
    /\ \A a \in Items, b \in Items : WithAdded(a, b) \in Items
    /\ \A a \in Items, b \in Items : Minus(a, b) \in Items
    /\ \A a \in Items, b \in Items : TakenFrom(a, b) \in Items
    /\ \A p \in Products, k \in Kinds, q \in Nat : LineItems(p, k, q) \in Items
    /\ \A a \in Items, p \in Products, k \in Kinds, q \in Nat : [a EXCEPT ![p][k] = q] \in Items
<1>1. \A request \in Request : ItemsOf(request) \in Items
  BY DEF ItemsOf, Request, Items
<1>2. \A a \in Items, b \in Items : WithAdded(a, b) \in Items
  BY DEF WithAdded, Items
<1>3. \A a \in Items, b \in Items : Minus(a, b) \in Items
  BY DEF Minus, Items, NatOf
<1>4. ASSUME NEW a \in Items, NEW b \in Items PROVE TakenFrom(a, b) \in Items
  <2>1. \A p \in Products : /\ a[p].stock \in Nat /\ a[p].backorder \in Nat
                            /\ b[p].stock \in Nat /\ b[p].backorder \in Nat
    BY DEF Items, Kinds
  <2> DEFINE claim(p) == Smaller(b[p].backorder, a[p].backorder)
  <2>2. \A p \in Products : claim(p) \in Nat /\ claim(p) <= b[p].backorder
    BY <2>1 DEF Smaller
  <2>3. TakenFrom(a, b) =
          [p \in Products |-> [k \in Kinds |->
              IF k = "backorder" THEN claim(p)
              ELSE Smaller(b[p].stock + b[p].backorder - claim(p), a[p].stock)]]
    BY DEF TakenFrom
  <2> HIDE DEF claim
  <2>4. \A p \in Products :
           Smaller(b[p].stock + b[p].backorder - claim(p), a[p].stock) \in Nat
    BY <2>1, <2>2 DEF Smaller
  <2> QED
    BY <2>2, <2>3, <2>4 DEF Items
<1>5. \A a \in Items, p \in Products, k \in Kinds, q \in Nat : [a EXCEPT ![p][k] = q] \in Items
  BY DEF Items
<1>6. \A p \in Products, k \in Kinds, q \in Nat : LineItems(p, k, q) \in Items
  BY <1>5, ConstructorTypes DEF LineItems
<1> QED
  BY <1>1, <1>2, <1>3, <1>4, <1>5, <1>6

-----------------------------------------------------------------------------
(* The writes of a reserve. *)

(* A reserve's record stays well formed when its fields are replaced. *)
LEMMA ReserveFields ==
    ASSUME NEW r \in Reserve
    PROVE  /\ \A pc \in Phases : [r EXCEPT !.pc = pc] \in Reserve
           /\ \A s \in SUBSET Products : [r EXCEPT !.todo = s] \in Reserve
           /\ \A t \in Items : [r EXCEPT !.taken = t] \in Reserve
           /\ \A u \in Items : [r EXCEPT !.unwritten = u] \in Reserve
           /\ r.taken \in Items /\ r.unwritten \in Items /\ r.request \in Request
           /\ r.todo \in SUBSET Products
BY DEF Reserve

(* Writing the hold of a new reserve keeps the invariant. *)
LEMMA InsertHoldOK ==
    ASSUME Inv, NEW o \in Orders, NEW request \in Requests, InsertHold(o, request)
    PROVE  Inv'
<1>1. request \in Request
  BY InventoryAssumption
<1>2. [NoHold EXCEPT !.status = "held", !.items = ItemsOf(request)] \in Hold
  BY <1>1, ConstructorTypes, ItemsTypes DEF Hold, HoldStatus
<1> DEFINE todo == {p \in Products : request[p].quantity > 0}
<1>3. [Resting("taking") EXCEPT !.request = request, !.todo = todo] \in Reserve
  <2>1. todo \in SUBSET Products
    OBVIOUS
  <2>2. Resting("taking") \in Reserve
    BY ConstructorTypes DEF Phases
  <2> HIDE DEF todo
  <2> QED BY <1>1, <2>1, <2>2 DEF Reserve
<1>4. holds' \in [Orders -> Hold]
  BY <1>2 DEF InsertHold, Inv, TypeOK
<1>5. rsv' \in [Orders -> Reserve]
  BY <1>3 DEF InsertHold, Inv, TypeOK
<1> QED
  BY <1>4, <1>5 DEF InsertHold, Inv, TypeOK, NeverOversold

(* Taking a line keeps the invariant. *)
LEMMA TakeLineOK ==
    ASSUME Inv, NEW o \in Orders, NEW p \in Products, TakeLine(o, p)
    PROVE  Inv'
<1> DEFINE line == rsv[o].request[p]
           M == ApplyDelta(levels[p], TakeReasonFor(line), line.quantity, line.kind)
<1>1. line \in [quantity : Nat, kind : Kinds, spill : BOOLEAN]
  BY DEF Inv, TypeOK, Reserve, Request
<1>2. TakeReasonFor(line) \in Reasons
  BY DEF TakeReasonFor, Reasons
<1>3. TakeReasonFor(line) # "adjust"
  BY DEF TakeReasonFor
<1>4. levels[p] \in Level /\ Balanced(levels[p])
  BY DEF Inv, TypeOK, NeverOversold
<1>5. M \in Level
  BY <1>1, <1>4, ApplyDeltaType
<1>6. Balanced(M)
  <2>1. Allowed(levels[p], TakeReasonFor(line), line.quantity, line.kind)
    BY DEF TakeLine
  <2>2. line.quantity \in Nat /\ line.kind \in Kinds
    BY <1>1
  <2> HIDE DEF line
  <2> QED BY <1>2, <1>3, <1>4, <2>1, <2>2, ApplyDeltaBalanced
<1>7. levels' = [levels EXCEPT ![p] = M]
  BY DEF TakeLine
<1>8. LineItems(p, line.kind, line.quantity) \in Items
  BY <1>1, ItemsTypes
<1>9. rsv' \in [Orders -> Reserve]
  <2> DEFINE row == LineItems(p, line.kind, line.quantity)
  <2>1. rsv' = [rsv EXCEPT ![o].pc = "recording", ![o].todo = @ \ {p}, ![o].unwritten = row]
    BY DEF TakeLine
  <2>2. row \in Items
    BY <1>8
  <2> HIDE DEF row
  <2> QED BY <2>1, <2>2 DEF Inv, TypeOK, Reserve, Phases
<1> HIDE DEF M
<1>10. levels' \in [Products -> Level] /\ NeverOversold'
  BY <1>5, <1>6, <1>7 DEF Inv, TypeOK, NeverOversold
<1> QED
  BY <1>9, <1>10 DEF TakeLine, Inv, TypeOK

(* Writing its ledger row keeps the invariant. *)
LEMMA RecordLineOK ==
    ASSUME Inv, NEW o \in Orders, RecordLine(o)
    PROVE  Inv'
<1>1. rsv[o].unwritten \in Items /\ rsv[o].taken \in Items /\ NoItems \in Items
  BY ConstructorTypes DEF Inv, TypeOK, Reserve
<1>2. \A p \in Products : rsv[o].unwritten[p].stock \in Nat /\ rsv[o].unwritten[p].backorder \in Nat
  BY <1>1 DEF Items, Kinds
<1>3. ledger' \in [Products -> Movement]
  <2> DEFINE d(p) == [onHand |-> 0, reserved |-> rsv[o].unwritten[p].stock,
                      backordered |-> rsv[o].unwritten[p].backorder]
  <2>1. \A p \in Products : d(p) \in Movement
    BY <1>2 DEF Movement
  <2>2. ledger' = [p \in Products |-> Logged(ledger[p], d(p))]
    BY DEF RecordLine
  <2> HIDE DEF d
  <2>3. \A p \in Products : Logged(ledger[p], d(p)) \in Movement
    BY <2>1, LoggedType DEF Inv, TypeOK
  <2> QED BY <2>2, <2>3
<1>4. WithAdded(rsv[o].taken, rsv[o].unwritten) \in Items
  BY <1>1, ItemsTypes
<1>5. rsv' \in [Orders -> Reserve]
  <2> DEFINE t == WithAdded(rsv[o].taken, rsv[o].unwritten)
  <2>1. rsv' = [rsv EXCEPT ![o] = [@ EXCEPT !.pc = "taking", !.taken = t, !.unwritten = NoItems]]
    BY DEF RecordLine, Inv, TypeOK, Reserve
  <2> HIDE DEF t
  <2> QED BY <1>1, <1>4, <2>1 DEF Inv, TypeOK, Reserve, Phases, t
<1> QED
  BY <1>3, <1>5 DEF RecordLine, Inv, TypeOK, NeverOversold

(* The two parts of a spilling line are hold lines. *)
LEMMA SpillPartsType ==
    ASSUME Inv, NEW p \in Products, NEW q \in Nat
    PROVE  /\ SpillParts(p, q) \in Items
           /\ levels[p].row = "open" => SpillParts(p, q)[p].stock <= levels[p].available
<1> DEFINE shelf == IF levels[p].row = "open" THEN Smaller(levels[p].available, q) ELSE 0
           part == [k \in Kinds |-> IF k = "stock" THEN shelf ELSE q - shelf]
<1>1. levels[p].available \in Nat
  BY DEF Inv, TypeOK, NeverOversold, Balanced, Level
<1>2. /\ shelf \in Nat /\ shelf <= q
      /\ levels[p].row = "open" => shelf <= levels[p].available
  BY <1>1 DEF Smaller
<1>3. SpillParts(p, q) = [NoItems EXCEPT ![p] = part]
  BY DEF SpillParts
<1>4. part \in [Kinds -> Nat] /\ part.stock = shelf
  <2> HIDE DEF shelf
  <2> QED BY <1>2 DEF Kinds
<1>5. NoItems \in Items
  BY ConstructorTypes
<1> HIDE DEF part, shelf
<1> QED
  BY <1>2, <1>3, <1>4, <1>5 DEF Items

(* Taking a spilling line keeps the invariant. *)
LEMMA TakeSpillLineOK ==
    ASSUME Inv, NEW o \in Orders, NEW p \in Products, TakeSpillLine(o, p)
    PROVE  Inv'
<1> DEFINE q == rsv[o].request[p].quantity
           parts == SpillParts(p, q)
           M == ApplyDelta(levels[p], "reserve", parts[p].stock, "stock")
           N == ApplyDelta(M, "backorder", parts[p].backorder, "backorder")
<1>1. q \in Nat
  BY DEF Inv, TypeOK, Reserve, Request
<1>2. parts \in Items /\ (levels[p].row = "open" => parts[p].stock <= levels[p].available)
  BY <1>1, SpillPartsType
<1>3. /\ levels' = [levels EXCEPT ![p] = N]
      /\ ledger' = Recorded(levels, levels')
      /\ holds' = IF holds[o].status \in OpenStatus
                  THEN [holds EXCEPT ![o].items[p] = parts[p]] ELSE holds
      /\ rsv' = [rsv EXCEPT ![o].todo = @ \ {p}, ![o].taken = WithAdded(@, parts)]
  BY DEF TakeSpillLine
<1> HIDE DEF parts
<1>4. parts[p].stock \in Nat /\ parts[p].backorder \in Nat /\ parts[p] \in [Kinds -> Nat]
  BY <1>2 DEF Items, Kinds
<1>5. levels[p] \in Level /\ Balanced(levels[p])
  BY DEF Inv, TypeOK, NeverOversold
<1>6. M \in Level
  BY <1>4, <1>5, ApplyDeltaType
<1>7. N \in Level
  <2> HIDE DEF M
  <2> QED BY <1>4, <1>6, ApplyDeltaType
<1>8. Balanced(N)
  <2>1. levels[p].row = "open" => levels[p].available >= parts[p].stock
    BY <1>2, <1>4, <1>5 DEF Level
  <2> QED BY <1>4, <1>5, <2>1, BothKindsIn
<1> HIDE DEF M, N
<1>9. levels' \in [Products -> Level] /\ NeverOversold'
  BY <1>3, <1>7, <1>8 DEF Inv, TypeOK, NeverOversold
<1>10. ledger' \in [Products -> Movement]
  BY <1>3, <1>9, RecordedType DEF Inv, TypeOK
<1>11. holds' \in [Orders -> Hold]
  BY <1>3, <1>4 DEF Inv, TypeOK, Hold, Items
<1>12. WithAdded(rsv[o].taken, parts) \in Items
  BY <1>2, ItemsTypes DEF Inv, TypeOK, Reserve
<1>13. rsv' \in [Orders -> Reserve]
  BY <1>3, <1>12 DEF Inv, TypeOK, Reserve
<1> QED
  BY <1>9, <1>10, <1>11, <1>13 DEF TakeSpillLine, Inv, TypeOK

(* A refused line keeps the invariant. *)
LEMMA LineRefusedOK ==
    ASSUME Inv, NEW o \in Orders, NEW p \in Products, LineRefused(o, p)
    PROVE  Inv'
<1>1. rsv' = [rsv EXCEPT ![o].pc = "narrowing", ![o].todo = {}]
  BY DEF LineRefused
<1>2. rsv' \in [Orders -> Reserve]
  BY <1>1 DEF Inv, TypeOK, Reserve, Phases
<1> QED
  BY <1>2 DEF LineRefused, Inv, TypeOK, NeverOversold

(* The end of a reserve keeps the invariant. *)
LEMMA FinishReserveOK ==
    ASSUME Inv, NEW o \in Orders, FinishReserve(o)
    PROVE  Inv'
<1>1. Resting("placed") \in Reserve
  BY ConstructorTypes DEF Phases
<1> QED
  BY <1>1 DEF FinishReserve, Inv, TypeOK, NeverOversold

(* Narrowing the hold keeps the invariant. *)
LEMMA NarrowToTakenOK ==
    ASSUME Inv, NEW o \in Orders, NarrowToTaken(o)
    PROVE  Inv'
<1>1. holds' \in [Orders -> Hold]
  BY DEF NarrowToTaken, Inv, TypeOK, Hold, Reserve
<1>2. rsv' \in [Orders -> Reserve]
  BY DEF NarrowToTaken, Inv, TypeOK, Reserve, Phases
<1> QED
  BY <1>1, <1>2 DEF NarrowToTaken, Inv, TypeOK, NeverOversold

(* Giving back a line keeps the invariant. *)
LEMMA GiveBackLineOK ==
    ASSUME Inv, NEW o \in Orders, NEW p \in Products, NEW k \in Kinds, GiveBackLine(o, p, k)
    PROVE  Inv'
<1> DEFINE q == rsv[o].taken[p][k]
           goes == Allowed(levels[p], "release", q, k) /\ levels[p].row = "open"
           M == ApplyDelta(levels[p], "release", q, k)
           u == IF goes THEN q ELSE rsv[o].unwritten[p][k]
           t == [rsv[o].taken EXCEPT ![p][k] = 0]
           w == [rsv[o].unwritten EXCEPT ![p][k] = u]
<1>1. q \in Nat /\ rsv[o].unwritten[p][k] \in Nat
  BY DEF Inv, TypeOK, Reserve, Items
<1>2. levels[p] \in Level /\ Balanced(levels[p])
  BY DEF Inv, TypeOK, NeverOversold
<1>3. levels' = IF goes THEN [levels EXCEPT ![p] = M] ELSE levels
  BY DEF GiveBackLine
<1>4. M \in Level
  BY <1>1, <1>2, ApplyDeltaType
<1>5. goes => Balanced(M)
  <2>1. "release" \in Reasons
    BY DEF Reasons
  <2> HIDE DEF q
  <2> QED BY <1>1, <1>2, <2>1, ApplyDeltaBalanced
<1>6. levels' \in [Products -> Level] /\ NeverOversold'
  <2> HIDE DEF M, goes
  <2> QED BY <1>3, <1>4, <1>5 DEF Inv, TypeOK, NeverOversold
<1>7. t \in Items /\ w \in Items
  <2>1. u \in Nat
    BY <1>1
  <2> HIDE DEF u
  <2> QED BY <2>1, ItemsTypes DEF Inv, TypeOK, Reserve
<1>8. rsv' = [rsv EXCEPT ![o] = [@ EXCEPT !.taken = t, !.unwritten = w]]
  BY DEF GiveBackLine, Inv, TypeOK, Reserve
<1>9. rsv' \in [Orders -> Reserve]
  <2> HIDE DEF t, w
  <2> QED BY <1>7, <1>8 DEF Inv, TypeOK, Reserve
<1> QED
  BY <1>6, <1>9 DEF GiveBackLine, Inv, TypeOK

(* Writing its ledger row keeps the invariant. *)
LEMMA RecordGiveBackOK ==
    ASSUME Inv, NEW o \in Orders, NEW p \in Products, NEW k \in Kinds, RecordGiveBack(o, p, k)
    PROVE  Inv'
<1> DEFINE q == rsv[o].unwritten[p][k]
           d == CounterDeltaFor("release", q, k)
           w == [rsv[o].unwritten EXCEPT ![p][k] = 0]
<1>1. q \in Nat
  BY DEF Inv, TypeOK, Reserve, Items
<1>2. d \in Movement
  <2> HIDE DEF q
  <2> QED BY <1>1, DeltaType
<1>3. ledger' = [ledger EXCEPT ![p] = Logged(@, d)]
  BY DEF RecordGiveBack
<1>4. ledger' \in [Products -> Movement]
  <2> HIDE DEF d
  <2> QED BY <1>2, <1>3, LoggedType DEF Inv, TypeOK
<1>5. w \in Items
  BY ItemsTypes DEF Inv, TypeOK, Reserve
<1>6. rsv' = [rsv EXCEPT ![o] = [@ EXCEPT !.unwritten = w]]
  BY DEF RecordGiveBack, Inv, TypeOK, Reserve
<1>7. rsv' \in [Orders -> Reserve]
  <2> HIDE DEF w
  <2> QED BY <1>5, <1>6 DEF Inv, TypeOK, Reserve
<1> QED
  BY <1>4, <1>7 DEF RecordGiveBack, Inv, TypeOK, NeverOversold

(* Deleting the hold keeps the invariant. *)
LEMMA DeleteHoldOK ==
    ASSUME Inv, NEW o \in Orders, DeleteHold(o)
    PROVE  Inv'
<1>1. Resting("refused") \in Reserve /\ NoHold \in Hold
  BY ConstructorTypes DEF Phases
<1> QED
  BY <1>1 DEF DeleteHold, Inv, TypeOK, NeverOversold

-----------------------------------------------------------------------------
(* The transactions on a hold. *)

(* Enough of the state for a transaction that moved only counters and       *)
(* documents.                                                               *)
LEMMA ServedInv ==
    ASSUME Inv, NEW L, LevelsOK(L), NEW H \in [Orders -> Hold], NEW P \in SUBSET Products,
           ServeAndRecord(L, H, P), rsv' = rsv, shrink' = shrink, faults' = faults,
           clock' \in Nat
    PROVE  Inv'
BY ServeOK DEF Inv, TypeOK, NeverOversold, LevelsOK

(* The invariant makes every level sound. *)
LEMMA LevelsAreOK ==
    ASSUME Inv
    PROVE  LevelsOK(levels)
BY DEF Inv, TypeOK, NeverOversold, LevelsOK

(* A payment keeps the invariant. *)
LEMMA CommitForOrderOK ==
    ASSUME Inv, NEW o \in Orders, CommitForOrder(o)
    PROVE  Inv'
<1> DEFINE H == [holds EXCEPT ![o] = Stamped(@)]
           P == ProductsOf(holds[o].items, "backorder")
<1>1. H \in [Orders -> Hold]
  <2>1. Stamped(holds[o]) \in Hold
    <3>1. clock + 1 \in Nat /\ holds[o] \in Hold
      BY DEF Inv, TypeOK
    <3> QED BY <3>1 DEF Stamped, Hold, HoldStatus
  <2> QED BY <2>1 DEF Inv, TypeOK
<1>2. P \in SUBSET Products
  BY DEF ProductsOf
<1>3. ServeAndRecord(levels, H, P)
  BY DEF CommitForOrder
<1>4. clock' \in Nat /\ rsv' = rsv /\ shrink' = shrink /\ faults' = faults
  BY DEF CommitForOrder, Inv, TypeOK
<1> HIDE DEF H, P
<1> QED
  BY <1>1, <1>2, <1>3, <1>4, LevelsAreOK, ServedInv

(* Retaking the lines of a released hold keeps every level sound. *)
LEMMA RetakenOK ==
    ASSUME Inv, NEW o \in Orders, RetakeAllowed(o)
    PROVE  LevelsOK(Retaken(o))
<1> SUFFICES ASSUME NEW p \in Products
             PROVE  Retaken(o)[p] \in Level /\ Balanced(Retaken(o)[p])
  BY DEF LevelsOK, Retaken
<1> DEFINE it == holds[o].items[p]
           M == ApplyDelta(levels[p], "reserve", it.stock, "stock")
           N == ApplyDelta(M, "backorder", it.backorder, "backorder")
<1>1. it.stock \in Nat /\ it.backorder \in Nat
  BY DEF Inv, TypeOK, Hold, Items, Kinds
<1>2. it.stock > 0 => Allowed(levels[p], "reserve", it.stock, "stock")
  BY DEF RetakeAllowed
<1>3. levels[p] \in Level /\ Balanced(levels[p])
  BY DEF Inv, TypeOK, NeverOversold
<1>4. Retaken(o)[p] = N
  BY DEF Retaken
<1> HIDE DEF it
<1>5. it.stock > 0 /\ levels[p].row = "open" => levels[p].available >= it.stock
  BY <1>2 DEF Allowed, ConditionFor
<1>6. M \in Level
  BY <1>1, <1>3, ApplyDeltaType
<1>7. N \in Level
  <2> HIDE DEF M
  <2> QED BY <1>1, <1>6, ApplyDeltaType
<1>8. Balanced(N)
  BY <1>1, <1>3, <1>5, BothKindsIn
<1> HIDE DEF N
<1> QED
  BY <1>4, <1>7, <1>8

(* A late payment keeps the invariant. *)
LEMMA CommitReleasedForOrderOK ==
    ASSUME Inv, NEW o \in Orders, CommitReleasedForOrder(o)
    PROVE  Inv'
<1> DEFINE H == [holds EXCEPT ![o] = Stamped(@)]
           P == ProductsOf(holds[o].items, "backorder")
<1>1. H \in [Orders -> Hold]
  <2>1. Stamped(holds[o]) \in Hold
    <3>1. clock + 1 \in Nat /\ holds[o] \in Hold
      BY DEF Inv, TypeOK
    <3> QED BY <3>1 DEF Stamped, Hold, HoldStatus
  <2> QED BY <2>1 DEF Inv, TypeOK
<1>2. P \in SUBSET Products
  BY DEF ProductsOf
<1>3. ServeAndRecord(Retaken(o), H, P) /\ RetakeAllowed(o)
  BY DEF CommitReleasedForOrder
<1>4. clock' \in Nat /\ rsv' = rsv /\ shrink' = shrink /\ faults' = faults
  BY DEF CommitReleasedForOrder, Inv, TypeOK
<1>5. LevelsOK(Retaken(o))
  BY <1>3, RetakenOK
<1> HIDE DEF H, P
<1> QED
  BY <1>1, <1>2, <1>3, <1>4, <1>5, ServedInv

(* Shipping a whole hold keeps the invariant. *)
LEMMA ShipForOrderOK ==
    ASSUME Inv, NEW o \in Orders, ShipForOrder(o)
    PROVE  Inv'
<1> DEFINE H == [holds EXCEPT ![o].status = "shipped"]
           L == LinesMoved(levels, "ship", holds[o].items)
<1>1. H \in [Orders -> Hold] /\ holds[o].items \in Items
  BY DEF Inv, TypeOK, Hold, HoldStatus
<1>2. LevelsOK(L)
  <2>1. ProductsOf(holds[o].items, "backorder") = {} /\ LinesAllowed(levels, "ship", holds[o].items)
    BY DEF ShipForOrder
  <2> QED BY <1>1, <2>1, LevelsAreOK, LinesMovedOK
<1>3. ServeAndRecord(L, H, {})
  BY DEF ShipForOrder
<1>4. clock' \in Nat /\ rsv' = rsv /\ shrink' = shrink /\ faults' = faults
  BY DEF ShipForOrder, Inv, TypeOK
<1> HIDE DEF H, L
<1> QED
  BY <1>1, <1>2, <1>3, <1>4, ServedInv

(* Shipping or releasing some lines keeps the invariant. *)
LEMMA TakeLinesOK ==
    ASSUME Inv, NEW o \in Orders, NEW lines \in Parcels,
           NEW reason \in {"ship", "release"}, NEW endsAs \in {"shipped", "released"},
           TakeLines(o, lines, reason, endsAs)
    PROVE  Inv'
<1> DEFINE taken == TakenFrom(holds[o].items, lines)
           rest == Minus(holds[o].items, taken)
           freed == IF reason = "release" THEN ProductsOf(taken, "stock") ELSE {}
           ends == IF NoLines(rest) THEN endsAs ELSE holds[o].status
           L == LinesMoved(levels, reason, taken)
           H == [holds EXCEPT ![o].items = rest,
                              ![o].status = IF NoLines(rest) THEN endsAs ELSE @]
<1>1. lines \in Items /\ holds[o].items \in Items
  BY InventoryAssumption DEF Inv, TypeOK, Hold
<1>2. taken \in Items
  BY <1>1, ItemsTypes
<1>3. rest \in Items
  <2> HIDE DEF taken
  <2> QED BY <1>1, <1>2, ItemsTypes
<1>4. ends \in HoldStatus
  <2> HIDE DEF rest
  <2> QED BY DEF Inv, TypeOK, Hold, HoldStatus
<1>5. H \in [Orders -> Hold]
  <2>1. H = [holds EXCEPT ![o] = [@ EXCEPT !.items = rest, !.status = ends]]
    <3> HIDE DEF rest
    <3> QED BY DEF Inv, TypeOK, Hold
  <2> HIDE DEF rest, ends, H
  <2> QED BY <1>3, <1>4, <2>1 DEF Inv, TypeOK, Hold
<1>6. freed \in SUBSET Products
  BY DEF ProductsOf
<1>7. LevelsOK(L)
  <2>1. /\ reason = "ship" => ProductsOf(taken, "backorder") = {}
        /\ LinesAllowed(levels, reason, taken)
    BY DEF TakeLines
  <2> HIDE DEF taken
  <2> QED BY <1>2, <2>1, LevelsAreOK, LinesMovedOK
<1>8. ServeAndRecord(L, H, freed)
  BY DEF TakeLines
<1>9. clock' \in Nat /\ rsv' = rsv /\ shrink' = shrink /\ faults' = faults
  BY DEF TakeLines, Inv, TypeOK
<1> HIDE DEF H, L, freed, rest, taken, ends
<1> QED
  BY <1>5, <1>6, <1>7, <1>8, <1>9, ServedInv

(* Releasing or expiring a hold keeps the invariant. *)
LEMMA GiveBackHoldOK ==
    ASSUME Inv, NEW o \in Orders, NEW from, NEW reason \in {"release", "expire"},
           GiveBackHold(o, from, reason)
    PROVE  Inv'
<1> DEFINE L == LinesMoved(levels, reason, holds[o].items)
           H == Released(holds, o)
           P == ProductsOf(holds[o].items, "stock")
<1>1. H \in [Orders -> Hold] /\ holds[o].items \in Items
  BY DEF Released, Inv, TypeOK, Hold, HoldStatus
<1>2. LevelsOK(L)
  <2>1. LinesAllowed(levels, reason, holds[o].items)
    BY DEF GiveBackHold
  <2> QED BY <1>1, <2>1, LevelsAreOK, LinesMovedOK
<1>3. P \in SUBSET Products
  BY DEF ProductsOf
<1>4. ServeAndRecord(L, H, P)
  BY DEF GiveBackHold
<1>5. clock' \in Nat /\ rsv' = rsv /\ shrink' = shrink /\ faults' = faults
  BY DEF GiveBackHold, Inv, TypeOK
<1> HIDE DEF H, L, P
<1> QED
  BY <1>1, <1>2, <1>3, <1>4, <1>5, ServedInv

(* A deadline that passes or moves keeps the invariant. *)
LEMMA DeadlineOK ==
    ASSUME Inv, NEW o \in Orders, HoldLapses(o) \/ ExtendHoldForOrder(o)
    PROVE  Inv'
<1>1. holds' \in [Orders -> Hold]
  BY DEF HoldLapses, ExtendHoldForOrder, Inv, TypeOK, Hold
<1>2. faults' \in Nat
  BY DEF HoldLapses, ExtendHoldForOrder, Inv, TypeOK
<1> QED
  BY <1>1, <1>2 DEF HoldLapses, ExtendHoldForOrder, Inv, TypeOK, NeverOversold

(* The two parts of a top-up are hold lines. *)
LEMMA TopUpPartsType ==
    ASSUME Inv, NEW lost \in [Products -> Nat]
    PROVE  /\ TopUpParts(lost) \in Items
           /\ \A p \in Products : levels[p].row = "open" =>
                 TopUpParts(lost)[p].stock <= levels[p].available
<1> DEFINE shelf(p) == Smaller(NatOf(levels[p].available), lost[p])
           part(p) == [k \in Kinds |-> IF levels[p].row # "open" THEN 0
                                       ELSE IF k = "stock" THEN shelf(p) ELSE lost[p] - shelf(p)]
<1>1. \A p \in Products : levels[p].available \in Nat
  BY DEF Inv, TypeOK, NeverOversold, Balanced, Level
<1>2. \A p \in Products : shelf(p) \in Nat /\ shelf(p) <= lost[p] /\ shelf(p) <= levels[p].available
  BY <1>1 DEF Smaller, NatOf
<1>3. TopUpParts(lost) = [p \in Products |-> part(p)]
  BY DEF TopUpParts
<1> HIDE DEF shelf
<1>4. \A p \in Products : part(p) \in [Kinds -> Nat]
  BY <1>2
<1>5. \A p \in Products : levels[p].row = "open" => part(p).stock = shelf(p)
  BY DEF Kinds
<1> HIDE DEF part
<1> QED
  BY <1>2, <1>3, <1>4, <1>5 DEF Items

(* A top-up keeps the invariant. *)
LEMMA ReserveMoreForOrderOK ==
    ASSUME Inv, NEW o \in Orders, NEW lost \in Losses, ReserveMoreForOrder(o, lost)
    PROVE  Inv'
<1> DEFINE added == TopUpParts(lost)
           open == holds[o].status \in OpenStatus
           stamp == IF open \/ holds[o].committedAt > 0 THEN clock ELSE clock + 1
           A(p) == ApplyDelta(levels[p], "reserve", added[p].stock, "stock")
           B(p) == ApplyDelta(A(p), "owed", added[p].backorder, "backorder")
           more == WithAdded(holds[o].items, added)
<1>1. lost \in [Products -> Nat]
  BY InventoryAssumption
<1>2. added \in Items /\ \A p \in Products : levels[p].row = "open" => added[p].stock <= levels[p].available
  BY <1>1, TopUpPartsType
<1>3. stamp \in Nat
  BY DEF Inv, TypeOK
<1>4. /\ levels' = [p \in Products |-> B(p)]
      /\ ledger' = Recorded(levels, levels')
      /\ clock' = stamp
      /\ UNCHANGED <<rsv, shrink, faults>>
  BY DEF ReserveMoreForOrder
<1>5. holds' = [holds EXCEPT ![o] = ToppedUp(holds[o], added, stamp)]
  BY DEF ReserveMoreForOrder
<1> HIDE DEF added, stamp, open
<1>6. \A p \in Products : levels[p] \in Level /\ Balanced(levels[p])
  BY DEF Inv, TypeOK, NeverOversold
<1>7. \A p \in Products : added[p].stock \in Nat /\ added[p].backorder \in Nat
  BY <1>2 DEF Items, Kinds
<1>8. ASSUME NEW p \in Products PROVE B(p) \in Level /\ Balanced(B(p))
  <2>1. A(p) \in Level
    BY <1>6, <1>7, ApplyDeltaType
  <2>2. B(p) \in Level
    <3> HIDE DEF A
    <3> QED BY <1>7, <2>1, ApplyDeltaType
  <2>3. levels[p].row = "open" => levels[p].available >= added[p].stock
    BY <1>2, <1>6, <1>7 DEF Level
  <2>4. Balanced(B(p))
    BY <1>6, <1>7, <2>3, BothKindsIn
  <2> QED BY <2>2, <2>4
<1>9. levels' \in [Products -> Level] /\ NeverOversold'
  <2> HIDE DEF B
  <2> QED BY <1>4, <1>8 DEF NeverOversold
<1>10. ledger' \in [Products -> Movement]
  BY <1>4, <1>9, RecordedType DEF Inv, TypeOK
<1>11. more \in Items
  BY <1>2, ItemsTypes DEF Inv, TypeOK, Hold
<1>12. holds' \in [Orders -> Hold]
  <2> HIDE DEF more
  <2>1. holds[o] \in Hold
    BY DEF Inv, TypeOK
  <2>2. [holds[o] EXCEPT !.items = more] \in Hold
    BY <1>11, <2>1 DEF Hold
  <2> DEFINE at == IF holds[o].committedAt > 0 THEN holds[o].committedAt ELSE stamp
  <2>3. at \in Nat
    BY <1>3, <2>1 DEF Hold
  <2>4. ToppedUp(holds[o], added, stamp) =
          IF holds[o].status \in OpenStatus THEN [holds[o] EXCEPT !.items = more]
          ELSE [holds[o] EXCEPT !.status = "committed", !.items = added, !.committedAt = at]
    BY DEF ToppedUp, more
  <2> HIDE DEF at
  <2>5. [holds[o] EXCEPT !.status = "committed", !.items = added, !.committedAt = at] \in Hold
    BY <1>2, <2>1, <2>3 DEF Hold, HoldStatus
  <2>6. ToppedUp(holds[o], added, stamp) \in Hold
    BY <2>2, <2>4, <2>5
  <2> QED BY <1>5, <2>6 DEF Inv, TypeOK
<1> QED
  BY <1>3, <1>4, <1>9, <1>10, <1>12 DEF Inv, TypeOK

-----------------------------------------------------------------------------
(* Staff operations. *)

(* Opening, removing or capping a level keeps the invariant. *)
LEMMA RowOK ==
    ASSUME Inv, NEW p \in Products,
           OpenLevel(p) \/ RemoveLevel(p) \/ \E cap \in Caps : SetBackorderLimit(p, cap)
    PROVE  Inv'
<1>1. CASE OpenLevel(p) \/ RemoveLevel(p)
  <2>1. /\ ZeroLevel("open") \in Level /\ Balanced(ZeroLevel("open"))
        /\ ZeroLevel("removed") \in Level /\ Balanced(ZeroLevel("removed"))
    BY ConstructorTypes DEF RowStates
  <2> QED BY <1>1, <2>1 DEF OpenLevel, RemoveLevel, Inv, TypeOK, NeverOversold
<1>2. ASSUME NEW cap \in Caps, SetBackorderLimit(p, cap) PROVE Inv'
  <2> DEFINE l == IF levels[p].row = "none" THEN ZeroLevel("open") ELSE levels[p]
             M == [l EXCEPT !.backorderLimit = cap]
  <2>1. l \in Level /\ Balanced(l) /\ cap \in Nat \cup {NoCap}
    BY ConstructorTypes, InventoryAssumption DEF Inv, TypeOK, NeverOversold, RowStates
  <2>2. M \in Level /\ Balanced(M)
    <3> HIDE DEF l
    <3> QED BY <2>1 DEF Level, Balanced
  <2>3. levels' = [levels EXCEPT ![p] = M]
    BY <1>2 DEF SetBackorderLimit, Inv, TypeOK
  <2> HIDE DEF M
  <2> QED BY <1>2, <2>2, <2>3 DEF SetBackorderLimit, Inv, TypeOK, NeverOversold
<1> QED
  BY <1>1, <1>2

(* Units that arrive keep the invariant. *)
LEMMA ReceiveAndAllocateOK ==
    ASSUME Inv, NEW p \in Products, NEW q \in Deliveries, NEW reason \in {"receive", "adjust"},
           ReceiveAndAllocate(p, q, reason)
    PROVE  Inv'
<1> DEFINE l == IF levels[p].row = "none" THEN ZeroLevel("open") ELSE levels[p]
           N == ApplyDelta(l, reason, q, "stock")
           M == [levels EXCEPT ![p] = N]
<1>1. q \in Nat /\ reason \in Reasons
  BY InventoryAssumption DEF Reasons
<1>2. l \in Level /\ Balanced(l)
  BY ConstructorTypes DEF Inv, TypeOK, NeverOversold, RowStates
<1>3. Allowed(l, reason, q, "stock") /\ ServeAndRecord(M, holds, {p})
  BY DEF ReceiveAndAllocate
<1> HIDE DEF l
<1>4. N \in Level
  BY <1>1, <1>2, ApplyDeltaType
<1>5. Balanced(N)
  BY <1>1, <1>2, <1>3, ApplyDeltaBalanced DEF Kinds
<1> HIDE DEF N
<1>6. LevelsOK(M)
  BY <1>4, <1>5, LevelsAreOK DEF LevelsOK
<1>7. /\ clock' \in Nat /\ rsv' = rsv /\ shrink' = shrink /\ faults' = faults
      /\ holds \in [Orders -> Hold]
  BY DEF ReceiveAndAllocate, Inv, TypeOK
<1> HIDE DEF M
<1> QED
  BY <1>3, <1>6, <1>7, ServedInv

(* A downward correction keeps the invariant. *)
LEMMA AdjustDownOK ==
    ASSUME Inv, NEW p \in Products, NEW q \in Deliveries, AdjustDown(p, q)
    PROVE  Inv'
<1> DEFINE N == ApplyDelta(levels[p], "adjust", -q, "stock")
<1>1. q \in Nat /\ -q \in Int /\ "adjust" \in Reasons
  BY InventoryAssumption DEF Reasons
<1>2. levels[p] \in Level /\ Balanced(levels[p])
  BY DEF Inv, TypeOK, NeverOversold
<1>3. Allowed(levels[p], "adjust", -q, "stock") /\ levels' = [levels EXCEPT ![p] = N]
  BY DEF AdjustDown
<1>4. N \in Level
  BY <1>1, <1>2, ApplyDeltaType
<1>5. Balanced(N)
  BY <1>1, <1>2, <1>3, ApplyDeltaBalanced DEF Kinds
<1> HIDE DEF N
<1>6. levels' \in [Products -> Level] /\ NeverOversold'
  BY <1>3, <1>4, <1>5 DEF Inv, TypeOK, NeverOversold
<1>7. shrink' \in [Products -> Nat]
  BY <1>1 DEF AdjustDown, Inv, TypeOK
<1> QED
  BY <1>6, <1>7 DEF AdjustDown, Inv, TypeOK

(* Writing its ledger row keeps the invariant. *)
LEMMA RecordAdjustOK ==
    ASSUME Inv, NEW p \in Products, RecordAdjust(p)
    PROVE  Inv'
<1> DEFINE d == CounterDeltaFor("adjust", -shrink[p], "stock")
<1>1. d \in Movement
  <2>1. -shrink[p] \in Int
    BY DEF Inv, TypeOK
  <2> QED BY <2>1, DeltaType
<1>2. ledger' = [ledger EXCEPT ![p] = Logged(@, d)]
  BY DEF RecordAdjust
<1> HIDE DEF d
<1>3. ledger' \in [Products -> Movement]
  BY <1>1, <1>2, LoggedType DEF Inv, TypeOK
<1> QED
  BY <1>3 DEF RecordAdjust, Inv, TypeOK, NeverOversold

(* Restocking returned goods keeps the invariant. *)
LEMMA RestockReturnedLinesOK ==
    ASSUME Inv, NEW back \in Losses, RestockReturnedLines(back)
    PROVE  Inv'
<1> DEFINE N(p) == ApplyDelta(levels[p], "restock", back[p], "stock")
           M == [p \in Products |-> N(p)]
           P == {p \in Products : back[p] > 0}
<1>1. back \in [Products -> Nat]
  BY InventoryAssumption
<1>2. ASSUME NEW p \in Products PROVE N(p) \in Level /\ Balanced(N(p))
  <2>1. levels[p] \in Level /\ Balanced(levels[p]) /\ back[p] \in Nat
    BY <1>1 DEF Inv, TypeOK, NeverOversold
  <2>2. Allowed(levels[p], "restock", back[p], "stock")
    BY DEF Allowed, ConditionFor
  <2>3. N(p) \in Level
    BY <2>1, ApplyDeltaType
  <2>4. Balanced(N(p))
    BY <2>1, <2>2, ApplyDeltaBalanced DEF Reasons, Kinds
  <2> QED BY <2>3, <2>4
<1>3. ServeAndRecord(M, holds, P)
  BY DEF RestockReturnedLines
<1>4. LevelsOK(M)
  <2> HIDE DEF N
  <2> QED BY <1>2 DEF LevelsOK
<1>5. /\ clock' \in Nat /\ rsv' = rsv /\ shrink' = shrink /\ faults' = faults
      /\ holds \in [Orders -> Hold]
  BY DEF RestockReturnedLines, Inv, TypeOK
<1>6. P \in SUBSET Products
  OBVIOUS
<1> HIDE DEF M, P
<1> QED
  BY <1>3, <1>4, <1>5, <1>6, ServedInv

-----------------------------------------------------------------------------
(* Failures between two writes. *)

(* A reserve that crashes or throws keeps the invariant. *)
LEMMA ReserveFaultOK ==
    ASSUME Inv, NEW o \in Orders, CrashInReserve(o) \/ TakeThrows(o)
    PROVE  Inv'
<1>1. Resting("crashed") \in Reserve /\ NoItems \in Items
  BY ConstructorTypes DEF Phases
<1>2. faults' \in Nat
  BY DEF CrashInReserve, TakeThrows, Fault, Inv, TypeOK
<1>3. rsv' \in [Orders -> Reserve]
  <2>1. CASE CrashInReserve(o)
    BY <1>1, <2>1 DEF CrashInReserve, Inv, TypeOK
  <2>2. CASE TakeThrows(o)
    <3>1. rsv' = [rsv EXCEPT ![o].pc = "narrowing", ![o].todo = {}, ![o].unwritten = NoItems]
      BY <2>2 DEF TakeThrows
    <3> QED BY <1>1, <3>1 DEF Inv, TypeOK, Reserve, Phases
  <2> QED BY <2>1, <2>2
<1> QED
  BY <1>2, <1>3 DEF CrashInReserve, TakeThrows, Inv, TypeOK, NeverOversold

(* A give-back that throws keeps the invariant. *)
LEMMA GiveBackThrowsOK ==
    ASSUME Inv, NEW o \in Orders, NEW p \in Products, NEW k \in Kinds, GiveBackThrows(o, p, k)
    PROVE  Inv'
<1> DEFINE t == [rsv[o].taken EXCEPT ![p][k] = 0]
           w == [rsv[o].unwritten EXCEPT ![p][k] = 0]
<1>1. t \in Items /\ w \in Items
  BY ItemsTypes DEF Inv, TypeOK, Reserve
<1>2. \/ rsv' = [rsv EXCEPT ![o] = [@ EXCEPT !.taken = t]]
      \/ rsv' = [rsv EXCEPT ![o] = [@ EXCEPT !.unwritten = w]]
  BY DEF GiveBackThrows, Inv, TypeOK, Reserve
<1> HIDE DEF t, w
<1>3. rsv' \in [Orders -> Reserve]
  BY <1>1, <1>2 DEF Inv, TypeOK, Reserve
<1>4. faults' \in Nat
  BY DEF GiveBackThrows, Fault, Inv, TypeOK
<1> QED
  BY <1>3, <1>4 DEF GiveBackThrows, Inv, TypeOK, NeverOversold

(* A crash in a correction keeps the invariant. *)
LEMMA CrashInAdjustOK ==
    ASSUME Inv, NEW p \in Products, CrashInAdjust(p)
    PROVE  Inv'
BY DEF CrashInAdjust, Fault, Inv, TypeOK, NeverOversold

-----------------------------------------------------------------------------
(* The invariant. *)

(* The initial state satisfies the invariant. *)
LEMMA InitInv == Init => Inv
<1> SUFFICES ASSUME Init PROVE Inv
  OBVIOUS
<1>1. /\ ZeroLevel("none") \in Level /\ Balanced(ZeroLevel("none"))
      /\ NoHold \in Hold /\ Resting("idle") \in Reserve
  BY ConstructorTypes DEF RowStates, Phases
<1> QED
  BY <1>1 DEF Init, Inv, TypeOK, NeverOversold, Movement

(* Every step keeps the invariant. *)
LEMMA StepInv == Inv /\ [Next]_vars => Inv'
<1> SUFFICES ASSUME Inv, [Next]_vars PROVE Inv'
  OBVIOUS
<1>1. CASE UNCHANGED vars
  BY <1>1 DEF vars, Inv, TypeOK, NeverOversold
<1>2. ASSUME NEW o \in Orders, ReserveStep(o) PROVE Inv'
  BY <1>2, InsertHoldOK, TakeLineOK, TakeSpillLineOK, LineRefusedOK, RecordLineOK,
     FinishReserveOK, NarrowToTakenOK, DeleteHoldOK, GiveBackLineOK, RecordGiveBackOK
  DEF ReserveStep
<1>3. ASSUME NEW o \in Orders, HoldStep(o) PROVE Inv'
  <2>1. CASE ReleaseForOrder(o) \/ ReleaseCommittedForOrder(o) \/ ExpireOne(o)
    BY <2>1, GiveBackHoldOK DEF ReleaseForOrder, ReleaseCommittedForOrder, ExpireOne
  <2>2. ASSUME NEW lines \in Parcels,
               \/ ShipLinesForOrder(o, lines) \/ ReleaseLinesForOrder(o, lines)
               \/ ReleaseTopUpForOrder(o, lines)
        PROVE  Inv'
    BY <2>2, TakeLinesOK DEF ShipLinesForOrder, ReleaseLinesForOrder, ReleaseTopUpForOrder
  <2> QED
    BY <1>3, <2>1, <2>2, CommitForOrderOK, CommitReleasedForOrderOK, ShipForOrderOK,
       DeadlineOK, ReserveMoreForOrderOK
    DEF HoldStep
<1>4. CASE StaffStep
  <2>1. ASSUME NEW p \in Products, NEW q \in Deliveries, Receive(p, q) \/ AdjustUp(p, q)
        PROVE  Inv'
    BY <2>1, ReceiveAndAllocateOK DEF Receive, AdjustUp
  <2> QED
    BY <1>4, <2>1, RowOK, AdjustDownOK, RecordAdjustOK, RestockReturnedLinesOK DEF StaffStep
<1>5. CASE FaultStep
  BY <1>5, ReserveFaultOK, GiveBackThrowsOK, CrashInAdjustOK DEF FaultStep
<1> QED
  BY <1>1, <1>2, <1>3, <1>4, <1>5 DEF Next

-----------------------------------------------------------------------------
(* The strengthening for the accounts. *)

Active == {"taking", "recording", "narrowing", "giving"}

(* What the counters owe to an order with this hold and this reserve, and   *)
(* the movement rows its reserve has yet to write.                          *)
Unrecorded(r, pc, p, k) == IF r.pc = pc THEN r.unwritten[p][k] ELSE 0
Owed(hold, r, p, k) ==
    IF r.pc \in Active THEN r.taken[p][k] + Unrecorded(r, "recording", p, k)
    ELSE IF hold.status \in OpenStatus THEN hold.items[p][k] ELSE 0
Counter(l, k) == IF k = "stock" THEN l.reserved ELSE l.backordered

(* The counters of a product are what its orders are owed: also before its  *)
(* row exists.                                                              *)
OwedFor(H, R, p, k) == [o \in Orders |-> Owed(H[o], R[o], p, k)]
Account(L, H, R) ==
    \A p \in Products, k \in Kinds : L[p].row # "removed" => Counter(L[p], k) = Sum(OwedFor(H, R, p, k))

(* A hold being taken is nobody else's: it is held, not due, and names what *)
(* was taken and what is still asked for.                                   *)
Mine(hold, r) ==
    /\ r.pc \in Active => hold.status = "held" /\ ~ hold.due
    /\ r.pc \in {"taking", "recording"} =>
          \A p \in Products, k \in Kinds :
              IF p \in r.todo
              THEN Owed(hold, r, p, k) = 0 /\ hold.items[p][k] = ItemsOf(r.request)[p][k]
              ELSE hold.items[p][k] = Owed(hold, r, p, k)
AllMine(H, R) == \A o \in Orders : Mine(H[o], R[o])

Unopened(L) == \A p \in Products : L[p].row = "none" => L[p] = ZeroLevel("none")

Kept == Account(levels, holds, rsv) /\ AllMine(holds, rsv) /\ Unopened(levels)

(* The ledger replays, for a row that exists or not yet. *)
InFlight(R, pc, p, k) == Sum([o \in Orders |-> Unrecorded(R[o], pc, p, k)])
Replays(L, D, R, S) ==
    \A p \in Products : L[p].row # "removed" =>
        /\ L[p].onHand + S[p] = D[p].onHand
        /\ \A k \in Kinds : Counter(L[p], k) + InFlight(R, "giving", p, k)
                              = Counter(D[p], k) + InFlight(R, "recording", p, k)
(* A movement row is written before the line is touched again. *)
Tidy(r) == \A p \in Products, k \in Kinds :
    /\ r.pc \in {"taking", "narrowing"} => r.unwritten[p][k] = 0
    /\ r.pc = "giving" /\ r.taken[p][k] > 0 => r.unwritten[p][k] = 0
Written == Replays(levels, ledger, rsv, shrink) /\ \A o \in Orders : Tidy(rsv[o])

(* The queue, where every checkout has one line: nothing of it is taken     *)
(* until all of it is, so a refused checkout has nothing to give back.      *)
OneLine == \A r \in Requests : Cardinality({p \in Products : r[p].quantity > 0}) <= 1
AtOnce(r) ==
    /\ \A p, q \in r.todo : p = q
    /\ r.pc = "recording" => r.todo = {}
    /\ r.pc \in Active /\ (r.pc = "taking" => r.todo # {}) => \A p \in Products, k \in Kinds : r.taken[p][k] = 0
NobodyWaits(L, H, p) == L[p].row = "open" => L[p].available = 0 \/ \A o \in Orders : Waiting(H, o, p) = 0
Lined == (\A p \in Products : NobodyWaits(levels, holds, p)) /\ \A o \in Orders : AtOnce(rsv[o])

(* Nobody's claim is served before that of one who paid earlier. *)
InTurn ==
    \A p \in Products, a \in Orders, b \in Orders :
        /\ holds'[b].status = "committed"
        /\ holds'[b].items[p].stock > holds[b].items[p].stock
        /\ holds'[b].items[p].backorder < holds[b].items[p].backorder
        /\ holds'[a].committedAt < holds'[b].committedAt
        => Waiting(holds', a, p) = 0

Books == faults = 0 => Kept /\ Written /\ (OneLine => Lined)

(* What a step without a failure does to all of it. *)
Goes == Kept' /\ (Written => Written') /\ (OneLine /\ Lined => Lined' /\ InTurn)

-----------------------------------------------------------------------------
(* What movements do to the counters that the holds explain. *)

(* Taking shelf units and a claim for one product. *)
LEMMA TakingMoves ==
    ASSUME NEW l \in Level, NEW reason \in {"backorder", "owed"}, NEW a \in Nat, NEW b \in Nat,
           NEW m, m = ApplyDelta(ApplyDelta(l, "reserve", a, "stock"), reason, b, "backorder")
    PROVE  /\ m.row = l.row
           /\ l.row # "open" => m = l
           /\ l.row = "open" => /\ Counter(m, "stock") = Counter(l, "stock") + a
                                /\ Counter(m, "backorder") = Counter(l, "backorder") + b
                                /\ m.available = l.available - a
<1>1. CASE l.row = "open"
  <2> DEFINE n == ApplyDelta(l, "reserve", a, "stock")
  <2>1. n = [row |-> l.row, onHand |-> l.onHand, reserved |-> l.reserved + a,
             available |-> l.available - a, backordered |-> l.backordered,
             backorderLimit |-> l.backorderLimit]
    BY <1>1 DEF ApplyDelta, CounterDeltaFor, Level
  <2>2. m = ApplyDelta(n, reason, b, "backorder")
    OBVIOUS
  <2> HIDE DEF n
  <2>3. m = [row |-> l.row, onHand |-> l.onHand, reserved |-> l.reserved + a,
             available |-> l.available - a, backordered |-> l.backordered + b,
             backorderLimit |-> l.backorderLimit]
    BY <1>1, <2>1, <2>2 DEF ApplyDelta, CounterDeltaFor, Level
  <2> QED BY <1>1, <2>3 DEF Counter
<1>2. CASE l.row # "open"
  BY <1>2 DEF ApplyDelta
<1> QED BY <1>1, <1>2

(* Giving back, or shipping, the two kinds of one product's line. *)
LEMMA LeavingMoves ==
    ASSUME NEW l \in Level, NEW reason \in {"ship", "release", "expire"}, NEW a \in Nat, NEW b \in Nat,
           reason = "ship" => b = 0,
           NEW m, m = ApplyDelta(ApplyDelta(l, reason, a, "stock"), reason, b, "backorder")
    PROVE  /\ m.row = l.row
           /\ l.row # "open" => m = l
           /\ l.row = "open" => /\ Counter(m, "stock") = Counter(l, "stock") - a
                                /\ Counter(m, "backorder") = Counter(l, "backorder") - b
                                /\ m.available = IF reason = "ship" THEN l.available ELSE l.available + a
<1>1. CASE l.row = "open"
  <2> DEFINE n == ApplyDelta(l, reason, a, "stock")
             out == IF reason = "ship" THEN a ELSE 0
  <2>1. n = [row |-> l.row, onHand |-> l.onHand - out, reserved |-> l.reserved - a,
             available |-> l.available - out + a, backordered |-> l.backordered,
             backorderLimit |-> l.backorderLimit]
    BY <1>1 DEF ApplyDelta, CounterDeltaFor, Level
  <2>2. m = ApplyDelta(n, reason, b, "backorder")
    OBVIOUS
  <2> HIDE DEF n
  <2>3. m = [row |-> l.row, onHand |-> l.onHand - out, reserved |-> l.reserved - a,
             available |-> l.available - out + a, backordered |-> l.backordered - b,
             backorderLimit |-> l.backorderLimit]
    BY <1>1, <2>1, <2>2 DEF ApplyDelta, CounterDeltaFor, Level
  <2> QED BY <1>1, <2>3 DEF Counter, Level
<1>2. CASE l.row # "open"
  BY <1>2 DEF ApplyDelta
<1> QED BY <1>1, <1>2

(* Serving the queue turns claims into shelf units; units that arrive or    *)
(* are lost change neither.                                                 *)
LEMMA ServingMoves ==
    ASSUME NEW l \in Level, NEW n \in Nat, NEW m, m = ApplyDelta(l, "allocate", n, "stock")
    PROVE  /\ m.row = l.row
           /\ l.row # "open" => m = l
           /\ l.row = "open" => /\ Counter(m, "stock") = Counter(l, "stock") + n
                                /\ Counter(m, "backorder") = Counter(l, "backorder") - n
                                /\ m.available = l.available - n
<1>1. CASE l.row = "open"
  <2>1. m = [row |-> l.row, onHand |-> l.onHand, reserved |-> l.reserved + n,
             available |-> l.available - n, backordered |-> l.backordered - n,
             backorderLimit |-> l.backorderLimit]
    BY <1>1 DEF ApplyDelta, CounterDeltaFor, Level
  <2> QED BY <1>1, <2>1 DEF Counter
<1>2. CASE l.row # "open"
  BY <1>2 DEF ApplyDelta
<1> QED BY <1>1, <1>2

(* Units that arrive, come back or are corrected away move no counter of the *)
(* holds.                                                                   *)
LEMMA ShelfMoves ==
    ASSUME NEW l \in Level, NEW reason \in {"receive", "restock", "adjust"}, NEW q \in Int,
           NEW m, m = ApplyDelta(l, reason, q, "stock")
    PROVE  /\ m.row = l.row
           /\ l.row # "open" => m = l
           /\ Counter(m, "stock") = Counter(l, "stock") /\ Counter(m, "backorder") = Counter(l, "backorder")
           /\ l.row = "open" => m.onHand = l.onHand + q /\ m.available = l.available + q
<1>1. CASE l.row = "open"
  <2>1. m = [row |-> l.row, onHand |-> l.onHand + q, reserved |-> l.reserved,
             available |-> l.available + q, backordered |-> l.backordered,
             backorderLimit |-> l.backorderLimit]
    BY <1>1 DEF ApplyDelta, CounterDeltaFor, Level
  <2> QED BY <1>1, <2>1 DEF Counter
<1>2. CASE l.row # "open"
  BY <1>2 DEF ApplyDelta
<1> QED BY <1>1, <1>2

(* One movement of one kind: a line taken or given back by a reserve. *)
LEMMA LineMoves ==
    ASSUME NEW l \in Level, l.row = "open", NEW q \in Nat, NEW k \in Kinds, NEW j \in Kinds,
           NEW reason \in {"reserve", "backorder", "release"},
           reason = "reserve" => k = "stock", reason = "backorder" => k = "backorder",
           NEW m, m = ApplyDelta(l, reason, q, k)
    PROVE  /\ m.row = "open"
           /\ Counter(m, j) = IF j # k THEN Counter(l, j)
                              ELSE IF reason = "release" THEN Counter(l, j) - q ELSE Counter(l, j) + q
           /\ m.onHand = l.onHand
           /\ reason # "release" => m.available <= l.available
<1> DEFINE d == CounterDeltaFor(reason, q, k)
<1>1. m = [row |-> l.row, onHand |-> l.onHand + d.onHand, reserved |-> l.reserved + d.reserved,
           available |-> l.available + d.onHand - d.reserved,
           backordered |-> l.backordered + d.backordered, backorderLimit |-> l.backorderLimit]
  BY DEF ApplyDelta
<1>2. /\ d.onHand = 0
      /\ d.reserved = IF k # "stock" THEN 0 ELSE IF reason = "release" THEN -q ELSE q
      /\ d.backordered = IF k = "stock" THEN 0 ELSE IF reason = "release" THEN -q ELSE q
  BY DEF CounterDeltaFor, Kinds
<1> HIDE DEF d
<1>3. j = "stock" \/ j = "backorder"
  BY DEF Kinds
<1>4. k = "stock" \/ k = "backorder"
  BY DEF Kinds
<1>5. l.reserved \in Int /\ l.backordered \in Int /\ l.available \in Int
  BY DEF Level
<1>6. Counter(m, j) = Counter(l, j) + (IF j = "stock" THEN d.reserved ELSE d.backordered)
  BY <1>1 DEF Counter
<1>7. Counter(l, j) \in Int
  BY <1>5 DEF Counter
<1>8. m.available = l.available + 0 - d.reserved /\ m.row = l.row /\ m.onHand = l.onHand
  BY <1>1, <1>2 DEF Level
<1> QED BY <1>2, <1>3, <1>4, <1>5, <1>6, <1>7, <1>8

-----------------------------------------------------------------------------
(* What the orders are owed, added up. *)

(* What an order is owed is a number of units.                              *)
LEMMA OwedType ==
    ASSUME NEW hold \in Hold, NEW r \in Reserve, NEW p \in Products, NEW k \in Kinds
    PROVE  Owed(hold, r, p, k) \in Nat
<1>1. r.taken[p][k] \in Nat /\ r.unwritten[p][k] \in Nat /\ hold.items[p][k] \in Nat
  BY DEF Reserve, Hold, Items
<1> QED BY <1>1 DEF Owed, Unrecorded

(* A table of what each order is owed is one of naturals.                   *)
LEMMA OwedForType ==
    ASSUME NEW H \in [Orders -> Hold], NEW R \in [Orders -> Reserve], NEW p \in Products, NEW k \in Kinds
    PROVE  OwedFor(H, R, p, k) \in [Orders -> Nat]
BY OwedType DEF OwedFor

(* A counter is an integer.                                                 *)
LEMMA CounterType ==
    ASSUME NEW l \in Level, NEW k
    PROVE  Counter(l, k) \in Int
BY DEF Counter, Level

(* What one order is owed is covered by the counter. *)
LEMMA OwedIsCovered ==
    ASSUME NEW L, NEW H \in [Orders -> Hold], NEW R \in [Orders -> Reserve], Account(L, H, R),
           NEW o \in Orders, NEW p \in Products, L[p].row # "removed", NEW k \in Kinds
    PROVE  Owed(H[o], R[o], p, k) <= Counter(L[p], k)
<1> DEFINE f == OwedFor(H, R, p, k)
<1>1. f \in [Orders -> Nat] /\ IsFiniteSet(Orders)
  BY OwedForType, InventoryAssumption
<1>2. f[o] = Owed(H[o], R[o], p, k) /\ Counter(L[p], k) = Sum(f)
  BY DEF OwedFor, Account
<1> HIDE DEF f
<1>3. f[o] <= Sum(f)
  BY <1>1, EntryInSum
<1> QED BY <1>2, <1>3

(* One order's share changes by as much as the counters do. *)
LEMMA OneOrderMoves ==
    ASSUME NEW L \in [Products -> Level], NEW H \in [Orders -> Hold], NEW R \in [Orders -> Reserve],
           NEW M \in [Products -> Level], NEW G \in [Orders -> Hold], NEW S \in [Orders -> Reserve],
           Account(L, H, R), NEW o \in Orders,
           \A x \in Orders \ {o} : G[x] = H[x] /\ S[x] = R[x],
           \A p \in Products : M[p].row # "removed" => L[p].row # "removed",
           \A p \in Products, k \in Kinds : M[p].row # "removed" =>
               Counter(M[p], k) + Owed(H[o], R[o], p, k) = Counter(L[p], k) + Owed(G[o], S[o], p, k)
    PROVE  Account(M, G, S)
<1> SUFFICES ASSUME NEW p \in Products, NEW k \in Kinds, M[p].row # "removed"
             PROVE  Counter(M[p], k) = Sum(OwedFor(G, S, p, k))
  BY DEF Account
<1> DEFINE f == OwedFor(H, R, p, k)
           g == OwedFor(G, S, p, k)
<1>1. f \in [Orders -> Nat] /\ g \in [Orders -> Nat] /\ IsFiniteSet(Orders)
  BY OwedForType, InventoryAssumption
<1>2. \A x \in Orders \ {o} : g[x] = f[x]
  BY DEF OwedFor
<1>3. f[o] = Owed(H[o], R[o], p, k) /\ g[o] = Owed(G[o], S[o], p, k)
  BY DEF OwedFor
<1>4. Counter(L[p], k) = Sum(f)
  BY DEF Account
<1>5. Counter(M[p], k) + f[o] = Counter(L[p], k) + g[o]
  BY <1>3
<1>6. Counter(M[p], k) \in Int
  BY CounterType
<1> HIDE DEF f, g
<1>7. Sum(g) - g[o] = Sum(f) - f[o]
  BY <1>1, <1>2, SumChange
<1>8. Sum(f) \in Nat /\ Sum(g) \in Nat /\ f[o] \in Nat /\ g[o] \in Nat
  BY <1>1, SumType
<1>9. Counter(M[p], k) = Sum(g)
  BY <1>4, <1>5, <1>6, <1>7, <1>8
<1> QED BY <1>9 DEF g

(* Neither counters nor shares change. *)
LEMMA NothingOwedMoves ==
    ASSUME NEW L, NEW H, NEW R, NEW M, Account(L, H, R),
           \A p \in Products : M[p].row # "removed" =>
               L[p].row # "removed" /\ \A k \in Kinds : Counter(M[p], k) = Counter(L[p], k)
    PROVE  Account(M, H, R)
BY DEF Account

-----------------------------------------------------------------------------
(* Serving the queue. *)

(* The queue hands an order no more than it waits for, and only to a paid one. *)
LEMMA GivenBounds ==
    ASSUME NEW L \in [Products -> Level], NEW H \in [Orders -> Hold], NEW o \in Orders, NEW p \in Products
    PROVE  /\ Given(L, H, o, p) <= Waiting(H, o, p)
           /\ Given(L, H, o, p) > 0 => H[o].status = "committed" /\ L[p].row = "open" /\ L[p].available > 0
           /\ H[o].status # "committed" => Given(L, H, o, p) = 0
           /\ L[p].row # "open" => Given(L, H, o, p) = 0
           /\ Given(L, H, o, p) <= H[o].items[p].backorder
<1>1. Waiting(H, o, p) \in Nat /\ Given(L, H, o, p) \in Nat
  BY WaitingType, GivenType
<1>2. WaitingAhead(H, o, p) \in Nat
  <2> DEFINE f == [x \in Orders |-> IF H[x].committedAt < H[o].committedAt THEN Waiting(H, x, p) ELSE 0]
  <2>1. f \in [Orders -> Nat] /\ IsFiniteSet(Orders)
    BY WaitingType, InventoryAssumption
  <2> HIDE DEF f
  <2>2. Sum(f) \in Nat
    BY <2>1, SumType
  <2> QED BY <2>2 DEF f, WaitingAhead
<1>3. Free(L, p) \in Int /\ (Free(L, p) > 0 => L[p].row = "open" /\ L[p].available > 0)
  BY DEF Free, Level
<1>4. H[o].items[p].backorder \in Nat
  BY DEF Hold, Items, Kinds
<1>5. /\ H[o].status # "committed" => Waiting(H, o, p) = 0
      /\ Waiting(H, o, p) <= H[o].items[p].backorder
  BY <1>4 DEF Waiting
<1> DEFINE free == Free(L, p)
           ahead == WaitingAhead(H, o, p)
           wait == Waiting(H, o, p)
<1>6. Given(L, H, o, p) = Smaller(NatOf(free - ahead), wait)
  BY DEF Given
<1> HIDE DEF free, ahead, wait
<1>7. Given(L, H, o, p) <= wait /\ (Given(L, H, o, p) > 0 => free > 0)
  BY <1>1, <1>2, <1>3, <1>6 DEF Smaller, NatOf, free, ahead, wait
<1> QED BY <1>1, <1>3, <1>4, <1>5, <1>7 DEF free, wait

(* What a product's queue gets in all; nothing without a row. *)
LEMMA GivenInAll ==
    ASSUME NEW L \in [Products -> Level], NEW H \in [Orders -> Hold], NEW p \in Products
    PROVE  /\ GivenAll(L, H, p) \in Nat
           /\ [o \in Orders |-> Given(L, H, o, p)] \in [Orders -> Nat]
           /\ L[p].row # "open" => GivenAll(L, H, p) = 0
<1> DEFINE f == [o \in Orders |-> Given(L, H, o, p)]
<1>1. f \in [Orders -> Nat] /\ IsFiniteSet(Orders)
  BY GivenType, InventoryAssumption
<1>2. L[p].row # "open" => \A o \in Orders : f[o] = 0
  BY GivenBounds
<1>3. GivenAll(L, H, p) = Sum(f)
  BY DEF GivenAll
<1> HIDE DEF f
<1>4. L[p].row # "open" => Sum(f) = 0
  BY <1>1, <1>2, SumZero
<1> QED BY <1>1, <1>3, <1>4, SumType DEF f

(* What serving makes of one hold. *)
Handed(L, H, P, o, p) == IF p \in P THEN Given(L, H, o, p) ELSE 0

(* What serving does to one hold: claims become shelf units, nothing else.  *)
LEMMA ServedHold ==
    ASSUME NEW L \in [Products -> Level], NEW H \in [Orders -> Hold], NEW P \in SUBSET Products,
           NEW o \in Orders, NEW G, G = AllocatedHolds(L, H, P)
    PROVE  /\ G[o].status = H[o].status /\ G[o].due = H[o].due /\ G[o].committedAt = H[o].committedAt
           /\ \A p \in Products :
                /\ Handed(L, H, P, o, p) \in Nat
                /\ G[o].items[p]["stock"] = H[o].items[p]["stock"] + Handed(L, H, P, o, p)
                /\ G[o].items[p]["backorder"] = H[o].items[p]["backorder"] - Handed(L, H, P, o, p)
           /\ H[o].status # "committed" =>
                \A p \in Products, k \in Kinds : G[o].items[p][k] = H[o].items[p][k]
<1> DEFINE g(p) == Handed(L, H, P, o, p)
<1>1. ASSUME NEW p \in Products
      PROVE  g(p) \in Nat /\ g(p) <= H[o].items[p].backorder /\ (H[o].status # "committed" => g(p) = 0)
  <2>1. H[o].items[p].backorder \in Nat
    BY DEF Hold, Items, Kinds
  <2>2. CASE p \in P
    BY <2>2, GivenBounds, GivenType DEF Handed
  <2>3. CASE p \notin P
    BY <2>1, <2>3 DEF Handed
  <2> QED BY <2>2, <2>3
<1>2. \A p \in Products : H[o].items[p].stock \in Nat /\ H[o].items[p].backorder \in Nat
  BY DEF Hold, Items, Kinds
<1>3. G[o] = [H[o] EXCEPT !.items =
                [p \in Products |-> [k \in Kinds |-> IF k = "stock" THEN H[o].items[p].stock + g(p)
                                                     ELSE NatOf(H[o].items[p].backorder - g(p))]]]
  BY DEF AllocatedHolds, Handed
<1> HIDE DEF g
<1>4. G[o].status = H[o].status /\ G[o].due = H[o].due /\ G[o].committedAt = H[o].committedAt
  BY <1>3 DEF Hold
<1>5. \A p \in Products, k \in Kinds :
         G[o].items[p][k] = IF k = "stock" THEN H[o].items[p].stock + g(p)
                            ELSE NatOf(H[o].items[p].backorder - g(p))
  BY <1>3 DEF Hold
<1>6. \A p \in Products : /\ G[o].items[p]["stock"] = H[o].items[p]["stock"] + g(p)
                          /\ G[o].items[p]["backorder"] = H[o].items[p]["backorder"] - g(p)
  BY <1>1, <1>2, <1>5 DEF NatOf, Kinds
<1>7. ASSUME H[o].status # "committed", NEW p \in Products, NEW k \in Kinds
      PROVE  G[o].items[p][k] = H[o].items[p][k]
  BY <1>1, <1>2, <1>6, <1>7 DEF Kinds
<1> QED BY <1>1, <1>4, <1>6, <1>7 DEF g

(* So it moves as much between an order's kinds as between the counters.    *)
LEMMA ServingKeepsAccount ==
    ASSUME NEW L \in [Products -> Level], NEW H \in [Orders -> Hold], NEW R \in [Orders -> Reserve],
           NEW P \in SUBSET Products, Account(L, H, R), AllMine(H, R)
    PROVE  Account(AllocatedLevels(L, H, P), AllocatedHolds(L, H, P), R)
<1> DEFINE M == AllocatedLevels(L, H, P)
           G == AllocatedHolds(L, H, P)
<1> SUFFICES ASSUME NEW p \in Products, NEW k \in Kinds, M[p].row # "removed"
             PROVE  Counter(M[p], k) = Sum(OwedFor(G, R, p, k))
  BY DEF Account
<1>1. G \in [Orders -> Hold]
  BY AllocatedHoldsType
<1>2. \A o \in Orders : R[o].pc \in Active => H[o].status = "held"
  BY DEF AllMine, Mine
<1> DEFINE f == OwedFor(H, R, p, k)
           h == OwedFor(G, R, p, k)
           g == [o \in Orders |-> Handed(L, H, P, o, p)]
           n == IF p \in P THEN GivenAll(L, H, p) ELSE 0
<1>3. f \in [Orders -> Nat] /\ h \in [Orders -> Nat] /\ IsFiniteSet(Orders)
  BY <1>1, OwedForType, InventoryAssumption
<1>4. g \in [Orders -> Nat] /\ n \in Nat /\ Sum(g) = n
  <2>1. CASE p \in P
    BY <2>1, GivenInAll DEF GivenAll, Handed
  <2>2. CASE p \notin P
    <3>1. g \in [Orders -> Nat] /\ (\A o \in Orders : g[o] = 0) /\ n = 0
      BY <2>2 DEF Handed
    <3> HIDE DEF g
    <3> QED BY <1>3, <3>1, SumZero
  <2> QED BY <2>1, <2>2
<1>5. \A o \in Orders : IF k = "stock" THEN h[o] = f[o] + g[o] ELSE f[o] = h[o] + g[o]
  <2> TAKE o \in Orders
  <2>1. h[o] = Owed(G[o], R[o], p, k) /\ f[o] = Owed(H[o], R[o], p, k)
    BY DEF OwedFor
  <2>2. /\ G[o].status = H[o].status
        /\ g[o] \in Nat
        /\ G[o].items[p]["stock"] = H[o].items[p]["stock"] + g[o]
        /\ G[o].items[p]["backorder"] = H[o].items[p]["backorder"] - g[o]
    BY ServedHold
  <2>3. H[o].status # "committed" => g[o] = 0
    BY GivenBounds DEF Handed
  <2>4. f[o] \in Nat /\ h[o] \in Nat
    BY <1>3
  <2>5. H[o].items[p]["stock"] \in Nat /\ H[o].items[p]["backorder"] \in Nat
    BY DEF Hold, Items, Kinds
  <2> HIDE DEF f, g, h, G
  <2>6. CASE R[o].pc \in Active
    BY <1>2, <2>1, <2>3, <2>4, <2>6 DEF Owed
  <2>7. CASE R[o].pc \notin Active /\ H[o].status \in OpenStatus
    BY <2>1, <2>2, <2>5, <2>7 DEF Owed, Kinds
  <2>8. CASE R[o].pc \notin Active /\ H[o].status \notin OpenStatus
    BY <2>1, <2>2, <2>3, <2>4, <2>8 DEF Owed, OpenStatus
  <2> QED BY <2>6, <2>7, <2>8
<1>6. /\ M[p].row = L[p].row
      /\ Counter(M[p], k) = IF k = "stock" THEN Counter(L[p], k) + n ELSE Counter(L[p], k) - n
  <2>1. CASE p \notin P
    <3>1. M[p] = L[p] /\ n = 0
      BY <2>1 DEF AllocatedLevels
    <3> QED BY <3>1, CounterType
  <2>2. CASE p \in P
    <3>1. M[p] = ApplyDelta(L[p], "allocate", n, "stock") /\ L[p] \in Level
      BY <2>2 DEF AllocatedLevels
    <3>2. L[p].row # "open" => n = 0
      BY <2>2, GivenInAll
    <3> HIDE DEF M, n
    <3>3. Counter(L[p], k) \in Int
      BY <3>1, CounterType
    <3> QED BY <1>4, <3>1, <3>2, <3>3, ServingMoves DEF Kinds
  <2> QED BY <2>1, <2>2
<1>7. Counter(L[p], k) = Sum(f)
  BY <1>6 DEF Account
<1> HIDE DEF f, g, h, n, M, G
<1>8. CASE k = "stock"
  <2>1. Sum(h) = Sum(f) + Sum(g)
    BY <1>3, <1>4, <1>5, <1>8, SumAdd
  <2> QED BY <1>4, <1>6, <1>7, <1>8, <2>1 DEF h
<1>9. CASE k # "stock"
  <2>1. Sum(f) = Sum(h) + Sum(g)
    BY <1>3, <1>4, <1>5, <1>9, SumAdd
  <2>2. Sum(h) \in Nat
    BY <1>3, SumType
  <2> QED BY <1>4, <1>6, <1>7, <1>9, <2>1, <2>2 DEF h
<1> QED BY <1>8, <1>9

-----------------------------------------------------------------------------
(* A step of one order outside transactions. *)

RowsStay(L) == \A p \in Products : L[p].row = levels[p].row /\ (levels[p].row # "open" => L[p] = levels[p])

(* Sums and shares: what one order changes cancels out. *)
Even(c, a, d, b) == c + a = d + b
Shifted(a1, g1, a2, g2) == a2 - g2 = a1 - g1
Net(c, g, w, d) == c + g - w - d

(* If one order's amounts account for all of a step, the totals stay even.  *)
LEMMA Evens ==
    ASSUME NEW c1 \in Int, NEW c2 \in Int, NEW d1 \in Int, NEW d2 \in Int,
           NEW g1 \in Int, NEW g2 \in Int, NEW w1 \in Int, NEW w2 \in Int,
           NEW a1 \in Int, NEW a2 \in Int, NEW b1 \in Int, NEW b2 \in Int,
           Shifted(a1, g1, a2, g2), Shifted(b1, w1, b2, w2), Even(c1, a1, d1, b1),
           Net(c2, g2, w2, d2) = Net(c1, g1, w1, d1)
    PROVE  Even(c2, a2, d2, b2)
BY DEF Shifted, Even, Net

(* What keeps the ledger true of one order's step. *)
RowFor(l, m, r, p, k) ==
    Net(Counter(l, k), Unrecorded(r, "giving", p, k), Unrecorded(r, "recording", p, k), Counter(m, k))
LedgerFollows(o) ==
    /\ shrink' = shrink
    /\ Tidy(rsv[o]) =>
          /\ Tidy(rsv'[o])
          /\ \A p \in Products : levels[p].row # "removed" =>
                /\ levels'[p].onHand - ledger'[p].onHand = levels[p].onHand - ledger[p].onHand
                /\ \A k \in Kinds : RowFor(levels'[p], ledger'[p], rsv'[o], p, k) = RowFor(levels[p], ledger[p], rsv[o], p, k)

(* The rows in flight are a number of units.                                *)
LEMMA InFlightType ==
    ASSUME NEW R \in [Orders -> Reserve], NEW pc, NEW p \in Products, NEW k \in Kinds
    PROVE  InFlight(R, pc, p, k) \in Nat
<1> DEFINE f == [x \in Orders |-> Unrecorded(R[x], pc, p, k)]
<1>1. f \in [Orders -> Nat] /\ IsFiniteSet(Orders)
  BY InventoryAssumption DEF Unrecorded, Reserve, Items
<1> HIDE DEF f
<1>2. Sum(f) \in Nat
  BY <1>1, SumType
<1> QED BY <1>2 DEF f, InFlight

(* The rows in flight change by what the one moving reserve changes.        *)
LEMMA InFlightChange ==
    ASSUME NEW R \in [Orders -> Reserve], NEW S \in [Orders -> Reserve], NEW o \in Orders,
           \A x \in Orders \ {o} : S[x] = R[x], NEW pc, NEW p \in Products, NEW k \in Kinds
    PROVE  /\ InFlight(R, pc, p, k) \in Nat /\ InFlight(S, pc, p, k) \in Nat
           /\ InFlight(S, pc, p, k) - Unrecorded(S[o], pc, p, k)
                = InFlight(R, pc, p, k) - Unrecorded(R[o], pc, p, k)
<1> DEFINE f == [x \in Orders |-> Unrecorded(R[x], pc, p, k)]
           g == [x \in Orders |-> Unrecorded(S[x], pc, p, k)]
<1>1. f \in [Orders -> Nat] /\ g \in [Orders -> Nat] /\ IsFiniteSet(Orders)
  BY InventoryAssumption DEF Unrecorded, Reserve, Items
<1>2. \A x \in Orders \ {o} : g[x] = f[x]
  OBVIOUS
<1>3. f[o] = Unrecorded(R[o], pc, p, k) /\ g[o] = Unrecorded(S[o], pc, p, k)
  OBVIOUS
<1>4. InFlight(R, pc, p, k) = Sum(f) /\ InFlight(S, pc, p, k) = Sum(g)
  BY DEF InFlight
<1> HIDE DEF f, g
<1>5. Sum(g) - g[o] = Sum(f) - f[o]
  BY <1>1, <1>2, SumChange
<1>6. Sum(f) \in Nat /\ Sum(g) \in Nat
  BY <1>1, SumType
<1> QED BY <1>3, <1>4, <1>5, <1>6

(* One order's step keeps the ledger true if its own row does.              *)
LEMMA WrittenFollows ==
    ASSUME Inv, Inv', NEW o \in Orders, \A x \in Orders \ {o} : rsv'[x] = rsv[x],
           RowsStay(levels'), LedgerFollows(o), Written
    PROVE  Written'
<1>1. Tidy(rsv[o]) /\ Tidy(rsv'[o])
  BY DEF Written, LedgerFollows
<1>2. \A x \in Orders : Tidy(rsv'[x])
  BY <1>1 DEF Written
<1>3. ASSUME NEW p \in Products, levels'[p].row # "removed"
      PROVE  /\ levels'[p].onHand + shrink'[p] = ledger'[p].onHand
             /\ \A k \in Kinds : Counter(levels'[p], k) + InFlight(rsv', "giving", p, k)
                                   = Counter(ledger'[p], k) + InFlight(rsv', "recording", p, k)
  <2>1. levels[p].row # "removed" /\ shrink' = shrink
    BY <1>3 DEF LedgerFollows, RowsStay
  <2>2. /\ levels'[p].onHand - ledger'[p].onHand = levels[p].onHand - ledger[p].onHand
        /\ levels[p].onHand + shrink[p] = ledger[p].onHand
    BY <1>1, <2>1 DEF LedgerFollows, Written, Replays
  <2>3. /\ levels[p].onHand \in Int /\ levels'[p].onHand \in Int /\ shrink[p] \in Int
        /\ ledger[p].onHand \in Int /\ ledger'[p].onHand \in Int
    BY DEF Inv, TypeOK, Level, Movement
  <2>4. ASSUME NEW k \in Kinds
        PROVE  Counter(levels'[p], k) + InFlight(rsv', "giving", p, k)
                 = Counter(ledger'[p], k) + InFlight(rsv', "recording", p, k)
    <3>1. rsv \in [Orders -> Reserve] /\ rsv' \in [Orders -> Reserve]
      BY DEF Inv, TypeOK
    <3>2. /\ InFlight(rsv, "giving", p, k) \in Int /\ InFlight(rsv', "giving", p, k) \in Int
          /\ Shifted(InFlight(rsv, "giving", p, k), Unrecorded(rsv[o], "giving", p, k),
                     InFlight(rsv', "giving", p, k), Unrecorded(rsv'[o], "giving", p, k))
      BY <3>1, InFlightChange DEF Shifted
    <3>3. /\ InFlight(rsv, "recording", p, k) \in Int /\ InFlight(rsv', "recording", p, k) \in Int
          /\ Shifted(InFlight(rsv, "recording", p, k), Unrecorded(rsv[o], "recording", p, k),
                     InFlight(rsv', "recording", p, k), Unrecorded(rsv'[o], "recording", p, k))
      BY <3>1, InFlightChange DEF Shifted
    <3>4. /\ Counter(levels[p], k) \in Int /\ Counter(levels'[p], k) \in Int
          /\ Counter(ledger[p], k) \in Int /\ Counter(ledger'[p], k) \in Int
      BY DEF Inv, TypeOK, Level, Movement, Counter
    <3>5. /\ Unrecorded(rsv[o], "giving", p, k) \in Int /\ Unrecorded(rsv'[o], "giving", p, k) \in Int
          /\ Unrecorded(rsv[o], "recording", p, k) \in Int /\ Unrecorded(rsv'[o], "recording", p, k) \in Int
      BY <3>1 DEF Unrecorded, Reserve, Items
    <3>6. Even(Counter(levels[p], k), InFlight(rsv, "giving", p, k),
               Counter(ledger[p], k), InFlight(rsv, "recording", p, k))
      BY <2>1 DEF Written, Replays, Even
    <3>7. Net(Counter(levels'[p], k), Unrecorded(rsv'[o], "giving", p, k),
              Unrecorded(rsv'[o], "recording", p, k), Counter(ledger'[p], k))
            = Net(Counter(levels[p], k), Unrecorded(rsv[o], "giving", p, k),
                  Unrecorded(rsv[o], "recording", p, k), Counter(ledger[p], k))
      BY <1>1, <2>1 DEF LedgerFollows, RowFor
    <3>8. Even(Counter(levels'[p], k), InFlight(rsv', "giving", p, k),
               Counter(ledger'[p], k), InFlight(rsv', "recording", p, k))
      BY <3>2, <3>3, <3>4, <3>5, <3>6, <3>7, Evens
    <3> QED BY <3>8 DEF Even
  <2>5. levels'[p].onHand + shrink'[p] = ledger'[p].onHand
    BY <2>1, <2>2, <2>3
  <2> QED BY <2>4, <2>5
<1> QED BY <1>2, <1>3 DEF Written, Replays

(* What keeps the queue served: fewer units to sell, nobody new waits. *)
QueueFollows(o) ==
    /\ AtOnce(rsv[o]) /\ OneLine =>
          /\ AtOnce(rsv'[o])
          /\ \A p \in Products : levels[p].row = "open" => levels'[p].available <= levels[p].available
    /\ \A p \in Products : Waiting(holds', o, p) > 0 => Waiting(holds, o, p) > 0
    /\ holds'[o].status # "committed" \/ \A p \in Products : holds'[o].items[p].stock <= holds[o].items[p].stock

(* One order's step keeps the queue served if it puts nothing on sale and   *)
(* nobody new in it.                                                        *)
LEMMA LinedFollows ==
    ASSUME Inv, Inv', NEW o \in Orders, \A x \in Orders \ {o} : holds'[x] = holds[x] /\ rsv'[x] = rsv[x],
           RowsStay(levels'), QueueFollows(o), OneLine, Lined
    PROVE  Lined' /\ InTurn
<1>1. \A x \in Orders : AtOnce(rsv'[x])
  BY DEF Lined, QueueFollows
<1>2. ASSUME NEW p \in Products, levels'[p].row = "open", NEW x \in Orders, Waiting(holds', x, p) # 0
      PROVE  levels'[p].available = 0
  <2>1. Waiting(holds', x, p) \in Nat
    BY WaitingType DEF Inv, TypeOK
  <2>2. Waiting(holds, x, p) # 0
    <3>1. CASE x = o
      BY <1>2, <2>1, <3>1 DEF QueueFollows
    <3>2. CASE x # o
      BY <1>2, <3>2 DEF Waiting
    <3> QED BY <3>1, <3>2
  <2>3. levels[p].row = "open" /\ levels[p].available = 0
    BY <1>2, <2>2 DEF Lined, NobodyWaits, RowsStay
  <2>4. levels'[p].available <= 0 /\ levels'[p].available >= 0 /\ levels'[p].available \in Int
    BY <2>3 DEF Lined, QueueFollows, Inv, TypeOK, NeverOversold, Balanced, Level
  <2> QED BY <2>4
<1>3. InTurn
  <2> SUFFICES ASSUME NEW p \in Products, NEW b \in Orders, holds'[b].status = "committed",
                      holds'[b].items[p].stock > holds[b].items[p].stock
               PROVE  FALSE
    BY DEF InTurn
  <2>1. holds'[b].items[p].stock \in Nat /\ holds[b].items[p].stock \in Nat
    BY DEF Inv, TypeOK, Hold, Items, Kinds
  <2>2. b = o
    BY <2>1
  <2> QED BY <2>1, <2>2 DEF QueueFollows
<1> QED BY <1>1, <1>2, <1>3 DEF Lined, NobodyWaits

(* All three together. *)
LEMMA OneOrderGoes ==
    ASSUME Inv, Inv', Kept, NEW o \in Orders,
           \A x \in Orders \ {o} : holds'[x] = holds[x] /\ rsv'[x] = rsv[x],
           RowsStay(levels'),
           \A p \in Products, k \in Kinds : levels[p].row # "removed" =>
               Counter(levels'[p], k) + Owed(holds[o], rsv[o], p, k)
                 = Counter(levels[p], k) + Owed(holds'[o], rsv'[o], p, k),
           Mine(holds'[o], rsv'[o]), LedgerFollows(o), QueueFollows(o)
    PROVE  Goes
<1>1. /\ levels \in [Products -> Level] /\ levels' \in [Products -> Level]
      /\ holds \in [Orders -> Hold] /\ holds' \in [Orders -> Hold]
      /\ rsv \in [Orders -> Reserve] /\ rsv' \in [Orders -> Reserve]
  BY DEF Inv, TypeOK
<1>2. \A p \in Products : levels'[p].row = levels[p].row
  BY DEF RowsStay
<1>3. Account(levels', holds', rsv')
  <2>1. Account(levels, holds, rsv)
    BY DEF Kept
  <2>2. \A p \in Products : levels'[p].row # "removed" => levels[p].row # "removed"
    BY <1>2
  <2>3. \A p \in Products, k \in Kinds : levels'[p].row # "removed" =>
          Counter(levels'[p], k) + Owed(holds[o], rsv[o], p, k)
            = Counter(levels[p], k) + Owed(holds'[o], rsv'[o], p, k)
    BY <1>2
  <2> QED BY <1>1, <2>1, <2>2, <2>3, OneOrderMoves
<1>4. AllMine(holds', rsv')
  BY DEF Kept, AllMine
<1>5. Unopened(levels')
  BY DEF Kept, Unopened, RowsStay
<1> QED BY <1>2, <1>3, <1>4, <1>5, WrittenFollows, LinedFollows DEF Goes, Kept

-----------------------------------------------------------------------------
(* The queue: who paid first is served first, and until nothing is left.    *)

AheadOf(H, o, p) == [x \in Orders |-> IF H[x].committedAt < H[o].committedAt THEN Waiting(H, x, p) ELSE 0]

(* What the walk down the queue hands to an order, spelled out.             *)
LEMMA GivenIs ==
    ASSUME NEW L \in [Products -> Level], NEW H \in [Orders -> Hold], NEW o \in Orders, NEW p \in Products
    PROVE  /\ AheadOf(H, o, p) \in [Orders -> Nat] /\ Sum(AheadOf(H, o, p)) \in Nat
           /\ Waiting(H, o, p) \in Nat /\ Free(L, p) \in Int
           /\ Given(L, H, o, p) = Smaller(NatOf(Free(L, p) - Sum(AheadOf(H, o, p))), Waiting(H, o, p))
<1>1. AheadOf(H, o, p) \in [Orders -> Nat]
  BY WaitingType DEF AheadOf
<1>2. Sum(AheadOf(H, o, p)) \in Nat
  BY <1>1, SumType, InventoryAssumption
<1>3. Waiting(H, o, p) \in Nat /\ Free(L, p) \in Int
  BY WaitingType DEF Free, Level
<1> QED BY <1>1, <1>2, <1>3 DEF Given, WaitingAhead, AheadOf

(* One entry more. *)
LEMMA SumWith ==
    ASSUME NEW f \in [Orders -> Nat], NEW g \in [Orders -> Nat], NEW o \in Orders, NEW n \in Nat,
           f[o] + n <= g[o], \A x \in Orders \ {o} : f[x] <= g[x]
    PROVE  Sum(f) + n <= Sum(g) /\ Sum(f) \in Nat /\ Sum(g) \in Nat
<1> DEFINE one == [x \in Orders |-> IF x = o THEN n ELSE 0]
           h == [x \in Orders |-> f[x] + one[x]]
<1>1. IsFiniteSet(Orders)
  BY InventoryAssumption
<1>2. /\ one \in [Orders -> Nat] /\ one[o] = n /\ \A x \in Orders \ {o} : one[x] = 0
      /\ h \in [Orders -> Nat] /\ \A x \in Orders : h[x] = f[x] + one[x]
  OBVIOUS
<1> HIDE DEF one, h
<1>3. Sum(one) = n
  BY <1>1, <1>2, SumOne
<1>4. Sum(h) = Sum(f) + Sum(one)
  BY <1>1, <1>2, SumAdd
<1>5. \A x \in Orders : h[x] <= g[x]
  BY <1>2
<1>6. Sum(h) <= Sum(g)
  BY <1>1, <1>2, <1>5, SumMonotone
<1>7. Sum(f) \in Nat /\ Sum(g) \in Nat
  BY <1>1, SumType
<1> QED BY <1>3, <1>4, <1>6, <1>7

(* An order is given something only once those ahead have all they wait for. *)
LEMMA EarlierServed ==
    ASSUME NEW L \in [Products -> Level], NEW H \in [Orders -> Hold], NEW p \in Products,
           NEW a \in Orders, NEW b \in Orders, H[a].committedAt < H[b].committedAt, Given(L, H, b, p) > 0
    PROVE  Given(L, H, a, p) = Waiting(H, a, p)
<1> DEFINE f == AheadOf(H, a, p)
           g == AheadOf(H, b, p)
<1>1. \A x \in Orders : H[x].committedAt \in Nat /\ Waiting(H, x, p) \in Nat
  BY WaitingType DEF Hold
<1>2. f[a] = 0 /\ g[a] = Waiting(H, a, p)
  BY <1>1 DEF AheadOf
<1>3. \A x \in Orders \ {a} : f[x] <= g[x]
  BY <1>1 DEF AheadOf
<1>4. f \in [Orders -> Nat] /\ g \in [Orders -> Nat]
  BY GivenIs
<1>5. /\ Free(L, p) \in Int
      /\ Given(L, H, a, p) = Smaller(NatOf(Free(L, p) - Sum(f)), Waiting(H, a, p))
      /\ Given(L, H, b, p) = Smaller(NatOf(Free(L, p) - Sum(g)), Waiting(H, b, p))
  BY GivenIs
<1> HIDE DEF f, g
<1>6. Sum(f) + Waiting(H, a, p) <= Sum(g) /\ Sum(f) \in Nat /\ Sum(g) \in Nat
  BY <1>1, <1>2, <1>3, <1>4, SumWith
<1> DEFINE free == Free(L, p)
           wait == Waiting(H, a, p)
           late == Waiting(H, b, p)
<1>7. free \in Int /\ wait \in Nat /\ late \in Nat /\ Sum(f) + wait <= Sum(g)
  BY <1>1, <1>5, <1>6
<1>8. Smaller(NatOf(free - Sum(g)), late) > 0
  BY <1>5
<1> HIDE DEF free, wait, late
<1>9. free - Sum(g) > 0
  BY <1>6, <1>7, <1>8 DEF Smaller, NatOf
<1>10. Smaller(NatOf(free - Sum(f)), wait) = wait
  BY <1>6, <1>7, <1>9 DEF Smaller, NatOf
<1> QED BY <1>5, <1>10 DEF free, wait

(* As long as somebody still waits, all that is free has been handed out.   *)
LEMMA FreeIsGiven ==
    ASSUME NEW L \in [Products -> Level], NEW H \in [Orders -> Hold], NEW p \in Products,
           NEW o \in Orders, Given(L, H, o, p) < Waiting(H, o, p)
    PROVE  Free(L, p) <= GivenAll(L, H, p)
<1> DEFINE Late == {x \in Orders : Given(L, H, x, p) < Waiting(H, x, p)}
           T == {H[x].committedAt : x \in Late}
<1>1. \A x \in Orders : H[x].committedAt \in Nat /\ Waiting(H, x, p) \in Nat /\ Given(L, H, x, p) \in Nat
  BY WaitingType, GivenType DEF Hold
<1>2. PICK m \in T : \A n \in T : m <= n
  <2>1. T \in SUBSET Nat /\ T # {}
    BY <1>1
  <2> HIDE DEF T
  <2> QED BY <2>1, Least
<1>3. PICK x \in Late : H[x].committedAt = m
  BY <1>2
<1>4. \A y \in Orders : H[y].committedAt < H[x].committedAt => Given(L, H, y, p) = Waiting(H, y, p)
  <2> SUFFICES ASSUME NEW y \in Orders, H[y].committedAt < H[x].committedAt
               PROVE  Given(L, H, y, p) = Waiting(H, y, p)
    OBVIOUS
  <2>1. y \notin Late
    <3> SUFFICES ASSUME y \in Late PROVE FALSE
      OBVIOUS
    <3>1. H[y].committedAt \in T
      OBVIOUS
    <3>2. m <= H[y].committedAt
      BY <1>2, <3>1
    <3>3. x \in Orders /\ H[x].committedAt = m
      BY <1>3
    <3> HIDE DEF T, Late
    <3>4. H[y].committedAt \in Nat /\ H[x].committedAt \in Nat
      BY <1>1, <3>3
    <3> QED BY <3>2, <3>3, <3>4
  <2>2. Given(L, H, y, p) <= Waiting(H, y, p)
    BY GivenBounds
  <2> QED BY <1>1, <2>1, <2>2
<1> DEFINE f == AheadOf(H, x, p)
           g == [y \in Orders |-> Given(L, H, y, p)]
           given == Given(L, H, x, p)
           wait == Waiting(H, x, p)
           free == Free(L, p)
<1>5. f \in [Orders -> Nat] /\ g \in [Orders -> Nat] /\ given \in Nat /\ GivenAll(L, H, p) = Sum(g)
  BY <1>1, GivenIs DEF GivenAll
<1>6. f[x] + given <= g[x] /\ \A y \in Orders \ {x} : f[y] <= g[y]
  <2>1. f[x] = 0 /\ g[x] = given
    BY <1>1 DEF AheadOf
  <2>2. ASSUME NEW y \in Orders \ {x} PROVE f[y] <= g[y]
    BY <1>1, <1>4 DEF AheadOf
  <2> HIDE DEF f, g, given
  <2> QED BY <1>5, <2>1, <2>2
<1>7. /\ free \in Int /\ wait \in Nat /\ given < wait
      /\ given = Smaller(NatOf(free - Sum(f)), wait)
  BY <1>1, GivenIs
<1> HIDE DEF f, g, given, wait, free
<1>8. Sum(f) + given <= Sum(g) /\ Sum(f) \in Nat /\ Sum(g) \in Nat
  BY <1>5, <1>6, SumWith
<1>9. given = NatOf(free - Sum(f))
  BY <1>5, <1>7, <1>8 DEF Smaller, NatOf
<1>10. free <= Sum(f) + given
  BY <1>5, <1>7, <1>8, <1>9 DEF NatOf
<1>11. free <= Sum(g)
  BY <1>5, <1>7, <1>8, <1>10
<1> QED BY <1>5, <1>11 DEF free

(* So no unit of a served product is for sale while somebody waits. *)
LEMMA ServingEmpties ==
    ASSUME NEW L, LevelsOK(L), NEW H \in [Orders -> Hold], NEW R \in [Orders -> Reserve],
           NEW P \in SUBSET Products, AllocateAllowed(L, H, P), Account(L, H, R), AllMine(H, R),
           NEW p \in P, L[p].row = "open", NEW o \in Orders, Waiting(AllocatedHolds(L, H, P), o, p) # 0
    PROVE  AllocatedLevels(L, H, P)[p].available = 0
<1> DEFINE G == AllocatedHolds(L, H, P)
           M == AllocatedLevels(L, H, P)
           n == GivenAll(L, H, p)
<1>1. L \in [Products -> Level] /\ Balanced(L[p]) /\ L[p] \in Level
  BY DEF LevelsOK
<1>2. /\ G[o].status = H[o].status
      /\ G[o].items[p]["backorder"] = H[o].items[p]["backorder"] - Given(L, H, o, p)
  BY <1>1, ServedHold DEF Handed
<1>3. H[o].items[p].backorder \in Nat /\ Given(L, H, o, p) \in Nat /\ Given(L, H, o, p) <= Waiting(H, o, p)
  <2>1. H[o].items[p].backorder \in Nat
    BY DEF Hold, Items, Kinds
  <2> QED BY <1>1, <2>1, GivenType, GivenBounds
<1>4. H[o].status = "committed" /\ Given(L, H, o, p) < Waiting(H, o, p)
  BY <1>2, <1>3 DEF Waiting
<1>5. L[p].backordered > 0
  <2>1. Owed(H[o], R[o], p, "backorder") = H[o].items[p]["backorder"]
    BY <1>4 DEF AllMine, Mine, Owed, OpenStatus
  <2>2. Owed(H[o], R[o], p, "backorder") <= Counter(L[p], "backorder")
    BY OwedIsCovered DEF Kinds
  <2>3. Counter(L[p], "backorder") = L[p].backordered /\ L[p].backordered \in Int
    BY <1>1 DEF Counter, Level
  <2>4. H[o].items[p]["backorder"] > 0
    BY <1>3, <1>4 DEF Waiting
  <2> QED BY <1>3, <2>1, <2>2, <2>3, <2>4
<1>6. L[p].available \in Nat
  BY <1>1 DEF Balanced, Level
<1>7. L[p].available <= n /\ n \in Nat
  <2>1. Free(L, p) = L[p].available
    BY <1>5, <1>6 DEF Free
  <2> QED BY <1>1, <1>4, <2>1, FreeIsGiven, GivenInAll
<1>8. M[p].available = L[p].available - n
  <2>1. M[p] = ApplyDelta(L[p], "allocate", n, "stock")
    BY DEF AllocatedLevels
  <2> HIDE DEF n, M
  <2> QED BY <1>1, <1>7, <2>1, ServingMoves
<1>9. LevelsOK(M)
  BY AllocatedLevelsOK
<1>10. M[p].available >= 0
  <2> HIDE DEF M
  <2> QED BY <1>9 DEF LevelsOK, Balanced
<1> HIDE DEF n, M
<1>11. M[p].available = 0
  BY <1>6, <1>7, <1>8, <1>10
<1> QED BY <1>11 DEF M

(* Who got some of a claim in a walk paid before all who still wait. *)
LEMMA ServedInTurn ==
    ASSUME NEW L \in [Products -> Level], NEW H \in [Orders -> Hold], NEW P \in SUBSET Products,
           NEW G, G = AllocatedHolds(L, H, P), NEW p \in Products, NEW a \in Orders, NEW b \in Orders,
           G[b].items[p]["stock"] > H[b].items[p]["stock"], G[a].committedAt < G[b].committedAt
    PROVE  Waiting(G, a, p) = 0
<1>1. /\ G[b].items[p]["stock"] = H[b].items[p]["stock"] + Handed(L, H, P, b, p)
      /\ Handed(L, H, P, b, p) \in Nat
      /\ G[a].committedAt = H[a].committedAt /\ G[b].committedAt = H[b].committedAt
      /\ G[a].status = H[a].status
      /\ G[a].items[p]["backorder"] = H[a].items[p]["backorder"] - Handed(L, H, P, a, p)
  BY ServedHold
<1>2. H[b].items[p]["stock"] \in Nat /\ H[a].items[p]["backorder"] \in Nat
  BY DEF Hold, Items, Kinds
<1>3. Handed(L, H, P, b, p) > 0
  BY <1>1, <1>2
<1>4. p \in P /\ Given(L, H, b, p) > 0
  BY <1>3 DEF Handed
<1>5. Given(L, H, a, p) = Waiting(H, a, p)
  BY <1>1, <1>4, EarlierServed
<1>6. Handed(L, H, P, a, p) = Waiting(H, a, p)
  BY <1>4, <1>5 DEF Handed
<1> QED BY <1>1, <1>2, <1>6 DEF Waiting

-----------------------------------------------------------------------------
(* A transaction: it leaves counters L and holds H, serves P and records.   *)

RowsFollow(L) == \A p \in Products : L[p].row # "removed" => levels[p].row # "removed"
Recovers(L, H) == Account(L, H, rsv) /\ AllMine(H, rsv) /\ Unopened(L) /\ RowsFollow(L)

(* What is not served has no more to sell and nobody new waiting for it;    *)
(* only serving raises a hold's shelf units.                                *)
QueueLeft(L, H, P) ==
    /\ \A p \in Products \ P : L[p].row = "open" =>
          /\ levels[p].row = "open" /\ L[p].available <= levels[p].available
          /\ \A o \in Orders : Waiting(H, o, p) > 0 => Waiting(holds, o, p) > 0
    /\ \A o \in Orders, p \in Products : H[o].items[p]["stock"] <= holds[o].items[p]["stock"]

(* Serving moves the counters of an open row only. *)
LEMMA AllocatedRows ==
    ASSUME NEW L \in [Products -> Level], NEW H \in [Orders -> Hold], NEW P \in SUBSET Products,
           NEW p \in Products
    PROVE  /\ AllocatedLevels(L, H, P)[p].row = L[p].row
           /\ L[p].row # "open" => AllocatedLevels(L, H, P)[p] = L[p]
           /\ p \notin P => AllocatedLevels(L, H, P)[p] = L[p]
<1> DEFINE n == GivenAll(L, H, p)
           m == ApplyDelta(L[p], "allocate", n, "stock")
<1>1. AllocatedLevels(L, H, P)[p] = IF p \in P THEN m ELSE L[p]
  BY DEF AllocatedLevels
<1>2. n \in Nat
  BY GivenInAll
<1> HIDE DEF n
<1>3. m.row = L[p].row /\ (L[p].row # "open" => m = L[p])
  BY <1>2, ServingMoves
<1> HIDE DEF m
<1>4. CASE p \in P
  BY <1>1, <1>3, <1>4
<1>5. CASE p \notin P
  BY <1>1, <1>5
<1> QED BY <1>4, <1>5

(* The hold of a reserve under way is not served. *)
LEMMA ServingKeepsMine ==
    ASSUME NEW L \in [Products -> Level], NEW H \in [Orders -> Hold], NEW R \in [Orders -> Reserve],
           NEW P \in SUBSET Products, AllMine(H, R)
    PROVE  AllMine(AllocatedHolds(L, H, P), R)
<1> DEFINE G == AllocatedHolds(L, H, P)
<1> SUFFICES ASSUME NEW o \in Orders PROVE Mine(G[o], R[o])
  BY DEF AllMine
<1>1. Mine(H[o], R[o])
  BY DEF AllMine
<1>2. /\ G[o].status = H[o].status /\ G[o].due = H[o].due
      /\ H[o].status # "committed" => \A p \in Products, k \in Kinds : G[o].items[p][k] = H[o].items[p][k]
  BY ServedHold
<1>3. R[o].pc \in Active => \A p \in Products, k \in Kinds : Owed(G[o], R[o], p, k) = Owed(H[o], R[o], p, k)
  BY DEF Owed
<1> HIDE DEF G
<1>4. R[o].pc \in Active => G[o].status = "held" /\ ~ G[o].due
  BY <1>1, <1>2 DEF Mine
<1>5. ASSUME R[o].pc \in {"taking", "recording"}, NEW p \in Products, NEW k \in Kinds
      PROVE  IF p \in R[o].todo
             THEN Owed(G[o], R[o], p, k) = 0 /\ G[o].items[p][k] = ItemsOf(R[o].request)[p][k]
             ELSE G[o].items[p][k] = Owed(G[o], R[o], p, k)
  <2>1. R[o].pc \in Active
    BY <1>5 DEF Active
  <2>2. G[o].items[p][k] = H[o].items[p][k] /\ Owed(G[o], R[o], p, k) = Owed(H[o], R[o], p, k)
    BY <1>1, <1>2, <1>3, <2>1 DEF Mine
  <2> QED BY <1>1, <1>5, <2>2 DEF Mine
<1> QED BY <1>4, <1>5 DEF Mine

(* A transaction keeps all of it if its own writes, before the queue is     *)
(* served, keep the accounts and leave only served products on sale.        *)
LEMMA TransactionGoes ==
    ASSUME Inv, Inv', NEW L, LevelsOK(L), NEW H \in [Orders -> Hold], NEW P \in SUBSET Products,
           ServeAndRecord(L, H, P), rsv' = rsv, shrink' = shrink, Recovers(L, H), QueueLeft(L, H, P)
    PROVE  Goes
<1> DEFINE M == AllocatedLevels(L, H, P)
           G == AllocatedHolds(L, H, P)
<1>1. /\ levels' = M /\ holds' = G /\ ledger' = Recorded(levels, M)
      /\ AllocateAllowed(L, H, P)
  BY DEF ServeAndRecord
<1>2. /\ L \in [Products -> Level] /\ rsv \in [Orders -> Reserve]
      /\ Account(L, H, rsv) /\ AllMine(H, rsv) /\ Unopened(L) /\ RowsFollow(L)
  BY DEF LevelsOK, Recovers, Inv, TypeOK
<1>3. \A p \in Products : /\ M[p].row = L[p].row
                          /\ L[p].row # "open" => M[p] = L[p]
                          /\ p \notin P => M[p] = L[p]
  BY <1>2, AllocatedRows
<1>4. Kept'
  <2>1. Account(M, G, rsv) /\ AllMine(G, rsv)
    BY <1>2, ServingKeepsAccount, ServingKeepsMine
  <2>2. Unopened(M)
    <3> HIDE DEF M
    <3> QED BY <1>2, <1>3 DEF Unopened
  <2> HIDE DEF M, G
  <2> QED BY <1>1, <2>1, <2>2 DEF Kept
<1> HIDE DEF M, G
<1>5. ASSUME Written PROVE Written'
  <2>1. ASSUME NEW p \in Products, levels'[p].row # "removed"
        PROVE  /\ levels'[p].onHand + shrink'[p] = ledger'[p].onHand
               /\ \A k \in Kinds : Counter(levels'[p], k) + InFlight(rsv', "giving", p, k)
                                     = Counter(ledger'[p], k) + InFlight(rsv', "recording", p, k)
    <3>1. levels[p].row # "removed"
      BY <1>1, <1>2, <1>3, <2>1 DEF RowsFollow
    <3>2. /\ ledger'[p].onHand = ledger[p].onHand + levels'[p].onHand - levels[p].onHand
          /\ \A k \in Kinds : Counter(ledger'[p], k) = Counter(ledger[p], k) + Counter(levels'[p], k) - Counter(levels[p], k)
      BY <1>1 DEF Recorded, Counter
    <3>3. /\ levels[p].onHand \in Int /\ levels'[p].onHand \in Int /\ shrink[p] \in Int /\ ledger[p].onHand \in Int
          /\ \A k \in Kinds : /\ Counter(levels[p], k) \in Int /\ Counter(levels'[p], k) \in Int
                              /\ Counter(ledger[p], k) \in Int
      BY DEF Inv, TypeOK, Level, Movement, Counter
    <3>4. /\ levels[p].onHand + shrink[p] = ledger[p].onHand
          /\ \A k \in Kinds : Counter(levels[p], k) + InFlight(rsv, "giving", p, k)
                                = Counter(ledger[p], k) + InFlight(rsv, "recording", p, k)
      BY <1>5, <3>1 DEF Written, Replays
    <3>5. \A k \in Kinds : InFlight(rsv, "giving", p, k) \in Int /\ InFlight(rsv, "recording", p, k) \in Int
      BY <1>2, InFlightType
    <3>6. levels'[p].onHand + shrink'[p] = ledger'[p].onHand
      BY <3>2, <3>3, <3>4
    <3>7. ASSUME NEW k \in Kinds
          PROVE  Counter(levels'[p], k) + InFlight(rsv', "giving", p, k)
                   = Counter(ledger'[p], k) + InFlight(rsv', "recording", p, k)
      <4>1. /\ Counter(levels[p], k) \in Int /\ Counter(levels'[p], k) \in Int /\ Counter(ledger[p], k) \in Int
            /\ InFlight(rsv, "giving", p, k) \in Int /\ InFlight(rsv, "recording", p, k) \in Int
            /\ Counter(levels[p], k) + InFlight(rsv, "giving", p, k)
                 = Counter(ledger[p], k) + InFlight(rsv, "recording", p, k)
            /\ Counter(ledger'[p], k) = Counter(ledger[p], k) + Counter(levels'[p], k) - Counter(levels[p], k)
        BY <3>2, <3>3, <3>4, <3>5
      <4>2. InFlight(rsv', "giving", p, k) = InFlight(rsv, "giving", p, k)
            /\ InFlight(rsv', "recording", p, k) = InFlight(rsv, "recording", p, k)
        OBVIOUS
      <4> HIDE <1>1, <1>3
      <4> QED BY <4>1, <4>2
    <3> QED BY <3>6, <3>7
  <2>2. \A o \in Orders : Tidy(rsv'[o])
    BY <1>5 DEF Written
  <2> QED BY <2>1, <2>2 DEF Written, Replays
<1>6. ASSUME OneLine, Lined PROVE Lined' /\ InTurn
  <2>1. ASSUME NEW p \in Products, levels'[p].row = "open", NEW o \in Orders, Waiting(holds', o, p) # 0
        PROVE  levels'[p].available = 0
    <3>1. L[p].row = "open"
      BY <1>1, <1>3, <2>1
    <3>2. CASE p \in P
      <4>1. Waiting(AllocatedHolds(L, H, P), o, p) # 0
        BY <1>1, <2>1 DEF G
      <4>2. AllocatedLevels(L, H, P)[p].available = 0
        BY <1>1, <1>2, <3>1, <3>2, <4>1, ServingEmpties
      <4> QED BY <1>1, <4>2 DEF M
    <3>3. CASE p \notin P
      <4>1. levels' [p] = L[p] /\ levels[p].row = "open" /\ L[p].available <= levels[p].available
        BY <1>1, <1>3, <3>1, <3>3 DEF QueueLeft
      <4>2. Waiting(H, o, p) = Waiting(holds', o, p) /\ Waiting(H, o, p) \in Nat
        <5>1. /\ holds'[o].status = H[o].status
              /\ holds'[o].items[p]["backorder"] = H[o].items[p]["backorder"] - Handed(L, H, P, o, p)
          BY <1>1, <1>2, ServedHold DEF G
        <5>2. Handed(L, H, P, o, p) = 0 /\ H[o].items[p]["backorder"] \in Nat
          BY <3>3 DEF Handed, Hold, Items, Kinds
        <5>3. Waiting(H, o, p) \in Nat
          BY WaitingType
        <5> QED BY <5>1, <5>2, <5>3 DEF Waiting
      <4>3. Waiting(holds, o, p) > 0
        BY <2>1, <3>1, <3>3, <4>2 DEF QueueLeft
      <4>4. levels[p].available = 0
        BY <1>6, <4>1, <4>3 DEF Lined, NobodyWaits
      <4>5. levels'[p].available >= 0 /\ levels'[p].available \in Int
        BY DEF Inv, TypeOK, NeverOversold, Balanced, Level
      <4> QED BY <4>1, <4>4, <4>5
    <3> QED BY <3>2, <3>3
  <2>2. \A o \in Orders : AtOnce(rsv'[o])
    BY <1>6 DEF Lined
  <2>3. InTurn
    <3> SUFFICES ASSUME NEW p \in Products, NEW a \in Orders, NEW b \in Orders,
                        holds'[b].items[p].stock > holds[b].items[p].stock,
                        holds'[a].committedAt < holds'[b].committedAt
                 PROVE  Waiting(holds', a, p) = 0
      BY DEF InTurn
    <3>1. H[b].items[p]["stock"] <= holds[b].items[p]["stock"]
      BY DEF QueueLeft
    <3>2. /\ H[b].items[p]["stock"] \in Nat /\ holds[b].items[p]["stock"] \in Nat
          /\ holds'[b].items[p]["stock"] \in Nat
      BY DEF Inv, TypeOK, Hold, Items, Kinds
    <3>3. holds'[b].items[p]["stock"] > H[b].items[p]["stock"]
      BY <3>1, <3>2
    <3>4. holds' = AllocatedHolds(L, H, P)
      BY <1>1 DEF G
    <3> QED BY <1>2, <3>3, <3>4, ServedInTurn
  <2> QED BY <2>1, <2>2, <2>3 DEF Lined, NobodyWaits
<1>7. Written => Written'
  BY <1>5
<1>8. OneLine /\ Lined => Lined' /\ InTurn
  BY <1>6
<1> QED BY <1>4, <1>7, <1>8 DEF Goes

-----------------------------------------------------------------------------
(* The writes of a reserve. *)

(* The amounts a step of order o reads.                                     *)
LEMMA AmountTypes ==
    ASSUME Inv, NEW o \in Orders, NEW p \in Products, NEW k \in Kinds
    PROVE  /\ rsv[o].taken[p][k] \in Nat /\ rsv[o].unwritten[p][k] \in Nat /\ holds[o].items[p][k] \in Nat
           /\ Counter(levels[p], k) \in Int /\ Counter(ledger[p], k) \in Int
           /\ levels[p].onHand \in Int /\ ledger[p].onHand \in Int
           /\ levels[p].available \in Nat
BY DEF Inv, TypeOK, NeverOversold, Balanced, Reserve, Hold, Items, Level, Movement, Counter

(* What a reserve in each phase is owed. *)
LEMMA OwedIs ==
    ASSUME NEW hold, NEW r \in Reserve, NEW p \in Products, NEW k \in Kinds
    PROVE  /\ r.pc \in {"taking", "narrowing", "giving"} => Owed(hold, r, p, k) = r.taken[p][k]
           /\ r.pc = "recording" => Owed(hold, r, p, k) = r.taken[p][k] + r.unwritten[p][k]
           /\ r.pc \notin Active =>
                 Owed(hold, r, p, k) = IF hold.status \in OpenStatus THEN hold.items[p][k] ELSE 0
<1>1. r.taken[p][k] \in Nat
  BY DEF Reserve, Items
<1> QED BY <1>1 DEF Owed, Active, Unrecorded

(* Where a checkout has one line, what it may take first is all it takes. *)
LEMMA AtMostOne ==
    ASSUME NEW S, IsFiniteSet(S), Cardinality(S) <= 1
    PROVE  \A p, q \in S : p = q
<1> SUFFICES ASSUME NEW p \in S, NEW q \in S, p # q PROVE FALSE
  OBVIOUS
<1>1. Cardinality({p} \cup {q}) = 2
  <2>1. Cardinality({p}) = 1 /\ IsFiniteSet({p}) /\ q \notin {p}
    BY FS_Singleton
  <2>2. Cardinality({p} \cup {q}) = Cardinality({p}) + 1
    BY <2>1, FS_AddElement
  <2> QED BY <2>1, <2>2
<1>2. {p} \cup {q} \subseteq S
  OBVIOUS
<1>3. Cardinality({p} \cup {q}) <= Cardinality(S)
  BY <1>2, FS_Subset
<1>4. Cardinality(S) \in Nat
  BY FS_CardinalityType
<1> QED BY <1>1, <1>3, <1>4

(* A step that writes only the reserve, or hold and reserve: what is left   *)
(* to show of its ledger and of its queue.                                  *)
LEMMA CountersStay ==
    ASSUME Inv, Inv', NEW o \in Orders, levels' = levels, ledger' = ledger, shrink' = shrink,
           Tidy(rsv[o]) =>
              /\ Tidy(rsv'[o])
              /\ \A p \in Products, k \in Kinds, pc \in {"giving", "recording"} :
                    Unrecorded(rsv'[o], pc, p, k) = Unrecorded(rsv[o], pc, p, k)
    PROVE  LedgerFollows(o) /\ RowsStay(levels')
BY DEF LedgerFollows, RowFor, RowsStay

(* A step after which the order is held, or has no hold, joins no queue.    *)
LEMMA NobodyPaid ==
    ASSUME Inv, Inv', NEW o \in Orders, holds'[o].status = "held" \/ holds'[o].status = "none",
           \A p \in Products : levels[p].row = "open" => levels'[p].available <= levels[p].available,
           AtOnce(rsv[o]) /\ OneLine => AtOnce(rsv'[o])
    PROVE  QueueFollows(o)
BY DEF QueueFollows, Waiting

(* Writing the hold: nothing is owed to it yet.                             *)
LEMMA InsertHoldGoes ==
    ASSUME Inv, Inv', Kept, NEW o \in Orders, NEW request \in Requests, InsertHold(o, request)
    PROVE  Goes
<1> DEFINE todo == {p \in Products : request[p].quantity > 0}
<1>1. /\ rsv[o].pc = "idle" /\ holds[o].status = "none"
      /\ holds' = [holds EXCEPT ![o] = [NoHold EXCEPT !.status = "held", !.items = ItemsOf(request)]]
      /\ rsv' = [rsv EXCEPT ![o] = [Resting("taking") EXCEPT !.request = request, !.todo = todo]]
      /\ levels' = levels /\ ledger' = ledger /\ shrink' = shrink
  BY DEF InsertHold
<1>2. request \in Request
  BY InventoryAssumption
<1> HIDE DEF todo
<1>3. /\ rsv'[o].pc = "taking" /\ rsv'[o].todo = todo /\ rsv'[o].request = request
      /\ rsv'[o].taken = NoItems /\ rsv'[o].unwritten = NoItems
      /\ \A x \in Orders \ {o} : holds'[x] = holds[x] /\ rsv'[x] = rsv[x]
  BY <1>1 DEF Resting, Inv, TypeOK
<1>4. holds'[o].status = "held" /\ holds'[o].due = FALSE /\ holds'[o].items = ItemsOf(request)
  BY <1>1 DEF NoHold, Inv, TypeOK
<1>5. \A p \in Products, k \in Kinds : NoItems[p][k] = 0
  BY DEF NoItems
<1>6. \A p \in Products, k \in Kinds :
        /\ Owed(holds[o], rsv[o], p, k) = 0 /\ Owed(holds'[o], rsv'[o], p, k) = 0
        /\ p \notin todo => ItemsOf(request)[p][k] = 0
  <2>1. \A p \in Products, k \in Kinds : Owed(holds[o], rsv[o], p, k) = 0
    BY <1>1 DEF Owed, Active, OpenStatus
  <2>2. \A p \in Products, k \in Kinds : Owed(holds'[o], rsv'[o], p, k) = 0
    BY <1>3, <1>5 DEF Owed, Active, Unrecorded
  <2>3. \A p \in Products, k \in Kinds : p \notin todo => ItemsOf(request)[p][k] = 0
    BY <1>2 DEF todo, ItemsOf, Request
  <2> QED BY <2>1, <2>2, <2>3
<1>7. Mine(holds'[o], rsv'[o])
  BY <1>3, <1>4, <1>6 DEF Mine
<1>8. LedgerFollows(o) /\ RowsStay(levels')
  <2>1. Tidy(rsv'[o])
    BY <1>3, <1>5 DEF Tidy
  <2>2. \A p \in Products, k \in Kinds, pc \in {"giving", "recording"} :
          Unrecorded(rsv'[o], pc, p, k) = Unrecorded(rsv[o], pc, p, k)
    BY <1>1, <1>3 DEF Unrecorded
  <2> QED BY <1>1, <2>1, <2>2, CountersStay
<1>9. QueueFollows(o)
  <2>1. ASSUME OneLine PROVE AtOnce(rsv'[o])
    <3>1. Cardinality(todo) <= 1
      BY <2>1 DEF OneLine, todo
    <3>2. IsFiniteSet(todo)
      BY InventoryAssumption, FS_Subset DEF todo
    <3> QED BY <1>3, <1>5, <3>1, <3>2, AtMostOne DEF AtOnce
  <2>2. \A p \in Products : levels[p].row = "open" => levels'[p].available <= levels[p].available
    BY <1>1, AmountTypes DEF Kinds
  <2> QED BY <1>4, <2>1, <2>2, NobodyPaid
<1>10. \A p \in Products, k \in Kinds : levels[p].row # "removed" =>
           Counter(levels'[p], k) + Owed(holds[o], rsv[o], p, k)
             = Counter(levels[p], k) + Owed(holds'[o], rsv'[o], p, k)
  BY <1>1, <1>6
<1> QED BY <1>3, <1>7, <1>8, <1>9, <1>10, OneOrderGoes

(* Taking a line: the counters move, and the order is owed what is unwritten. *)
LEMMA TakeLineGoes ==
    ASSUME Inv, Inv', Kept, NEW o \in Orders, NEW p \in Products, TakeLine(o, p)
    PROVE  Goes
<1> DEFINE line == rsv[o].request[p]
           reason == TakeReasonFor(line)
           q == line.quantity
           m == ApplyDelta(levels[p], reason, q, line.kind)
           row == LineItems(p, line.kind, q)
<1>1. /\ rsv[o].pc = "taking" /\ p \in rsv[o].todo
      /\ Allowed(levels[p], reason, q, line.kind)
      /\ levels' = [levels EXCEPT ![p] = m]
      /\ rsv' = [rsv EXCEPT ![o].pc = "recording", ![o].todo = @ \ {p}, ![o].unwritten = row]
      /\ holds' = holds /\ ledger' = ledger /\ shrink' = shrink
  BY DEF TakeLine, NextLine
<1>2. /\ line.quantity \in Nat /\ line.kind \in Kinds
      /\ levels \in [Products -> Level] /\ rsv[o] \in Reserve
  BY DEF Inv, TypeOK, Reserve, Request
<1>3. /\ reason \in {"reserve", "backorder"}
      /\ reason = "reserve" => line.kind = "stock"
      /\ reason = "backorder" => line.kind = "backorder"
  BY <1>2 DEF TakeReasonFor, Kinds
<1> HIDE DEF line, reason
<1>4. levels[p].row = "open"
  BY <1>1, <1>3 DEF Allowed
<1>5. \A j \in Kinds : /\ m.row = "open" /\ m.onHand = levels[p].onHand
                       /\ m.available <= levels[p].available
                       /\ Counter(m, j) = IF j # line.kind THEN Counter(levels[p], j) ELSE Counter(levels[p], j) + q
  BY <1>2, <1>3, <1>4, LineMoves
<1>6. /\ rsv'[o].pc = "recording" /\ rsv'[o].todo = rsv[o].todo \ {p} /\ rsv'[o].unwritten = row
      /\ rsv'[o].taken = rsv[o].taken /\ rsv'[o].request = rsv[o].request
      /\ \A x \in Orders \ {o} : holds'[x] = holds[x] /\ rsv'[x] = rsv[x]
  BY <1>1 DEF Inv, TypeOK, Reserve
<1>7. \A x \in Products, j \in Kinds : row[x][j] = IF x = p /\ j = line.kind THEN q ELSE 0
  BY <1>2 DEF LineItems, NoItems
<1>8. \A x \in Products : levels'[x] = IF x = p THEN m ELSE levels[x]
  BY <1>1 DEF Inv, TypeOK
<1> HIDE DEF m, row
<1>9. \A x \in Products, j \in Kinds :
        /\ Owed(holds[o], rsv[o], x, j) = rsv[o].taken[x][j]
        /\ Owed(holds'[o], rsv'[o], x, j) = rsv[o].taken[x][j] + row[x][j]
  <2> TAKE x \in Products, j \in Kinds
  <2>1. /\ rsv[o] \in Reserve /\ rsv'[o] \in Reserve
        /\ rsv[o].pc = "taking" /\ rsv'[o].pc = "recording"
    BY <1>1, <1>6 DEF Inv, TypeOK
  <2>2. /\ Owed(holds[o], rsv[o], x, j) = rsv[o].taken[x][j]
        /\ Owed(holds'[o], rsv'[o], x, j) = rsv'[o].taken[x][j] + rsv'[o].unwritten[x][j]
    BY <2>1, OwedIs
  <2>3. rsv'[o].taken[x][j] = rsv[o].taken[x][j] /\ rsv'[o].unwritten[x][j] = row[x][j]
    BY <1>6
  <2> QED BY <2>2, <2>3
<1>10. \A x \in Products, j \in Kinds : Counter(levels'[x], j) = Counter(levels[x], j) + row[x][j]
  <2> SUFFICES ASSUME NEW x \in Products, NEW j \in Kinds
               PROVE  Counter(levels'[x], j) = Counter(levels[x], j) + row[x][j]
    OBVIOUS
  <2>1. Counter(levels[x], j) \in Int /\ q \in Nat
    BY <1>2, AmountTypes
  <2> QED BY <1>5, <1>7, <1>8, <2>1
<1>11. Mine(holds'[o], rsv'[o])
  <2>1. Mine(holds[o], rsv[o])
    BY DEF Kept, AllMine
  <2>2. holds[o].status = "held" /\ ~ holds[o].due
    BY <1>1, <2>1 DEF Mine, Active
  <2>3. \A j \in Kinds : rsv[o].taken[p][j] = 0 /\ holds[o].items[p][j] = row[p][j]
    <3>1. \A j \in Kinds : ItemsOf(rsv[o].request)[p][j] = row[p][j]
      BY <1>7 DEF ItemsOf, line, q
    <3> QED BY <1>1, <1>9, <2>1, <3>1 DEF Mine
  <2>4. \A x \in Products \ {p}, j \in Kinds :
          /\ row[x][j] = 0 /\ rsv[o].taken[x][j] \in Nat
          /\ IF x \in rsv[o].todo
             THEN rsv[o].taken[x][j] = 0 /\ holds[o].items[x][j] = ItemsOf(rsv[o].request)[x][j]
             ELSE holds[o].items[x][j] = rsv[o].taken[x][j]
    BY <1>1, <1>7, <1>9, <2>1, AmountTypes DEF Mine
  <2>5. \A j \in Kinds : row[p][j] \in Nat
    BY <1>2, <1>7
  <2>6. \A x \in Products, j \in Kinds :
          IF x \in rsv'[o].todo
          THEN Owed(holds'[o], rsv'[o], x, j) = 0 /\ holds'[o].items[x][j] = ItemsOf(rsv'[o].request)[x][j]
          ELSE holds'[o].items[x][j] = Owed(holds'[o], rsv'[o], x, j)
    <3> SUFFICES ASSUME NEW x \in Products, NEW j \in Kinds
                 PROVE  IF x \in rsv'[o].todo
                        THEN Owed(holds'[o], rsv'[o], x, j) = 0 /\ holds'[o].items[x][j] = ItemsOf(rsv'[o].request)[x][j]
                        ELSE holds'[o].items[x][j] = Owed(holds'[o], rsv'[o], x, j)
      OBVIOUS
    <3>1. CASE x = p
      <4>1. x \notin rsv'[o].todo
        BY <1>6, <3>1
      <4>2. holds'[o].items[x][j] = Owed(holds'[o], rsv'[o], x, j)
        <5>1. Owed(holds'[o], rsv'[o], x, j) = rsv[o].taken[p][j] + row[p][j] /\ holds'[o] = holds[o]
          BY <1>1, <1>9, <3>1
        <5> QED BY <2>3, <2>5, <3>1, <5>1
      <4> QED BY <4>1, <4>2
    <3>2. CASE x # p
      <4>1. x \in rsv'[o].todo <=> x \in rsv[o].todo
        BY <1>6, <3>2
      <4>2. Owed(holds'[o], rsv'[o], x, j) = rsv[o].taken[x][j]
        BY <1>9, <2>4, <3>2
      <4>3. /\ x \in rsv[o].todo => rsv[o].taken[x][j] = 0 /\ holds[o].items[x][j] = ItemsOf(rsv[o].request)[x][j]
            /\ x \notin rsv[o].todo => holds[o].items[x][j] = rsv[o].taken[x][j]
        BY <2>4, <3>2
      <4> QED BY <1>1, <1>6, <4>1, <4>2, <4>3
    <3> QED BY <3>1, <3>2
  <2> QED BY <1>1, <1>6, <2>2, <2>6 DEF Mine
<1>12. RowsStay(levels')
  BY <1>4, <1>5, <1>8 DEF RowsStay, Kinds
<1>13. LedgerFollows(o)
  <2>1. Tidy(rsv'[o])
    BY <1>6 DEF Tidy
  <2>2. \A x \in Products : levels'[x].onHand - ledger'[x].onHand = levels[x].onHand - ledger[x].onHand
    BY <1>1, <1>5, <1>8 DEF Kinds
  <2>3. ASSUME NEW x \in Products, NEW j \in Kinds
        PROVE  RowFor(levels'[x], ledger'[x], rsv'[o], x, j) = RowFor(levels[x], ledger[x], rsv[o], x, j)
    <3>1. /\ Unrecorded(rsv[o], "giving", x, j) = 0 /\ Unrecorded(rsv[o], "recording", x, j) = 0
          /\ Unrecorded(rsv'[o], "giving", x, j) = 0 /\ Unrecorded(rsv'[o], "recording", x, j) = row[x][j]
      BY <1>1, <1>6 DEF Unrecorded
    <3>2. row[x][j] \in Nat /\ Counter(levels[x], j) \in Int /\ Counter(ledger[x], j) \in Int
      BY <1>2, <1>7, AmountTypes
    <3> QED BY <1>1, <1>10, <3>1, <3>2 DEF RowFor, Net
  <2> QED BY <1>1, <2>1, <2>2, <2>3 DEF LedgerFollows
<1>14. QueueFollows(o)
  <2>1. AtOnce(rsv[o]) => AtOnce(rsv'[o])
    BY <1>1, <1>6 DEF AtOnce, Active
  <2>2. \A x \in Products : levels[x].row = "open" => levels'[x].available <= levels[x].available
    BY <1>5, <1>8, AmountTypes DEF Kinds
  <2>3. holds'[o].status = "held"
    BY <1>1 DEF Kept, AllMine, Mine, Active
  <2> QED BY <2>1, <2>2, <2>3, NobodyPaid
<1>15. \A x \in Products, j \in Kinds :
           Counter(levels'[x], j) + Owed(holds[o], rsv[o], x, j)
             = Counter(levels[x], j) + Owed(holds'[o], rsv'[o], x, j)
  <2> SUFFICES ASSUME NEW x \in Products, NEW j \in Kinds
               PROVE  Counter(levels'[x], j) + Owed(holds[o], rsv[o], x, j)
                        = Counter(levels[x], j) + Owed(holds'[o], rsv'[o], x, j)
    OBVIOUS
  <2>1. row[x][j] \in Nat /\ Counter(levels[x], j) \in Int /\ rsv[o].taken[x][j] \in Nat
    BY <1>2, <1>7, AmountTypes
  <2> QED BY <1>9, <1>10, <2>1
<1> QED BY <1>6, <1>11, <1>12, <1>13, <1>14, <1>15, OneOrderGoes

(* Writing a line's ledger row: what was unwritten is taken.                *)
LEMMA RecordLineGoes ==
    ASSUME Inv, Inv', Kept, NEW o \in Orders, RecordLine(o)
    PROVE  Goes
<1> DEFINE row == rsv[o].unwritten
<1>1. /\ rsv[o].pc = "recording"
      /\ ledger' = [p \in Products |-> Logged(ledger[p], [onHand |-> 0, reserved |-> row[p].stock,
                                                          backordered |-> row[p].backorder])]
      /\ rsv' = [rsv EXCEPT ![o].pc = "taking", ![o].taken = WithAdded(@, row), ![o].unwritten = NoItems]
      /\ levels' = levels /\ holds' = holds /\ shrink' = shrink
  BY DEF RecordLine
<1>2. /\ rsv'[o].pc = "taking" /\ rsv'[o].todo = rsv[o].todo /\ rsv'[o].unwritten = NoItems
      /\ rsv'[o].taken = WithAdded(rsv[o].taken, row) /\ rsv'[o].request = rsv[o].request
      /\ \A x \in Orders \ {o} : holds'[x] = holds[x] /\ rsv'[x] = rsv[x]
  BY <1>1 DEF Inv, TypeOK, Reserve
<1>3. \A p \in Products, k \in Kinds : /\ NoItems[p][k] = 0
                                       /\ rsv'[o].taken[p][k] = rsv[o].taken[p][k] + row[p][k]
  BY <1>2 DEF NoItems, WithAdded
<1>4. \A p \in Products, k \in Kinds : Owed(holds'[o], rsv'[o], p, k) = Owed(holds[o], rsv[o], p, k)
  <2> TAKE p \in Products, k \in Kinds
  <2>1. /\ rsv[o] \in Reserve /\ rsv'[o] \in Reserve
        /\ rsv[o].pc = "recording" /\ rsv'[o].pc = "taking"
    BY <1>1, <1>2 DEF Inv, TypeOK
  <2>2. /\ Owed(holds[o], rsv[o], p, k) = rsv[o].taken[p][k] + row[p][k]
        /\ Owed(holds'[o], rsv'[o], p, k) = rsv'[o].taken[p][k]
    BY <2>1, OwedIs
  <2> QED BY <1>3, <2>2
<1>5. Mine(holds[o], rsv[o])
  BY DEF Kept, AllMine
<1>6. Mine(holds'[o], rsv'[o])
  <2> HIDE DEF row
  <2> QED BY <1>1, <1>2, <1>4, <1>5 DEF Mine, Active
<1>7. RowsStay(levels')
  BY <1>1 DEF RowsStay
<1>8. LedgerFollows(o)
  <2>1. Tidy(rsv'[o])
    BY <1>2, <1>3 DEF Tidy
  <2>2. ASSUME NEW p \in Products PROVE ledger'[p].onHand = ledger[p].onHand
    BY <1>1, AmountTypes DEF Logged, Kinds
  <2>3. ASSUME NEW p \in Products, NEW k \in Kinds
        PROVE  RowFor(levels'[p], ledger'[p], rsv'[o], p, k) = RowFor(levels[p], ledger[p], rsv[o], p, k)
    <3>1. /\ Unrecorded(rsv[o], "giving", p, k) = 0 /\ Unrecorded(rsv[o], "recording", p, k) = row[p][k]
          /\ Unrecorded(rsv'[o], "giving", p, k) = 0 /\ Unrecorded(rsv'[o], "recording", p, k) = 0
      BY <1>1, <1>2 DEF Unrecorded
    <3>2. row[p][k] \in Nat /\ Counter(levels[p], k) \in Int /\ Counter(ledger[p], k) \in Int
      BY AmountTypes
    <3>3. Counter(ledger'[p], k) = Counter(ledger[p], k) + row[p][k]
      BY <1>1 DEF Logged, Kinds, Counter
    <3> QED BY <1>1, <3>1, <3>2, <3>3 DEF RowFor, Net
  <2> QED BY <1>1, <2>1, <2>2, <2>3 DEF LedgerFollows
<1>9. QueueFollows(o)
  <2>1. AtOnce(rsv[o]) => AtOnce(rsv'[o])
    BY <1>1, <1>2 DEF AtOnce, Active
  <2>2. \A p \in Products : levels[p].row = "open" => levels'[p].available <= levels[p].available
    BY <1>1, AmountTypes DEF Kinds
  <2>3. holds'[o].status = "held"
    BY <1>1, <1>5 DEF Mine, Active
  <2> QED BY <2>1, <2>2, <2>3, NobodyPaid
<1>10. \A p \in Products, k \in Kinds :
           Counter(levels'[p], k) + Owed(holds[o], rsv[o], p, k)
             = Counter(levels[p], k) + Owed(holds'[o], rsv'[o], p, k)
  BY <1>1, <1>4
<1> QED BY <1>2, <1>6, <1>7, <1>8, <1>9, <1>10, OneOrderGoes

(* A refused line ends the taking.                                          *)
LEMMA LineRefusedGoes ==
    ASSUME Inv, Inv', Kept, NEW o \in Orders, NEW p \in Products, LineRefused(o, p)
    PROVE  Goes
<1>1. /\ rsv[o].pc = "taking" /\ p \in rsv[o].todo
      /\ rsv' = [rsv EXCEPT ![o].pc = "narrowing", ![o].todo = {}]
      /\ levels' = levels /\ holds' = holds /\ ledger' = ledger /\ shrink' = shrink
  BY DEF LineRefused, NextLine
<1>2. /\ rsv'[o].pc = "narrowing" /\ rsv'[o].todo = {} /\ rsv'[o].unwritten = rsv[o].unwritten
      /\ rsv'[o].taken = rsv[o].taken
      /\ rsv[o] \in Reserve /\ rsv'[o] \in Reserve
      /\ \A x \in Orders \ {o} : holds'[x] = holds[x] /\ rsv'[x] = rsv[x]
  BY <1>1 DEF Inv, TypeOK, Reserve
<1>3. \A x \in Products, k \in Kinds : Owed(holds'[o], rsv'[o], x, k) = Owed(holds[o], rsv[o], x, k)
  <2> TAKE x \in Products, k \in Kinds
  <2>1. /\ rsv[o] \in Reserve /\ rsv'[o] \in Reserve
        /\ rsv[o].pc = "taking" /\ rsv'[o].pc = "narrowing"
    BY <1>1, <1>2
  <2>2. /\ Owed(holds[o], rsv[o], x, k) = rsv[o].taken[x][k]
        /\ Owed(holds'[o], rsv'[o], x, k) = rsv'[o].taken[x][k]
    BY <2>1, OwedIs
  <2> QED BY <1>2, <2>2
<1>4. Mine(holds[o], rsv[o])
  BY DEF Kept, AllMine
<1>5. holds'[o].status = "held" /\ ~ holds'[o].due
  BY <1>1, <1>4 DEF Mine, Active
<1>6. Mine(holds'[o], rsv'[o])
  BY <1>2, <1>5 DEF Mine
<1>7. LedgerFollows(o) /\ RowsStay(levels')
  <2>1. Tidy(rsv[o]) => Tidy(rsv'[o])
    BY <1>1, <1>2 DEF Tidy
  <2>2. \A x \in Products, k \in Kinds, pc \in {"giving", "recording"} :
          Unrecorded(rsv'[o], pc, x, k) = Unrecorded(rsv[o], pc, x, k)
    BY <1>1, <1>2 DEF Unrecorded
  <2> QED BY <1>1, <2>1, <2>2, CountersStay
<1>8. QueueFollows(o)
  <2>1. AtOnce(rsv[o]) => AtOnce(rsv'[o])
    BY <1>1, <1>2 DEF AtOnce, Active
  <2>2. \A x \in Products : levels[x].row = "open" => levels'[x].available <= levels[x].available
    BY <1>1, AmountTypes DEF Kinds
  <2> QED BY <1>5, <2>1, <2>2, NobodyPaid
<1>9. \A x \in Products, k \in Kinds :
          Counter(levels'[x], k) + Owed(holds[o], rsv[o], x, k)
            = Counter(levels[x], k) + Owed(holds'[o], rsv'[o], x, k)
  BY <1>1, <1>3
<1> QED BY <1>2, <1>6, <1>7, <1>8, <1>9, OneOrderGoes

(* The last line taken: the hold names all that the order is owed.          *)
LEMMA FinishReserveGoes ==
    ASSUME Inv, Inv', Kept, NEW o \in Orders, FinishReserve(o)
    PROVE  Goes
<1>1. /\ rsv[o].pc = "taking" /\ rsv[o].todo = {}
      /\ rsv' = [rsv EXCEPT ![o] = Resting("placed")]
      /\ levels' = levels /\ holds' = holds /\ ledger' = ledger /\ shrink' = shrink
  BY DEF FinishReserve
<1>2. /\ rsv'[o].pc = "placed" /\ rsv'[o].todo = {}
      /\ rsv[o] \in Reserve /\ rsv'[o] \in Reserve
      /\ \A x \in Orders \ {o} : holds'[x] = holds[x] /\ rsv'[x] = rsv[x]
  BY <1>1 DEF Inv, TypeOK, Resting
<1>3. Mine(holds[o], rsv[o])
  BY DEF Kept, AllMine
<1>4. holds'[o].status = "held" /\ ~ holds'[o].due
  BY <1>1, <1>3 DEF Mine, Active
<1>5. \A x \in Products, k \in Kinds : Owed(holds'[o], rsv'[o], x, k) = Owed(holds[o], rsv[o], x, k)
  <2> TAKE x \in Products, k \in Kinds
  <2>1. rsv'[o] \in Reserve /\ rsv'[o].pc \notin Active /\ holds'[o].status \in OpenStatus
    BY <1>2, <1>4 DEF Active, OpenStatus
  <2>2. Owed(holds'[o], rsv'[o], x, k) = holds'[o].items[x][k]
    BY <2>1, OwedIs
  <2>3. Owed(holds[o], rsv[o], x, k) = holds[o].items[x][k]
    BY <1>1, <1>3 DEF Mine
  <2> QED BY <1>1, <2>2, <2>3
<1>6. Mine(holds'[o], rsv'[o])
  BY <1>2 DEF Mine, Active
<1>7. LedgerFollows(o) /\ RowsStay(levels')
  <2>1. Tidy(rsv'[o])
    BY <1>2 DEF Tidy
  <2>2. \A x \in Products, k \in Kinds, pc \in {"giving", "recording"} :
          Unrecorded(rsv'[o], pc, x, k) = Unrecorded(rsv[o], pc, x, k)
    BY <1>1, <1>2 DEF Unrecorded
  <2> QED BY <1>1, <2>1, <2>2, CountersStay
<1>8. QueueFollows(o)
  <2>1. AtOnce(rsv'[o])
    BY <1>2 DEF AtOnce, Active
  <2>2. \A x \in Products : levels[x].row = "open" => levels'[x].available <= levels[x].available
    BY <1>1, AmountTypes DEF Kinds
  <2> QED BY <1>4, <2>1, <2>2, NobodyPaid
<1>9. \A x \in Products, k \in Kinds :
          Counter(levels'[x], k) + Owed(holds[o], rsv[o], x, k)
            = Counter(levels[x], k) + Owed(holds'[o], rsv'[o], x, k)
  BY <1>1, <1>5
<1> QED BY <1>2, <1>6, <1>7, <1>8, <1>9, OneOrderGoes

(* A refused reserve's hold is narrowed to what it took.                    *)
LEMMA NarrowToTakenGoes ==
    ASSUME Inv, Inv', Kept, NEW o \in Orders, NarrowToTaken(o)
    PROVE  Goes
<1>1. /\ rsv[o].pc = "narrowing"
      /\ rsv' = [rsv EXCEPT ![o].pc = "giving"]
      /\ levels' = levels /\ ledger' = ledger /\ shrink' = shrink
  BY DEF NarrowToTaken
<1>2. /\ rsv'[o].pc = "giving" /\ rsv'[o].todo = rsv[o].todo /\ rsv'[o].unwritten = rsv[o].unwritten
      /\ rsv'[o].taken = rsv[o].taken
      /\ rsv[o] \in Reserve /\ rsv'[o] \in Reserve
      /\ \A x \in Orders \ {o} : rsv'[x] = rsv[x]
  BY <1>1 DEF Inv, TypeOK, Reserve
<1>3. Mine(holds[o], rsv[o])
  BY DEF Kept, AllMine
<1>4. /\ holds'[o].status = "held" /\ ~ holds'[o].due
      /\ \A x \in Orders \ {o} : holds'[x] = holds[x]
  <2>1. holds[o].status = "held" /\ ~ holds[o].due
    BY <1>1, <1>3 DEF Mine, Active
  <2>2. holds' = [holds EXCEPT ![o].items = rsv[o].taken]
    BY <2>1 DEF NarrowToTaken
  <2> QED BY <2>1, <2>2 DEF Inv, TypeOK, Hold
<1>5. \A x \in Products, k \in Kinds : Owed(holds'[o], rsv'[o], x, k) = Owed(holds[o], rsv[o], x, k)
  <2> TAKE x \in Products, k \in Kinds
  <2>1. /\ rsv[o] \in Reserve /\ rsv'[o] \in Reserve
        /\ rsv[o].pc = "narrowing" /\ rsv'[o].pc = "giving"
    BY <1>1, <1>2
  <2>2. /\ Owed(holds[o], rsv[o], x, k) = rsv[o].taken[x][k]
        /\ Owed(holds'[o], rsv'[o], x, k) = rsv'[o].taken[x][k]
    BY <2>1, OwedIs
  <2> QED BY <1>2, <2>2
<1>6. Mine(holds'[o], rsv'[o])
  BY <1>2, <1>4 DEF Mine
<1>7. LedgerFollows(o) /\ RowsStay(levels')
  <2>1. Tidy(rsv[o]) => Tidy(rsv'[o])
    BY <1>1, <1>2 DEF Tidy
  <2>2. Tidy(rsv[o]) => \A x \in Products, k \in Kinds, pc \in {"giving", "recording"} :
          Unrecorded(rsv'[o], pc, x, k) = Unrecorded(rsv[o], pc, x, k)
    BY <1>1, <1>2 DEF Unrecorded, Tidy
  <2> QED BY <1>1, <2>1, <2>2, CountersStay
<1>8. QueueFollows(o)
  <2>1. AtOnce(rsv[o]) => AtOnce(rsv'[o])
    BY <1>1, <1>2 DEF AtOnce, Active
  <2>2. \A x \in Products : levels[x].row = "open" => levels'[x].available <= levels[x].available
    BY <1>1, AmountTypes DEF Kinds
  <2> QED BY <1>4, <2>1, <2>2, NobodyPaid
<1>9. \A x \in Products, k \in Kinds :
          Counter(levels'[x], k) + Owed(holds[o], rsv[o], x, k)
            = Counter(levels[x], k) + Owed(holds'[o], rsv'[o], x, k)
  BY <1>1, <1>5
<1> QED BY <1>2, <1>4, <1>6, <1>7, <1>8, <1>9, OneOrderGoes

(* Everything given back, the hold is deleted.                              *)
LEMMA DeleteHoldGoes ==
    ASSUME Inv, Inv', Kept, NEW o \in Orders, DeleteHold(o)
    PROVE  Goes
<1>1. /\ rsv[o].pc = "giving"
      /\ \A p \in Products, k \in Kinds : rsv[o].taken[p][k] = 0 /\ rsv[o].unwritten[p][k] = 0
      /\ holds' = [holds EXCEPT ![o] = NoHold]
      /\ rsv' = [rsv EXCEPT ![o] = Resting("refused")]
      /\ levels' = levels /\ ledger' = ledger /\ shrink' = shrink
  BY DEF DeleteHold, NoLines
<1>2. /\ rsv'[o].pc = "refused" /\ rsv'[o].todo = {} /\ holds'[o].status = "none"
      /\ rsv[o] \in Reserve /\ rsv'[o] \in Reserve
      /\ \A x \in Orders \ {o} : holds'[x] = holds[x] /\ rsv'[x] = rsv[x]
  BY <1>1 DEF Inv, TypeOK, Resting, NoHold
<1>3. \A x \in Products, k \in Kinds : Owed(holds'[o], rsv'[o], x, k) = Owed(holds[o], rsv[o], x, k)
  <2> TAKE x \in Products, k \in Kinds
  <2>1. rsv[o].pc = "giving" /\ rsv'[o].pc \notin Active /\ holds'[o].status \notin OpenStatus
    BY <1>1, <1>2 DEF Active, OpenStatus
  <2>2. Owed(holds[o], rsv[o], x, k) = rsv[o].taken[x][k]
    <3>1. rsv[o].pc = "giving" /\ rsv[o] \in Reserve
      BY <1>1, <1>2
    <3> QED BY <3>1, OwedIs
  <2>3. Owed(holds'[o], rsv'[o], x, k) = 0
    BY <2>1 DEF Owed
  <2> QED BY <1>1, <2>2, <2>3
<1>4. Mine(holds'[o], rsv'[o])
  BY <1>2 DEF Mine, Active
<1>5. LedgerFollows(o) /\ RowsStay(levels')
  <2>1. Tidy(rsv'[o])
    BY <1>2 DEF Tidy
  <2>2. \A x \in Products, k \in Kinds, pc \in {"giving", "recording"} :
          Unrecorded(rsv'[o], pc, x, k) = Unrecorded(rsv[o], pc, x, k)
    BY <1>1, <1>2 DEF Unrecorded
  <2> QED BY <1>1, <2>1, <2>2, CountersStay
<1>6. QueueFollows(o)
  <2>1. AtOnce(rsv'[o])
    BY <1>2 DEF AtOnce, Active
  <2>2. \A x \in Products : levels[x].row = "open" => levels'[x].available <= levels[x].available
    BY <1>1, AmountTypes DEF Kinds
  <2> QED BY <1>2, <2>1, <2>2, NobodyPaid
<1>7. \A x \in Products, k \in Kinds :
          Counter(levels'[x], k) + Owed(holds[o], rsv[o], x, k)
            = Counter(levels[x], k) + Owed(holds'[o], rsv'[o], x, k)
  BY <1>1, <1>3
<1> QED BY <1>2, <1>4, <1>5, <1>6, <1>7, OneOrderGoes

(* Taking a line that may spill: shelf units first, the rest as a claim.    *)
LEMMA TakeSpillLineGoes ==
    ASSUME Inv, Inv', Kept, NEW o \in Orders, NEW p \in Products, TakeSpillLine(o, p)
    PROVE  Goes
<1> DEFINE q == rsv[o].request[p].quantity
           parts == SpillParts(p, q)
           m == ApplyDelta(ApplyDelta(levels[p], "reserve", parts[p].stock, "stock"),
                           "backorder", parts[p].backorder, "backorder")
           M == [levels EXCEPT ![p] = m]
<1>1. /\ rsv[o].pc = "taking" /\ p \in rsv[o].todo /\ SpillAllowed(p, q)
      /\ levels' = M /\ ledger' = Recorded(levels, M)
      /\ holds' = IF holds[o].status \in OpenStatus THEN [holds EXCEPT ![o].items[p] = parts[p]] ELSE holds
      /\ rsv' = [rsv EXCEPT ![o].todo = @ \ {p}, ![o].taken = WithAdded(@, parts)]
      /\ shrink' = shrink
  BY DEF TakeSpillLine, NextLine
<1>2. q \in Nat /\ levels \in [Products -> Level] /\ rsv[o] \in Reserve /\ rsv'[o] \in Reserve
  BY DEF Inv, TypeOK, Reserve, Request
<1>3. levels[p].row = "open"
  BY <1>1 DEF SpillAllowed, Allowed
<1>4. parts \in Items
  BY <1>2, SpillPartsType
<1>5. \A x \in Products, k \in Kinds : x # p => parts[x][k] = 0
  BY DEF SpillParts, NoItems
<1> HIDE DEF q, parts
<1>6. parts[p]["stock"] \in Nat /\ parts[p]["backorder"] \in Nat
  BY <1>4 DEF Items, Kinds
<1>7. /\ m.row = "open"
      /\ Counter(m, "stock") = Counter(levels[p], "stock") + parts[p]["stock"]
      /\ Counter(m, "backorder") = Counter(levels[p], "backorder") + parts[p]["backorder"]
      /\ m.available = levels[p].available - parts[p]["stock"]
  BY <1>2, <1>3, <1>6, TakingMoves
<1> HIDE DEF m
<1>8. \A x \in Products : levels'[x] = IF x = p THEN m ELSE levels[x]
  BY <1>1, <1>2
<1>9. Mine(holds[o], rsv[o])
  BY DEF Kept, AllMine
<1>10. holds[o].status = "held" /\ ~ holds[o].due
  BY <1>1, <1>9 DEF Mine, Active
<1>11. holds' = [holds EXCEPT ![o].items[p] = parts[p]]
  BY <1>1, <1>10 DEF OpenStatus
<1>12. /\ rsv'[o].pc = "taking" /\ rsv'[o].todo = rsv[o].todo \ {p}
       /\ rsv'[o].taken = WithAdded(rsv[o].taken, parts)
       /\ rsv'[o].unwritten = rsv[o].unwritten /\ rsv'[o].request = rsv[o].request
       /\ \A x \in Orders \ {o} : holds'[x] = holds[x] /\ rsv'[x] = rsv[x]
  BY <1>1, <1>11 DEF Inv, TypeOK, Reserve
<1>13. /\ holds'[o].status = "held" /\ ~ holds'[o].due
       /\ \A x \in Products : holds'[o].items[x] = IF x = p THEN parts[p] ELSE holds[o].items[x]
  BY <1>10, <1>11 DEF Inv, TypeOK, Hold, Items
<1>14. ASSUME NEW x \in Products, NEW k \in Kinds
       PROVE  /\ Owed(holds[o], rsv[o], x, k) = rsv[o].taken[x][k]
              /\ Owed(holds'[o], rsv'[o], x, k) = rsv[o].taken[x][k] + parts[x][k]
  <2>1. rsv[o].pc = "taking" /\ rsv'[o].pc = "taking" /\ rsv[o] \in Reserve /\ rsv'[o] \in Reserve
    BY <1>1, <1>2, <1>12
  <2>2. Owed(holds[o], rsv[o], x, k) = rsv[o].taken[x][k]
    BY <2>1, OwedIs
  <2>4. Owed(holds'[o], rsv'[o], x, k) = rsv'[o].taken[x][k]
    BY <2>1, OwedIs
  <2>3. rsv'[o].taken[x][k] = rsv[o].taken[x][k] + parts[x][k]
    BY <1>12 DEF WithAdded
  <2> QED BY <2>2, <2>3, <2>4
<1>15. ASSUME NEW x \in Products, NEW k \in Kinds
       PROVE  Counter(levels'[x], k) = Counter(levels[x], k) + parts[x][k]
  <2>1. Counter(levels[x], k) \in Int /\ parts[x][k] \in Nat
    BY <1>4, AmountTypes DEF Items
  <2> QED BY <1>5, <1>7, <1>8, <2>1 DEF Kinds
<1>16. Mine(holds'[o], rsv'[o])
  <2>1. ASSUME NEW x \in Products, NEW k \in Kinds
        PROVE  IF x \in rsv'[o].todo
               THEN Owed(holds'[o], rsv'[o], x, k) = 0 /\ holds'[o].items[x][k] = ItemsOf(rsv'[o].request)[x][k]
               ELSE holds'[o].items[x][k] = Owed(holds'[o], rsv'[o], x, k)
    <3>1. /\ x \in rsv[o].todo => rsv[o].taken[x][k] = 0 /\ holds[o].items[x][k] = ItemsOf(rsv[o].request)[x][k]
          /\ x \notin rsv[o].todo => holds[o].items[x][k] = rsv[o].taken[x][k]
      BY <1>1, <1>9, <1>14 DEF Mine
    <3>2. rsv[o].taken[x][k] \in Nat /\ parts[x][k] \in Nat
      BY <1>4, AmountTypes DEF Items
    <3>3. CASE x = p
      <4>1. x \notin rsv'[o].todo /\ x \in rsv[o].todo /\ holds'[o].items[x][k] = parts[x][k]
        BY <1>1, <1>12, <1>13, <3>3
      <4> QED BY <1>14, <3>1, <3>2, <4>1
    <3>4. CASE x # p
      <4>1. /\ x \in rsv'[o].todo <=> x \in rsv[o].todo
            /\ holds'[o].items[x][k] = holds[o].items[x][k] /\ parts[x][k] = 0
            /\ rsv'[o].request = rsv[o].request
        BY <1>5, <1>12, <1>13, <3>4
      <4> QED BY <1>14, <3>1, <3>2, <4>1
    <3> QED BY <3>3, <3>4
  <2> QED BY <1>12, <1>13, <2>1 DEF Mine
<1>17. RowsStay(levels')
  BY <1>3, <1>7, <1>8 DEF RowsStay
<1>18. LedgerFollows(o)
  <2>1. Tidy(rsv[o]) => Tidy(rsv'[o])
    BY <1>1, <1>12 DEF Tidy
  <2>2. ASSUME NEW x \in Products
        PROVE  levels'[x].onHand - ledger'[x].onHand = levels[x].onHand - ledger[x].onHand
    <3>1. ledger'[x].onHand = ledger[x].onHand + levels'[x].onHand - levels[x].onHand
      BY <1>1 DEF Recorded
    <3>2. levels[x].onHand \in Int /\ levels'[x].onHand \in Int /\ ledger[x].onHand \in Int
      BY DEF Inv, TypeOK, Level, Movement
    <3> QED BY <3>1, <3>2
  <2>3. ASSUME NEW x \in Products, NEW k \in Kinds
        PROVE  RowFor(levels'[x], ledger'[x], rsv'[o], x, k) = RowFor(levels[x], ledger[x], rsv[o], x, k)
    <3>1. /\ Unrecorded(rsv[o], "giving", x, k) = 0 /\ Unrecorded(rsv[o], "recording", x, k) = 0
          /\ Unrecorded(rsv'[o], "giving", x, k) = 0 /\ Unrecorded(rsv'[o], "recording", x, k) = 0
      BY <1>1, <1>12 DEF Unrecorded
    <3>2. Counter(ledger'[x], k) = Counter(ledger[x], k) + Counter(levels'[x], k) - Counter(levels[x], k)
      BY <1>1 DEF Recorded, Counter
    <3>3. Counter(levels[x], k) \in Int /\ Counter(ledger[x], k) \in Int /\ Counter(levels'[x], k) \in Int
      BY DEF Inv, TypeOK, Level, Movement, Counter
    <3> QED BY <3>1, <3>2, <3>3 DEF RowFor, Net
  <2> QED BY <1>1, <2>1, <2>2, <2>3 DEF LedgerFollows
<1>19. QueueFollows(o)
  <2>1. AtOnce(rsv[o]) => AtOnce(rsv'[o])
    <3>1. AtOnce(rsv[o]) => rsv'[o].todo = {}
      BY <1>1, <1>12 DEF AtOnce
    <3> QED BY <1>12, <3>1 DEF AtOnce, Active
  <2>2. \A x \in Products : levels[x].row = "open" => levels'[x].available <= levels[x].available
    BY <1>6, <1>7, <1>8, AmountTypes DEF Kinds
  <2> QED BY <1>13, <2>1, <2>2, NobodyPaid
<1>20. ASSUME NEW x \in Products, NEW k \in Kinds
       PROVE  Counter(levels'[x], k) + Owed(holds[o], rsv[o], x, k)
                = Counter(levels[x], k) + Owed(holds'[o], rsv'[o], x, k)
  <2>1. Counter(levels[x], k) \in Int /\ parts[x][k] \in Nat /\ rsv[o].taken[x][k] \in Nat
    BY <1>4, AmountTypes DEF Items
  <2> QED BY <1>14, <1>15, <2>1
<1> QED BY <1>12, <1>16, <1>17, <1>18, <1>19, <1>20, OneOrderGoes

(* Giving back a line a refused reserve took.                               *)
LEMMA GiveBackLineGoes ==
    ASSUME Inv, Inv', Kept, NEW o \in Orders, NEW p \in Products, NEW k \in Kinds, GiveBackLine(o, p, k)
    PROVE  Goes
<1> DEFINE q == rsv[o].taken[p][k]
           goes == Allowed(levels[p], "release", q, k) /\ levels[p].row = "open"
           m == ApplyDelta(levels[p], "release", q, k)
<1>1. /\ rsv[o].pc = "giving" /\ q > 0
      /\ levels' = IF goes THEN [levels EXCEPT ![p] = m] ELSE levels
      /\ rsv' = [rsv EXCEPT ![o].taken[p][k] = 0, ![o].unwritten[p][k] = IF goes THEN q ELSE @]
      /\ holds' = holds /\ ledger' = ledger /\ shrink' = shrink
  BY DEF GiveBackLine
<1>2. levels[p] \in Level /\ rsv[o] \in Reserve /\ rsv'[o] \in Reserve /\ q \in Nat
  BY AmountTypes DEF Inv, TypeOK
<1>3. Mine(holds[o], rsv[o]) /\ Account(levels, holds, rsv) /\ Unopened(levels)
  BY DEF Kept, AllMine
<1>4. Owed(holds[o], rsv[o], p, k) = q
  <2>1. rsv[o].pc = "giving" /\ rsv[o] \in Reserve
    BY <1>1, <1>2
  <2> QED BY <2>1, OwedIs
(* What the order still holds, the counter has: the give-back goes through. *)
<1>5. levels[p].row # "removed" => goes
  <2> SUFFICES ASSUME levels[p].row # "removed" PROVE goes
    OBVIOUS
  <2>1. q <= Counter(levels[p], k)
    BY <1>3, <1>4, OwedIsCovered DEF Inv, TypeOK
  <2>2. levels[p].row = "open"
    <3>1. levels[p].row = "none" => Counter(levels[p], k) = 0
      BY <1>3 DEF Unopened, ZeroLevel, Counter
    <3> QED BY <1>1, <1>2, <2>1, <3>1 DEF Level, RowStates
  <2>3. Allowed(levels[p], "release", q, k)
    BY <2>1, <2>2 DEF Allowed, ConditionFor, Counter, Kinds
  <2> QED BY <2>2, <2>3
<1> HIDE DEF goes, q
<1>6. goes => \A j \in Kinds : /\ m.row = "open" /\ m.onHand = levels[p].onHand
                               /\ Counter(m, j) = IF j # k THEN Counter(levels[p], j) ELSE Counter(levels[p], j) - q
  BY <1>2, LineMoves DEF goes
<1> HIDE DEF m
<1>7. /\ rsv'[o].pc = "giving" /\ rsv'[o].todo = rsv[o].todo
      /\ \A x \in Products, j \in Kinds :
           /\ rsv'[o].taken[x][j] = IF x = p /\ j = k THEN 0 ELSE rsv[o].taken[x][j]
           /\ rsv'[o].unwritten[x][j] = IF x = p /\ j = k /\ goes THEN q ELSE rsv[o].unwritten[x][j]
      /\ \A x \in Orders \ {o} : holds'[x] = holds[x] /\ rsv'[x] = rsv[x]
  BY <1>1 DEF Inv, TypeOK, Reserve, Items
<1>8. \A x \in Products : levels'[x] = IF x = p /\ goes THEN m ELSE levels[x]
  BY <1>1 DEF Inv, TypeOK
<1>9. holds'[o].status = "held" /\ ~ holds'[o].due
  BY <1>1, <1>3 DEF Mine, Active
<1>10. ASSUME NEW x \in Products, NEW j \in Kinds
       PROVE  /\ Owed(holds[o], rsv[o], x, j) = rsv[o].taken[x][j]
              /\ Owed(holds'[o], rsv'[o], x, j) = IF x = p /\ j = k THEN 0 ELSE rsv[o].taken[x][j]
  <2>1. Owed(holds[o], rsv[o], x, j) = rsv[o].taken[x][j]
    <3>1. rsv[o].pc = "giving" /\ rsv[o] \in Reserve
      BY <1>1, <1>2
    <3> QED BY <3>1, OwedIs
  <2>2. rsv'[o].pc = "giving" /\ rsv'[o] \in Reserve
    BY <1>2, <1>7
  <2>3. Owed(holds'[o], rsv'[o], x, j) = rsv'[o].taken[x][j]
    BY <2>2, OwedIs
  <2> QED BY <1>7, <2>1, <2>3
<1>11. ASSUME NEW x \in Products, NEW j \in Kinds, levels[x].row # "removed"
       PROVE  Counter(levels'[x], j) = Counter(levels[x], j) - (IF x = p /\ j = k THEN q ELSE 0)
  <2>1. Counter(levels[x], j) \in Int
    BY AmountTypes
  <2> QED BY <1>2, <1>5, <1>6, <1>8, <1>11, <2>1
<1>12. Mine(holds'[o], rsv'[o])
  BY <1>7, <1>9 DEF Mine
<1>13. RowsStay(levels')
  BY <1>6, <1>8 DEF RowsStay, goes, Kinds
<1>14. LedgerFollows(o)
  <2>1. ASSUME Tidy(rsv[o]) PROVE Tidy(rsv'[o])
    <3>1. ASSUME NEW x \in Products, NEW j \in Kinds, rsv'[o].taken[x][j] > 0
          PROVE  rsv'[o].unwritten[x][j] = 0
      <4>1. ~ (x = p /\ j = k)
        BY <1>7, <3>1
      <4>2. rsv[o].taken[x][j] > 0
        BY <1>7, <3>1, <4>1
      <4>3. rsv[o].unwritten[x][j] = 0
        BY <1>1, <2>1, <4>2 DEF Tidy
      <4> QED BY <1>7, <4>1, <4>3
    <3> QED BY <1>7, <3>1 DEF Tidy
  <2>2. \A x \in Products : levels'[x].onHand - ledger'[x].onHand = levels[x].onHand - ledger[x].onHand
    BY <1>1, <1>6, <1>8 DEF Kinds
  <2>3. ASSUME NEW x \in Products, NEW j \in Kinds, levels[x].row # "removed", Tidy(rsv[o])
        PROVE  RowFor(levels'[x], ledger'[x], rsv'[o], x, j) = RowFor(levels[x], ledger[x], rsv[o], x, j)
    <3>1. /\ Unrecorded(rsv[o], "giving", x, j) = rsv[o].unwritten[x][j] /\ Unrecorded(rsv[o], "recording", x, j) = 0
          /\ Unrecorded(rsv'[o], "giving", x, j) = rsv'[o].unwritten[x][j] /\ Unrecorded(rsv'[o], "recording", x, j) = 0
      BY <1>1, <1>7 DEF Unrecorded
    <3>2. rsv[o].unwritten[x][j] \in Nat /\ Counter(levels[x], j) \in Int /\ Counter(ledger[x], j) \in Int
      BY AmountTypes
    <3>3. Counter(levels'[x], j) = Counter(levels[x], j) - (IF x = p /\ j = k THEN q ELSE 0)
      BY <1>11, <2>3
    <3>4. rsv'[o].unwritten[x][j] = rsv[o].unwritten[x][j] + (IF x = p /\ j = k THEN q ELSE 0)
      <4>1. x = p /\ j = k => rsv[o].unwritten[x][j] = 0 /\ goes
        BY <1>1, <1>5, <2>3 DEF Tidy, q
      <4> QED BY <1>2, <1>7, <3>2, <4>1
    <3> HIDE <1>1
    <3>5. ledger'[x] = ledger[x]
      BY <1>1
    <3> QED BY <1>2, <3>1, <3>2, <3>3, <3>4, <3>5 DEF RowFor, Net
  <2> QED BY <1>1, <2>1, <2>2, <2>3 DEF LedgerFollows
<1>15. QueueFollows(o)
  <2>1. ~ AtOnce(rsv[o])
    BY <1>1 DEF AtOnce, Active, q
  <2>2. \A x \in Products : Waiting(holds', o, x) = 0
    BY <1>9 DEF Waiting
  <2> QED BY <1>9, <2>1, <2>2 DEF QueueFollows
<1>16. ASSUME NEW x \in Products, NEW j \in Kinds, levels[x].row # "removed"
       PROVE  Counter(levels'[x], j) + Owed(holds[o], rsv[o], x, j)
                = Counter(levels[x], j) + Owed(holds'[o], rsv'[o], x, j)
  <2>1. Counter(levels[x], j) \in Int /\ rsv[o].taken[x][j] \in Nat
    BY AmountTypes
  <2> QED BY <1>2, <1>10, <1>11, <1>16, <2>1 DEF q
<1> QED BY <1>7, <1>12, <1>13, <1>14, <1>15, <1>16, OneOrderGoes

(* Writing the ledger row of a give-back.                                   *)
LEMMA RecordGiveBackGoes ==
    ASSUME Inv, Inv', Kept, NEW o \in Orders, NEW p \in Products, NEW k \in Kinds, RecordGiveBack(o, p, k)
    PROVE  Goes
<1> DEFINE q == rsv[o].unwritten[p][k]
           d == CounterDeltaFor("release", q, k)
<1>1. /\ rsv[o].pc = "giving"
      /\ ledger' = [ledger EXCEPT ![p] = Logged(@, d)]
      /\ rsv' = [rsv EXCEPT ![o].unwritten[p][k] = 0]
      /\ levels' = levels /\ holds' = holds /\ shrink' = shrink
  BY DEF RecordGiveBack
<1>2. rsv[o] \in Reserve /\ rsv'[o] \in Reserve /\ q \in Nat
  BY AmountTypes DEF Inv, TypeOK
<1>3. /\ d.onHand = 0
      /\ \A j \in Kinds : Counter(d, j) = IF j = k THEN -q ELSE 0
  BY DEF CounterDeltaFor, Counter, Kinds
<1> HIDE DEF q, d
<1>4. /\ rsv'[o].pc = "giving" /\ rsv'[o].todo = rsv[o].todo /\ rsv'[o].taken = rsv[o].taken
      /\ \A x \in Products, j \in Kinds :
            rsv'[o].unwritten[x][j] = IF x = p /\ j = k THEN 0 ELSE rsv[o].unwritten[x][j]
      /\ \A x \in Orders \ {o} : holds'[x] = holds[x] /\ rsv'[x] = rsv[x]
  BY <1>1 DEF Inv, TypeOK, Reserve, Items
<1>5. Mine(holds[o], rsv[o])
  BY DEF Kept, AllMine
<1>6. holds'[o].status = "held" /\ ~ holds'[o].due
  BY <1>1, <1>5 DEF Mine, Active
<1>7. Mine(holds'[o], rsv'[o])
  BY <1>4, <1>6 DEF Mine
<1>8. ASSUME NEW x \in Products, NEW j \in Kinds
      PROVE  Owed(holds'[o], rsv'[o], x, j) = Owed(holds[o], rsv[o], x, j)
  <2>1. Owed(holds[o], rsv[o], x, j) = rsv[o].taken[x][j]
    <3>1. rsv[o].pc = "giving" /\ rsv[o] \in Reserve
      BY <1>1, <1>2
    <3> QED BY <3>1, OwedIs
  <2>2. rsv'[o].pc = "giving" /\ rsv'[o] \in Reserve
    BY <1>2, <1>4
  <2>3. Owed(holds'[o], rsv'[o], x, j) = rsv'[o].taken[x][j]
    BY <2>2, OwedIs
  <2> QED BY <1>4, <2>1, <2>3
<1>9. RowsStay(levels')
  BY <1>1 DEF RowsStay
<1>10. LedgerFollows(o)
  <2>1. Tidy(rsv[o]) => Tidy(rsv'[o])
    BY <1>1, <1>4 DEF Tidy
  <2>2. \A x \in Products : ledger'[x] = IF x = p THEN Logged(ledger[p], d) ELSE ledger[x]
    BY <1>1 DEF Inv, TypeOK
  <2>3. ASSUME NEW x \in Products PROVE ledger'[x].onHand = ledger[x].onHand
    BY <1>3, <2>2, AmountTypes DEF Logged, Kinds
  <2>4. ASSUME NEW x \in Products, NEW j \in Kinds
        PROVE  RowFor(levels'[x], ledger'[x], rsv'[o], x, j) = RowFor(levels[x], ledger[x], rsv[o], x, j)
    <3>1. /\ Unrecorded(rsv[o], "giving", x, j) = rsv[o].unwritten[x][j] /\ Unrecorded(rsv[o], "recording", x, j) = 0
          /\ Unrecorded(rsv'[o], "giving", x, j) = rsv'[o].unwritten[x][j] /\ Unrecorded(rsv'[o], "recording", x, j) = 0
      BY <1>1, <1>4 DEF Unrecorded
    <3>2. rsv[o].unwritten[x][j] \in Nat /\ Counter(levels[x], j) \in Int /\ Counter(ledger[x], j) \in Int
      BY AmountTypes
    <3>3. Counter(ledger'[x], j) = Counter(ledger[x], j) - (IF x = p /\ j = k THEN q ELSE 0)
      <4>1. x = p => Counter(ledger'[x], j) = Counter(ledger[x], j) + Counter(d, j)
        BY <2>2 DEF Logged, Counter
      <4> QED BY <1>2, <1>3, <2>2, <3>2, <4>1
    <3>4. rsv'[o].unwritten[x][j] = rsv[o].unwritten[x][j] - (IF x = p /\ j = k THEN q ELSE 0)
      BY <1>4, <3>2 DEF q
    <3>5. levels'[x] = levels[x]
      BY <1>1
    <3> QED BY <1>2, <3>1, <3>2, <3>3, <3>4, <3>5 DEF RowFor, Net
  <2> QED BY <1>1, <2>1, <2>3, <2>4 DEF LedgerFollows
<1>11. QueueFollows(o)
  <2>1. AtOnce(rsv[o]) => AtOnce(rsv'[o])
    BY <1>1, <1>4 DEF AtOnce, Active
  <2>2. \A x \in Products : levels[x].row = "open" => levels'[x].available <= levels[x].available
    BY <1>1, AmountTypes DEF Kinds
  <2> QED BY <1>6, <2>1, <2>2, NobodyPaid
<1>12. \A x \in Products, j \in Kinds :
           Counter(levels'[x], j) + Owed(holds[o], rsv[o], x, j)
             = Counter(levels[x], j) + Owed(holds'[o], rsv'[o], x, j)
  BY <1>1, <1>8
<1> QED BY <1>4, <1>7, <1>9, <1>10, <1>11, <1>12, OneOrderGoes

-----------------------------------------------------------------------------
(* The transactions on a hold. *)

Share(hold, p, k) == IF hold.status \in OpenStatus THEN hold.items[p][k] ELSE 0

(* Once its reserve has returned an order is owed what its open hold names. *)
LEMMA ShareIsOwed ==
    ASSUME NEW hold, NEW r, r.pc \notin Active, NEW p, NEW k
    PROVE  Owed(hold, r, p, k) = Share(hold, p, k)
BY DEF Owed, Share

(* A product without a row is owed to nobody. *)
LEMMA NoRowNoShare ==
    ASSUME Inv, Kept, NEW o \in Orders, rsv[o].pc \notin Active,
           NEW p \in Products, levels[p].row = "none", NEW k \in Kinds
    PROVE  Share(holds[o], p, k) = 0
<1>1. Counter(levels[p], k) = 0
  BY DEF Kept, Unopened, ZeroLevel, Counter
<1>2. Owed(holds[o], rsv[o], p, k) <= Counter(levels[p], k) /\ Owed(holds[o], rsv[o], p, k) \in Nat
  BY OwedIsCovered, OwedType DEF Kept, Inv, TypeOK
<1>3. Owed(holds[o], rsv[o], p, k) = Share(holds[o], p, k)
  BY ShareIsOwed
<1> QED BY <1>1, <1>2, <1>3

(* What the counters must change by when order o's hold becomes h. *)
SharesMove(L, o, h) ==
    \A p \in Products, k \in Kinds : L[p].row # "removed" =>
        Counter(L[p], k) + Share(holds[o], p, k) = Counter(levels[p], k) + Share(h, p, k)
OwedMoves(L, H, o) ==
    \A p \in Products, k \in Kinds : L[p].row # "removed" =>
        Counter(L[p], k) + Owed(holds[o], rsv[o], p, k) = Counter(levels[p], k) + Owed(H[o], rsv[o], p, k)

(* One hold changed with its counters: the accounts stay true.              *)
LEMMA OneShareMoves ==
    ASSUME Inv, NEW L \in [Products -> Level], NEW H \in [Orders -> Hold],
           Account(levels, holds, rsv), NEW o \in Orders, \A x \in Orders \ {o} : H[x] = holds[x],
           RowsFollow(L), OwedMoves(L, H, o)
    PROVE  Account(L, H, rsv)
BY OneOrderMoves DEF OwedMoves, RowsFollow, Inv, TypeOK

(* A transaction that changes one hold and the counters by as much. *)
LEMMA OneHoldMoves ==
    ASSUME Inv, Kept, NEW o \in Orders, rsv[o].pc \notin Active,
           NEW L, LevelsOK(L), RowsStay(L), NEW h \in Hold, NEW H, H = [holds EXCEPT ![o] = h],
           SharesMove(L, o, h)
    PROVE  Recovers(L, H) /\ H \in [Orders -> Hold]
<1>1. H \in [Orders -> Hold] /\ H[o] = h /\ \A x \in Orders \ {o} : H[x] = holds[x]
  BY DEF Inv, TypeOK
<1>2. /\ L \in [Products -> Level]
      /\ Account(levels, holds, rsv) /\ AllMine(holds, rsv) /\ Unopened(levels)
  BY DEF Kept, LevelsOK
<1>3. \A p \in Products, k \in Kinds :
         /\ Owed(holds[o], rsv[o], p, k) = Share(holds[o], p, k)
         /\ Owed(H[o], rsv[o], p, k) = Share(h, p, k)
  BY <1>1, ShareIsOwed
<1>4. RowsFollow(L)
  BY DEF RowsFollow, RowsStay
<1>5. Account(L, H, rsv)
  <2>1. OwedMoves(L, H, o)
    BY <1>3 DEF OwedMoves, SharesMove
  <2> QED BY <1>1, <1>2, <1>4, <2>1, OneShareMoves
<1>6. AllMine(H, rsv)
  <2> SUFFICES ASSUME NEW x \in Orders PROVE Mine(H[x], rsv[x])
    BY DEF AllMine
  <2>1. CASE x = o
    BY <2>1 DEF Mine, Active
  <2>2. CASE x # o
    BY <1>1, <1>2, <2>2 DEF AllMine
  <2> QED BY <2>1, <2>2
<1>7. Unopened(L)
  BY <1>2 DEF Unopened, RowsStay
<1> QED BY <1>1, <1>4, <1>5, <1>6, <1>7 DEF Recovers

(* And leaves the queue as it was where it serves nobody. *)
LEMMA OneHoldQueue ==
    ASSUME Inv, NEW o \in Orders, NEW L, RowsStay(L), NEW P \in SUBSET Products,
           NEW h \in Hold, NEW H, H = [holds EXCEPT ![o] = h],
           \A p \in Products \ P : L[p].row = "open" =>
              /\ L[p].available <= levels[p].available
              /\ h.status = "committed" /\ h.items[p]["backorder"] > 0 =>
                    holds[o].status = "committed" /\ holds[o].items[p]["backorder"] > 0,
           \A p \in Products : h.items[p]["stock"] <= holds[o].items[p]["stock"]
    PROVE  QueueLeft(L, H, P)
<1>1. H \in [Orders -> Hold] /\ H[o] = h /\ \A x \in Orders \ {o} : H[x] = holds[x]
  BY DEF Inv, TypeOK
<1>2. ASSUME NEW p \in Products \ P, L[p].row = "open"
      PROVE  /\ levels[p].row = "open" /\ L[p].available <= levels[p].available
             /\ \A x \in Orders : Waiting(H, x, p) > 0 => Waiting(holds, x, p) > 0
  <2>1. levels[p].row = "open" /\ L[p].available <= levels[p].available
    BY <1>2 DEF RowsStay
  <2>2. ASSUME NEW x \in Orders, Waiting(H, x, p) > 0 PROVE Waiting(holds, x, p) > 0
    <3>1. CASE x = o
      BY <1>1, <1>2, <2>2, <3>1 DEF Waiting
    <3>2. CASE x # o
      BY <1>1, <2>2, <3>2 DEF Waiting
    <3> QED BY <3>1, <3>2
  <2> QED BY <2>1, <2>2
<1>3. ASSUME NEW x \in Orders, NEW p \in Products
      PROVE  H[x].items[p]["stock"] <= holds[x].items[p]["stock"]
  <2>1. holds[x].items[p]["stock"] \in Nat
    BY DEF Inv, TypeOK, Hold, Items, Kinds
  <2>2. CASE x = o
    BY <1>1, <2>2
  <2>3. CASE x # o
    BY <1>1, <2>1, <2>3
  <2> QED BY <2>2, <2>3
<1> QED BY <1>2, <1>3 DEF QueueLeft

(* The goods of a hold, or of some of its lines, leave it. *)
LEMMA LinesLeave ==
    ASSUME Inv, NEW items \in Items, NEW reason \in {"ship", "release", "expire"},
           reason = "ship" => ProductsOf(items, "backorder") = {},
           NEW L, L = LinesMoved(levels, reason, items)
    PROVE  /\ RowsStay(L)
           /\ \A p \in Products, k \in Kinds :
                 levels[p].row = "open" => Counter(L[p], k) = Counter(levels[p], k) - items[p][k]
           /\ \A p \in Products : levels[p].row = "open" /\ (reason = "ship" \/ items[p]["stock"] = 0) =>
                 L[p].available = levels[p].available
<1> SUFFICES ASSUME NEW p \in Products
             PROVE  /\ L[p].row = levels[p].row
                    /\ levels[p].row # "open" => L[p] = levels[p]
                    /\ levels[p].row = "open" => /\ \A k \in Kinds : Counter(L[p], k) = Counter(levels[p], k) - items[p][k]
                                                 /\ (reason = "ship" \/ items[p]["stock"] = 0)
                                                       => L[p].available = levels[p].available
  BY DEF RowsStay
<1>1. items[p]["stock"] \in Nat /\ items[p]["backorder"] \in Nat /\ levels[p] \in Level
  BY DEF Items, Kinds, Inv, TypeOK
<1>2. reason = "ship" => items[p]["backorder"] = 0
  BY <1>1 DEF ProductsOf
<1> DEFINE m == ApplyDelta(ApplyDelta(levels[p], reason, items[p].stock, "stock"), reason, items[p].backorder, "backorder")
<1>3. L[p] = m
  BY DEF LinesMoved
<1>4. /\ m.row = levels[p].row
      /\ levels[p].row # "open" => m = levels[p]
      /\ levels[p].row = "open" =>
           /\ Counter(m, "stock") = Counter(levels[p], "stock") - items[p]["stock"]
           /\ Counter(m, "backorder") = Counter(levels[p], "backorder") - items[p]["backorder"]
           /\ m.available = IF reason = "ship" THEN levels[p].available ELSE levels[p].available + items[p]["stock"]
  BY <1>1, <1>2, LeavingMoves
<1> HIDE DEF m
<1>5. levels[p].available \in Int
  BY <1>1 DEF Level
<1> QED BY <1>3, <1>4, <1>5 DEF Kinds

(* The amounts of holds and levels are numbers of units.                    *)
LEMMA HoldNats ==
    ASSUME Inv, NEW o \in Orders
    PROVE  /\ holds[o] \in Hold /\ holds[o].items \in Items
           /\ \A p \in Products, k \in Kinds : holds[o].items[p][k] \in Nat /\ Counter(levels[p], k) \in Int
           /\ \A p \in Products : levels[p].available \in Nat /\ levels[p] \in Level
BY DEF Inv, TypeOK, NeverOversold, Balanced, Hold, Items, Level, Counter

(* A payment: the hold is stamped and joins the queues it waits in.         *)
LEMMA CommitForOrderGoes ==
    ASSUME Inv, Inv', Kept, NEW o \in Orders, CommitForOrder(o)
    PROVE  Goes
<1> DEFINE h == Stamped(holds[o])
           H == [holds EXCEPT ![o] = h]
           P == ProductsOf(holds[o].items, "backorder")
<1>1. /\ rsv[o].pc = "placed" /\ holds[o].status = "held"
      /\ ServeAndRecord(levels, H, P) /\ rsv' = rsv /\ shrink' = shrink
  BY DEF CommitForOrder, Known
<1>2. h \in Hold /\ h.status = "committed" /\ h.items = holds[o].items
  <2>1. clock + 1 \in Nat /\ holds[o] \in Hold
    BY DEF Inv, TypeOK
  <2> QED BY <2>1 DEF Stamped, Hold, HoldStatus
<1>3. P \in SUBSET Products /\ \A p \in Products \ P : ~ (holds[o].items[p]["backorder"] > 0)
  BY DEF ProductsOf
<1> HIDE DEF h, P
<1>4. LevelsOK(levels) /\ RowsStay(levels)
  BY LevelsAreOK DEF RowsStay
<1>5. ASSUME NEW p \in Products, NEW k \in Kinds
      PROVE  Counter(levels[p], k) + Share(holds[o], p, k) = Counter(levels[p], k) + Share(h, p, k)
  <2>1. Share(h, p, k) = Share(holds[o], p, k)
    BY <1>1, <1>2 DEF Share, OpenStatus
  <2> QED BY <2>1
<1>6. Recovers(levels, H) /\ H \in [Orders -> Hold]
  <2>1. rsv[o].pc \notin Active
    BY <1>1 DEF Active
  <2>2. SharesMove(levels, o, h)
    BY <1>5 DEF SharesMove
  <2> HIDE DEF H
  <2>3. H = [holds EXCEPT ![o] = h]
    BY DEF H
  <2> QED BY <1>2, <1>4, <2>1, <2>2, <2>3, OneHoldMoves
<1>7. QueueLeft(levels, H, P)
  <2> HIDE DEF H
  <2> QED BY <1>2, <1>3, <1>4, HoldNats, OneHoldQueue DEF H, Kinds
<1> HIDE DEF H
<1> QED BY <1>1, <1>3, <1>4, <1>6, <1>7, TransactionGoes

(* A payment of a released hold: every line taken again, then stamped.      *)
LEMMA CommitReleasedForOrderGoes ==
    ASSUME Inv, Inv', Kept, NEW o \in Orders, CommitReleasedForOrder(o)
    PROVE  Goes
<1> DEFINE h == Stamped(holds[o])
           H == [holds EXCEPT ![o] = h]
           P == ProductsOf(holds[o].items, "backorder")
           L == Retaken(o)
<1>1. /\ rsv[o].pc = "placed" /\ holds[o].status = "released" /\ RetakeAllowed(o)
      /\ ServeAndRecord(L, H, P) /\ rsv' = rsv /\ shrink' = shrink
  BY DEF CommitReleasedForOrder, Known
<1>2. h \in Hold /\ h.status = "committed" /\ h.items = holds[o].items
  <2>1. clock + 1 \in Nat /\ holds[o] \in Hold
    BY DEF Inv, TypeOK
  <2> QED BY <2>1 DEF Stamped, Hold, HoldStatus
<1>3. P \in SUBSET Products /\ \A p \in Products \ P : ~ (holds[o].items[p]["backorder"] > 0)
  BY DEF ProductsOf
<1>4. LevelsOK(L)
  BY <1>1, RetakenOK
<1>5. ASSUME NEW p \in Products
      PROVE  /\ L[p].row = levels[p].row
             /\ levels[p].row # "open" => L[p] = levels[p] /\ \A k \in Kinds : holds[o].items[p][k] = 0
             /\ levels[p].row = "open" =>
                  /\ \A k \in Kinds : Counter(L[p], k) = Counter(levels[p], k) + holds[o].items[p][k]
                  /\ L[p].available <= levels[p].available
  <2> DEFINE a == holds[o].items[p]["stock"]
             b == holds[o].items[p]["backorder"]
             m == ApplyDelta(ApplyDelta(levels[p], "reserve", a, "stock"), "backorder", b, "backorder")
  <2>1. L[p] = m
    BY DEF Retaken
  <2>2. a \in Nat /\ b \in Nat /\ levels[p] \in Level /\ levels[p].available \in Nat
    BY HoldNats DEF Kinds
  <2>3. levels[p].row # "open" => a = 0 /\ b = 0
    BY <1>1, <2>2 DEF RetakeAllowed, Allowed
  <2> HIDE DEF a, b
  <2>4. /\ m.row = levels[p].row
        /\ levels[p].row # "open" => m = levels[p]
        /\ levels[p].row = "open" =>
             /\ Counter(m, "stock") = Counter(levels[p], "stock") + a
             /\ Counter(m, "backorder") = Counter(levels[p], "backorder") + b
             /\ m.available = levels[p].available - a
    BY <2>2, TakingMoves
  <2> HIDE DEF m, L
  <2> QED BY <2>1, <2>2, <2>3, <2>4 DEF a, b, Kinds
<1> HIDE DEF h, P, L
<1>6. RowsStay(L)
  BY <1>5 DEF RowsStay
<1>7. ASSUME NEW p \in Products, NEW k \in Kinds
      PROVE  Counter(L[p], k) + Share(holds[o], p, k) = Counter(levels[p], k) + Share(h, p, k)
  <2>1. Share(holds[o], p, k) = 0 /\ Share(h, p, k) = holds[o].items[p][k]
    BY <1>1, <1>2 DEF Share, OpenStatus
  <2>2. Counter(levels[p], k) \in Int /\ holds[o].items[p][k] \in Nat
    BY HoldNats
  <2>3. Counter(L[p], k) = Counter(levels[p], k) + holds[o].items[p][k]
    BY <1>5, <2>2
  <2> QED BY <2>1, <2>2, <2>3
<1>8. Recovers(L, H) /\ H \in [Orders -> Hold]
  <2>1. rsv[o].pc \notin Active
    BY <1>1 DEF Active
  <2>2. SharesMove(L, o, h)
    BY <1>7 DEF SharesMove
  <2> HIDE DEF H
  <2>3. H = [holds EXCEPT ![o] = h]
    BY DEF H
  <2> QED BY <1>2, <1>4, <1>6, <2>1, <2>2, <2>3, OneHoldMoves
<1>9. QueueLeft(L, H, P)
  <2> HIDE DEF H
  <2> QED BY <1>2, <1>3, <1>5, <1>6, HoldNats, OneHoldQueue DEF H, Kinds
<1> HIDE DEF H
<1> QED BY <1>1, <1>3, <1>4, <1>8, <1>9, TransactionGoes

(* Lines leave order o's hold, which keeps the rest, or ends. *)
LEMMA LeavingGoes ==
    ASSUME Inv, Inv', Kept, NEW o \in Orders, rsv[o].pc \notin Active, holds[o].status \in OpenStatus,
           NEW out \in Items, NEW reason \in {"ship", "release", "expire"},
           reason = "ship" => ProductsOf(out, "backorder") = {},
           LinesAllowed(levels, reason, out),
           NEW h \in Hold, h.status = holds[o].status \/ h.status \notin OpenStatus,
           \A p \in Products, k \in Kinds :
              /\ h.items[p][k] <= holds[o].items[p][k]
              /\ Share(h, p, k) = holds[o].items[p][k] - out[p][k],
           NEW P \in SUBSET Products,
           reason # "ship" => \A p \in Products \ P : out[p]["stock"] = 0,
           ServeAndRecord(LinesMoved(levels, reason, out), [holds EXCEPT ![o] = h], P),
           rsv' = rsv, shrink' = shrink
    PROVE  Goes
<1> DEFINE H == [holds EXCEPT ![o] = h]
           L == LinesMoved(levels, reason, out)
<1>1. LevelsOK(L)
  BY LevelsAreOK, LinesMovedOK
<1>2. /\ RowsStay(L)
      /\ \A p \in Products, k \in Kinds : levels[p].row = "open" => Counter(L[p], k) = Counter(levels[p], k) - out[p][k]
      /\ \A p \in Products : levels[p].row = "open" /\ (reason = "ship" \/ out[p]["stock"] = 0) =>
            L[p].available = levels[p].available
  BY LinesLeave
<1>3. ServeAndRecord(L, H, P)
  OBVIOUS
<1> HIDE DEF L
<1>4. SharesMove(L, o, h)
  <2>1. ASSUME NEW p \in Products, NEW k \in Kinds, L[p].row # "removed"
        PROVE  Counter(L[p], k) + Share(holds[o], p, k) = Counter(levels[p], k) + Share(h, p, k)
    <3>1. /\ Counter(levels[p], k) \in Int /\ holds[o].items[p][k] \in Nat /\ out[p][k] \in Nat
          /\ Share(holds[o], p, k) = holds[o].items[p][k]
          /\ Share(h, p, k) = holds[o].items[p][k] - out[p][k]
      BY HoldNats DEF Items, Share
    <3>2. CASE levels[p].row = "open"
      BY <1>2, <3>1, <3>2
    <3>3. CASE levels[p].row # "open"
      <4>1. L[p] = levels[p] /\ levels[p].row = "none"
        BY <1>2, <2>1, <3>3 DEF RowsStay, Inv, TypeOK, Level, RowStates
      <4>2. Share(holds[o], p, k) = 0
        BY <4>1, NoRowNoShare
      <4>3. Share(h, p, k) \in Nat
        BY DEF Share, Hold, Items
      <4> QED BY <3>1, <4>1, <4>2, <4>3
    <3> QED BY <3>2, <3>3
  <2> QED BY <2>1 DEF SharesMove
<1>5. Recovers(L, H) /\ H \in [Orders -> Hold]
  <2> HIDE DEF H
  <2>1. H = [holds EXCEPT ![o] = h]
    BY DEF H
  <2> QED BY <1>1, <1>2, <1>4, <2>1, OneHoldMoves
<1>6. QueueLeft(L, H, P)
  <2>1. ASSUME NEW p \in Products \ P, L[p].row = "open"
        PROVE  /\ L[p].available <= levels[p].available
               /\ h.status = "committed" /\ h.items[p]["backorder"] > 0 =>
                     holds[o].status = "committed" /\ holds[o].items[p]["backorder"] > 0
    <3>1. levels[p].row = "open" /\ levels[p].available \in Nat
      BY <1>2, <2>1, HoldNats DEF RowsStay
    <3>2. L[p].available = levels[p].available
      BY <1>2, <2>1, <3>1
    <3>3. h.items[p]["backorder"] <= holds[o].items[p]["backorder"]
      BY DEF Kinds
    <3>4. h.items[p]["backorder"] \in Nat /\ holds[o].items[p]["backorder"] \in Nat
      BY HoldNats DEF Hold, Items, Kinds
    <3> QED BY <3>1, <3>2, <3>3, <3>4 DEF OpenStatus
  <2>2. \A p \in Products : h.items[p]["stock"] <= holds[o].items[p]["stock"]
    BY DEF Kinds
  <2> HIDE DEF H
  <2>3. H = [holds EXCEPT ![o] = h]
    BY DEF H
  <2> QED BY <1>2, <2>1, <2>2, <2>3, OneHoldQueue
<1> HIDE DEF H
<1> QED BY <1>1, <1>3, <1>5, <1>6, TransactionGoes

(* A shipment: the units leave the shelf with the promise.                  *)
LEMMA ShipForOrderGoes ==
    ASSUME Inv, Inv', Kept, NEW o \in Orders, ShipForOrder(o)
    PROVE  Goes
<1> DEFINE h == [holds[o] EXCEPT !.status = "shipped"]
           out == holds[o].items
<1>1. /\ rsv[o].pc \notin Active /\ holds[o].status \in OpenStatus
      /\ ProductsOf(out, "backorder") = {} /\ LinesAllowed(levels, "ship", out)
      /\ ServeAndRecord(LinesMoved(levels, "ship", out), [holds EXCEPT ![o].status = "shipped"], {})
      /\ rsv' = rsv /\ shrink' = shrink
  BY DEF ShipForOrder, Known, Active
<1>2. [holds EXCEPT ![o].status = "shipped"] = [holds EXCEPT ![o] = h]
  OBVIOUS
<1>3. h \in Hold /\ h.status = "shipped" /\ h.items = out /\ out \in Items
  BY HoldNats DEF Hold, HoldStatus
<1> HIDE DEF h
<1>4. ASSUME NEW p \in Products, NEW k \in Kinds
      PROVE  h.items[p][k] <= out[p][k] /\ Share(h, p, k) = out[p][k] - out[p][k]
  BY <1>3, HoldNats DEF Share, OpenStatus
<1>5. h.status \notin OpenStatus
  BY <1>3 DEF OpenStatus
<1>6. ServeAndRecord(LinesMoved(levels, "ship", out), [holds EXCEPT ![o] = h], {})
  BY <1>1, <1>2
<1> QED BY <1>1, <1>3, <1>4, <1>5, <1>6, LeavingGoes

(* A release or an expiry: freed shelf units serve the queue first.         *)
LEMMA GiveBackHoldGoes ==
    ASSUME Inv, Inv', Kept, NEW o \in Orders, rsv[o].pc \notin Active, NEW from \in OpenStatus,
           NEW reason \in {"release", "expire"}, GiveBackHold(o, from, reason)
    PROVE  Goes
<1> DEFINE h == [holds[o] EXCEPT !.status = "released"]
           out == holds[o].items
           P == ProductsOf(out, "stock")
<1>1. /\ holds[o].status \in OpenStatus /\ LinesAllowed(levels, reason, out)
      /\ ServeAndRecord(LinesMoved(levels, reason, out), Released(holds, o), P)
      /\ rsv' = rsv /\ shrink' = shrink
  BY DEF GiveBackHold
<1>2. Released(holds, o) = [holds EXCEPT ![o] = h]
  BY DEF Released
<1>3. h \in Hold /\ h.status = "released" /\ h.items = out /\ out \in Items
  BY HoldNats DEF Hold, HoldStatus
<1> HIDE DEF h
<1>4. ASSUME NEW p \in Products, NEW k \in Kinds
      PROVE  h.items[p][k] <= out[p][k] /\ Share(h, p, k) = out[p][k] - out[p][k]
  BY <1>3, HoldNats DEF Share, OpenStatus
<1>5. h.status \notin OpenStatus
  BY <1>3 DEF OpenStatus
<1>6. P \in SUBSET Products /\ \A p \in Products \ P : out[p]["stock"] = 0
  BY HoldNats DEF ProductsOf, Kinds
<1>7. ServeAndRecord(LinesMoved(levels, reason, out), [holds EXCEPT ![o] = h], P)
  BY <1>1, <1>2
<1> HIDE DEF P
<1> QED BY <1>1, <1>3, <1>4, <1>5, <1>6, <1>7, LeavingGoes

(* No more is taken from a hold than it has. *)
LEMMA TakenWithin ==
    ASSUME NEW items \in Items, NEW lines \in Items, NEW p \in Products, NEW k \in Kinds
    PROVE  /\ TakenFrom(items, lines)[p][k] \in Nat /\ items[p][k] \in Nat
           /\ TakenFrom(items, lines)[p][k] <= items[p][k]
<1>1. TakenFrom(items, lines)[p][k] \in Nat
  <2>1. TakenFrom(items, lines) \in Items
    BY ItemsTypes
  <2> QED BY <2>1 DEF Items
<1>2. /\ items[p].stock \in Nat /\ items[p].backorder \in Nat
      /\ lines[p].stock \in Nat /\ lines[p].backorder \in Nat
  BY DEF Items, Kinds
<1> DEFINE claim == Smaller(lines[p].backorder, items[p].backorder)
<1>3. claim \in Nat /\ claim <= lines[p].backorder /\ claim <= items[p].backorder
  BY <1>2 DEF Smaller
<1>4. TakenFrom(items, lines)[p][k] = IF k = "backorder" THEN claim
                                      ELSE Smaller(lines[p].stock + lines[p].backorder - claim, items[p].stock)
  BY DEF TakenFrom
<1> HIDE DEF claim
<1>5. Smaller(lines[p].stock + lines[p].backorder - claim, items[p].stock) <= items[p].stock
  BY <1>2, <1>3 DEF Smaller
<1>6. items[p][k] \in Nat
  BY DEF Items
<1> QED BY <1>1, <1>3, <1>4, <1>5, <1>6 DEF Kinds

(* A parcel shipped or a remainder canceled.                                *)
LEMMA TakeLinesGoes ==
    ASSUME Inv, Inv', Kept, NEW o \in Orders, NEW lines \in Parcels,
           NEW reason \in {"ship", "release"}, NEW endsAs \in {"shipped", "released"},
           TakeLines(o, lines, reason, endsAs)
    PROVE  Goes
<1> DEFINE out == TakenFrom(holds[o].items, lines)
           rest == Minus(holds[o].items, out)
           freed == IF reason = "release" THEN ProductsOf(out, "stock") ELSE {}
           ends == IF NoLines(rest) THEN endsAs ELSE holds[o].status
           h == [holds[o] EXCEPT !.items = rest, !.status = ends]
           H == [holds EXCEPT ![o].items = rest,
                              ![o].status = IF NoLines(rest) THEN endsAs ELSE @]
<1>1. /\ rsv[o].pc \notin Active /\ holds[o].status \in OpenStatus
      /\ reason = "ship" => ProductsOf(out, "backorder") = {}
      /\ LinesAllowed(levels, reason, out)
      /\ ServeAndRecord(LinesMoved(levels, reason, out), H, freed)
      /\ rsv' = rsv /\ shrink' = shrink
  BY DEF TakeLines, Known, Active
<1>2. lines \in Items /\ holds[o].items \in Items /\ holds[o] \in Hold
  BY InventoryAssumption, HoldNats
<1>3. out \in Items /\ rest \in Items
  <2>1. out \in Items
    BY <1>2, ItemsTypes
  <2> HIDE DEF out
  <2> QED BY <1>2, <2>1, ItemsTypes
<1>4. ASSUME NEW p \in Products, NEW k \in Kinds
      PROVE  /\ out[p][k] \in Nat /\ holds[o].items[p][k] \in Nat /\ out[p][k] <= holds[o].items[p][k]
             /\ rest[p][k] = holds[o].items[p][k] - out[p][k]
  <2>1. out[p][k] \in Nat /\ holds[o].items[p][k] \in Nat /\ out[p][k] <= holds[o].items[p][k]
    BY <1>2, TakenWithin
  <2> HIDE DEF out
  <2>2. rest[p][k] = NatOf(holds[o].items[p][k] - out[p][k])
    BY DEF Minus
  <2> HIDE DEF rest
  <2> QED BY <2>1, <2>2 DEF NatOf
<1>5. H = [holds EXCEPT ![o] = h]
  <2> HIDE DEF rest
  <2> QED BY DEF Inv, TypeOK, Hold
<1> HIDE DEF out, rest
<1>6. ends \in HoldStatus
  BY <1>2 DEF Hold, HoldStatus
<1> HIDE DEF ends
<1>7. h \in Hold /\ h.status = ends /\ h.items = rest
  BY <1>2, <1>3, <1>6 DEF Hold
<1> HIDE DEF h, H
<1>8. ASSUME NEW p \in Products, NEW k \in Kinds
      PROVE  h.items[p][k] <= holds[o].items[p][k] /\ Share(h, p, k) = holds[o].items[p][k] - out[p][k]
  <2>1. Share(h, p, k) = rest[p][k]
    BY <1>1, <1>7 DEF Share, ends, NoLines, OpenStatus
  <2> QED BY <1>4, <1>7, <2>1
<1>9. h.status = holds[o].status \/ h.status \notin OpenStatus
  BY <1>7 DEF ends, OpenStatus
<1>10. /\ freed \in SUBSET Products
       /\ reason # "ship" => \A p \in Products \ freed : out[p]["stock"] = 0
  BY <1>4 DEF ProductsOf, Kinds
<1>11. ServeAndRecord(LinesMoved(levels, reason, out), [holds EXCEPT ![o] = h], freed)
  BY <1>1, <1>5
<1> HIDE DEF freed
<1> QED BY <1>1, <1>3, <1>7, <1>8, <1>9, <1>10, <1>11, LeavingGoes

(* A deadline passes or is moved. *)
LEMMA DeadlineGoes ==
    ASSUME Inv, Inv', Kept, NEW o \in Orders, faults' = faults, HoldLapses(o) \/ ExtendHoldForOrder(o)
    PROVE  Goes
<1>1. /\ rsv[o].pc \in {"placed", "crashed"} /\ holds[o].status = "held"
      /\ levels' = levels /\ ledger' = ledger /\ rsv' = rsv /\ shrink' = shrink
      /\ \E due \in BOOLEAN : holds' = [holds EXCEPT ![o].due = due]
  <2>1. CASE HoldLapses(o)
    <3>1. rsv[o].pc \in {"placed", "crashed"}
      BY <2>1 DEF HoldLapses, Inv, TypeOK
    <3> QED BY <2>1, <3>1 DEF HoldLapses
  <2>2. CASE ExtendHoldForOrder(o)
    BY <2>2 DEF ExtendHoldForOrder, Known
  <2> QED BY <2>1, <2>2
<1>2. /\ holds'[o].status = "held" /\ holds'[o].items = holds[o].items
      /\ \A x \in Orders \ {o} : holds'[x] = holds[x] /\ rsv'[x] = rsv[x]
  BY <1>1 DEF Inv, TypeOK, Hold
<1>3. rsv[o].pc \notin Active
  BY <1>1 DEF Active
<1>4. \A p \in Products, k \in Kinds : Owed(holds'[o], rsv'[o], p, k) = Owed(holds[o], rsv[o], p, k)
  BY <1>1, <1>2, <1>3 DEF Owed
<1>5. Mine(holds'[o], rsv'[o])
  BY <1>1, <1>3 DEF Mine, Active
<1>6. LedgerFollows(o) /\ RowsStay(levels')
  BY <1>1, CountersStay
<1>7. QueueFollows(o)
  <2>1. \A p \in Products : levels[p].row = "open" => levels'[p].available <= levels[p].available
    BY <1>1, AmountTypes DEF Kinds
  <2> QED BY <1>1, <1>2, <2>1, NobodyPaid
<1>8. \A p \in Products, k \in Kinds :
          Counter(levels'[p], k) + Owed(holds[o], rsv[o], p, k)
            = Counter(levels[p], k) + Owed(holds'[o], rsv'[o], p, k)
  BY <1>1, <1>4
<1> QED BY <1>2, <1>5, <1>6, <1>7, <1>8, OneOrderGoes

(* A lost parcel is set aside again: units of the shelf first, and only     *)
(* what the shelf has not is owed.                                          *)
LEMMA ReserveMoreForOrderGoes ==
    ASSUME Inv, Inv', Kept, NEW o \in Orders, NEW lost \in Losses, ReserveMoreForOrder(o, lost)
    PROVE  Goes
<1> DEFINE added == TopUpParts(lost)
           open == holds[o].status \in OpenStatus
           stamp == IF open \/ holds[o].committedAt > 0 THEN clock ELSE clock + 1
           m(p) == ApplyDelta(ApplyDelta(levels[p], "reserve", added[p].stock, "stock"),
                              "owed", added[p].backorder, "backorder")
           M == [p \in Products |-> m(p)]
           h == ToppedUp(holds[o], added, stamp)
<1>1. /\ rsv[o].pc = "placed"
      /\ levels' = M /\ ledger' = Recorded(levels, M)
      /\ holds' = [holds EXCEPT ![o] = h]
      /\ rsv' = rsv /\ shrink' = shrink
  BY DEF ReserveMoreForOrder, Known
<1>2. added \in Items /\ lost \in [Products -> Nat]
  BY TopUpPartsType, InventoryAssumption
<1>3. ASSUME NEW p \in Products
      PROVE  /\ added[p]["stock"] \in Nat /\ added[p]["backorder"] \in Nat
             /\ levels[p].row # "open" => added[p]["stock"] = 0 /\ added[p]["backorder"] = 0
             /\ added[p]["stock"] <= levels[p].available
             /\ added[p]["backorder"] > 0 => added[p]["stock"] = levels[p].available
  <2>1. levels[p].available \in Nat /\ lost[p] \in Nat
    BY <1>2, HoldNats
  <2>2. /\ added[p]["stock"] = IF levels[p].row # "open" THEN 0 ELSE Smaller(NatOf(levels[p].available), lost[p])
        /\ added[p]["backorder"] = IF levels[p].row # "open" THEN 0
                                   ELSE lost[p] - Smaller(NatOf(levels[p].available), lost[p])
    BY DEF TopUpParts, Kinds
  <2>3. Smaller(NatOf(levels[p].available), lost[p])
          = IF levels[p].available < lost[p] THEN levels[p].available ELSE lost[p]
    BY <2>1 DEF Smaller, NatOf
  <2> HIDE DEF added
  <2> QED BY <2>1, <2>2, <2>3
<1>4. /\ h.items = IF open THEN WithAdded(holds[o].items, added) ELSE added
      /\ h.status = IF open THEN holds[o].status ELSE "committed"
  BY HoldNats DEF ToppedUp, Hold
<1> HIDE DEF added, h
<1>5. ASSUME NEW p \in Products
      PROVE  /\ m(p).row = levels[p].row
             /\ levels[p].row # "open" => m(p) = levels[p]
             /\ levels[p].row = "open" =>
                  /\ Counter(m(p), "stock") = Counter(levels[p], "stock") + added[p]["stock"]
                  /\ Counter(m(p), "backorder") = Counter(levels[p], "backorder") + added[p]["backorder"]
                  /\ m(p).available = levels[p].available - added[p]["stock"]
  BY <1>3, HoldNats, TakingMoves
<1>6. \A p \in Products : levels'[p] = m(p)
  BY <1>1
<1> HIDE DEF m, M
<1>7. RowsStay(levels')
  BY <1>5, <1>6 DEF RowsStay
<1>8. /\ holds'[o] = h /\ \A x \in Orders \ {o} : holds'[x] = holds[x] /\ rsv'[x] = rsv[x]
      /\ rsv[o].pc \notin Active
  BY <1>1 DEF Inv, TypeOK, Active
<1>9. ASSUME NEW p \in Products, NEW k \in Kinds
      PROVE  Counter(levels'[p], k) + Owed(holds[o], rsv[o], p, k)
               = Counter(levels[p], k) + Owed(holds'[o], rsv'[o], p, k)
  <2>1. /\ Owed(holds[o], rsv[o], p, k) = IF open THEN holds[o].items[p][k] ELSE 0
        /\ Owed(holds'[o], rsv'[o], p, k) = h.items[p][k]
    <3>1. Owed(holds'[o], rsv'[o], p, k) = Share(h, p, k) /\ Owed(holds[o], rsv[o], p, k) = Share(holds[o], p, k)
      BY <1>1, <1>8, ShareIsOwed
    <3> QED BY <1>4, <3>1 DEF Share, OpenStatus
  <2>2. h.items[p][k] = (IF open THEN holds[o].items[p][k] ELSE 0) + added[p][k]
    BY <1>2, <1>4 DEF WithAdded, Items
  <2>3. Counter(levels[p], k) \in Int /\ holds[o].items[p][k] \in Nat /\ added[p][k] \in Nat
    BY <1>2, HoldNats DEF Items
  <2>4. Counter(levels'[p], k) = Counter(levels[p], k) + added[p][k]
    <3>1. (added[p]["stock"] = 0 /\ added[p]["backorder"] = 0 /\ m(p) = levels[p]) \/ levels[p].row = "open"
      BY <1>3, <1>5
    <3> QED BY <1>5, <1>6, <2>3, <3>1 DEF Kinds
  <2> HIDE DEF open
  <2> QED BY <2>1, <2>2, <2>3, <2>4
<1>10. Kept'
  <2>1. Account(levels', holds', rsv')
    <3>1. OwedMoves(levels', holds', o)
      BY <1>1, <1>9 DEF OwedMoves
    <3>2. RowsFollow(levels') /\ levels' \in [Products -> Level] /\ holds' \in [Orders -> Hold]
      BY <1>7 DEF RowsFollow, RowsStay, Inv, TypeOK
    <3>3. Account(levels', holds', rsv)
      BY <1>8, <3>1, <3>2, OneShareMoves DEF Kept
    <3> QED BY <1>1, <3>3
  <2>2. AllMine(holds', rsv')
    <3> SUFFICES ASSUME NEW x \in Orders PROVE Mine(holds'[x], rsv'[x])
      BY DEF AllMine
    <3>1. CASE x = o
      BY <1>1, <1>8, <3>1 DEF Mine, Active
    <3>2. CASE x # o
      BY <1>8, <3>2 DEF Kept, AllMine
    <3> QED BY <3>1, <3>2
  <2>3. Unopened(levels')
    BY <1>7 DEF Unopened, RowsStay, Kept
  <2> QED BY <2>1, <2>2, <2>3 DEF Kept
<1>11. LedgerFollows(o)
  <2>1. ASSUME NEW p \in Products
        PROVE  levels'[p].onHand - ledger'[p].onHand = levels[p].onHand - ledger[p].onHand
    <3>1. ledger'[p].onHand = ledger[p].onHand + levels'[p].onHand - levels[p].onHand
      BY <1>1 DEF Recorded
    <3>2. levels[p].onHand \in Int /\ levels'[p].onHand \in Int /\ ledger[p].onHand \in Int
      BY DEF Inv, TypeOK, Level, Movement
    <3> QED BY <3>1, <3>2
  <2>2. ASSUME NEW p \in Products, NEW k \in Kinds
        PROVE  RowFor(levels'[p], ledger'[p], rsv'[o], p, k) = RowFor(levels[p], ledger[p], rsv[o], p, k)
    <3>1. \A pc \in {"giving", "recording"} :
            Unrecorded(rsv'[o], pc, p, k) = 0 /\ Unrecorded(rsv[o], pc, p, k) = 0
      BY <1>1 DEF Unrecorded
    <3>2. Counter(ledger'[p], k) = Counter(ledger[p], k) + Counter(levels'[p], k) - Counter(levels[p], k)
      BY <1>1 DEF Recorded, Counter
    <3>3. Counter(levels[p], k) \in Int /\ Counter(ledger[p], k) \in Int /\ Counter(levels'[p], k) \in Int
      BY DEF Inv, TypeOK, Level, Movement, Counter
    <3> QED BY <3>1, <3>2, <3>3 DEF RowFor, Net
  <2> QED BY <1>1, <2>1, <2>2 DEF LedgerFollows
<1>12. Written => Written'
  BY <1>7, <1>8, <1>11, WrittenFollows
<1>13. ASSUME Lined PROVE Lined' /\ InTurn
  <2>1. ASSUME NEW p \in Products, levels'[p].row = "open", NEW x \in Orders, Waiting(holds', x, p) # 0
        PROVE  levels'[p].available = 0
    <3>1. /\ levels[p].row = "open" /\ levels[p].available \in Nat
          /\ levels'[p].available = levels[p].available - added[p]["stock"]
          /\ added[p]["stock"] \in Nat /\ added[p]["stock"] <= levels[p].available
      BY <1>3, <1>5, <1>6, <2>1, HoldNats
    <3>2. levels[p].available = 0 \/ \A y \in Orders : Waiting(holds, y, p) = 0
      BY <1>13, <3>1 DEF Lined, NobodyWaits
    <3>3. CASE x # o
      <4>1. Waiting(holds, x, p) # 0
        BY <1>8, <2>1, <3>3 DEF Waiting
      <4> QED BY <3>1, <3>2, <4>1
    <3>4. CASE x = o
      <4>1. h.status = "committed" /\ h.items[p]["backorder"] # 0
        BY <1>8, <2>1, <3>4 DEF Waiting
      <4>2. CASE added[p]["backorder"] > 0
        BY <1>3, <3>1, <4>2
      <4>3. CASE ~ (added[p]["backorder"] > 0)
        <5>1. added[p]["backorder"] = 0
          BY <1>3, <4>3
        <5>2. open
          BY <1>4, <4>1, <5>1
        <5>3. h.items[p]["backorder"] = holds[o].items[p]["backorder"] + added[p]["backorder"]
          BY <1>4, <5>2 DEF WithAdded, Kinds
        <5>4. holds[o].items[p]["backorder"] \in Nat
          BY HoldNats DEF Kinds
        <5>5. holds[o].items[p]["backorder"] # 0 /\ holds[o].status = "committed"
          BY <1>4, <4>1, <5>1, <5>2, <5>3, <5>4
        <5>6. Waiting(holds, o, p) # 0
          BY <5>5 DEF Waiting
        <5> QED BY <3>1, <3>2, <5>6
      <4> QED BY <4>2, <4>3
    <3> QED BY <3>3, <3>4
  <2>2. \A x \in Orders : AtOnce(rsv'[x])
    BY <1>1, <1>13 DEF Lined
  <2>3. ASSUME NEW p \in Products, NEW a \in Orders, NEW b \in Orders,
               holds'[b].status = "committed",
               holds'[b].items[p].stock > holds[b].items[p].stock,
               holds'[b].items[p].backorder < holds[b].items[p].backorder,
               holds'[a].committedAt < holds'[b].committedAt
        PROVE  Waiting(holds', a, p) = 0
    <3>1. /\ holds[b].items[p].stock \in Nat /\ holds'[b].items[p].stock \in Nat
          /\ holds[b].items[p].backorder \in Nat /\ holds'[b].items[p].backorder \in Nat
          /\ holds'[b].committedAt \in Nat
      BY DEF Inv, TypeOK, Hold, Items, Kinds
    <3>2. b = o /\ a # o
      <4>1. b = o
        BY <1>8, <2>3, <3>1
      <4> QED BY <2>3, <3>1, <4>1
    <3>3. ~ open
      <4> SUFFICES ASSUME open PROVE FALSE
        OBVIOUS
      <4>1. h.items[p]["backorder"] = holds[o].items[p]["backorder"] + added[p]["backorder"]
        BY <1>4 DEF WithAdded, Kinds
      <4> HIDE DEF open
      <4> QED BY <1>3, <1>8, <2>3, <3>1, <3>2, <4>1
    <3>4. added[p]["stock"] > 0
      BY <1>3, <1>4, <1>8, <2>3, <3>1, <3>2, <3>3
    <3>5. levels[p].row = "open" /\ levels[p].available # 0
      BY <1>3, <3>4, HoldNats
    <3>6. Waiting(holds, a, p) = 0
      BY <1>13, <3>5 DEF Lined, NobodyWaits
    <3> QED BY <1>8, <3>2, <3>6 DEF Waiting
  <2> QED BY <2>1, <2>2, <2>3 DEF Lined, NobodyWaits, InTurn
<1>14. OneLine /\ Lined => Lined' /\ InTurn
  BY <1>13
<1> QED BY <1>10, <1>12, <1>14 DEF Goes

-----------------------------------------------------------------------------
(* Staff. *)

(* A step of the shelf alone. *)
SameCounters(l, m) == /\ m.row # "removed"
                /\ \A k \in Kinds : Counter(l, k) = Counter(m, k)
Gap(l, s, m) == l.onHand + s - m.onHand
LevelsFollow ==
    \A p \in Products : levels'[p].row # "removed" =>
        /\ SameCounters(levels'[p], levels[p])
        /\ \A k \in Kinds : Counter(ledger'[p], k) = Counter(ledger[p], k)
        /\ Gap(levels'[p], shrink'[p], ledger'[p]) = Gap(levels[p], shrink[p], ledger[p])
ShelfFollows ==
    \A p \in Products : levels'[p].row = "open" =>
        \/ levels'[p].available = 0
        \/ levels[p].row = "open" /\ levels'[p].available <= levels[p].available

(* Shelf and ledger stay even when their difference does.                   *)
LEMMA NoGap ==
    ASSUME NEW l \in Level, NEW m \in Movement, NEW s \in Int,
           NEW l2 \in Level, NEW m2 \in Movement, NEW s2 \in Int,
           Gap(l2, s2, m2) = Gap(l, s, m), l.onHand + s = m.onHand
    PROVE  l2.onHand + s2 = m2.onHand
<1>1. l.onHand \in Int /\ m.onHand \in Int /\ l2.onHand \in Int /\ m2.onHand \in Int
  BY DEF Level, Movement
<1>2. l2.onHand + s2 - m2.onHand = l.onHand + s - m.onHand
  BY DEF Gap
<1> DEFINE a == l.onHand
           c == m.onHand
           d == l2.onHand
           f == m2.onHand
<1>3. a \in Int /\ c \in Int /\ d \in Int /\ f \in Int /\ d + s2 - f = a + s - c /\ a + s = c
  BY <1>1, <1>2
<1> HIDE DEF a, c, d, f
<1>4. d + s2 = f
  BY <1>3
<1> QED BY <1>4 DEF d, f

(* Opening, capping, removing and correcting a row move no counter of the   *)
(* holds and put nothing on sale.                                           *)
LEMMA ShelfStepGoes ==
    ASSUME Inv, Inv', Kept, holds' = holds, rsv' = rsv, Unopened(levels'), LevelsFollow, ShelfFollows
    PROVE  Goes
<1>1. Kept'
  <2>1. \A p \in Products : levels'[p].row # "removed" =>
          levels[p].row # "removed" /\ \A k \in Kinds : Counter(levels'[p], k) = Counter(levels[p], k)
    BY DEF LevelsFollow, SameCounters
  <2>2. Account(levels, holds, rsv)
    BY DEF Kept
  <2>3. Account(levels', holds, rsv)
    BY <2>1, <2>2, NothingOwedMoves
  <2>4. AllMine(holds, rsv)
    BY DEF Kept
  <2> QED BY <2>3, <2>4 DEF Kept
<1>2. ASSUME Written PROVE Written'
  <2>1. ASSUME NEW p \in Products, levels'[p].row # "removed"
        PROVE  /\ levels'[p].onHand + shrink'[p] = ledger'[p].onHand
               /\ \A k \in Kinds : Counter(levels'[p], k) + InFlight(rsv', "giving", p, k)
                                     = Counter(ledger'[p], k) + InFlight(rsv', "recording", p, k)
    <3>1. /\ levels[p].row # "removed"
          /\ \A k \in Kinds : Counter(levels'[p], k) = Counter(levels[p], k) /\ Counter(ledger'[p], k) = Counter(ledger[p], k)
          /\ Gap(levels'[p], shrink'[p], ledger'[p]) = Gap(levels[p], shrink[p], ledger[p])
      BY <2>1 DEF LevelsFollow, SameCounters
    <3>2. /\ levels[p].onHand + shrink[p] = ledger[p].onHand
          /\ \A k \in Kinds : Counter(levels[p], k) + InFlight(rsv, "giving", p, k)
                                = Counter(ledger[p], k) + InFlight(rsv, "recording", p, k)
      BY <1>2, <3>1 DEF Written, Replays
    <3>3. /\ levels[p] \in Level /\ levels'[p] \in Level /\ shrink[p] \in Int /\ shrink'[p] \in Int
          /\ ledger[p] \in Movement /\ ledger'[p] \in Movement
      BY DEF Inv, TypeOK
    <3>4. levels'[p].onHand + shrink'[p] = ledger'[p].onHand
      BY <3>1, <3>2, <3>3, NoGap
    <3> QED BY <3>1, <3>2, <3>4
  <2> QED BY <1>2, <2>1 DEF Written, Replays
<1>3. ASSUME Lined PROVE Lined' /\ InTurn
  <2>1. ASSUME NEW p \in Products, levels'[p].row = "open", NEW x \in Orders, Waiting(holds', x, p) # 0
        PROVE  levels'[p].available = 0
    <3>1. levels'[p].available \in Nat
      BY DEF Inv, TypeOK, NeverOversold, Balanced, Level
    <3>2. CASE levels[p].row = "open" /\ levels'[p].available <= levels[p].available
      <4>1. levels[p].available = 0
        BY <1>3, <2>1, <3>2 DEF Lined, NobodyWaits
      <4> QED BY <3>1, <3>2, <4>1
    <3> QED BY <2>1, <3>2 DEF ShelfFollows
  <2>2. InTurn
    <3> SUFFICES ASSUME NEW p \in Products, NEW b \in Orders, holds'[b].items[p].stock > holds[b].items[p].stock
                 PROVE  FALSE
      BY DEF InTurn
    <3>1. holds[b].items[p].stock \in Nat
      BY DEF Inv, TypeOK, Hold, Items, Kinds
    <3> QED BY <3>1
  <2>3. \A x \in Orders : AtOnce(rsv'[x])
    BY <1>3 DEF Lined
  <2> QED BY <2>1, <2>2, <2>3 DEF Lined, NobodyWaits
<1> QED BY <1>1, <1>2, <1>3 DEF Goes

(* A row opened, or given its allowance, starts with counters of zero; a    *)
(* removed one is of no account.                                            *)
LEMMA RowGoes ==
    ASSUME Inv, Inv', Kept, NEW p \in Products,
           OpenLevel(p) \/ RemoveLevel(p) \/ \E cap \in Caps : SetBackorderLimit(p, cap)
    PROVE  Goes
<1>1. /\ holds' = holds /\ rsv' = rsv /\ ledger' = ledger /\ shrink' = shrink
      /\ \A x \in Products \ {p} : levels'[x] = levels[x]
  BY DEF OpenLevel, RemoveLevel, SetBackorderLimit, Inv, TypeOK
<1>2. /\ levels'[p].row # "none"
      /\ levels'[p].row # "removed" =>
            /\ levels[p].row # "removed"
            /\ levels'[p].onHand = levels[p].onHand
            /\ levels'[p].available = levels[p].available
            /\ \A k \in Kinds : Counter(levels'[p], k) = Counter(levels[p], k)
            /\ levels[p].row = "none" => levels'[p].available = 0
  <2>1. levels[p].row = "none" => levels[p] = ZeroLevel("none")
    BY DEF Kept, Unopened
  <2>2. CASE OpenLevel(p)
    <3>1. levels[p].row = "none" /\ levels'[p] = ZeroLevel("open")
      BY <2>2 DEF OpenLevel, Inv, TypeOK
    <3> QED BY <2>1, <3>1 DEF ZeroLevel, Counter
  <2>3. CASE RemoveLevel(p)
    <3>1. levels'[p] = ZeroLevel("removed")
      BY <2>3 DEF RemoveLevel, Inv, TypeOK
    <3> QED BY <3>1 DEF ZeroLevel
  <2>4. ASSUME NEW cap \in Caps, SetBackorderLimit(p, cap)
        PROVE  /\ levels'[p].row # "none"
               /\ levels'[p].row # "removed" =>
                    /\ levels[p].row # "removed"
                    /\ levels'[p].onHand = levels[p].onHand
                    /\ levels'[p].available = levels[p].available
                    /\ \A k \in Kinds : Counter(levels'[p], k) = Counter(levels[p], k)
                    /\ levels[p].row = "none" => levels'[p].available = 0
    <3> DEFINE l == IF levels[p].row = "none" THEN ZeroLevel("open") ELSE levels[p]
    <3>1. levels[p].row # "removed" /\ levels'[p] = [l EXCEPT !.backorderLimit = cap]
      BY <2>4 DEF SetBackorderLimit, Inv, TypeOK
    <3>2. l \in Level
      BY ConstructorTypes DEF Inv, TypeOK, RowStates
    <3>3. /\ l.row # "none" /\ l.onHand = levels[p].onHand /\ l.available = levels[p].available
          /\ l.reserved = levels[p].reserved /\ l.backordered = levels[p].backordered
          /\ levels[p].row = "none" => l.available = 0
      BY <2>1 DEF ZeroLevel
    <3> HIDE DEF l
    <3>4. /\ levels'[p].row = l.row /\ levels'[p].onHand = l.onHand /\ levels'[p].available = l.available
          /\ levels'[p].reserved = l.reserved /\ levels'[p].backordered = l.backordered
      BY <3>1, <3>2 DEF Level
    <3> QED BY <3>1, <3>3, <3>4 DEF Counter
  <2> QED BY <2>2, <2>3, <2>4
<1>3. Unopened(levels')
  BY <1>1, <1>2 DEF Unopened, Kept
<1>4. LevelsFollow
  BY <1>1, <1>2 DEF LevelsFollow, SameCounters, Gap
<1>5. ShelfFollows
  <2> SUFFICES ASSUME NEW x \in Products, levels'[x].row = "open", levels'[x].available # 0
               PROVE  levels[x].row = "open" /\ levels'[x].available <= levels[x].available
    BY DEF ShelfFollows
  <2>1. levels[x].available \in Nat
    BY DEF Inv, TypeOK, NeverOversold, Balanced, Level
  <2>2. CASE x # p
    BY <1>1, <2>1, <2>2
  <2>3. CASE x = p
    <3>1. levels[x].row \in {"none", "open", "removed"}
      BY DEF Inv, TypeOK, Level, RowStates
    <3> QED BY <1>2, <2>1, <2>3, <3>1
  <2> QED BY <2>2, <2>3
<1> QED BY <1>1, <1>3, <1>4, <1>5, ShelfStepGoes

(* A downward correction, and the row it writes after. *)
LEMMA AdjustDownGoes ==
    ASSUME Inv, Inv', Kept, NEW p \in Products, NEW q \in Deliveries, AdjustDown(p, q)
    PROVE  Goes
<1> DEFINE m == ApplyDelta(levels[p], "adjust", -q, "stock")
<1>1. /\ holds' = holds /\ rsv' = rsv /\ ledger' = ledger
      /\ \A x \in Products \ {p} : levels'[x] = levels[x] /\ shrink'[x] = shrink[x]
      /\ levels'[p] = m /\ shrink'[p] = shrink[p] + q /\ levels[p].row = "open"
  BY DEF AdjustDown, Inv, TypeOK
<1>2. q \in Nat /\ -q \in Int /\ levels[p] \in Level
  BY InventoryAssumption DEF Inv, TypeOK
<1>3. /\ m.row = levels[p].row /\ m.onHand = levels[p].onHand + (-q) /\ m.available = levels[p].available + (-q)
      /\ Counter(m, "stock") = Counter(levels[p], "stock") /\ Counter(m, "backorder") = Counter(levels[p], "backorder")
  BY <1>1, <1>2, ShelfMoves
<1> HIDE DEF m
<1>4. levels[p].available \in Nat /\ levels[p].onHand \in Int /\ ledger[p].onHand \in Int /\ shrink[p] \in Int
  BY DEF Inv, TypeOK, NeverOversold, Balanced, Level, Movement
<1>5. Unopened(levels')
  BY <1>1, <1>3 DEF Unopened, Kept
<1>6. LevelsFollow
  <2>1. Gap(levels'[p], shrink'[p], ledger'[p]) = Gap(levels[p], shrink[p], ledger[p])
    BY <1>1, <1>2, <1>3, <1>4 DEF Gap
  <2> QED BY <1>1, <1>3, <2>1 DEF LevelsFollow, SameCounters, Kinds, Gap
<1>7. ShelfFollows
  <2>1. \A x \in Products : levels[x].available \in Nat
    BY DEF Inv, TypeOK, NeverOversold, Balanced, Level
  <2> QED BY <1>1, <1>2, <1>3, <1>4, <2>1 DEF ShelfFollows
<1> QED BY <1>1, <1>5, <1>6, <1>7, ShelfStepGoes

(* The row of a correction brings the ledger level with the shelf.          *)
LEMMA RecordAdjustGoes ==
    ASSUME Inv, Inv', Kept, NEW p \in Products, RecordAdjust(p)
    PROVE  Goes
<1> DEFINE d == Logged(ledger[p], CounterDeltaFor("adjust", -shrink[p], "stock"))
<1>1. /\ holds' = holds /\ rsv' = rsv /\ levels' = levels
      /\ \A x \in Products \ {p} : ledger'[x] = ledger[x] /\ shrink'[x] = shrink[x]
      /\ ledger'[p] = d /\ shrink'[p] = 0
  BY DEF RecordAdjust, Inv, TypeOK
<1>2. /\ ledger[p].onHand \in Int /\ ledger[p].reserved \in Int /\ ledger[p].backordered \in Int
      /\ shrink[p] \in Int /\ levels[p].onHand \in Int
  BY DEF Inv, TypeOK, Movement, Level
<1>3. d.onHand = ledger[p].onHand + (-shrink[p]) /\ d.reserved = ledger[p].reserved + 0
      /\ d.backordered = ledger[p].backordered + 0
  BY DEF Logged, CounterDeltaFor
<1> HIDE DEF d
<1>4. LevelsFollow
  <2>1. Gap(levels'[p], shrink'[p], ledger'[p]) = Gap(levels[p], shrink[p], ledger[p])
    BY <1>1, <1>2, <1>3 DEF Gap
  <2>2. \A k \in Kinds : Counter(ledger'[p], k) = Counter(ledger[p], k)
    BY <1>1, <1>2, <1>3 DEF Counter
  <2>3. ASSUME NEW x \in Products, levels'[x].row # "removed"
        PROVE  /\ SameCounters(levels'[x], levels[x])
               /\ \A k \in Kinds : Counter(ledger'[x], k) = Counter(ledger[x], k)
               /\ Gap(levels'[x], shrink'[x], ledger'[x]) = Gap(levels[x], shrink[x], ledger[x])
    <3>1. CASE x = p
      BY <1>1, <2>1, <2>2, <2>3, <3>1 DEF SameCounters
    <3>2. CASE x # p
      BY <1>1, <2>3, <3>2 DEF SameCounters, Gap
    <3> QED BY <3>1, <3>2
  <2> QED BY <2>3 DEF LevelsFollow
<1>5. Unopened(levels') /\ ShelfFollows
  <2>1. \A x \in Products : levels[x].available \in Nat
    BY DEF Inv, TypeOK, NeverOversold, Balanced, Level
  <2> QED BY <1>1, <2>1 DEF Unopened, Kept, ShelfFollows
<1> QED BY <1>1, <1>4, <1>5, ShelfStepGoes

(* Units that arrive serve the queue of their product before they are sold. *)
LEMMA ReceiveAndAllocateGoes ==
    ASSUME Inv, Inv', Kept, NEW p \in Products, NEW q \in Deliveries, NEW reason \in {"receive", "adjust"},
           ReceiveAndAllocate(p, q, reason)
    PROVE  Goes
<1> DEFINE l == IF levels[p].row = "none" THEN ZeroLevel("open") ELSE levels[p]
           N == ApplyDelta(l, reason, q, "stock")
           L == [levels EXCEPT ![p] = N]
<1>1. q \in Nat /\ q \in Int /\ reason \in Reasons
  BY InventoryAssumption DEF Reasons
<1>2. l \in Level /\ Balanced(l)
  BY ConstructorTypes DEF Inv, TypeOK, NeverOversold, RowStates
<1>3. /\ Allowed(l, reason, q, "stock") /\ ServeAndRecord(L, holds, {p})
      /\ levels[p].row # "removed" /\ rsv' = rsv /\ shrink' = shrink
  BY DEF ReceiveAndAllocate
<1>4. l.row = "open" /\ Counter(l, "stock") = Counter(levels[p], "stock") /\ Counter(l, "backorder") = Counter(levels[p], "backorder")
  <2>1. levels[p].row \in {"none", "open", "removed"}
    BY DEF Inv, TypeOK, Level, RowStates
  <2>2. levels[p].row = "none" => levels[p] = ZeroLevel("none")
    BY DEF Kept, Unopened
  <2> QED BY <1>3, <2>1, <2>2 DEF ZeroLevel, Counter
<1> HIDE DEF l
<1>5. N \in Level /\ Balanced(N)
  BY <1>1, <1>2, <1>3, ApplyDeltaType, ApplyDeltaBalanced DEF Kinds
<1>6. N.row = "open" /\ Counter(N, "stock") = Counter(l, "stock") /\ Counter(N, "backorder") = Counter(l, "backorder")
  BY <1>1, <1>2, <1>4, ShelfMoves
<1> HIDE DEF N
<1>7. LevelsOK(L)
  BY <1>5, LevelsAreOK DEF LevelsOK
<1>8. L[p] = N /\ \A x \in Products \ {p} : L[x] = levels[x]
  BY DEF Inv, TypeOK
<1> HIDE DEF L
<1>9. Recovers(L, holds)
  <2>1. \A x \in Products : L[x].row # "removed" =>
          levels[x].row # "removed" /\ \A k \in Kinds : Counter(L[x], k) = Counter(levels[x], k)
    BY <1>3, <1>4, <1>6, <1>8 DEF Kinds
  <2>2. Account(levels, holds, rsv)
    BY DEF Kept
  <2>3. Account(L, holds, rsv)
    BY <2>1, <2>2, NothingOwedMoves
  <2>4. Unopened(L)
    BY <1>6, <1>8 DEF Unopened, Kept
  <2> QED BY <2>1, <2>3, <2>4 DEF Recovers, RowsFollow, Kept
<1>10. QueueLeft(L, holds, {p})
  <2>1. \A x \in Products : levels[x].available \in Nat
    BY DEF Inv, TypeOK, NeverOversold, Balanced, Level
  <2>2. \A o \in Orders, x \in Products : holds[o].items[x]["stock"] \in Nat
    BY DEF Inv, TypeOK, Hold, Items, Kinds
  <2> QED BY <1>8, <2>1, <2>2 DEF QueueLeft
<1>11. holds \in [Orders -> Hold] /\ {p} \in SUBSET Products
  BY DEF Inv, TypeOK
<1> QED BY <1>3, <1>7, <1>9, <1>10, <1>11, TransactionGoes

(* And so do goods that come back. *)
LEMMA RestockReturnedLinesGoes ==
    ASSUME Inv, Inv', Kept, NEW back \in Losses, RestockReturnedLines(back)
    PROVE  Goes
<1> DEFINE N(p) == ApplyDelta(levels[p], "restock", back[p], "stock")
           L == [p \in Products |-> N(p)]
           P == {p \in Products : back[p] > 0}
<1>1. back \in [Products -> Nat]
  BY InventoryAssumption
<1>2. ServeAndRecord(L, holds, P) /\ rsv' = rsv /\ shrink' = shrink
  BY DEF RestockReturnedLines
<1>3. ASSUME NEW p \in Products
      PROVE  /\ N(p) \in Level /\ Balanced(N(p))
             /\ N(p).row = levels[p].row /\ (levels[p].row # "open" => N(p) = levels[p])
             /\ Counter(N(p), "stock") = Counter(levels[p], "stock")
             /\ Counter(N(p), "backorder") = Counter(levels[p], "backorder")
             /\ levels[p].row = "open" => N(p).available = levels[p].available + back[p]
  <2>1. levels[p] \in Level /\ Balanced(levels[p]) /\ back[p] \in Nat /\ back[p] \in Int
    BY <1>1 DEF Inv, TypeOK, NeverOversold
  <2>2. Allowed(levels[p], "restock", back[p], "stock")
    BY DEF Allowed, ConditionFor
  <2>3. N(p) \in Level /\ Balanced(N(p))
    BY <2>1, <2>2, ApplyDeltaType, ApplyDeltaBalanced DEF Reasons, Kinds
  <2>4. /\ N(p).row = levels[p].row /\ (levels[p].row # "open" => N(p) = levels[p])
        /\ Counter(N(p), "stock") = Counter(levels[p], "stock")
        /\ Counter(N(p), "backorder") = Counter(levels[p], "backorder")
        /\ levels[p].row = "open" => N(p).available = levels[p].available + back[p]
    BY <2>1, ShelfMoves
  <2> QED BY <2>3, <2>4
<1>4. \A p \in Products : L[p] = N(p)
  OBVIOUS
<1>5. LevelsOK(L)
  <2> HIDE DEF N
  <2> QED BY <1>3 DEF LevelsOK
<1>6. P \in SUBSET Products /\ \A p \in Products \ P : back[p] = 0
  BY <1>1
<1> HIDE DEF N, L, P
<1>7. Recovers(L, holds)
  <2>1. \A x \in Products : L[x].row # "removed" =>
          levels[x].row # "removed" /\ \A k \in Kinds : Counter(L[x], k) = Counter(levels[x], k)
    BY <1>3, <1>4 DEF Kinds
  <2>2. Account(levels, holds, rsv)
    BY DEF Kept
  <2>3. Account(L, holds, rsv)
    BY <2>1, <2>2, NothingOwedMoves
  <2>4. Unopened(L)
    BY <1>3, <1>4 DEF Unopened, Kept
  <2> QED BY <2>1, <2>3, <2>4 DEF Recovers, RowsFollow, Kept
<1>8. QueueLeft(L, holds, P)
  <2>1. \A x \in Products : levels[x].available \in Nat
    BY DEF Inv, TypeOK, NeverOversold, Balanced, Level
  <2>2. \A o \in Orders, x \in Products : holds[o].items[x]["stock"] \in Nat
    BY DEF Inv, TypeOK, Hold, Items, Kinds
  <2>3. \A x \in Products \ P : L[x].row = "open" =>
           levels[x].row = "open" /\ L[x].available <= levels[x].available
    BY <1>3, <1>4, <1>6, <2>1
  <2> QED BY <2>2, <2>3 DEF QueueLeft
<1>9. holds \in [Orders -> Hold]
  BY DEF Inv, TypeOK
<1> QED BY <1>2, <1>5, <1>6, <1>7, <1>8, <1>9, TransactionGoes

-----------------------------------------------------------------------------
(* The accounts, step by step. *)

(* Nothing is owed, written or waited for at the start. *)
LEMMA InitBooks == Init => Books
<1> SUFFICES ASSUME Init PROVE Kept /\ Written /\ Lined
  BY DEF Books
<1>1. /\ \A p \in Products : levels[p] = ZeroLevel("none") /\ shrink[p] = 0
      /\ \A p \in Products : ledger[p] = [onHand |-> 0, reserved |-> 0, backordered |-> 0]
      /\ \A o \in Orders : holds[o] = NoHold /\ rsv[o] = Resting("idle")
  BY DEF Init
<1>2. \A o \in Orders : /\ rsv[o].pc = "idle" /\ rsv[o].todo = {} /\ rsv[o].pc \notin Active
                        /\ holds[o].status = "none" /\ holds[o].status \notin OpenStatus
  BY <1>1 DEF Resting, NoHold, Active, OpenStatus
<1>3. \A p \in Products : /\ levels[p].row = "none" /\ levels[p].onHand = 0 /\ ledger[p].onHand = 0
                          /\ \A k \in Kinds : Counter(levels[p], k) = 0 /\ Counter(ledger[p], k) = 0
  BY <1>1 DEF ZeroLevel, Counter
<1>4. ASSUME NEW p \in Products, NEW k \in Kinds PROVE Sum(OwedFor(holds, rsv, p, k)) = 0
  <2> DEFINE f == [o \in Orders |-> Owed(holds[o], rsv[o], p, k)]
  <2>1. \A o \in Orders : Owed(holds[o], rsv[o], p, k) = 0
    BY <1>2 DEF Owed
  <2>2. f \in [Orders -> Nat] /\ (\A o \in Orders : f[o] = 0) /\ IsFiniteSet(Orders)
    BY <2>1, InventoryAssumption
  <2> HIDE DEF f
  <2>3. Sum(f) = 0
    BY <2>2, SumZero
  <2> QED BY <2>3 DEF f, OwedFor
<1>5. ASSUME NEW p \in Products, NEW k \in Kinds, NEW pc \in {"giving", "recording"}
      PROVE  InFlight(rsv, pc, p, k) = 0
  <2> DEFINE f == [o \in Orders |-> Unrecorded(rsv[o], pc, p, k)]
  <2>1. \A o \in Orders : Unrecorded(rsv[o], pc, p, k) = 0
    BY <1>2 DEF Unrecorded
  <2>2. f \in [Orders -> Nat] /\ (\A o \in Orders : f[o] = 0) /\ IsFiniteSet(Orders)
    BY <2>1, InventoryAssumption
  <2> HIDE DEF f
  <2>3. Sum(f) = 0
    BY <2>2, SumZero
  <2> QED BY <2>3 DEF f, InFlight
<1>6. Account(levels, holds, rsv) /\ Unopened(levels)
  BY <1>1, <1>3, <1>4 DEF Account, Unopened
<1>7. AllMine(holds, rsv)
  BY <1>2 DEF AllMine, Mine, Active
<1>8. Replays(levels, ledger, rsv, shrink)
  BY <1>1, <1>3, <1>5 DEF Replays
<1>9. \A o \in Orders : Tidy(rsv[o])
  BY <1>2 DEF Tidy
<1>10. Lined
  BY <1>2, <1>3 DEF Lined, NobodyWaits, AtOnce, Active
<1> QED BY <1>6, <1>7, <1>8, <1>9, <1>10 DEF Kept, Written

(* Failures are counted and never forgotten. *)
LEMMA FaultsCounted ==
    ASSUME Inv, [Next]_vars
    PROVE  faults' = faults \/ (faults' = faults + 1 /\ Faults # {})
<1>1. CASE UNCHANGED vars
  BY <1>1 DEF vars
<1>2. ASSUME NEW o \in Orders, ReserveStep(o) PROVE faults' = faults
  BY <1>2 DEF ReserveStep, InsertHold, TakeLine, TakeSpillLine, LineRefused, RecordLine, FinishReserve,
     NarrowToTaken, DeleteHold, GiveBackLine, RecordGiveBack
<1>3. ASSUME NEW o \in Orders, HoldStep(o) PROVE faults' = faults \/ (faults' = faults + 1 /\ Faults # {})
  <2>1. CASE CommitForOrder(o) \/ CommitReleasedForOrder(o) \/ ShipForOrder(o)
    BY <2>1 DEF CommitForOrder, CommitReleasedForOrder, ShipForOrder
  <2>2. CASE ReleaseForOrder(o) \/ ReleaseCommittedForOrder(o) \/ ExpireOne(o)
    BY <2>2 DEF ReleaseForOrder, ReleaseCommittedForOrder, ExpireOne, GiveBackHold
  <2>3. CASE HoldLapses(o) \/ ExtendHoldForOrder(o)
    BY <2>3 DEF HoldLapses, ExtendHoldForOrder
  <2>4. ASSUME NEW lines \in Parcels, \/ ShipLinesForOrder(o, lines) \/ ReleaseLinesForOrder(o, lines)
                                      \/ ReleaseTopUpForOrder(o, lines)
        PROVE  faults' = faults
    BY <2>4 DEF ShipLinesForOrder, ReleaseLinesForOrder, ReleaseTopUpForOrder, TakeLines
  <2>5. ASSUME NEW lost \in Losses, ReserveMoreForOrder(o, lost) PROVE faults' = faults
    BY <2>5 DEF ReserveMoreForOrder
  <2> QED BY <1>3, <2>1, <2>2, <2>3, <2>4, <2>5 DEF HoldStep
<1>4. CASE StaffStep
  BY <1>4 DEF StaffStep, OpenLevel, RemoveLevel, RecordAdjust, Receive, AdjustUp, ReceiveAndAllocate,
     AdjustDown, SetBackorderLimit, RestockReturnedLines
<1>5. CASE FaultStep
  BY <1>5 DEF FaultStep, Fault, CrashInReserve, TakeThrows, GiveBackThrows, CrashInAdjust
<1> QED BY <1>1, <1>2, <1>3, <1>4, <1>5 DEF Next

(* A step that counts no failure keeps the accounts. *)
LEMMA StepGoes ==
    ASSUME Inv, Kept, [Next]_vars, faults' = faults
    PROVE  Goes
<1>1. Inv'
  BY StepInv
<1>2. CASE UNCHANGED vars
  <2>1. /\ levels' = levels /\ holds' = holds /\ rsv' = rsv /\ ledger' = ledger /\ shrink' = shrink
    BY <1>2 DEF vars
  <2>2. Unopened(levels')
    BY <2>1 DEF Kept, Unopened
  <2>3. LevelsFollow
    BY <2>1 DEF LevelsFollow, SameCounters, Gap
  <2>4. ShelfFollows
    <3>1. \A x \in Products : levels[x].available \in Nat
      BY DEF Inv, TypeOK, NeverOversold, Balanced, Level
    <3> QED BY <2>1, <3>1 DEF ShelfFollows
  <2> QED BY <1>1, <2>1, <2>2, <2>3, <2>4, ShelfStepGoes
<1>3. ASSUME NEW o \in Orders, ReserveStep(o) PROVE Goes
  BY <1>1, <1>3, InsertHoldGoes, TakeLineGoes, TakeSpillLineGoes, LineRefusedGoes, RecordLineGoes,
     FinishReserveGoes, NarrowToTakenGoes, DeleteHoldGoes, GiveBackLineGoes, RecordGiveBackGoes
  DEF ReserveStep
<1>4. ASSUME NEW o \in Orders, HoldStep(o) PROVE Goes
  <2>1. CASE ReleaseForOrder(o) \/ ReleaseCommittedForOrder(o)
    <3>1. rsv[o].pc \notin Active
      BY <2>1 DEF ReleaseForOrder, ReleaseCommittedForOrder, Known, Active
    <3>2. \E from \in OpenStatus : GiveBackHold(o, from, "release")
      BY <2>1 DEF ReleaseForOrder, ReleaseCommittedForOrder, OpenStatus
    <3> QED BY <1>1, <3>1, <3>2, GiveBackHoldGoes
  <2>2. CASE ExpireOne(o)
    <3>1. Mine(holds[o], rsv[o])
      BY DEF Kept, AllMine
    <3>2. rsv[o].pc \notin Active
      BY <2>2, <3>1 DEF ExpireOne, Mine
    <3>3. "held" \in OpenStatus /\ GiveBackHold(o, "held", "expire")
      BY <2>2 DEF ExpireOne, OpenStatus
    <3> QED BY <1>1, <3>2, <3>3, GiveBackHoldGoes
  <2>3. ASSUME NEW lines \in Parcels,
               \/ ShipLinesForOrder(o, lines) \/ ReleaseLinesForOrder(o, lines)
               \/ ReleaseTopUpForOrder(o, lines)
        PROVE  Goes
    BY <1>1, <2>3, TakeLinesGoes DEF ShipLinesForOrder, ReleaseLinesForOrder, ReleaseTopUpForOrder
  <2>4. CASE HoldLapses(o) \/ ExtendHoldForOrder(o)
    BY <1>1, <2>4, DeadlineGoes
  <2> QED
    BY <1>1, <1>4, <2>1, <2>2, <2>3, <2>4, CommitForOrderGoes, CommitReleasedForOrderGoes, ShipForOrderGoes,
       ReserveMoreForOrderGoes
    DEF HoldStep
<1>5. CASE StaffStep
  <2>1. ASSUME NEW p \in Products, NEW q \in Deliveries, Receive(p, q) \/ AdjustUp(p, q)
        PROVE  Goes
    BY <1>1, <2>1, ReceiveAndAllocateGoes DEF Receive, AdjustUp
  <2> QED
    BY <1>1, <1>5, <2>1, RowGoes, AdjustDownGoes, RecordAdjustGoes, RestockReturnedLinesGoes DEF StaffStep
<1>6. CASE FaultStep
  <2>1. faults' = faults + 1 /\ faults \in Nat
    BY <1>6 DEF FaultStep, Fault, CrashInReserve, TakeThrows, GiveBackThrows, CrashInAdjust, Inv, TypeOK
  <2> QED BY <2>1
<1> QED
  BY <1>2, <1>3, <1>4, <1>5, <1>6 DEF Next

(* Until the first failure the books are kept, and claims served in turn. *)
LEMMA StepBooks ==
    ASSUME Inv, Books, [Next]_vars
    PROVE  /\ Books'
           /\ OneLine /\ faults' = 0 => InTurn
<1>1. faults \in Nat
  BY DEF Inv, TypeOK
<1>2. faults' = 0 => faults = 0 /\ faults' = faults
  BY <1>1, FaultsCounted
<1>3. faults' = 0 => Goes
  BY <1>2, StepGoes DEF Books
<1>4. ASSUME faults' = 0 PROVE Kept' /\ Written' /\ (OneLine => Lined' /\ InTurn)
  <2>1. Written /\ (OneLine => Lined)
    BY <1>2, <1>4 DEF Books
  <2> QED BY <1>3, <1>4, <2>1 DEF Goes
<1>5. Books'
  <2>1. OneLine' <=> OneLine
    BY DEF OneLine
  <2> QED BY <1>4, <2>1 DEF Books
<1> QED BY <1>4, <1>5

-----------------------------------------------------------------------------
(* What the books say of the properties. *)

(* The books name what backs every counter.                                 *)
LEMMA BooksBack ==
    ASSUME Books
    PROVE  HoldsBacked
<1> SUFFICES ASSUME faults = 0, NEW p \in Products, levels[p].row = "open"
             PROVE  /\ levels[p].reserved = Sum([o \in Orders |-> SetAside(o, p, "stock")])
                    /\ levels[p].backordered = Sum([o \in Orders |-> SetAside(o, p, "backorder")])
  BY DEF HoldsBacked
<1>1. \A k \in Kinds : Counter(levels[p], k) = Sum(OwedFor(holds, rsv, p, k))
  BY DEF Books, Kept, Account
<1>2. \A o \in Orders, k \in Kinds : SetAside(o, p, k) = Owed(holds[o], rsv[o], p, k)
  BY DEF SetAside, Owed, Unrecorded, Active
<1>3. \A k \in Kinds : [o \in Orders |-> SetAside(o, p, k)] = OwedFor(holds, rsv, p, k)
  BY <1>2 DEF OwedFor
<1> QED BY <1>1, <1>3 DEF Counter, Kinds

(* The books replay.                                                        *)
LEMMA BooksReplay ==
    ASSUME Books
    PROVE  LedgerReplays
<1> SUFFICES ASSUME NEW p \in Products, faults = 0, levels[p].row = "open"
             PROVE  /\ levels[p].onHand + shrink[p] = ledger[p].onHand
                    /\ levels[p].reserved + InFlight(rsv, "giving", p, "stock")
                         = ledger[p].reserved + InFlight(rsv, "recording", p, "stock")
                    /\ levels[p].backordered + InFlight(rsv, "giving", p, "backorder")
                         = ledger[p].backordered + InFlight(rsv, "recording", p, "backorder")
  BY DEF LedgerReplays, InFlight, Unrecorded
<1>1. /\ levels[p].onHand + shrink[p] = ledger[p].onHand
      /\ \A k \in Kinds : Counter(levels[p], k) + InFlight(rsv, "giving", p, k)
                            = Counter(ledger[p], k) + InFlight(rsv, "recording", p, k)
  BY DEF Books, Written, Replays
<1> QED BY <1>1 DEF Counter, Kinds

(* The books leave nothing for sale that somebody waits for.                *)
LEMMA BooksServe ==
    ASSUME Inv, Books, faults = 0
    PROVE  QueueServed
<1> SUFFICES ASSUME OneLine, NEW p \in Products, NEW o \in Orders, levels[p].row = "open",
                    Waiting(holds, o, p) > 0
             PROVE  levels[p].available = 0
  BY DEF QueueServed, OneLine
<1>1. NobodyWaits(levels, holds, p)
  BY DEF Books, Lined
<1>2. Waiting(holds, o, p) # 0
  BY WaitingType DEF Inv, TypeOK
<1> QED BY <1>1, <1>2 DEF NobodyWaits

-----------------------------------------------------------------------------
(* The theorems. *)

(* Whatever checkouts, payments, sweeps, shipments, deliveries and staff do, *)
(* and whatever fails between two writes, every document keeps its shape.    *)
THEOREM TypeCorrect == Spec => []TypeOK
<1>1. Inv => TypeOK
  BY DEF Inv
<1> QED
  BY InitInv, StepInv, <1>1, PTL DEF Spec

(* No product is ever oversold, for any number of products, orders and      *)
(* units and any number of failures: `available` is what the shelf has      *)
(* beyond what is promised, and no counter goes negative.                   *)
THEOREM NoOversell == Spec => []NeverOversold
<1>1. Inv => NeverOversold
  BY DEF Inv
<1> QED
  BY InitInv, StepInv, <1>1, PTL DEF Spec

(* For any number of products and orders, as long as no process died,       *)
(* stalled or failed a write, the counters of a product are exactly the     *)
(* units its open holds and its reserves under way name (reserveForOrder,   *)
(* claimAndApply, takeLines, allocateWithin).                               *)
THEOREM HoldsAlwaysBacked == Spec => []HoldsBacked
<1>1. Inv /\ Books => HoldsBacked
  BY BooksBack
<1>2. Inv /\ Books /\ [Next]_vars => Inv' /\ Books'
  BY StepInv, StepBooks
<1> QED BY InitInv, InitBooks, <1>1, <1>2, PTL DEF Spec

(* And the movement rows replay to them, but for the rows an operation is   *)
(* about to write (applyTransition, adjustOnHand).                          *)
THEOREM LedgerAlwaysReplays == Spec => []LedgerReplays
<1>1. Inv /\ Books => LedgerReplays
  BY BooksReplay
<1>2. Inv /\ Books /\ [Next]_vars => Inv' /\ Books'
  BY StepInv, StepBooks
<1> QED BY InitInv, InitBooks, <1>1, <1>2, PTL DEF Spec

(* Until the first failure nothing is for sale while a paid preorder waits  *)
(* for it, where every checkout has one line (allocateWithin).              *)
THEOREM QueueAlwaysServed == Spec => [](faults = 0 => QueueServed)
<1>1. Inv /\ Books => (faults = 0 => QueueServed)
  BY BooksServe
<1>2. Inv /\ Books /\ [Next]_vars => Inv' /\ Books'
  BY StepInv, StepBooks
<1> QED BY InitInv, InitBooks, <1>1, <1>2, PTL DEF Spec

(* And until then a claim is only served when nobody who paid earlier still *)
(* waits for that product (findPaidPreorderHolds).                          *)
THEOREM ServedInTurnUntilFailure ==
    ASSUME OneLine
    PROVE  Spec => [][faults' = 0 => InTurn]_vars
<1>1. Inv /\ Books /\ [Next]_vars => Inv' /\ Books' /\ [faults' = 0 => InTurn]_vars
  BY StepInv, StepBooks
<1> QED BY InitInv, InitBooks, <1>1, PTL DEF Spec

(* Where nothing fails, that is first paid, first served in every step.     *)
THEOREM FirstPaidAlwaysFirst ==
    ASSUME OneLine, Faults = {}
    PROVE  Spec => FirstPaidFirstServed
<1> DEFINE Quiet == Inv /\ Books /\ faults = 0
<1>1. Init => Quiet
  BY InitInv, InitBooks DEF Init
<1>2. Quiet /\ [Next]_vars => Quiet' /\ [InTurn]_vars
  BY StepInv, StepBooks, FaultsCounted
<1> HIDE DEF Quiet
<1>3. Spec => [][InTurn]_vars
  BY <1>1, <1>2, PTL DEF Spec
<1>4. FirstPaidFirstServed <=> [][InTurn]_vars
  BY DEF FirstPaidFirstServed, InTurn
<1> QED BY <1>3, <1>4

=============================================================================
