-------------------------- MODULE FulfilmentProofs --------------------------
(***************************************************************************)
(* Fulfilment: no unit is made or lost between fulfilment orders, parcels  *)
(* and returns, its stock is behind it and the order's status follows, for *)
(* any number of units, fulfilment orders, parcels, returns and ensures.   *)
(***************************************************************************)
EXTENDS Fulfilment, SumTheorems

-----------------------------------------------------------------------------
(* The strengthenings. *)

GroupRecords ==
    [quantity : Nat, shipped : Nat, cancelled : Nat,
     status : {"open", "in_progress", "on_hold", "closed", "cancelled"},
     reason : {"none", "awaiting_stock", "by staff"}, source : Nat, found : Nat]
ParcelStates == {"shipped", "delivered", "lost"}
ParcelRecords == [group : Nat, quantity : Nat \ {0}, status : ParcelStates]
ReturnRecords ==
    [quantity : Nat \ {0}, remedy : {"none", "refund", "repair", "replace"},
     status : {"requested", "approved", "declined", "canceled", "received", "closed"}]

(* A fulfilment order never ships or closes more than it has, its status is *)
(* the one its lines give it, and while it waits for stock nothing of it    *)
(* has left.                                                                *)
Sound(g) ==
    /\ g \in GroupRecords
    /\ RemainingOf(g) >= 0 /\ g.found <= g.cancelled
    /\ g.status = StatusOfLines(g, g.status = "on_hold")
    /\ g.reason = "awaiting_stock" => g.status = "on_hold" /\ g.shipped = 0
Groups == {gs \in Seq(GroupRecords) : \A g \in DOMAIN gs : Sound(gs[g])}
Parcels == Seq(ParcelRecords)

(* The units a fulfilment order answers for: those found again are another's. *)
RealOf(g) == g.quantity - g.found
Real(gs) == Units(gs, RealOf)

SentIn(ps) == Units(ps, LAMBDA p : IF p.status = "lost" THEN 0 ELSE p.quantity)
OnItsWay(ps, g) == Units(ps, LAMBDA p : IF p.group = g /\ p.status = "shipped" THEN p.quantity ELSE 0)
ReplacedIn(rs) == Units(rs, LAMBDA r : IF r.remedy = "replace" THEN r.quantity ELSE 0)
ReturnedIn(rs) == Units(rs, LAMBDA r : IF HoldsReturnedGoods(r) THEN r.quantity ELSE 0)

(* A parcel comes from a fulfilment order that was made before it left, and *)
(* a fulfilment order made for a lost parcel after that one left.           *)
Linking(gs, ps) ==
    /\ \A g \in DOMAIN gs : gs[g].source <= Len(ps)
    /\ \A p \in DOMAIN ps :
          /\ ps[p].group \in DOMAIN gs /\ gs[ps[p].group].source < p
          /\ gs[ps[p].group].reason # "awaiting_stock"
(* What is still on its way was not replaced. *)
Covering(gs, ps) == \A g \in DOMAIN gs : OnItsWay(ps, g) <= gs[g].shipped
Tracked(gs, ps) == Linking(gs, ps) /\ Covering(gs, ps)

(* A return that was not received has no remedy yet. *)
Returns == {rs \in Seq(ReturnRecords) :
               \A r \in DOMAIN rs : rs[r].status \in {"requested", "approved"} => rs[r].remedy = "none"}

Orders ==
    [status : {"paid", "processing", "shipped", "delivered", "cancelled"}, kind : Kinds, owed : Backorders]
Handling == [busy : BOOLEAN, left : Int, todo : SUBSET (Nat \X (Nat \ {0}))]

Counts ==
    /\ groups \in Groups /\ parcels \in Parcels /\ Tracked(groups, parcels)
    /\ groups # <<>> => Real(groups) = Ordered
    /\ returns \in Returns
    /\ Shipped(groups) + ReplacedIn(returns) = SentIn(parcels)
    /\ asked \in 0 .. Ordered /\ ReturnedIn(returns) <= Ordered
    /\ order \in Orders /\ relay \in Handling
    /\ \A todo \in relay.todo : todo[1] \in DOMAIN groups
(* Before its fulfilment orders are written, all that was bought remains. *)
Sending == IF groups = <<>> THEN Ordered ELSE Remaining(groups)
Awaited == IF groups = <<>> THEN order.owed ELSE Waiting(groups)

Holdings == [stock : Nat, owed : Nat]
EventRecords == [name : {"cancelled", "allocated"}, waiting : Nat]
Events == Seq(EventRecords)
(* Each row names what is owed after it, and the last one what is owed now; *)
(* the groups still wait for what the first one names and what is yet to be *)
(* released for it.                                                         *)
Queue ==
    /\ \A i \in DOMAIN events : events[i].name = "allocated"
    /\ \A i, j \in DOMAIN events : i <= j => events[j].waiting <= events[i].waiting
    /\ events # <<>> => events[Len(events)].waiting = hold.owed
    /\ events = <<>> => Awaited = hold.owed
    /\ events # <<>> => Awaited >= events[1].waiting
Queuing(gs) == {<<g, RemainingOf(gs[g])>> : g \in {h \in DOMAIN gs : AwaitingStock(gs[h])}}
Releasing ==
    relay.busy =>
       /\ Awaited = events[1].waiting + relay.left
       /\ relay.left > 0 => relay.todo = Queuing(groups)
Backing ==
    /\ hold \in Holdings /\ events \in Events
    /\ relay.busy => events # <<>> /\ events[1].name = "allocated"
    /\ groups = <<>> /\ order.status # "cancelled" => order.status = "paid" /\ ~ relay.busy
    /\ order.status # "cancelled" => Sending = hold.stock + hold.owed /\ Queue /\ Releasing

OnTheWay(ps) == \E p \in DOMAIN ps : ps[p].status = "shipped"
Arrived(ps) == \E p \in DOMAIN ps : ps[p].status = "delivered"
Announced == \E i \in DOMAIN events : events[i] = OrderCancelled
Status ==
    /\ order.status = "paid" => parcels = <<>>
    /\ order.status = "delivered" => Remaining(groups) = 0 /\ ~ OnTheWay(parcels)
    /\ order.status = "shipped" => Remaining(groups) = 0 /\ OnTheWay(parcels)
    /\ order.status = "processing" /\ parcels # <<>> => Remaining(groups) > 0
    /\ order.status = "cancelled" =>
           ~ OnTheWay(parcels) /\ hold.stock + hold.owed = 0 /\ (Announced \/ Remaining(groups) = 0)


-----------------------------------------------------------------------------
(* Numbers. *)

LEMMA MinOfTwo == ASSUME NEW a \in Int, NEW b \in Int PROVE Min({a, b}) = IF a <= b THEN a ELSE b
<1> DEFINE m == IF a <= b THEN a ELSE b
<1>1. m \in {a, b} /\ \A x \in {a, b} : m <= x
  OBVIOUS
<1>2. \A y \in {a, b} : (\A x \in {a, b} : y <= x) => y = m
  OBVIOUS
<1> HIDE DEF m
<1>3. Min({a, b}) = m
  BY <1>1, <1>2 DEF Min
<1> QED BY <1>3 DEF m

LEMMA MaxOfTwo == ASSUME NEW a \in Int, NEW b \in Int PROVE Max({a, b}) = IF a >= b THEN a ELSE b
<1> DEFINE m == IF a >= b THEN a ELSE b
<1>1. m \in {a, b} /\ \A x \in {a, b} : m >= x
  OBVIOUS
<1>2. \A y \in {a, b} : (\A x \in {a, b} : y >= x) => y = m
  OBVIOUS
<1> HIDE DEF m
<1>3. Max({a, b}) = m
  BY <1>1, <1>2 DEF Max
<1> QED BY <1>3 DEF m

-----------------------------------------------------------------------------
(* The totals of the fulfilment orders. *)

Left(gs) == [g \in DOMAIN gs |-> RemainingOf(gs[g])]
Owed(gs) == [g \in DOMAIN gs |-> WaitingOf(gs[g])]
Gone(gs) == [g \in DOMAIN gs |-> gs[g].shipped]
Own(gs) == [g \in DOMAIN gs |-> RealOf(gs[g])]

LEMMA TotalsAre ==
    ASSUME NEW gs
    PROVE  /\ Remaining(gs) = Sum(Left(gs)) /\ Waiting(gs) = Sum(Owed(gs))
           /\ Shipped(gs) = Sum(Gone(gs)) /\ Real(gs) = Sum(Own(gs))
BY DEF Remaining, Waiting, Shipped, Real, Units, Left, Owed, Gone, Own

LEMMA AmountsOf ==
    ASSUME NEW g, Sound(g)
    PROVE  /\ RemainingOf(g) \in Nat /\ WaitingOf(g) \in Nat /\ g.shipped \in Nat /\ RealOf(g) \in Nat
           /\ WaitingOf(g) <= RemainingOf(g)
           /\ RemainingOf(g) + g.shipped <= RealOf(g)
<1> DEFINE q == g.quantity
           s == g.shipped
           c == g.cancelled
           f == g.found
<1>1. q \in Nat /\ s \in Nat /\ c \in Nat /\ f \in Nat
  BY DEF Sound, GroupRecords
<1>2. q - s - c >= 0 /\ f <= c
  BY DEF Sound, RemainingOf
<1>3. RemainingOf(g) = q - s - c /\ RealOf(g) = q - f
  BY DEF RemainingOf, RealOf
<1>4. WaitingOf(g) = RemainingOf(g) \/ WaitingOf(g) = 0
  BY DEF WaitingOf
<1> HIDE DEF q, c, f
<1> QED BY <1>1, <1>2, <1>3, <1>4

LEMMA Listed ==
    ASSUME NEW R, NEW s \in Seq(R)
    PROVE  /\ DOMAIN s = 1 .. Len(s) /\ Len(s) \in Nat /\ IsFiniteSet(DOMAIN s)
           /\ s \in [DOMAIN s -> R]
<1>1. DOMAIN s = 1 .. Len(s) /\ Len(s) \in Nat
  OBVIOUS
<1>2. IsFiniteSet(1 .. Len(s))
  BY <1>1, FS_Interval
<1> QED BY <1>1, <1>2

LEMMA AmountTables ==
    ASSUME NEW gs \in Groups
    PROVE  /\ IsFiniteSet(DOMAIN gs)
           /\ Left(gs) \in [DOMAIN gs -> Nat] /\ Owed(gs) \in [DOMAIN gs -> Nat]
           /\ Gone(gs) \in [DOMAIN gs -> Nat] /\ Own(gs) \in [DOMAIN gs -> Nat]
<1>1. IsFiniteSet(DOMAIN gs)
  BY Listed DEF Groups
<1>2. \A g \in DOMAIN gs : Sound(gs[g])
  BY DEF Groups
<1>3. \A g \in DOMAIN gs : /\ RemainingOf(gs[g]) \in Nat /\ WaitingOf(gs[g]) \in Nat
                           /\ gs[g].shipped \in Nat /\ RealOf(gs[g]) \in Nat
  BY <1>2, AmountsOf
<1> QED BY <1>1, <1>3 DEF Left, Owed, Gone, Own

(* No total is negative; what waits is part of what remains, and what       *)
(* remains or left is part of what a fulfilment order answers for.          *)
LEMMA TotalsType ==
    ASSUME NEW gs \in Groups
    PROVE  /\ Remaining(gs) \in Nat /\ Waiting(gs) \in Nat /\ Shipped(gs) \in Nat /\ Real(gs) \in Nat
           /\ Waiting(gs) <= Remaining(gs) /\ Remaining(gs) + Shipped(gs) <= Real(gs)
<1>1. Sum(Left(gs)) \in Nat /\ Sum(Owed(gs)) \in Nat /\ Sum(Gone(gs)) \in Nat /\ Sum(Own(gs)) \in Nat
  BY AmountTables, SumType
<1>2. \A g \in DOMAIN gs : Sound(gs[g])
  BY DEF Groups
<1>3. Sum(Owed(gs)) <= Sum(Left(gs))
  <2>1. \A g \in DOMAIN gs : Owed(gs)[g] <= Left(gs)[g]
    BY <1>2, AmountsOf DEF Owed, Left
  <2> QED BY <2>1, AmountTables, SumMonotone
<1>4. Sum(Left(gs)) + Sum(Gone(gs)) <= Sum(Own(gs))
  <2> DEFINE both == [g \in DOMAIN gs |-> RemainingOf(gs[g]) + gs[g].shipped]
  <2>1. \A g \in DOMAIN gs : /\ RemainingOf(gs[g]) \in Nat /\ gs[g].shipped \in Nat
                             /\ RemainingOf(gs[g]) + gs[g].shipped <= RealOf(gs[g])
    BY <1>2, AmountsOf
  <2>2. both \in [DOMAIN gs -> Nat]
    BY <2>1
  <2>3. /\ \A g \in DOMAIN gs : both[g] = Left(gs)[g] + Gone(gs)[g]
        /\ \A g \in DOMAIN gs : both[g] <= Own(gs)[g]
    BY <2>1 DEF Left, Gone, Own
  <2> HIDE DEF both
  <2>4. Sum(both) = Sum(Left(gs)) + Sum(Gone(gs))
    BY <2>2, <2>3, AmountTables, SumAdd
  <2>5. Sum(both) <= Sum(Own(gs))
    BY <2>2, <2>3, AmountTables, SumMonotone
  <2> QED BY <2>4, <2>5
<1> QED BY <1>1, <1>3, <1>4, TotalsAre

LEMMA EntryOfTotals ==
    ASSUME NEW gs \in Groups, NEW g \in DOMAIN gs
    PROVE  /\ RemainingOf(gs[g]) <= Remaining(gs) /\ WaitingOf(gs[g]) <= Waiting(gs)
           /\ gs[g].shipped <= Shipped(gs) /\ RealOf(gs[g]) <= Real(gs)
<1>1. /\ Left(gs)[g] <= Sum(Left(gs)) /\ Owed(gs)[g] <= Sum(Owed(gs))
      /\ Gone(gs)[g] <= Sum(Gone(gs)) /\ Own(gs)[g] <= Sum(Own(gs))
  BY AmountTables, EntryInSum
<1> QED BY <1>1, TotalsAre DEF Left, Owed, Gone, Own

(* s with another entry at x, and with one more entry. *)
Put(s, x, e) == [s EXCEPT ![x] = e]
Grown(s, e) == Append(s, e)
KeepsBut(s, t, x) == \A y \in DOMAIN s \ {x} : t[y] = s[y]
Keeps(s, t) == \A y \in DOMAIN s : t[y] = s[y]

(* One fulfilment order changes: every total moves by what it moves. *)
LEMMA GroupsChange ==
    ASSUME NEW gs \in Groups, NEW x \in DOMAIN gs, NEW g, Sound(g),
           NEW hs, hs = Put(gs, x, g)
    PROVE  /\ hs \in Groups /\ DOMAIN hs = DOMAIN gs /\ Len(hs) = Len(gs)
           /\ hs[x] = g /\ KeepsBut(gs, hs, x)
           /\ Remaining(hs) - RemainingOf(g) = Remaining(gs) - RemainingOf(gs[x])
           /\ Waiting(hs) - WaitingOf(g) = Waiting(gs) - WaitingOf(gs[x])
           /\ Shipped(hs) - g.shipped = Shipped(gs) - gs[x].shipped
           /\ Real(hs) - RealOf(g) = Real(gs) - RealOf(gs[x])
<1>1. /\ gs \in Seq(GroupRecords) /\ g \in GroupRecords
  BY DEF Groups, Sound
<1>2. /\ hs \in Seq(GroupRecords) /\ DOMAIN hs = DOMAIN gs /\ Len(hs) = Len(gs)
      /\ hs[x] = g /\ \A y \in DOMAIN gs \ {x} : hs[y] = gs[y]
  BY <1>1 DEF Put
<1>3. hs \in Groups
  BY <1>2 DEF Groups
<1> DEFINE D == DOMAIN gs
<1>4. /\ IsFiniteSet(D) /\ x \in D
      /\ Left(gs) \in [D -> Nat] /\ Owed(gs) \in [D -> Nat] /\ Gone(gs) \in [D -> Nat] /\ Own(gs) \in [D -> Nat]
      /\ Left(hs) \in [D -> Nat] /\ Owed(hs) \in [D -> Nat] /\ Gone(hs) \in [D -> Nat] /\ Own(hs) \in [D -> Nat]
  BY <1>2, <1>3, AmountTables
<1>5. \A y \in D \ {x} : /\ Left(hs)[y] = Left(gs)[y] /\ Owed(hs)[y] = Owed(gs)[y]
                         /\ Gone(hs)[y] = Gone(gs)[y] /\ Own(hs)[y] = Own(gs)[y]
  BY <1>2 DEF Left, Owed, Gone, Own
<1>6. /\ Left(hs)[x] = RemainingOf(g) /\ Owed(hs)[x] = WaitingOf(g) /\ Gone(hs)[x] = g.shipped /\ Own(hs)[x] = RealOf(g)
      /\ Left(gs)[x] = RemainingOf(gs[x]) /\ Owed(gs)[x] = WaitingOf(gs[x]) /\ Gone(gs)[x] = gs[x].shipped
      /\ Own(gs)[x] = RealOf(gs[x])
  BY <1>2 DEF Left, Owed, Gone, Own
<1> HIDE DEF D
<1>7. Sum(Left(hs)) - Left(hs)[x] = Sum(Left(gs)) - Left(gs)[x]
  BY ONLY <1>4, <1>5, SumChange, SMTT(30)
<1>8. Sum(Owed(hs)) - Owed(hs)[x] = Sum(Owed(gs)) - Owed(gs)[x]
  BY ONLY <1>4, <1>5, SumChange, SMTT(30)
<1>9. Sum(Gone(hs)) - Gone(hs)[x] = Sum(Gone(gs)) - Gone(gs)[x]
  BY ONLY <1>4, <1>5, SumChange, SMTT(30)
<1>10. Sum(Own(hs)) - Own(hs)[x] = Sum(Own(gs)) - Own(gs)[x]
  BY ONLY <1>4, <1>5, SumChange, SMTT(30)
<1>11. KeepsBut(gs, hs, x)
  BY <1>2 DEF KeepsBut
<1> QED BY <1>2, <1>3, <1>6, <1>7, <1>8, <1>9, <1>10, <1>11, TotalsAre

(* A fulfilment order is added: every total grows by what it has. *)
Added(gs, g, hs) ==
    /\ hs \in Groups /\ Len(hs) = Len(gs) + 1 /\ DOMAIN hs = DOMAIN gs \cup {Len(gs) + 1}
    /\ hs[Len(gs) + 1] = g /\ Keeps(gs, hs)
    /\ Remaining(hs) = Remaining(gs) + RemainingOf(g)
    /\ Waiting(hs) = Waiting(gs) + WaitingOf(g)
    /\ Shipped(hs) = Shipped(gs) + g.shipped
    /\ Real(hs) = Real(gs) + RealOf(g)

LEMMA GroupAdded ==
    ASSUME NEW gs \in Groups, NEW g, Sound(g), NEW hs, hs = Grown(gs, g)
    PROVE  Added(gs, g, hs)
<1> DEFINE n == Len(gs)
<1>1. gs \in Seq(GroupRecords) /\ g \in GroupRecords /\ n \in Nat
  BY DEF Groups, Sound
<1>2. /\ hs \in Seq(GroupRecords) /\ DOMAIN gs = 1 .. n /\ DOMAIN hs = 1 .. (n + 1) /\ Len(hs) = n + 1
      /\ hs[n + 1] = g /\ \A y \in 1 .. n : hs[y] = gs[y]
  BY <1>1 DEF Grown
<1>3. hs \in Groups
  <2>1. \A y \in 1 .. n : Sound(gs[y])
    BY <1>2 DEF Groups
  <2>2. \A y \in 1 .. (n + 1) : y = n + 1 \/ y \in 1 .. n
    BY <1>1
  <2>3. \A y \in 1 .. (n + 1) : Sound(hs[y])
    BY <1>2, <2>1, <2>2
  <2> QED BY <1>2, <2>3 DEF Groups
<1>4. /\ Left(gs) \in [1 .. n -> Nat] /\ Owed(gs) \in [1 .. n -> Nat]
      /\ Gone(gs) \in [1 .. n -> Nat] /\ Own(gs) \in [1 .. n -> Nat]
  BY <1>2, AmountTables
<1>5. /\ Left(hs) \in [1 .. (n + 1) -> Nat] /\ Owed(hs) \in [1 .. (n + 1) -> Nat]
      /\ Gone(hs) \in [1 .. (n + 1) -> Nat] /\ Own(hs) \in [1 .. (n + 1) -> Nat]
  BY <1>2, <1>3, AmountTables
<1>6. \A y \in 1 .. n : /\ Left(hs)[y] = Left(gs)[y] /\ Owed(hs)[y] = Owed(gs)[y]
                         /\ Gone(hs)[y] = Gone(gs)[y] /\ Own(hs)[y] = Own(gs)[y]
  BY <1>2 DEF Left, Owed, Gone, Own
<1>7. n + 1 \in 1 .. (n + 1)
  BY <1>1
<1>8. /\ Left(hs)[n + 1] = RemainingOf(g) /\ Owed(hs)[n + 1] = WaitingOf(g)
      /\ Gone(hs)[n + 1] = g.shipped /\ Own(hs)[n + 1] = RealOf(g)
  BY <1>2, <1>7 DEF Left, Owed, Gone, Own
<1>9. DOMAIN hs = DOMAIN gs \cup {n + 1}
  BY <1>1, <1>2
<1> HIDE DEF n
<1>10. Sum(Left(hs)) = Sum(Left(gs)) + Left(hs)[n + 1]
  BY ONLY <1>1, <1>4, <1>5, <1>6, SumAppend
<1>11. Sum(Owed(hs)) = Sum(Owed(gs)) + Owed(hs)[n + 1]
  BY ONLY <1>1, <1>4, <1>5, <1>6, SumAppend
<1>12. Sum(Gone(hs)) = Sum(Gone(gs)) + Gone(hs)[n + 1]
  BY ONLY <1>1, <1>4, <1>5, <1>6, SumAppend
<1>13. Sum(Own(hs)) = Sum(Own(gs)) + Own(hs)[n + 1]
  BY ONLY <1>1, <1>4, <1>5, <1>6, SumAppend
<1>14. n = Len(gs)
  BY DEF n
<1>15. Keeps(gs, hs)
  BY <1>2 DEF Keeps
<1> QED BY <1>2, <1>3, <1>8, <1>9, <1>10, <1>11, <1>12, <1>13, <1>14, <1>15, TotalsAre DEF Added

-----------------------------------------------------------------------------
(* The totals of the parcels and of the returns. *)

SentOf(p) == IF p.status = "lost" THEN 0 ELSE p.quantity
WayOf(p, g) == IF p.group = g /\ p.status = "shipped" THEN p.quantity ELSE 0
ReplacedOf(r) == IF r.remedy = "replace" THEN r.quantity ELSE 0
ReturnedOf(r) == IF HoldsReturnedGoods(r) THEN r.quantity ELSE 0

SentTable(ps) == [p \in DOMAIN ps |-> SentOf(ps[p])]
WayTable(ps, g) == [p \in DOMAIN ps |-> WayOf(ps[p], g)]
ReplacedTable(rs) == [r \in DOMAIN rs |-> ReplacedOf(rs[r])]
ReturnedTable(rs) == [r \in DOMAIN rs |-> ReturnedOf(rs[r])]

LEMMA ParcelTotalsAre ==
    ASSUME NEW ps
    PROVE  SentIn(ps) = Sum(SentTable(ps)) /\ \A g : OnItsWay(ps, g) = Sum(WayTable(ps, g))
BY DEF SentIn, OnItsWay, Units, SentTable, WayTable, SentOf, WayOf

LEMMA ReturnTotalsAre ==
    ASSUME NEW rs
    PROVE  ReplacedIn(rs) = Sum(ReplacedTable(rs)) /\ ReturnedIn(rs) = Sum(ReturnedTable(rs))
BY DEF ReplacedIn, ReturnedIn, Units, ReplacedTable, ReturnedTable, ReplacedOf, ReturnedOf

LEMMA ParcelTables ==
    ASSUME NEW ps \in Parcels
    PROVE  /\ IsFiniteSet(DOMAIN ps) /\ SentTable(ps) \in [DOMAIN ps -> Nat]
           /\ \A g : WayTable(ps, g) \in [DOMAIN ps -> Nat]
<1>1. IsFiniteSet(DOMAIN ps) /\ ps \in [DOMAIN ps -> ParcelRecords]
  BY Listed DEF Parcels
<1>2. \A p \in DOMAIN ps : ps[p].quantity \in Nat
  BY <1>1 DEF ParcelRecords
<1> QED BY <1>1, <1>2 DEF SentTable, WayTable, SentOf, WayOf

LEMMA ReturnTables ==
    ASSUME NEW rs \in Returns
    PROVE  /\ IsFiniteSet(DOMAIN rs)
           /\ ReplacedTable(rs) \in [DOMAIN rs -> Nat] /\ ReturnedTable(rs) \in [DOMAIN rs -> Nat]
<1>1. IsFiniteSet(DOMAIN rs) /\ rs \in [DOMAIN rs -> ReturnRecords]
  BY Listed DEF Returns
<1>2. \A r \in DOMAIN rs : rs[r].quantity \in Nat
  BY <1>1 DEF ReturnRecords
<1> QED BY <1>1, <1>2 DEF ReplacedTable, ReturnedTable, ReplacedOf, ReturnedOf

LEMMA ParcelTotalsType ==
    ASSUME NEW ps \in Parcels
    PROVE  SentIn(ps) \in Nat /\ \A g : OnItsWay(ps, g) \in Nat
BY ParcelTables, SumType, ParcelTotalsAre

LEMMA ReturnTotalsType ==
    ASSUME NEW rs \in Returns
    PROVE  ReplacedIn(rs) \in Nat /\ ReturnedIn(rs) \in Nat
BY ReturnTables, SumType, ReturnTotalsAre

LEMMA EntryOnItsWay ==
    ASSUME NEW ps \in Parcels, NEW p \in DOMAIN ps, NEW g
    PROVE  WayOf(ps[p], g) <= OnItsWay(ps, g)
<1>1. WayTable(ps, g)[p] <= Sum(WayTable(ps, g))
  BY ParcelTables, EntryInSum
<1> QED BY <1>1, ParcelTotalsAre DEF WayTable

Moved(p, to) == [p EXCEPT !.status = to]
WaysMove(ps, qs, x) ==
    \A g : OnItsWay(qs, g) - WayOf(qs[x], g) = OnItsWay(ps, g) - WayOf(ps[x], g)
WaysGrow(ps, qs, p) == \A g : OnItsWay(qs, g) = OnItsWay(ps, g) + WayOf(p, g)
SameGoods(ps, qs) ==
    \A y \in DOMAIN ps : qs[y].group = ps[y].group /\ qs[y].quantity = ps[y].quantity

(* A parcel changes its status. *)
LEMMA ParcelsChange ==
    ASSUME NEW ps \in Parcels, NEW x \in DOMAIN ps, NEW to \in ParcelStates,
           NEW qs, qs = Put(ps, x, Moved(ps[x], to))
    PROVE  /\ qs \in Parcels /\ DOMAIN qs = DOMAIN ps /\ Len(qs) = Len(ps)
           /\ qs[x].status = to /\ KeepsBut(ps, qs, x) /\ SameGoods(ps, qs)
           /\ SentIn(qs) - SentOf(qs[x]) = SentIn(ps) - SentOf(ps[x]) /\ WaysMove(ps, qs, x)
<1>1. /\ ps \in Seq(ParcelRecords) /\ ps[x] \in ParcelRecords
      /\ [ps[x] EXCEPT !.status = to] \in ParcelRecords
  <2>1. ps \in Seq(ParcelRecords) /\ ps[x] \in ParcelRecords
    BY DEF Parcels
  <2> QED BY <2>1 DEF ParcelRecords
<1>2. qs = [ps EXCEPT ![x] = [ps[x] EXCEPT !.status = to]]
  BY <1>1 DEF Put, Moved
<1>3. /\ qs \in Seq(ParcelRecords) /\ DOMAIN qs = DOMAIN ps /\ Len(qs) = Len(ps)
      /\ qs[x] = [ps[x] EXCEPT !.status = to] /\ \A y \in DOMAIN ps \ {x} : qs[y] = ps[y]
  BY <1>1, <1>2
<1>4. qs[x].status = to /\ qs[x].group = ps[x].group /\ qs[x].quantity = ps[x].quantity
  BY <1>1, <1>3 DEF ParcelRecords
<1>5. \A y \in DOMAIN ps : qs[y].group = ps[y].group /\ qs[y].quantity = ps[y].quantity
  BY <1>3, <1>4
<1>6. qs \in Parcels
  BY <1>3 DEF Parcels
<1> DEFINE D == DOMAIN ps
<1>7. /\ IsFiniteSet(D) /\ x \in D /\ SentTable(ps) \in [D -> Nat] /\ SentTable(qs) \in [D -> Nat]
      /\ \A y \in D \ {x} : SentTable(qs)[y] = SentTable(ps)[y]
      /\ SentTable(qs)[x] = SentOf(qs[x]) /\ SentTable(ps)[x] = SentOf(ps[x])
  BY <1>3, <1>6, ParcelTables DEF SentTable
<1>8. ASSUME NEW g PROVE OnItsWay(qs, g) - WayOf(qs[x], g) = OnItsWay(ps, g) - WayOf(ps[x], g)
  <2>1. /\ IsFiniteSet(D) /\ x \in D /\ WayTable(ps, g) \in [D -> Nat] /\ WayTable(qs, g) \in [D -> Nat]
        /\ \A y \in D \ {x} : WayTable(qs, g)[y] = WayTable(ps, g)[y]
        /\ WayTable(qs, g)[x] = WayOf(qs[x], g) /\ WayTable(ps, g)[x] = WayOf(ps[x], g)
    BY <1>3, <1>6, ParcelTables DEF WayTable
  <2> HIDE DEF D
  <2>2. Sum(WayTable(qs, g)) - WayTable(qs, g)[x] = Sum(WayTable(ps, g)) - WayTable(ps, g)[x]
    BY ONLY <2>1, SumChange
  <2> QED BY <2>1, <2>2, ParcelTotalsAre
<1>9. SentIn(qs) - SentOf(qs[x]) = SentIn(ps) - SentOf(ps[x])
  <2> HIDE DEF D
  <2>1. Sum(SentTable(qs)) - SentTable(qs)[x] = Sum(SentTable(ps)) - SentTable(ps)[x]
    BY ONLY <1>7, SumChange
  <2> QED BY <1>7, <2>1, ParcelTotalsAre
<1>10. KeepsBut(ps, qs, x) /\ SameGoods(ps, qs) /\ WaysMove(ps, qs, x)
  BY <1>3, <1>5, <1>8 DEF KeepsBut, SameGoods, WaysMove
<1> QED BY <1>3, <1>4, <1>6, <1>9, <1>10

(* A parcel leaves. *)
LEMMA ParcelAdded ==
    ASSUME NEW ps \in Parcels, NEW p \in ParcelRecords, NEW qs, qs = Grown(ps, p)
    PROVE  /\ qs \in Parcels /\ Len(qs) = Len(ps) + 1 /\ DOMAIN qs = DOMAIN ps \cup {Len(ps) + 1}
           /\ qs[Len(ps) + 1] = p /\ Keeps(ps, qs)
           /\ SentIn(qs) = SentIn(ps) + SentOf(p) /\ WaysGrow(ps, qs, p)
<1> DEFINE n == Len(ps)
<1>1. ps \in Seq(ParcelRecords) /\ n \in Nat
  BY DEF Parcels
<1>2. /\ qs \in Seq(ParcelRecords) /\ DOMAIN ps = 1 .. n /\ DOMAIN qs = 1 .. (n + 1) /\ Len(qs) = n + 1
      /\ qs[n + 1] = p /\ \A y \in 1 .. n : qs[y] = ps[y]
  BY <1>1 DEF Grown
<1>3. qs \in Parcels
  BY <1>2 DEF Parcels
<1>4. n + 1 \in 1 .. (n + 1) /\ DOMAIN qs = DOMAIN ps \cup {n + 1}
  BY <1>1, <1>2
<1>5. /\ SentTable(ps) \in [1 .. n -> Nat] /\ SentTable(qs) \in [1 .. (n + 1) -> Nat]
      /\ \A y \in 1 .. n : SentTable(qs)[y] = SentTable(ps)[y]
      /\ SentTable(qs)[n + 1] = SentOf(p)
  BY <1>2, <1>3, <1>4, ParcelTables DEF SentTable
<1>6. ASSUME NEW g PROVE OnItsWay(qs, g) = OnItsWay(ps, g) + WayOf(p, g)
  <2>1. /\ WayTable(ps, g) \in [1 .. n -> Nat] /\ WayTable(qs, g) \in [1 .. (n + 1) -> Nat]
        /\ \A y \in 1 .. n : WayTable(qs, g)[y] = WayTable(ps, g)[y]
        /\ WayTable(qs, g)[n + 1] = WayOf(p, g)
    BY <1>2, <1>3, <1>4, ParcelTables DEF WayTable
  <2> HIDE DEF n
  <2>2. Sum(WayTable(qs, g)) = Sum(WayTable(ps, g)) + WayTable(qs, g)[n + 1]
    BY ONLY <1>1, <2>1, SumAppend
  <2> QED BY <2>1, <2>2, ParcelTotalsAre
<1>7. SentIn(qs) = SentIn(ps) + SentOf(p)
  <2> HIDE DEF n
  <2>1. Sum(SentTable(qs)) = Sum(SentTable(ps)) + SentTable(qs)[n + 1]
    BY ONLY <1>1, <1>5, SumAppend
  <2> QED BY <1>5, <2>1, ParcelTotalsAre
<1>8. Keeps(ps, qs) /\ WaysGrow(ps, qs, p)
  BY <1>2, <1>6 DEF Keeps, WaysGrow
<1> QED BY <1>2, <1>3, <1>4, <1>7, <1>8

(* A return changes. *)
LEMMA ReturnsChange ==
    ASSUME NEW rs \in Returns, NEW x \in DOMAIN rs, NEW r \in ReturnRecords,
           r.status \in {"requested", "approved"} => r.remedy = "none",
           NEW ts, ts = Put(rs, x, r)
    PROVE  /\ ts \in Returns /\ DOMAIN ts = DOMAIN rs
           /\ ReplacedIn(ts) - ReplacedOf(r) = ReplacedIn(rs) - ReplacedOf(rs[x])
           /\ ReturnedIn(ts) - ReturnedOf(r) = ReturnedIn(rs) - ReturnedOf(rs[x])
<1>1. rs \in Seq(ReturnRecords)
  BY DEF Returns
<1>2. /\ ts \in Seq(ReturnRecords) /\ DOMAIN ts = DOMAIN rs /\ ts[x] = r
      /\ \A y \in DOMAIN rs \ {x} : ts[y] = rs[y]
  BY <1>1 DEF Put
<1>3. ts \in Returns
  <2>1. \A y \in DOMAIN ts : ts[y].status \in {"requested", "approved"} => ts[y].remedy = "none"
    BY <1>2 DEF Returns
  <2> QED BY <1>2, <2>1 DEF Returns
<1> DEFINE D == DOMAIN rs
<1>4. /\ IsFiniteSet(D) /\ x \in D
      /\ ReplacedTable(rs) \in [D -> Nat] /\ ReplacedTable(ts) \in [D -> Nat]
      /\ \A y \in D \ {x} : ReplacedTable(ts)[y] = ReplacedTable(rs)[y]
  BY <1>2, <1>3, ReturnTables DEF ReplacedTable
<1>5. /\ ReturnedTable(rs) \in [D -> Nat] /\ ReturnedTable(ts) \in [D -> Nat]
      /\ \A y \in D \ {x} : ReturnedTable(ts)[y] = ReturnedTable(rs)[y]
  BY <1>2, <1>3, ReturnTables DEF ReturnedTable
<1>6. /\ ReplacedTable(ts)[x] = ReplacedOf(r) /\ ReplacedTable(rs)[x] = ReplacedOf(rs[x])
      /\ ReturnedTable(ts)[x] = ReturnedOf(r) /\ ReturnedTable(rs)[x] = ReturnedOf(rs[x])
  BY <1>2 DEF ReplacedTable, ReturnedTable
<1> HIDE DEF D
<1>7. Sum(ReplacedTable(ts)) - ReplacedTable(ts)[x] = Sum(ReplacedTable(rs)) - ReplacedTable(rs)[x]
  BY ONLY <1>4, SumChange
<1>8. Sum(ReturnedTable(ts)) - ReturnedTable(ts)[x] = Sum(ReturnedTable(rs)) - ReturnedTable(rs)[x]
  BY ONLY <1>4, <1>5, SumChange
<1> QED BY <1>2, <1>3, <1>6, <1>7, <1>8, ReturnTotalsAre

(* A return is opened. *)
LEMMA ReturnAdded ==
    ASSUME NEW rs \in Returns, NEW r \in ReturnRecords,
           r.status \in {"requested", "approved"} => r.remedy = "none",
           NEW ts, ts = Grown(rs, r)
    PROVE  /\ ts \in Returns
           /\ ReplacedIn(ts) = ReplacedIn(rs) + ReplacedOf(r)
           /\ ReturnedIn(ts) = ReturnedIn(rs) + ReturnedOf(r)
<1> DEFINE n == Len(rs)
<1>1. rs \in Seq(ReturnRecords) /\ n \in Nat
  BY DEF Returns
<1>2. /\ ts \in Seq(ReturnRecords) /\ DOMAIN rs = 1 .. n /\ DOMAIN ts = 1 .. (n + 1)
      /\ ts[n + 1] = r /\ \A y \in 1 .. n : ts[y] = rs[y]
  BY <1>1 DEF Grown
<1>3. ts \in Returns
  <2>1. \A y \in DOMAIN ts : y = n + 1 \/ y \in DOMAIN rs
    BY <1>1, <1>2
  <2>2. \A y \in DOMAIN ts : ts[y].status \in {"requested", "approved"} => ts[y].remedy = "none"
    BY <1>2, <2>1 DEF Returns
  <2> QED BY <1>2, <2>2 DEF Returns
<1>4. n + 1 \in 1 .. (n + 1)
  BY <1>1
<1>5. /\ ReplacedTable(rs) \in [1 .. n -> Nat] /\ ReplacedTable(ts) \in [1 .. (n + 1) -> Nat]
      /\ \A y \in 1 .. n : ReplacedTable(ts)[y] = ReplacedTable(rs)[y]
      /\ ReplacedTable(ts)[n + 1] = ReplacedOf(r)
  <2>1. ReplacedTable(rs) \in [DOMAIN rs -> Nat] /\ ReplacedTable(ts) \in [DOMAIN ts -> Nat]
    BY <1>3, ReturnTables
  <2>2. \A y \in 1 .. n : y \in DOMAIN rs /\ y \in DOMAIN ts
    BY <1>1, <1>2
  <2>3. \A y \in 1 .. n : ReplacedTable(ts)[y] = ReplacedTable(rs)[y]
    BY <1>2, <2>2 DEF ReplacedTable
  <2>4. ReplacedTable(ts)[n + 1] = ReplacedOf(r)
    BY <1>2, <1>4 DEF ReplacedTable
  <2> QED BY <1>2, <2>1, <2>3, <2>4
<1>6. /\ ReturnedTable(rs) \in [1 .. n -> Nat] /\ ReturnedTable(ts) \in [1 .. (n + 1) -> Nat]
      /\ \A y \in 1 .. n : ReturnedTable(ts)[y] = ReturnedTable(rs)[y]
      /\ ReturnedTable(ts)[n + 1] = ReturnedOf(r)
  <2>1. ReturnedTable(rs) \in [DOMAIN rs -> Nat] /\ ReturnedTable(ts) \in [DOMAIN ts -> Nat]
    BY <1>3, ReturnTables
  <2>2. \A y \in 1 .. n : y \in DOMAIN rs /\ y \in DOMAIN ts
    BY <1>1, <1>2
  <2>3. \A y \in 1 .. n : ReturnedTable(ts)[y] = ReturnedTable(rs)[y]
    BY <1>2, <2>2 DEF ReturnedTable
  <2>4. ReturnedTable(ts)[n + 1] = ReturnedOf(r)
    BY <1>2, <1>4 DEF ReturnedTable
  <2> QED BY <1>2, <2>1, <2>3, <2>4
<1> HIDE DEF n
<1>7. Sum(ReplacedTable(ts)) = Sum(ReplacedTable(rs)) + ReplacedTable(ts)[n + 1]
  BY ONLY <1>1, <1>5, SumAppend
<1>8. Sum(ReturnedTable(ts)) = Sum(ReturnedTable(rs)) + ReturnedTable(ts)[n + 1]
  BY ONLY <1>1, <1>6, SumAppend
<1> QED BY <1>3, <1>5, <1>6, <1>7, <1>8, ReturnTotalsAre

-----------------------------------------------------------------------------
(* What an act does to one fulfilment order. *)

Countable(g) == g \in GroupRecords /\ RemainingOf(g) >= 0 /\ g.found <= g.cancelled

(* The status a fulfilment order's lines give it. *)
LEMMA StatusGiven ==
    ASSUME NEW g \in GroupRecords, RemainingOf(g) >= 0, NEW held \in BOOLEAN
    PROVE  LET s == StatusOfLines(g, held) IN
           /\ s \in {"open", "in_progress", "on_hold", "closed", "cancelled"}
           /\ s = StatusOfLines(g, s = "on_hold")
           /\ s = "on_hold" <=> held /\ RemainingOf(g) > 0
           /\ s \in {"closed", "cancelled"} <=> RemainingOf(g) = 0
<1> DEFINE q == g.quantity
           sh == g.shipped
           c == g.cancelled
           rem == RemainingOf(g)
<1>1. q \in Nat /\ sh \in Nat /\ c \in Nat /\ rem = q - sh - c /\ rem >= 0
  BY DEF GroupRecords, RemainingOf
<1>2. \A h \in BOOLEAN : StatusOfLines(g, h) =
         CASE q = 0 -> "closed"
           [] q > 0 /\ rem = 0 -> IF sh > 0 THEN "closed" ELSE "cancelled"
           [] rem # 0 /\ h -> "on_hold"
           [] OTHER -> IF sh > 0 THEN "in_progress" ELSE "open"
  BY DEF StatusOfLines
<1> HIDE DEF q, sh, c, rem
<1>3. CASE q = 0
  <2>1. rem = 0
    BY <1>1, <1>3
  <2>2. \A h \in BOOLEAN : StatusOfLines(g, h) = "closed"
    BY <1>1, <1>2, <1>3, <2>1
  <2>3. RemainingOf(g) = 0 /\ ~ (RemainingOf(g) > 0)
    BY <2>1 DEF rem
  <2> QED BY <2>2, <2>3
<1>4. CASE q # 0 /\ rem = 0
  <2>1. \A h \in BOOLEAN : StatusOfLines(g, h) = IF sh > 0 THEN "closed" ELSE "cancelled"
    BY <1>1, <1>2, <1>4
  <2>2. RemainingOf(g) = 0 /\ ~ (RemainingOf(g) > 0) /\ (sh > 0) \in BOOLEAN
    BY <1>4 DEF rem
  <2> QED BY <2>1, <2>2
<1>5. CASE q # 0 /\ rem # 0
  <2>1. \A h \in BOOLEAN : StatusOfLines(g, h) =
           IF h THEN "on_hold" ELSE IF sh > 0 THEN "in_progress" ELSE "open"
    BY <1>1, <1>2, <1>5
  <2>2. rem > 0
    BY <1>1, <1>5
  <2>3. (sh > 0) \in BOOLEAN /\ RemainingOf(g) = rem /\ RemainingOf(g) # 0 /\ RemainingOf(g) > 0
    BY <1>5, <2>2 DEF rem
  <2> QED BY <2>1, <2>3
<1> QED BY <1>3, <1>4, <1>5

LEMMA SameLines ==
    ASSUME NEW g, NEW h, h.quantity = g.quantity, h.shipped = g.shipped, h.cancelled = g.cancelled
    PROVE  RemainingOf(h) = RemainingOf(g) /\ \A held : StatusOfLines(h, held) = StatusOfLines(g, held)
BY DEF RemainingOf, StatusOfLines

(* The lines of g give it the status s. *)
Gives(g, s) == s = StatusOfLines(g, s = "on_hold")
(* Only what is on hold, and sent nothing, waits for stock. *)
MayWait(g, s, why) == why = "awaiting_stock" => s = "on_hold" /\ g.shipped = 0
(* h is g with another status and reason. *)
Restates(g, h, s, why) ==
    /\ h \in GroupRecords /\ h.status = s /\ h.reason = why
    /\ h.quantity = g.quantity /\ h.shipped = g.shipped /\ h.cancelled = g.cancelled
    /\ h.found = g.found /\ h.source = g.source

LineStates == {"open", "in_progress", "on_hold", "closed", "cancelled"}
Reasons == {"none", "awaiting_stock", "by staff"}
(* h counts what g does, and waits if that is why it is held. *)
CountsAs(g, h, why) ==
    /\ Sound(h) /\ RemainingOf(h) = RemainingOf(g) /\ RealOf(h) = RealOf(g)
    /\ WaitingOf(h) = IF why = "awaiting_stock" THEN RemainingOf(g) ELSE 0

(* A record given the status of its lines is sound, unless it still waits   *)
(* for stock without being on hold.                                         *)
LEMMA Stated ==
    ASSUME NEW g, Countable(g), NEW s \in LineStates, Gives(g, s), NEW why \in Reasons,
           MayWait(g, s, why), NEW h, Restates(g, h, s, why)
    PROVE  CountsAs(g, h, why)
<1>1. g \in GroupRecords /\ RemainingOf(g) >= 0 /\ g.found <= g.cancelled
  BY DEF Countable
<1>3. /\ h \in GroupRecords /\ h.status = s /\ h.reason = why
      /\ h.quantity = g.quantity /\ h.shipped = g.shipped /\ h.cancelled = g.cancelled
      /\ h.found = g.found /\ h.source = g.source
  BY DEF Restates
<1>4. RemainingOf(h) = RemainingOf(g) /\ \A x : StatusOfLines(h, x) = StatusOfLines(g, x)
  BY ONLY <1>3, SameLines
<1>5. RealOf(h) = RealOf(g)
  BY <1>3 DEF RealOf
<1>6. h.status = StatusOfLines(h, h.status = "on_hold")
  BY <1>3, <1>4 DEF Gives
<1>7. Sound(h)
  BY <1>1, <1>3, <1>4, <1>6 DEF Sound, MayWait
<1>8. AwaitingStock(h) <=> why = "awaiting_stock"
  BY <1>3 DEF AwaitingStock, MayWait
<1>9. WaitingOf(h) = IF why = "awaiting_stock" THEN RemainingOf(g) ELSE 0
  BY <1>4, <1>8 DEF WaitingOf
<1> QED BY <1>4, <1>5, <1>7, <1>9 DEF CountsAs

LEMMA FreedIs ==
    ASSUME NEW g, Countable(g), NEW h, h = Freed(g)
    PROVE  /\ Sound(h) /\ RemainingOf(h) = RemainingOf(g) /\ RealOf(h) = RealOf(g) /\ WaitingOf(h) = 0
           /\ h.shipped = g.shipped /\ h.cancelled = g.cancelled /\ h.found = g.found
           /\ h.source = g.source /\ h.reason = "none"
<1>1. PICK s : s = StatusOfLines(g, FALSE)
  OBVIOUS
<1>2. /\ s \in LineStates
      /\ Gives(g, s)
  BY <1>1, StatusGiven DEF Countable, Gives, LineStates
<1>3. PICK why : why = "none"
  OBVIOUS
<1>4. Restates(g, h, s, why) /\ MayWait(g, s, why) /\ why \in Reasons
  BY <1>1, <1>2, <1>3 DEF Restates, Freed, Countable, GroupRecords, MayWait, LineStates, Reasons
<1>5. CountsAs(g, h, why)
  BY ONLY <1>2, <1>4, Countable(g), Stated
<1> QED BY <1>3, <1>4, <1>5 DEF Restates, CountsAs

LEMMA HeldIs ==
    ASSUME NEW g, Countable(g), RemainingOf(g) > 0, g.reason = "awaiting_stock" => g.shipped = 0,
           NEW h, h = Held(g)
    PROVE  /\ Sound(h) /\ RemainingOf(h) = RemainingOf(g) /\ RealOf(h) = RealOf(g)
           /\ WaitingOf(h) = IF g.reason = "awaiting_stock" THEN RemainingOf(g) ELSE 0
           /\ h.shipped = g.shipped /\ h.source = g.source /\ h.reason = g.reason
<1>1. PICK s : s = StatusOfLines(g, TRUE)
  OBVIOUS
<1>2. /\ s \in LineStates
      /\ Gives(g, s)
  BY <1>1, StatusGiven DEF Countable, Gives, LineStates
<1>3. PICK why : why = g.reason
  OBVIOUS
<1>4. /\ Restates(g, h, s, why) /\ why \in Reasons
      /\ MayWait(g, s, why)
  <2>1. s = "on_hold"
    BY <1>1, StatusGiven DEF Countable
  <2> QED BY <1>1, <1>2, <1>3, <2>1 DEF Restates, Held, Countable, GroupRecords, MayWait, LineStates, Reasons
<1>5. CountsAs(g, h, why)
  BY ONLY <1>2, <1>4, Countable(g), Stated
<1> QED BY <1>3, <1>4, <1>5 DEF Restates, CountsAs

LEMMA RestatedIs ==
    ASSUME NEW g, Countable(g), g.reason # "awaiting_stock", NEW h, h = Restated(g)
    PROVE  /\ Sound(h) /\ RemainingOf(h) = RemainingOf(g) /\ RealOf(h) = RealOf(g) /\ WaitingOf(h) = 0
           /\ h.shipped = g.shipped /\ h.source = g.source /\ h.reason = g.reason
<1>1. PICK s : s = StatusOfLines(g, g.status = "on_hold")
  OBVIOUS
<1>2. /\ s \in LineStates
      /\ Gives(g, s)
  BY <1>1, StatusGiven DEF Countable, Gives, LineStates
<1>3. PICK why : why = g.reason
  OBVIOUS
<1>4. /\ Restates(g, h, s, why) /\ why \in Reasons
      /\ why # "awaiting_stock" /\ MayWait(g, s, why)
  BY <1>1, <1>2, <1>3 DEF Restates, Restated, Countable, GroupRecords, MayWait, LineStates, Reasons
<1>5. CountsAs(g, h, why)
  BY ONLY <1>2, <1>4, Countable(g), Stated
<1> QED BY <1>3, <1>4, <1>5 DEF Restates, CountsAs

(* Units leave: what remains becomes what was shipped. *)
LEMMA WithShippedIs ==
    ASSUME NEW g, Sound(g), NEW n \in Nat, n <= RemainingOf(g), NEW h, h = WithShipped(g, n)
    PROVE  /\ Sound(h) /\ RemainingOf(h) = RemainingOf(g) - n /\ h.shipped = g.shipped + n
           /\ RealOf(h) = RealOf(g) /\ WaitingOf(h) = 0 /\ h.source = g.source /\ h.reason = "none"
<1> DEFINE k == [g EXCEPT !.shipped = @ + n]
<1>1. /\ k \in GroupRecords /\ k.quantity = g.quantity /\ k.shipped = g.shipped + n
      /\ k.cancelled = g.cancelled /\ k.found = g.found /\ k.source = g.source
  <2>0. PICK a : a = g.shipped
    OBVIOUS
  <2>1. PICK m : m = a + n
    OBVIOUS
  <2>2. g \in GroupRecords /\ a \in Nat
    BY <2>0 DEF Sound, GroupRecords
  <2>4. m \in Nat /\ k = [g EXCEPT !.shipped = m]
    BY <2>0, <2>1, <2>2
  <2> HIDE DEF k
  <2>3. /\ k \in GroupRecords /\ k.quantity = g.quantity /\ k.shipped = m
        /\ k.cancelled = g.cancelled /\ k.found = g.found /\ k.source = g.source
    BY ONLY <2>2, <2>4 DEF GroupRecords
  <2> QED BY <2>0, <2>1, <2>3
<1>2. g.quantity \in Nat /\ g.shipped \in Nat /\ g.cancelled \in Nat /\ g.found <= g.cancelled
  BY DEF Sound, GroupRecords
<1>3. RemainingOf(k) = RemainingOf(g) - n /\ RealOf(k) = RealOf(g)
  BY <1>1, <1>2 DEF RemainingOf, RealOf
<1>4. RemainingOf(g) \in Nat
  BY AmountsOf
<1>5. Countable(k)
  BY <1>1, <1>2, <1>3, <1>4 DEF Countable
<1>6. h = Freed(k)
  BY DEF WithShipped
<1> HIDE DEF k
<1> QED BY <1>1, <1>3, <1>5, <1>6, FreedIs

(* The remainder is closed. *)
LEMMA WithRemainderCancelledIs ==
    ASSUME NEW g, Sound(g), NEW h, h = WithRemainderCancelled(g)
    PROVE  /\ Sound(h) /\ RemainingOf(h) = 0 /\ h.shipped = g.shipped /\ h.found = g.found
           /\ h.cancelled = g.cancelled + RemainingOf(g)
           /\ RealOf(h) = RealOf(g) /\ WaitingOf(h) = 0 /\ h.source = g.source /\ h.reason = "none"
<1> DEFINE k == [g EXCEPT !.cancelled = @ + RemainingOf(g)]
<1>1. g.quantity \in Nat /\ g.shipped \in Nat /\ g.cancelled \in Nat /\ g.found \in Nat /\ g.found <= g.cancelled
  BY DEF Sound, GroupRecords
<1>2. RemainingOf(g) \in Nat /\ RemainingOf(g) = g.quantity - g.shipped - g.cancelled
  BY AmountsOf DEF RemainingOf
<1>3. /\ k \in GroupRecords /\ k.quantity = g.quantity /\ k.shipped = g.shipped
      /\ k.cancelled = g.cancelled + RemainingOf(g) /\ k.found = g.found /\ k.source = g.source
  <2>1. g \in GroupRecords /\ g.cancelled + RemainingOf(g) \in Nat
    BY <1>1, <1>2 DEF Sound
  <2> QED BY <2>1 DEF GroupRecords
<1>4. RemainingOf(k) = 0 /\ RealOf(k) = RealOf(g)
  BY <1>1, <1>2, <1>3 DEF RemainingOf, RealOf
<1>5. Countable(k)
  BY <1>1, <1>2, <1>3, <1>4 DEF Countable
<1>6. h = Freed(k)
  BY DEF WithRemainderCancelled
<1> HIDE DEF k
<1> QED BY <1>3, <1>4, <1>5, <1>6, FreedIs

(* Units that were sent are to be sent again, some of them by another. *)
LEMMA WithLossIs ==
    ASSUME NEW g, Sound(g), g.reason # "awaiting_stock", NEW lost \in Nat, lost <= g.shipped,
           NEW owed \in Nat, owed <= lost, NEW h, h = WithLoss(g, lost, owed)
    PROVE  /\ Sound(h) /\ RemainingOf(h) = RemainingOf(g) + lost - owed /\ h.shipped = g.shipped - lost
           /\ RealOf(h) = RealOf(g) - owed /\ WaitingOf(h) = 0 /\ h.source = g.source /\ h.reason = g.reason
<1>1. PICK q, a, c, f : q = g.quantity /\ a = g.shipped /\ c = g.cancelled /\ f = g.found
  OBVIOUS
<1>2. g \in GroupRecords /\ q \in Nat /\ a \in Nat /\ c \in Nat /\ f \in Nat
  BY <1>1 DEF Sound, GroupRecords
<1>3. f <= c /\ RemainingOf(g) = q - a - c /\ RealOf(g) = q - f /\ RemainingOf(g) >= 0 /\ lost <= a
  BY <1>1 DEF Sound, RemainingOf, RealOf
<1>4. PICK m, k : m = a - lost /\ k = q - owed
  OBVIOUS
<1>5. m \in Nat /\ k \in Nat
  BY <1>2, <1>3, <1>4
<1>6. Max({0, g.shipped - lost}) = m
  <2>1. m \in Int /\ 0 \in Int /\ ~ (0 >= m /\ 0 # m)
    BY <1>5
  <2>2. Max({0, m}) = IF 0 >= m THEN 0 ELSE m
    BY <2>1, MaxOfTwo
  <2>3. Max({0, m}) = m
    BY <1>5, <2>2
  <2> QED BY <1>1, <1>4, <2>3
<1>7. PICK t : t = [g EXCEPT !.shipped = m, !.quantity = k]
  OBVIOUS
<1>8. /\ t \in GroupRecords /\ t.shipped = m /\ t.quantity = k /\ t.cancelled = g.cancelled
      /\ t.found = g.found /\ t.source = g.source /\ t.reason = g.reason
  BY ONLY <1>2, <1>5, <1>7 DEF GroupRecords
<1>9. RemainingOf(t) = k - m - c /\ RealOf(t) = k - f
  BY <1>1, <1>8 DEF RemainingOf, RealOf
<1>10. /\ RemainingOf(t) = RemainingOf(g) + lost - owed /\ RealOf(t) = RealOf(g) - owed /\ RemainingOf(t) >= 0
  BY <1>2, <1>3, <1>4, <1>9
<1>11. Countable(t) /\ t.reason # "awaiting_stock"
  BY <1>1, <1>3, <1>8, <1>10 DEF Countable
<1>12. h = Restated(t)
  BY <1>1, <1>4, <1>6, <1>7 DEF WithLoss
<1>13. /\ Sound(h) /\ RemainingOf(h) = RemainingOf(t) /\ RealOf(h) = RealOf(t) /\ WaitingOf(h) = 0
       /\ h.shipped = t.shipped /\ h.source = t.source /\ h.reason = t.reason
  BY ONLY <1>11, <1>12, RestatedIs
<1> QED BY <1>1, <1>4, <1>8, <1>10, <1>13

(* h is g with n units sent after all, of which owed were taken off it. *)
Regains(g, n, owed, h) ==
    /\ Sound(h) /\ RemainingOf(h) = RemainingOf(g) - n + owed /\ h.shipped = g.shipped + n
    /\ RealOf(h) = RealOf(g) + owed /\ WaitingOf(h) = 0 /\ h.source = g.source /\ h.reason = g.reason

(* Units that turned up were sent after all. *)
LEMMA WithRestorationIs ==
    ASSUME NEW g, Sound(g), g.reason # "awaiting_stock", NEW n \in Nat, NEW owed \in Nat, owed <= n,
           n - owed <= RemainingOf(g), NEW h, h = WithRestoration(g, n, owed)
    PROVE  Regains(g, n, owed, h)
<1>1. PICK q, a, c, f : q = g.quantity /\ a = g.shipped /\ c = g.cancelled /\ f = g.found
  OBVIOUS
<1>2. g \in GroupRecords /\ q \in Nat /\ a \in Nat /\ c \in Nat /\ f \in Nat
  BY <1>1 DEF Sound, GroupRecords
<1>3. f <= c /\ RemainingOf(g) = q - a - c /\ RealOf(g) = q - f /\ RemainingOf(g) >= 0
  BY <1>1 DEF Sound, RemainingOf, RealOf
<1>4. PICK m, k : m = a + n /\ k = q + owed
  OBVIOUS
<1>5. m \in Nat /\ k \in Nat
  BY <1>2, <1>3, <1>4
<1>7. PICK t : t = [g EXCEPT !.shipped = m, !.quantity = k]
  OBVIOUS
<1>8. /\ t \in GroupRecords /\ t.shipped = m /\ t.quantity = k /\ t.cancelled = g.cancelled
      /\ t.found = g.found /\ t.source = g.source /\ t.reason = g.reason
  BY ONLY <1>2, <1>5, <1>7 DEF GroupRecords
<1>9. RemainingOf(t) = k - m - c /\ RealOf(t) = k - f
  BY <1>1, <1>8 DEF RemainingOf, RealOf
<1>10. /\ RemainingOf(t) = RemainingOf(g) - n + owed /\ RealOf(t) = RealOf(g) + owed /\ RemainingOf(t) >= 0
  BY <1>2, <1>3, <1>4, <1>9
<1>11. Countable(t) /\ t.reason # "awaiting_stock"
  BY <1>1, <1>3, <1>8, <1>10 DEF Countable
<1>12. h = Restated(t)
  BY <1>1, <1>4, <1>7 DEF WithRestoration
<1>13. /\ Sound(h) /\ RemainingOf(h) = RemainingOf(t) /\ RealOf(h) = RealOf(t) /\ WaitingOf(h) = 0
       /\ h.shipped = t.shipped /\ h.source = t.source /\ h.reason = t.reason
  BY ONLY <1>11, <1>12, RestatedIs
<1> QED BY <1>1, <1>4, <1>8, <1>10, <1>13 DEF Regains

(* What was made for units that turned up is closed, and answers for none. *)
ClosedAsFound(g) == [WithRemainderCancelled(g) EXCEPT !.found = @ + RemainingOf(g)]

LEMMA ClosedAsFoundIs ==
    ASSUME NEW g, Sound(g), NEW h, h = ClosedAsFound(g)
    PROVE  /\ Sound(h) /\ RemainingOf(h) = 0 /\ h.shipped = g.shipped
           /\ RealOf(h) = RealOf(g) - RemainingOf(g) /\ WaitingOf(h) = 0 /\ h.source = g.source
           /\ h.reason = "none"
<1>1. PICK t : t = WithRemainderCancelled(g)
  OBVIOUS
<1>2. /\ Sound(t) /\ RemainingOf(t) = 0 /\ t.shipped = g.shipped /\ t.found = g.found
      /\ t.cancelled = g.cancelled + RemainingOf(g)
      /\ RealOf(t) = RealOf(g) /\ WaitingOf(t) = 0 /\ t.source = g.source /\ t.reason = "none"
  BY <1>1, WithRemainderCancelledIs
<1>3. PICK f, r, c : f = g.found /\ r = RemainingOf(g) /\ c = g.cancelled
  OBVIOUS
<1>4. f \in Nat /\ c \in Nat /\ f <= c /\ r \in Nat
  BY <1>3, AmountsOf DEF Sound, GroupRecords
<1>5. PICK m : m = f + r
  OBVIOUS
<1>6. m \in Nat /\ m <= c + r
  BY <1>4, <1>5
<1>7. t \in GroupRecords /\ h = [t EXCEPT !.found = m]
  BY <1>1, <1>2, <1>3, <1>5 DEF ClosedAsFound, Sound
<1>8. /\ h \in GroupRecords /\ h.found = m /\ h.quantity = t.quantity /\ h.shipped = t.shipped
      /\ h.cancelled = t.cancelled /\ h.status = t.status /\ h.source = t.source /\ h.reason = t.reason
  BY ONLY <1>6, <1>7 DEF GroupRecords
<1>9. RemainingOf(h) = RemainingOf(t) /\ \A x : StatusOfLines(h, x) = StatusOfLines(t, x)
  BY ONLY <1>8, SameLines
<1>10. Sound(h)
  <2>1. h.status = StatusOfLines(h, h.status = "on_hold")
    BY <1>2, <1>8, <1>9 DEF Sound
  <2>2. h.found <= h.cancelled
    BY <1>2, <1>3, <1>6, <1>8
  <2> QED BY <1>2, <1>8, <1>9, <2>1, <2>2 DEF Sound
<1>11. RealOf(h) = RealOf(g) - r
  <2>1. PICK q : q = t.quantity
    OBVIOUS
  <2>2. q \in Nat
    BY <1>7, <2>1 DEF GroupRecords
  <2>3. RealOf(t) = q - f /\ RealOf(h) = q - m
    BY <1>2, <1>3, <1>8, <2>1 DEF RealOf
  <2> QED BY <1>2, <1>4, <1>5, <2>2, <2>3
<1>12. WaitingOf(h) = 0
  BY <1>2, <1>8 DEF WaitingOf, AwaitingStock
<1> QED BY <1>2, <1>3, <1>8, <1>9, <1>10, <1>11, <1>12

(* A new fulfilment order. *)
LEMMA GroupIs ==
    ASSUME NEW n \in Nat, n > 0, NEW why \in {"none", "awaiting_stock"}, NEW source \in Nat,
           NEW h, h = Group(n, why, source)
    PROVE  /\ Sound(h) /\ RemainingOf(h) = n /\ RealOf(h) = n /\ h.shipped = 0
           /\ WaitingOf(h) = IF why = "awaiting_stock" THEN n ELSE 0
           /\ h.source = source /\ h.reason = why
<1>1. PICK g : g = [quantity |-> n, shipped |-> 0, cancelled |-> 0, status |-> "open",
                    reason |-> why, source |-> source, found |-> 0]
  OBVIOUS
<1>2. /\ g \in GroupRecords /\ g.quantity = n /\ g.shipped = 0 /\ g.cancelled = 0 /\ g.reason = why
      /\ g.source = source /\ g.found = 0
  BY <1>1 DEF GroupRecords
<1>3. RemainingOf(g) = n /\ RealOf(g) = n
  BY <1>2 DEF RemainingOf, RealOf
<1>4. Countable(g) /\ RemainingOf(g) > 0
  BY <1>2, <1>3 DEF Countable
<1>5. h = IF why = "none" THEN Freed(g) ELSE Held(g)
  BY <1>1 DEF Group
<1>6. CASE why = "none"
  <2>1. h = Freed(g)
    BY <1>5, <1>6
  <2>2. /\ Sound(h) /\ RemainingOf(h) = RemainingOf(g) /\ RealOf(h) = RealOf(g) /\ WaitingOf(h) = 0
        /\ h.shipped = g.shipped /\ h.source = g.source /\ h.reason = "none"
    BY ONLY <1>4, <2>1, FreedIs
  <2> QED BY <1>2, <1>3, <1>6, <2>2
<1>7. CASE why # "none"
  <2>1. h = Held(g) /\ why = "awaiting_stock"
    BY <1>5, <1>7
  <2>2. g.reason = "awaiting_stock" => g.shipped = 0
    BY <1>2
  <2>3. /\ Sound(h) /\ RemainingOf(h) = RemainingOf(g) /\ RealOf(h) = RealOf(g)
        /\ WaitingOf(h) = IF g.reason = "awaiting_stock" THEN RemainingOf(g) ELSE 0
        /\ h.shipped = g.shipped /\ h.source = g.source /\ h.reason = g.reason
    BY ONLY <1>4, <2>1, <2>2, HeldIs
  <2> QED BY <1>2, <1>3, <2>1, <2>3
<1> QED BY <1>6, <1>7

-----------------------------------------------------------------------------
(* What keeps parcels and fulfilment orders linked. *)

LEMMA TrackedChange ==
    ASSUME NEW gs \in Groups, NEW hs \in Groups, NEW ps, Tracked(gs, ps), DOMAIN hs = DOMAIN gs,
           \A g \in DOMAIN gs : hs[g].source = gs[g].source,
           \A g \in DOMAIN gs : hs[g].reason = "awaiting_stock" => gs[g].reason = "awaiting_stock",
           \A g \in DOMAIN gs : OnItsWay(ps, g) <= hs[g].shipped
    PROVE  Tracked(hs, ps)
BY DEF Tracked, Linking, Covering

LEMMA TrackedMore ==
    ASSUME NEW gs \in Groups, NEW ps \in Parcels, Tracked(gs, ps), NEW h, Sound(h), h.source <= Len(ps),
           NEW hs, hs = Grown(gs, h)
    PROVE  Tracked(hs, ps)
<1> DEFINE n == Len(gs)
<1>1. /\ DOMAIN hs = DOMAIN gs \cup {n + 1} /\ hs[n + 1] = h
      /\ \A y \in DOMAIN gs : hs[y] = gs[y]
  <2>1. DOMAIN hs = DOMAIN gs \cup {n + 1} /\ hs[n + 1] = h /\ Keeps(gs, hs)
    BY GroupAdded DEF Added
  <2> QED BY <2>1 DEF Keeps
<1>2. DOMAIN gs = 1 .. n /\ n \in Nat
  BY Listed DEF Groups
<1>3. \A p \in DOMAIN ps : ps[p].group \in DOMAIN gs
  BY DEF Tracked, Linking
<1>4. OnItsWay(ps, n + 1) = 0
  <2>1. \A p \in DOMAIN ps : ps[p].group # n + 1
    BY <1>2, <1>3
  <2>2. \A p \in DOMAIN ps : WayTable(ps, n + 1)[p] = 0
    BY <2>1 DEF WayTable, WayOf
  <2>3. IsFiniteSet(DOMAIN ps) /\ WayTable(ps, n + 1) \in [DOMAIN ps -> Nat]
    BY ParcelTables
  <2>4. Sum(WayTable(ps, n + 1)) = 0
    BY <2>2, <2>3, SumZero
  <2> QED BY <2>4, ParcelTotalsAre
<1>5. h.shipped \in Nat
  BY AmountsOf
<1>6. \A g \in DOMAIN gs : gs[g].source <= Len(ps) /\ OnItsWay(ps, g) <= gs[g].shipped
  BY DEF Tracked, Linking, Covering
<1>7. \A g \in DOMAIN hs : hs[g].source <= Len(ps) /\ OnItsWay(ps, g) <= hs[g].shipped
  <2> HIDE DEF n
  <2>1. ASSUME NEW g \in DOMAIN hs PROVE hs[g].source <= Len(ps) /\ OnItsWay(ps, g) <= hs[g].shipped
    <3>1. CASE g \in DOMAIN gs
      BY <1>1, <1>6, <3>1
    <3>2. CASE g = n + 1
      BY <1>1, <1>4, <1>5, <3>2
    <3> QED BY <1>1, <3>1, <3>2
  <2> QED BY <2>1
<1>8. \A p \in DOMAIN ps :
         /\ ps[p].group \in DOMAIN hs /\ hs[ps[p].group].source < p
         /\ hs[ps[p].group].reason # "awaiting_stock"
  BY <1>1, <1>3 DEF Tracked, Linking
<1> QED BY <1>7, <1>8 DEF Tracked, Linking, Covering

LEMMA TrackedParcel ==
    ASSUME NEW gs \in Groups, NEW ps \in Parcels, Tracked(gs, ps), NEW x \in DOMAIN ps,
           NEW to \in ParcelStates, to # "shipped",
           NEW qs, qs = Put(ps, x, Moved(ps[x], to))
    PROVE  /\ Tracked(gs, qs)
           /\ OnItsWay(qs, ps[x].group) = OnItsWay(ps, ps[x].group) - WayOf(ps[x], ps[x].group)
<1>1. /\ DOMAIN qs = DOMAIN ps /\ Len(qs) = Len(ps) /\ qs[x].status = to
      /\ \A y \in DOMAIN ps : qs[y].group = ps[y].group /\ qs[y].quantity = ps[y].quantity
      /\ \A g : OnItsWay(qs, g) - WayOf(qs[x], g) = OnItsWay(ps, g) - WayOf(ps[x], g)
      /\ qs \in Parcels
  <2>1. /\ DOMAIN qs = DOMAIN ps /\ Len(qs) = Len(ps) /\ qs[x].status = to
        /\ SameGoods(ps, qs) /\ WaysMove(ps, qs, x) /\ qs \in Parcels
    BY ParcelsChange
  <2> QED BY <2>1 DEF SameGoods, WaysMove
<1>2. \A g : WayOf(qs[x], g) = 0
  BY <1>1 DEF WayOf
<1>3. \A g : OnItsWay(ps, g) \in Nat /\ OnItsWay(qs, g) \in Nat
  BY <1>1, ParcelTotalsType
<1>4. \A g : WayOf(ps[x], g) \in Nat
  <2>1. ps[x] \in ParcelRecords
    BY DEF Parcels
  <2>2. ps[x].quantity \in Nat
    BY <2>1 DEF ParcelRecords
  <2> QED BY <2>2 DEF WayOf
<1>5. ASSUME NEW g PROVE OnItsWay(qs, g) = OnItsWay(ps, g) - WayOf(ps[x], g)
  <2>1. OnItsWay(qs, g) - WayOf(qs[x], g) = OnItsWay(ps, g) - WayOf(ps[x], g)
    BY <1>1
  <2>2. WayOf(qs[x], g) = 0 /\ WayOf(ps[x], g) \in Nat /\ OnItsWay(ps, g) \in Nat /\ OnItsWay(qs, g) \in Nat
    BY <1>2, <1>3, <1>4
  <2> QED BY ONLY <2>1, <2>2
<1>6. \A g \in DOMAIN gs : OnItsWay(qs, g) <= gs[g].shipped
  <2>1. ASSUME NEW g \in DOMAIN gs PROVE OnItsWay(qs, g) <= gs[g].shipped
    <3>1. PICK a, b, c, d : a = OnItsWay(qs, g) /\ b = OnItsWay(ps, g) /\ c = WayOf(ps[x], g) /\ d = gs[g].shipped
      OBVIOUS
    <3>2. a \in Nat /\ b \in Nat /\ c \in Nat /\ a = b - c
      BY <1>3, <1>4, <1>5, <3>1
    <3>3. Sound(gs[g]) /\ b <= d
      BY <3>1 DEF Groups, Tracked, Covering
    <3>4. d \in Nat
      BY <3>1, <3>3, AmountsOf
    <3> QED BY <3>1, <3>2, <3>3, <3>4
  <2> QED BY <2>1
<1>7. Linking(gs, qs)
  BY <1>1 DEF Tracked, Linking
<1> QED BY <1>5, <1>6, <1>7 DEF Tracked, Covering

(* A parcel still on its way is among the units its fulfilment order shipped. *)
LEMMA ParcelCovered ==
    ASSUME NEW gs \in Groups, NEW ps \in Parcels, Tracked(gs, ps), NEW p \in DOMAIN ps, ps[p].status = "shipped"
    PROVE  ps[p].group \in DOMAIN gs /\ ps[p].quantity \in Nat /\ ps[p].quantity <= gs[ps[p].group].shipped
<1>1. ps[p].group \in DOMAIN gs /\ ps[p].quantity \in Nat
  <2>1. ps[p] \in ParcelRecords
    BY DEF Parcels
  <2> QED BY <2>1 DEF Tracked, Linking, ParcelRecords
<1>2. WayOf(ps[p], ps[p].group) = ps[p].quantity
  BY DEF WayOf
<1>3. ps[p].quantity <= OnItsWay(ps, ps[p].group)
  BY <1>2, EntryOnItsWay
<1>4. OnItsWay(ps, ps[p].group) <= gs[ps[p].group].shipped
  BY <1>1 DEF Tracked, Covering
<1>5. OnItsWay(ps, ps[p].group) \in Nat /\ gs[ps[p].group].shipped \in Nat
  BY <1>1, ParcelTotalsType, AmountsOf DEF Groups
<1> QED BY <1>1, <1>3, <1>4, <1>5

LEMMA OrderSettles ==
    ASSUME order \in Orders, NEW status \in {"paid", "processing", "shipped", "delivered", "cancelled"},
           NEW gs, NEW ps, Settles(status, gs, ps)
    PROVE  order' \in Orders /\ order'.owed = order.owed /\ order'.kind = order.kind
           /\ order'.status = SettleOrder(status, gs, ps)
<1>1. SettleOrder(status, gs, ps) \in {"paid", "processing", "shipped", "delivered", "cancelled"}
  BY DEF SettleOrder
<1>2. PICK s : s = SettleOrder(status, gs, ps)
  OBVIOUS
<1>3. order' = [order EXCEPT !.status = s]
  BY <1>2 DEF Settles
<1> QED BY <1>1, <1>2, <1>3 DEF Orders

(* The counts stay right when fulfilment orders and parcels change together. *)
LEMMA CountsByGroups ==
    ASSUME Counts, groups' \in Groups, parcels' \in Parcels, Tracked(groups', parcels'),
           DOMAIN groups \subseteq DOMAIN groups', groups' # <<>> => Real(groups') = Ordered,
           Shipped(groups') - SentIn(parcels') = Shipped(groups) - SentIn(parcels),
           order' \in Orders, UNCHANGED <<returns, asked>>,
           relay' \in Handling, relay'.todo \subseteq relay.todo
    PROVE  Counts'
<1>1. Shipped(groups) + ReplacedIn(returns) = SentIn(parcels)
  BY DEF Counts
<1>2. /\ Shipped(groups) \in Nat /\ SentIn(parcels) \in Nat /\ ReplacedIn(returns) \in Nat
      /\ Shipped(groups') \in Nat /\ SentIn(parcels') \in Nat
  BY TotalsType, ParcelTotalsType, ReturnTotalsType DEF Counts
<1>3. Shipped(groups') + ReplacedIn(returns') = SentIn(parcels')
  BY <1>1, <1>2
<1>4. \A todo \in relay'.todo : todo[1] \in DOMAIN groups'
  BY DEF Counts
<1> QED BY <1>3, <1>4 DEF Counts

-----------------------------------------------------------------------------
(* The acts on one fulfilment order, and what each does to the totals. *)

LEMMA GroupFacts ==
    ASSUME Counts, NEW g \in DOMAIN groups
    PROVE  /\ groups \in Groups /\ parcels \in Parcels /\ Tracked(groups, parcels)
           /\ Sound(groups[g]) /\ Countable(groups[g]) /\ groups # <<>> /\ Real(groups) = Ordered
           /\ groups[g].source <= Len(parcels) /\ OnItsWay(parcels, g) <= groups[g].shipped
           /\ groups[g].source \in Nat /\ RemainingOf(groups[g]) \in Nat /\ groups[g].shipped \in Nat
<1>1. groups \in Groups /\ parcels \in Parcels /\ Tracked(groups, parcels)
  BY DEF Counts
<1>2. Sound(groups[g]) /\ groups # <<>>
  BY <1>1 DEF Groups
<1>3. groups[g].source \in Nat
  BY <1>2 DEF Sound, GroupRecords
<1> QED BY <1>1, <1>2, <1>3, AmountsOf DEF Counts, Tracked, Linking, Covering, Sound, Countable

(* One fulfilment order changes and answers for as many units as before. *)
LEMMA CountsByOne ==
    ASSUME Counts, NEW g \in DOMAIN groups, NEW h, Sound(h), groups' = Put(groups, g, h),
           h.source = groups[g].source, h.reason = "awaiting_stock" => groups[g].reason = "awaiting_stock",
           RealOf(h) = RealOf(groups[g]), h.shipped = groups[g].shipped,
           order' \in Orders, UNCHANGED <<parcels, returns, reads>>
    PROVE  Counts'
<1>1. /\ groups \in Groups /\ parcels \in Parcels /\ Tracked(groups, parcels)
      /\ OnItsWay(parcels, g) <= groups[g].shipped /\ Real(groups) = Ordered
  BY GroupFacts
<1>2. /\ groups' \in Groups /\ DOMAIN groups' = DOMAIN groups
      /\ groups'[g] = h /\ KeepsBut(groups, groups', g)
      /\ Shipped(groups') - h.shipped = Shipped(groups) - groups[g].shipped
      /\ Real(groups') - RealOf(h) = Real(groups) - RealOf(groups[g])
  BY <1>1, GroupsChange
<1>3. Shipped(groups') = Shipped(groups) /\ Real(groups') = Real(groups)
  <2>1. /\ Shipped(groups') \in Nat /\ Shipped(groups) \in Nat /\ Real(groups') \in Nat /\ Real(groups) \in Nat
        /\ h.shipped \in Nat /\ RealOf(h) \in Nat
    BY <1>1, <1>2, TotalsType, AmountsOf
  <2> QED BY <1>2, <2>1
<1>4. /\ \A y \in DOMAIN groups : groups'[y].source = groups[y].source
      /\ \A y \in DOMAIN groups : groups'[y].reason = "awaiting_stock" => groups[y].reason = "awaiting_stock"
      /\ \A y \in DOMAIN groups : groups'[y].shipped = groups[y].shipped
  BY <1>2 DEF KeepsBut
<1>5. Tracked(groups', parcels')
  <2>1. \A y \in DOMAIN groups : OnItsWay(parcels, y) <= groups'[y].shipped
    BY <1>1, <1>4 DEF Tracked, Covering
  <2> QED BY <1>1, <1>2, <1>4, <2>1, TrackedChange
<1>6. SentIn(parcels') = SentIn(parcels) /\ relay' = relay /\ relay \in Handling
  BY DEF reads, Counts
<1> QED BY <1>1, <1>2, <1>3, <1>5, <1>6, CountsByGroups DEF reads

LEMMA HoldCounts == ASSUME Counts, NEW g \in DOMAIN groups, HoldGroup(g) PROVE Counts'
<1>1. Sound(groups[g]) /\ Countable(groups[g]) /\ groups \in Groups
  BY GroupFacts
<1>2. PICK k : k = [groups[g] EXCEPT !.reason = "by staff"]
  OBVIOUS
<1>3. /\ k \in GroupRecords /\ k.reason = "by staff" /\ k.quantity = groups[g].quantity
      /\ k.shipped = groups[g].shipped /\ k.cancelled = groups[g].cancelled
      /\ k.found = groups[g].found /\ k.source = groups[g].source
  BY <1>1, <1>2 DEF Countable, GroupRecords
<1>4. RemainingOf(k) = RemainingOf(groups[g])
  BY ONLY <1>3, SameLines
<1>5. RealOf(k) = RealOf(groups[g])
  BY <1>3 DEF RealOf
<1>6. Countable(k) /\ RemainingOf(k) > 0 /\ (k.reason = "awaiting_stock" => k.shipped = 0)
  BY <1>1, <1>3, <1>4 DEF Countable, HoldGroup, Workable
<1>7. PICK h : h = Held(k)
  OBVIOUS
<1>8. /\ Sound(h) /\ RealOf(h) = RealOf(k) /\ h.shipped = k.shipped /\ h.source = k.source /\ h.reason = k.reason
  BY ONLY <1>6, <1>7, HeldIs
<1>9. groups' = Put(groups, g, h) /\ order' = order /\ order \in Orders /\ UNCHANGED <<parcels, returns, reads>>
  BY <1>2, <1>7 DEF HoldGroup, Put, Counts
<1> QED BY <1>3, <1>5, <1>8, <1>9, CountsByOne

LEMMA ReleaseCounts == ASSUME Counts, NEW g \in DOMAIN groups, ReleaseGroup(g) PROVE Counts'
<1>1. Countable(groups[g])
  BY GroupFacts
<1>2. PICK h : h = Freed(groups[g])
  OBVIOUS
<1>3. /\ Sound(h) /\ RealOf(h) = RealOf(groups[g]) /\ h.shipped = groups[g].shipped
      /\ h.source = groups[g].source /\ h.reason = "none"
  BY ONLY <1>1, <1>2, FreedIs
<1>4. groups' = Put(groups, g, h) /\ order' = order /\ order \in Orders /\ UNCHANGED <<parcels, returns, reads>>
  BY <1>2 DEF ReleaseGroup, Put, Counts
<1> QED BY <1>3, <1>4, CountsByOne

LEMMA CancelRemainderCounts == ASSUME Counts, NEW g \in DOMAIN groups, CancelRemainder(g) PROVE Counts'
<1>1. Sound(groups[g])
  BY GroupFacts
<1>2. PICK h : h = WithRemainderCancelled(groups[g])
  OBVIOUS
<1>3. /\ Sound(h) /\ RealOf(h) = RealOf(groups[g]) /\ h.shipped = groups[g].shipped
      /\ h.source = groups[g].source /\ h.reason = "none"
  BY ONLY <1>1, <1>2, WithRemainderCancelledIs
<1>4. groups' = Put(groups, g, h) /\ UNCHANGED <<parcels, returns, reads>>
  BY <1>2 DEF CancelRemainder, Put
<1>5. order' \in Orders
  <2>1. order \in Orders /\ order.status \in {"paid", "processing", "shipped", "delivered", "cancelled"}
    BY DEF Counts, Orders
  <2>2. \E gs : Settles(order.status, gs, parcels)
    BY DEF CancelRemainder
  <2> QED BY <2>1, <2>2, OrderSettles
<1> QED BY <1>3, <1>4, <1>5, CountsByOne

(* A parcel leaves. *)
LEMMA CutShape ==
    ASSUME Counts, NEW g \in DOMAIN groups, NEW n \in Nat, n > 0, n <= RemainingOf(groups[g]),
           NEW status \in {"shipped", "delivered"}, CutShipment(g, n, status)
    PROVE  \E h, p : /\ h = WithShipped(groups[g], n) /\ groups' = Put(groups, g, h)
                     /\ p = [group |-> g, quantity |-> n, status |-> status] /\ parcels' = Grown(parcels, p)
                     /\ Settles(Started(order.status), groups', parcels')
                     /\ hold' = TakenFromHold(n, 0) /\ UNCHANGED <<returns, reads>>
                     /\ p \in ParcelRecords /\ p.group = g /\ p.quantity = n /\ p.status = status
                     /\ Sound(h) /\ RemainingOf(h) = RemainingOf(groups[g]) - n /\ h.shipped = groups[g].shipped + n
                     /\ RealOf(h) = RealOf(groups[g]) /\ WaitingOf(h) = 0
                     /\ h.source = groups[g].source /\ h.reason = "none"
<1>1. Sound(groups[g]) /\ groups \in Groups
  BY GroupFacts
<1>2. PICK h : h = WithShipped(groups[g], n)
  OBVIOUS
<1>3. /\ Sound(h) /\ RemainingOf(h) = RemainingOf(groups[g]) - n /\ h.shipped = groups[g].shipped + n
      /\ RealOf(h) = RealOf(groups[g]) /\ WaitingOf(h) = 0
      /\ h.source = groups[g].source /\ h.reason = "none"
  BY ONLY <1>1, <1>2, n \in Nat, n <= RemainingOf(groups[g]), WithShippedIs
<1>4. PICK p : p = [group |-> g, quantity |-> n, status |-> status]
  OBVIOUS
<1>5. g \in Nat
  BY <1>1, Listed DEF Groups
<1>6. p \in ParcelRecords /\ p.group = g /\ p.quantity = n /\ p.status = status
  BY <1>4, <1>5 DEF ParcelRecords, ParcelStates
<1>7. /\ groups' = Put(groups, g, h) /\ parcels' = Grown(parcels, p)
      /\ Settles(Started(order.status), groups', parcels')
      /\ hold' = TakenFromHold(n, 0) /\ UNCHANGED <<returns, reads>>
  BY <1>2, <1>4 DEF CutShipment, Put, Grown
<1> QED BY <1>2, <1>3, <1>4, <1>6, <1>7

LEMMA CutCounts ==
    ASSUME Counts, NEW g \in DOMAIN groups, NEW n \in Nat, n > 0, n <= RemainingOf(groups[g]),
           NEW status \in {"shipped", "delivered"}, CutShipment(g, n, status)
    PROVE  Counts'
<1>1. PICK h, p : /\ groups' = Put(groups, g, h) /\ parcels' = Grown(parcels, p)
                  /\ Settles(Started(order.status), groups', parcels') /\ UNCHANGED <<returns, reads>>
                  /\ p \in ParcelRecords /\ p.group = g /\ p.quantity = n /\ p.status = status
                  /\ Sound(h) /\ h.shipped = groups[g].shipped + n /\ RealOf(h) = RealOf(groups[g])
                  /\ h.source = groups[g].source /\ h.reason = "none"
  BY CutShape
<1>2. /\ groups \in Groups /\ parcels \in Parcels /\ Tracked(groups, parcels)
      /\ groups[g].source <= Len(parcels) /\ OnItsWay(parcels, g) <= groups[g].shipped
      /\ groups[g].source \in Nat /\ groups[g].shipped \in Nat /\ Real(groups) = Ordered
  BY GroupFacts
<1>3. /\ groups' \in Groups /\ DOMAIN groups' = DOMAIN groups
      /\ groups'[g] = h /\ KeepsBut(groups, groups', g)
      /\ Shipped(groups') - h.shipped = Shipped(groups) - groups[g].shipped
      /\ Real(groups') - RealOf(h) = Real(groups) - RealOf(groups[g])
  BY ONLY <1>1, <1>2, g \in DOMAIN groups, GroupsChange
<1>4. /\ parcels' \in Parcels /\ Len(parcels') = Len(parcels) + 1 /\ DOMAIN parcels' = DOMAIN parcels \cup {Len(parcels) + 1}
      /\ parcels'[Len(parcels) + 1] = p /\ Keeps(parcels, parcels')
      /\ SentIn(parcels') = SentIn(parcels) + SentOf(p) /\ WaysGrow(parcels, parcels', p)
  <2>1. parcels \in Parcels /\ p \in ParcelRecords /\ parcels' = Grown(parcels, p)
    BY <1>1, <1>2
  <2> QED BY ONLY <2>1, ParcelAdded
<1>12. /\ \A y \in DOMAIN groups \ {g} : groups'[y] = groups[y]
       /\ \A y \in DOMAIN parcels : parcels'[y] = parcels[y]
       /\ \A y : OnItsWay(parcels', y) = OnItsWay(parcels, y) + WayOf(p, y)
  BY <1>3, <1>4 DEF Keeps, KeepsBut, WaysGrow
<1>5. SentOf(p) = n /\ WayOf(p, g) \in {0, n} /\ \A y : y # g => WayOf(p, y) = 0
  BY <1>1 DEF SentOf, WayOf
<1>6. /\ Shipped(groups') = Shipped(groups) + n /\ Real(groups') = Real(groups)
      /\ SentIn(parcels') = SentIn(parcels) + n
  <2>1. /\ Shipped(groups') \in Nat /\ Shipped(groups) \in Nat /\ Real(groups') \in Nat /\ Real(groups) \in Nat
        /\ RealOf(h) \in Nat
    BY <1>1, <1>2, <1>3, TotalsType, AmountsOf
  <2>2. PICK a, b : a = h.shipped /\ b = groups[g].shipped
    OBVIOUS
  <2>3. a = b + n /\ b \in Nat /\ Shipped(groups') - a = Shipped(groups) - b
    BY <1>1, <1>2, <1>3, <2>2
  <2>4. Shipped(groups') = Shipped(groups) + n
    BY ONLY <2>1, <2>3, n \in Nat
  <2>5. RealOf(h) = RealOf(groups[g]) /\ Real(groups') - RealOf(h) = Real(groups) - RealOf(groups[g])
    BY <1>1, <1>3
  <2>6. Real(groups') = Real(groups)
    BY ONLY <2>1, <2>5
  <2> QED BY <1>4, <1>5, <2>4, <2>6
<1>7. Covering(groups', parcels')
  <2>1. ASSUME NEW y \in DOMAIN groups PROVE OnItsWay(parcels', y) <= groups'[y].shipped
    <3>1. PICK a, b : a = OnItsWay(parcels, y) /\ b = groups[y].shipped
      OBVIOUS
    <3>2. a \in Nat /\ b \in Nat /\ a <= b
      <4>1. OnItsWay(parcels, y) \in Nat /\ groups[y].shipped \in Nat
        BY <1>2, ParcelTotalsType, GroupFacts
      <4> QED BY <1>2, <3>1, <4>1 DEF Tracked, Covering
    <3>3. CASE y = g
      <4>1. groups'[y].shipped = b + n /\ OnItsWay(parcels', y) \in {a, a + n}
        BY <1>1, <1>3, <1>12, <1>5, <3>1, <3>2, <3>3
      <4> QED BY <3>2, <4>1
    <3>4. CASE y # g
      BY <1>12, <1>5, <3>1, <3>2, <3>4
    <3> QED BY <3>3, <3>4
  <2> QED BY <1>3, <2>1 DEF Covering
<1>8. Linking(groups', parcels')
  <2>1. Len(parcels) \in Nat /\ DOMAIN parcels = 1 .. Len(parcels)
    BY <1>2, Listed DEF Parcels
  <2>2. \A y \in DOMAIN groups : groups'[y].source = groups[y].source
    BY <1>1, <1>3, <1>12
  <2>3. \A y \in DOMAIN groups : groups'[y].reason = "awaiting_stock" => groups[y].reason = "awaiting_stock"
    BY <1>1, <1>3, <1>12
  <2>4. ASSUME NEW y \in DOMAIN groups PROVE groups'[y].source <= Len(parcels')
    <3>1. groups[y].source <= Len(parcels) /\ groups[y].source \in Nat
      BY GroupFacts
    <3> QED BY <1>4, <2>1, <2>2, <3>1
  <2>5. ASSUME NEW q \in DOMAIN parcels
        PROVE  /\ parcels'[q].group \in DOMAIN groups /\ groups'[parcels'[q].group].source < q
               /\ groups'[parcels'[q].group].reason # "awaiting_stock"
    BY <1>2, <1>12, <2>2, <2>3 DEF Tracked, Linking
  <2>6. /\ p.group \in DOMAIN groups /\ groups'[p.group].source < Len(parcels) + 1
        /\ groups'[p.group].reason # "awaiting_stock"
    <3>1. groups[g].source < Len(parcels) + 1
      BY <1>2, <2>1
    <3> QED BY <1>1, <1>3, <3>1
  <2>7. \A q \in DOMAIN parcels' :
           /\ parcels'[q].group \in DOMAIN groups' /\ groups'[parcels'[q].group].source < q
           /\ groups'[parcels'[q].group].reason # "awaiting_stock"
    BY <1>3, <1>4, <1>12, <2>5, <2>6
  <2> QED BY <1>3, <2>4, <2>7 DEF Linking
<1>9. order' \in Orders
  <2>1. order \in Orders /\ Started(order.status) \in {"paid", "processing", "shipped", "delivered", "cancelled"}
    BY DEF Counts, Orders, Started
  <2> QED BY <1>1, <2>1, OrderSettles
<1>10. Shipped(groups') - SentIn(parcels') = Shipped(groups) - SentIn(parcels)
  <2>1. Shipped(groups) \in Nat /\ SentIn(parcels) \in Nat
    BY <1>2, TotalsType, ParcelTotalsType
  <2> QED BY <1>6, <2>1
<1>11. relay' = relay /\ relay \in Handling /\ UNCHANGED asked
  BY <1>1 DEF reads, Counts
<1> QED BY <1>1, <1>2, <1>3, <1>4, <1>6, <1>7, <1>8, <1>9, <1>10, <1>11, CountsByGroups DEF Tracked

LEMMA ShipCounts == ASSUME Counts, NEW g \in DOMAIN groups, Ship(g) \/ Fulfil(g) PROVE Counts'
<1>1. RemainingOf(groups[g]) \in Nat
  BY GroupFacts
<1>2. CASE Ship(g)
  <2>1. PICK n \in 1 .. RemainingOf(groups[g]) : CutShipment(g, n, "shipped")
    BY <1>2 DEF Ship
  <2>2. n \in Nat /\ n > 0 /\ n <= RemainingOf(groups[g])
    BY <1>1
  <2> QED BY <2>1, <2>2, CutCounts
<1>3. CASE Fulfil(g)
  <2>1. CutShipment(g, RemainingOf(groups[g]), "delivered") /\ RemainingOf(groups[g]) > 0
    BY <1>3 DEF Fulfil, CutShipment, Workable
  <2> QED BY <1>1, <2>1, CutCounts
<1> QED BY <1>2, <1>3

(* What is owed again waits in a fulfilment order of its own. *)
LEMMA OwedGroups ==
    ASSUME NEW gs \in Groups, NEW ps \in Parcels, Tracked(gs, ps), NEW owed \in Nat,
           NEW source \in Nat, source <= Len(ps), NEW hs, hs = WithOwed(gs, owed, source)
    PROVE  /\ hs \in Groups /\ Tracked(hs, ps) /\ DOMAIN gs \subseteq DOMAIN hs /\ Keeps(gs, hs)
           /\ Remaining(hs) = Remaining(gs) + owed /\ Waiting(hs) = Waiting(gs) + owed
           /\ Shipped(hs) = Shipped(gs) /\ Real(hs) = Real(gs) + owed
           /\ owed = 0 => hs = gs
           /\ Len(hs) = IF owed = 0 THEN Len(gs) ELSE Len(gs) + 1
<1>1. /\ Remaining(gs) \in Nat /\ Waiting(gs) \in Nat /\ Shipped(gs) \in Nat /\ Real(gs) \in Nat
  BY TotalsType
<1>2. CASE owed = 0
  <2>1. hs = gs
    BY <1>2 DEF WithOwed
  <2> QED BY <1>1, <1>2, <2>1 DEF Keeps
<1>3. CASE owed # 0
  <2>1. PICK h : h = Group(owed, "awaiting_stock", source)
    OBVIOUS
  <2>2. PICK why : why = "awaiting_stock"
    OBVIOUS
  <2>3. owed > 0 /\ h = Group(owed, why, source) /\ why \in {"none", "awaiting_stock"}
    BY <1>3, <2>1, <2>2
  <2>4. /\ Sound(h) /\ RemainingOf(h) = owed /\ RealOf(h) = owed /\ h.shipped = 0
        /\ WaitingOf(h) = (IF why = "awaiting_stock" THEN owed ELSE 0) /\ h.source = source
    BY ONLY <2>3, owed \in Nat, source \in Nat, GroupIs
  <2>8. Sound(h) /\ gs \in Groups
    BY <2>4
  <2>5. hs = Grown(gs, h)
    BY <1>3, <2>1 DEF WithOwed, Grown
  <2>6. /\ hs \in Groups /\ Len(hs) = Len(gs) + 1 /\ DOMAIN hs = DOMAIN gs \cup {Len(gs) + 1} /\ Keeps(gs, hs)
        /\ Remaining(hs) = Remaining(gs) + RemainingOf(h) /\ Waiting(hs) = Waiting(gs) + WaitingOf(h)
        /\ Shipped(hs) = Shipped(gs) + h.shipped /\ Real(hs) = Real(gs) + RealOf(h)
    <3>1. Added(gs, h, hs)
      BY ONLY <2>8, <2>5, GroupAdded
    <3> QED BY <3>1 DEF Added
  <2>7. Tracked(hs, ps)
    BY <2>4, <2>5, TrackedMore
  <2> QED BY <1>1, <1>3, <2>2, <2>4, <2>6, <2>7
<1> QED BY <1>2, <1>3

(* A parcel on its way is lost: its units remain again, those owed wait. *)
LEMMA LossShape ==
    ASSUME Counts, NEW p \in DOMAIN parcels, MarkLost(p)
    PROVE  \E owed \in 0 .. parcels[p].quantity :
              /\ OwedFits(owed) /\ hold' = [stock |-> hold.stock + parcels[p].quantity - owed, owed |-> hold.owed + owed]
              /\ groups' \in Groups /\ parcels' \in Parcels /\ Tracked(groups', parcels')
              /\ DOMAIN groups \subseteq DOMAIN groups'
              /\ Remaining(groups') = Remaining(groups) + parcels[p].quantity
              /\ Waiting(groups') = Waiting(groups) + owed
              /\ Shipped(groups') = Shipped(groups) - parcels[p].quantity /\ Real(groups') = Real(groups)
              /\ SentIn(parcels') = SentIn(parcels) - parcels[p].quantity
              /\ Len(groups') = IF owed = 0 THEN Len(groups) ELSE Len(groups) + 1
              /\ \A y \in DOMAIN groups : AwaitingStock(groups'[y]) \/ AwaitingStock(groups[y]) => groups'[y] = groups[y]
<1>1. parcels[p].status = "shipped" /\ p \in DOMAIN parcels
  BY DEF MarkLost
<1>2. PICK x, q : x = parcels[p].group /\ q = parcels[p].quantity
  OBVIOUS
<1>3. /\ groups \in Groups /\ parcels \in Parcels /\ Tracked(groups, parcels)
  BY DEF Counts
<1>4. x \in DOMAIN groups /\ q \in Nat /\ q <= groups[x].shipped /\ groups[x].reason # "awaiting_stock"
  <2>1. groups[x].reason # "awaiting_stock"
    BY <1>2, <1>3 DEF Tracked, Linking
  <2> QED BY <1>1, <1>2, <1>3, <2>1, ParcelCovered
<1>5. PICK owed \in 0 .. q :
         /\ OwedFits(owed) /\ hold' = [stock |-> hold.stock + q - owed, owed |-> hold.owed + owed]
         /\ groups' = WithOwed([groups EXCEPT ![x] = WithLoss(@, q, owed)], owed, p)
  BY <1>2 DEF MarkLost
<1>6. PICK h : h = WithLoss(groups[x], q, owed)
  OBVIOUS
<1>7. Sound(groups[x]) /\ owed \in Nat /\ owed <= q
  BY <1>4, <1>5, GroupFacts
<1>8. /\ Sound(h) /\ RemainingOf(h) = RemainingOf(groups[x]) + q - owed /\ h.shipped = groups[x].shipped - q
      /\ RealOf(h) = RealOf(groups[x]) - owed /\ WaitingOf(h) = 0 /\ h.source = groups[x].source
      /\ h.reason = groups[x].reason
  BY ONLY <1>4, <1>6, <1>7, WithLossIs
<1>9. PICK gs : gs = Put(groups, x, h)
  OBVIOUS
<1>10. groups' = WithOwed(gs, owed, p)
  BY <1>4, <1>5, <1>6, <1>9 DEF Put
<1>11. /\ gs \in Groups /\ DOMAIN gs = DOMAIN groups /\ Len(gs) = Len(groups) /\ gs[x] = h /\ KeepsBut(groups, gs, x)
       /\ Remaining(gs) - RemainingOf(h) = Remaining(groups) - RemainingOf(groups[x])
       /\ Waiting(gs) - WaitingOf(h) = Waiting(groups) - WaitingOf(groups[x])
       /\ Shipped(gs) - h.shipped = Shipped(groups) - groups[x].shipped
       /\ Real(gs) - RealOf(h) = Real(groups) - RealOf(groups[x])
  BY ONLY <1>3, <1>4, <1>8, <1>9, GroupsChange
<1>12. parcels' = Put(parcels, p, Moved(parcels[p], "lost"))
  BY <1>3 DEF MarkLost, Put, Moved, Parcels
<1>13. PICK to : to = "lost"
  OBVIOUS
<1>14. to \in ParcelStates /\ to # "shipped" /\ parcels' = Put(parcels, p, Moved(parcels[p], to))
  BY <1>12, <1>13 DEF ParcelStates
<1>15. /\ parcels' \in Parcels /\ DOMAIN parcels' = DOMAIN parcels /\ Len(parcels') = Len(parcels)
       /\ parcels'[p].status = to /\ SentIn(parcels') - SentOf(parcels'[p]) = SentIn(parcels) - SentOf(parcels[p])
  BY ONLY <1>1, <1>3, <1>14, ParcelsChange
<1>16. /\ Tracked(groups, parcels')
       /\ OnItsWay(parcels', parcels[p].group) = OnItsWay(parcels, parcels[p].group) - WayOf(parcels[p], parcels[p].group)
  BY ONLY <1>1, <1>3, <1>14, TrackedParcel
<1>17. OnItsWay(parcels', x) = OnItsWay(parcels, x) - q
  BY <1>1, <1>2, <1>16 DEF WayOf
<1>18. PICK a, b, c : a = OnItsWay(parcels, x) /\ b = groups[x].shipped /\ c = RemainingOf(groups[x])
  OBVIOUS
<1>19. a \in Nat /\ b \in Nat /\ c \in Nat /\ a <= b
  BY <1>3, <1>4, <1>18, GroupFacts, ParcelTotalsType
<1>20. Tracked(gs, parcels')
  <2>1. /\ \A y \in DOMAIN groups : gs[y].source = groups[y].source
        /\ \A y \in DOMAIN groups : gs[y].reason = "awaiting_stock" => groups[y].reason = "awaiting_stock"
    BY <1>8, <1>11 DEF KeepsBut
  <2>2. ASSUME NEW y \in DOMAIN groups PROVE OnItsWay(parcels', y) <= gs[y].shipped
    <3>1. CASE y = x
      <4>1. OnItsWay(parcels', y) = a - q /\ gs[y].shipped = b - q
        BY <1>8, <1>11, <1>17, <1>18, <3>1
      <4> QED BY <1>4, <1>19, <4>1
    <3>2. CASE y # x
      BY <1>11, <1>16, <3>2 DEF KeepsBut, Tracked, Covering
    <3> QED BY <3>1, <3>2
  <2> QED BY <1>3, <1>11, <1>16, <2>1, <2>2, TrackedChange
<1>21. p \in Nat /\ p <= Len(parcels')
  BY <1>1, <1>3, <1>15, Listed DEF Parcels
<1>22. /\ groups' \in Groups /\ Tracked(groups', parcels') /\ DOMAIN gs \subseteq DOMAIN groups' /\ Keeps(gs, groups')
       /\ Remaining(groups') = Remaining(gs) + owed /\ Waiting(groups') = Waiting(gs) + owed
       /\ Shipped(groups') = Shipped(gs) /\ Real(groups') = Real(gs) + owed
       /\ Len(groups') = IF owed = 0 THEN Len(gs) ELSE Len(gs) + 1
  BY ONLY <1>7, <1>10, <1>11, <1>15, <1>20, <1>21, OwedGroups
<1>23. WaitingOf(groups[x]) = 0
  BY <1>4 DEF WaitingOf, AwaitingStock
<1>24. /\ Remaining(gs) = Remaining(groups) + q - owed /\ Waiting(gs) = Waiting(groups)
       /\ Shipped(gs) = Shipped(groups) - q /\ Real(gs) = Real(groups) - owed
  <2>1. /\ Remaining(gs) \in Nat /\ Waiting(gs) \in Nat /\ Shipped(gs) \in Nat /\ Real(gs) \in Nat
        /\ Remaining(groups) \in Nat /\ Waiting(groups) \in Nat /\ Shipped(groups) \in Nat /\ Real(groups) \in Nat
    BY <1>3, <1>11, TotalsType
  <2>2. RealOf(groups[x]) \in Nat
    BY <1>7, AmountsOf
  <2>3. PICK r : r = RealOf(groups[x])
    OBVIOUS
  <2>4. /\ Remaining(gs) - (c + q - owed) = Remaining(groups) - c
        /\ Shipped(gs) - (b - q) = Shipped(groups) - b
        /\ Real(gs) - (r - owed) = Real(groups) - r
        /\ Waiting(gs) - 0 = Waiting(groups) - 0
    BY <1>8, <1>11, <1>18, <1>23, <2>3
  <2>5. r \in Nat
    BY <2>2, <2>3
  <2> QED BY ONLY <1>4, <1>7, <1>19, <2>1, <2>4, <2>5
<1>25. /\ Remaining(groups') = Remaining(groups) + q /\ Waiting(groups') = Waiting(groups) + owed
       /\ Shipped(groups') = Shipped(groups) - q /\ Real(groups') = Real(groups)
  <2>1. /\ Remaining(groups) \in Nat /\ Waiting(groups) \in Nat /\ Shipped(groups) \in Nat /\ Real(groups) \in Nat
    BY <1>3, TotalsType
  <2> QED BY ONLY <1>4, <1>7, <1>22, <1>24, <2>1
<1>26. SentIn(parcels') = SentIn(parcels) - q
  <2>1. SentOf(parcels'[p]) = 0 /\ SentOf(parcels[p]) = q
    BY <1>1, <1>2, <1>13, <1>15 DEF SentOf
  <2>2. SentIn(parcels') \in Nat /\ SentIn(parcels) \in Nat
    BY <1>3, <1>15, ParcelTotalsType
  <2>3. SentIn(parcels') - 0 = SentIn(parcels) - q
    BY <1>15, <2>1
  <2> QED BY ONLY <1>4, <2>2, <2>3
<1>27. \A y \in DOMAIN groups : AwaitingStock(groups'[y]) \/ AwaitingStock(groups[y]) => groups'[y] = groups[y]
  <2>1. ~ AwaitingStock(h) /\ ~ AwaitingStock(groups[x])
    BY <1>4, <1>8 DEF AwaitingStock
  <2> QED BY <1>11, <1>22, <2>1 DEF Keeps, KeepsBut
<1> QED BY <1>2, <1>5, <1>11, <1>15, <1>22, <1>25, <1>26, <1>27

LEMMA LossCounts == ASSUME Counts, NEW p \in DOMAIN parcels, MarkLost(p) PROVE Counts'
<1>1. PICK owed \in 0 .. parcels[p].quantity :
         /\ groups' \in Groups /\ parcels' \in Parcels /\ Tracked(groups', parcels')
         /\ DOMAIN groups \subseteq DOMAIN groups'
         /\ Shipped(groups') = Shipped(groups) - parcels[p].quantity /\ Real(groups') = Real(groups)
         /\ SentIn(parcels') = SentIn(parcels) - parcels[p].quantity
  BY LossShape
<1>2. PICK q : q = parcels[p].quantity
  OBVIOUS
<1>3. q \in Nat /\ groups # <<>>
  <2>1. parcels[p] \in ParcelRecords
    BY DEF Counts, Parcels
  <2>2. parcels[p].group \in DOMAIN groups
    BY DEF Counts, Tracked, Linking
  <2>3. groups # <<>>
    BY <2>2
  <2> QED BY <1>2, <2>1, <2>3 DEF ParcelRecords
<1>4. Shipped(groups') - SentIn(parcels') = Shipped(groups) - SentIn(parcels)
  <2>1. Shipped(groups) \in Nat /\ SentIn(parcels) \in Nat
    BY TotalsType, ParcelTotalsType DEF Counts
  <2>2. Shipped(groups') = Shipped(groups) - q /\ SentIn(parcels') = SentIn(parcels) - q
    BY <1>1, <1>2
  <2> QED BY ONLY <1>3, <2>1, <2>2
<1>5. order' \in Orders
  BY DEF MarkLost, Counts, Orders
<1>6. /\ UNCHANGED <<returns, asked>> /\ relay' = relay /\ relay \in Handling /\ Real(groups) = Ordered
  BY <1>3 DEF MarkLost, reads, Counts
<1> QED BY <1>1, <1>4, <1>5, <1>6, CountsByGroups

-----------------------------------------------------------------------------
(* Fulfilment orders written for a paid order, and split for a release.      *)

Why == {"none", "awaiting_stock"}
(* hs is gs with another fulfilment order, h, of n units. *)
Extends(gs, hs, ps, h, n, why) ==
    /\ hs \in Groups /\ Tracked(hs, ps) /\ DOMAIN hs = DOMAIN gs \cup {Len(gs) + 1} /\ Keeps(gs, hs)
    /\ hs[Len(gs) + 1] = h /\ h.reason = why /\ Len(hs) = Len(gs) + 1
    /\ Remaining(hs) = Remaining(gs) + n
    /\ Waiting(hs) = Waiting(gs) + (IF why = "awaiting_stock" THEN n ELSE 0)
    /\ Shipped(hs) = Shipped(gs) /\ Real(hs) = Real(gs) + n
LEMMA GroupMore ==
    ASSUME NEW gs \in Groups, NEW ps \in Parcels, Tracked(gs, ps), NEW n \in Nat, n > 0,
           NEW why \in Why, NEW source \in Nat, source <= Len(ps),
           NEW h, h = Group(n, why, source), NEW hs, hs = Grown(gs, h)
    PROVE  Extends(gs, hs, ps, h, n, why)
<1>1. /\ Sound(h) /\ RemainingOf(h) = n /\ RealOf(h) = n /\ h.shipped = 0 /\ h.reason = why
      /\ WaitingOf(h) = (IF why = "awaiting_stock" THEN n ELSE 0) /\ h.source = source
  BY GroupIs DEF Why
<1>2. Sound(h) /\ gs \in Groups
  BY <1>1
<1>3. /\ hs \in Groups /\ Len(hs) = Len(gs) + 1 /\ DOMAIN hs = DOMAIN gs \cup {Len(gs) + 1} /\ Keeps(gs, hs)
      /\ hs[Len(gs) + 1] = h
      /\ Remaining(hs) = Remaining(gs) + RemainingOf(h) /\ Waiting(hs) = Waiting(gs) + WaitingOf(h)
      /\ Shipped(hs) = Shipped(gs) + h.shipped /\ Real(hs) = Real(gs) + RealOf(h)
  <2>1. Added(gs, h, hs)
    BY ONLY <1>2, hs = Grown(gs, h), GroupAdded
  <2> QED BY <2>1 DEF Added
<1>4. Tracked(hs, ps)
  BY <1>1, TrackedMore
<1>5. Shipped(gs) \in Nat
  BY TotalsType
<1> QED BY <1>1, <1>3, <1>4, <1>5 DEF Extends

LEMMA NoGroups ==
    /\ <<>> \in Groups /\ Remaining(<<>>) = 0 /\ Waiting(<<>>) = 0 /\ Shipped(<<>>) = 0 /\ Real(<<>>) = 0
<1>1. <<>> \in Groups /\ DOMAIN <<>> = {}
  BY DEF Groups
<1>2. PICK gs : gs = <<>>
  OBVIOUS
<1>3. \A g \in DOMAIN gs : Left(gs)[g] = 0 /\ Owed(gs)[g] = 0 /\ Gone(gs)[g] = 0 /\ Own(gs)[g] = 0
  BY <1>1, <1>2
<1>4. gs \in Groups
  BY <1>1, <1>2
<1>5. Sum(Left(gs)) = 0 /\ Sum(Owed(gs)) = 0 /\ Sum(Gone(gs)) = 0 /\ Sum(Own(gs)) = 0
  BY <1>3, <1>4, AmountTables, SumZero
<1> QED BY <1>1, <1>2, <1>5, TotalsAre

(* What is in stock is one fulfilment order, what waits another. *)
LEMMA OrderLines ==
    ASSUME Counts, groups = <<>>, NEW gs, gs = GroupOrderLines
    PROVE  /\ gs \in Groups /\ Tracked(gs, parcels) /\ gs # <<>> /\ Len(gs) <= 2
           /\ Remaining(gs) = Ordered /\ Waiting(gs) = order.owed
           /\ Shipped(gs) = 0 /\ Real(gs) = Ordered
<1>1. PICK o : o = order.owed
  OBVIOUS
<1>0. PICK e : e = <<>>
  OBVIOUS
<1>2. o \in 0 .. Ordered /\ Ordered \in Nat /\ Ordered > 0
  <2>1. order.owed \in Backorders
    BY DEF Counts, Orders
  <2>2. Backorders \subseteq 0 .. Ordered
    BY FulfilmentAssumption
  <2>3. Ordered \in Nat \ {0}
    BY FulfilmentAssumption
  <2>4. order.owed \in 0 .. Ordered
    BY ONLY <2>1, <2>2
  <2> QED BY ONLY <1>1, <2>3, <2>4
<1>3. PICK n : n = Ordered - o
  OBVIOUS
<1>4. n \in Nat /\ o \in Nat
  BY <1>2, <1>3
<1>18. n + o = Ordered
  BY <1>2, <1>3
<1>16. PICK zero : zero = 0
  OBVIOUS
<1>5. parcels \in Parcels /\ Tracked(e, parcels) /\ e \in Groups /\ zero \in Nat /\ zero <= Len(parcels)
  <2>1. Len(parcels) \in Nat
    BY Listed DEF Counts, Parcels
  <2> QED BY <1>0, <1>16, <2>1, NoGroups DEF Counts
<1>6. PICK none, stock : none = "none" /\ stock = "awaiting_stock"
  OBVIOUS
<1>17. PICK a, b : a = Group(n, none, zero) /\ b = Group(o, stock, zero)
  OBVIOUS
<1>7. none \in Why /\ stock \in Why
  BY <1>6 DEF Why
<1>8. PICK ga : ga = Grown(e, a)
  OBVIOUS
<1>9. n > 0 => /\ ga \in Groups /\ Tracked(ga, parcels) /\ Len(ga) = Len(e) + 1
               /\ Remaining(ga) = Remaining(e) + n
               /\ Waiting(ga) = Waiting(e) + (IF none = "awaiting_stock" THEN n ELSE 0)
               /\ Shipped(ga) = Shipped(e) /\ Real(ga) = Real(e) + n
  <2>1. ASSUME n > 0
        PROVE  /\ ga \in Groups /\ Tracked(ga, parcels) /\ Len(ga) = Len(e) + 1
               /\ Remaining(ga) = Remaining(e) + n
               /\ Waiting(ga) = Waiting(e) + (IF none = "awaiting_stock" THEN n ELSE 0)
               /\ Shipped(ga) = Shipped(e) /\ Real(ga) = Real(e) + n
    <3>1. Extends(e, ga, parcels, a, n, none)
      BY ONLY <1>4, <1>5, <1>17, <1>7, <1>8, <2>1, GroupMore
    <3> QED BY <3>1 DEF Extends
  <2> QED BY <2>1
<1>10. PICK base : base = IF n > 0 THEN ga ELSE e
  OBVIOUS
<1>11. /\ base \in Groups /\ Tracked(base, parcels) /\ Len(base) = (IF n > 0 THEN 1 ELSE 0)
       /\ Remaining(base) = n /\ Waiting(base) = 0 /\ Shipped(base) = 0 /\ Real(base) = n
  <2>1. Len(e) = 0 /\ Remaining(e) = 0 /\ Waiting(e) = 0 /\ Shipped(e) = 0 /\ Real(e) = 0
    BY <1>0, NoGroups
  <2>2. none # "awaiting_stock"
    BY <1>6
  <2>3. CASE n > 0
    BY ONLY <1>4, <1>9, <1>10, <2>1, <2>2, <2>3
  <2>4. CASE ~ (n > 0)
    <3>1. n = 0 /\ base = e
      BY <1>4, <1>10, <2>4
    <3> QED BY <1>1, <1>5, <2>1, <2>4, <3>1
  <2> QED BY <2>3, <2>4
<1>12. PICK gb : gb = Grown(base, b)
  OBVIOUS
<1>13. base \in Groups /\ Tracked(base, parcels)
  BY <1>11
<1>14. CASE o > 0
  <2>1. /\ gb \in Groups /\ Tracked(gb, parcels) /\ Len(gb) = Len(base) + 1
        /\ Remaining(gb) = Remaining(base) + o
        /\ Waiting(gb) = Waiting(base) + (IF stock = "awaiting_stock" THEN o ELSE 0)
        /\ Shipped(gb) = Shipped(base) /\ Real(gb) = Real(base) + o
    <3>1. Extends(base, gb, parcels, b, o, stock)
      BY ONLY <1>4, <1>5, <1>17, <1>7, <1>12, <1>13, <1>14, GroupMore
    <3> QED BY <3>1 DEF Extends
  <2>2. gs = gb
    <3>1. CASE n > 0
      <4>1. gs = <<a>> \o <<b>>
        BY <1>1, <1>2, <1>3, <1>6, <1>16, <1>17, <1>14, <3>1 DEF GroupOrderLines
      <4>2. gb = Append(Append(<<>>, a), b)
        BY <1>0, <1>8, <1>10, <1>12, <3>1 DEF Grown
      <4> QED BY ONLY <4>1, <4>2
    <3>2. CASE ~ (n > 0)
      <4>0. ~ (Ordered > o)
        BY <1>2, <1>3, <3>2
      <4>1. gs = <<>> \o <<b>>
        BY <1>1, <1>2, <1>3, <1>6, <1>16, <1>17, <1>14, <3>2, <4>0 DEF GroupOrderLines
      <4>2. gb = Append(<<>>, b)
        BY <1>0, <1>10, <1>12, <3>2 DEF Grown
      <4> QED BY ONLY <4>1, <4>2
    <3> QED BY <3>1, <3>2
  <2>3. stock = "awaiting_stock"
    BY <1>6
  <2>5. Len(gs) = Len(base) + 1
    BY ONLY <2>1, <2>2
  <2>4. Len(gs) # 0 /\ Len(gs) <= 2
    BY ONLY <1>11, <2>5
  <2> QED BY <1>1, <1>4, <1>18, <1>11, <2>1, <2>2, <2>3, <2>4
<1>15. CASE ~ (o > 0)
  <2>1. o = 0 /\ n = Ordered /\ n > 0
    BY <1>2, <1>4, <1>18, <1>15
  <2>2. gs = <<a>> \o <<>>
    BY <1>1, <1>2, <1>3, <1>6, <1>16, <1>17, <2>1 DEF GroupOrderLines
  <2>3. base = Append(<<>>, a)
    BY <1>0, <1>8, <1>10, <2>1 DEF Grown
  <2>4. gs = base
    BY ONLY <2>2, <2>3
  <2>5. Len(gs) # 0
    BY <1>11, <2>1, <2>4
  <2> QED BY <1>1, <1>11, <2>1, <2>4, <2>5
<1> QED BY <1>14, <1>15

LEMMA EnsureCounts == ASSUME Counts, EnsureWrite PROVE Counts'
<1>1. /\ UNCHANGED <<order, parcels, returns, relay, asked>>
      /\ groups' = IF groups = <<>> /\ Reportable THEN GroupOrderLines ELSE groups
  BY DEF EnsureWrite
<1>2. CASE groups' = groups
  BY <1>1, <1>2 DEF Counts
<1>3. CASE groups' # groups
  <2>1. groups = <<>> /\ groups' = GroupOrderLines
    BY <1>1, <1>3
  <2>2. /\ groups' \in Groups /\ Tracked(groups', parcels) /\ Shipped(groups') = 0 /\ Real(groups') = Ordered
    BY <2>1, OrderLines
  <2>3. Shipped(groups) = 0
    BY <2>1, NoGroups
  <2>4. parcels' \in Parcels /\ order' \in Orders /\ relay' \in Handling /\ relay'.todo \subseteq relay.todo
    BY <1>1 DEF Counts
  <2> QED BY <1>1, <2>1, <2>2, <2>3, <2>4, CountsByGroups
<1> QED BY <1>2, <1>3

(* gs after n of the units of g stopped waiting. *)
LEMMA SplitsIs ==
    ASSUME Counts, NEW g \in DOMAIN groups, NEW n \in Nat, n > 0, NEW gs, gs = Splits(g, n)
    PROVE  /\ gs \in Groups /\ Tracked(gs, parcels) /\ DOMAIN groups \subseteq DOMAIN gs
           /\ Remaining(gs) = Remaining(groups) /\ Shipped(gs) = Shipped(groups) /\ Real(gs) = Real(groups)
           /\ Reportable /\ AwaitingStock(groups[g]) /\ n <= RemainingOf(groups[g]) =>
                 Waiting(gs) = Waiting(groups) - n
           /\ Reportable /\ AwaitingStock(groups[g]) /\ n = RemainingOf(groups[g]) =>
                 DOMAIN gs = DOMAIN groups /\ KeepsBut(groups, gs, g) /\ ~ AwaitingStock(gs[g])
<1>1. PICK held, rem : held = groups[g] /\ rem = RemainingOf(held)
  OBVIOUS
<1>2. /\ groups \in Groups /\ parcels \in Parcels /\ Tracked(groups, parcels)
      /\ Sound(held) /\ Countable(held) /\ held.source <= Len(parcels) /\ held.source \in Nat /\ rem \in Nat
  BY <1>1, GroupFacts
<1>3. /\ Remaining(groups) \in Nat /\ Waiting(groups) \in Nat /\ Shipped(groups) \in Nat /\ Real(groups) \in Nat
      /\ RealOf(held) \in Nat /\ held.shipped \in Nat
  BY <1>2, TotalsType, AmountsOf
<1>4. \A y \in DOMAIN groups : OnItsWay(parcels, y) <= groups[y].shipped
  BY <1>2 DEF Tracked, Covering
<1>5. CASE ~ Reportable \/ ~ AwaitingStock(held) \/ n > rem
  <2>1. gs = groups
    BY <1>1, <1>5 DEF Splits
  <2>2. ~ (Reportable /\ AwaitingStock(held) /\ n <= rem)
    BY <1>2, <1>5
  <2> QED BY <1>1, <1>2, <2>1, <2>2
<1>6. CASE Reportable /\ AwaitingStock(held) /\ n = rem
  <2>1. PICK h : h = Freed(held)
    OBVIOUS
  <2>2. /\ Sound(h) /\ RemainingOf(h) = RemainingOf(held) /\ RealOf(h) = RealOf(held) /\ WaitingOf(h) = 0
        /\ h.shipped = held.shipped /\ h.source = held.source /\ h.reason = "none"
    BY ONLY <1>2, <2>1, FreedIs
  <2>3. gs = Put(groups, g, h)
    BY <1>1, <1>6, <2>1 DEF Splits, Put
  <2>4. /\ gs \in Groups /\ DOMAIN gs = DOMAIN groups /\ gs[g] = h /\ KeepsBut(groups, gs, g)
        /\ Remaining(gs) - RemainingOf(h) = Remaining(groups) - RemainingOf(groups[g])
        /\ Waiting(gs) - WaitingOf(h) = Waiting(groups) - WaitingOf(groups[g])
        /\ Shipped(gs) - h.shipped = Shipped(groups) - groups[g].shipped
        /\ Real(gs) - RealOf(h) = Real(groups) - RealOf(groups[g])
    BY ONLY <1>2, <2>2, <2>3, g \in DOMAIN groups, GroupsChange
  <2>5. Remaining(gs) \in Nat /\ Waiting(gs) \in Nat /\ Shipped(gs) \in Nat /\ Real(gs) \in Nat
    BY <2>4, TotalsType
  <2>6. PICK r, s : r = RealOf(held) /\ s = held.shipped
    OBVIOUS
  <2>7. /\ Remaining(gs) - rem = Remaining(groups) - rem /\ Waiting(gs) - 0 = Waiting(groups) - rem
        /\ Shipped(gs) - s = Shipped(groups) - s /\ Real(gs) - r = Real(groups) - r /\ r \in Nat /\ s \in Nat
    BY <1>1, <1>3, <1>6, <2>2, <2>4, <2>6 DEF WaitingOf
  <2>8. /\ Remaining(gs) = Remaining(groups) /\ Waiting(gs) = Waiting(groups) - rem
        /\ Shipped(gs) = Shipped(groups) /\ Real(gs) = Real(groups)
    BY ONLY <1>2, <1>3, <2>5, <2>7, SMTT(30)
  <2>9. /\ \A y \in DOMAIN groups : gs[y].source = groups[y].source /\ gs[y].shipped = groups[y].shipped
        /\ \A y \in DOMAIN groups : gs[y].reason = "awaiting_stock" => groups[y].reason = "awaiting_stock"
    BY <1>1, <2>2, <2>4 DEF KeepsBut
  <2>10. Tracked(gs, parcels)
    BY <1>2, <1>4, <2>4, <2>9, TrackedChange
  <2>11. ~ AwaitingStock(gs[g])
    BY <2>2, <2>4 DEF AwaitingStock
  <2> QED BY <1>1, <1>6, <2>4, <2>8, <2>10, <2>11
<1>7. CASE Reportable /\ AwaitingStock(held) /\ n < rem
  <2>1. PICK q, a, c, f : q = held.quantity /\ a = held.shipped /\ c = held.cancelled /\ f = held.found
    OBVIOUS
  <2>2. held \in GroupRecords /\ q \in Nat /\ a \in Nat /\ c \in Nat /\ f \in Nat /\ f <= c
    BY <1>2, <2>1 DEF Sound, GroupRecords
  <2>3. rem = q - a - c /\ RealOf(held) = q - f
    BY <1>1, <2>1 DEF RemainingOf, RealOf
  <2>4. PICK m : m = q - n
    OBVIOUS
  <2>5. m \in Nat
    BY <1>7, <2>2, <2>3, <2>4
  <2>6. PICK k : k = [held EXCEPT !.quantity = m]
    OBVIOUS
  <2>7. /\ k \in GroupRecords /\ k.quantity = m /\ k.shipped = held.shipped /\ k.cancelled = held.cancelled
        /\ k.found = held.found /\ k.source = held.source /\ k.reason = held.reason
    BY ONLY <2>2, <2>5, <2>6 DEF GroupRecords
  <2>8. RemainingOf(k) = rem - n /\ RealOf(k) = RealOf(held) - n
    <3>1. RemainingOf(k) = m - a - c /\ RealOf(k) = m - f
      BY <2>1, <2>7 DEF RemainingOf, RealOf
    <3> QED BY <2>2, <2>3, <2>4, <3>1
  <2>9. held.reason = "awaiting_stock" /\ held.shipped = 0
    BY <1>2, <1>7 DEF AwaitingStock, Sound
  <2>10. Countable(k) /\ RemainingOf(k) > 0 /\ (k.reason = "awaiting_stock" => k.shipped = 0)
    BY <1>2, <1>7, <2>1, <2>2, <2>7, <2>8, <2>9 DEF Countable
  <2>11. PICK h : h = Held(k)
    OBVIOUS
  <2>12. /\ Sound(h) /\ RemainingOf(h) = RemainingOf(k) /\ RealOf(h) = RealOf(k)
         /\ WaitingOf(h) = (IF k.reason = "awaiting_stock" THEN RemainingOf(k) ELSE 0)
         /\ h.shipped = k.shipped /\ h.source = k.source /\ h.reason = k.reason
    BY ONLY <2>10, <2>11, HeldIs
  <2>13. PICK hs : hs = Put(groups, g, h)
    OBVIOUS
  <2>14. /\ hs \in Groups /\ DOMAIN hs = DOMAIN groups /\ hs[g] = h /\ KeepsBut(groups, hs, g)
         /\ Remaining(hs) - RemainingOf(h) = Remaining(groups) - RemainingOf(groups[g])
         /\ Waiting(hs) - WaitingOf(h) = Waiting(groups) - WaitingOf(groups[g])
         /\ Shipped(hs) - h.shipped = Shipped(groups) - groups[g].shipped
         /\ Real(hs) - RealOf(h) = Real(groups) - RealOf(groups[g])
    BY ONLY <1>2, <2>12, <2>13, g \in DOMAIN groups, GroupsChange
  <2>15. Remaining(hs) \in Nat /\ Waiting(hs) \in Nat /\ Shipped(hs) \in Nat /\ Real(hs) \in Nat
    BY <2>14, TotalsType
  <2>16. PICK r : r = RealOf(held)
    OBVIOUS
  <2>17. /\ Remaining(hs) - (rem - n) = Remaining(groups) - rem /\ Waiting(hs) - (rem - n) = Waiting(groups) - rem
         /\ Shipped(hs) - a = Shipped(groups) - a /\ Real(hs) - (r - n) = Real(groups) - r /\ r \in Nat
    BY <1>1, <1>3, <1>7, <2>1, <2>7, <2>8, <2>9, <2>12, <2>14, <2>16 DEF WaitingOf
  <2>18. /\ Remaining(hs) = Remaining(groups) - n /\ Waiting(hs) = Waiting(groups) - n
         /\ Shipped(hs) = Shipped(groups) /\ Real(hs) = Real(groups) - n
    <3>1. rem \in Nat /\ a \in Nat /\ n \in Nat
      BY <1>2, <2>2
    <3> QED BY ONLY <1>3, <2>15, <2>17, <3>1
  <2>19. /\ \A y \in DOMAIN groups : hs[y].source = groups[y].source /\ hs[y].shipped = groups[y].shipped
         /\ \A y \in DOMAIN groups : hs[y].reason = "awaiting_stock" => groups[y].reason = "awaiting_stock"
    BY <1>1, <2>7, <2>12, <2>14 DEF KeepsBut
  <2>20. Tracked(hs, parcels)
    BY <1>2, <1>4, <2>14, <2>19, TrackedChange
  <2>21. PICK why, source : why = "none" /\ source = held.source
    OBVIOUS
  <2>22. why \in Why /\ source \in Nat /\ source <= Len(parcels)
    BY <1>2, <2>21 DEF Why
  <2>23. PICK new : new = Group(n, why, source)
    OBVIOUS
  <2>24. gs = Grown(hs, new)
    <3>1. ~ (~ Reportable \/ ~ AwaitingStock(held) \/ n > rem) /\ n # rem
      BY <1>2, <1>7
    <3>2. gs = Append([groups EXCEPT ![g] = Reduced(@, n)], Group(n, "none", held.source))
      BY <1>1, <3>1 DEF Splits
    <3>3. h = Reduced(groups[g], n)
      BY ONLY <1>1, <2>1, <2>4, <2>6, <2>11 DEF Reduced
    <3>4. hs = [groups EXCEPT ![g] = Reduced(@, n)]
      BY <2>13, <3>3 DEF Put
    <3> QED BY <2>21, <2>23, <3>2, <3>4 DEF Grown
  <2>25. hs \in Groups /\ parcels \in Parcels
    BY <1>2, <2>14
  <2>26. Extends(hs, gs, parcels, new, n, why)
    BY ONLY <2>20, <2>22, <2>23, <2>24, <2>25, n \in Nat, n > 0, GroupMore
  <2>27. /\ gs \in Groups /\ Tracked(gs, parcels) /\ DOMAIN groups \subseteq DOMAIN gs
         /\ Remaining(gs) = Remaining(hs) + n
         /\ Waiting(gs) = Waiting(hs) + (IF why = "awaiting_stock" THEN n ELSE 0)
         /\ Shipped(gs) = Shipped(hs) /\ Real(gs) = Real(hs) + n
    BY <2>14, <2>26 DEF Extends
  <2>28. Waiting(gs) = Waiting(hs)
    BY <2>15, <2>21, <2>27
  <2>29. /\ Remaining(gs) = Remaining(groups) /\ Shipped(gs) = Shipped(groups) /\ Real(gs) = Real(groups)
         /\ Waiting(gs) = Waiting(groups) - n
    BY ONLY <1>3, <2>18, <2>27, <2>28, n \in Nat
  <2>30. ~ (n = rem)
    BY <1>2, <1>7
  <2> QED BY <1>1, <2>27, <2>29, <2>30
<1> QED BY <1>2, <1>5, <1>6, <1>7

LEMMA SplitShape ==
    ASSUME Counts, SplitForAllocation
    PROVE  \E todo \in relay.todo : \E n \in Nat :
              /\ n > 0 /\ n = (IF todo[2] <= relay.left THEN todo[2] ELSE relay.left)
              /\ todo[1] \in DOMAIN groups /\ todo[2] \in Nat /\ relay.left \in Int
              /\ groups' = Splits(todo[1], n) /\ Len(groups') <= MaxGroups
              /\ relay' = [relay EXCEPT !.left = @ - n, !.todo = @ \ {todo}]
<1>1. relay \in Handling /\ \A todo \in relay.todo : todo[1] \in DOMAIN groups
  BY DEF Counts
<1>2. PICK todo \in relay.todo :
         /\ Len(Splits(todo[1], Min({todo[2], relay.left}))) <= MaxGroups
         /\ groups' = Splits(todo[1], Min({todo[2], relay.left}))
         /\ relay' = [relay EXCEPT !.left = @ - Min({todo[2], relay.left}), !.todo = @ \ {todo}]
  BY DEF SplitForAllocation
<1>3. relay.left > 0 /\ relay.left \in Int /\ relay.todo \subseteq Nat \X (Nat \ {0})
  BY <1>1 DEF SplitForAllocation, Handling
<1>4. todo[2] \in Nat /\ todo[2] > 0
  BY <1>3
<1>5. PICK n : n = Min({todo[2], relay.left})
  OBVIOUS
<1>6. n = (IF todo[2] <= relay.left THEN todo[2] ELSE relay.left)
  <2>1. PICK a, b : a = todo[2] /\ b = relay.left
    OBVIOUS
  <2>2. a \in Int /\ b \in Int
    BY <1>3, <1>4, <2>1
  <2>3. Min({a, b}) = IF a <= b THEN a ELSE b
    BY ONLY <2>2, MinOfTwo
  <2> QED BY <1>5, <2>1, <2>3
<1>7. n \in Nat /\ n > 0
  BY <1>3, <1>4, <1>6
<1> QED BY <1>1, <1>2, <1>3, <1>4, <1>5, <1>6, <1>7

LEMMA SplitCounts == ASSUME Counts, SplitForAllocation PROVE Counts'
<1>1. PICK todo \in relay.todo : \E n \in Nat :
              /\ n > 0 /\ todo[1] \in DOMAIN groups /\ relay.left \in Int
              /\ groups' = Splits(todo[1], n)
              /\ relay' = [relay EXCEPT !.left = @ - n, !.todo = @ \ {todo}]
  BY SplitShape
<1>2. PICK n \in Nat :
              /\ n > 0 /\ todo[1] \in DOMAIN groups /\ relay.left \in Int
              /\ groups' = Splits(todo[1], n)
              /\ relay' = [relay EXCEPT !.left = @ - n, !.todo = @ \ {todo}]
  BY <1>1
<1>3. /\ groups' \in Groups /\ Tracked(groups', parcels) /\ DOMAIN groups \subseteq DOMAIN groups'
      /\ Shipped(groups') = Shipped(groups) /\ Real(groups') = Real(groups)
  BY <1>2, SplitsIs
<1>4. relay' \in Handling /\ relay'.todo \subseteq relay.todo
  <2>1. relay \in Handling
    BY DEF Counts
  <2>2. PICK m, t : m = relay.left - n /\ t = relay.todo \ {todo}
    OBVIOUS
  <2>3. m \in Int /\ t \subseteq relay.todo /\ relay' = [relay EXCEPT !.left = m, !.todo = t]
    BY <1>2, <2>2
  <2> QED BY ONLY <2>1, <2>3 DEF Handling
<1>5. UNCHANGED <<order, parcels, returns, asked>> /\ order \in Orders /\ parcels \in Parcels
  BY DEF SplitForAllocation, Counts
<1>6. Real(groups') = Ordered
  BY <1>2, <1>3 DEF Counts
<1> QED BY <1>3, <1>4, <1>5, <1>6, CountsByGroups

-----------------------------------------------------------------------------
(* Many fulfilment orders change at once. *)

LEMMA EntriesMade ==
    ASSUME NEW gs \in Groups, NEW hs, DOMAIN hs = DOMAIN gs, hs = [g \in DOMAIN hs |-> hs[g]],
           \A g \in DOMAIN gs : Sound(hs[g])
    PROVE  hs \in Groups /\ Len(hs) = Len(gs)
<1>1. DOMAIN gs = 1 .. Len(gs) /\ Len(gs) \in Nat
  BY Listed DEF Groups
<1>2. hs \in [1 .. Len(gs) -> GroupRecords]
  BY <1>1 DEF Sound
<1>3. hs \in Seq(GroupRecords) /\ Len(hs) = Len(gs)
  BY ONLY <1>1, <1>2
<1> QED BY <1>3 DEF Groups

(* What is still to be sent of an order is closed in every fulfilment order of it. *)
LEMMA CancelAllShape ==
    ASSUME Counts, CancelAllForOrder
    PROVE  /\ groups' \in Groups /\ DOMAIN groups' = DOMAIN groups /\ Len(groups') = Len(groups)
           /\ Tracked(groups', parcels) /\ Remaining(groups') = 0
           /\ Shipped(groups') = Shipped(groups) /\ Real(groups') = Real(groups)
<1>1. groups \in Groups /\ Tracked(groups, parcels)
  BY DEF Counts
<1>2. groups' = [g \in DOMAIN groups |->
                     IF groups[g].status \in {"closed", "cancelled"} THEN groups[g]
                     ELSE WithRemainderCancelled(groups[g])]
  BY DEF CancelAllForOrder
<1>3. ASSUME NEW g \in DOMAIN groups
      PROVE  /\ Sound(groups'[g]) /\ RemainingOf(groups'[g]) = 0 /\ groups'[g].shipped = groups[g].shipped
             /\ RealOf(groups'[g]) = RealOf(groups[g]) /\ groups'[g].source = groups[g].source
             /\ groups'[g].reason = "awaiting_stock" => groups[g].reason = "awaiting_stock"
  <2>1. Sound(groups[g])
    BY <1>1 DEF Groups
  <2>2. CASE groups[g].status \in {"closed", "cancelled"}
    <3>1. groups'[g] = groups[g]
      BY <1>2, <2>2
    <3>2. PICK held : held = (groups[g].status = "on_hold")
      OBVIOUS
    <3>3. /\ groups[g] \in GroupRecords /\ RemainingOf(groups[g]) >= 0 /\ held \in BOOLEAN
          /\ groups[g].status = StatusOfLines(groups[g], held)
      BY <2>1, <3>2 DEF Sound
    <3>4. StatusOfLines(groups[g], held) \in {"closed", "cancelled"} <=> RemainingOf(groups[g]) = 0
      BY ONLY <3>3, StatusGiven
    <3> QED BY <2>1, <2>2, <3>1, <3>3, <3>4
  <2>3. CASE groups[g].status \notin {"closed", "cancelled"}
    <3>1. groups'[g] = WithRemainderCancelled(groups[g])
      BY <1>2, <2>3
    <3>2. PICK h : h = WithRemainderCancelled(groups[g])
      OBVIOUS
    <3>3. /\ Sound(h) /\ RemainingOf(h) = 0 /\ h.shipped = groups[g].shipped
          /\ RealOf(h) = RealOf(groups[g]) /\ h.source = groups[g].source /\ h.reason = "none"
      BY ONLY <2>1, <3>2, WithRemainderCancelledIs
    <3> QED BY <3>1, <3>2, <3>3
  <2> QED BY <2>2, <2>3
<1>4. DOMAIN groups' = DOMAIN groups /\ groups' = [g \in DOMAIN groups' |-> groups'[g]]
  BY <1>2
<1>5. groups' \in Groups /\ Len(groups') = Len(groups)
  BY <1>1, <1>3, <1>4, EntriesMade
<1>6. Gone(groups') = Gone(groups) /\ Own(groups') = Own(groups)
  BY <1>3, <1>4 DEF Gone, Own
<1>7. Sum(Left(groups')) = 0
  <2>1. \A g \in DOMAIN groups' : Left(groups')[g] = 0
    BY <1>3, <1>4 DEF Left
  <2> QED BY <1>5, <2>1, AmountTables, SumZero
<1>8. Tracked(groups', parcels)
  <2>1. \A g \in DOMAIN groups : OnItsWay(parcels, g) <= groups'[g].shipped
    BY <1>1, <1>3 DEF Tracked, Covering
  <2> QED BY <1>1, <1>3, <1>4, <1>5, <2>1, TrackedChange
<1> QED BY <1>4, <1>5, <1>6, <1>7, <1>8, TotalsAre

LEMMA CancelAllCounts == ASSUME Counts, CancelAllForOrder PROVE Counts'
<1>1. /\ groups' \in Groups /\ DOMAIN groups' = DOMAIN groups /\ Tracked(groups', parcels)
      /\ Shipped(groups') = Shipped(groups) /\ Real(groups') = Real(groups)
  BY CancelAllShape
<1>2. UNCHANGED <<order, parcels, returns, relay, asked>>
  BY DEF CancelAllForOrder, reads
<1>3. groups' # <<>> => Real(groups') = Ordered
  <2>1. groups' # <<>> => groups # <<>>
    BY <1>1 DEF Groups
  <2> QED BY <1>1, <2>1 DEF Counts
<1> QED BY <1>1, <1>2, <1>3, CountsByGroups DEF Counts

-----------------------------------------------------------------------------
(* The acts that leave the fulfilment orders and the parcels alone. *)

LEMMA QuietCounts ==
    ASSUME Counts, UNCHANGED <<groups, parcels, returns>>, order' \in Orders, asked' \in 0 .. Ordered,
           relay' \in Handling, \A todo \in relay'.todo : todo[1] \in DOMAIN groups
    PROVE  Counts'
BY DEF Counts

LEMMA PlainCounts ==
    ASSUME Counts, relay'.left \in Int,
           Allocate \/ EnsureRead \/ Process \/ HandleAllocated \/ EndAllocated \/ CancelOrder
    PROVE  Counts'
<1>1. order \in Orders /\ relay \in Handling /\ asked \in 0 .. Ordered /\ groups \in Groups
      /\ \A todo \in relay.todo : todo[1] \in DOMAIN groups
  BY DEF Counts
<1>2. CASE Allocate \/ EnsureRead
  <2>1. UNCHANGED <<order, groups, parcels, returns, relay, asked>>
    BY <1>2 DEF Allocate, EnsureRead, reads
  <2> QED BY <1>1, <2>1, QuietCounts
<1>3. CASE Process \/ CancelOrder
  <2>1. UNCHANGED <<groups, parcels, returns, relay, asked>> /\ order' \in Orders
    BY <1>1, <1>3 DEF Process, CancelOrder, reads, Orders
  <2> QED BY <1>1, <2>1, QuietCounts
<1>4. CASE EndAllocated
  <2>1. UNCHANGED <<order, groups, parcels, returns, asked>> /\ relay' = [busy |-> FALSE, left |-> 0, todo |-> {}]
    BY <1>4 DEF EndAllocated
  <2>2. relay' \in Handling /\ relay'.todo = {}
    BY <2>1 DEF Handling
  <2> QED BY <1>1, <2>1, <2>2, QuietCounts
<1>5. CASE HandleAllocated
  <2>1. PICK left, todo : /\ left = ToRelease(events[1].waiting)
                          /\ todo = {<<g, RemainingOf(groups[g])>> : g \in {h \in DOMAIN groups : AwaitingStock(groups[h])}}
    OBVIOUS
  <2>2. /\ UNCHANGED <<order, groups, parcels, returns, asked>>
        /\ relay' = [busy |-> TRUE, left |-> left, todo |-> todo]
    BY <1>5, <2>1 DEF HandleAllocated
  <2>3. ASSUME NEW g \in DOMAIN groups, AwaitingStock(groups[g])
        PROVE  g \in Nat /\ RemainingOf(groups[g]) \in Nat \ {0}
    <3>1. Sound(groups[g])
      BY <1>1 DEF Groups
    <3>2. PICK held : held = (groups[g].status = "on_hold")
      OBVIOUS
    <3>3. /\ groups[g] \in GroupRecords /\ RemainingOf(groups[g]) >= 0 /\ held \in BOOLEAN
          /\ StatusOfLines(groups[g], held) = "on_hold"
      BY <2>3, <3>1, <3>2 DEF Sound, AwaitingStock
    <3>4. StatusOfLines(groups[g], held) = "on_hold" <=> held /\ RemainingOf(groups[g]) > 0
      BY ONLY <3>3, StatusGiven
    <3>5. g \in Nat
      BY <1>1, Listed DEF Groups
    <3>6. RemainingOf(groups[g]) \in Nat
      BY <3>1, AmountsOf
    <3> QED BY <3>3, <3>4, <3>5, <3>6
  <2>4. todo \subseteq Nat \X (Nat \ {0}) /\ \A t \in todo : t[1] \in DOMAIN groups
    BY <2>1, <2>3
  <2>5. left \in Int
    BY <2>2
  <2>6. relay' \in Handling /\ relay'.todo = todo
    BY <2>2, <2>4, <2>5 DEF Handling
  <2> QED BY <1>1, <2>2, <2>4, <2>6, QuietCounts
<1> QED BY <1>2, <1>3, <1>4, <1>5

-----------------------------------------------------------------------------
(* Returns. *)

LEMMA ReturnCounts ==
    ASSUME Counts, NEW r \in DOMAIN returns, NEW e \in ReturnRecords,
           e.status \in {"requested", "approved"} => e.remedy = "none", returns' = Put(returns, r, e),
           ReplacedOf(e) = ReplacedOf(returns[r]), ReturnedOf(e) <= ReturnedOf(returns[r]),
           UNCHANGED <<order, groups, parcels, reads>>
    PROVE  Counts'
<1>1. returns \in Returns
  BY DEF Counts
<1>2. PICK ts : ts = returns'
  OBVIOUS
<1>3. /\ ts \in Returns
      /\ ReplacedIn(ts) - ReplacedOf(e) = ReplacedIn(returns) - ReplacedOf(returns[r])
      /\ ReturnedIn(ts) - ReturnedOf(e) = ReturnedIn(returns) - ReturnedOf(returns[r])
  BY <1>1, <1>2, ReturnsChange
<1>4. /\ ReplacedIn(ts) \in Nat /\ ReturnedIn(ts) \in Nat /\ ReplacedIn(returns) \in Nat /\ ReturnedIn(returns) \in Nat
  BY <1>1, <1>3, ReturnTotalsType
<1>5. /\ ReplacedOf(e) \in Nat /\ ReturnedOf(e) \in Nat /\ ReturnedOf(returns[r]) \in Nat
  <2>1. returns[r] \in ReturnRecords
    BY <1>1 DEF Returns
  <2>2. returns[r].quantity \in Nat /\ e.quantity \in Nat
    BY <2>1 DEF ReturnRecords
  <2> QED BY <2>2 DEF ReplacedOf, ReturnedOf
<1>6. ReplacedIn(ts) = ReplacedIn(returns)
  BY <1>3, <1>4, <1>5
<1>7. ReturnedIn(ts) <= ReturnedIn(returns)
  BY <1>3, <1>4, <1>5
<1>8. ReturnedIn(ts) <= Ordered
  <2>1. ReturnedIn(returns) <= Ordered /\ Ordered \in Nat
    BY FulfilmentAssumption DEF Counts
  <2> QED BY <1>4, <1>7, <2>1
<1> QED BY <1>2, <1>3, <1>6, <1>8 DEF Counts, reads

(* The moves of a return that leave its remedy alone. *)
Follows(from, to) ==
    \/ from = "requested" /\ to \in {"approved", "declined"}
    \/ from = "approved" /\ to = "canceled"
    \/ from = "received" /\ to = "closed"

LEMMA ReturnActCounts ==
    ASSUME Counts, NEW r \in DOMAIN returns,
           Decide(r) \/ CancelReturn(r) \/ ReceiveReturn(r) \/ CloseReturn(r)
    PROVE  Counts'
<1>1. PICK old : old = returns[r]
  OBVIOUS
<1>2. old \in ReturnRecords /\ (old.status \in {"requested", "approved"} => old.remedy = "none")
  BY <1>1 DEF Counts, Returns
<1>3. returns \in Returns
  BY DEF Counts
<1>4. CASE Decide(r) \/ CancelReturn(r) \/ CloseReturn(r)
  <2>0. \E to : /\ Follows(old.status, to) /\ returns' = [returns EXCEPT ![r].status = to]
                /\ UNCHANGED <<order, groups, parcels, reads>>
    <3>1. CASE Decide(r)
      <4>1. PICK to \in {"approved", "declined"} : ClaimStatus(r, "requested", to)
        BY <3>1 DEF Decide
      <4> QED BY <1>1, <4>1 DEF ClaimStatus, Follows
    <3>2. CASE CancelReturn(r)
      BY <1>1, <3>2 DEF CancelReturn, ClaimStatus, Follows
    <3>3. CASE CloseReturn(r)
      BY <1>1, <3>3 DEF CloseReturn, ClaimStatus, Follows
    <3> QED BY <1>4, <3>1, <3>2, <3>3
  <2>1. PICK to : /\ Follows(old.status, to) /\ returns' = [returns EXCEPT ![r].status = to]
                  /\ UNCHANGED <<order, groups, parcels, reads>>
    BY <2>0
  <2>2. PICK e : e = [old EXCEPT !.status = to]
    OBVIOUS
  <2>3. e \in ReturnRecords /\ e.status = to /\ e.remedy = old.remedy /\ e.quantity = old.quantity
    BY <1>2, <2>1, <2>2 DEF ReturnRecords, Follows
  <2>4. returns' = Put(returns, r, e)
    BY <1>1, <1>3, <2>1, <2>2 DEF Put, Returns
  <2>5. ReplacedOf(e) = ReplacedOf(old)
    BY <2>3 DEF ReplacedOf
  <2>6. HoldsReturnedGoods(e) => HoldsReturnedGoods(old)
    BY <2>1, <2>3 DEF HoldsReturnedGoods, Follows
  <2>7. ReturnedOf(e) <= ReturnedOf(old)
    <3>1. old.quantity \in Nat
      BY <1>2 DEF ReturnRecords
    <3> QED BY <2>3, <2>6, <3>1 DEF ReturnedOf
  <2>8. e.status \in {"requested", "approved"} => e.remedy = "none"
    BY <1>2, <2>1, <2>3 DEF Follows
  <2> QED BY <1>1, <2>1, <2>3, <2>4, <2>5, <2>7, <2>8, ReturnCounts
<1>5. CASE ReceiveReturn(r)
  <2>1. PICK remedy \in {"refund", "repair"} :
           /\ old.status = "approved"
           /\ returns' = [returns EXCEPT ![r].status = "received", ![r].remedy = remedy]
           /\ UNCHANGED <<order, groups, parcels, reads>>
    BY <1>1, <1>5 DEF ReceiveReturn, Received
  <2>2. PICK e : e = [old EXCEPT !.status = "received", !.remedy = remedy]
    OBVIOUS
  <2>3. e \in ReturnRecords /\ e.status = "received" /\ e.remedy = remedy /\ e.quantity = old.quantity
    BY <1>2, <2>1, <2>2 DEF ReturnRecords
  <2>4. returns' = Put(returns, r, e)
    BY <1>1, <1>3, <2>1, <2>2 DEF Put, Returns
  <2>5. ReplacedOf(e) = ReplacedOf(old)
    BY <1>2, <2>1, <2>3 DEF ReplacedOf
  <2>6. HoldsReturnedGoods(old)
    BY <1>2, <2>1 DEF HoldsReturnedGoods
  <2>7. ReturnedOf(e) <= ReturnedOf(old)
    <3>1. old.quantity \in Nat
      BY <1>2 DEF ReturnRecords
    <3> QED BY <2>3, <2>6, <3>1 DEF ReturnedOf
  <2> QED BY <1>1, <2>1, <2>3, <2>4, <2>5, <2>7, ReturnCounts
<1> QED BY <1>4, <1>5

LEMMA ReadShippedCounts == ASSUME Counts, ReadShipped PROVE Counts'
<1>1. groups \in Groups /\ Ordered \in Nat /\ (groups # <<>> => Real(groups) = Ordered)
  BY FulfilmentAssumption DEF Counts
<1>2. groups = <<>> => Shipped(groups) = 0
  BY NoGroups
<1>3. /\ Remaining(groups) \in Nat /\ Shipped(groups) \in Nat
      /\ Remaining(groups) + Shipped(groups) <= Real(groups) /\ Real(groups) \in Nat
  BY <1>1, TotalsType
<1>4. Shipped(groups) \in 0 .. Ordered
  BY <1>1, <1>2, <1>3
<1> QED BY <1>4 DEF Counts, ReadShipped

LEMMA OpenReturnCounts == ASSUME Counts, OpenReturn PROVE Counts'
<1>1. returns \in Returns /\ asked \in 0 .. Ordered /\ Ordered \in Nat /\ ReturnedIn(returns) \in Nat
  BY FulfilmentAssumption, ReturnTotalsType DEF Counts
<1>2. AlreadyReturned = ReturnedIn(returns)
  BY DEF AlreadyReturned, ReturnedIn
<1>3. UNCHANGED <<order, groups, parcels, relay>> /\ asked' = 0
  BY DEF OpenReturn
<1>4. CASE returns' = returns
  BY <1>1, <1>3, <1>4, QuietCounts DEF Counts
<1>5. CASE returns' # returns
  <2>1. PICK n \in 1 .. asked - ReturnedIn(returns), status \in {"requested", "approved"} :
           returns' = Append(returns, [quantity |-> n, status |-> status, remedy |-> "none"])
    BY <1>2, <1>5 DEF OpenReturn
  <2>2. PICK e : e = [quantity |-> n, status |-> status, remedy |-> "none"]
    OBVIOUS
  <2>3. n \in Nat /\ n # 0 /\ n + ReturnedIn(returns) <= Ordered
    BY <1>1, <2>1
  <2>4. e \in ReturnRecords /\ e.remedy = "none" /\ e.quantity = n
    BY <2>2, <2>3 DEF ReturnRecords
  <2>5. ReplacedOf(e) = 0 /\ ReturnedOf(e) <= n
    BY <2>3, <2>4 DEF ReplacedOf, ReturnedOf
  <2>6. PICK ts : ts = returns' /\ ts = Grown(returns, e)
    BY <2>1, <2>2 DEF Grown
  <2>7. /\ ts \in Returns
        /\ ReplacedIn(ts) = ReplacedIn(returns) + ReplacedOf(e)
        /\ ReturnedIn(ts) = ReturnedIn(returns) + ReturnedOf(e)
    BY <1>1, <2>4, <2>6, ReturnAdded
  <2>8. ReturnedIn(ts) <= Ordered /\ ReplacedIn(ts) = ReplacedIn(returns)
    <3>1. ReturnedIn(ts) \in Nat /\ ReplacedIn(returns) \in Nat /\ ReturnedOf(e) \in Nat
      BY <1>1, <2>3, <2>4, <2>7, ReturnTotalsType DEF ReturnedOf
    <3> QED BY <1>1, <2>3, <2>5, <2>7, <3>1
  <2> QED BY <1>1, <1>3, <2>6, <2>7, <2>8 DEF Counts
<1> QED BY <1>4, <1>5

-----------------------------------------------------------------------------
(* A parcel arrives; one that was lost turned up, and what was to be sent    *)
(* again for it is not.                                                      *)

Due(p) == [g \in DOMAIN groups |-> IF groups[g].source = p THEN groups[g].quantity ELSE 0]
DueOwed(p) == [g \in DOMAIN groups |-> IF groups[g].source = p THEN WaitingOf(groups[g]) ELSE 0]

LEMMA DueType ==
    ASSUME Counts, NEW p
    PROVE  /\ IsFiniteSet(DOMAIN groups) /\ groups \in Groups
           /\ Due(p) \in [DOMAIN groups -> Nat] /\ DueOwed(p) \in [DOMAIN groups -> Nat]
           /\ OwedFor(p) = Sum(Due(p)) /\ OwnOwed(p) = Sum(DueOwed(p))
           /\ OwedFor(p) \in Nat /\ OwnOwed(p) \in Nat
<1>1. groups \in Groups /\ IsFiniteSet(DOMAIN groups)
  BY AmountTables DEF Counts
<1>2. \A g \in DOMAIN groups : groups[g].quantity \in Nat /\ WaitingOf(groups[g]) \in Nat
  <2>1. \A g \in DOMAIN groups : Sound(groups[g])
    BY <1>1 DEF Groups
  <2>2. \A g \in DOMAIN groups : WaitingOf(groups[g]) \in Nat
    BY <2>1, AmountsOf
  <2> QED BY <2>1, <2>2 DEF Sound, GroupRecords
<1>3. Due(p) \in [DOMAIN groups -> Nat] /\ DueOwed(p) \in [DOMAIN groups -> Nat]
  BY <1>2 DEF Due, DueOwed
<1>4. OwedFor(p) = Sum(Due(p)) /\ OwnOwed(p) = Sum(DueOwed(p))
  BY DEF OwedFor, OwnOwed, Units, Due, DueOwed
<1>5. Sum(Due(p)) \in Nat /\ Sum(DueOwed(p)) \in Nat
  BY <1>1, <1>3, SumType
<1> QED BY <1>1, <1>3, <1>4, <1>5

(* A fulfilment order made for a parcel that can be restored has sent and closed nothing. *)
LEMMA StillDue ==
    ASSUME Counts, NEW p, Restorable(p), NEW g \in DOMAIN groups, groups[g].source = p
    PROVE  /\ Sound(groups[g]) /\ RemainingOf(groups[g]) = groups[g].quantity
           /\ RealOf(groups[g]) = groups[g].quantity /\ groups[g].quantity \in Nat
<1>1. Sound(groups[g])
  BY GroupFacts
<1>2. RemainingOf(groups[g]) = groups[g].quantity
  BY DEF Restorable, Linked
<1>3. PICK q, a, c, f : q = groups[g].quantity /\ a = groups[g].shipped /\ c = groups[g].cancelled /\ f = groups[g].found
  OBVIOUS
<1>4. q \in Nat /\ a \in Nat /\ c \in Nat /\ f \in Nat /\ f <= c
  BY <1>1, <1>3 DEF Sound, GroupRecords
<1>5. q - a - c = q /\ RealOf(groups[g]) = q - f
  BY <1>2, <1>3 DEF RemainingOf, RealOf
<1>6. f = 0
  BY <1>4, <1>5
<1>7. RealOf(groups[g]) = q
  BY <1>4, <1>5, <1>6
<1> QED BY <1>1, <1>2, <1>3, <1>4, <1>7

(* Besides those made for the parcel, what waits goes on waiting for as much. *)
WaitsUnlessDue(gs, hs, p) ==
    \A y \in DOMAIN gs : IF gs[y].source = p THEN ~ AwaitingStock(hs[y])
                         ELSE AwaitingStock(hs[y]) \/ AwaitingStock(gs[y]) => hs[y] = gs[y]
LEMMA RestoredIs ==
    ASSUME Counts, NEW p \in DOMAIN parcels, Restorable(p), NEW hs, hs = Restored(p)
    PROVE  /\ hs \in Groups /\ DOMAIN hs = DOMAIN groups /\ Len(hs) = Len(groups) /\ Tracked(hs, parcels)
           /\ Remaining(hs) = Remaining(groups) - parcels[p].quantity
           /\ Waiting(hs) = Waiting(groups) - OwnOwed(p)
           /\ Shipped(hs) = Shipped(groups) + parcels[p].quantity /\ Real(hs) = Real(groups)
           /\ WaitsUnlessDue(groups, hs, p)
<1>1. PICK x, q, t, w : /\ x = parcels[p].group /\ q = parcels[p].quantity
                        /\ t = OwedFor(p) /\ w = OwnOwed(p)
  OBVIOUS
<1>2. groups \in Groups /\ parcels \in Parcels /\ Tracked(groups, parcels)
  BY DEF Counts
<1>3. /\ x \in DOMAIN groups /\ q \in Nat /\ groups[x].reason # "awaiting_stock" /\ groups[x].source # p
  <2>1. parcels[p] \in ParcelRecords
    BY <1>2 DEF Parcels
  <2>2. p \in Nat
    BY <1>2, Listed DEF Parcels
  <2>3. /\ x \in DOMAIN groups /\ groups[x].reason # "awaiting_stock" /\ groups[x].source < p
    BY <1>1, <1>2 DEF Tracked, Linking
  <2>4. groups[x].source \in Nat
    BY <2>3, GroupFacts
  <2> QED BY <1>1, <2>1, <2>2, <2>3, <2>4 DEF ParcelRecords
<1>4. t \in Nat /\ w \in Nat /\ t = Sum(Due(p)) /\ w = Sum(DueOwed(p))
  BY <1>1, DueType
<1>5. t <= q /\ q - t <= RemainingOf(groups[x]) /\ Sound(groups[x]) /\ RemainingOf(groups[x]) \in Nat
  <2>1. Sound(groups[x]) /\ RemainingOf(groups[x]) \in Nat
    BY <1>3, GroupFacts
  <2> QED BY <1>1, <1>3, <1>4, <2>1 DEF Restorable
<1>6. PICK h : h = WithRestoration(groups[x], q, t)
  OBVIOUS
<1>7. /\ Sound(h) /\ RemainingOf(h) = RemainingOf(groups[x]) - q + t /\ h.shipped = groups[x].shipped + q
      /\ RealOf(h) = RealOf(groups[x]) + t /\ WaitingOf(h) = 0 /\ h.source = groups[x].source
      /\ h.reason = groups[x].reason
  <2>1. PICK g : g = groups[x]
    OBVIOUS
  <2>2. Sound(g) /\ g.reason # "awaiting_stock" /\ q - t <= RemainingOf(g) /\ h = WithRestoration(g, q, t)
    BY <1>3, <1>5, <1>6, <2>1
  <2>3. Regains(g, q, t, h)
    BY ONLY <1>3, <1>4, <1>5, <2>2, WithRestorationIs
  <2> QED BY <2>1, <2>3 DEF Regains
<1>8. PICK ks : ks = Put(groups, x, h)
  OBVIOUS
<1>9. /\ ks \in Groups /\ DOMAIN ks = DOMAIN groups /\ Len(ks) = Len(groups) /\ ks[x] = h /\ KeepsBut(groups, ks, x)
      /\ Remaining(ks) - RemainingOf(h) = Remaining(groups) - RemainingOf(groups[x])
      /\ Waiting(ks) - WaitingOf(h) = Waiting(groups) - WaitingOf(groups[x])
      /\ Shipped(ks) - h.shipped = Shipped(groups) - groups[x].shipped
      /\ Real(ks) - RealOf(h) = Real(groups) - RealOf(groups[x])
  BY ONLY <1>2, <1>3, <1>7, <1>8, GroupsChange
<1>10. /\ Remaining(ks) = Remaining(groups) - q + t /\ Waiting(ks) = Waiting(groups)
       /\ Shipped(ks) = Shipped(groups) + q /\ Real(ks) = Real(groups) + t
  <2>1. /\ Remaining(ks) \in Nat /\ Waiting(ks) \in Nat /\ Shipped(ks) \in Nat /\ Real(ks) \in Nat
        /\ Remaining(groups) \in Nat /\ Waiting(groups) \in Nat /\ Shipped(groups) \in Nat /\ Real(groups) \in Nat
    BY <1>2, <1>9, TotalsType
  <2>2. PICK a, b, r : a = RemainingOf(groups[x]) /\ b = groups[x].shipped /\ r = RealOf(groups[x])
    OBVIOUS
  <2>3. a \in Nat /\ b \in Nat /\ r \in Nat
    BY <1>5, <2>2, AmountsOf
  <2>4. WaitingOf(groups[x]) = 0
    BY <1>3 DEF WaitingOf, AwaitingStock
  <2>5. /\ Remaining(ks) - (a - q + t) = Remaining(groups) - a /\ Waiting(ks) - 0 = Waiting(groups) - 0
        /\ Shipped(ks) - (b + q) = Shipped(groups) - b /\ Real(ks) - (r + t) = Real(groups) - r
    BY <1>7, <1>9, <2>2, <2>4
  <2>6. q \in Nat /\ t \in Nat
    BY <1>3, <1>4
  <2>7. Remaining(ks) = Remaining(groups) - q + t
    BY ONLY <2>1, <2>3, <2>5, <2>6
  <2>8. Shipped(ks) = Shipped(groups) + q
    BY ONLY <2>1, <2>3, <2>5, <2>6
  <2>9. Real(ks) = Real(groups) + t
    BY ONLY <2>1, <2>3, <2>5, <2>6
  <2>10. Waiting(ks) = Waiting(groups)
    BY ONLY <2>1, <2>5
  <2> QED BY <2>7, <2>8, <2>9, <2>10
<1>11. DOMAIN hs = DOMAIN groups /\ hs = [g \in DOMAIN hs |-> hs[g]]
  BY DEF Restored
<1>12. ASSUME NEW g \in DOMAIN groups
       PROVE  hs[g] = IF g = x THEN h ELSE IF groups[g].source = p THEN ClosedAsFound(groups[g]) ELSE groups[g]
  <2>1. hs[g] = CASE g = parcels[p].group -> WithRestoration(groups[g], parcels[p].quantity, OwedFor(p))
                  [] g \in Linked(p) -> ClosedAsFound(groups[g])
                  [] OTHER -> groups[g]
    BY DEF Restored, ClosedAsFound
  <2>2. g \in Linked(p) <=> groups[g].source = p
    BY DEF Linked
  <2>3. CASE g = x
    <3>1. ~ (groups[g].source = p)
      BY <1>3, <2>3
    <3> QED BY <1>1, <1>6, <2>1, <2>2, <2>3, <3>1
  <2>4. CASE g # x /\ groups[g].source = p
    BY <1>1, <2>1, <2>2, <2>4
  <2>5. CASE g # x /\ groups[g].source # p
    BY <1>1, <2>1, <2>2, <2>5
  <2> QED BY <2>3, <2>4, <2>5
<1>13. ASSUME NEW g \in DOMAIN groups
       PROVE  /\ Sound(hs[g]) /\ hs[g].source = groups[g].source /\ groups[g].shipped <= hs[g].shipped
              /\ hs[g].reason = "awaiting_stock" => groups[g].reason = "awaiting_stock"
              /\ RemainingOf(ks[g]) = RemainingOf(hs[g]) + Due(p)[g]
              /\ WaitingOf(ks[g]) = WaitingOf(hs[g]) + DueOwed(p)[g]
              /\ ks[g].shipped = hs[g].shipped /\ RealOf(ks[g]) = RealOf(hs[g]) + Due(p)[g]
  <2>1. Sound(groups[g]) /\ groups[g].shipped \in Nat
    BY GroupFacts
  <2>2. CASE g = x
    <3>1. hs[g] = h /\ ks[g] = h /\ Due(p)[g] = 0 /\ DueOwed(p)[g] = 0
      BY <1>3, <1>9, <1>12, <2>2 DEF Due, DueOwed
    <3>2. RemainingOf(h) \in Nat /\ RealOf(h) \in Nat
      BY <1>7, AmountsOf
    <3>3. groups[g].shipped <= h.shipped
      <4>1. PICK b : b = groups[g].shipped
        OBVIOUS
      <4>2. b \in Nat /\ h.shipped = b + q
        BY <1>7, <2>1, <2>2, <4>1
      <4> QED BY <1>3, <4>1, <4>2
    <3> QED BY <1>7, <2>2, <3>1, <3>2, <3>3
  <2>3. CASE g # x /\ groups[g].source = p
    <3>1. PICK k : k = ClosedAsFound(groups[g])
      OBVIOUS
    <3>2. /\ Sound(k) /\ RemainingOf(k) = 0 /\ k.shipped = groups[g].shipped
          /\ RealOf(k) = RealOf(groups[g]) - RemainingOf(groups[g]) /\ WaitingOf(k) = 0
          /\ k.source = groups[g].source /\ k.reason = "none"
      BY ONLY <2>1, <3>1, ClosedAsFoundIs
    <3>3. hs[g] = k /\ ks[g] = groups[g] /\ Due(p)[g] = groups[g].quantity /\ DueOwed(p)[g] = WaitingOf(groups[g])
      BY <1>9, <1>12, <2>3, <3>1 DEF Due, DueOwed, KeepsBut
    <3>4. /\ RemainingOf(groups[g]) = groups[g].quantity /\ RealOf(groups[g]) = groups[g].quantity
          /\ groups[g].quantity \in Nat
      BY <2>3, StillDue
    <3>5. WaitingOf(groups[g]) \in Nat
      BY <2>1, AmountsOf
    <3>6. RealOf(k) = 0
      BY <3>2, <3>4
    <3> QED BY <2>1, <3>2, <3>3, <3>4, <3>5, <3>6
  <2>4. CASE g # x /\ groups[g].source # p
    <3>1. hs[g] = groups[g] /\ ks[g] = groups[g] /\ Due(p)[g] = 0 /\ DueOwed(p)[g] = 0
      BY <1>9, <1>12, <2>4 DEF Due, DueOwed, KeepsBut
    <3>2. RemainingOf(groups[g]) \in Nat /\ RealOf(groups[g]) \in Nat /\ WaitingOf(groups[g]) \in Nat
      BY <2>1, AmountsOf
    <3> QED BY <2>1, <3>1, <3>2
  <2> QED BY <2>2, <2>3, <2>4
<1>14. hs \in Groups /\ Len(hs) = Len(groups)
  BY <1>2, <1>11, <1>13, EntriesMade
<1> DEFINE D == DOMAIN groups
<1>15. /\ IsFiniteSet(D)
       /\ Left(ks) \in [D -> Nat] /\ Owed(ks) \in [D -> Nat] /\ Gone(ks) \in [D -> Nat] /\ Own(ks) \in [D -> Nat]
       /\ Left(hs) \in [D -> Nat] /\ Owed(hs) \in [D -> Nat] /\ Gone(hs) \in [D -> Nat] /\ Own(hs) \in [D -> Nat]
       /\ Due(p) \in [D -> Nat] /\ DueOwed(p) \in [D -> Nat]
  BY <1>9, <1>11, <1>14, AmountTables, DueType
<1>16. \A g \in D : /\ Left(ks)[g] = Left(hs)[g] + Due(p)[g] /\ Owed(ks)[g] = Owed(hs)[g] + DueOwed(p)[g]
                    /\ Own(ks)[g] = Own(hs)[g] + Due(p)[g]
  BY <1>9, <1>11, <1>13 DEF Left, Owed, Own
<1>17. Gone(ks) = Gone(hs)
  BY <1>9, <1>11, <1>13 DEF Gone
<1> HIDE DEF D
<1>18. Sum(Left(ks)) = Sum(Left(hs)) + Sum(Due(p))
  BY ONLY <1>15, <1>16, SumAdd
<1>19. Sum(Owed(ks)) = Sum(Owed(hs)) + Sum(DueOwed(p))
  BY ONLY <1>15, <1>16, SumAdd
<1>20. Sum(Own(ks)) = Sum(Own(hs)) + Sum(Due(p))
  BY ONLY <1>15, <1>16, SumAdd
<1>21. /\ Remaining(ks) = Remaining(hs) + t /\ Waiting(ks) = Waiting(hs) + w
       /\ Shipped(ks) = Shipped(hs) /\ Real(ks) = Real(hs) + t
  BY <1>4, <1>17, <1>18, <1>19, <1>20, TotalsAre
<1>22. /\ Remaining(hs) = Remaining(groups) - q /\ Waiting(hs) = Waiting(groups) - w
       /\ Shipped(hs) = Shipped(groups) + q /\ Real(hs) = Real(groups)
  <2>1. /\ Remaining(hs) \in Nat /\ Waiting(hs) \in Nat /\ Shipped(hs) \in Nat /\ Real(hs) \in Nat
        /\ Remaining(groups) \in Nat /\ Waiting(groups) \in Nat /\ Shipped(groups) \in Nat /\ Real(groups) \in Nat
    BY <1>2, <1>14, TotalsType
  <2>2. q \in Nat /\ t \in Nat /\ w \in Nat
    BY <1>3, <1>4
  <2> QED BY ONLY <1>10, <1>21, <2>1, <2>2
<1>23. Tracked(hs, parcels)
  <2>1. ASSUME NEW g \in DOMAIN groups PROVE OnItsWay(parcels, g) <= hs[g].shipped
    <3>1. Sound(hs[g]) /\ groups[g].shipped <= hs[g].shipped
      BY <1>13
    <3>2. OnItsWay(parcels, g) <= groups[g].shipped /\ groups[g].shipped \in Nat /\ OnItsWay(parcels, g) \in Nat
      BY <1>2, GroupFacts, ParcelTotalsType
    <3>3. hs[g].shipped \in Nat
      BY <3>1, AmountsOf
    <3> QED BY <3>1, <3>2, <3>3
  <2> QED BY <1>2, <1>11, <1>13, <1>14, <2>1, TrackedChange
<1>24. WaitsUnlessDue(groups, hs, p)
  <2>1. ASSUME NEW y \in DOMAIN groups
        PROVE  IF groups[y].source = p THEN ~ AwaitingStock(hs[y])
               ELSE AwaitingStock(hs[y]) \/ AwaitingStock(groups[y]) => hs[y] = groups[y]
    <3>1. CASE y = x
      <4>1. hs[y] = h
        BY <1>12, <3>1
      <4> QED BY <1>3, <1>7, <3>1, <4>1 DEF AwaitingStock
    <3>2. CASE y # x /\ groups[y].source = p
      <4>1. PICK k : k = ClosedAsFound(groups[y])
        OBVIOUS
      <4>2. hs[y] = k /\ Sound(groups[y])
        BY <1>12, <3>2, <4>1, GroupFacts
      <4>3. k.reason = "none"
        BY ONLY <4>1, <4>2, ClosedAsFoundIs
      <4> QED BY <3>2, <4>2, <4>3 DEF AwaitingStock
    <3>3. CASE y # x /\ groups[y].source # p
      BY <1>12, <3>3
    <3> QED BY <3>1, <3>2, <3>3
  <2> QED BY <2>1 DEF WaitsUnlessDue
<1> QED BY <1>1, <1>11, <1>14, <1>22, <1>23, <1>24

LEMMA DeliverShape ==
    ASSUME Counts, NEW p \in DOMAIN parcels, Deliver(p)
    PROVE  /\ groups' \in Groups /\ DOMAIN groups' = DOMAIN groups /\ Len(groups') = Len(groups)
           /\ parcels' \in Parcels /\ Tracked(groups', parcels') /\ Len(parcels') = Len(parcels)
           /\ parcels' = Put(parcels, p, Moved(parcels[p], "delivered"))
           /\ Real(groups') = Real(groups)
           /\ \/ /\ parcels[p].status = "shipped" /\ groups' = groups /\ SentIn(parcels') = SentIn(parcels)
              \/ /\ parcels[p].status = "lost" /\ Restorable(p)
                 /\ Remaining(groups') = Remaining(groups) - parcels[p].quantity
                 /\ Waiting(groups') = Waiting(groups) - OwnOwed(p)
                 /\ Shipped(groups') = Shipped(groups) + parcels[p].quantity
                 /\ SentIn(parcels') = SentIn(parcels) + parcels[p].quantity
                 /\ WaitsUnlessDue(groups, groups', p)
<1>1. groups \in Groups /\ parcels \in Parcels /\ Tracked(groups, parcels)
  BY DEF Counts
<1>2. parcels' = Put(parcels, p, Moved(parcels[p], "delivered"))
  BY <1>1 DEF Deliver, Put, Moved, Parcels
<1>3. PICK q : q = parcels[p].quantity
  OBVIOUS
<1>4. PICK to : to = "delivered"
  OBVIOUS
<1>5. to \in ParcelStates /\ to # "shipped" /\ parcels' = Put(parcels, p, Moved(parcels[p], to))
  BY <1>2, <1>4 DEF ParcelStates
<1>6. PICK qs : qs = parcels'
  OBVIOUS
<1>7. qs = Put(parcels, p, Moved(parcels[p], to))
  BY <1>5, <1>6
<1>8. /\ qs \in Parcels /\ DOMAIN qs = DOMAIN parcels /\ Len(qs) = Len(parcels)
      /\ qs[p].status = to /\ SameGoods(parcels, qs) /\ SentIn(qs) - SentOf(qs[p]) = SentIn(parcels) - SentOf(parcels[p])
  BY ONLY <1>1, <1>5, <1>7, p \in DOMAIN parcels, ParcelsChange
<1>9. q \in Nat /\ SentIn(qs) \in Nat /\ SentIn(parcels) \in Nat /\ SentOf(qs[p]) = q
  <2>1. parcels[p] \in ParcelRecords
    BY <1>1 DEF Parcels
  <2>2. qs[p].quantity = q
    BY <1>3, <1>8 DEF SameGoods
  <2> QED BY <1>1, <1>3, <1>4, <1>8, <2>1, <2>2, ParcelTotalsType DEF SentOf, ParcelRecords
<1>10. CASE parcels[p].status = "shipped"
  <2>1. groups' = groups
    BY <1>10 DEF Deliver
  <2>2. Tracked(groups, qs)
    BY ONLY <1>1, <1>5, <1>7, p \in DOMAIN parcels, TrackedParcel
  <2>3. SentOf(parcels[p]) = q
    BY <1>3, <1>10 DEF SentOf
  <2>4. SentIn(qs) = SentIn(parcels)
    BY ONLY <1>8, <1>9, <2>3
  <2> QED BY <1>1, <1>2, <1>6, <1>8, <1>10, <2>1, <2>2, <2>4
<1>11. CASE parcels[p].status = "lost"
  <2>1. groups' = Restored(p) /\ Restorable(p)
    BY <1>11 DEF Deliver
  <2>2. /\ groups' \in Groups /\ DOMAIN groups' = DOMAIN groups /\ Len(groups') = Len(groups) /\ Tracked(groups', parcels)
        /\ Remaining(groups') = Remaining(groups) - parcels[p].quantity
        /\ Waiting(groups') = Waiting(groups) - OwnOwed(p)
        /\ Shipped(groups') = Shipped(groups) + parcels[p].quantity /\ Real(groups') = Real(groups)
        /\ WaitsUnlessDue(groups, groups', p)
    BY <2>1, RestoredIs
  <2>3. PICK hs : hs = groups'
    OBVIOUS
  <2>4. hs \in Groups /\ Tracked(hs, parcels)
    BY <2>2, <2>3
  <2>5. Tracked(hs, qs)
    BY ONLY <1>1, <1>5, <1>7, <2>4, p \in DOMAIN parcels, TrackedParcel
  <2>6. SentOf(parcels[p]) = 0
    BY <1>11 DEF SentOf
  <2>7. SentIn(qs) = SentIn(parcels) + q
    BY ONLY <1>8, <1>9, <2>6
  <2> QED BY <1>2, <1>3, <1>6, <1>8, <1>11, <2>1, <2>2, <2>3, <2>5, <2>7
<1>12. parcels[p].status \in {"shipped", "lost"}
  BY DEF Deliver
<1> QED BY <1>10, <1>11, <1>12

LEMMA DeliverCounts == ASSUME Counts, NEW p \in DOMAIN parcels, Deliver(p) PROVE Counts'
<1>1. /\ groups' \in Groups /\ DOMAIN groups' = DOMAIN groups /\ parcels' \in Parcels /\ Tracked(groups', parcels')
      /\ Real(groups') = Real(groups)
      /\ \/ groups' = groups /\ SentIn(parcels') = SentIn(parcels)
         \/ /\ Shipped(groups') = Shipped(groups) + parcels[p].quantity
            /\ SentIn(parcels') = SentIn(parcels) + parcels[p].quantity
  BY DeliverShape
<1>2. PICK q : q = parcels[p].quantity
  OBVIOUS
<1>3. q \in Nat /\ groups # <<>>
  <2>1. parcels[p] \in ParcelRecords
    BY DEF Counts, Parcels
  <2>2. parcels[p].group \in DOMAIN groups
    BY DEF Counts, Tracked, Linking
  <2>3. groups # <<>>
    BY <2>2
  <2> QED BY <1>2, <2>1, <2>3 DEF ParcelRecords
<1>4. Shipped(groups') - SentIn(parcels') = Shipped(groups) - SentIn(parcels)
  <2>1. Shipped(groups) \in Nat /\ SentIn(parcels) \in Nat
    BY TotalsType, ParcelTotalsType DEF Counts
  <2>2. \/ groups' = groups /\ SentIn(parcels') = SentIn(parcels)
        \/ Shipped(groups') = Shipped(groups) + q /\ SentIn(parcels') = SentIn(parcels) + q
    BY <1>1, <1>2
  <2> QED BY ONLY <1>3, <2>1, <2>2
<1>5. order' \in Orders
  <2>1. order \in Orders /\ order.status \in {"paid", "processing", "shipped", "delivered", "cancelled"}
    BY DEF Counts, Orders
  <2>2. PICK gs, ps : Settles(order.status, gs, ps)
    BY DEF Deliver
  <2> QED BY <2>1, <2>2, OrderSettles
<1>6. /\ UNCHANGED <<returns, asked>> /\ relay' = relay /\ relay \in Handling /\ Real(groups) = Ordered
  BY <1>3 DEF Deliver, reads, Counts
<1> QED BY <1>1, <1>4, <1>5, <1>6, CountsByGroups

-----------------------------------------------------------------------------
(* Units taken from the last entries of a table, as many as are needed.      *)

Rest(f, k) == [i \in DOMAIN f |-> IF i > k THEN f[i] ELSE 0]
Beyond(f, k) == Sum(Rest(f, k))

LEMMA RestOf ==
    ASSUME NEW m \in Nat, NEW f \in [1 .. m -> Nat]
    PROVE  /\ Beyond(f, 0) = Sum(f) /\ Beyond(f, m) = 0
           /\ \A k \in 0 .. m : Beyond(f, k) \in Nat
           /\ \A k \in 0 .. m : k < m => Beyond(f, k) = Beyond(f, k + 1) + f[k + 1]
<1>1. IsFiniteSet(1 .. m) /\ DOMAIN f = 1 .. m
  BY FS_Interval
<1>2. \A k \in Int : Rest(f, k) \in [1 .. m -> Nat]
  BY <1>1 DEF Rest
<1>3. Rest(f, 0) = f
  BY <1>1 DEF Rest
<1>4. Beyond(f, m) = 0
  <2>1. Rest(f, m) \in [1 .. m -> Nat] /\ \A i \in 1 .. m : Rest(f, m)[i] = 0
    BY <1>1, <1>2 DEF Rest
  <2> QED BY <1>1, <2>1, SumZero DEF Beyond
<1>5. \A k \in 0 .. m : Beyond(f, k) \in Nat
  BY <1>1, <1>2, SumType DEF Beyond
<1>6. ASSUME NEW k \in 0 .. m, k < m PROVE Beyond(f, k) = Beyond(f, k + 1) + f[k + 1]
  <2>1. PICK x : x = k + 1
    OBVIOUS
  <2>2. x \in 1 .. m
    BY <1>6, <2>1
  <2>3. Rest(f, k) \in [1 .. m -> Nat] /\ Rest(f, x) \in [1 .. m -> Nat]
    BY <1>2, <2>2
  <2>4. \A i \in 1 .. m \ {x} : Rest(f, k)[i] = Rest(f, x)[i]
    <3>1. ASSUME NEW i \in 1 .. m \ {x} PROVE Rest(f, k)[i] = Rest(f, x)[i]
      <4>1. i > k <=> i > x
        BY <2>1
      <4> QED BY <1>1, <4>1 DEF Rest
    <3> QED BY <3>1
  <2>5. Rest(f, k)[x] = f[x] /\ Rest(f, x)[x] = 0
    BY <1>1, <2>1, <2>2 DEF Rest
  <2>6. Sum(Rest(f, k)) - Rest(f, k)[x] = Sum(Rest(f, x)) - Rest(f, x)[x]
    BY ONLY <1>1, <2>2, <2>3, <2>4, SumChange
  <2>7. f[x] \in Nat /\ Sum(Rest(f, k)) \in Nat /\ Sum(Rest(f, x)) \in Nat
    BY <1>1, <2>2, <2>3, SumType
  <2>8. Sum(Rest(f, k)) = Sum(Rest(f, x)) + f[x]
    BY ONLY <2>5, <2>6, <2>7
  <2> QED BY <2>1, <2>8 DEF Beyond
<1> QED BY <1>3, <1>4, <1>5, <1>6 DEF Beyond

Taken(f, n, m) == [k \in 1 .. m |-> Min({f[k], Max({0, n - Beyond(f, k)})})]
(* As many are taken as are needed, and no entry gives more than it has. *)
Takes(take, f, n, m) ==
    take \in [1 .. m -> Nat] /\ Sum(take) = n /\ \A k \in 1 .. m : take[k] <= f[k]

LEMMA TakenFromLast ==
    ASSUME NEW m \in Nat, NEW f \in [1 .. m -> Nat], NEW n \in Nat, n <= Sum(f),
           NEW take, take = Taken(f, n, m)
    PROVE  Takes(take, f, n, m)
<1>1. \A k \in 0 .. m : Beyond(f, k) \in Nat
  BY RestOf
<1>2. ASSUME NEW k \in 1 .. m
      PROVE  take[k] = IF n <= Beyond(f, k) THEN 0
                       ELSE IF f[k] <= n - Beyond(f, k) THEN f[k] ELSE n - Beyond(f, k)
  <2>1. PICK b, c : b = Beyond(f, k) /\ c = n - b
    OBVIOUS
  <2>2. b \in Nat /\ c \in Int /\ f[k] \in Nat
    BY <1>1, <2>1
  <2>3. Max({0, c}) = IF 0 >= c THEN 0 ELSE c
    BY <2>2, MaxOfTwo
  <2>4. PICK d : d = Max({0, c})
    OBVIOUS
  <2>5. d \in Nat
    BY <2>2, <2>3, <2>4
  <2>6. Min({f[k], d}) = IF f[k] <= d THEN f[k] ELSE d
    BY <2>2, <2>5, MinOfTwo
  <2>7. take[k] = IF f[k] <= d THEN f[k] ELSE d
    BY <2>1, <2>4, <2>6 DEF Taken
  <2>8. d = IF n <= b THEN 0 ELSE n - b
    BY <2>1, <2>2, <2>3, <2>4
  <2> QED BY <2>1, <2>2, <2>7, <2>8
<1>3. \A k \in 1 .. m : take[k] \in Nat /\ take[k] <= f[k]
  <2>1. ASSUME NEW k \in 1 .. m PROVE take[k] \in Nat /\ take[k] <= f[k]
    <3>1. PICK b, c : b = Beyond(f, k) /\ c = f[k]
      OBVIOUS
    <3>2. b \in Nat /\ c \in Nat
      BY <1>1, <3>1
    <3>3. take[k] = IF n <= b THEN 0 ELSE IF c <= n - b THEN c ELSE n - b
      BY <1>2, <3>1
    <3> QED BY <3>1, <3>2, <3>3
  <2> QED BY <2>1
<1>4. take \in [1 .. m -> Nat]
  BY <1>3 DEF Taken
<1>5. \A k \in 0 .. m : Beyond(take, k) \in Nat
  BY <1>4, RestOf
<1> DEFINE Agrees(k) == Beyond(take, k) = IF n <= Beyond(f, k) THEN n ELSE Beyond(f, k)
           T == {j \in 0 .. m : ~ Agrees(m - j)}
<1>6. T = {}
  <2> SUFFICES ASSUME T # {} PROVE FALSE
    OBVIOUS
  <2>1. PICK j \in T : \A i \in T : j <= i
    <3>1. T \in SUBSET Nat
      OBVIOUS
    <3> HIDE DEF T
    <3> QED BY <3>1, Least
  <2>2. PICK k : k = m - j
    OBVIOUS
  <2>3. k \in 0 .. m /\ ~ Agrees(k)
    BY <2>1, <2>2
  <2>4. CASE k = m
    <3>1. Beyond(f, m) = 0 /\ Beyond(take, m) = 0
      BY <1>4, RestOf
    <3> QED BY <2>3, <2>4, <3>1
  <2>5. CASE k # m
    <3>1. k < m /\ j - 1 \in 0 .. m /\ k + 1 \in 0 .. m /\ k + 1 \in 1 .. m /\ m - (j - 1) = k + 1 /\ ~ (j <= j - 1)
      BY <2>1, <2>2, <2>3, <2>5
    <3>2. j - 1 \notin T
      BY <2>1, <3>1
    <3>3. Agrees(k + 1)
      BY <3>1, <3>2
    <3>4. Beyond(f, k) = Beyond(f, k + 1) + f[k + 1]
      BY <2>3, <3>1, RestOf
    <3>5. Beyond(take, k) = Beyond(take, k + 1) + take[k + 1]
      BY <1>4, <2>3, <3>1, RestOf
    <3>6. PICK a, b, c, d, e, g : /\ a = Beyond(f, k) /\ b = Beyond(f, k + 1) /\ c = f[k + 1]
                               /\ d = Beyond(take, k) /\ e = Beyond(take, k + 1) /\ g = take[k + 1]
      OBVIOUS
    <3>7. a \in Nat /\ b \in Nat /\ c \in Nat /\ d \in Nat /\ e \in Nat /\ g \in Nat
      BY <1>1, <1>3, <1>5, <2>3, <3>1, <3>6
    <3>8. a = b + c /\ d = e + g /\ e = (IF n <= b THEN n ELSE b)
      BY <3>3, <3>4, <3>5, <3>6
    <3>9. g = IF n <= b THEN 0 ELSE IF c <= n - b THEN c ELSE n - b
      BY <1>2, <3>1, <3>6
    <3>10. d # (IF n <= a THEN n ELSE a)
      BY <2>3, <3>6
    <3> QED BY ONLY <3>7, <3>8, <3>9, <3>10, n \in Nat
  <2> QED BY <2>4, <2>5
<1>7. Agrees(0)
  <2>1. m \in 0 .. m /\ m - m = 0
    OBVIOUS
  <2> QED BY <1>6, <2>1
<1>8. Sum(take) = n
  <2>1. Beyond(f, 0) = Sum(f) /\ Beyond(take, 0) = Sum(take)
    BY <1>4, RestOf
  <2> QED BY <1>7, <2>1
<1> QED BY <1>3, <1>4, <1>8 DEF Takes

-----------------------------------------------------------------------------
(* A return is replaced: its units remain again, and those the shelf cannot  *)
(* cover wait in a fulfilment order of their own.                            *)

Back(n) == [g \in DOMAIN groups |-> Reopened(g, n)]
Share(n, owed) == [g \in DOMAIN groups |-> OwedShare(g, n, owed)]

LEMMA BackIs ==
    ASSUME Counts, NEW n \in Nat, n <= Shipped(groups)
    PROVE  Back(n) \in [DOMAIN groups -> Nat] /\ Sum(Back(n)) = n /\ \A g \in DOMAIN groups : Back(n)[g] <= groups[g].shipped
<1>1. PICK m, f : m = Len(groups) /\ f = Gone(groups)
  OBVIOUS
<1>2. DOMAIN groups = 1 .. m /\ m \in Nat /\ f \in [1 .. m -> Nat] /\ n <= Sum(f)
  BY <1>1, Listed, AmountTables, TotalsAre DEF Counts, Groups
<1>3. ASSUME NEW g \in DOMAIN groups
      PROVE  After(g, LAMBDA h : groups[h].shipped) = Beyond(f, g)
  <2>1. Rest(f, g) = [h \in DOMAIN groups |-> IF h > g THEN groups[h].shipped ELSE 0]
    BY <1>1 DEF Rest, Gone
  <2> QED BY <2>1 DEF After, Beyond
<1>4. \A g \in DOMAIN groups : groups[g].shipped = f[g]
  BY <1>1 DEF Gone
<1>5. PICK take : take = Taken(f, n, m)
  OBVIOUS
<1>6. Back(n) = take
  BY <1>2, <1>3, <1>4, <1>5 DEF Back, Reopened, Taken
<1>7. Takes(take, f, n, m)
  BY ONLY <1>2, <1>5, n \in Nat, TakenFromLast
<1> QED BY <1>2, <1>4, <1>6, <1>7 DEF Takes

LEMMA ShareIs ==
    ASSUME Counts, NEW n \in Nat, n <= Shipped(groups), NEW owed \in Nat, owed <= n
    PROVE  /\ Share(n, owed) \in [DOMAIN groups -> Nat] /\ Sum(Share(n, owed)) = owed
           /\ \A g \in DOMAIN groups : Share(n, owed)[g] <= Back(n)[g]
<1>1. PICK m, f : m = Len(groups) /\ f = Back(n)
  OBVIOUS
<1>2. DOMAIN groups = 1 .. m /\ m \in Nat
  BY <1>1, Listed DEF Counts, Groups
<1>3. f \in [1 .. m -> Nat] /\ owed <= Sum(f)
  BY <1>1, <1>2, BackIs
<1>4. ASSUME NEW g \in DOMAIN groups
      PROVE  After(g, LAMBDA h : Reopened(h, n)) = Beyond(f, g)
  <2>1. Rest(f, g) = [h \in DOMAIN groups |-> IF h > g THEN Reopened(h, n) ELSE 0]
    BY <1>1 DEF Rest, Back
  <2> QED BY <2>1 DEF After, Beyond
<1>5. \A g \in DOMAIN groups : Reopened(g, n) = f[g]
  BY <1>1 DEF Back
<1>6. PICK take : take = Taken(f, owed, m)
  OBVIOUS
<1>7. Share(n, owed) = take
  BY <1>2, <1>4, <1>5, <1>6 DEF Share, OwedShare, Taken
<1>8. Takes(take, f, owed, m)
  BY ONLY <1>2, <1>3, <1>6, owed \in Nat, TakenFromLast
<1> QED BY <1>1, <1>2, <1>7, <1>8 DEF Takes

(* What is left of the fulfilment orders once n units are taken back from them. *)
Reopening(n, owed) ==
    [g \in DOMAIN groups |-> IF Reopened(g, n) = 0 THEN groups[g]
                             ELSE WithLoss(groups[g], Reopened(g, n), OwedShare(g, n, owed))]

LEMMA ReopeningIs ==
    ASSUME Counts, NEW n \in Nat, n <= Shipped(groups), NEW owed \in Nat, owed <= n,
           \A g \in DOMAIN groups : groups[g].shipped - Reopened(g, n) >= InTransit(g),
           NEW gs, gs = Reopening(n, owed)
    PROVE  /\ gs \in Groups /\ DOMAIN gs = DOMAIN groups /\ Len(gs) = Len(groups) /\ Tracked(gs, parcels)
           /\ Remaining(gs) = Remaining(groups) + n - owed /\ Waiting(gs) = Waiting(groups)
           /\ Shipped(gs) = Shipped(groups) - n /\ Real(gs) = Real(groups) - owed
           /\ \A y \in DOMAIN groups : AwaitingStock(gs[y]) \/ AwaitingStock(groups[y]) => gs[y] = groups[y]
<1>1. groups \in Groups /\ parcels \in Parcels /\ Tracked(groups, parcels)
  BY DEF Counts
<1>2. PICK back, share : back = Back(n) /\ share = Share(n, owed)
  OBVIOUS
<1> DEFINE D == DOMAIN groups
<1>3. /\ back \in [D -> Nat] /\ Sum(back) = n /\ \A g \in D : back[g] <= groups[g].shipped
  BY <1>2, BackIs
<1>4. /\ share \in [D -> Nat] /\ Sum(share) = owed /\ \A g \in D : share[g] <= back[g]
  BY <1>2, ShareIs
<1>5. DOMAIN gs = D /\ gs = [g \in DOMAIN gs |-> gs[g]]
  BY DEF Reopening
<1>6. ASSUME NEW g \in D
      PROVE  /\ Sound(gs[g]) /\ gs[g].source = groups[g].source
             /\ gs[g].reason = "awaiting_stock" => groups[g].reason = "awaiting_stock"
             /\ OnItsWay(parcels, g) <= gs[g].shipped
             /\ RemainingOf(gs[g]) + share[g] = RemainingOf(groups[g]) + back[g]
             /\ WaitingOf(gs[g]) = WaitingOf(groups[g]) /\ groups[g].shipped = gs[g].shipped + back[g]
             /\ RealOf(groups[g]) = RealOf(gs[g]) + share[g]
             /\ AwaitingStock(gs[g]) \/ AwaitingStock(groups[g]) => gs[g] = groups[g]
  <2>1. PICK a, b, s, k : /\ a = back[g] /\ b = share[g] /\ s = groups[g].shipped
                          /\ k = WithLoss(groups[g], a, b)
    OBVIOUS
  <2>2. /\ a \in Nat /\ b \in Nat /\ a <= s /\ b <= a /\ Sound(groups[g]) /\ s \in Nat
    BY <1>3, <1>4, <2>1, GroupFacts
  <2>3. gs[g] = IF a = 0 THEN groups[g] ELSE k
    BY <1>2, <2>1 DEF Reopening, Back, Share
  <2>4. RemainingOf(groups[g]) \in Nat /\ RealOf(groups[g]) \in Nat
    BY <2>2, AmountsOf
  <2>5. OnItsWay(parcels, g) <= s - a
    <3>1. InTransit(g) = OnItsWay(parcels, g)
      BY DEF InTransit, OnItsWay
    <3>2. a = Reopened(g, n)
      BY <1>2, <2>1 DEF Back
    <3>3. OnItsWay(parcels, g) \in Nat
      BY <1>1, ParcelTotalsType
    <3> QED BY <2>1, <2>2, <3>1, <3>2, <3>3
  <2>6. CASE a = 0
    <3>1. gs[g] = groups[g] /\ b = 0
      BY <2>2, <2>3, <2>6
    <3>2. OnItsWay(parcels, g) <= s
      BY <2>2, <2>5, <2>6
    <3> QED BY <2>1, <2>2, <2>4, <2>6, <3>1, <3>2
  <2>7. CASE a # 0
    <3>1. gs[g] = k
      BY <2>3, <2>7
    <3>2. groups[g].reason # "awaiting_stock" /\ a <= groups[g].shipped
      <4>1. s # 0
        BY <2>2, <2>7
      <4> QED BY <2>1, <2>2, <4>1 DEF Sound
    <3>3. /\ Sound(k) /\ RemainingOf(k) = RemainingOf(groups[g]) + a - b /\ k.shipped = groups[g].shipped - a
          /\ RealOf(k) = RealOf(groups[g]) - b /\ WaitingOf(k) = 0 /\ k.source = groups[g].source
          /\ k.reason = groups[g].reason
      <4>1. a \in Nat /\ b \in Nat /\ b <= a /\ Sound(groups[g])
        BY <2>2
      <4>2. k = WithLoss(groups[g], a, b)
        BY <2>1
      <4> QED BY ONLY <3>2, <4>1, <4>2, WithLossIs
    <3>4. PICK rem, real : rem = RemainingOf(groups[g]) /\ real = RealOf(groups[g])
      OBVIOUS
    <3>5. rem \in Nat /\ real \in Nat /\ RemainingOf(k) = rem + a - b /\ RealOf(k) = real - b /\ k.shipped = s - a
      BY <2>1, <2>4, <3>3, <3>4
    <3>6. RemainingOf(k) + b = rem + a /\ real = RealOf(k) + b /\ s = k.shipped + a
      BY <2>2, <3>5
    <3>7. WaitingOf(groups[g]) = 0 /\ ~ AwaitingStock(groups[g]) /\ ~ AwaitingStock(k)
      BY <3>2, <3>3 DEF WaitingOf, AwaitingStock
    <3>8. OnItsWay(parcels, g) <= k.shipped
      BY <2>5, <3>5
    <3> QED BY <2>1, <3>1, <3>2, <3>3, <3>4, <3>6, <3>7, <3>8
  <2> QED BY <2>6, <2>7
<1>7. gs \in Groups /\ Len(gs) = Len(groups)
  BY <1>1, <1>5, <1>6, EntriesMade
<1>8. /\ IsFiniteSet(D)
      /\ Left(gs) \in [D -> Nat] /\ Owed(gs) \in [D -> Nat] /\ Gone(gs) \in [D -> Nat] /\ Own(gs) \in [D -> Nat]
      /\ Left(groups) \in [D -> Nat] /\ Gone(groups) \in [D -> Nat] /\ Own(groups) \in [D -> Nat]
  BY <1>1, <1>5, <1>7, AmountTables
<1>9. PICK both : both = [g \in D |-> RemainingOf(groups[g]) + back[g]]
  OBVIOUS
<1>10. both \in [D -> Nat] /\ \A g \in D : both[g] = Left(groups)[g] + back[g] /\ both[g] = Left(gs)[g] + share[g]
  <2>1. ASSUME NEW g \in D
        PROVE  both[g] \in Nat /\ both[g] = Left(groups)[g] + back[g] /\ both[g] = Left(gs)[g] + share[g]
    <3>1. both[g] = RemainingOf(groups[g]) + back[g]
      BY <1>9
    <3>2. Left(groups)[g] = RemainingOf(groups[g]) /\ Left(gs)[g] = RemainingOf(gs[g])
      BY <1>5 DEF Left
    <3>3. RemainingOf(gs[g]) + share[g] = RemainingOf(groups[g]) + back[g]
      BY <1>6
    <3>4. RemainingOf(groups[g]) \in Nat /\ back[g] \in Nat
      BY <1>3, GroupFacts
    <3> QED BY <3>1, <3>2, <3>3, <3>4
  <2> QED BY <1>9, <2>1
<1>11. Owed(gs) = Owed(groups)
  BY <1>5, <1>6 DEF Owed
<1>12. \A g \in D : Gone(groups)[g] = Gone(gs)[g] + back[g] /\ Own(groups)[g] = Own(gs)[g] + share[g]
  BY <1>5, <1>6 DEF Gone, Own
<1> HIDE DEF D
<1>13. Sum(both) = Sum(Left(groups)) + Sum(back)
  BY ONLY <1>3, <1>8, <1>10, SumAdd
<1>14. Sum(both) = Sum(Left(gs)) + Sum(share)
  BY ONLY <1>4, <1>8, <1>10, SumAdd
<1>15. Sum(Gone(groups)) = Sum(Gone(gs)) + Sum(back)
  BY ONLY <1>3, <1>8, <1>12, SumAdd
<1>16. Sum(Own(groups)) = Sum(Own(gs)) + Sum(share)
  BY ONLY <1>4, <1>8, <1>12, SumAdd
<1>17. /\ Remaining(gs) + owed = Remaining(groups) + n /\ Waiting(gs) = Waiting(groups)
       /\ Shipped(groups) = Shipped(gs) + n /\ Real(groups) = Real(gs) + owed
  BY <1>3, <1>4, <1>11, <1>13, <1>14, <1>15, <1>16, TotalsAre
<1>18. /\ Remaining(gs) \in Nat /\ Shipped(gs) \in Nat /\ Real(gs) \in Nat
       /\ Remaining(groups) \in Nat /\ Shipped(groups) \in Nat /\ Real(groups) \in Nat
  BY <1>1, <1>7, TotalsType
<1>19. /\ Remaining(gs) = Remaining(groups) + n - owed
       /\ Shipped(gs) = Shipped(groups) - n /\ Real(gs) = Real(groups) - owed
  BY ONLY <1>17, <1>18, n \in Nat, owed \in Nat
<1>20. Tracked(gs, parcels)
  BY <1>1, <1>5, <1>6, <1>7, TrackedChange DEF D
<1> QED BY <1>5, <1>6, <1>7, <1>17, <1>19, <1>20 DEF D

(* Nothing is replaced while it is still on its way. *)
NoneInTransit == "replaced in transit" \notin Divergences

LEMMA ReplacedShape ==
    ASSUME Counts, NoneInTransit, NEW r \in DOMAIN returns, ReceiveReplaced(r)
    PROVE  \E owed \in Nat :
              /\ owed <= returns[r].quantity /\ OwedFits(owed) /\ groups # <<>>
              /\ hold' = [stock |-> hold.stock + returns[r].quantity - owed, owed |-> hold.owed + owed]
              /\ groups' \in Groups /\ Tracked(groups', parcels) /\ DOMAIN groups \subseteq DOMAIN groups'
              /\ Remaining(groups') = Remaining(groups) + returns[r].quantity
              /\ Waiting(groups') = Waiting(groups) + owed
              /\ Shipped(groups') = Shipped(groups) - returns[r].quantity /\ Real(groups') = Real(groups)
              /\ returns[r].quantity <= Shipped(groups) /\ returns[r].quantity \in Nat \ {0}
              /\ Len(groups') = IF owed = 0 THEN Len(groups) ELSE Len(groups) + 1
              /\ \A y \in DOMAIN groups : AwaitingStock(groups'[y]) \/ AwaitingStock(groups[y]) => groups'[y] = groups[y]
<1>1. PICK n : n = returns[r].quantity
  OBVIOUS
<1>2. groups \in Groups /\ parcels \in Parcels /\ Tracked(groups, parcels)
  BY DEF Counts
<1>3. n \in Nat /\ n # 0
  <2>1. returns[r] \in ReturnRecords
    BY DEF Counts, Returns
  <2> QED BY <1>1, <2>1 DEF ReturnRecords
<1>4. Shipped(groups) \in Nat /\ n <= Shipped(groups)
  BY <1>1, <1>2, TotalsType DEF ReceiveReplaced
<1>5. groups # <<>>
  BY <1>3, <1>4, NoGroups
<1>6. \A g \in DOMAIN groups : groups[g].shipped - Reopened(g, n) >= InTransit(g)
  BY <1>1 DEF ReceiveReplaced, NoneInTransit
<1>7. PICK owed \in 0 .. n :
         /\ OwedFits(owed) /\ hold' = [stock |-> hold.stock + n - owed, owed |-> hold.owed + owed]
         /\ groups' = WithOwed(Reopening(n, owed), owed, 0)
  BY <1>1 DEF ReceiveReplaced, Reopening
<1>8. owed \in Nat /\ owed <= n
  BY <1>3, <1>7
<1>9. PICK gs, source : gs = Reopening(n, owed) /\ source = 0
  OBVIOUS
<1>10. /\ gs \in Groups /\ DOMAIN gs = DOMAIN groups /\ Len(gs) = Len(groups) /\ Tracked(gs, parcels)
       /\ Remaining(gs) = Remaining(groups) + n - owed /\ Waiting(gs) = Waiting(groups)
       /\ Shipped(gs) = Shipped(groups) - n /\ Real(gs) = Real(groups) - owed
       /\ \A y \in DOMAIN groups : AwaitingStock(gs[y]) \/ AwaitingStock(groups[y]) => gs[y] = groups[y]
  BY <1>3, <1>4, <1>6, <1>8, <1>9, ReopeningIs
<1>11. source \in Nat /\ source <= Len(parcels)
  <2>1. Len(parcels) \in Nat
    BY <1>2, Listed DEF Parcels
  <2> QED BY <1>9, <2>1
<1>12. groups' = WithOwed(gs, owed, source)
  BY <1>7, <1>9
<1>13. PICK hs : hs = groups'
  OBVIOUS
<1>14. hs = WithOwed(gs, owed, source)
  BY <1>12, <1>13
<1>15. /\ hs \in Groups /\ Tracked(hs, parcels) /\ DOMAIN gs \subseteq DOMAIN hs /\ Keeps(gs, hs)
       /\ Remaining(hs) = Remaining(gs) + owed /\ Waiting(hs) = Waiting(gs) + owed
       /\ Shipped(hs) = Shipped(gs) /\ Real(hs) = Real(gs) + owed
       /\ Len(hs) = IF owed = 0 THEN Len(gs) ELSE Len(gs) + 1
  BY ONLY <1>2, <1>8, <1>10, <1>11, <1>14, OwedGroups
<1>16. Remaining(groups) \in Nat /\ Real(groups) \in Nat /\ Waiting(groups) \in Nat
  BY <1>2, TotalsType
<1>17. Remaining(hs) = Remaining(groups) + n /\ Real(hs) = Real(groups)
  BY ONLY <1>3, <1>8, <1>10, <1>15, <1>16
<1>18. Waiting(hs) = Waiting(groups) + owed /\ Shipped(hs) = Shipped(groups) - n
  BY ONLY <1>10, <1>15
<1>19. \A y \in DOMAIN groups : AwaitingStock(hs[y]) \/ AwaitingStock(groups[y]) => hs[y] = groups[y]
  BY <1>10, <1>15 DEF Keeps
<1> QED BY <1>1, <1>3, <1>4, <1>5, <1>7, <1>8, <1>10, <1>13, <1>15, <1>17, <1>18, <1>19

LEMMA ReplacedCounts ==
    ASSUME Counts, NoneInTransit, NEW r \in DOMAIN returns, ReceiveReplaced(r)
    PROVE  Counts'
<1>1. PICK n : n = returns[r].quantity
  OBVIOUS
<1>2. /\ groups' \in Groups /\ Tracked(groups', parcels) /\ DOMAIN groups \subseteq DOMAIN groups'
      /\ Shipped(groups') = Shipped(groups) - n /\ Real(groups') = Real(groups)
      /\ n <= Shipped(groups) /\ n \in Nat /\ n # 0 /\ groups # <<>>
  BY <1>1, ReplacedShape
<1>3. returns \in Returns
  BY DEF Counts
<1>4. PICK old : old = returns[r]
  OBVIOUS
<1>5. old \in ReturnRecords /\ old.status = "approved" /\ old.remedy = "none" /\ old.quantity = n
  <2>1. old \in ReturnRecords
    BY <1>3, <1>4 DEF Returns
  <2>2. old.status = "approved"
    BY <1>4 DEF ReceiveReplaced
  <2> QED BY <1>1, <1>3, <1>4, <2>1, <2>2 DEF Returns
<1>6. returns' = [returns EXCEPT ![r].status = "received", ![r].remedy = "replace"]
  BY DEF ReceiveReplaced, Received
<1>7. PICK e : e = [old EXCEPT !.status = "received", !.remedy = "replace"]
  OBVIOUS
<1>8. e \in ReturnRecords /\ e.status = "received" /\ e.remedy = "replace" /\ e.quantity = n
  BY <1>5, <1>7 DEF ReturnRecords
<1>9. PICK ts : ts = returns' /\ ts = Put(returns, r, e)
  BY <1>3, <1>4, <1>6, <1>7 DEF Put, Returns
<1>10. /\ ts \in Returns
       /\ ReplacedIn(ts) - ReplacedOf(e) = ReplacedIn(returns) - ReplacedOf(returns[r])
       /\ ReturnedIn(ts) - ReturnedOf(e) = ReturnedIn(returns) - ReturnedOf(returns[r])
  BY <1>3, <1>8, <1>9, ReturnsChange
<1>11. ReplacedOf(e) = n /\ ReplacedOf(old) = 0 /\ ReturnedOf(e) = 0 /\ ReturnedOf(old) = n
  BY <1>5, <1>8 DEF ReplacedOf, ReturnedOf, HoldsReturnedGoods
<1>12. /\ ReplacedIn(ts) \in Nat /\ ReturnedIn(ts) \in Nat /\ ReplacedIn(returns) \in Nat /\ ReturnedIn(returns) \in Nat
  BY <1>3, <1>10, ReturnTotalsType
<1>13. ReplacedIn(ts) - n = ReplacedIn(returns) - 0 /\ ReturnedIn(ts) - 0 = ReturnedIn(returns) - n
  BY <1>4, <1>10, <1>11
<1>14. ReplacedIn(ts) = ReplacedIn(returns) + n
  BY ONLY <1>2, <1>12, <1>13
<1>15. ReturnedIn(ts) <= ReturnedIn(returns)
  BY ONLY <1>2, <1>12, <1>13
<1>16. ReturnedIn(ts) <= Ordered
  <2>1. ReturnedIn(returns) <= Ordered /\ Ordered \in Nat
    BY FulfilmentAssumption DEF Counts
  <2> QED BY <1>12, <1>15, <2>1
<1>17. Shipped(groups') + ReplacedIn(ts) = SentIn(parcels)
  <2>1. Shipped(groups) + ReplacedIn(returns) = SentIn(parcels)
    BY DEF Counts
  <2>2. Shipped(groups) \in Nat /\ SentIn(parcels) \in Nat
    BY TotalsType, ParcelTotalsType DEF Counts
  <2> QED BY <1>2, <1>12, <1>14, <2>1, <2>2
<1>18. order' \in Orders
  BY DEF ReceiveReplaced, Counts, Orders
<1>19. parcels' = parcels /\ relay' = relay /\ asked' = asked
  BY DEF ReceiveReplaced, reads
<1> QED BY <1>2, <1>9, <1>10, <1>16, <1>17, <1>18, <1>19 DEF Counts

-----------------------------------------------------------------------------
(* The hold and the outbox rows stay numbers and rows, whatever is taken.    *)

Rows == [name : {"cancelled", "allocated"}, waiting : Int]
Amounts ==
    /\ hold \in [stock : Int, owed : Int] /\ events \in Seq(Rows)
    /\ relay.busy => events # <<>>

LEMMA TakenIs ==
    ASSUME hold \in [stock : Int, owed : Int], NEW stock \in Int, NEW owed \in Int,
           NEW h, h = TakenFromHold(stock, owed)
    PROVE  \E claim, taken \in Int :
              /\ claim = (IF owed <= hold.owed THEN owed ELSE hold.owed)
              /\ taken = (IF stock + owed - claim <= hold.stock THEN stock + owed - claim ELSE hold.stock)
              /\ h = [stock |-> hold.stock - taken, owed |-> hold.owed - claim]
<1>1. PICK a, b : a = hold.stock /\ b = hold.owed
  OBVIOUS
<1>2. a \in Int /\ b \in Int
  BY <1>1
<1>3. PICK claim : claim = Min({owed, b})
  OBVIOUS
<1>4. claim \in Int /\ claim = IF owed <= b THEN owed ELSE b
  BY <1>2, <1>3, MinOfTwo
<1>5. PICK m : m = stock + owed - claim
  OBVIOUS
<1>6. m \in Int
  BY <1>4, <1>5
<1>7. PICK taken : taken = Min({m, a})
  OBVIOUS
<1>8. taken \in Int /\ taken = IF m <= a THEN m ELSE a
  BY <1>2, <1>6, <1>7, MinOfTwo
<1>9. h = [stock |-> a - taken, owed |-> b - claim]
  BY <1>1, <1>3, <1>5, <1>7 DEF TakenFromHold
<1> QED BY <1>1, <1>4, <1>5, <1>8, <1>9

LEMMA TakenAmounts ==
    ASSUME hold \in [stock : Int, owed : Int], NEW stock \in Int, NEW owed \in Int
    PROVE  TakenFromHold(stock, owed) \in [stock : Int, owed : Int]
<1>1. PICK h : h = TakenFromHold(stock, owed)
  OBVIOUS
<1>2. PICK claim, taken \in Int : h = [stock |-> hold.stock - taken, owed |-> hold.owed - claim]
  BY <1>1, TakenIs
<1>3. h \in [stock : Int, owed : Int]
  BY <1>2
<1> QED BY <1>1, <1>3

LEMMA RowsSettled ==
    ASSUME events \in Seq(Rows), NEW status, NEW gs, NEW ps, Settles(status, gs, ps)
    PROVE  events' \in Seq(Rows) /\ (events # <<>> => events' # <<>>)
<1>1. OrderCancelled \in Rows
  BY DEF OrderCancelled, Rows
<1>2. events' = events \/ events' = Append(events, OrderCancelled)
  BY DEF Settles
<1>3. Append(events, OrderCancelled) # <<>>
  <2>1. Len(Append(events, OrderCancelled)) = Len(events) + 1 /\ Len(events) \in Nat
    BY <1>1
  <2> QED BY <2>1
<1> QED BY <1>1, <1>2, <1>3

LEMMA AmountsStep == ASSUME Counts, Amounts, Next PROVE Amounts'
<1>1. hold \in [stock : Int, owed : Int] /\ events \in Seq(Rows) /\ (relay.busy => events # <<>>)
  BY DEF Amounts
<1>2. ASSUME Allocate PROVE Amounts'
  <2>1. PICK n \in 1 .. hold.owed :
          /\ hold' = [stock |-> hold.stock + n, owed |-> hold.owed - n]
          /\ events' = Append(events, PreorderAllocated(hold.owed - n))
    BY <1>2 DEF Allocate
  <2>4. relay' = relay
    BY <1>2 DEF Allocate, reads
  <2>2. hold' \in [stock : Int, owed : Int] /\ hold.owed - n \in Int
    BY <1>1, <2>1
  <2>3. PreorderAllocated(hold.owed - n) \in Rows
    BY <2>2 DEF PreorderAllocated, Rows
  <2>5. PICK row : row = PreorderAllocated(hold.owed - n)
    OBVIOUS
  <2>6. events' = Append(events, row) /\ row \in Rows
    BY <2>1, <2>3, <2>5
  <2>7. events' \in Seq(Rows) /\ events' # <<>>
    BY <1>1, <2>6
  <2> QED BY <2>2, <2>7 DEF Amounts
<1>3. CASE UNCHANGED <<hold, events, relay>>
  BY <1>3 DEF Amounts
<1>4. ASSUME NEW g \in DOMAIN groups, Ship(g) \/ Fulfil(g) PROVE Amounts'
  <2>1. RemainingOf(groups[g]) \in Nat
    BY GroupFacts
  <2>2. PICK n \in Int : \E status : CutShipment(g, n, status)
    <3>1. CASE Ship(g)
      BY <2>1, <3>1 DEF Ship
    <3>2. CASE Fulfil(g)
      BY <2>1, <3>2 DEF Fulfil
    <3> QED BY <1>4, <3>1, <3>2
  <2>3. hold' = TakenFromHold(n, 0) /\ (\E s, gs, ps : Settles(s, gs, ps)) /\ relay' = relay
    BY <2>2 DEF CutShipment, reads
  <2> QED BY <1>1, <2>3, TakenAmounts, RowsSettled DEF Amounts
<1>5. ASSUME NEW g \in DOMAIN groups, CancelRemainder(g) PROVE Amounts'
  <2>1. RemainingOf(groups[g]) \in Nat
    BY GroupFacts
  <2>2. PICK n : n = RemainingOf(groups[g])
    OBVIOUS
  <2>3. hold' = TakenFromHold(0, n) \/ hold' = TakenFromHold(n, 0)
    BY <1>5, <2>2 DEF CancelRemainder
  <2>4. (\E s, gs, ps : Settles(s, gs, ps)) /\ relay' = relay
    BY <1>5 DEF CancelRemainder, reads
  <2>5. n \in Int
    BY <2>1, <2>2
  <2>8. PICK zero : zero = 0
    OBVIOUS
  <2>9. zero \in Int /\ hold \in [stock : Int, owed : Int]
    BY <1>1, <2>8
  <2>10. TakenFromHold(zero, n) \in [stock : Int, owed : Int]
    BY ONLY <2>5, <2>9, TakenAmounts
  <2>11. TakenFromHold(n, zero) \in [stock : Int, owed : Int]
    BY ONLY <2>5, <2>9, TakenAmounts
  <2>6. TakenFromHold(0, n) \in [stock : Int, owed : Int]
    BY <2>8, <2>10
  <2>7. TakenFromHold(n, 0) \in [stock : Int, owed : Int]
    BY <2>8, <2>11
  <2> QED BY <1>1, <2>3, <2>4, <2>6, <2>7, RowsSettled DEF Amounts
<1>6. ASSUME NEW p \in DOMAIN parcels, MarkLost(p) PROVE Amounts'
  <2>1. parcels[p] \in ParcelRecords
    BY DEF Counts, Parcels
  <2>2. parcels[p].quantity \in Nat
    BY <2>1 DEF ParcelRecords
  <2>3. PICK owed \in 0 .. parcels[p].quantity :
           hold' = [stock |-> hold.stock + parcels[p].quantity - owed, owed |-> hold.owed + owed]
    BY <1>6 DEF MarkLost
  <2>4. hold' \in [stock : Int, owed : Int]
    BY <1>1, <2>2, <2>3
  <2>5. events' = events /\ relay' = relay
    BY <1>6 DEF MarkLost, reads
  <2> QED BY <1>1, <2>4, <2>5 DEF Amounts
<1>7. ASSUME NEW p \in DOMAIN parcels, Deliver(p) PROVE Amounts'
  <2>1. parcels[p] \in ParcelRecords
    BY DEF Counts, Parcels
  <2>2. parcels[p].quantity \in Nat /\ OwedFor(p) \in Nat
    BY <2>1, DueType DEF ParcelRecords
  <2>3. PICK q, t : q = parcels[p].quantity - OwedFor(p) /\ t = OwedFor(p)
    OBVIOUS
  <2>4. q \in Int /\ t \in Int
    BY <2>2, <2>3
  <2>5. hold' = hold \/ hold' = TakenFromHold(q, t)
    BY <1>7, <2>3 DEF Deliver, ReleaseTopUp
  <2>6. (\E s, gs, ps : Settles(s, gs, ps)) /\ relay' = relay
    BY <1>7 DEF Deliver, reads
  <2> QED BY <1>1, <2>4, <2>5, <2>6, TakenAmounts, RowsSettled DEF Amounts
<1>8. ASSUME CancelOrder PROVE Amounts'
  <2>1. OrderCancelled \in Rows
    BY DEF OrderCancelled, Rows
  <2>2. hold' \in [stock : Int, owed : Int] /\ events' = Append(events, OrderCancelled)
    BY <1>8 DEF CancelOrder
  <2>3. events' \in Seq(Rows) /\ events' # <<>>
    BY <1>1, <2>1, <2>2
  <2> QED BY <2>2, <2>3 DEF Amounts
<1>9. ASSUME CancelAllForOrder \/ EndAllocated PROVE Amounts'
  <2>1. hold' = hold /\ (events' = events \/ events' = Tail(events)) /\ events # <<>> /\ ~ relay'.busy
    BY <1>1, <1>9 DEF CancelAllForOrder, EndAllocated, reads
  <2>2. ASSUME events' = Tail(events) PROVE events' \in Seq(Rows)
    BY <1>1, <2>1, <2>2
  <2> QED BY <1>1, <2>1, <2>2 DEF Amounts
<1>10. ASSUME NEW r \in DOMAIN returns, ReceiveReplaced(r) PROVE Amounts'
  <2>1. returns[r] \in ReturnRecords
    BY DEF Counts, Returns
  <2>2. returns[r].quantity \in Nat
    BY <2>1 DEF ReturnRecords
  <2>3. PICK owed \in 0 .. returns[r].quantity :
           hold' = [stock |-> hold.stock + returns[r].quantity - owed, owed |-> hold.owed + owed]
    BY <1>10 DEF ReceiveReplaced
  <2>4. hold' \in [stock : Int, owed : Int]
    BY <1>1, <2>2, <2>3
  <2>5. events' = events /\ relay' = relay
    BY <1>10 DEF ReceiveReplaced, reads
  <2> QED BY <1>1, <2>4, <2>5 DEF Amounts
<1>11. ASSUME EnsureRead \/ EnsureWrite \/ Process \/ ReadShipped \/ OpenReturn
       PROVE  Amounts'
  BY <1>3, <1>11 DEF EnsureRead, EnsureWrite, Process, ReadShipped, OpenReturn, reads
<1>14. ASSUME HandleAllocated \/ SplitForAllocation PROVE Amounts'
  <2>1. UNCHANGED <<hold, events>> /\ events # <<>>
    BY <1>1, <1>14 DEF HandleAllocated, SplitForAllocation
  <2> QED BY <1>1, <2>1 DEF Amounts
<1>12. ASSUME NEW g \in DOMAIN groups, HoldGroup(g) \/ ReleaseGroup(g) PROVE Amounts'
  BY <1>3, <1>12 DEF HoldGroup, ReleaseGroup, reads
<1>13. ASSUME NEW r \in DOMAIN returns, Decide(r) \/ CancelReturn(r) \/ ReceiveReturn(r) \/ CloseReturn(r)
       PROVE  Amounts'
  BY <1>3, <1>13 DEF Decide, CancelReturn, ReceiveReturn, CloseReturn, ClaimStatus, reads
<1> QED BY <1>2, <1>4, <1>5, <1>6, <1>7, <1>8, <1>9, <1>10, <1>11, <1>12, <1>13, <1>14 DEF Next

(* What is left to release is a number. *)
LEMMA LeftToRelease ==
    ASSUME Counts, Amounts,
           Allocate \/ EnsureRead \/ Process \/ HandleAllocated \/ EndAllocated \/ CancelOrder
    PROVE  relay'.left \in Int
<1>1. relay.left \in Int
  BY DEF Counts, Handling
<1>2. CASE HandleAllocated
  <2>1. events # <<>> /\ events \in Seq(Rows)
    BY <1>2 DEF HandleAllocated, Amounts
  <2>2. events[1] \in Rows
    BY <2>1
  <2>3. events[1].waiting \in Int
    BY <2>2 DEF Rows
  <2>4. Waiting(groups) \in Nat
    BY TotalsType DEF Counts
  <2>5. relay'.left = Waiting(groups) - events[1].waiting
    BY <1>2 DEF HandleAllocated, ToRelease
  <2> QED BY <2>3, <2>4, <2>5
<1>3. CASE ~ HandleAllocated
  <2>1. relay' = relay \/ relay'.left = 0
    BY <1>3 DEF Allocate, EnsureRead, Process, EndAllocated, CancelOrder, reads
  <2> QED BY <1>1, <2>1
<1> QED BY <1>2, <1>3

LEMMA CountsStep == ASSUME NoneInTransit, Counts, Amounts, [Next]_vars PROVE Counts' /\ Amounts'
<1>1. CASE UNCHANGED vars
  BY <1>1 DEF vars, Counts, Amounts
<1>2. CASE Next
  <2>1. Amounts'
    BY <1>2, AmountsStep
  <2>2. ASSUME Allocate \/ EnsureRead \/ Process \/ HandleAllocated \/ EndAllocated \/ CancelOrder PROVE Counts'
    BY <2>2, LeftToRelease, PlainCounts
  <2>3. ASSUME NEW g \in DOMAIN groups,
               Ship(g) \/ Fulfil(g) \/ HoldGroup(g) \/ ReleaseGroup(g) \/ CancelRemainder(g)
        PROVE  Counts'
    BY <2>3, ShipCounts, HoldCounts, ReleaseCounts, CancelRemainderCounts
  <2>4. ASSUME NEW p \in DOMAIN parcels, MarkLost(p) \/ Deliver(p) PROVE Counts'
    BY <2>4, LossCounts, DeliverCounts
  <2>5. ASSUME EnsureWrite \/ SplitForAllocation \/ CancelAllForOrder \/ ReadShipped \/ OpenReturn PROVE Counts'
    BY <2>5, EnsureCounts, SplitCounts, CancelAllCounts, ReadShippedCounts, OpenReturnCounts
  <2>6. ASSUME NEW r \in DOMAIN returns,
               Decide(r) \/ CancelReturn(r) \/ ReceiveReturn(r) \/ ReceiveReplaced(r) \/ CloseReturn(r)
        PROVE  Counts'
    BY <2>6, ReturnActCounts, ReplacedCounts
  <2> QED BY <1>2, <2>1, <2>2, <2>3, <2>4, <2>5, <2>6 DEF Next
<1> QED BY <1>1, <1>2

LEMMA NothingSent ==
    /\ <<>> \in Parcels /\ <<>> \in Returns /\ SentIn(<<>>) = 0 /\ ReplacedIn(<<>>) = 0 /\ ReturnedIn(<<>>) = 0
    /\ Tracked(<<>>, <<>>)
<1>1. PICK e : e = <<>>
  OBVIOUS
<1>2. DOMAIN e = {} /\ e \in Parcels /\ e \in Returns
  BY <1>1 DEF Parcels, Returns
<1>3. IsFiniteSet(DOMAIN e) /\ SentTable(e) \in [DOMAIN e -> Nat]
  BY <1>2, ParcelTables
<1>4. ReplacedTable(e) \in [DOMAIN e -> Nat] /\ ReturnedTable(e) \in [DOMAIN e -> Nat]
  BY <1>2, ReturnTables
<1>5. Sum(SentTable(e)) = 0 /\ Sum(ReplacedTable(e)) = 0 /\ Sum(ReturnedTable(e)) = 0
  BY <1>2, <1>3, <1>4, SumZero
<1>6. Tracked(e, e)
  BY <1>2 DEF Tracked, Linking, Covering
<1> QED BY <1>1, <1>2, <1>5, <1>6, ParcelTotalsAre, ReturnTotalsAre

LEMMA CountsAtStart == ASSUME Init PROVE Counts /\ Amounts
<1>1. PICK owed \in Backorders, kind \in Kinds :
          /\ order = [status |-> "paid", kind |-> kind, owed |-> owed]
          /\ hold = [stock |-> Ordered - owed, owed |-> owed]
  BY DEF Init
<1>2. /\ groups = <<>> /\ parcels = <<>> /\ returns = <<>> /\ events = <<>> /\ asked = 0
      /\ relay = [busy |-> FALSE, left |-> 0, todo |-> {}]
  BY DEF Init
<1>3. Ordered \in Nat /\ owed \in Int
  <2>1. Ordered \in Nat \ {0}
    BY FulfilmentAssumption
  <2>2. Backorders \subseteq 0 .. Ordered
    BY FulfilmentAssumption
  <2> QED BY <2>1, <2>2
<1>4. order \in Orders
  BY <1>1 DEF Orders
<1>5. relay \in Handling /\ relay.todo = {}
  BY <1>2 DEF Handling
<1>6. hold \in [stock : Int, owed : Int]
  BY <1>1, <1>3
<1>7. events \in Seq(Rows)
  BY <1>2
<1>8. /\ groups \in Groups /\ parcels \in Parcels /\ Tracked(groups, parcels) /\ returns \in Returns
      /\ Shipped(groups) = 0 /\ ReplacedIn(returns) = 0 /\ SentIn(parcels) = 0 /\ ReturnedIn(returns) = 0
  BY <1>2, NoGroups, NothingSent
<1>9. asked \in 0 .. Ordered /\ ReturnedIn(returns) <= Ordered /\ Shipped(groups) + ReplacedIn(returns) = SentIn(parcels)
  BY <1>2, <1>3, <1>8
<1>10. (groups # <<>> => Real(groups) = Ordered) /\ \A todo \in relay.todo : todo[1] \in DOMAIN groups
  BY <1>2, <1>5
<1>11. ~ relay.busy
  BY <1>2
<1> QED BY <1>11, <1>4, <1>5, <1>6, <1>7, <1>8, <1>9, <1>10 DEF Counts, Amounts

-----------------------------------------------------------------------------
(* What the counts give. *)

LEMMA CountsAlways == ASSUME NoneInTransit PROVE Spec => [](Counts /\ Amounts)
<1>1. Init => Counts /\ Amounts
  BY CountsAtStart
<1>2. Counts /\ Amounts /\ [Next]_vars => (Counts /\ Amounts)'
  BY CountsStep
<1> QED BY <1>1, <1>2, PTL DEF Spec

LEMMA CountsGive == ASSUME Counts PROVE UnitsAccounted /\ ReturnedOnce
<1>1. /\ groups \in Groups /\ parcels \in Parcels /\ returns \in Returns
      /\ groups # <<>> => Real(groups) = Ordered
      /\ Shipped(groups) + ReplacedIn(returns) = SentIn(parcels) /\ ReturnedIn(returns) <= Ordered
  BY DEF Counts
<1>2. Units(groups, LAMBDA g : g.quantity - g.found) = Real(groups)
  BY DEF Real, RealOf, Units
<1>3. Replaced = ReplacedIn(returns) /\ Sent = SentIn(parcels)
  BY DEF Replaced, ReplacedIn, Sent, SentIn
<1>4. \A g \in DOMAIN groups : RemainingOf(groups[g]) >= 0
  BY <1>1 DEF Groups, Sound
<1>5. Shipped(groups) = Sent - Replaced
  <2>1. Shipped(groups) \in Nat /\ SentIn(parcels) \in Nat /\ ReplacedIn(returns) \in Nat
    BY <1>1, TotalsType, ParcelTotalsType, ReturnTotalsType
  <2> QED BY <1>1, <1>3, <2>1
<1>6. UnitsAccounted
  BY <1>1, <1>2, <1>4, <1>5 DEF UnitsAccounted
<1>7. ASSUME NEW r \in DOMAIN returns
      PROVE  (returns[r].status \notin {"declined", "canceled"} /\ returns[r].remedy \notin {"replace", "repair"})
                <=> HoldsReturnedGoods(returns[r])
  <2>1. returns[r] \in ReturnRecords
    BY <1>1 DEF Returns
  <2> QED BY <2>1 DEF ReturnRecords, HoldsReturnedGoods
<1>8. [r \in DOMAIN returns |-> IF returns[r].status \notin {"declined", "canceled"}
                                    /\ returns[r].remedy \notin {"replace", "repair"}
                                 THEN returns[r].quantity ELSE 0]
         = ReturnedTable(returns)
  BY <1>7 DEF ReturnedTable, ReturnedOf
<1>9. ReturnedOnce
  BY <1>1, <1>8, ReturnTotalsAre DEF ReturnedOnce, Units
<1> QED BY <1>6, <1>9

(* No unit is lost or made: through shipments, losses, parcels found, splits,   *)
(* cancels and replacements the fulfilment orders add up to what was bought,    *)
(* none ships or closes more than it has, and what they count as shipped is     *)
(* what the parcels hold and no return has replaced (domain/lost.ts,            *)
(* domain/reship.ts, services/split.ts).  Replacing what is still on its way    *)
(* is the one documented departure that breaks it.                              *)
THEOREM NoUnitLostOrMade ==
    ASSUME "replaced in transit" \notin Divergences PROVE Spec => []UnitsAccounted
<1>1. Counts /\ Amounts => UnitsAccounted
  BY CountsGive
<1>2. NoneInTransit
  BY DEF NoneInTransit
<1> QED BY <1>1, <1>2, CountsAlways, PTL

(* However stale the shipped units an opening read were, and however many were  *)
(* declined, cancelled, repaired or replaced since, the returns that keep their *)
(* goods never name more units than were bought (returns/services/create.ts).   *)
THEOREM NoUnitReturnedTwice ==
    ASSUME "replaced in transit" \notin Divergences PROVE Spec => []ReturnedOnce
<1>1. Counts /\ Amounts => ReturnedOnce
  BY CountsGive
<1>2. NoneInTransit
  BY DEF NoneInTransit
<1> QED BY <1>1, <1>2, CountsAlways, PTL

-----------------------------------------------------------------------------
(* The stock behind the fulfilment orders, when nothing departs from what is *)
(* documented.                                                               *)

NoDeparture == Divergences = {}
Untouched == order.status # "cancelled"

LEMMA Departures ==
    ASSUME NoDeparture
    PROVE  /\ NoneInTransit /\ (MayChangeOwed => ~ AllocationPending)
           /\ \A p : MayBeFound(p) => Min({OwedFor(p), hold.owed}) = OwnOwed(p)
BY DEF NoDeparture, NoneInTransit, MayChangeOwed, MayBeFound

LEMMA RowIs ==
    ASSUME events \in Events, NEW i \in DOMAIN events
    PROVE  events[i].waiting \in Nat /\ events[i].name \in {"cancelled", "allocated"}
<1>1. events[i] \in EventRecords
  BY DEF Events
<1> QED BY <1>1 DEF EventRecords

LEMMA AwaitedType ==
    ASSUME Counts
    PROVE  /\ Awaited \in Nat /\ Sending \in Nat /\ Awaited <= Sending /\ Ordered \in Nat
<1>1. Ordered \in Nat \ {0}
  BY FulfilmentAssumption
<1>2. Backorders \subseteq 0 .. Ordered
  BY FulfilmentAssumption
<1>3. order.owed \in Backorders
  BY DEF Counts, Orders
<1>4. order.owed \in 0 .. Ordered
  BY <1>2, <1>3
<1>5. CASE groups = <<>>
  BY <1>1, <1>4, <1>5 DEF Awaited, Sending
<1>6. CASE groups # <<>>
  <2>1. /\ Remaining(groups) \in Nat /\ Waiting(groups) \in Nat /\ Waiting(groups) <= Remaining(groups)
    BY TotalsType DEF Counts
  <2> QED BY <1>1, <1>6, <2>1 DEF Awaited, Sending
<1> QED BY <1>5, <1>6

(* What is owed is among what waits, and is all of it once no row is left. *)
LEMMA QueueMeans ==
    ASSUME Counts, Queue, events \in Events, hold \in Holdings
    PROVE  hold.owed <= Awaited /\ (~ AllocationPending => events = <<>> /\ Awaited = hold.owed)
<1>1. Awaited \in Nat /\ hold.owed \in Nat
  BY AwaitedType DEF Holdings
<1>2. CASE events = <<>>
  BY <1>1, <1>2 DEF Queue
<1>3. CASE events # <<>>
  <2>1. PICK n : n = Len(events)
    OBVIOUS
  <2>2. DOMAIN events = 1 .. n /\ n \in Nat /\ n # 0
    <3>1. events \in Seq(EventRecords)
      BY DEF Events
    <3> QED BY <1>3, <2>1, <3>1
  <2>3. 1 \in DOMAIN events /\ n \in DOMAIN events /\ 1 <= n
    BY <2>2
  <2>4. events[n].waiting <= events[1].waiting /\ events[n].waiting = hold.owed /\ Awaited >= events[1].waiting
    BY <1>3, <2>1, <2>3 DEF Queue
  <2>5. events[1].waiting \in Nat
    BY <2>3, RowIs
  <2>6. AllocationPending
    BY <2>3 DEF AllocationPending, Queue
  <2> QED BY <1>1, <2>4, <2>5, <2>6
<1> QED BY <1>2, <1>3

LEMMA SameQueuing ==
    ASSUME NEW gs, NEW hs, DOMAIN gs = DOMAIN hs,
           \A y \in DOMAIN gs : AwaitingStock(hs[y]) \/ AwaitingStock(gs[y]) => hs[y] = gs[y]
    PROVE  Queuing(hs) = Queuing(gs)
BY DEF Queuing

(* The rows or what waits move with what is owed. *)
LEMMA BackingMoves ==
    ASSUME Counts, Backing, Untouched' => groups # <<>> /\ groups' # <<>>, relay' = relay, hold' \in Holdings,
           events' = events \/ events' = Append(events, OrderCancelled),
           Untouched' => Untouched /\ events' = events,
           Untouched' => Remaining(groups') = hold'.stock + hold'.owed,
           Untouched' => \/ /\ hold'.owed = hold.owed /\ Waiting(groups') = Waiting(groups)
                            /\ Queuing(groups') = Queuing(groups)
                         \/ events = <<>> /\ Waiting(groups') = hold'.owed
    PROVE  Backing'
<1>1. events \in Events /\ (relay.busy => events # <<>> /\ events[1].name = "allocated")
  BY DEF Backing
<1>2. /\ events' \in Events /\ (events # <<>> => events' # <<>> /\ events'[1] = events[1])
  <2>1. OrderCancelled \in EventRecords
    BY DEF OrderCancelled, EventRecords
  <2>2. PICK e : e = OrderCancelled
    OBVIOUS
  <2>3. ASSUME events' = Append(events, e)
        PROVE  events' \in Events /\ (events # <<>> => events' # <<>> /\ events'[1] = events[1])
    <3>1. events \in Seq(EventRecords)
      BY <1>1 DEF Events
    <3>2. e \in EventRecords
      BY <2>1, <2>2
    <3>3. events' \in Seq(EventRecords)
      BY ONLY <2>3, <3>1, <3>2
    <3>4. events # <<>> => events' # <<>> /\ events'[1] = events[1]
      BY ONLY <2>3, <3>1, <3>2
    <3> QED BY <3>3, <3>4 DEF Events
  <2> QED BY <1>1, <2>2, <2>3
<1>3. relay'.busy => events' # <<>> /\ events'[1].name = "allocated"
  BY <1>1, <1>2
<1>4. ASSUME Untouched' PROVE Sending' = hold'.stock + hold'.owed /\ Queue' /\ Releasing'
  <2>1. /\ Queue /\ Releasing /\ Untouched /\ events' = events
        /\ Awaited = Waiting(groups) /\ Awaited' = Waiting(groups') /\ Sending' = Remaining(groups')
    BY <1>4 DEF Backing, Untouched, Awaited, Sending
  <2>2. Sending' = hold'.stock + hold'.owed
    BY <1>4, <2>1
  <2>3. CASE /\ hold'.owed = hold.owed /\ Waiting(groups') = Waiting(groups)
             /\ Queuing(groups') = Queuing(groups)
    BY <2>1, <2>2, <2>3 DEF Queue, Releasing
  <2>4. CASE events = <<>> /\ Waiting(groups') = hold'.owed
    <3>1. ~ relay'.busy
      BY <1>1, <2>4
    <3>2. DOMAIN events' = {} /\ events' = <<>>
      BY <2>1, <2>4
    <3> QED BY <2>1, <2>2, <2>4, <3>1, <3>2 DEF Queue, Releasing
  <2> QED BY <1>4, <2>3, <2>4
<1> QED BY <1>2, <1>3, <1>4 DEF Backing, Untouched

(* What is taken is owed first, and no more than the hold has. *)
Claims(h, stock, owed) ==
    \E claim \in Nat :
       /\ claim = (IF owed <= hold.owed THEN owed ELSE hold.owed)
       /\ h.owed = hold.owed - claim
       /\ stock + owed - claim <= hold.stock => h.stock = hold.stock - (stock + owed - claim)
LEMMA TakesFrom ==
    ASSUME hold \in Holdings, NEW stock \in Nat, NEW owed \in Nat,
           NEW h, h = TakenFromHold(stock, owed)
    PROVE  h \in Holdings /\ Claims(h, stock, owed)
<1>1. PICK a, b \in Nat : a = hold.stock /\ b = hold.owed
  BY DEF Holdings
<1>2. hold \in [stock : Int, owed : Int]
  BY DEF Holdings
<1>3. PICK claim, taken \in Int :
         /\ claim = (IF owed <= b THEN owed ELSE b)
         /\ taken = (IF stock + owed - claim <= a THEN stock + owed - claim ELSE a)
         /\ h = [stock |-> a - taken, owed |-> b - claim]
  BY <1>1, <1>2, TakenIs
<1>4. claim \in Nat /\ claim <= b /\ claim <= owed
  BY <1>3
<1>5. taken \in Nat /\ taken <= a
  BY <1>3, <1>4
<1>6. a - taken \in Nat /\ b - claim \in Nat
  BY <1>4, <1>5
<1>7. h \in Holdings /\ h.stock = a - taken /\ h.owed = b - claim
  BY <1>3, <1>6 DEF Holdings
<1> QED BY <1>1, <1>3, <1>4, <1>7 DEF Claims

(* Units shipped or closed that were set aside. *)
LEMMA TakesStock ==
    ASSUME hold \in Holdings, NEW n \in Nat, NEW h, h = TakenFromHold(n, 0)
    PROVE  /\ h \in Holdings /\ h.owed = hold.owed
           /\ n <= hold.stock => h.stock = hold.stock - n
<1>1. PICK a, b \in Nat : a = hold.stock /\ b = hold.owed
  BY DEF Holdings
<1>2. PICK z \in Nat : z = 0
  OBVIOUS
<1>3. h = TakenFromHold(n, z)
  BY <1>2
<1>6. h \in Holdings /\ Claims(h, n, z)
  BY ONLY hold \in Holdings, n \in Nat, <1>3, z \in Nat, TakesFrom
<1>7. PICK claim \in Nat :
         /\ claim = (IF z <= b THEN z ELSE b) /\ h.owed = b - claim
         /\ n + z - claim <= a => h.stock = a - (n + z - claim)
  BY <1>1, <1>6 DEF Claims
<1>4. claim = 0
  BY <1>2, <1>7
<1>5. h.owed = b /\ (n <= a => h.stock = a - n)
  BY <1>2, <1>4, <1>7
<1> QED BY <1>1, <1>5, <1>6

(* A cancelled order stays so, and only its own cancel is announced. *)
LEMMA SettlesKeep ==
    ASSUME order \in Orders, NEW status, NEW gs, NEW ps, Settles(status, gs, ps)
    PROVE  /\ events' = events \/ events' = Append(events, OrderCancelled)
           /\ Untouched' => status # "cancelled" /\ events' = events
<1>1. order'.status = SettleOrder(status, gs, ps)
  BY DEF Settles, Orders
<1>2. status = "cancelled" => SettleOrder(status, gs, ps) = "cancelled"
  BY DEF SettleOrder
<1>3. events' = IF SettleOrder(status, gs, ps) = "cancelled" /\ status # "cancelled"
                THEN Append(events, OrderCancelled) ELSE events
  BY DEF Settles
<1> QED BY <1>1, <1>2, <1>3 DEF Untouched

(* What was not waiting and does not wait now moves no queue. *)
LEMMA OneStill ==
    ASSUME Counts, NEW g \in DOMAIN groups, NEW h, Sound(h), groups' = Put(groups, g, h),
           ~ AwaitingStock(h), ~ AwaitingStock(groups[g])
    PROVE  /\ Remaining(groups') = Remaining(groups) - RemainingOf(groups[g]) + RemainingOf(h)
           /\ Waiting(groups') = Waiting(groups) /\ Queuing(groups') = Queuing(groups)
           /\ groups # <<>> /\ groups' # <<>>
<1>1. groups \in Groups /\ groups # <<>> /\ Sound(groups[g])
  BY GroupFacts
<1>2. /\ groups' \in Groups /\ DOMAIN groups' = DOMAIN groups
      /\ groups'[g] = h /\ KeepsBut(groups, groups', g)
      /\ Remaining(groups') - RemainingOf(h) = Remaining(groups) - RemainingOf(groups[g])
      /\ Waiting(groups') - WaitingOf(h) = Waiting(groups) - WaitingOf(groups[g])
  BY ONLY <1>1, g \in DOMAIN groups, Sound(h), groups' = Put(groups, g, h), GroupsChange
<1>3. WaitingOf(h) = 0 /\ WaitingOf(groups[g]) = 0
  BY DEF WaitingOf
<1>4. /\ Remaining(groups') \in Nat /\ Waiting(groups') \in Nat /\ Remaining(groups) \in Nat /\ Waiting(groups) \in Nat
      /\ RemainingOf(h) \in Nat /\ RemainingOf(groups[g]) \in Nat
  BY <1>1, <1>2, TotalsType, AmountsOf
<1>5. Waiting(groups') = Waiting(groups)
  BY <1>2, <1>3, <1>4
<1>6. Remaining(groups') = Remaining(groups) - RemainingOf(groups[g]) + RemainingOf(h)
  BY <1>2, <1>4
<1>7. Queuing(groups') = Queuing(groups)
  <2>1. ASSUME NEW y \in DOMAIN groups, AwaitingStock(groups'[y]) \/ AwaitingStock(groups[y])
        PROVE  groups'[y] = groups[y]
    BY <1>2, <2>1 DEF KeepsBut
  <2> QED BY <1>2, <2>1, SameQueuing
<1>8. groups' # <<>>
  BY <1>2
<1> QED BY <1>1, <1>5, <1>6, <1>7, <1>8

-----------------------------------------------------------------------------
(* The acts on a fulfilment order. *)

LEMMA BackingIs ==
    ASSUME Counts, Backing
    PROVE  /\ hold \in Holdings /\ hold.stock \in Nat /\ hold.owed \in Nat
           /\ groups \in Groups /\ Remaining(groups) \in Nat /\ Waiting(groups) \in Nat
           /\ Waiting(groups) <= Remaining(groups)
           /\ Untouched /\ groups # <<>> =>
                 Remaining(groups) = hold.stock + hold.owed /\ hold.owed <= Waiting(groups)
           /\ Untouched /\ groups # <<>> /\ ~ AllocationPending =>
                 events = <<>> /\ Waiting(groups) = hold.owed
<1>1. hold \in Holdings /\ events \in Events /\ groups \in Groups
  BY DEF Backing, Counts
<1>2. hold.stock \in Nat /\ hold.owed \in Nat
  BY <1>1 DEF Holdings
<1>3. /\ Remaining(groups) \in Nat /\ Waiting(groups) \in Nat /\ Waiting(groups) <= Remaining(groups)
  BY <1>1, TotalsType
<1>4. ASSUME Untouched, groups # <<>>
      PROVE  /\ Remaining(groups) = hold.stock + hold.owed /\ hold.owed <= Waiting(groups)
             /\ ~ AllocationPending => events = <<>> /\ Waiting(groups) = hold.owed
  <2>1. Sending = hold.stock + hold.owed /\ Queue
    BY <1>4 DEF Backing, Untouched
  <2>2. Sending = Remaining(groups) /\ Awaited = Waiting(groups)
    BY <1>4 DEF Sending, Awaited
  <2> QED BY <1>1, <2>1, <2>2, QueueMeans
<1> QED BY <1>1, <1>2, <1>3, <1>4

LEMMA HoldBacking ==
    ASSUME Counts, Backing, NEW g \in DOMAIN groups, HoldGroup(g) \/ ReleaseGroup(g)
    PROVE  Backing' /\ Remaining(groups') = Remaining(groups)
<1>1. /\ Sound(groups[g]) /\ Countable(groups[g])
  BY GroupFacts
<1>2. UNCHANGED <<order, parcels, hold, returns, events, ensuring, relay, asked>>
  BY DEF HoldGroup, ReleaseGroup, reads
<1>3. PICK h : /\ groups' = Put(groups, g, h) /\ Sound(h) /\ ~ AwaitingStock(h)
               /\ ~ AwaitingStock(groups[g]) /\ RemainingOf(h) = RemainingOf(groups[g])
  <2>1. CASE HoldGroup(g)
    <3>1. PICK k : k = [groups[g] EXCEPT !.reason = "by staff"]
      OBVIOUS
    <3>2. PICK h : h = Held(k)
      OBVIOUS
    <3>3. groups' = Put(groups, g, h)
      BY <2>1, <3>1, <3>2 DEF HoldGroup, Put
    <3>4. groups[g] \in GroupRecords
      BY <1>1 DEF Sound
    <3>5. k.reason = "by staff" /\ k \in GroupRecords
      BY <3>1, <3>4 DEF GroupRecords
    <3>6. /\ k.quantity = groups[g].quantity /\ k.shipped = groups[g].shipped
          /\ k.cancelled = groups[g].cancelled /\ k.found = groups[g].found
      BY <3>1, <3>4 DEF GroupRecords
    <3>7. RemainingOf(k) = RemainingOf(groups[g]) /\ Countable(k)
      BY <1>1, <3>5, <3>6 DEF Countable, RemainingOf
    <3>8. Workable(groups[g])
      BY <2>1 DEF HoldGroup
    <3>9. RemainingOf(groups[g]) > 0 /\ groups[g].status # "on_hold"
      BY <3>8 DEF Workable
    <3>10. Sound(h) /\ RemainingOf(h) = RemainingOf(k) /\ h.reason = k.reason
      BY <3>2, <3>5, <3>7, <3>9, HeldIs
    <3> QED BY <3>3, <3>5, <3>7, <3>9, <3>10 DEF AwaitingStock
  <2>2. CASE ReleaseGroup(g)
    <3>1. PICK h : h = Freed(groups[g])
      OBVIOUS
    <3>2. groups' = Put(groups, g, h) /\ ~ AwaitingStock(groups[g])
      BY <2>2, <3>1 DEF ReleaseGroup, Put
    <3>3. Sound(h) /\ RemainingOf(h) = RemainingOf(groups[g]) /\ h.reason = "none"
      BY <1>1, <3>1, FreedIs
    <3> QED BY <3>2, <3>3 DEF AwaitingStock
  <2> QED BY <2>1, <2>2
<1>4. /\ Remaining(groups') = Remaining(groups) - RemainingOf(groups[g]) + RemainingOf(h)
      /\ Waiting(groups') = Waiting(groups) /\ Queuing(groups') = Queuing(groups)
      /\ groups # <<>> /\ groups' # <<>>
  BY <1>3, OneStill
<1>5. RemainingOf(groups[g]) \in Nat /\ RemainingOf(h) = RemainingOf(groups[g])
  BY <1>1, <1>3, AmountsOf
<1>6. /\ hold \in Holdings /\ Remaining(groups) \in Nat
      /\ Untouched => Remaining(groups) = hold.stock + hold.owed
  BY <1>4, BackingIs
<1>7. Remaining(groups') = Remaining(groups)
  BY <1>4, <1>5, <1>6
<1>8. Untouched' => Untouched
  BY <1>2 DEF Untouched
<1> QED BY <1>2, <1>4, <1>6, <1>7, <1>8, BackingMoves

LEMMA ProcessBacking == ASSUME Counts, Backing, Process PROVE Backing'
<1>1. UNCHANGED <<groups, parcels, hold, returns, events, ensuring, relay, asked>> /\ groups # <<>>
  BY DEF Process, reads
<1>2. Untouched
  BY DEF Process, Untouched
<1>3. hold \in Holdings /\ Remaining(groups) = hold.stock + hold.owed
  BY <1>1, <1>2, BackingIs
<1> QED BY <1>1, <1>2, <1>3, BackingMoves

LEMMA CancelOrderBacking == ASSUME Counts, Backing, CancelOrder PROVE Backing'
<1>1. /\ groups' = groups /\ relay' = relay /\ order' = [order EXCEPT !.status = "cancelled"]
      /\ hold' = [stock |-> 0, owed |-> 0] /\ events' = Append(events, OrderCancelled)
  BY DEF CancelOrder, reads
<1>2. ~ Untouched'
  BY <1>1 DEF Untouched, Counts, Orders
<1>3. hold' \in Holdings
  BY <1>1 DEF Holdings
<1> QED BY <1>1, <1>2, <1>3, BackingMoves

(* An act takes units that do not wait out of what is set aside. *)
LEMMA StillTaken ==
    ASSUME Counts, Backing, NEW g \in DOMAIN groups, NEW h, Sound(h), groups' = Put(groups, g, h),
           ~ AwaitingStock(h), ~ AwaitingStock(groups[g]), NEW n \in Nat,
           RemainingOf(h) = RemainingOf(groups[g]) - n, hold' = TakenFromHold(n, 0), relay' = relay,
           events' = events \/ events' = Append(events, OrderCancelled),
           Untouched' => Untouched /\ events' = events
    PROVE  Backing' /\ (Untouched => Remaining(groups') = hold'.stock + hold'.owed)
<1>1. /\ Remaining(groups') = Remaining(groups) - RemainingOf(groups[g]) + RemainingOf(h)
      /\ Waiting(groups') = Waiting(groups) /\ Queuing(groups') = Queuing(groups)
      /\ groups # <<>> /\ groups' # <<>>
  BY OneStill
<1>2. groups \in Groups /\ RemainingOf(groups[g]) \in Nat
  BY GroupFacts
<1>3. groups' \in Groups
  BY ONLY <1>2, g \in DOMAIN groups, Sound(h), groups' = Put(groups, g, h), GroupsChange
<1>4. /\ Remaining(groups') \in Nat /\ Waiting(groups') \in Nat /\ Waiting(groups') <= Remaining(groups')
  BY <1>3, TotalsType
<1>5. /\ hold \in Holdings /\ hold.stock \in Nat /\ hold.owed \in Nat /\ Remaining(groups) \in Nat
      /\ Untouched => Remaining(groups) = hold.stock + hold.owed /\ hold.owed <= Waiting(groups)
  BY <1>1, BackingIs
<1>6. Remaining(groups') = Remaining(groups) - n
  BY <1>1, <1>2, <1>5
<1>7. hold' \in Holdings /\ hold'.owed = hold.owed /\ (n <= hold.stock => hold'.stock = hold.stock - n)
  BY ONLY <1>5, n \in Nat, hold' = TakenFromHold(n, 0), TakesStock
<1>8. Untouched => n <= hold.stock
  BY <1>1, <1>4, <1>5, <1>6
<1>9. Untouched => Remaining(groups') = hold'.stock + hold'.owed
  BY <1>5, <1>6, <1>7, <1>8
<1> QED BY <1>1, <1>7, <1>9, BackingMoves

LEMMA CutBacking ==
    ASSUME Counts, Backing, NEW g \in DOMAIN groups, NEW n \in Nat, n > 0, n <= RemainingOf(groups[g]),
           NEW status \in {"shipped", "delivered"}, CutShipment(g, n, status)
    PROVE  Backing'
<1>1. PICK h, p : /\ groups' = Put(groups, g, h)
                  /\ Settles(Started(order.status), groups', parcels')
                  /\ hold' = TakenFromHold(n, 0) /\ UNCHANGED <<returns, reads>>
                  /\ Sound(h) /\ RemainingOf(h) = RemainingOf(groups[g]) - n /\ h.reason = "none"
  BY CutShape
<1>2. ~ AwaitingStock(h)
  BY <1>1 DEF AwaitingStock
<1>3. Workable(groups[g]) /\ Untouched
  BY DEF CutShipment, AwaitingGoods, Untouched
<1>4. ~ AwaitingStock(groups[g])
  BY <1>3 DEF AwaitingStock, Workable
<1>5. order \in Orders
  BY DEF Counts
<1>6. /\ events' = events \/ events' = Append(events, OrderCancelled)
      /\ Untouched' => events' = events
  BY <1>1, <1>5, SettlesKeep
<1>7. relay' = relay
  BY <1>1 DEF reads
<1> QED BY <1>1, <1>2, <1>3, <1>4, <1>6, <1>7, StillTaken

LEMMA ShipBacking ==
    ASSUME Counts, Backing, NEW g \in DOMAIN groups, Ship(g) \/ Fulfil(g) PROVE Backing'
<1>1. RemainingOf(groups[g]) \in Nat
  BY GroupFacts
<1>2. CASE Ship(g)
  <2>1. PICK n \in 1 .. RemainingOf(groups[g]) : CutShipment(g, n, "shipped")
    BY <1>2 DEF Ship
  <2>2. n \in Nat /\ n > 0 /\ n <= RemainingOf(groups[g])
    BY <1>1, <2>1
  <2> QED BY <2>1, <2>2, CutBacking
<1>3. CASE Fulfil(g)
  <2>1. PICK n : n = RemainingOf(groups[g])
    OBVIOUS
  <2>2. CutShipment(g, n, "delivered") /\ Workable(groups[g])
    BY <1>3, <2>1 DEF Fulfil, CutShipment
  <2>3. n > 0 /\ n \in Nat /\ n <= RemainingOf(groups[g])
    BY <1>1, <2>1, <2>2 DEF Workable
  <2> QED BY <2>2, <2>3, CutBacking
<1> QED BY <1>2, <1>3

LEMMA CancelRemainderBacking ==
    ASSUME NoDeparture, Counts, Backing, NEW g \in DOMAIN groups, CancelRemainder(g)
    PROVE  Backing' /\ Remaining(groups') = hold'.stock + hold'.owed
<1>1. PICK h, n : h = WithRemainderCancelled(groups[g]) /\ n = RemainingOf(groups[g])
  OBVIOUS
<1>2. /\ groups' = Put(groups, g, h) /\ relay' = relay /\ Untouched
      /\ Settles(order.status, groups', parcels)
      /\ AwaitingStock(groups[g]) => MayChangeOwed /\ hold' = TakenFromHold(0, n)
      /\ ~ AwaitingStock(groups[g]) => hold' = TakenFromHold(n, 0)
  BY <1>1 DEF CancelRemainder, Put, Reportable, Untouched, reads
<1>3. Sound(groups[g]) /\ groups \in Groups /\ groups # <<>> /\ n \in Nat
  BY <1>1, GroupFacts
<1>4. Sound(h) /\ RemainingOf(h) = 0 /\ WaitingOf(h) = 0 /\ h.reason = "none"
  BY <1>1, <1>3, WithRemainderCancelledIs
<1>5. ~ AwaitingStock(h)
  BY <1>4 DEF AwaitingStock
<1>6. order \in Orders
  BY DEF Counts
<1>7. /\ events' = events \/ events' = Append(events, OrderCancelled)
      /\ Untouched' => Untouched /\ events' = events
  BY <1>2, <1>6, SettlesKeep
<1>8. CASE ~ AwaitingStock(groups[g])
  <2>1. RemainingOf(h) = RemainingOf(groups[g]) - n
    BY <1>1, <1>3, <1>4
  <2> QED BY <1>2, <1>3, <1>4, <1>5, <1>7, <1>8, <2>1, StillTaken
<1>9. CASE AwaitingStock(groups[g])
  <2>1. /\ groups' \in Groups /\ DOMAIN groups' = DOMAIN groups
        /\ Remaining(groups') - RemainingOf(h) = Remaining(groups) - RemainingOf(groups[g])
        /\ Waiting(groups') - WaitingOf(h) = Waiting(groups) - WaitingOf(groups[g])
    BY ONLY <1>2, <1>3, <1>4, g \in DOMAIN groups, GroupsChange
  <2>2. WaitingOf(groups[g]) = n
    BY <1>1, <1>9 DEF WaitingOf
  <2>3. /\ Remaining(groups') \in Nat /\ Waiting(groups') \in Nat
    BY <2>1, TotalsType
  <2>4. ~ AllocationPending
    BY <1>2, <1>9, Departures
  <2>5. /\ hold \in Holdings /\ hold.stock \in Nat /\ hold.owed \in Nat
        /\ Remaining(groups) \in Nat /\ Waiting(groups) \in Nat
        /\ Remaining(groups) = hold.stock + hold.owed /\ events = <<>> /\ Waiting(groups) = hold.owed
    BY <1>2, <1>3, <2>4, BackingIs
  <2>6. Remaining(groups') = Remaining(groups) - n
    BY <1>1, <1>3, <1>4, <2>1, <2>3, <2>5
  <2>7. Waiting(groups') = Waiting(groups) - n
    BY <1>3, <1>4, <2>1, <2>2, <2>3, <2>5
  <2>8. n <= hold.owed
    BY <1>3, <2>3, <2>5, <2>7
  <2>9. PICK z \in Nat : z = 0
    OBVIOUS
  <2>10. hold' = TakenFromHold(z, n)
    BY <1>2, <1>9, <2>9
  <2>11. hold' \in Holdings /\ Claims(hold', z, n)
    BY ONLY <2>5, <2>9, <2>10, <1>3, TakesFrom
  <2>12. PICK claim \in Nat :
            /\ claim = (IF n <= hold.owed THEN n ELSE hold.owed) /\ hold'.owed = hold.owed - claim
            /\ z + n - claim <= hold.stock => hold'.stock = hold.stock - (z + n - claim)
    BY <2>11 DEF Claims
  <2>13. claim = n
    BY <2>8, <2>12
  <2>14. hold'.owed = hold.owed - n /\ hold'.stock = hold.stock
    BY <1>3, <2>5, <2>9, <2>12, <2>13
  <2>15. Remaining(groups') = hold'.stock + hold'.owed
    BY <1>3, <2>5, <2>6, <2>14
  <2>16. Waiting(groups') = hold'.owed
    BY <2>5, <2>7, <2>14
  <2>17. groups' # <<>>
    BY <1>3, <2>1
  <2> QED BY <1>2, <1>3, <1>7, <2>5, <2>11, <2>15, <2>16, <2>17, BackingMoves
<1> QED BY <1>8, <1>9

(* Units come back to be sent again, some of them owed by the shelf. *)
LEMMA MoreOwed ==
    ASSUME NoDeparture, Counts, Backing, Untouched, groups # <<>>, groups' \in Groups,
           NEW n \in Nat, NEW owed \in Nat, owed <= n, OwedFits(owed),
           hold' = [stock |-> hold.stock + n - owed, owed |-> hold.owed + owed],
           Remaining(groups') = Remaining(groups) + n, Waiting(groups') = Waiting(groups) + owed,
           Len(groups') = IF owed = 0 THEN Len(groups) ELSE Len(groups) + 1,
           \A y \in DOMAIN groups : AwaitingStock(groups'[y]) \/ AwaitingStock(groups[y]) => groups'[y] = groups[y],
           relay' = relay, events' = events
    PROVE  Backing'
<1>1. /\ hold \in Holdings /\ hold.stock \in Nat /\ hold.owed \in Nat /\ groups \in Groups
      /\ Remaining(groups) \in Nat /\ Waiting(groups) \in Nat
      /\ Remaining(groups) = hold.stock + hold.owed
      /\ ~ AllocationPending => events = <<>> /\ Waiting(groups) = hold.owed
  BY BackingIs
<1>2. hold.stock + n - owed \in Nat /\ hold.owed + owed \in Nat
  BY ONLY <1>1, n \in Nat, owed \in Nat, owed <= n
<1>3. hold' \in Holdings /\ hold'.stock = hold.stock + n - owed /\ hold'.owed = hold.owed + owed
  BY <1>2 DEF Holdings
<1>4. Remaining(groups') = hold'.stock + hold'.owed
  BY <1>1, <1>3
<1>5. /\ DOMAIN groups = 1 .. Len(groups) /\ Len(groups) \in Nat
      /\ DOMAIN groups' = 1 .. Len(groups') /\ Len(groups') \in Nat
  <2>1. groups \in Seq(GroupRecords) /\ groups' \in Seq(GroupRecords)
    BY <1>1 DEF Groups
  <2> QED BY <2>1, Listed
<1>6. groups' # <<>>
  <2>1. Len(groups) # 0
    BY <1>1, <1>5 DEF Groups
  <2>2. Len(groups') # 0
    BY <1>5, <2>1
  <2> QED BY <2>2
<1>7. \/ hold'.owed = hold.owed /\ Waiting(groups') = Waiting(groups) /\ Queuing(groups') = Queuing(groups)
      \/ events = <<>> /\ Waiting(groups') = hold'.owed
  <2>1. CASE owed = 0
    <3>1. DOMAIN groups' = DOMAIN groups
      BY <1>5, <2>1
    <3>2. Queuing(groups') = Queuing(groups)
      BY <3>1, SameQueuing
    <3> QED BY <1>1, <1>3, <2>1, <3>2
  <2>2. CASE owed # 0
    <3>1. ~ AllocationPending
      BY <2>2, Departures DEF OwedFits
    <3> QED BY <1>1, <1>3, <3>1
  <2> QED BY <2>1, <2>2
<1> QED BY <1>3, <1>4, <1>6, <1>7, BackingMoves

LEMMA LossBacking ==
    ASSUME NoDeparture, Counts, Backing, NEW p \in DOMAIN parcels, MarkLost(p) PROVE Backing'
<1>1. parcels[p].quantity \in Nat /\ parcels[p].group \in DOMAIN groups
  <2>1. parcels \in Parcels /\ groups \in Groups /\ Tracked(groups, parcels) /\ parcels[p].status = "shipped"
    BY DEF Counts, MarkLost
  <2> QED BY <2>1, ParcelCovered
<1>2. PICK owed \in 0 .. parcels[p].quantity :
         /\ OwedFits(owed) /\ hold' = [stock |-> hold.stock + parcels[p].quantity - owed, owed |-> hold.owed + owed]
         /\ groups' \in Groups
         /\ Remaining(groups') = Remaining(groups) + parcels[p].quantity
         /\ Waiting(groups') = Waiting(groups) + owed
         /\ Len(groups') = IF owed = 0 THEN Len(groups) ELSE Len(groups) + 1
         /\ \A y \in DOMAIN groups : AwaitingStock(groups'[y]) \/ AwaitingStock(groups[y]) => groups'[y] = groups[y]
  BY LossShape
<1>3. owed \in Nat /\ owed <= parcels[p].quantity
  BY <1>1, <1>2
<1>4. relay' = relay /\ events' = events
  BY DEF MarkLost, reads
<1>5. Untouched
  BY DEF MarkLost, CanRecordArrival, Untouched
<1>6. groups # <<>>
  BY <1>1
<1> QED BY <1>1, <1>2, <1>3, <1>4, <1>5, <1>6, MoreOwed

LEMMA ReplacedBacking ==
    ASSUME NoDeparture, Counts, Backing, NEW r \in DOMAIN returns, ReceiveReplaced(r) PROVE Backing'
<1>1. NoneInTransit
  BY Departures
<1>2. PICK owed \in Nat :
         /\ owed <= returns[r].quantity /\ OwedFits(owed) /\ groups # <<>>
         /\ hold' = [stock |-> hold.stock + returns[r].quantity - owed, owed |-> hold.owed + owed]
         /\ groups' \in Groups
         /\ Remaining(groups') = Remaining(groups) + returns[r].quantity
         /\ Waiting(groups') = Waiting(groups) + owed
         /\ returns[r].quantity \in Nat \ {0}
         /\ Len(groups') = IF owed = 0 THEN Len(groups) ELSE Len(groups) + 1
         /\ \A y \in DOMAIN groups : AwaitingStock(groups'[y]) \/ AwaitingStock(groups[y]) => groups'[y] = groups[y]
  BY <1>1, ReplacedShape
<1>3. relay' = relay /\ events' = events
  BY DEF ReceiveReplaced, reads
<1>4. Untouched
  BY DEF ReceiveReplaced, Untouched
<1>5. returns[r].quantity \in Nat
  BY <1>2
<1> QED BY <1>2, <1>3, <1>4, <1>5, MoreOwed

(* Where nothing was owed for a parcel, nothing waits for it. *)
LEMMA NothingDue ==
    ASSUME Counts, NEW p, Restorable(p), OwedFor(p) = 0, NEW hs, DOMAIN hs = DOMAIN groups,
           WaitsUnlessDue(groups, hs, p)
    PROVE  OwnOwed(p) = 0 /\ Queuing(hs) = Queuing(groups)
<1>1. /\ IsFiniteSet(DOMAIN groups) /\ groups \in Groups
      /\ Due(p) \in [DOMAIN groups -> Nat] /\ DueOwed(p) \in [DOMAIN groups -> Nat]
      /\ Sum(Due(p)) = 0 /\ OwnOwed(p) = Sum(DueOwed(p))
  BY DueType
<1>2. ASSUME NEW g \in DOMAIN groups, groups[g].source = p
      PROVE  WaitingOf(groups[g]) = 0 /\ ~ AwaitingStock(groups[g])
  <2>1. Due(p)[g] <= Sum(Due(p)) /\ Due(p)[g] \in Nat
    BY ONLY <1>1, <1>2, EntryInSum
  <2>2. Due(p)[g] = groups[g].quantity
    BY <1>2 DEF Due
  <2>3. RemainingOf(groups[g]) = 0 /\ groups[g].quantity = 0 /\ Sound(groups[g])
    BY <1>1, <1>2, <2>1, <2>2, StillDue
  <2>4. PICK held \in BOOLEAN : held = (groups[g].status = "on_hold")
    OBVIOUS
  <2>5. groups[g].status = StatusOfLines(groups[g], held) /\ groups[g] \in GroupRecords
    BY <2>3, <2>4 DEF Sound
  <2>6. StatusOfLines(groups[g], held) # "on_hold"
    BY <2>3, <2>5, StatusGiven
  <2> QED BY <2>5, <2>6 DEF AwaitingStock, WaitingOf
<1>3. \A g \in DOMAIN groups : DueOwed(p)[g] = 0
  BY <1>2 DEF DueOwed
<1>4. OwnOwed(p) = 0
  BY ONLY <1>1, <1>3, SumZero
<1>5. ASSUME NEW y \in DOMAIN groups, AwaitingStock(hs[y]) \/ AwaitingStock(groups[y])
      PROVE  hs[y] = groups[y]
  BY <1>2, <1>5 DEF WaitsUnlessDue
<1> QED BY <1>4, <1>5, SameQueuing

LEMMA DeliverBacking ==
    ASSUME NoDeparture, Counts, Backing, NEW p \in DOMAIN parcels, Deliver(p) PROVE Backing'
<1>1. /\ order \in Orders /\ groups \in Groups /\ parcels \in Parcels /\ Tracked(groups, parcels)
  BY DEF Counts
<1>2. relay' = relay /\ Untouched /\ Settles(order.status, groups', parcels')
  BY DEF Deliver, CanRecordArrival, Untouched, reads
<1>3. /\ events' = events \/ events' = Append(events, OrderCancelled)
      /\ Untouched' => events' = events
  BY <1>1, <1>2, SettlesKeep
<1>4. PICK q : q = parcels[p].quantity
  OBVIOUS
<1>5. q \in Nat /\ groups # <<>>
  <2>1. parcels[p] \in ParcelRecords /\ parcels[p].group \in DOMAIN groups
    BY <1>1 DEF Parcels, Tracked, Linking
  <2> QED BY <1>4, <2>1 DEF ParcelRecords
<1>6. /\ hold \in Holdings /\ hold.stock \in Nat /\ hold.owed \in Nat
      /\ Remaining(groups) \in Nat /\ Waiting(groups) \in Nat
      /\ Remaining(groups) = hold.stock + hold.owed
      /\ ~ AllocationPending => events = <<>> /\ Waiting(groups) = hold.owed
      /\ hold.owed <= Waiting(groups)
  BY <1>2, <1>5, BackingIs
<1>7. /\ groups' \in Groups /\ DOMAIN groups' = DOMAIN groups
      /\ \/ parcels[p].status = "shipped" /\ groups' = groups
         \/ /\ parcels[p].status = "lost" /\ Restorable(p)
            /\ Remaining(groups') = Remaining(groups) - q
            /\ Waiting(groups') = Waiting(groups) - OwnOwed(p)
            /\ WaitsUnlessDue(groups, groups', p)
  BY <1>4, DeliverShape
<1>8. groups' # <<>>
  BY <1>5, <1>7
<1>9. CASE parcels[p].status = "shipped"
  <2>1. hold' = hold /\ groups' = groups
    BY <1>7, <1>9 DEF Deliver
  <2> QED BY <1>2, <1>3, <1>5, <1>6, <2>1, BackingMoves
<1>10. CASE parcels[p].status = "lost"
  <2>1. PICK t, w : t = OwedFor(p) /\ w = OwnOwed(p)
    OBVIOUS
  <2>2. t \in Nat /\ w \in Nat
    BY <2>1, DueType
  <2>3. /\ Restorable(p) /\ t <= q /\ hold' = TakenFromHold(q - t, t)
        /\ t > 0 => MayChangeOwed /\ MayBeFound(p)
    BY <1>4, <1>10, <2>1 DEF Deliver, ReleaseTopUp, Restorable
  <2>4. /\ Remaining(groups') = Remaining(groups) - q /\ Waiting(groups') = Waiting(groups) - w
        /\ WaitsUnlessDue(groups, groups', p)
    BY <1>7, <1>10, <2>1
  <2>5. Remaining(groups') \in Nat /\ Waiting(groups') \in Nat /\ Waiting(groups') <= Remaining(groups')
    BY <1>7, TotalsType
  <2>6. PICK s \in Nat : s = q - t
    BY <1>5, <2>2, <2>3
  <2>7. hold' = TakenFromHold(s, t)
    BY <2>3, <2>6
  <2>8. hold' \in Holdings /\ Claims(hold', s, t)
    BY ONLY <1>6, <2>2, <2>6, <2>7, TakesFrom
  <2>9. PICK claim \in Nat :
           /\ claim = (IF t <= hold.owed THEN t ELSE hold.owed) /\ hold'.owed = hold.owed - claim
           /\ s + t - claim <= hold.stock => hold'.stock = hold.stock - (s + t - claim)
    BY <2>8 DEF Claims
  <2>10. claim = w /\ \/ /\ t = 0 /\ w = 0 /\ Queuing(groups') = Queuing(groups)
                      \/ events = <<>> /\ Waiting(groups) = hold.owed
    <3>1. CASE t = 0
      <4>1. w = 0 /\ Queuing(groups') = Queuing(groups)
        BY <1>7, <2>1, <2>3, <2>4, <3>1, NothingDue
      <4>2. claim = 0
        BY <1>6, <2>9, <3>1
      <4> QED BY <3>1, <4>1, <4>2
    <3>2. CASE t # 0
      <4>1. MayChangeOwed /\ MayBeFound(p)
        BY <2>2, <2>3, <3>2
      <4>2. Min({t, hold.owed}) = w /\ ~ AllocationPending
        BY <2>1, <4>1, Departures
      <4>3. Min({t, hold.owed}) = IF t <= hold.owed THEN t ELSE hold.owed
        <5>1. t \in Int /\ hold.owed \in Int
          BY <1>6, <2>2
        <5> QED BY ONLY <5>1, MinOfTwo
      <4>4. claim = w
        BY <2>9, <4>2, <4>3
      <4>5. events = <<>> /\ Waiting(groups) = hold.owed
        BY <1>6, <4>2
      <4> QED BY <4>4, <4>5
    <3> QED BY <3>1, <3>2
  <2>11. w <= hold.owed
    BY <1>6, <2>2, <2>9, <2>10
  <2>12. s + t - w = q - w
    BY <1>5, <2>2, <2>6
  <2>13. q - w <= hold.stock
    <3>1. CASE w = 0
      BY <1>5, <1>6, <2>4, <2>5, <3>1
    <3>2. CASE w # 0
      <4>1. Waiting(groups) = hold.owed
        BY <2>10, <3>2
      <4> QED BY <1>5, <1>6, <2>2, <2>4, <2>5, <4>1
    <3> QED BY <3>1, <3>2
  <2>14. hold'.owed = hold.owed - w /\ hold'.stock = hold.stock - (q - w)
    BY <2>9, <2>10, <2>12, <2>13
  <2>15. Remaining(groups') = hold'.stock + hold'.owed
    BY <1>5, <1>6, <2>2, <2>4, <2>14
  <2>16. \/ /\ hold'.owed = hold.owed /\ Waiting(groups') = Waiting(groups)
            /\ Queuing(groups') = Queuing(groups)
         \/ events = <<>> /\ Waiting(groups') = hold'.owed
    BY <1>6, <2>4, <2>10, <2>14
  <2> QED BY <1>2, <1>3, <1>5, <1>8, <2>8, <2>15, <2>16, BackingMoves
<1> QED BY <1>7, <1>9, <1>10

-----------------------------------------------------------------------------
(* The outbox rows and what is released for them. *)

LEMMA RowAdded ==
    ASSUME NEW es \in Events, NEW e \in EventRecords, NEW fs, fs = Append(es, e)
    PROVE  /\ fs \in Events /\ Len(es) \in Nat /\ Len(fs) = Len(es) + 1
           /\ DOMAIN es = 1 .. Len(es) /\ DOMAIN fs = 1 .. (Len(es) + 1)
           /\ fs[Len(es) + 1] = e /\ Keeps(es, fs)
<1>1. es \in Seq(EventRecords)
  BY DEF Events
<1>2. fs \in Seq(EventRecords) /\ Len(fs) = Len(es) + 1 /\ Len(es) \in Nat
  BY <1>1
<1> QED BY <1>1, <1>2 DEF Events, Keeps

LEMMA FirstRow ==
    ASSUME events \in Events, events # <<>>
    PROVE  /\ Len(events) \in Nat /\ Len(events) >= 1 /\ DOMAIN events = 1 .. Len(events)
           /\ 1 \in DOMAIN events /\ Len(events) \in DOMAIN events
<1>1. events \in Seq(EventRecords)
  BY DEF Events
<1>2. Len(events) \in Nat /\ Len(events) # 0 /\ DOMAIN events = 1 .. Len(events)
  BY <1>1
<1> QED BY <1>2

LEMMA AllocateBacking == ASSUME Counts, Backing, Allocate PROVE Backing'
<1>1. hold \in Holdings /\ events \in Events
  BY DEF Backing
<1>2. PICK n \in 1 .. hold.owed : /\ hold' = [stock |-> hold.stock + n, owed |-> hold.owed - n]
                                  /\ events' = Append(events, PreorderAllocated(hold.owed - n))
  BY DEF Allocate
<1>3. PICK a, b \in Nat : a = hold.stock /\ b = hold.owed
  BY <1>1 DEF Holdings
<1>4. n \in Nat /\ n <= b /\ b - n \in Nat /\ a + n \in Nat
  BY <1>2, <1>3
<1>5. PICK m \in Nat : m = b - n
  BY <1>4
<1>6. hold' \in Holdings /\ hold'.stock = a + n /\ hold'.owed = m
  BY <1>2, <1>3, <1>4, <1>5 DEF Holdings
<1>7. PICK e : e = PreorderAllocated(m)
  OBVIOUS
<1>8. e \in EventRecords /\ e.name = "allocated" /\ e.waiting = m
  BY <1>7 DEF PreorderAllocated, EventRecords
<1>9. events' = Append(events, e)
  BY <1>2, <1>3, <1>5, <1>7
<1>10. PICK k : k = Len(events)
  OBVIOUS
<1>11. /\ events' \in Events /\ k \in Nat /\ Len(events') = k + 1
       /\ DOMAIN events = 1 .. k /\ DOMAIN events' = 1 .. (k + 1)
       /\ events'[k + 1] = e /\ \A i \in 1 .. k : events'[i] = events[i]
  <2>1. PICK fs : fs = Append(events, e)
    OBVIOUS
  <2>2. /\ fs \in Events /\ Len(events) \in Nat /\ Len(fs) = Len(events) + 1
        /\ DOMAIN events = 1 .. Len(events) /\ DOMAIN fs = 1 .. (Len(events) + 1)
        /\ fs[Len(events) + 1] = e /\ Keeps(events, fs)
    BY ONLY <1>1, <1>8, <2>1, RowAdded
  <2> QED BY <1>9, <1>10, <2>1, <2>2 DEF Keeps
<1>12. UNCHANGED <<order, groups, relay>>
  BY DEF Allocate, reads
<1>13. events # <<>> => k # 0
  BY <1>1, <1>10, FirstRow
<1>14. events = <<>> => k = 0
  BY <1>10
<1>15. events' # <<>> /\ (events # <<>> => events'[1] = events[1])
  <2>1. k # 0 => events'[1] = events[1]
    BY <1>11
  <2> QED BY <1>11, <1>13, <2>1
<1>16. ASSUME Untouched PROVE Sending' = hold'.stock + hold'.owed /\ Queue' /\ Releasing'
  <2>1. Sending = a + b /\ Queue /\ Releasing
    BY <1>3, <1>16 DEF Backing, Untouched
  <2>2. Sending' = Sending /\ Awaited' = Awaited
    BY <1>12 DEF Sending, Awaited
  <2>3. Sending' = hold'.stock + hold'.owed
    <3>1. Sending' = (a + n) + m
      BY ONLY <1>3, <1>4, <1>5, <2>1, <2>2
    <3> QED BY <1>6, <3>1
  <2>4. ASSUME NEW i \in DOMAIN events' PROVE events'[i].name = "allocated"
    <3>1. CASE i \in 1 .. k
      BY <1>11, <2>1, <3>1 DEF Queue
    <3>2. CASE i = k + 1
      BY <1>8, <1>11, <3>2
    <3> QED BY <1>11, <3>1, <3>2
  <2>5. ASSUME NEW i \in 1 .. k PROVE events[i].waiting \in Nat /\ m <= events[i].waiting
    <3>1. k \in DOMAIN events /\ i \in DOMAIN events /\ i <= k /\ events # <<>>
      BY <1>11
    <3>2. events[k].waiting <= events[i].waiting /\ events[k].waiting = b
      BY <1>3, <1>10, <2>1, <3>1 DEF Queue
    <3>3. events[i].waiting \in Nat
      BY <1>1, <3>1, RowIs
    <3> QED BY <1>3, <1>4, <1>5, <3>2, <3>3
  <2>6. ASSUME NEW i \in DOMAIN events', NEW j \in DOMAIN events', i <= j
        PROVE  events'[j].waiting <= events'[i].waiting
    <3>1. CASE j \in 1 .. k
      <4>1. i \in 1 .. k
        BY <1>11, <2>6, <3>1
      <4>2. i \in DOMAIN events /\ j \in DOMAIN events /\ events'[i] = events[i] /\ events'[j] = events[j]
        BY <1>11, <3>1, <4>1
      <4> QED BY <2>1, <2>6, <4>2 DEF Queue
    <3>2. CASE j = k + 1 /\ i \in 1 .. k
      BY <1>8, <1>11, <2>5, <3>2
    <3>3. CASE j = k + 1 /\ i = k + 1
      BY <1>8, <1>11, <3>3
    <3> QED BY <1>11, <2>6, <3>1, <3>2, <3>3
  <2>7. events'[Len(events')].waiting = hold'.owed
    BY <1>6, <1>8, <1>11
  <2>8. Awaited' >= events'[1].waiting
    <3>1. CASE events = <<>>
      <4>1. Awaited = b /\ events'[1] = e
        BY <1>3, <1>11, <1>14, <2>1, <3>1 DEF Queue
      <4> QED BY <1>3, <1>4, <1>5, <1>8, <2>2, <4>1
    <3>2. CASE events # <<>>
      BY <1>15, <2>1, <2>2, <3>2 DEF Queue
    <3> QED BY <3>1, <3>2
  <2>9. Queue'
    BY <1>15, <2>4, <2>6, <2>7, <2>8 DEF Queue
  <2>10. Releasing'
    <3>1. relay.busy => events # <<>>
      BY DEF Backing
    <3>2. Queuing(groups)' = Queuing(groups)
      BY <1>12 DEF Queuing
    <3> QED BY <1>12, <1>15, <2>1, <2>2, <3>1, <3>2 DEF Releasing
  <2> QED BY <2>3, <2>9, <2>10
<1>17. relay'.busy => events' # <<>> /\ events'[1].name = "allocated"
  BY <1>12, <1>15 DEF Backing
<1>18. groups' = <<>> /\ order'.status # "cancelled" => order'.status = "paid" /\ ~ relay'.busy
  BY <1>12 DEF Backing
<1> QED BY <1>6, <1>11, <1>12, <1>16, <1>17, <1>18 DEF Backing, Untouched

LEMMA EnsureBacking == ASSUME Counts, Backing, EnsureWrite PROVE Backing'
<1>1. UNCHANGED <<order, hold, events, relay>>
  BY DEF EnsureWrite
<1>2. CASE groups' = groups
  BY <1>1, <1>2 DEF Backing, Sending, Awaited, Queue, Releasing, Queuing
<1>3. CASE groups' # groups
  <2>1. groups = <<>> /\ Untouched /\ groups' = GroupOrderLines
    BY <1>3 DEF EnsureWrite, Reportable, Untouched
  <2>2. groups' # <<>> /\ Remaining(groups') = Ordered /\ Waiting(groups') = order.owed
    BY <2>1, OrderLines
  <2>3. Sending' = Sending /\ Awaited' = Awaited
    BY <1>1, <2>1, <2>2 DEF Sending, Awaited
  <2>4. ~ relay.busy /\ Sending = hold.stock + hold.owed /\ Queue
    BY <2>1 DEF Backing, Untouched
  <2>5. Queue' /\ Releasing'
    BY <1>1, <2>3, <2>4 DEF Queue, Releasing
  <2> QED BY <1>1, <2>2, <2>3, <2>4, <2>5 DEF Backing
<1> QED BY <1>2, <1>3

LEMMA HandleBacking == ASSUME Counts, Backing, HandleAllocated PROVE Backing'
<1>1. /\ ~ relay.busy /\ events # <<>> /\ events[1].name = "allocated"
      /\ AwaitingGoods => groups # <<>>
      /\ UNCHANGED <<order, groups, hold, events>>
      /\ relay' = [busy |-> TRUE, left |-> ToRelease(events[1].waiting), todo |-> Queuing(groups)]
  BY DEF HandleAllocated, Queuing
<1>2. ASSUME Untouched PROVE groups # <<>> /\ Sending' = hold'.stock + hold'.owed /\ Queue' /\ Releasing'
  <2>1. groups # <<>>
    BY <1>1, <1>2 DEF Backing, Untouched, AwaitingGoods
  <2>2. Sending = hold.stock + hold.owed /\ Queue
    BY <1>2 DEF Backing, Untouched
  <2>3. Sending' = hold'.stock + hold'.owed /\ Queue' /\ Awaited' = Awaited /\ Queuing(groups') = Queuing(groups)
    BY <1>1, <2>2 DEF Sending, Queue, Awaited
  <2>4. Awaited = Waiting(groups) /\ Awaited \in Nat
    BY <2>1, AwaitedType DEF Awaited
  <2>5. events[1].waiting \in Nat
    <3>1. events \in Events
      BY DEF Backing
    <3> QED BY <1>1, <3>1, FirstRow, RowIs
  <2>6. relay'.left = Awaited - events[1].waiting /\ relay'.todo = Queuing(groups)
    BY <1>1, <2>4 DEF ToRelease
  <2>7. Awaited = events[1].waiting + relay'.left
    BY <2>4, <2>5, <2>6
  <2>8. Releasing'
    BY <1>1, <2>3, <2>6, <2>7 DEF Releasing
  <2> QED BY <2>1, <2>3, <2>8
<1> QED BY <1>1, <1>2 DEF Backing, Untouched

(* A group that stopped waiting leaves the queue, and nothing else moves in it. *)
LEMMA LeavesQueue ==
    ASSUME NEW gs, NEW hs, DOMAIN hs = DOMAIN gs, NEW g \in DOMAIN gs, AwaitingStock(gs[g]),
           ~ AwaitingStock(hs[g]), KeepsBut(gs, hs, g)
    PROVE  Queuing(hs) = Queuing(gs) \ {<<g, RemainingOf(gs[g])>>}
<1>1. ASSUME NEW x \in Queuing(hs) PROVE x \in Queuing(gs) /\ x # <<g, RemainingOf(gs[g])>>
  <2>1. PICK h \in DOMAIN hs : AwaitingStock(hs[h]) /\ x = <<h, RemainingOf(hs[h])>>
    BY <1>1 DEF Queuing
  <2>2. h # g
    BY <2>1
  <2>3. hs[h] = gs[h]
    BY <2>1, <2>2 DEF KeepsBut
  <2> QED BY <2>1, <2>2, <2>3 DEF Queuing
<1>2. ASSUME NEW x \in Queuing(gs), x # <<g, RemainingOf(gs[g])>> PROVE x \in Queuing(hs)
  <2>1. PICK h \in DOMAIN gs : AwaitingStock(gs[h]) /\ x = <<h, RemainingOf(gs[h])>>
    BY <1>2 DEF Queuing
  <2>2. h # g
    BY <1>2, <2>1
  <2>3. hs[h] = gs[h]
    BY <2>1, <2>2 DEF KeepsBut
  <2> QED BY <2>1, <2>3 DEF Queuing
<1> QED BY <1>1, <1>2

LEMMA SplitBacking == ASSUME Counts, Backing, SplitForAllocation PROVE Backing'
<1>1. relay.busy /\ relay.left > 0 /\ UNCHANGED <<order, hold, events>>
  BY DEF SplitForAllocation
<1>2. PICK todo \in relay.todo : \E n \in Nat :
         /\ n > 0 /\ n = (IF todo[2] <= relay.left THEN todo[2] ELSE relay.left)
         /\ todo[1] \in DOMAIN groups /\ todo[2] \in Nat /\ relay.left \in Int
         /\ groups' = Splits(todo[1], n)
         /\ relay' = [relay EXCEPT !.left = @ - n, !.todo = @ \ {todo}]
  BY SplitShape
<1>3. PICK n \in Nat :
         /\ n > 0 /\ n = (IF todo[2] <= relay.left THEN todo[2] ELSE relay.left)
         /\ todo[1] \in DOMAIN groups /\ todo[2] \in Nat /\ relay.left \in Int
         /\ groups' = Splits(todo[1], n)
         /\ relay' = [relay EXCEPT !.left = @ - n, !.todo = @ \ {todo}]
  BY <1>2
<1>4. relay \in Handling
  BY DEF Counts
<1>5. PICK g, l : g = todo[1] /\ l = relay.left
  OBVIOUS
<1>6. relay'.busy /\ relay'.left = l - n /\ relay'.todo = relay.todo \ {todo}
  BY <1>1, <1>3, <1>4, <1>5 DEF Handling
<1>7. events # <<>> /\ events[1].name = "allocated" /\ events \in Events
  BY <1>1 DEF Backing
<1>8. groups \in Groups /\ g \in DOMAIN groups /\ groups # <<>>
  BY <1>3, <1>5 DEF Counts
<1>9. groups' = Splits(g, n)
  BY <1>3, <1>5
<1>10. /\ groups' \in Groups /\ DOMAIN groups \subseteq DOMAIN groups'
       /\ Remaining(groups') = Remaining(groups)
       /\ Reportable /\ AwaitingStock(groups[g]) /\ n <= RemainingOf(groups[g]) =>
             Waiting(groups') = Waiting(groups) - n
       /\ Reportable /\ AwaitingStock(groups[g]) /\ n = RemainingOf(groups[g]) =>
             DOMAIN groups' = DOMAIN groups /\ KeepsBut(groups, groups', g) /\ ~ AwaitingStock(groups'[g])
  BY <1>3, <1>8, <1>9, SplitsIs
<1>11. groups' # <<>>
  BY <1>8, <1>10
<1>12. ASSUME Untouched PROVE Sending' = hold'.stock + hold'.owed /\ Queue' /\ Releasing'
  <2>1. Sending = hold.stock + hold.owed /\ Queue /\ Releasing /\ Reportable
    BY <1>12 DEF Backing, Untouched, Reportable
  <2>2. Sending' = Sending /\ Awaited = Waiting(groups) /\ Awaited' = Waiting(groups')
    BY <1>8, <1>10, <1>11 DEF Sending, Awaited
  <2>3. relay.todo = Queuing(groups) /\ Waiting(groups) = events[1].waiting + l
    BY <1>1, <1>5, <2>1, <2>2 DEF Releasing
  <2>4. AwaitingStock(groups[g]) /\ todo = <<g, RemainingOf(groups[g])>>
    <3>1. PICK h \in DOMAIN groups : AwaitingStock(groups[h]) /\ todo = <<h, RemainingOf(groups[h])>>
      BY <2>3 DEF Queuing
    <3> QED BY <1>5, <3>1
  <2>5. PICK q : q = RemainingOf(groups[g])
    OBVIOUS
  <2>6. q \in Nat /\ todo[2] = q
    BY <1>3, <2>4, <2>5
  <2>7. n = (IF q <= l THEN q ELSE l) /\ l \in Nat
    BY <1>1, <1>3, <1>5, <2>6
  <2>8. n <= q /\ n <= l
    BY <2>6, <2>7
  <2>9. Waiting(groups') = Waiting(groups) - n
    BY <1>10, <2>1, <2>4, <2>5, <2>8
  <2>10. events[1].waiting \in Nat
    BY <1>7, FirstRow, RowIs
  <2>11. Awaited' = events'[1].waiting + relay'.left
    BY <1>1, <1>6, <2>2, <2>3, <2>7, <2>9, <2>10
  <2>12. Awaited' >= events'[1].waiting
    BY <1>1, <1>6, <2>7, <2>8, <2>10, <2>11
  <2>13. relay'.left > 0 => relay'.todo = Queuing(groups')
    <3>1. SUFFICES ASSUME relay'.left > 0 PROVE relay'.todo = Queuing(groups')
      OBVIOUS
    <3>2. n = q
      BY <1>6, <2>6, <2>7, <3>1
    <3>3. DOMAIN groups' = DOMAIN groups /\ KeepsBut(groups, groups', g) /\ ~ AwaitingStock(groups'[g])
      BY <1>10, <2>1, <2>4, <2>5, <3>2
    <3>4. Queuing(groups') = Queuing(groups) \ {<<g, RemainingOf(groups[g])>>}
      BY ONLY <1>8, <2>4, <3>3, LeavesQueue
    <3> QED BY <1>6, <2>3, <2>4, <3>4
  <2>14. Queue'
    BY <1>1, <1>7, <2>1, <2>12 DEF Queue
  <2> QED BY <1>1, <2>1, <2>2, <2>11, <2>13, <2>14 DEF Releasing
<1> QED BY <1>1, <1>6, <1>7, <1>11, <1>12 DEF Backing, Untouched

LEMMA FirstTaken ==
    ASSUME NEW es \in Events, es # <<>>, NEW fs, fs = Tail(es)
    PROVE  /\ fs \in Events /\ Len(fs) \in Nat /\ Len(es) = Len(fs) + 1
           /\ DOMAIN fs = 1 .. Len(fs) /\ DOMAIN es = 1 .. (Len(fs) + 1)
           /\ \A i \in 1 .. Len(fs) : fs[i] = es[i + 1]
<1>1. es \in Seq(EventRecords)
  BY DEF Events
<1>2. fs \in Seq(EventRecords) /\ Len(fs) = Len(es) - 1 /\ Len(es) \in Nat /\ Len(es) # 0
  BY <1>1
<1>3. \A i \in 1 .. Len(fs) : fs[i] = es[i + 1]
  BY <1>1, <1>2
<1> QED BY <1>1, <1>2, <1>3 DEF Events

(* A release that ends has released what its row allowed. *)
LEMMA ReleasedAll ==
    ASSUME Counts, Queue, Releasing, events \in Events, events # <<>>, groups # <<>>, EndAllocated
    PROVE  Awaited = events[1].waiting
<1>1. relay.busy /\ (relay.left <= 0 \/ relay.todo = {})
  BY DEF EndAllocated
<1>2. PICK l, w : l = relay.left /\ w = events[1].waiting
  OBVIOUS
<1>3. l \in Int
  BY <1>2 DEF Counts, Handling
<1>4. w \in Nat
  BY <1>2, FirstRow, RowIs
<1>5. Awaited = w + l /\ Awaited >= w /\ (l > 0 => relay.todo = Queuing(groups))
  BY <1>1, <1>2 DEF Releasing, Queue
<1>6. l >= 0
  BY <1>3, <1>4, <1>5
<1>7. CASE l = 0
  BY <1>2, <1>4, <1>5, <1>7
<1>8. CASE l > 0
  <2>1. Queuing(groups) = {}
    BY <1>1, <1>2, <1>3, <1>5, <1>8
  <2>2. \A g \in DOMAIN groups : ~ AwaitingStock(groups[g])
    BY <2>1 DEF Queuing
  <2>3. groups \in Groups
    BY DEF Counts
  <2>4. IsFiniteSet(DOMAIN groups) /\ Owed(groups) \in [DOMAIN groups -> Nat] /\ Waiting(groups) = Sum(Owed(groups))
    BY <2>3, AmountTables, TotalsAre
  <2>5. \A g \in DOMAIN groups : Owed(groups)[g] = 0
    BY <2>2 DEF Owed, WaitingOf
  <2>6. Waiting(groups) = 0
    BY ONLY <2>4, <2>5, SumZero
  <2>7. groups # <<>> => Awaited = 0
    BY <2>6 DEF Awaited
  <2> QED BY <1>3, <1>4, <1>5, <1>8, <2>7
<1> QED BY <1>3, <1>6, <1>7, <1>8

LEMMA EndBacking == ASSUME Counts, Backing, EndAllocated PROVE Backing'
<1>1. /\ relay.busy /\ relay' = [busy |-> FALSE, left |-> 0, todo |-> {}]
      /\ events' = events \/ events' = Tail(events)
      /\ UNCHANGED <<order, groups, hold>>
  BY DEF EndAllocated
<1>2. events \in Events /\ events # <<>> /\ hold \in Holdings
  BY <1>1 DEF Backing
<1>3. ~ relay'.busy
  BY <1>1
<1>4. PICK es : es = events'
  OBVIOUS
<1>5. es \in Events
  <2>1. CASE es = Tail(events)
    BY ONLY <1>2, <2>1, FirstTaken
  <2> QED BY <1>1, <1>2, <1>4, <2>1
<1>6. ASSUME Untouched PROVE Sending' = hold'.stock + hold'.owed /\ Queue' /\ Releasing' /\ groups # <<>>
  <2>1. Sending = hold.stock + hold.owed /\ Queue /\ Releasing /\ groups # <<>>
    BY <1>1, <1>6 DEF Backing, Untouched
  <2>2. Sending' = Sending /\ Awaited' = Awaited
    BY <1>1 DEF Sending, Awaited
  <2>3. Releasing'
    BY <1>3 DEF Releasing
  <2>4. CASE events' = events
    BY <1>1, <2>1, <2>2, <2>3, <2>4 DEF Queue
  <2>5. CASE es = Tail(events)
    <3>1. PICK k : k = Len(es)
      OBVIOUS
    <3>2. /\ k \in Nat /\ Len(events) = k + 1
          /\ DOMAIN es = 1 .. k /\ DOMAIN events = 1 .. (k + 1)
          /\ \A i \in 1 .. k : es[i] = events[i + 1]
      <4>1. /\ Len(es) \in Nat /\ Len(events) = Len(es) + 1
            /\ DOMAIN es = 1 .. Len(es) /\ DOMAIN events = 1 .. (Len(es) + 1)
            /\ \A i \in 1 .. Len(es) : es[i] = events[i + 1]
        BY ONLY <1>2, <2>5, FirstTaken
      <4> QED BY <3>1, <4>1
    <3>3. Awaited = events[1].waiting /\ events[k + 1].waiting = hold.owed
      BY <1>2, <2>1, <3>2, ReleasedAll DEF Queue
    <3>4. \A i \in DOMAIN es : es[i].name = "allocated"
      <4>1. ASSUME NEW i \in DOMAIN es PROVE es[i].name = "allocated"
        <5>1. i + 1 \in DOMAIN events /\ es[i] = events[i + 1]
          BY <3>2
        <5> QED BY <2>1, <5>1 DEF Queue
      <4> QED BY <4>1
    <3>5. ASSUME NEW i \in DOMAIN es, NEW j \in DOMAIN es, i <= j PROVE es[j].waiting <= es[i].waiting
      <4>1. /\ i + 1 \in DOMAIN events /\ j + 1 \in DOMAIN events /\ i + 1 <= j + 1
            /\ es[i] = events[i + 1] /\ es[j] = events[j + 1]
        BY <3>2, <3>5
      <4> QED BY <2>1, <4>1 DEF Queue
    <3>6. es # <<>> => k # 0 /\ es[k].waiting = hold.owed /\ Awaited >= es[1].waiting
      <4>1. SUFFICES ASSUME es # <<>> PROVE k # 0 /\ es[k].waiting = hold.owed /\ Awaited >= es[1].waiting
        OBVIOUS
      <4>2. k # 0
        <5>1. es \in Seq(EventRecords)
          BY <1>5 DEF Events
        <5> QED BY <3>1, <4>1, <5>1
      <4>3. 1 \in 1 .. k /\ k \in 1 .. k /\ 1 + 1 = 2
        BY <3>2, <4>2
      <4>4. es[1] = events[2] /\ es[k] = events[k + 1]
        BY <3>2, <4>3
      <4>5. 1 \in DOMAIN events /\ 2 \in DOMAIN events /\ 1 <= 2
        BY <3>2, <4>2
      <4>6. events[2].waiting <= events[1].waiting /\ events[1].waiting \in Nat /\ events[2].waiting \in Nat
        BY <1>2, <2>1, <4>5, RowIs DEF Queue
      <4> QED BY <3>3, <4>2, <4>4, <4>6
    <3>7. es = <<>> => Awaited = hold.owed
      <4>1. es = <<>> => k = 0
        BY <3>1
      <4> QED BY <3>3, <4>1
    <3>8. Queue'
      BY <1>1, <1>4, <2>2, <3>1, <3>4, <3>5, <3>6, <3>7 DEF Queue
    <3> QED BY <1>1, <2>1, <2>2, <2>3, <3>8
  <2> QED BY <1>1, <1>4, <2>4, <2>5
<1> QED BY <1>1, <1>2, <1>3, <1>4, <1>5, <1>6 DEF Backing, Untouched

LEMMA CancelAllBacking == ASSUME Counts, Backing, CancelAllForOrder PROVE Backing'
<1>1. /\ ~ relay.busy /\ events # <<>> /\ events[1] = OrderCancelled /\ events' = Tail(events)
      /\ UNCHANGED <<order, hold, relay>>
  BY DEF CancelAllForOrder, reads
<1>2. events \in Events /\ hold \in Holdings
  BY DEF Backing
<1>3. PICK es : es = Tail(events)
  OBVIOUS
<1>4. es \in Events
  BY ONLY <1>1, <1>2, <1>3, FirstTaken
<1>5. events[1].name = "cancelled" /\ 1 \in DOMAIN events
  BY <1>1, <1>2, FirstRow DEF OrderCancelled
<1>6. ~ Untouched
  <2>1. ~ Queue
    BY <1>5 DEF Queue
  <2> QED BY <2>1 DEF Backing, Untouched
<1> QED BY <1>1, <1>2, <1>3, <1>4, <1>6 DEF Backing, Untouched

LEMMA QuietBacking ==
    ASSUME Backing, UNCHANGED <<order, groups, hold, events, relay>>
    PROVE  Backing'
BY DEF Backing, Sending, Awaited, Queue, Releasing, Queuing

LEMMA BackingAtStart == ASSUME Init PROVE Backing
<1>1. Ordered \in Nat \ {0}
  BY FulfilmentAssumption
<1>2. Backorders \subseteq 0 .. Ordered
  BY FulfilmentAssumption
<1>3. PICK owed \in Backorders : /\ order.owed = owed /\ order.status = "paid"
                                 /\ hold = [stock |-> Ordered - owed, owed |-> owed]
  BY DEF Init
<1>4. groups = <<>> /\ events = <<>> /\ relay = [busy |-> FALSE, left |-> 0, todo |-> {}]
  BY DEF Init
<1>5. owed \in Nat /\ Ordered - owed \in Nat
  BY <1>1, <1>2
<1>6. hold \in Holdings /\ hold.stock = Ordered - owed /\ hold.owed = owed
  BY <1>3, <1>5 DEF Holdings
<1>7. Sending = Ordered /\ Awaited = owed
  BY <1>3, <1>4 DEF Sending, Awaited
<1>8. Sending = hold.stock + hold.owed
  BY <1>1, <1>5, <1>6, <1>7
<1>9. events \in Events
  BY <1>4 DEF Events
<1>10. Queue
  BY <1>4, <1>6, <1>7 DEF Queue
<1>11. ~ relay.busy
  BY <1>4
<1> QED BY <1>3, <1>6, <1>8, <1>9, <1>10, <1>11 DEF Backing, Releasing

LEMMA BackingStep == ASSUME NoDeparture, Counts, Backing, [Next]_vars PROVE Backing'
<1>1. CASE Allocate \/ EnsureRead \/ EnsureWrite \/ Process
  <2>1. CASE EnsureRead
    <3>1. UNCHANGED <<order, groups, hold, events, relay>>
      BY <2>1 DEF EnsureRead
    <3> QED BY <3>1, QuietBacking
  <2> QED BY <1>1, <2>1, AllocateBacking, EnsureBacking, ProcessBacking
<1>2. CASE \E g \in DOMAIN groups :
              Ship(g) \/ Fulfil(g) \/ HoldGroup(g) \/ ReleaseGroup(g) \/ CancelRemainder(g)
  BY <1>2, ShipBacking, HoldBacking, CancelRemainderBacking
<1>3. CASE \E p \in DOMAIN parcels : MarkLost(p) \/ Deliver(p)
  BY <1>3, LossBacking, DeliverBacking
<1>4. CASE HandleAllocated \/ SplitForAllocation \/ EndAllocated
  BY <1>4, HandleBacking, SplitBacking, EndBacking
<1>5. CASE CancelOrder \/ CancelAllForOrder
  BY <1>5, CancelOrderBacking, CancelAllBacking
<1>6. CASE ReadShipped \/ OpenReturn
  <2>1. UNCHANGED <<order, groups, hold, events, relay>>
    BY <1>6 DEF ReadShipped, OpenReturn
  <2> QED BY <2>1, QuietBacking
<1>7. CASE \E r \in DOMAIN returns :
              Decide(r) \/ CancelReturn(r) \/ ReceiveReturn(r) \/ ReceiveReplaced(r) \/ CloseReturn(r)
  <2>1. PICK r \in DOMAIN returns :
              Decide(r) \/ CancelReturn(r) \/ ReceiveReturn(r) \/ ReceiveReplaced(r) \/ CloseReturn(r)
    BY <1>7
  <2>2. CASE ReceiveReplaced(r)
    BY <2>2, ReplacedBacking
  <2>3. CASE Decide(r) \/ CancelReturn(r) \/ ReceiveReturn(r) \/ CloseReturn(r)
    <3>1. UNCHANGED <<order, groups, hold, events, relay>>
      BY <2>3 DEF Decide, CancelReturn, ReceiveReturn, CloseReturn, ClaimStatus, reads
    <3> QED BY <3>1, QuietBacking
  <2> QED BY <2>1, <2>2, <2>3
<1>8. CASE UNCHANGED vars
  <2>1. UNCHANGED <<order, groups, hold, events, relay>>
    BY <1>8 DEF vars
  <2> QED BY <2>1, QuietBacking
<1> QED BY <1>1, <1>2, <1>3, <1>4, <1>5, <1>6, <1>7, <1>8 DEF Next

-----------------------------------------------------------------------------
(* The order's status. *)

LEMMA SettleIs ==
    ASSUME NEW status, NEW gs, NEW ps
    PROVE  SettleOrder(status, gs, ps) =
              IF Remaining(gs) > 0 \/ ps = <<>> \/ status \notin {"processing", "shipped"} THEN status
              ELSE IF OnTheWay(ps) THEN "shipped"
              ELSE IF status = "processing" /\ ~ Arrived(ps) THEN "cancelled" ELSE "delivered"
BY DEF SettleOrder, OnTheWay, Arrived

Running == {"paid", "processing", "shipped"}

(* What a settling leaves is right, if the order was not past what it settles. *)
LEMMA SettledWell ==
    ASSUME order \in Orders, events \in Events, NEW status \in Running,
           Settles(status, groups', parcels'), Remaining(groups') \in Nat,
           status = "paid" => parcels' = <<>>,
           status = "shipped" => Remaining(groups') = 0 /\ parcels' # <<>>,
           Remaining(groups') = 0 /\ parcels' # <<>> =>
              OnTheWay(parcels') \/ Arrived(parcels') \/ hold'.stock + hold'.owed = 0
    PROVE  Status'
<1>1. order'.status = SettleOrder(status, groups', parcels')
  BY DEF Settles, Orders
<1>2. events' = IF SettleOrder(status, groups', parcels') = "cancelled" /\ status # "cancelled"
                THEN Append(events, OrderCancelled) ELSE events
  BY DEF Settles
<1>3. CASE Remaining(groups') > 0 \/ parcels' = <<>> \/ status = "paid"
  <2>1. order'.status = status
    BY <1>1, <1>3, SettleIs
  <2> QED BY <1>3, <2>1 DEF Status, Running
<1>4. CASE ~ (Remaining(groups') > 0) /\ parcels' # <<>> /\ status # "paid"
  <2>1. Remaining(groups') = 0
    BY <1>4
  <2>2. order'.status = IF OnTheWay(parcels') THEN "shipped"
                        ELSE IF status = "processing" /\ ~ Arrived(parcels') THEN "cancelled" ELSE "delivered"
    BY <1>1, <1>4, SettleIs DEF Running
  <2>3. CASE OnTheWay(parcels')
    BY <2>1, <2>2, <2>3 DEF Status
  <2>4. CASE ~ OnTheWay(parcels') /\ status = "processing" /\ ~ Arrived(parcels')
    <3>1. order'.status = "cancelled" /\ hold'.stock + hold'.owed = 0
      BY <1>4, <2>1, <2>2, <2>4
    <3> QED BY <2>1, <2>4, <3>1 DEF Status
  <2>5. CASE ~ OnTheWay(parcels') /\ ~ (status = "processing" /\ ~ Arrived(parcels'))
    BY <2>1, <2>2, <2>5 DEF Status
  <2> QED BY <2>3, <2>4, <2>5
<1> QED BY <1>3, <1>4

LEMMA CutStatus ==
    ASSUME Counts, Backing, Status, NEW g \in DOMAIN groups, NEW n \in Nat, n > 0, n <= RemainingOf(groups[g]),
           NEW status \in {"shipped", "delivered"}, CutShipment(g, n, status)
    PROVE  Status'
<1>1. PICK h, p : /\ groups' = Put(groups, g, h) /\ parcels' = Grown(parcels, p)
                  /\ Settles(Started(order.status), groups', parcels')
                  /\ p \in ParcelRecords /\ p.status = status /\ Sound(h)
  BY CutShape
<1>2. order \in Orders /\ events \in Events /\ groups \in Groups /\ parcels \in Parcels
  BY DEF Counts, Backing
<1>3. groups' \in Groups
  BY ONLY <1>1, <1>2, g \in DOMAIN groups, GroupsChange
<1>4. Remaining(groups') \in Nat
  BY <1>3, TotalsType
<1>5. PICK qs : qs = Grown(parcels, p)
  OBVIOUS
<1>6. qs \in Parcels /\ Len(qs) = Len(parcels) + 1 /\ DOMAIN qs = DOMAIN parcels \cup {Len(parcels) + 1} /\ qs[Len(parcels) + 1] = p
  BY ONLY <1>1, <1>2, <1>5, ParcelAdded
<1>7. OnTheWay(parcels') \/ Arrived(parcels')
  BY <1>1, <1>5, <1>6 DEF OnTheWay, Arrived
<1>8. PICK to : to = Started(order.status)
  OBVIOUS
<1>9. to = "processing"
  BY <1>8 DEF CutShipment, AwaitingGoods, Started
<1>10. to \in Running /\ to # "paid" /\ to # "shipped"
  BY <1>9 DEF Running
<1> QED BY <1>1, <1>2, <1>4, <1>7, <1>8, <1>10, SettledWell

LEMMA ShipStatus ==
    ASSUME Counts, Backing, Status, NEW g \in DOMAIN groups, Ship(g) \/ Fulfil(g) PROVE Status'
<1>1. RemainingOf(groups[g]) \in Nat
  BY GroupFacts
<1>2. CASE Ship(g)
  <2>1. PICK n \in 1 .. RemainingOf(groups[g]) : CutShipment(g, n, "shipped")
    BY <1>2 DEF Ship
  <2>2. n \in Nat /\ n > 0 /\ n <= RemainingOf(groups[g])
    BY <1>1, <2>1
  <2> QED BY <2>1, <2>2, CutStatus
<1>3. CASE Fulfil(g)
  <2>1. PICK n : n = RemainingOf(groups[g])
    OBVIOUS
  <2>2. CutShipment(g, n, "delivered") /\ Workable(groups[g])
    BY <1>3, <2>1 DEF Fulfil, CutShipment
  <2>3. n > 0 /\ n \in Nat /\ n <= RemainingOf(groups[g])
    BY <1>1, <2>1, <2>2 DEF Workable
  <2> QED BY <2>2, <2>3, CutStatus
<1> QED BY <1>2, <1>3

(* Units came back to be sent again: the order is at work once more. *)
LEMMA BackAtWork ==
    ASSUME order' = [order EXCEPT !.status = "processing"], order \in Orders, Remaining(groups') > 0
    PROVE  Status'
<1>1. order'.status = "processing"
  BY DEF Orders
<1> QED BY <1>1 DEF Status

LEMMA LossStatus == ASSUME Counts, NEW p \in DOMAIN parcels, MarkLost(p) PROVE Status'
<1>1. PICK owed \in 0 .. parcels[p].quantity : Remaining(groups') = Remaining(groups) + parcels[p].quantity
  BY LossShape
<1>2. order \in Orders /\ groups \in Groups /\ parcels \in Parcels
  BY DEF Counts
<1>3. parcels[p] \in ParcelRecords
  BY <1>2 DEF Parcels
<1>4. parcels[p].quantity \in Nat /\ parcels[p].quantity > 0 /\ Remaining(groups) \in Nat
  BY <1>2, <1>3, TotalsType DEF ParcelRecords
<1>5. Remaining(groups') > 0
  BY <1>1, <1>4
<1>6. order' = [order EXCEPT !.status = "processing"]
  BY DEF MarkLost
<1> QED BY <1>2, <1>5, <1>6, BackAtWork

LEMMA ReplacedStatus ==
    ASSUME NoDeparture, Counts, NEW r \in DOMAIN returns, ReceiveReplaced(r) PROVE Status'
<1>1. NoneInTransit
  BY Departures
<1>2. PICK owed \in Nat : Remaining(groups') = Remaining(groups) + returns[r].quantity /\ returns[r].quantity \in Nat \ {0}
  BY <1>1, ReplacedShape
<1>3. order \in Orders /\ Remaining(groups) \in Nat
  BY TotalsType DEF Counts
<1>4. Remaining(groups') > 0
  BY <1>2, <1>3
<1>5. order' = [order EXCEPT !.status = "processing"]
  BY DEF ReceiveReplaced
<1> QED BY <1>3, <1>4, <1>5, BackAtWork

LEMMA DeliverStatus ==
    ASSUME Counts, Backing, Status, NEW p \in DOMAIN parcels, Deliver(p) PROVE Status'
<1>1. order \in Orders /\ events \in Events /\ groups \in Groups /\ parcels \in Parcels
  BY DEF Counts, Backing
<1>2. CanRecordArrival /\ Settles(order.status, groups', parcels')
  BY DEF Deliver
<1>3. /\ groups' \in Groups /\ parcels' = Put(parcels, p, Moved(parcels[p], "delivered"))
      /\ groups' = groups \/ Remaining(groups') = Remaining(groups) - parcels[p].quantity
  BY DeliverShape
<1>4. PICK to : to = "delivered"
  OBVIOUS
<1>5. PICK qs : qs = Put(parcels, p, Moved(parcels[p], to))
  OBVIOUS
<1>6. to \in ParcelStates
  BY <1>4 DEF ParcelStates
<1>7. DOMAIN qs = DOMAIN parcels /\ qs[p].status = to
  BY ONLY <1>1, <1>5, <1>6, p \in DOMAIN parcels, ParcelsChange
<1>8. Arrived(parcels') /\ parcels' # <<>>
  BY <1>3, <1>4, <1>5, <1>7 DEF Arrived
<1>9. parcels[p].quantity \in Nat
  <2>1. parcels[p] \in ParcelRecords
    BY <1>1 DEF Parcels
  <2> QED BY <2>1 DEF ParcelRecords
<1>10. Remaining(groups') \in Nat /\ Remaining(groups) \in Nat
  BY <1>1, <1>3, TotalsType
<1>11. PICK was : was = order.status
  OBVIOUS
<1>12. was \in Running /\ was # "paid"
  BY <1>2, <1>11 DEF CanRecordArrival, Running
<1>13. was = "shipped" => Remaining(groups') = 0
  <2>1. was = "shipped" => Remaining(groups) = 0
    BY <1>11 DEF Status
  <2>2. Remaining(groups) = 0 => Remaining(groups') = 0
    BY <1>3, <1>9, <1>10
  <2> QED BY <2>1, <2>2
<1> QED BY <1>1, <1>2, <1>8, <1>10, <1>11, <1>12, <1>13, SettledWell

LEMMA CancelRemainderStatus ==
    ASSUME NoDeparture, Counts, Backing, Status, NEW g \in DOMAIN groups, CancelRemainder(g) PROVE Status'
<1>1. order \in Orders /\ events \in Events /\ groups \in Groups
  BY DEF Counts, Backing
<1>2. PICK h, n : h = WithRemainderCancelled(groups[g]) /\ n = RemainingOf(groups[g])
  OBVIOUS
<1>3. /\ groups' = Put(groups, g, h) /\ Reportable /\ n > 0 /\ parcels' = parcels
      /\ Settles(order.status, groups', parcels')
  BY <1>2 DEF CancelRemainder, Put
<1>4. Sound(groups[g]) /\ n \in Nat
  BY <1>2, GroupFacts
<1>5. Sound(h)
  BY <1>2, <1>4, WithRemainderCancelledIs
<1>6. groups' \in Groups
  BY ONLY <1>1, <1>3, <1>5, g \in DOMAIN groups, GroupsChange
<1>7. Remaining(groups') \in Nat /\ Remaining(groups) \in Nat /\ n <= Remaining(groups)
  BY <1>1, <1>2, <1>6, TotalsType, EntryOfTotals
<1>8. Remaining(groups) # 0
  BY <1>3, <1>4, <1>7
<1>9. PICK was : was = order.status
  OBVIOUS
<1>10. was \in Running /\ was # "shipped"
  <2>1. was # "delivered" /\ was # "shipped" /\ was # "cancelled"
    BY <1>3, <1>8, <1>9 DEF Status, Reportable
  <2> QED BY <1>1, <1>9, <2>1 DEF Orders, Running
<1>11. was = "paid" => parcels' = <<>>
  BY <1>3, <1>9 DEF Status
<1>12. Remaining(groups') = hold'.stock + hold'.owed
  BY CancelRemainderBacking
<1> QED BY <1>1, <1>3, <1>7, <1>9, <1>10, <1>11, <1>12, SettledWell

(* What is not about parcels, status or what remains leaves the status right. *)
LEMMA StillStatus ==
    ASSUME Status, UNCHANGED <<order, parcels, hold>>, Remaining(groups') = Remaining(groups),
           Announced => Announced'
    PROVE  Status'
BY DEF Status

LEMMA SameAnnounced == ASSUME events' = events PROVE Announced => Announced'
BY DEF Announced

LEMMA AllocateStatus == ASSUME Backing, Status, Allocate PROVE Status'
<1>1. hold \in Holdings
  BY DEF Backing
<1>2. hold.stock \in Nat /\ hold.owed \in Nat /\ hold.owed > 0
  BY <1>1 DEF Allocate, Holdings
<1>3. hold.stock + hold.owed # 0
  BY <1>2
<1>4. order.status # "cancelled" /\ UNCHANGED <<order, groups, parcels>>
  BY <1>3 DEF Status, Allocate
<1> QED BY <1>4 DEF Status

LEMMA EnsureStatus == ASSUME Backing, Status, EnsureWrite PROVE Status'
<1>1. UNCHANGED <<order, parcels, hold, events>>
  BY DEF EnsureWrite
<1>2. CASE groups' = groups
  BY <1>1, <1>2, StillStatus, SameAnnounced
<1>3. CASE groups' # groups
  <2>1. groups = <<>> /\ order.status # "cancelled"
    BY <1>3 DEF EnsureWrite, Reportable
  <2>2. order'.status = "paid" /\ parcels' = <<>>
    BY <1>1, <2>1 DEF Backing, Status
  <2> QED BY <2>2 DEF Status
<1> QED BY <1>2, <1>3

LEMMA ProcessStatus == ASSUME Counts, Status, Process PROVE Status'
<1>1. order \in Orders /\ order.status = "paid" /\ order' = [order EXCEPT !.status = "processing"] /\ parcels' = parcels
  BY DEF Process, Counts
<1>2. order'.status = "processing" /\ parcels' = <<>>
  BY <1>1 DEF Status, Orders
<1> QED BY <1>2 DEF Status

LEMMA CancelOrderStatus == ASSUME Counts, Backing, CancelOrder PROVE Status'
<1>1. /\ order \in Orders /\ order' = [order EXCEPT !.status = "cancelled"] /\ parcels' = <<>>
      /\ hold' = [stock |-> 0, owed |-> 0] /\ events \in Events /\ events' = Append(events, OrderCancelled)
  BY DEF CancelOrder, Counts, Backing
<1>2. order'.status = "cancelled" /\ hold'.stock + hold'.owed = 0
  BY <1>1 DEF Orders
<1>3. ~ OnTheWay(parcels')
  BY <1>1 DEF OnTheWay
<1>4. Announced'
  <2>1. PICK e : e = OrderCancelled
    OBVIOUS
  <2>2. PICK fs : fs = Append(events, e)
    OBVIOUS
  <2>3. e \in EventRecords
    BY <2>1 DEF OrderCancelled, EventRecords
  <2>4. Len(events) \in Nat /\ DOMAIN fs = 1 .. (Len(events) + 1) /\ fs[Len(events) + 1] = e
    BY ONLY <1>1, <2>2, <2>3, RowAdded
  <2> QED BY <1>1, <2>1, <2>2, <2>4 DEF Announced
<1> QED BY <1>2, <1>3, <1>4 DEF Status

LEMMA HoldStatus ==
    ASSUME Counts, Backing, Status, NEW g \in DOMAIN groups, HoldGroup(g) \/ ReleaseGroup(g) PROVE Status'
<1>1. UNCHANGED <<order, parcels, hold, events>>
  BY DEF HoldGroup, ReleaseGroup
<1>2. Remaining(groups') = Remaining(groups)
  BY HoldBacking
<1> QED BY <1>1, <1>2, StillStatus, SameAnnounced

LEMMA SplitStatus == ASSUME Counts, Status, SplitForAllocation PROVE Status'
<1>1. UNCHANGED <<order, parcels, hold, events>>
  BY DEF SplitForAllocation
<1>2. PICK todo \in relay.todo : \E n \in Nat :
         n > 0 /\ todo[1] \in DOMAIN groups /\ groups' = Splits(todo[1], n)
  BY SplitShape
<1>3. PICK n \in Nat : n > 0 /\ todo[1] \in DOMAIN groups /\ groups' = Splits(todo[1], n)
  BY <1>2
<1>4. PICK g : g = todo[1]
  OBVIOUS
<1>5. g \in DOMAIN groups /\ groups' = Splits(g, n)
  BY <1>3, <1>4
<1>6. Remaining(groups') = Remaining(groups)
  BY <1>3, <1>5, SplitsIs
<1> QED BY <1>1, <1>6, StillStatus, SameAnnounced

LEMMA EndStatus == ASSUME Backing, Status, EndAllocated PROVE Status'
<1>1. /\ relay.busy /\ UNCHANGED <<order, groups, parcels, hold>>
      /\ events' = events \/ events' = Tail(events)
  BY DEF EndAllocated
<1>2. events \in Events /\ events # <<>> /\ events[1].name = "allocated"
  BY <1>1 DEF Backing
<1>3. CASE events' = events
  BY <1>1, <1>3, StillStatus, SameAnnounced
<1>4. CASE events' = Tail(events)
  <2>1. PICK es : es = Tail(events)
    OBVIOUS
  <2>2. PICK k : k = Len(es)
    OBVIOUS
  <2>3. /\ Len(es) \in Nat /\ DOMAIN es = 1 .. Len(es) /\ DOMAIN events = 1 .. (Len(es) + 1)
        /\ \A i \in 1 .. Len(es) : es[i] = events[i + 1]
    BY ONLY <1>2, <2>1, FirstTaken
  <2>4. ASSUME Announced PROVE Announced'
    <3>1. PICK i \in DOMAIN events : events[i] = OrderCancelled
      BY <2>4 DEF Announced
    <3>2. i # 1
      BY <1>2, <3>1 DEF OrderCancelled
    <3>3. i - 1 \in 1 .. k /\ (i - 1) + 1 = i
      BY <2>2, <2>3, <3>1, <3>2
    <3>4. i - 1 \in DOMAIN es /\ es[i - 1] = OrderCancelled
      BY <2>2, <2>3, <3>1, <3>3
    <3> QED BY <1>4, <2>1, <3>4 DEF Announced
  <2> QED BY <1>1, <2>4, StillStatus
<1> QED BY <1>1, <1>3, <1>4

LEMMA CancelAllStatus == ASSUME Counts, Backing, Status, CancelAllForOrder PROVE Status'
<1>1. events # <<>> /\ events[1] = OrderCancelled /\ UNCHANGED <<order, parcels, hold>>
  BY DEF CancelAllForOrder
<1>2. events \in Events
  BY DEF Backing
<1>3. events[1].name = "cancelled" /\ 1 \in DOMAIN events
  BY <1>1, <1>2, FirstRow DEF OrderCancelled
<1>4. order.status = "cancelled"
  <2>1. ~ Queue
    BY <1>3 DEF Queue
  <2> QED BY <2>1 DEF Backing
<1>5. Remaining(groups') = 0
  BY CancelAllShape
<1> QED BY <1>1, <1>4, <1>5 DEF Status

LEMMA StatusStep == ASSUME NoDeparture, Counts, Backing, Status, [Next]_vars PROVE Status'
<1> DEFINE Quiet == UNCHANGED <<order, groups, parcels, hold, events>>
<1>1. ASSUME Quiet PROVE Status'
  BY <1>1, StillStatus, SameAnnounced
<1> HIDE DEF Quiet
<1>2. CASE Allocate \/ EnsureRead \/ EnsureWrite \/ Process
  <2>1. EnsureRead => Quiet
    BY DEF EnsureRead, Quiet
  <2> QED BY <1>1, <1>2, <2>1, AllocateStatus, EnsureStatus, ProcessStatus
<1>3. CASE \E g \in DOMAIN groups :
              Ship(g) \/ Fulfil(g) \/ HoldGroup(g) \/ ReleaseGroup(g) \/ CancelRemainder(g)
  BY <1>3, ShipStatus, HoldStatus, CancelRemainderStatus
<1>4. CASE \E p \in DOMAIN parcels : MarkLost(p) \/ Deliver(p)
  BY <1>4, LossStatus, DeliverStatus
<1>5. CASE HandleAllocated \/ SplitForAllocation \/ EndAllocated
  <2>1. HandleAllocated => Quiet
    BY DEF HandleAllocated, Quiet
  <2> QED BY <1>1, <1>5, <2>1, SplitStatus, EndStatus
<1>6. CASE CancelOrder \/ CancelAllForOrder
  BY <1>6, CancelOrderStatus, CancelAllStatus
<1>7. CASE ReadShipped \/ OpenReturn \/ UNCHANGED vars
  <2>1. Quiet
    BY <1>7 DEF ReadShipped, OpenReturn, vars, Quiet
  <2> QED BY <1>1, <2>1
<1>8. CASE \E r \in DOMAIN returns :
              Decide(r) \/ CancelReturn(r) \/ ReceiveReturn(r) \/ ReceiveReplaced(r) \/ CloseReturn(r)
  <2>1. PICK r \in DOMAIN returns :
              Decide(r) \/ CancelReturn(r) \/ ReceiveReturn(r) \/ ReceiveReplaced(r) \/ CloseReturn(r)
    BY <1>8
  <2>2. Decide(r) \/ CancelReturn(r) \/ ReceiveReturn(r) \/ CloseReturn(r) => Quiet
    BY DEF Decide, CancelReturn, ReceiveReturn, CloseReturn, ClaimStatus, Quiet
  <2> QED BY <1>1, <2>1, <2>2, ReplacedStatus
<1> QED BY <1>2, <1>3, <1>4, <1>5, <1>6, <1>7, <1>8 DEF Next

LEMMA BackingAlways == ASSUME NoDeparture PROVE Spec => [](Counts /\ Backing /\ Status)
<1>1. NoneInTransit
  BY Departures
<1>2. Spec => [](Counts /\ Amounts)
  BY <1>1, CountsAlways
<1>3. Init => Backing /\ Status
  <2>1. Init => Status
    BY DEF Init, Status
  <2> QED BY <2>1, BackingAtStart
<1>4. Counts /\ Backing /\ Status /\ [Next]_vars => (Backing /\ Status)'
  BY BackingStep, StatusStep
<1> QED BY <1>2, <1>3, <1>4, PTL DEF Spec

(* Delivery and inventory agree on the units still to send, for any number of   *)
(* units, losses, releases and cancels: as many are set aside or owed as remain *)
(* on the fulfilment orders, none that stopped waiting lacks its stock, and     *)
(* none waits for stock it has once the allocation rows are handled, however    *)
(* often they are delivered again (release-allocated.ts, lost.ts, found.ts,     *)
(* cancel-remainder.ts).  Each of the three departures breaks it.               *)
THEOREM StockAlwaysBacked == ASSUME Divergences = {} PROVE Spec => []StockBacked
<1>1. NoDeparture
  BY DEF NoDeparture
<1>2. Counts /\ Backing => StockBacked
  <2>1. SUFFICES ASSUME Counts, Backing, Untouched, groups # <<>>
                 PROVE  /\ Remaining(groups) = hold.stock + hold.owed /\ Waiting(groups) >= hold.owed
                        /\ ~ AllocationPending => Waiting(groups) = hold.owed
    BY DEF StockBacked, Untouched
  <2> QED BY <2>1, BackingIs
<1> QED BY <1>1, <1>2, BackingAlways, PTL

(* The order is never shipped or delivered while units remain or, delivered,    *)
(* while a parcel is on its way; it never stays processing once all has left;   *)
(* cancelled, it holds nothing and its fulfilment orders are closed or about to *)
(* be: through any number of losses, reopenings and cancels (progress.ts).      *)
THEOREM StatusAlwaysFollows == ASSUME Divergences = {} PROVE Spec => []StatusFollowsGoods
<1>1. NoDeparture
  BY DEF NoDeparture
<1>2. Status => StatusFollowsGoods
  BY DEF Status, StatusFollowsGoods, OnTheWay, Announced
<1> QED BY <1>1, <1>2, BackingAlways, PTL

-----------------------------------------------------------------------------
(* The shapes: nothing outgrows what was bought or the bounds of the model. *)

Few == Len(groups) <= MaxGroups
Packed == Len(parcels) <= MaxParcels /\ \A p \in DOMAIN parcels : parcels[p].quantity <= Ordered
Asking ==
    /\ Len(returns) <= MaxReturns /\ (asked > 0 => Len(returns) < MaxReturns)
    /\ \A r \in DOMAIN returns : returns[r].quantity <= Ordered
Named == \A i \in DOMAIN events : events[i].waiting <= Ordered
Working == ensuring \in 0 .. MaxEnsuring /\ \A todo \in relay.todo : todo[2] <= Ordered
Bounds == Few /\ Packed /\ Asking /\ Named /\ Working

LEMMA BoundsAreNat ==
    /\ MaxGroups \in Nat /\ MaxGroups >= 2 /\ MaxParcels \in Nat /\ MaxReturns \in Nat
    /\ MaxEnsuring \in Nat /\ Ordered \in Nat
<1>1. {MaxGroups, MaxParcels, MaxReturns, MaxEnsuring, MaxEvents} \subseteq Nat
  BY FulfilmentAssumption
<1>2. MaxGroups >= 2
  BY FulfilmentAssumption
<1>3. Ordered \in Nat \ {0}
  BY FulfilmentAssumption
<1> QED BY <1>1, <1>2, <1>3

LEMMA PutLen ==
    ASSUME NEW R, NEW s \in Seq(R), NEW x, NEW e, NEW t, t = Put(s, x, e)
    PROVE  Len(t) = Len(s) /\ DOMAIN t = DOMAIN s
<1>1. DOMAIN s = 1 .. Len(s) /\ Len(s) \in Nat
  OBVIOUS
<1>2. DOMAIN t = DOMAIN s
  BY DEF Put
<1> QED BY <1>1, <1>2

(* No fulfilment order holds more than was bought. *)
LEMMA WithinOrdered ==
    ASSUME Counts, NEW g \in DOMAIN groups
    PROVE  RemainingOf(groups[g]) <= Ordered /\ groups[g].shipped <= Ordered
<1>1. groups \in Groups /\ Real(groups) = Ordered /\ Sound(groups[g])
  BY GroupFacts
<1>2. RealOf(groups[g]) <= Real(groups) /\ Real(groups) \in Nat
  BY <1>1, EntryOfTotals, TotalsType
<1>3. PICK a, b, c : a = RemainingOf(groups[g]) /\ b = groups[g].shipped /\ c = RealOf(groups[g])
  OBVIOUS
<1>4. a \in Nat /\ b \in Nat /\ c \in Nat /\ a + b <= c
  BY <1>1, <1>3, AmountsOf
<1>5. c <= Ordered /\ Ordered \in Nat
  BY <1>1, <1>2, <1>3
<1> QED BY <1>3, <1>4, <1>5

LEMMA FewStep == ASSUME NoDeparture, Counts, Few, [Next]_vars PROVE Few'
<1>1. /\ groups \in Seq(GroupRecords) /\ Len(groups) \in Nat /\ Len(groups) <= MaxGroups
      /\ MaxGroups \in Nat /\ MaxGroups >= 2
  <2>1. groups \in Seq(GroupRecords)
    BY DEF Counts, Groups
  <2> QED BY <2>1, BoundsAreNat DEF Few
<1>2. ASSUME NEW x, NEW e, groups' = Put(groups, x, e) PROVE Few'
  <2>1. Len(groups') = Len(groups)
    BY ONLY <1>1, <1>2, PutLen
  <2> QED BY <1>1, <2>1 DEF Few
<1>3. ASSUME NEW owed \in Nat, OwedFits(owed), Len(groups') = IF owed = 0 THEN Len(groups) ELSE Len(groups) + 1
      PROVE  Few'
  BY <1>1, <1>3 DEF OwedFits, Room, Few
<1>4. ASSUME groups' = groups PROVE Few'
  BY <1>1, <1>4 DEF Few
<1>5. CASE Allocate \/ EnsureRead \/ EnsureWrite \/ Process
  <2>1. CASE EnsureWrite /\ groups = <<>>
    <3>1. groups' = groups \/ groups' = GroupOrderLines
      BY <2>1 DEF EnsureWrite
    <3>2. groups' = GroupOrderLines => Len(groups') <= 2 /\ groups' \in Groups
      BY <2>1, OrderLines
    <3>3. groups' \in Groups => Len(groups') \in Nat
      BY DEF Groups
    <3> QED BY <1>1, <1>4, <3>1, <3>2, <3>3 DEF Few
  <2>2. CASE EnsureWrite /\ groups # <<>>
    BY <1>4, <2>2 DEF EnsureWrite
  <2>3. CASE Allocate \/ EnsureRead \/ Process
    BY <1>4, <2>3 DEF Allocate, EnsureRead, Process
  <2> QED BY <1>5, <2>1, <2>2, <2>3
<1>6. CASE \E g \in DOMAIN groups :
              Ship(g) \/ Fulfil(g) \/ HoldGroup(g) \/ ReleaseGroup(g) \/ CancelRemainder(g)
  <2>1. PICK g \in DOMAIN groups :
              Ship(g) \/ Fulfil(g) \/ HoldGroup(g) \/ ReleaseGroup(g) \/ CancelRemainder(g)
    BY <1>6
  <2>2. \E e : groups' = Put(groups, g, e)
    <3>1. ASSUME NEW n, NEW status, CutShipment(g, n, status) PROVE \E e : groups' = Put(groups, g, e)
      BY <3>1 DEF CutShipment, Put
    <3>2. Ship(g) \/ Fulfil(g) => \E n, status : CutShipment(g, n, status)
      BY DEF Ship, Fulfil
    <3>3. CASE HoldGroup(g) \/ ReleaseGroup(g) \/ CancelRemainder(g)
      BY <3>3 DEF HoldGroup, ReleaseGroup, CancelRemainder, Put
    <3> QED BY <2>1, <3>1, <3>2, <3>3
  <2> QED BY <1>2, <2>2
<1>7. CASE \E p \in DOMAIN parcels : MarkLost(p) \/ Deliver(p)
  <2>1. ASSUME NEW p \in DOMAIN parcels, MarkLost(p) PROVE Few'
    <3>1. PICK owed \in 0 .. parcels[p].quantity :
             OwedFits(owed) /\ Len(groups') = IF owed = 0 THEN Len(groups) ELSE Len(groups) + 1
      BY <2>1, LossShape
    <3>2. parcels[p].quantity \in Nat
      <4>1. parcels \in Parcels /\ groups \in Groups /\ Tracked(groups, parcels) /\ parcels[p].status = "shipped"
        BY <2>1 DEF Counts, MarkLost
      <4> QED BY <2>1, <4>1, ParcelCovered
    <3>3. owed \in Nat
      BY <3>1, <3>2
    <3> QED BY <1>3, <3>1, <3>3
  <2>2. ASSUME NEW p \in DOMAIN parcels, Deliver(p) PROVE Few'
    <3>1. Len(groups') = Len(groups)
      BY <2>2, DeliverShape
    <3> QED BY <1>1, <3>1 DEF Few
  <2> QED BY <1>7, <2>1, <2>2
<1>8. CASE HandleAllocated \/ SplitForAllocation \/ EndAllocated
  <2>1. CASE SplitForAllocation
    BY <2>1, SplitShape DEF Few
  <2>2. CASE HandleAllocated \/ EndAllocated
    BY <1>4, <2>2 DEF HandleAllocated, EndAllocated
  <2> QED BY <1>8, <2>1, <2>2
<1>9. CASE CancelOrder \/ CancelAllForOrder
  <2>1. CASE CancelOrder
    BY <1>4, <2>1 DEF CancelOrder
  <2>2. CASE CancelAllForOrder
    <3>1. Len(groups') = Len(groups)
      BY <2>2, CancelAllShape
    <3> QED BY <1>1, <3>1 DEF Few
  <2> QED BY <1>9, <2>1, <2>2
<1>10. CASE ReadShipped \/ OpenReturn \/ UNCHANGED vars
  BY <1>4, <1>10 DEF ReadShipped, OpenReturn, vars
<1>11. CASE \E r \in DOMAIN returns :
              Decide(r) \/ CancelReturn(r) \/ ReceiveReturn(r) \/ ReceiveReplaced(r) \/ CloseReturn(r)
  <2>1. ASSUME NEW r \in DOMAIN returns, ReceiveReplaced(r) PROVE Few'
    <3>1. NoneInTransit
      BY Departures
    <3>2. PICK owed \in Nat : OwedFits(owed) /\ Len(groups') = IF owed = 0 THEN Len(groups) ELSE Len(groups) + 1
      BY <2>1, <3>1, ReplacedShape
    <3> QED BY <1>3, <3>2
  <2>2. ASSUME NEW r \in DOMAIN returns, Decide(r) \/ CancelReturn(r) \/ ReceiveReturn(r) \/ CloseReturn(r)
        PROVE  Few'
    BY <1>4, <2>2 DEF Decide, CancelReturn, ReceiveReturn, CloseReturn, ClaimStatus
  <2> QED BY <1>11, <2>1, <2>2
<1> QED BY <1>5, <1>6, <1>7, <1>8, <1>9, <1>10, <1>11 DEF Next

LEMMA PackedStep == ASSUME Counts, Packed, [Next]_vars PROVE Packed'
<1>1. parcels \in Parcels /\ groups \in Groups /\ MaxParcels \in Nat /\ Ordered \in Nat
  BY BoundsAreNat DEF Counts
<1>2. ASSUME NEW x \in DOMAIN parcels, NEW to \in ParcelStates, parcels' = Put(parcels, x, Moved(parcels[x], to))
      PROVE  Packed'
  <2>1. PICK qs : qs = Put(parcels, x, Moved(parcels[x], to))
    OBVIOUS
  <2>2. DOMAIN qs = DOMAIN parcels /\ Len(qs) = Len(parcels) /\ SameGoods(parcels, qs)
    BY ONLY <1>1, <1>2, <2>1, ParcelsChange
  <2> QED BY <1>2, <2>1, <2>2 DEF Packed, SameGoods
<1>3. ASSUME parcels' = parcels PROVE Packed'
  BY <1>3 DEF Packed
<1>4. ASSUME NEW g \in DOMAIN groups, NEW n \in Nat, n > 0, n <= RemainingOf(groups[g]),
             NEW status \in {"shipped", "delivered"}, CutShipment(g, n, status)
      PROVE  Packed'
  <2>1. PICK h, p : parcels' = Grown(parcels, p) /\ p \in ParcelRecords /\ p.quantity = n
    BY <1>4, CutShape
  <2>2. PICK qs : qs = Grown(parcels, p)
    OBVIOUS
  <2>3. /\ Len(qs) = Len(parcels) + 1 /\ DOMAIN qs = DOMAIN parcels \cup {Len(parcels) + 1}
        /\ qs[Len(parcels) + 1] = p /\ Keeps(parcels, qs)
    BY ONLY <1>1, <2>1, <2>2, ParcelAdded
  <2>4. Len(parcels) < MaxParcels
    BY <1>4 DEF CutShipment, Room
  <2>5. Len(parcels) \in Nat
    BY <1>1 DEF Parcels
  <2>6. RemainingOf(groups[g]) \in Nat /\ RemainingOf(groups[g]) <= Ordered
    BY <1>4, GroupFacts, WithinOrdered
  <2>7. n <= Ordered
    BY <1>1, <1>4, <2>6
  <2>8. Len(qs) <= MaxParcels
    BY <1>1, <2>3, <2>4, <2>5
  <2>9. \A y \in DOMAIN qs : qs[y].quantity <= Ordered
    BY <2>1, <2>3, <2>7 DEF Packed, Keeps
  <2> QED BY <2>1, <2>2, <2>8, <2>9 DEF Packed
<1>5. CASE \E g \in DOMAIN groups :
              Ship(g) \/ Fulfil(g) \/ HoldGroup(g) \/ ReleaseGroup(g) \/ CancelRemainder(g)
  <2>1. PICK g \in DOMAIN groups :
              Ship(g) \/ Fulfil(g) \/ HoldGroup(g) \/ ReleaseGroup(g) \/ CancelRemainder(g)
    BY <1>5
  <2>2. RemainingOf(groups[g]) \in Nat
    BY GroupFacts
  <2>3. CASE Ship(g)
    <3>1. PICK n \in 1 .. RemainingOf(groups[g]) : CutShipment(g, n, "shipped")
      BY <2>3 DEF Ship
    <3>2. n \in Nat /\ n > 0 /\ n <= RemainingOf(groups[g])
      BY <2>2, <3>1
    <3> QED BY <1>4, <3>1, <3>2
  <2>4. CASE Fulfil(g)
    <3>1. PICK n : n = RemainingOf(groups[g])
      OBVIOUS
    <3>2. CutShipment(g, n, "delivered") /\ Workable(groups[g])
      BY <2>4, <3>1 DEF Fulfil, CutShipment
    <3>3. n > 0 /\ n \in Nat /\ n <= RemainingOf(groups[g])
      BY <2>2, <3>1, <3>2 DEF Workable
    <3> QED BY <1>4, <3>2, <3>3
  <2>5. CASE HoldGroup(g) \/ ReleaseGroup(g) \/ CancelRemainder(g)
    BY <1>3, <2>5 DEF HoldGroup, ReleaseGroup, CancelRemainder
  <2> QED BY <2>1, <2>3, <2>4, <2>5
<1>6. CASE \E p \in DOMAIN parcels : MarkLost(p) \/ Deliver(p)
  <2>1. PICK p \in DOMAIN parcels : MarkLost(p) \/ Deliver(p)
    BY <1>6
  <2>2. PICK a, b : a = "lost" /\ b = "delivered"
    OBVIOUS
  <2>3. a \in ParcelStates /\ b \in ParcelStates
    BY <2>2 DEF ParcelStates
  <2>4. parcels' = Put(parcels, p, Moved(parcels[p], a)) \/ parcels' = Put(parcels, p, Moved(parcels[p], b))
    BY <1>1, <2>1, <2>2 DEF MarkLost, Deliver, Put, Moved, Parcels
  <2> QED BY <1>2, <2>3, <2>4
<1>7. CASE \/ Allocate \/ EnsureRead \/ EnsureWrite \/ Process
           \/ HandleAllocated \/ SplitForAllocation \/ EndAllocated
           \/ CancelOrder \/ CancelAllForOrder \/ ReadShipped \/ OpenReturn \/ UNCHANGED vars
  <2>1. parcels' = parcels
    BY <1>7 DEF Allocate, EnsureRead, EnsureWrite, Process, HandleAllocated, SplitForAllocation, EndAllocated,
                CancelOrder, CancelAllForOrder, ReadShipped, OpenReturn, vars
  <2> QED BY <1>3, <2>1
<1>8. CASE \E r \in DOMAIN returns :
              Decide(r) \/ CancelReturn(r) \/ ReceiveReturn(r) \/ ReceiveReplaced(r) \/ CloseReturn(r)
  <2>1. parcels' = parcels
    BY <1>8 DEF Decide, CancelReturn, ReceiveReturn, ReceiveReplaced, CloseReturn, ClaimStatus
  <2> QED BY <1>3, <2>1
<1> QED BY <1>5, <1>6, <1>7, <1>8 DEF Next

LEMMA AskingStep == ASSUME Counts, Asking, [Next]_vars PROVE Asking'
<1>1. /\ returns \in Seq(ReturnRecords) /\ MaxReturns \in Nat /\ Ordered \in Nat
      /\ Len(returns) \in Nat /\ DOMAIN returns = 1 .. Len(returns)
  <2>1. returns \in Seq(ReturnRecords)
    BY DEF Counts, Returns
  <2> QED BY <2>1, BoundsAreNat
<1>2. ASSUME returns' = returns, asked' = asked PROVE Asking'
  BY <1>2 DEF Asking
<1>3. ASSUME NEW x \in DOMAIN returns, NEW e, e.quantity = returns[x].quantity, returns' = Put(returns, x, e), asked' = asked
      PROVE  Asking'
  <2>1. Len(returns') = Len(returns) /\ DOMAIN returns' = DOMAIN returns
    BY ONLY <1>1, <1>3, PutLen
  <2>2. \A r \in DOMAIN returns' : returns'[r].quantity <= Ordered
    BY <1>3, <2>1 DEF Asking, Put
  <2> QED BY <1>3, <2>1, <2>2 DEF Asking
<1>4. CASE \E r \in DOMAIN returns :
              Decide(r) \/ CancelReturn(r) \/ ReceiveReturn(r) \/ ReceiveReplaced(r) \/ CloseReturn(r)
  <2>1. PICK x \in DOMAIN returns :
              Decide(x) \/ CancelReturn(x) \/ ReceiveReturn(x) \/ ReceiveReplaced(x) \/ CloseReturn(x)
    BY <1>4
  <2>2. returns[x] \in ReturnRecords
    BY <1>1
  <2>3. asked' = asked
    BY <2>1 DEF Decide, CancelReturn, ReceiveReturn, ReceiveReplaced, CloseReturn, ClaimStatus, reads
  <2>4. \E to : returns' = Put(returns, x, [returns[x] EXCEPT !.status = to])
                \/ \E why : returns' = Put(returns, x, [returns[x] EXCEPT !.status = to, !.remedy = why])
    <3>1. ASSUME NEW from, NEW to, ClaimStatus(x, from, to)
          PROVE  returns' = Put(returns, x, [returns[x] EXCEPT !.status = to])
      BY <3>1 DEF ClaimStatus, Put
    <3>2. ASSUME NEW why, Received(x, why)
          PROVE  returns' = Put(returns, x, [returns[x] EXCEPT !.status = "received", !.remedy = why])
      BY <1>1, <3>2 DEF Received, Put
    <3>3. CASE Decide(x) \/ CancelReturn(x) \/ CloseReturn(x)
      BY <3>1, <3>3 DEF Decide, CancelReturn, CloseReturn
    <3>4. CASE ReceiveReturn(x) \/ ReceiveReplaced(x)
      <4>1. \E why : Received(x, why)
        BY <3>4 DEF ReceiveReturn, ReceiveReplaced
      <4> QED BY <3>2, <4>1
    <3> QED BY <2>1, <3>3, <3>4
  <2>5. \A to : [returns[x] EXCEPT !.status = to].quantity = returns[x].quantity
    BY <2>2 DEF ReturnRecords
  <2>6. \A to, why : [returns[x] EXCEPT !.status = to, !.remedy = why].quantity = returns[x].quantity
    BY <2>2 DEF ReturnRecords
  <2> QED BY <1>3, <2>3, <2>4, <2>5, <2>6
<1>5. CASE ReadShipped
  <2>1. returns' = returns /\ Len(returns) < MaxReturns
    BY <1>5 DEF ReadShipped, Room
  <2> QED BY <2>1 DEF Asking
<1>6. CASE OpenReturn
  <2>1. asked > 0 /\ asked' = 0 /\ asked \in 0 .. Ordered
    BY <1>6 DEF OpenReturn, Counts
  <2>2. CASE returns' = returns
    BY <2>1, <2>2 DEF Asking
  <2>3. CASE returns' # returns
    <3>1. PICK n \in 1 .. asked - AlreadyReturned, status \in {"requested", "approved"} :
             returns' = Append(returns, [quantity |-> n, status |-> status, remedy |-> "none"])
      BY <1>6, <2>3 DEF OpenReturn
    <3>2. AlreadyReturned \in Nat
      <4>1. ReturnedIn(returns) \in Nat
        BY ReturnTotalsType DEF Counts
      <4> QED BY <4>1 DEF AlreadyReturned, ReturnedIn
    <3>3. n <= Ordered
      BY <1>1, <2>1, <3>1, <3>2
    <3>4. PICK e : e = [quantity |-> n, status |-> status, remedy |-> "none"]
      OBVIOUS
    <3>5. e.quantity = n /\ returns' = Append(returns, e)
      BY <3>1, <3>4
    <3>6. Len(returns') = Len(returns) + 1 /\ DOMAIN returns' = 1 .. (Len(returns) + 1)
      BY ONLY <1>1, <3>5
    <3>7. \A r \in 1 .. (Len(returns) + 1) : returns'[r] = IF r = Len(returns) + 1 THEN e ELSE returns[r]
      BY ONLY <1>1, <3>5
    <3>8. \A r \in DOMAIN returns' : returns'[r].quantity <= Ordered
      BY <1>1, <3>3, <3>5, <3>6, <3>7 DEF Asking
    <3>9. Len(returns') <= MaxReturns
      BY <1>1, <2>1, <3>6 DEF Asking
    <3> QED BY <2>1, <3>8, <3>9 DEF Asking
  <2> QED BY <2>2, <2>3
<1>7. CASE \E g \in DOMAIN groups :
              Ship(g) \/ Fulfil(g) \/ HoldGroup(g) \/ ReleaseGroup(g) \/ CancelRemainder(g)
  <2>1. returns' = returns /\ asked' = asked
    BY <1>7 DEF Ship, Fulfil, CutShipment, HoldGroup, ReleaseGroup, CancelRemainder, reads
  <2> QED BY <1>2, <2>1
<1>8. CASE \/ Allocate \/ EnsureRead \/ EnsureWrite \/ Process
           \/ HandleAllocated \/ SplitForAllocation \/ EndAllocated
           \/ CancelOrder \/ CancelAllForOrder \/ UNCHANGED vars
           \/ \E p \in DOMAIN parcels : MarkLost(p) \/ Deliver(p)
  <2>1. returns' = returns /\ asked' = asked
    BY <1>8 DEF Allocate, EnsureRead, EnsureWrite, Process, HandleAllocated, SplitForAllocation, EndAllocated,
                CancelOrder, CancelAllForOrder, MarkLost, Deliver, reads, vars
  <2> QED BY <1>2, <2>1
<1> QED BY <1>4, <1>5, <1>6, <1>7, <1>8 DEF Next

LEMMA NamedStep == ASSUME Counts, Backing, Status, Named, [Next]_vars PROVE Named'
<1>1. events \in Events /\ hold \in Holdings /\ order \in Orders /\ Ordered \in Nat
  BY BoundsAreNat DEF Backing, Counts
<1>2. ASSUME events' = events PROVE Named'
  BY <1>2 DEF Named
<1>3. ASSUME NEW e \in EventRecords, e.waiting <= Ordered, events' = Append(events, e) PROVE Named'
  <2>1. PICK fs : fs = Append(events, e)
    OBVIOUS
  <2>2. /\ DOMAIN events = 1 .. Len(events) /\ DOMAIN fs = 1 .. (Len(events) + 1) /\ Len(events) \in Nat
        /\ fs[Len(events) + 1] = e /\ Keeps(events, fs)
    BY ONLY <1>1, <1>3, <2>1, RowAdded
  <2>3. \A i \in DOMAIN fs : fs[i].waiting <= Ordered
    <3>1. ASSUME NEW i \in DOMAIN fs PROVE fs[i].waiting <= Ordered
      <4>1. CASE i = Len(events) + 1
        BY <1>3, <2>2, <4>1
      <4>2. CASE i # Len(events) + 1
        <5>1. i \in DOMAIN events
          BY <2>2, <4>2
        <5> QED BY <2>2, <5>1 DEF Named, Keeps
      <4> QED BY <4>1, <4>2
    <3> QED BY <3>1
  <2> QED BY <1>3, <2>1, <2>3 DEF Named
<1>4. OrderCancelled \in EventRecords /\ OrderCancelled.waiting <= Ordered
  BY <1>1 DEF OrderCancelled, EventRecords
<1>5. ASSUME NEW status, NEW gs, NEW ps, Settles(status, gs, ps) PROVE Named'
  BY <1>1, <1>2, <1>3, <1>4, <1>5, SettlesKeep
<1>6. ASSUME events' = Tail(events), events # <<>> PROVE Named'
  <2>1. PICK fs : fs = Tail(events)
    OBVIOUS
  <2>2. /\ DOMAIN fs = 1 .. Len(fs) /\ DOMAIN events = 1 .. (Len(fs) + 1) /\ Len(fs) \in Nat
        /\ \A i \in 1 .. Len(fs) : fs[i] = events[i + 1]
    BY ONLY <1>1, <1>6, <2>1, FirstTaken
  <2>3. \A i \in 1 .. Len(fs) : i + 1 \in DOMAIN events
    BY <2>2
  <2> QED BY <1>6, <2>1, <2>2, <2>3 DEF Named
<1>7. CASE Allocate
  <2>1. PICK n \in 1 .. hold.owed : events' = Append(events, PreorderAllocated(hold.owed - n))
    BY <1>7 DEF Allocate
  <2>2. PICK a, b \in Nat : a = hold.stock /\ b = hold.owed
    BY <1>1 DEF Holdings
  <2>3. n \in Nat /\ b - n \in Nat /\ n <= b /\ n > 0
    BY <2>1, <2>2
  <2>4. Untouched
    <3>1. order.status = "cancelled" => a + b = 0
      BY <2>2 DEF Status
    <3> QED BY <2>2, <2>3, <3>1 DEF Untouched
  <2>5. Queue
    BY <2>4 DEF Backing, Untouched
  <2>6. b <= Awaited
    BY <1>1, <2>2, <2>5, QueueMeans
  <2>7. Awaited \in Nat /\ Sending \in Nat /\ Awaited <= Sending
    BY AwaitedType
  <2>8. Sending <= Ordered
    <3>1. CASE groups = <<>>
      BY <1>1, <3>1 DEF Sending
    <3>2. CASE groups # <<>>
      <4>1. groups \in Groups /\ Real(groups) = Ordered
        BY <3>2 DEF Counts
      <4>2. Remaining(groups) \in Nat /\ Shipped(groups) \in Nat /\ Remaining(groups) + Shipped(groups) <= Ordered
        BY <4>1, TotalsType
      <4> QED BY <1>1, <3>2, <4>2 DEF Sending
    <3> QED BY <3>1, <3>2
  <2>9. b - n <= Ordered
    BY <1>1, <2>3, <2>6, <2>7, <2>8
  <2>10. PICK m \in Nat : m = b - n
    BY <2>3
  <2>11. PICK e : e = PreorderAllocated(m)
    OBVIOUS
  <2>12. e \in EventRecords /\ e.waiting = m
    BY <2>11 DEF PreorderAllocated, EventRecords
  <2> QED BY <1>3, <2>1, <2>2, <2>9, <2>10, <2>11, <2>12
<1>8. CASE EnsureRead \/ EnsureWrite \/ Process \/ HandleAllocated \/ SplitForAllocation \/ ReadShipped \/ OpenReturn
           \/ UNCHANGED vars
  BY <1>2, <1>8 DEF EnsureRead, EnsureWrite, Process, HandleAllocated, SplitForAllocation, ReadShipped, OpenReturn, vars
<1>9. CASE \E g \in DOMAIN groups :
              Ship(g) \/ Fulfil(g) \/ HoldGroup(g) \/ ReleaseGroup(g) \/ CancelRemainder(g)
  <2>1. PICK g \in DOMAIN groups :
              Ship(g) \/ Fulfil(g) \/ HoldGroup(g) \/ ReleaseGroup(g) \/ CancelRemainder(g)
    BY <1>9
  <2>2. CASE Ship(g) \/ Fulfil(g)
    BY <1>5, <2>2 DEF Ship, Fulfil, CutShipment
  <2>3. CASE CancelRemainder(g)
    BY <1>5, <2>3 DEF CancelRemainder
  <2>4. CASE HoldGroup(g) \/ ReleaseGroup(g)
    BY <1>2, <2>4 DEF HoldGroup, ReleaseGroup
  <2> QED BY <2>1, <2>2, <2>3, <2>4
<1>10. CASE \E p \in DOMAIN parcels : MarkLost(p) \/ Deliver(p)
  BY <1>2, <1>5, <1>10 DEF MarkLost, Deliver
<1>11. CASE EndAllocated
  <2>1. events' = events \/ events' = Tail(events)
    BY <1>11 DEF EndAllocated
  <2>2. events # <<>>
    BY <1>11 DEF EndAllocated, Backing
  <2> QED BY <1>2, <1>6, <2>1, <2>2
<1>12. CASE CancelOrder \/ CancelAllForOrder
  BY <1>3, <1>4, <1>6, <1>12 DEF CancelOrder, CancelAllForOrder
<1>13. CASE \E r \in DOMAIN returns :
              Decide(r) \/ CancelReturn(r) \/ ReceiveReturn(r) \/ ReceiveReplaced(r) \/ CloseReturn(r)
  BY <1>2, <1>13 DEF Decide, CancelReturn, ReceiveReturn, ReceiveReplaced, CloseReturn, ClaimStatus
<1> QED BY <1>7, <1>8, <1>9, <1>10, <1>11, <1>12, <1>13 DEF Next

LEMMA WorkingStep == ASSUME Counts, Working, [Next]_vars PROVE Working'
<1>1. ensuring \in Nat /\ ensuring <= MaxEnsuring /\ MaxEnsuring \in Nat /\ relay \in Handling
  BY BoundsAreNat DEF Counts, Working
<1>2. ASSUME relay' = relay, ensuring' = ensuring PROVE Working'
  BY <1>2 DEF Working
<1>3. ASSUME relay'.todo \subseteq relay.todo, ensuring' = ensuring PROVE Working'
  BY <1>3 DEF Working
<1>4. CASE EnsureRead
  <2>1. ensuring' \in 0 .. MaxEnsuring /\ relay' = relay
    BY <1>1, <1>4 DEF EnsureRead
  <2> QED BY <2>1 DEF Working
<1>5. CASE EnsureWrite
  <2>1. ensuring' \in 0 .. MaxEnsuring /\ relay' = relay
    BY <1>1, <1>5 DEF EnsureWrite
  <2> QED BY <2>1 DEF Working
<1>6. CASE HandleAllocated
  <2>1. relay' = [busy |-> TRUE, left |-> ToRelease(events[1].waiting), todo |-> Queuing(groups)] /\ ensuring' = ensuring
    BY <1>6 DEF HandleAllocated, Queuing
  <2>2. \A todo \in Queuing(groups) : todo[2] <= Ordered
    BY WithinOrdered DEF Queuing
  <2> QED BY <2>1, <2>2 DEF Working
<1>7. CASE SplitForAllocation
  <2>1. PICK todo \in relay.todo : \E n : relay' = [relay EXCEPT !.left = @ - n, !.todo = @ \ {todo}]
    BY <1>7, SplitShape
  <2>2. relay'.todo = relay.todo \ {todo}
    BY <1>1, <2>1 DEF Handling
  <2>3. ensuring' = ensuring
    BY <1>7 DEF SplitForAllocation
  <2> QED BY <1>3, <2>2, <2>3
<1>8. CASE EndAllocated
  BY <1>3, <1>8 DEF EndAllocated
<1>9. CASE \E g \in DOMAIN groups :
              Ship(g) \/ Fulfil(g) \/ HoldGroup(g) \/ ReleaseGroup(g) \/ CancelRemainder(g)
  <2>1. relay' = relay /\ ensuring' = ensuring
    BY <1>9 DEF Ship, Fulfil, CutShipment, HoldGroup, ReleaseGroup, CancelRemainder, reads
  <2> QED BY <1>2, <2>1
<1>10. CASE \/ Allocate \/ Process \/ CancelOrder \/ CancelAllForOrder \/ ReadShipped \/ OpenReturn \/ UNCHANGED vars
            \/ \E p \in DOMAIN parcels : MarkLost(p) \/ Deliver(p)
            \/ \E r \in DOMAIN returns :
                 Decide(r) \/ CancelReturn(r) \/ ReceiveReturn(r) \/ ReceiveReplaced(r) \/ CloseReturn(r)
  <2>1. relay' = relay /\ ensuring' = ensuring
    BY <1>10 DEF Allocate, Process, CancelOrder, CancelAllForOrder, ReadShipped, OpenReturn, MarkLost, Deliver,
                 Decide, CancelReturn, ReceiveReturn, ReceiveReplaced, CloseReturn, ClaimStatus, reads, vars
  <2> QED BY <1>2, <2>1
<1> QED BY <1>4, <1>5, <1>6, <1>7, <1>8, <1>9, <1>10 DEF Next

LEMMA BoundsAtStart == Init => Bounds
<1>1. SUFFICES ASSUME Init PROVE Bounds
  OBVIOUS
<1>2. groups = <<>> /\ parcels = <<>> /\ returns = <<>> /\ events = <<>> /\ ensuring = 0 /\ asked = 0 /\ relay.todo = {}
  BY <1>1 DEF Init
<1>3. Len(<<>>) = 0 /\ DOMAIN <<>> = {}
  OBVIOUS
<1> QED BY <1>2, <1>3, BoundsAreNat DEF Bounds, Few, Packed, Asking, Named, Working

LEMMA BoundsStep == ASSUME NoDeparture, Counts, Backing, Status, Bounds, [Next]_vars PROVE Bounds'
BY FewStep, PackedStep, AskingStep, NamedStep, WorkingStep DEF Bounds

LEMMA BoundsKeepShape == ASSUME Counts, Backing, Bounds PROVE TypeOK
<1>1. /\ groups \in Seq(GroupRecords) /\ parcels \in Seq(ParcelRecords) /\ returns \in Seq(ReturnRecords)
      /\ events \in Seq(EventRecords) /\ order \in Orders /\ relay \in Handling /\ hold \in Holdings
  BY DEF Counts, Backing, Groups, Parcels, Returns, Events
<1>2. /\ Len(parcels) \in Nat /\ Len(parcels) <= MaxParcels /\ MaxParcels \in Nat /\ Ordered \in Nat
  BY <1>1, BoundsAreNat DEF Bounds, Packed
<1>3. /\ order.status \in {"paid", "processing", "shipped", "delivered", "cancelled"}
      /\ order.kind \in Kinds /\ order.owed \in Backorders
  BY <1>1 DEF Orders
<1>4. Len(groups) <= MaxGroups /\ Range(groups) \subseteq GroupStates
  <2>1. ASSUME NEW g \in DOMAIN groups PROVE groups[g] \in GroupStates
    <3>1. groups[g] \in GroupRecords
      BY <1>1
    <3>2. groups[g].shipped \in 0 .. Ordered /\ groups[g].source \in 0 .. MaxParcels
      BY <1>2, GroupFacts, WithinOrdered
    <3> QED BY <3>1, <3>2 DEF GroupRecords, GroupStates
  <2> QED BY <2>1 DEF Bounds, Few, Range
<1>5. Len(parcels) <= MaxParcels
  BY <1>2
<1>6. Range(parcels) \subseteq
           [group : DOMAIN groups, quantity : 1 .. Ordered, status : {"shipped", "delivered", "lost"}]
  <2>1. ASSUME NEW p \in DOMAIN parcels
        PROVE  parcels[p] \in [group : DOMAIN groups, quantity : 1 .. Ordered, status : {"shipped", "delivered", "lost"}]
    <3>1. parcels[p] \in ParcelRecords
      BY <1>1
    <3>2. parcels[p].group \in DOMAIN groups
      BY DEF Counts, Tracked, Linking
    <3>3. parcels[p].quantity \in Nat \ {0} /\ parcels[p].quantity <= Ordered
      BY <3>1 DEF ParcelRecords, Bounds, Packed
    <3>4. parcels[p].quantity \in 1 .. Ordered
      BY <1>2, <3>3
    <3> QED BY <3>1, <3>2, <3>4 DEF ParcelRecords, ParcelStates
  <2> QED BY <2>1 DEF Range
<1>7. hold \in [stock : Nat, owed : Nat]
  BY <1>1 DEF Holdings
<1>8. Len(returns) <= MaxReturns
  BY DEF Bounds, Asking
<1>9. Range(returns) \subseteq
           [quantity : 1 .. Ordered, remedy : {"none", "refund", "repair", "replace"},
            status : {"requested", "approved", "declined", "canceled", "received", "closed"}]
  <2>1. ASSUME NEW r \in DOMAIN returns
        PROVE  returns[r] \in
           [quantity : 1 .. Ordered, remedy : {"none", "refund", "repair", "replace"},
            status : {"requested", "approved", "declined", "canceled", "received", "closed"}]
    <3>1. returns[r] \in ReturnRecords
      BY <1>1
    <3>2. returns[r].quantity \in Nat \ {0} /\ returns[r].quantity <= Ordered
      BY <3>1 DEF ReturnRecords, Bounds, Asking
    <3>3. returns[r].quantity \in 1 .. Ordered
      BY <1>2, <3>2
    <3> QED BY <3>1, <3>3 DEF ReturnRecords
  <2> QED BY <2>1 DEF Range
<1>10. Range(events) \subseteq [name : {"cancelled", "allocated"}, waiting : 0 .. Ordered]
  <2>1. ASSUME NEW i \in DOMAIN events
        PROVE  events[i] \in [name : {"cancelled", "allocated"}, waiting : 0 .. Ordered]
    <3>1. events[i] \in EventRecords
      BY <1>1
    <3>2. events[i].waiting \in Nat /\ events[i].waiting <= Ordered
      BY <3>1 DEF EventRecords, Bounds, Named
    <3>3. events[i].waiting \in 0 .. Ordered
      BY <1>2, <3>2
    <3> QED BY <3>1, <3>3 DEF EventRecords
  <2> QED BY <2>1 DEF Range
<1>11. ensuring \in 0 .. MaxEnsuring /\ relay.busy \in BOOLEAN /\ asked \in 0 .. Ordered
  <2>1. relay.busy \in BOOLEAN
    BY <1>1 DEF Handling
  <2> QED BY <2>1 DEF Bounds, Working, Counts
<1>12. relay.todo \subseteq (DOMAIN groups) \X (1 .. Ordered)
  <2>1. ASSUME NEW todo \in relay.todo PROVE todo \in (DOMAIN groups) \X (1 .. Ordered)
    <3>1. todo \in Nat \X (Nat \ {0})
      BY <1>1 DEF Handling
    <3>2. todo[1] \in DOMAIN groups /\ todo[2] <= Ordered
      BY DEF Counts, Bounds, Working
    <3>3. todo[2] \in 1 .. Ordered
      BY <1>2, <3>1, <3>2
    <3>4. todo = <<todo[1], todo[2]>>
      BY <3>1
    <3> QED BY <3>2, <3>3, <3>4
  <2> QED BY <2>1
<1> QED BY <1>3, <1>4, <1>5, <1>6, <1>7, <1>8, <1>9, <1>10, <1>11, <1>12 DEF TypeOK

(* Fulfilment orders, parcels, returns, the hold, the rows on their way and what is read before *)
(* a transaction keep their shape whatever lost, found, split, cancelled and replaced units do  *)
(* to the counts; the stock behind a row bounds what it names (lost.ts, found.ts, split.ts,     *)
(* release-allocated.ts, create.ts).                                                            *)
THEOREM TypeCorrect ==
    ASSUME Divergences = {}
    PROVE  Spec => []TypeOK
<1>1. NoDeparture
  BY DEF NoDeparture
<1>2. Spec => [](Counts /\ Backing /\ Status)
  BY <1>1, BackingAlways
<1>3. Init => Bounds
  BY BoundsAtStart
<1>4. Counts /\ Backing /\ Status /\ Bounds /\ [Next]_vars => Bounds'
  BY <1>1, BoundsStep
<1>5. Counts /\ Backing /\ Bounds => TypeOK
  BY BoundsKeepShape
<1> QED BY <1>2, <1>3, <1>4, <1>5, PTL DEF Spec
=============================================================================
