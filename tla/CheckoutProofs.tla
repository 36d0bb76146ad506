--------------------------- MODULE CheckoutProofs ---------------------------
(***************************************************************************)
(* Checkout: the cart's lines, the order that takes them and the units its *)
(* hold sets aside, for any number of writers, checkouts and orders.       *)
(***************************************************************************)
EXTENDS Checkout, SumTheorems

-----------------------------------------------------------------------------
(* The least of a set of numbers, and the cart's sequences. *)

LEMMA MinIs ==
    ASSUME NEW T \in SUBSET Nat, T # {}
    PROVE  Min(T) \in T /\ \A k \in T : Min(T) <= k
BY Least DEF Min

-----------------------------------------------------------------------------
(* The lines of a cart. *)

LEMMA QuantityType ==
    ASSUME NEW items \in Seq(Lines), NEW p
    PROVE  QuantityIn(items, p) \in Nat
<1> DEFINE f == [i \in DOMAIN items |-> IF items[i].product = p THEN items[i].quantity ELSE 0]
<1>1. f \in [1 .. Len(items) -> Nat]
  <2>1. DOMAIN items = 1 .. Len(items) /\ \A i \in 1 .. Len(items) : items[i] \in Lines
    OBVIOUS
  <2>2. \A i \in 1 .. Len(items) : items[i].quantity \in Nat
    BY <2>1 DEF Lines
  <2> QED BY <2>1, <2>2
<1>2. IsFiniteSet(1 .. Len(items))
  BY FS_Interval
<1> HIDE DEF f
<1>3. Sum(f) \in Nat
  BY <1>1, <1>2, SumType
<1> QED BY <1>3 DEF f, QuantityIn

LEMMA TotalType ==
    ASSUME NEW items \in Seq(Lines), NEW prices \in [Products -> Nat]
    PROVE  Total(items, prices) \in Nat
<1> DEFINE f == [i \in DOMAIN items |-> items[i].quantity * prices[items[i].product]]
<1>1. \A i \in DOMAIN items : items[i].quantity * prices[items[i].product] \in Nat
  <2> TAKE i \in DOMAIN items
  <2>1. items[i].quantity \in Nat /\ prices[items[i].product] \in Nat
    <3>1. items[i] \in Lines
      OBVIOUS
    <3> QED BY <3>1 DEF Lines
  <2>2. \A a, b \in Nat : a * b \in Nat
    OBVIOUS
  <2> QED BY <2>1, <2>2
<1>2. f \in [1 .. Len(items) -> Nat]
  BY <1>1
<1>3. IsFiniteSet(1 .. Len(items))
  BY FS_Interval
<1> HIDE DEF f
<1>4. Sum(f) \in Nat
  BY <1>2, <1>3, SumType
<1> QED BY <1>4 DEF f, Total

(* A cart with one line per product and none above the limit. *)
Distinct(items) == \A i, j \in DOMAIN items : items[i].product = items[j].product => i = j
InLimit(items) == \A i \in DOMAIN items : items[i].quantity \in 1 .. LineMax
Sound(items) == Distinct(items) /\ InLimit(items)

(* Taking lines out: what is left was there, each line once. *)
Kept(items, p, f) ==
    f = [n \in 0 .. Len(items) |->
            IF n = 0 THEN <<>>
            ELSE IF items[n].product = p THEN f[n - 1] ELSE Append(f[n - 1], items[n])]

LEMMA KeptExists ==
    ASSUME NEW items \in Seq(Lines), NEW p
    PROVE  \E f : Kept(items, p, f)
<1> DEFINE Steps(n, f) == /\ f[0] = <<>>
                          /\ \A m \in 1 .. n : f[m] = IF items[m].product = p THEN f[m - 1]
                                                      ELSE Append(f[m - 1], items[m])
           Fn(n) == \E f : f = [m \in 0 .. n |-> f[m]] /\ Steps(n, f)
           T == {n \in 0 .. Len(items) : ~ Fn(n)}
<1>1. T = {}
  <2> SUFFICES ASSUME T # {} PROVE FALSE
    OBVIOUS
  <2>1. PICK n \in T : \A k \in T : n <= k
    <3>1. T \in SUBSET Nat
      OBVIOUS
    <3> HIDE DEF T
    <3> QED BY <3>1, Least
  <2>2. CASE n = 0
    <3> DEFINE g == [m \in 0 .. 0 |-> <<>>]
    <3>1. g = [m \in 0 .. 0 |-> g[m]] /\ Steps(0, g)
      OBVIOUS
    <3> HIDE DEF g, Steps
    <3>2. Fn(0)
      BY <3>1
    <3> QED BY <2>1, <2>2, <3>2
  <2>3. CASE n # 0
    <3>1. n \in 1 .. Len(items) /\ Fn(n - 1)
      BY <2>1, <2>3
    <3>2. PICK f : Steps(n - 1, f)
      BY <3>1
    <3> DEFINE g == [m \in 0 .. n |-> IF m = n
                        THEN IF items[n].product = p THEN f[n - 1] ELSE Append(f[n - 1], items[n])
                        ELSE f[m]]
    <3>3. g = [m \in 0 .. n |-> g[m]]
      OBVIOUS
    <3>4. g[0] = f[0] /\ \A m \in 0 .. n - 1 : g[m] = f[m]
      BY <3>1
    <3>5. g[n] = IF items[n].product = p THEN g[n - 1] ELSE Append(g[n - 1], items[n])
      BY <3>1, <3>4
    <3> HIDE DEF g
    <3>6. ASSUME NEW m \in 1 .. n
          PROVE  g[m] = IF items[m].product = p THEN g[m - 1] ELSE Append(g[m - 1], items[m])
      <4>1. CASE m = n
        BY <3>5, <4>1
      <4>2. CASE m # n
        <5>1. m \in 1 .. n - 1 /\ m \in 0 .. n - 1 /\ m - 1 \in 0 .. n - 1
          BY <3>1, <4>2
        <5> QED BY <3>2, <3>4, <5>1
      <4> QED BY <4>1, <4>2
    <3>7. Steps(n, g)
      BY <3>2, <3>4, <3>6
    <3> HIDE DEF Steps
    <3>8. Fn(n)
      BY <3>3, <3>7
    <3> QED BY <2>1, <3>8
  <2> QED BY <2>2, <2>3
<1>2. Fn(Len(items))
  <2>1. Len(items) \in 0 .. Len(items)
    OBVIOUS
  <2> HIDE DEF Fn
  <2> QED BY <1>1, <2>1
<1>3. PICK f : f = [m \in 0 .. Len(items) |-> f[m]] /\ Steps(Len(items), f)
  BY <1>2
<1>4. \A n \in 0 .. Len(items) :
        f[n] = IF n = 0 THEN <<>>
               ELSE IF items[n].product = p THEN f[n - 1] ELSE Append(f[n - 1], items[n])
  BY <1>3
<1>5. Kept(items, p, f)
  <2> DEFINE E(n) == IF n = 0 THEN <<>>
                     ELSE IF items[n].product = p THEN f[n - 1] ELSE Append(f[n - 1], items[n])
  <2>1. \A n \in 0 .. Len(items) : f[n] = E(n)
    BY <1>4
  <2> HIDE DEF E
  <2>2. f = [n \in 0 .. Len(items) |-> E(n)]
    BY <1>3, <2>1
  <2> QED BY <2>2 DEF E, Kept
<1> QED BY <1>5

LEMMA WithoutIs ==
    ASSUME NEW items \in Seq(Lines), NEW p
    PROVE  \E f : Kept(items, p, f) /\ Without(items, p) = f[Len(items)]
<1> DEFINE f == CHOOSE g : Kept(items, p, g)
<1>1. Kept(items, p, f)
  BY KeptExists
<1>2. Without(items, p) = f[Len(items)]
  BY DEF Without, Kept
<1> QED BY <1>1, <1>2

(* Every line left is a line that was there, and two are never the same one. *)
LEMMA WithoutSound ==
    ASSUME NEW items \in Seq(Lines), Sound(items), NEW p
    PROVE  Without(items, p) \in Seq(Lines) /\ Sound(Without(items, p))
<1>1. PICK f : Kept(items, p, f) /\ Without(items, p) = f[Len(items)]
  BY WithoutIs
<1> DEFINE Good(n) == /\ f[n] \in Seq(Lines) /\ Distinct(f[n])
                      /\ \A i \in DOMAIN f[n] : \E j \in 1 .. n : f[n][i] = items[j]
           T == {n \in 0 .. Len(items) : ~ Good(n)}
<1>2. f[0] = <<>> /\ \A n \in 1 .. Len(items) :
          f[n] = IF items[n].product = p THEN f[n - 1] ELSE Append(f[n - 1], items[n])
  <2>1. f = [n \in 0 .. Len(items) |->
            IF n = 0 THEN <<>>
            ELSE IF items[n].product = p THEN f[n - 1] ELSE Append(f[n - 1], items[n])]
    BY <1>1 DEF Kept
  <2>2. \A n \in 0 .. Len(items) :
          f[n] = IF n = 0 THEN <<>>
                 ELSE IF items[n].product = p THEN f[n - 1] ELSE Append(f[n - 1], items[n])
    BY <2>1
  <2> QED BY <2>2
<1>3. T = {}
  <2> SUFFICES ASSUME T # {} PROVE FALSE
    OBVIOUS
  <2>1. PICK n \in T : \A k \in T : n <= k
    <3>1. T \in SUBSET Nat
      OBVIOUS
    <3> HIDE DEF T
    <3> QED BY <3>1, Least
  <2>2. Good(0)
    BY <1>2 DEF Distinct
  <2>3. n \in 1 .. Len(items)
    BY <2>1, <2>2
  <2>4. Good(n - 1)
    BY <2>1, <2>3
  <2>5. CASE items[n].product = p
    <3>1. f[n] = f[n - 1]
      BY <1>2, <2>3, <2>5
    <3>2. Good(n)
      BY <2>3, <2>4, <3>1
    <3> QED BY <2>1, <3>2
  <2>6. CASE items[n].product # p
    <3> DEFINE s == f[n - 1]
    <3>1. f[n] = Append(s, items[n])
      BY <1>2, <2>3, <2>6
    <3>2. s \in Seq(Lines) /\ Distinct(s) /\ \A i \in DOMAIN s : \E j \in 1 .. n - 1 : s[i] = items[j]
      BY <2>4
    <3>3. items[n] \in Lines
      BY <2>3
    <3> HIDE DEF s
    <3>4. Append(s, items[n]) \in Seq(Lines) /\ Len(Append(s, items[n])) = Len(s) + 1
          /\ Append(s, items[n])[Len(s) + 1] = items[n]
          /\ \A i \in 1 .. Len(s) : Append(s, items[n])[i] = s[i]
      BY <3>2, <3>3
    <3>5. \A i \in 1 .. Len(s) : s[i].product # items[n].product
      <4> SUFFICES ASSUME NEW i \in 1 .. Len(s) PROVE s[i].product # items[n].product
        OBVIOUS
      <4>1. PICK j \in 1 .. n - 1 : s[i] = items[j]
        BY <3>2
      <4> QED BY <4>1, <2>3 DEF Sound, Distinct
    <3>6. \A i \in 1 .. Len(s) + 1 : \E j \in 1 .. n : f[n][i] = items[j]
      <4> SUFFICES ASSUME NEW i \in 1 .. Len(s) + 1 PROVE \E j \in 1 .. n : f[n][i] = items[j]
        OBVIOUS
      <4>1. CASE i = Len(s) + 1
        BY <2>3, <3>1, <3>4, <4>1
      <4>2. CASE i # Len(s) + 1
        <5>1. i \in 1 .. Len(s)
          <6>1. Len(s) \in Nat
            BY <3>2
          <6> QED BY <4>2, <6>1
        <5>2. PICK j \in 1 .. n - 1 : s[i] = items[j]
          BY <3>2, <5>1
        <5>3. f[n][i] = items[j] /\ j \in 1 .. n
          BY <2>3, <3>1, <3>4, <5>1, <5>2
        <5> QED BY <5>3
      <4> QED BY <4>1, <4>2
    <3>7. DOMAIN f[n] = 1 .. Len(s) + 1
      BY <3>1, <3>4
    <3>8. Distinct(f[n])
      <4> SUFFICES ASSUME NEW i \in 1 .. Len(s) + 1, NEW j \in 1 .. Len(s) + 1,
                          f[n][i].product = f[n][j].product
                   PROVE  i = j
        BY <3>7 DEF Distinct
      <4>1. Len(s) \in Nat
        BY <3>2
      <4>2. CASE i = Len(s) + 1 /\ j \in 1 .. Len(s)
        BY <3>1, <3>4, <3>5, <4>2
      <4>3. CASE j = Len(s) + 1 /\ i \in 1 .. Len(s)
        BY <3>1, <3>4, <3>5, <4>3
      <4>4. CASE i \in 1 .. Len(s) /\ j \in 1 .. Len(s)
        BY <3>1, <3>2, <3>4, <4>4 DEF Distinct
      <4> QED BY <4>1, <4>2, <4>3, <4>4
    <3>9. Good(n)
      BY <3>1, <3>4, <3>6, <3>7, <3>8
    <3> QED BY <2>1, <3>9
  <2> QED BY <2>5, <2>6
<1>4. Good(Len(items))
  <2>1. Len(items) \in 0 .. Len(items)
    OBVIOUS
  <2> HIDE DEF Good
  <2> QED BY <1>3, <2>1
<1>5. InLimit(f[Len(items)])
  BY <1>4 DEF InLimit, Sound
<1> QED BY <1>1, <1>4, <1>5 DEF Sound

-----------------------------------------------------------------------------
(* The shapes, and what a line write may still push. *)

WriteRecord == [pc : {"idle", "matching", "missed", "pushing"}, product : Products \cup {NoWrite.product},
                quantity : Nat \ {0}, mode : {"set", "add", "update"}, tries : 0 .. MaxTries]
RequestRecord == [pc : {"idle", "reading", "reserving", "writing", "releasing"}, order : Orders \cup {NoOrder},
                  fromCart : BOOLEAN, version : Nat, items : Seq(Lines), total : Nat, shown : Nat]
HoldRecord == [status : {"none", "held", "released", "committed"}, items : Seq(Lines)]
OrderRecord == [status : {"none", "pending", "paid", "cancelled"}, fromCart : BOOLEAN]

(* A product that may be bought, and, once it will be written as it stands, *)
(* a quantity within the limit.                                             *)
Pushable(now) ==
    now.pc # "idle" =>
        /\ now.product \in Products
        /\ now.mode # "add" \/ now.pc = "pushing" => now.quantity <= LineMax

CartShape == cart \in [version : 0 .. MaxVersion, items : Seq(Lines)] /\ Sound(cart.items)
CatalogueShape == price \in [Products -> Prices] /\ listed \in [Products -> BOOLEAN]
PlacedShape ==
    /\ shelf \in [Products -> Nat] /\ expired \subseteq Orders
    /\ hold \in [Orders -> HoldRecord] /\ order \in [Orders -> OrderRecord]
WriteShape == write \in [Writers -> WriteRecord] /\ \A w \in Writers : Pushable(write[w])
RequestShape == req \in [Requests -> RequestRecord]
TroubleShape == faults \in 0 .. MaxFaults /\ slips \in 0 .. faults

Shapes == CartShape /\ CatalogueShape /\ PlacedShape /\ WriteShape /\ RequestShape /\ TroubleShape

LEMMA NoLines == <<>> \in Seq(Lines) /\ Sound(<<>>)
BY DEF Sound, Distinct, InLimit

LEMMA WritingShape ==
    ASSUME WriteShape, NEW w \in Writers, NEW now \in WriteRecord, Pushable(now), Writing(w, now)
    PROVE  WriteShape'
BY DEF WriteShape, Writing, Pushable

LEMMA AskingShape ==
    ASSUME RequestShape, NEW r \in Requests, NEW now \in RequestRecord, Asking(r, now)
    PROVE  RequestShape'
BY DEF RequestShape, Asking

LEMMA NothingWritten == NoWrite \in WriteRecord /\ Pushable(NoWrite)
BY DEF NoWrite, WriteRecord, Pushable, MaxTries

LEMMA NothingAsked == NoRequest \in RequestRecord
BY DEF NoRequest, RequestRecord, Lines

LEMMA CartBecomesShape ==
    ASSUME CartShape, NEW items \in Seq(Lines), Sound(items), CartBecomes(items)
    PROVE  CartShape'
<1>1. MaxVersion \in Nat
  BY CheckoutAssumption
<1>2. cart' = [version |-> cart.version + 1, items |-> items] /\ cart.version + 1 \in 0 .. MaxVersion
  BY <1>1 DEF CartShape, CartBecomes
<1> QED BY <1>2 DEF CartShape

LEMMA InitShapes == Init => Shapes
<1> SUFFICES ASSUME Init PROVE Shapes
  OBVIOUS
<1>1. MaxVersion \in Nat /\ MaxFaults \in Nat /\ Units \in Nat /\ Prices # {}
  BY CheckoutAssumption
<1>2. CartShape
  BY <1>1, NoLines DEF Init, CartShape
<1>3. CatalogueShape
  <2>1. (CHOOSE n \in Prices : TRUE) \in Prices
    BY <1>1
  <2> QED BY <2>1 DEF Init, CatalogueShape
<1>4. PlacedShape
  BY <1>1, NoLines DEF Init, PlacedShape, NoHold, Unplaced, HoldRecord, OrderRecord
<1>5. WriteShape
  BY NothingWritten DEF Init, WriteShape
<1>6. RequestShape
  BY NothingAsked DEF Init, RequestShape
<1>7. TroubleShape
  BY <1>1 DEF Init, TroubleShape
<1> QED BY <1>2, <1>3, <1>4, <1>5, <1>6, <1>7 DEF Shapes

(* Line writes. *)

LEMMA StartWriteShape ==
    ASSUME WriteShape, NEW w \in Writers, NEW p \in Products, NEW q \in Nat \ {0},
           NEW mode \in {"set", "add", "update"}, mode # "add" => q <= LineMax, StartWrite(w, p, q, mode)
    PROVE  WriteShape'
<1> DEFINE now == [pc |-> "matching", product |-> p, quantity |-> q, mode |-> mode, tries |-> MaxTries]
<1>1. now \in WriteRecord /\ Pushable(now)
  BY DEF WriteRecord, Pushable, MaxTries
<1>2. Writing(w, now)
  BY DEF StartWrite
<1> HIDE DEF now
<1> QED BY <1>1, <1>2, WritingShape

LEMMA RetryShape ==
    ASSUME WriteShape, NEW w \in Writers, write[w].pc # "idle", Retry(w)
    PROVE  WriteShape'
<1>1. CASE write[w].tries <= 1
  BY <1>1, NothingWritten, WritingShape DEF Retry
<1>2. CASE ~ write[w].tries <= 1
  <2> DEFINE now == [write[w] EXCEPT !.pc = "matching", !.tries = @ - 1]
  <2>1. write[w] \in WriteRecord /\ Pushable(write[w])
    BY DEF WriteShape
  <2>2. write[w].tries - 1 \in 0 .. MaxTries
    BY <1>2, <2>1 DEF WriteRecord, MaxTries
  <2>3. now \in WriteRecord
    BY <2>1, <2>2 DEF WriteRecord
  <2>4. Pushable(now)
    BY <2>1 DEF WriteRecord, Pushable
  <2>5. Writing(w, now)
    BY <1>2 DEF Retry
  <2> HIDE DEF now
  <2> QED BY <2>3, <2>4, <2>5, WritingShape
<1> QED BY <1>1, <1>2

LEMMA MovesOnShape ==
    ASSUME WriteShape, NEW w \in Writers, write[w].pc # "idle", NEW pc \in {"missed", "pushing"},
           pc = "pushing" => write[w].quantity <= LineMax,
           Writing(w, [write[w] EXCEPT !.pc = pc])
    PROVE  WriteShape'
<1> DEFINE now == [write[w] EXCEPT !.pc = pc]
<1>1. write[w] \in WriteRecord /\ Pushable(write[w])
  BY DEF WriteShape
<1>2. now \in WriteRecord /\ Pushable(now)
  BY <1>1 DEF WriteRecord, Pushable
<1> HIDE DEF now
<1> QED BY <1>2, WritingShape DEF now

LEMMA UpsertShape ==
    ASSUME Shapes, NEW w \in Writers, UpsertCartItem(w) \/ MergeLine(w)
    PROVE  Shapes'
<1>1. LineMax \in Nat /\ Quantities \subseteq Nat \ {0}
  BY CheckoutAssumption
<1>2. WriteShape'
  <2>1. CASE UpsertCartItem(w)
    <3>1. PICK p \in Products, q \in Quantities, mode \in {"set", "add", "update"} :
            (mode = "add" \/ q <= LineMax) /\ StartWrite(w, p, q, mode)
      BY <2>1 DEF UpsertCartItem
    <3> QED BY <1>1, <3>1, StartWriteShape DEF Shapes
  <2>2. CASE MergeLine(w)
    <3>1. PICK p \in Products, q \in Quantities :
            LET held == QuantityIn(cart.items, p)
                add == Min({held + q, LineMax}) - held
            IN  add > 0 /\ StartWrite(w, p, add, "add")
      BY <2>2 DEF MergeLine
    <3> DEFINE held == QuantityIn(cart.items, p)
               add == Min({held + q, LineMax}) - held
    <3>2. held \in Nat
      BY QuantityType DEF Shapes, CartShape
    <3>3. q \in Nat
      BY <1>1
    <3> HIDE DEF held
    <3>4. Min({held + q, LineMax}) \in {held + q, LineMax}
      BY <1>1, <3>2, <3>3, MinIs
    <3>5. add \in Int /\ add > 0 /\ StartWrite(w, p, add, "add")
      BY <1>1, <3>1, <3>2, <3>3, <3>4 DEF held
    <3>6. add \in Nat \ {0}
      BY <3>5
    <3> HIDE DEF add
    <3> QED BY <3>5, <3>6, StartWriteShape DEF Shapes
  <2> QED BY <2>1, <2>2
<1> QED BY <1>2 DEF Shapes, CartShape, CatalogueShape, PlacedShape, RequestShape, TroubleShape,
           UpsertCartItem, MergeLine, catalogue, placed, trouble

(* The line the first statement changes stays within the limit. *)
LEMMA MatchShape ==
    ASSUME Shapes, NEW w \in Writers, MatchExistingLine(w)
    PROVE  Shapes'
<1>1. LineMax \in Nat
  BY CheckoutAssumption
<1>2. write[w] \in WriteRecord /\ Pushable(write[w]) /\ write[w].pc = "matching"
  BY DEF Shapes, WriteShape, MatchExistingLine
<1>3. CASE Matching(w) # {}
  <2> DEFINE i == Min(Matching(w))
             q == write[w].quantity
             new == IF write[w].mode = "add" THEN cart.items[i].quantity + q ELSE q
             items == [cart.items EXCEPT ![i].quantity = new]
  <2>1. CartBecomes(items) /\ Writing(w, NoWrite)
    BY <1>3 DEF MatchExistingLine
  <2>2. cart.items \in Seq(Lines) /\ Sound(cart.items)
    BY DEF Shapes, CartShape
  <2>3. i \in Matching(w)
    <3>1. Matching(w) \in SUBSET Nat
      BY <2>2 DEF Matching
    <3> QED BY <1>3, <3>1, MinIs
  <2>4. i \in 1 .. Len(cart.items)
        /\ IF write[w].mode = "add" THEN cart.items[i].quantity <= LineMax - q ELSE TRUE
    <3> HIDE DEF i
    <3> QED BY <2>2, <2>3 DEF Matching
  <2> HIDE DEF i
  <2>5. q \in Nat \ {0} /\ cart.items[i] \in Lines /\ cart.items[i].quantity \in Nat
    <3>1. cart.items[i] \in Lines
      BY <2>2, <2>4
    <3> QED BY <1>2, <3>1 DEF WriteRecord, Lines
  <2> HIDE DEF q
  <2>6. new \in 1 .. LineMax
    <3>1. CASE write[w].mode = "add"
      BY <1>1, <2>4, <2>5, <3>1
    <3>2. CASE write[w].mode # "add"
      BY <1>1, <1>2, <2>5, <3>2 DEF Pushable, q
    <3> QED BY <3>1, <3>2
  <2> HIDE DEF new
  <2>7. [cart.items[i] EXCEPT !.quantity = new] \in Lines
    BY <2>5, <2>6 DEF Lines
  <2>8. items \in Seq(Lines) /\ Len(items) = Len(cart.items)
        /\ \A j \in 1 .. Len(cart.items) :
              items[j] = IF j = i THEN [cart.items[i] EXCEPT !.quantity = new] ELSE cart.items[j]
    BY <2>2, <2>4, <2>7
  <2>9. \A j \in 1 .. Len(cart.items) : items[j].product = cart.items[j].product
    BY <2>2, <2>5, <2>8 DEF Lines
  <2> HIDE DEF items
  <2>10. Distinct(items)
    BY <2>2, <2>8, <2>9 DEF Sound, Distinct
  <2>11. InLimit(items)
    <3> SUFFICES ASSUME NEW j \in 1 .. Len(cart.items) PROVE items[j].quantity \in 1 .. LineMax
      BY <2>8 DEF InLimit
    <3>1. CASE j = i
      BY <2>5, <2>6, <2>8, <3>1 DEF Lines
    <3>2. CASE j # i
      BY <2>2, <2>8, <3>2 DEF Sound, InLimit
    <3> QED BY <3>1, <3>2
  <2>12. CartShape'
    BY <2>1, <2>8, <2>10, <2>11, CartBecomesShape DEF Sound, Shapes
  <2>13. WriteShape'
    BY <2>1, NothingWritten, WritingShape DEF Shapes
  <2> QED BY <2>12, <2>13 DEF Shapes, CatalogueShape, PlacedShape, RequestShape, TroubleShape,
             MatchExistingLine, catalogue, placed, trouble
<1>4. CASE Matching(w) = {}
  <2>1. Writing(w, [write[w] EXCEPT !.pc = "missed"]) /\ UNCHANGED cart
    BY <1>4 DEF MatchExistingLine
  <2>2. WriteShape'
    BY <1>2, <2>1, MovesOnShape DEF Shapes
  <2> QED BY <2>1, <2>2 DEF Shapes, CartShape, CatalogueShape, PlacedShape, RequestShape, TroubleShape,
             MatchExistingLine, catalogue, placed, trouble
<1> QED BY <1>3, <1>4

LEMMA ResolveShape ==
    ASSUME Shapes, NEW w \in Writers, ResolveMiss(w)
    PROVE  Shapes'
<1> DEFINE q == write[w].quantity
           now == QuantityIn(cart.items, write[w].product)
<1>1. write[w] \in WriteRecord /\ Pushable(write[w]) /\ write[w].pc = "missed"
  BY DEF Shapes, WriteShape, ResolveMiss
<1>2. now \in Nat /\ q \in Nat /\ LineMax \in Nat
  BY <1>1, QuantityType, CheckoutAssumption DEF Shapes, CartShape, WriteRecord
<1>3. \/ Writing(w, NoWrite)
      \/ Retry(w)
      \/ Writing(w, [write[w] EXCEPT !.pc = "pushing"]) /\ (write[w].mode = "add" => now + q <= LineMax)
  BY DEF ResolveMiss
<1> HIDE DEF now
<1>4. WriteShape'
  <2>1. CASE Writing(w, NoWrite)
    BY <2>1, NothingWritten, WritingShape DEF Shapes
  <2>2. CASE Retry(w)
    BY <1>1, <2>2, RetryShape DEF Shapes
  <2>3. CASE Writing(w, [write[w] EXCEPT !.pc = "pushing"]) /\ (write[w].mode = "add" => now + q <= LineMax)
    <3>1. q <= LineMax
      BY <1>1, <1>2, <2>3 DEF Pushable
    <3> QED BY <1>1, <2>3, <3>1, MovesOnShape DEF Shapes
  <2> QED BY <1>3, <2>1, <2>2, <2>3
<1> QED BY <1>4 DEF Shapes, CartShape, CatalogueShape, PlacedShape, RequestShape, TroubleShape,
           ResolveMiss, catalogue, placed, trouble

LEMMA PushShape ==
    ASSUME Shapes, NEW w \in Writers, PushNewLine(w)
    PROVE  Shapes'
<1>1. write[w] \in WriteRecord /\ Pushable(write[w]) /\ write[w].pc = "pushing"
  BY DEF Shapes, WriteShape, PushNewLine
<1>2. CASE Has(cart.items, write[w].product)
  <2>1. Retry(w) /\ UNCHANGED cart
    BY <1>2 DEF PushNewLine
  <2>2. WriteShape'
    BY <1>1, <2>1, RetryShape DEF Shapes
  <2> QED BY <2>1, <2>2 DEF Shapes, CartShape, CatalogueShape, PlacedShape, RequestShape, TroubleShape,
             PushNewLine, catalogue, placed, trouble
<1>3. CASE ~ Has(cart.items, write[w].product)
  <2> DEFINE old == cart.items
             line == [product |-> write[w].product, quantity |-> write[w].quantity]
             items == Append(old, line)
  <2>1. CartBecomes(items) /\ Writing(w, NoWrite)
    BY <1>3 DEF PushNewLine
  <2>2. old \in Seq(Lines) /\ Sound(old) /\ LineMax \in Nat
    BY CheckoutAssumption DEF Shapes, CartShape
  <2>3. line \in Lines /\ line.quantity \in 1 .. LineMax
    BY <1>1, <2>2 DEF WriteRecord, Pushable, Lines
  <2>4. \A i \in 1 .. Len(old) : old[i].product # line.product
    BY <1>3, <2>2 DEF Has
  <2> HIDE DEF line, old
  <2>5. items \in Seq(Lines) /\ Len(items) = Len(old) + 1 /\ items[Len(old) + 1] = line
        /\ (\A i \in 1 .. Len(old) : items[i] = old[i]) /\ Len(old) \in Nat
    BY <2>2, <2>3
  <2> HIDE DEF items
  <2>6. Distinct(items)
    <3> SUFFICES ASSUME NEW i \in 1 .. Len(old) + 1, NEW j \in 1 .. Len(old) + 1,
                        items[i].product = items[j].product
                 PROVE  i = j
      BY <2>5 DEF Distinct
    <3>1. CASE i = Len(old) + 1 /\ j \in 1 .. Len(old)
      BY <2>4, <2>5, <3>1
    <3>2. CASE j = Len(old) + 1 /\ i \in 1 .. Len(old)
      BY <2>4, <2>5, <3>2
    <3>3. CASE i \in 1 .. Len(old) /\ j \in 1 .. Len(old)
      BY <2>2, <2>5, <3>3 DEF Sound, Distinct
    <3> QED BY <2>5, <3>1, <3>2, <3>3
  <2>7. InLimit(items)
    <3> SUFFICES ASSUME NEW i \in 1 .. Len(old) + 1 PROVE items[i].quantity \in 1 .. LineMax
      BY <2>5 DEF InLimit
    <3>1. CASE i = Len(old) + 1
      BY <2>3, <2>5, <3>1
    <3>2. CASE i \in 1 .. Len(old)
      BY <2>2, <2>5, <3>2 DEF Sound, InLimit
    <3> QED BY <2>5, <3>1, <3>2
  <2>8. CartShape'
    BY <2>1, <2>5, <2>6, <2>7, CartBecomesShape DEF Sound, Shapes
  <2>9. WriteShape'
    BY <2>1, NothingWritten, WritingShape DEF Shapes
  <2> QED BY <2>8, <2>9 DEF Shapes, CatalogueShape, PlacedShape, RequestShape, TroubleShape,
             PushNewLine, catalogue, placed, trouble
<1> QED BY <1>2, <1>3

LEMMA CartShapeStep ==
    ASSUME Shapes, \/ \E p \in Products : RemoveLine(p) \/ EditProduct(p)
                   \/ ClearLines \/ SetShippingMethod
    PROVE  Shapes'
<1>1. cart.items \in Seq(Lines) /\ Sound(cart.items)
  BY DEF Shapes, CartShape
<1>2. ASSUME NEW p \in Products, RemoveLine(p) PROVE Shapes'
  <2>1. CartShape'
    BY <1>1, <1>2, WithoutSound, CartBecomesShape DEF RemoveLine, Shapes
  <2> QED BY <1>2, <2>1 DEF Shapes, CatalogueShape, PlacedShape, WriteShape, RequestShape, TroubleShape,
             RemoveLine, catalogue, placed, trouble
<1>3. ASSUME NEW p \in Products, EditProduct(p) PROVE Shapes'
  <2>1. CatalogueShape'
    BY <1>3 DEF EditProduct, Shapes, CatalogueShape
  <2>2. TroubleShape'
    BY <1>3, CheckoutAssumption DEF EditProduct, Fault, Shapes, TroubleShape
  <2> QED BY <1>3, <2>1, <2>2 DEF Shapes, CartShape, PlacedShape, WriteShape, RequestShape,
             EditProduct, placed
<1>4. CASE ClearLines
  <2>1. CartShape'
    BY <1>4, NoLines, CartBecomesShape DEF ClearLines, Shapes
  <2> QED BY <1>4, <2>1 DEF Shapes, CatalogueShape, PlacedShape, WriteShape, RequestShape, TroubleShape,
             ClearLines, catalogue, placed, trouble
<1>5. CASE SetShippingMethod
  <2>1. CartShape'
    BY <1>1, <1>5, CartBecomesShape DEF SetShippingMethod, Shapes
  <2> QED BY <1>5, <2>1 DEF Shapes, CatalogueShape, PlacedShape, WriteShape, RequestShape, TroubleShape,
             SetShippingMethod, catalogue, placed, trouble
<1> QED BY <1>2, <1>3, <1>4, <1>5

(* Checkouts and orders by hand, up to the hold. *)
LEMMA ReadShape ==
    ASSUME Shapes, NEW r \in Requests, OrderConfirm(r) \/ Judge(r) \/ CreateByHand(r)
    PROVE  Shapes'
<1>1. cart.items \in Seq(Lines) /\ cart.version \in Nat /\ price \in [Products -> Nat]
      /\ req[r] \in RequestRecord
  <2>1. price \in [Products -> Nat]
    BY CheckoutAssumption DEF Shapes, CatalogueShape
  <2>2. cart.items \in Seq(Lines) /\ cart.version \in Nat
    BY DEF Shapes, CartShape
  <2> QED BY <2>1, <2>2 DEF Shapes, RequestShape
<1>2. Total(cart.items, price) \in Nat
  BY <1>1, TotalType
<1>3. CASE OrderConfirm(r)
  <2> DEFINE now == [NoRequest EXCEPT !.pc = "reading", !.fromCart = TRUE, !.shown = Total(cart.items, price)]
  <2>1. now \in RequestRecord /\ Asking(r, now)
    BY <1>2, <1>3, NothingAsked DEF OrderConfirm, RequestRecord
  <2>2. RequestShape'
    <3> HIDE DEF now
    <3> QED BY <2>1, AskingShape DEF Shapes
  <2> QED BY <1>3, <2>2 DEF Shapes, CartShape, CatalogueShape, PlacedShape, WriteShape, TroubleShape,
             OrderConfirm, catalogue, placed, trouble
<1>4. CASE Judge(r)
  <2> DEFINE now == [req[r] EXCEPT !.pc = "reserving", !.version = cart.version, !.items = cart.items,
                                   !.total = Total(cart.items, price)]
  <2>1. now \in RequestRecord /\ (Asking(r, now) \/ Asking(r, NoRequest))
    BY <1>1, <1>2, <1>4 DEF Judge, RequestRecord
  <2>2. RequestShape'
    <3> HIDE DEF now
    <3> QED BY <2>1, AskingShape, NothingAsked DEF Shapes
  <2> QED BY <1>4, <2>2 DEF Shapes, CartShape, CatalogueShape, PlacedShape, WriteShape, TroubleShape,
             Judge, catalogue, placed, trouble
<1>5. CASE CreateByHand(r)
  <2>1. PICK p \in Products :
          LET items == <<[product |-> p, quantity |-> 1]>>
          IN  Asking(r, [NoRequest EXCEPT !.pc = "reserving", !.items = items, !.total = Total(items, price)])
    BY <1>5 DEF CreateByHand
  <2> DEFINE items == <<[product |-> p, quantity |-> 1]>>
             now == [NoRequest EXCEPT !.pc = "reserving", !.items = items, !.total = Total(items, price)]
  <2>2. items \in Seq(Lines)
    BY DEF Lines
  <2> HIDE DEF items
  <2>3. Total(items, price) \in Nat
    BY <1>1, <2>2, TotalType
  <2>4. now \in RequestRecord
    BY <2>2, <2>3, NothingAsked DEF RequestRecord
  <2>5. Asking(r, now)
    BY <2>1 DEF items
  <2> HIDE DEF now
  <2>6. RequestShape'
    BY <2>4, <2>5, AskingShape DEF Shapes
  <2> QED BY <1>5, <2>6 DEF Shapes, CartShape, CatalogueShape, PlacedShape, WriteShape, TroubleShape,
             CreateByHand, catalogue, placed, trouble
<1> QED BY <1>3, <1>4, <1>5

LEMMA HandedBack == Released \in HoldRecord
BY NoLines DEF Released, HoldRecord

LEMMA FreedShape ==
    ASSUME PlacedShape, NEW o \in Orders
    PROVE  Freed(o) \in [Products -> Nat]
<1>1. hold[o].items \in Seq(Lines) /\ shelf \in [Products -> Nat]
  BY DEF PlacedShape, HoldRecord
<1>2. \A p \in Products : QuantityIn(hold[o].items, p) \in Nat
  BY <1>1, QuantityType
<1> QED BY <1>1, <1>2 DEF Freed

LEMMA ReserveShape ==
    ASSUME Shapes, NEW r \in Requests, ReserveForOrder(r)
    PROVE  Shapes'
<1>1. req[r] \in RequestRecord /\ PlacedShape
  BY DEF Shapes, RequestShape
<1>2. req[r].items \in Seq(Lines)
  BY <1>1 DEF RequestRecord
<1>3. \A p \in Products : QuantityIn(req[r].items, p) \in Nat
  BY <1>2, QuantityType
<1>4. CASE Fits(req[r].items)
  <2>1. PICK o \in Orders :
          /\ hold' = [hold EXCEPT ![o] = [status |-> "held", items |-> req[r].items]]
          /\ shelf' = [p \in Products |-> shelf[p] - QuantityIn(req[r].items, p)]
          /\ Asking(r, [req[r] EXCEPT !.pc = "writing", !.order = o])
    BY <1>4 DEF ReserveForOrder
  <2>2. hold' \in [Orders -> HoldRecord]
    BY <1>1, <1>2, <2>1 DEF PlacedShape, HoldRecord
  <2>3. shelf' \in [Products -> Nat]
    BY <1>1, <1>3, <1>4, <2>1 DEF PlacedShape, Fits
  <2> DEFINE now == [req[r] EXCEPT !.pc = "writing", !.order = o]
  <2>4. now \in RequestRecord /\ Asking(r, now)
    BY <1>1, <2>1 DEF RequestRecord
  <2>5. RequestShape'
    <3> HIDE DEF now
    <3> QED BY <2>4, AskingShape DEF Shapes
  <2> QED BY <2>2, <2>3, <2>5 DEF Shapes, CartShape, CatalogueShape, PlacedShape, WriteShape, TroubleShape,
             ReserveForOrder, catalogue, trouble
<1>5. CASE ~ Fits(req[r].items)
  <2>1. Asking(r, NoRequest) /\ UNCHANGED <<hold, shelf>>
    BY <1>5 DEF ReserveForOrder
  <2>2. RequestShape'
    BY <2>1, NothingAsked, AskingShape DEF Shapes
  <2> QED BY <2>1, <2>2 DEF Shapes, CartShape, CatalogueShape, PlacedShape, WriteShape, TroubleShape,
             ReserveForOrder, catalogue, trouble
<1> QED BY <1>4, <1>5

(* The transaction and what follows it. *)
LEMMA WrittenShape ==
    ASSUME Shapes, NEW r \in Requests, req[r].order \in Orders, Written(r)
    PROVE  CartShape' /\ order' \in [Orders -> OrderRecord]
<1>1. req[r] \in RequestRecord
  BY DEF Shapes, RequestShape
<1>2. order' \in [Orders -> OrderRecord]
  BY <1>1 DEF Written, Shapes, PlacedShape, OrderRecord, RequestRecord
<1>3. CASE req[r].fromCart
  BY <1>2, <1>3, NoLines, CartBecomesShape DEF Written, Shapes
<1>4. CASE ~ req[r].fromCart
  BY <1>2, <1>4 DEF Written, Shapes, CartShape
<1> QED BY <1>3, <1>4

(* A request that has a hold knows its order. *)
Placed(r) == req[r].pc \in {"writing", "releasing"}
OrdersKnown ==
    \A r \in Requests : IF Placed(r) THEN req[r].order \in Orders ELSE req[r].order = NoOrder

LEMMA WriteOrderShape ==
    ASSUME Shapes, OrdersKnown, NEW r \in Requests, WriteOrder(r) \/ WriteThrows(r)
    PROVE  Shapes'
<1>1. req[r] \in RequestRecord /\ req[r].order \in Orders
  BY DEF Shapes, RequestShape, OrdersKnown, Placed, WriteOrder, WriteThrows
<1>2. \/ Written(r)
      \/ UNCHANGED <<cart, order>>
  BY DEF WriteOrder, WriteThrows
<1>3. CartShape' /\ order' \in [Orders -> OrderRecord]
  BY <1>1, <1>2, WrittenShape DEF Shapes, CartShape, PlacedShape
<1>4. PlacedShape'
  BY <1>3 DEF Shapes, PlacedShape, WriteOrder, WriteThrows
<1> DEFINE now == [req[r] EXCEPT !.pc = "releasing"]
<1>5. now \in RequestRecord /\ (Asking(r, now) \/ Asking(r, NoRequest))
  BY <1>1 DEF RequestRecord, WriteOrder, WriteThrows
<1>6. RequestShape'
  <2> HIDE DEF now
  <2> QED BY <1>5, NothingAsked, AskingShape DEF Shapes
<1>7. TroubleShape'
  BY CheckoutAssumption DEF Shapes, TroubleShape, WriteOrder, WriteThrows, Fault, trouble
<1> QED BY <1>3, <1>4, <1>6, <1>7 DEF Shapes, CatalogueShape, WriteShape, WriteOrder, WriteThrows, catalogue

LEMMA EndShape ==
    ASSUME Shapes, OrdersKnown, NEW r \in Requests, ReleaseForOrder(r) \/ Crash(r)
    PROVE  Shapes'
<1>1. RequestShape'
  BY NothingAsked, AskingShape DEF Shapes, ReleaseForOrder, Crash
<1>2. CASE ReleaseForOrder(r)
  <2>1. req[r].order \in Orders
    BY <1>2 DEF OrdersKnown, Placed, ReleaseForOrder
  <2>2. Freed(req[r].order) \in [Products -> Nat]
    BY <2>1, FreedShape DEF Shapes
  <2>3. PlacedShape'
    BY <1>2, <2>1, <2>2, HandedBack DEF ReleaseForOrder, Shapes, PlacedShape
  <2> QED BY <1>1, <1>2, <2>3 DEF Shapes, CartShape, CatalogueShape, WriteShape, TroubleShape,
             ReleaseForOrder, catalogue, trouble
<1>3. CASE Crash(r)
  <2>1. TroubleShape'
    BY <1>3, CheckoutAssumption DEF Crash, Fault, Shapes, TroubleShape
  <2> QED BY <1>1, <1>3, <2>1 DEF Shapes, CartShape, CatalogueShape, PlacedShape, WriteShape,
             Crash, catalogue, placed
<1> QED BY <1>2, <1>3

(* What may become of a hold and its order. *)
LEMMA OrderShape ==
    ASSUME Shapes, NEW o \in Orders, SweepExpires(o) \/ ExpireReservation(o) \/ Cancel(o) \/ MarkPaid(o)
    PROVE  Shapes'
<1>1. Freed(o) \in [Products -> Nat] /\ PlacedShape
  BY FreedShape DEF Shapes
<1>2. hold' \in [Orders -> HoldRecord]
  <2>1. CASE MarkPaid(o)
    BY <1>1, <2>1 DEF MarkPaid, PlacedShape, HoldRecord
  <2>2. CASE hold' = hold \/ hold' = [hold EXCEPT ![o] = Released]
    BY <1>1, <2>2, HandedBack DEF PlacedShape
  <2> QED BY <2>1, <2>2 DEF SweepExpires, ExpireReservation, Cancel
<1>3. order' \in [Orders -> OrderRecord]
  BY <1>1 DEF SweepExpires, ExpireReservation, Cancel, MarkPaid, PlacedShape, OrderRecord
<1>4. shelf' \in [Products -> Nat] /\ expired' \subseteq Orders
  BY <1>1 DEF SweepExpires, ExpireReservation, Cancel, MarkPaid, PlacedShape
<1>5. TroubleShape'
  BY CheckoutAssumption DEF SweepExpires, ExpireReservation, Cancel, MarkPaid, Fault, Shapes, TroubleShape, trouble
<1>6. UNCHANGED <<cart, catalogue, write, req>>
  BY DEF SweepExpires, ExpireReservation, Cancel, MarkPaid
<1> QED BY <1>2, <1>3, <1>4, <1>5, <1>6 DEF Shapes, CartShape, CatalogueShape, PlacedShape, WriteShape,
           RequestShape, catalogue

-----------------------------------------------------------------------------
(* Who is placing what. *)

(* A hold is placed by one request; an order stands only where a hold was   *)
(* taken.                                                                   *)
OneEach == \A r, s \in Requests : Placed(r) /\ Placed(s) /\ req[r].order = req[s].order => r = s
HeldFirst ==
    /\ \A r \in Requests : Placed(r) => hold[req[r].order].status # "none"
    /\ \A o \in Orders : hold[o].status = "none" => order[o].status = "none"
Plain == \A o \in Orders : order[o].status = "none" => ~ order[o].fromCart

(* What a checkout that may still write an order has read: the total it was *)
(* shown, of the lines the cart has if its version is still the one read.   *)
AsRead(r) ==
    req[r].fromCart /\ req[r].pc \in {"reserving", "writing"} =>
        /\ req[r].total = req[r].shown /\ req[r].version <= cart.version
        /\ req[r].version = cart.version => req[r].items = cart.items
Read == \A r \in Requests : AsRead(r)

(* Without slips a placement's order is unwritten and, until it is known to *)
(* have failed, its hold is there.                                          *)
InOrder ==
    slips = 0 => \A r \in Requests :
        /\ Placed(r) => order[req[r].order].status = "none"
        /\ req[r].pc = "writing" => hold[req[r].order].status = "held"

(* The units of p an order keeps from the shelf. *)
Withheld(o, p) == IF hold[o].status \in {"held", "committed"} THEN QuantityIn(hold[o].items, p) ELSE 0
UnitsKept == \A p \in Products : shelf[p] + Sum([o \in Orders |-> Withheld(o, p)]) = Units
Covered == \A o \in Orders : order[o].status = "pending" /\ slips = 0 => hold[o].status = "held" \/ o \in expired

Placements ==
    /\ Shapes /\ OrdersKnown /\ OneEach /\ HeldFirst /\ Plain /\ Read
    /\ InOrder /\ UnitsKept /\ Covered

(* Everything but the shapes. *)
Agreed == OrdersKnown /\ OneEach /\ HeldFirst /\ Plain /\ Read /\ InOrder /\ Covered

LEMMA WithheldType ==
    ASSUME PlacedShape, NEW o \in Orders, NEW p
    PROVE  Withheld(o, p) \in Nat
<1>1. hold[o].items \in Seq(Lines)
  BY DEF PlacedShape, HoldRecord
<1> QED BY <1>1, QuantityType DEF Withheld

(* A change of one hold moves the total by what it changes itself. *)
LEMMA OneHoldMoves ==
    ASSUME PlacedShape, PlacedShape', NEW o \in Orders, NEW p \in Products,
           \A x \in Orders \ {o} : hold'[x] = hold[x]
    PROVE  /\ Sum([x \in Orders |-> Withheld(x, p)'] ) - Withheld(o, p)'
                = Sum([x \in Orders |-> Withheld(x, p)]) - Withheld(o, p)
           /\ Sum([x \in Orders |-> Withheld(x, p)']) \in Nat
           /\ Sum([x \in Orders |-> Withheld(x, p)]) \in Nat
<1> DEFINE f == [x \in Orders |-> Withheld(x, p)]
           g == [x \in Orders |-> Withheld(x, p)']
<1>1. f \in [Orders -> Nat]
  BY WithheldType
<1>2. g \in [Orders -> Nat]
  <2>1. \A x \in Orders : hold'[x].items \in Seq(Lines)
    BY DEF PlacedShape, HoldRecord
  <2>2. \A x \in Orders : QuantityIn(hold'[x].items, p) \in Nat
    BY <2>1, QuantityType
  <2> QED BY <2>2 DEF Withheld
<1>3. \A x \in Orders \ {o} : g[x] = f[x]
  BY DEF Withheld
<1>4. IsFiniteSet(Orders)
  BY CheckoutAssumption
<1>5. g[o] = Withheld(o, p)' /\ f[o] = Withheld(o, p)
  OBVIOUS
<1> HIDE DEF f, g
<1>6. Sum(g) - g[o] = Sum(f) - f[o] /\ Sum(f) \in Nat /\ Sum(g) \in Nat
  BY <1>1, <1>2, <1>3, <1>4, SumChange, SumType
<1> QED BY <1>5, <1>6 DEF f, g

(* Line writes and the catalogue touch no placement; a cart that changes    *)
(* moves past every version that was read.                                  *)
LEMMA QuietKeeps ==
    ASSUME Shapes, Agreed, UNCHANGED <<placed, req, slips>>,
           UNCHANGED cart \/ \E items : CartBecomes(items)
    PROVE  Agreed'
<1>1. OrdersKnown' /\ OneEach' /\ HeldFirst' /\ Plain' /\ InOrder' /\ Covered'
  BY DEF Agreed, OrdersKnown, OneEach, HeldFirst, Plain, InOrder, Covered, Placed, placed
<1>2. Read'
  <2> SUFFICES ASSUME NEW r \in Requests PROVE AsRead(r)'
    BY DEF Read
  <2>1. AsRead(r) /\ req[r] \in RequestRecord /\ cart.version \in Nat
    BY DEF Agreed, Read, Shapes, RequestShape, CartShape
  <2>2. CASE UNCHANGED cart
    BY <2>1, <2>2 DEF AsRead
  <2>3. CASE \E items : CartBecomes(items)
    <3>1. cart'.version = cart.version + 1
      BY <2>3 DEF CartBecomes
    <3>2. req[r].version \in Nat
      BY <2>1 DEF RequestRecord
    <3> QED BY <2>1, <3>1, <3>2 DEF AsRead
  <2> QED BY <2>2, <2>3
<1> QED BY <1>1, <1>2 DEF Agreed

LEMMA ReadKeeps ==
    ASSUME Shapes, Agreed, NEW r \in Requests, OrderConfirm(r) \/ Judge(r) \/ CreateByHand(r)
    PROVE  Agreed'
<1>1. UNCHANGED <<cart, placed, slips>> /\ ~ Placed(r)
  BY DEF OrderConfirm, Judge, CreateByHand, Placed, trouble
<1>2. req[r] \in RequestRecord /\ req \in [Requests -> RequestRecord] /\ cart.version \in Nat
  BY DEF Shapes, RequestShape, CartShape
<1> DEFINE Fresh(now) == /\ now.pc \in {"idle", "reading", "reserving"} /\ now.order = NoOrder
                         /\ now.fromCart /\ now.pc = "reserving" =>
                               now.total = now.shown /\ now.version = cart.version /\ now.items = cart.items
<1>3. PICK now : req' = [req EXCEPT ![r] = now] /\ Fresh(now)
  <2>1. CASE OrderConfirm(r)
    <3> DEFINE n == [NoRequest EXCEPT !.pc = "reading", !.fromCart = TRUE, !.shown = Total(cart.items, price)]
    <3>1. req' = [req EXCEPT ![r] = n]
      BY <2>1 DEF OrderConfirm, Asking
    <3>2. Fresh(n)
      BY DEF NoRequest
    <3> HIDE DEF n, Fresh
    <3> QED BY <3>1, <3>2
  <2>2. CASE Judge(r)
    <3> DEFINE n == [req[r] EXCEPT !.pc = "reserving", !.version = cart.version, !.items = cart.items,
                                   !.total = Total(cart.items, price)]
    <3>1. \/ req' = [req EXCEPT ![r] = NoRequest]
          \/ /\ req' = [req EXCEPT ![r] = n]
             /\ Total(cart.items, price) = req[r].shown
      BY <2>2 DEF Judge, Asking, Acceptable
    <3>2. Fresh(NoRequest)
      BY DEF NoRequest
    <3>3. req[r].order = NoOrder
      BY <1>1 DEF Agreed, OrdersKnown
    <3>4. Total(cart.items, price) = req[r].shown => Fresh(n)
      BY <1>2, <3>3 DEF RequestRecord
    <3> HIDE DEF n, Fresh
    <3> QED BY <3>1, <3>2, <3>4
  <2>3. CASE CreateByHand(r)
    <3>1. PICK p \in Products :
            LET items == <<[product |-> p, quantity |-> 1]>>
            IN  Asking(r, [NoRequest EXCEPT !.pc = "reserving", !.items = items, !.total = Total(items, price)])
      BY <2>3 DEF CreateByHand
    <3> DEFINE items == <<[product |-> p, quantity |-> 1]>>
               n == [NoRequest EXCEPT !.pc = "reserving", !.items = items, !.total = Total(items, price)]
    <3>2. req' = [req EXCEPT ![r] = n]
      BY <3>1 DEF Asking
    <3>3. Fresh(n)
      BY DEF NoRequest
    <3> HIDE DEF n, Fresh
    <3> QED BY <3>2, <3>3
  <2> QED BY <2>1, <2>2, <2>3
<1>4. ~ Placed(r)' /\ req'[r] = now /\ \A s \in Requests \ {r} : req'[s] = req[s]
  BY <1>2, <1>3 DEF Placed
<1>5. OrdersKnown'
  BY <1>3, <1>4 DEF Agreed, OrdersKnown, Placed
<1>6. OneEach' /\ HeldFirst' /\ Plain' /\ InOrder' /\ Covered'
  BY <1>1, <1>3, <1>4 DEF Agreed, OneEach, HeldFirst, Plain, InOrder, Covered, Placed, placed
<1>7. Read'
  BY <1>1, <1>2, <1>3, <1>4 DEF Agreed, Read, AsRead
<1> QED BY <1>5, <1>6, <1>7 DEF Agreed

LEMMA ReserveKeeps ==
    ASSUME Shapes, Agreed, NEW r \in Requests, ReserveForOrder(r)
    PROVE  Agreed'
<1>1. req[r] \in RequestRecord /\ req \in [Requests -> RequestRecord] /\ hold \in [Orders -> HoldRecord]
  BY DEF Shapes, RequestShape, PlacedShape
<1>2. req[r].pc = "reserving" /\ ~ Placed(r) /\ UNCHANGED <<cart, order, expired, slips>>
  BY DEF ReserveForOrder, Placed, trouble
<1>3. CASE Fits(req[r].items)
  <2>1. PICK o \in Orders \ Taken :
          /\ hold' = [hold EXCEPT ![o] = [status |-> "held", items |-> req[r].items]]
          /\ Asking(r, [req[r] EXCEPT !.pc = "writing", !.order = o])
    BY <1>3 DEF ReserveForOrder
  <2>2. hold[o].status = "none" /\ hold'[o].status = "held" /\ \A x \in Orders \ {o} : hold'[x] = hold[x]
    BY <1>1, <2>1 DEF Taken
  <2>3. order[o].status = "none"
    BY <2>1, <2>2 DEF Agreed, HeldFirst
  <2>4. /\ req'[r].pc = "writing" /\ req'[r].order = o
        /\ req'[r].fromCart = req[r].fromCart /\ req'[r].total = req[r].total /\ req'[r].shown = req[r].shown
        /\ req'[r].version = req[r].version /\ req'[r].items = req[r].items
        /\ \A s \in Requests \ {r} : req'[s] = req[s]
    BY <1>1, <2>1 DEF Asking, RequestRecord
  <2>5. \A s \in Requests : Placed(s) => req[s].order # o
    BY <2>2 DEF Agreed, HeldFirst
  <2>6. OrdersKnown' /\ OneEach'
    BY <2>1, <2>4, <2>5 DEF Agreed, OrdersKnown, OneEach, Placed
  <2>7. HeldFirst' /\ Plain' /\ Covered'
    BY <1>2, <2>2, <2>3, <2>4, <2>5 DEF Agreed, OrdersKnown, HeldFirst, Plain, Covered, Placed
  <2>8. Read'
    BY <1>2, <2>4 DEF Agreed, Read, AsRead
  <2>9. InOrder'
    BY <1>2, <2>2, <2>3, <2>4, <2>5 DEF Agreed, OrdersKnown, InOrder, Placed
  <2> QED BY <2>6, <2>7, <2>8, <2>9 DEF Agreed
<1>4. CASE ~ Fits(req[r].items)
  <2>1. Asking(r, NoRequest) /\ UNCHANGED <<hold, shelf>>
    BY <1>4 DEF ReserveForOrder
  <2>2. req'[r] = NoRequest /\ \A s \in Requests \ {r} : req'[s] = req[s]
    BY <1>1, <2>1 DEF Asking
  <2>3. OrdersKnown' /\ OneEach' /\ HeldFirst' /\ Plain' /\ InOrder' /\ Covered' /\ Read'
    BY <1>2, <2>1, <2>2 DEF Agreed, OrdersKnown, OneEach, HeldFirst, Plain, InOrder, Covered, Read, AsRead,
       Placed, NoRequest
  <2> QED BY <2>3 DEF Agreed
<1> QED BY <1>3, <1>4

(* A request that ends, or goes on to release, and changes nothing else. *)
LEMMA WriteKeeps ==
    ASSUME Shapes, Agreed, NEW r \in Requests, WriteOrder(r) \/ WriteThrows(r)
    PROVE  Agreed'
<1> DEFINE o == req[r].order
<1>1. req[r] \in RequestRecord /\ req \in [Requests -> RequestRecord] /\ order \in [Orders -> OrderRecord]
      /\ cart.version \in Nat /\ slips \in Nat
  <2>1. cart.version \in Nat
    BY DEF Shapes, CartShape
  <2>2. slips \in Nat
    BY DEF Shapes, TroubleShape
  <2> QED BY <2>1, <2>2 DEF Shapes, RequestShape, PlacedShape
<1>2. req[r].pc = "writing" /\ Placed(r) /\ o \in Orders /\ UNCHANGED <<hold, expired>>
  BY DEF WriteOrder, WriteThrows, Placed, Agreed, OrdersKnown
<1>3. \A s \in Requests \ {r} : req'[s] = req[s] /\ (Placed(s) => req[s].order # o)
  BY <1>1, <1>2 DEF WriteOrder, WriteThrows, Asking, Agreed, OneEach
<1>4. req'[r].pc \in {"idle", "releasing"}
      /\ req'[r].order = IF req'[r].pc = "idle" THEN NoOrder ELSE o
  BY <1>1, <1>2 DEF WriteOrder, WriteThrows, Asking, RequestRecord, NoRequest
<1>5. hold[o].status # "none"
  BY <1>2 DEF Agreed, HeldFirst
<1>6. OrdersKnown' /\ OneEach'
  BY <1>2, <1>3, <1>4 DEF Agreed, OrdersKnown, OneEach, Placed
<1>7. (\A x \in Orders \ {o} : order'[x] = order[x])
      /\ (order'[o] = order[o] \/ order'[o].status = "pending")
  BY <1>1, <1>2 DEF WriteOrder, WriteThrows, Written
<1>8. HeldFirst' /\ Plain'
  BY <1>2, <1>3, <1>4, <1>5, <1>7 DEF Agreed, HeldFirst, Plain, Placed
<1>9. UNCHANGED cart \/ \E items : CartBecomes(items)
  BY DEF WriteOrder, WriteThrows, Written
<1>10. Read'
  <2> SUFFICES ASSUME NEW s \in Requests PROVE AsRead(s)'
    BY DEF Read
  <2>1. CASE s = r
    BY <1>4, <2>1 DEF AsRead
  <2>2. CASE s # r
    <3>1. AsRead(s) /\ req'[s] = req[s] /\ req[s].version \in Nat
      BY <1>1, <1>3, <2>2 DEF Agreed, Read, RequestRecord
    <3>2. UNCHANGED cart \/ cart'.version = cart.version + 1
      BY <1>9 DEF CartBecomes
    <3> QED BY <1>1, <3>1, <3>2 DEF AsRead
  <2> QED BY <2>1, <2>2
<1>11. slips' = 0 => slips = 0 /\ (req'[r].pc = "releasing" => order'[o] = order[o])
  BY <1>1, <1>2 DEF WriteOrder, WriteThrows, Asking, NoRequest, trouble
<1>12. InOrder'
  BY <1>2, <1>3, <1>4, <1>7, <1>11 DEF Agreed, OrdersKnown, InOrder, Placed
<1>13. Covered'
  BY <1>2, <1>7, <1>11 DEF Agreed, InOrder, Covered, Placed
<1> QED BY <1>6, <1>8, <1>10, <1>12, <1>13 DEF Agreed

LEMMA EndKeeps ==
    ASSUME Shapes, Agreed, NEW r \in Requests, ReleaseForOrder(r) \/ Crash(r)
    PROVE  Agreed'
<1>1. req \in [Requests -> RequestRecord] /\ hold \in [Orders -> HoldRecord]
  BY DEF Shapes, RequestShape, PlacedShape
<1>2. req'[r] = NoRequest /\ (\A s \in Requests \ {r} : req'[s] = req[s]) /\ UNCHANGED <<cart, order, expired, slips>>
  BY <1>1 DEF ReleaseForOrder, Crash, Asking, placed, trouble
<1>3. OrdersKnown' /\ OneEach' /\ Plain' /\ Read'
  BY <1>2 DEF Agreed, OrdersKnown, OneEach, Plain, Read, AsRead, Placed, NoRequest
<1>4. CASE UNCHANGED hold
  <2>1. HeldFirst' /\ InOrder' /\ Covered'
    BY <1>2, <1>4 DEF Agreed, HeldFirst, InOrder, Covered, Placed, NoRequest
  <2> QED BY <1>3, <2>1 DEF Agreed
<1>5. CASE ReleaseForOrder(r) /\ hold' # hold
  <2> DEFINE o == req[r].order
  <2>1. o \in Orders /\ Placed(r)
    BY <1>5 DEF ReleaseForOrder, Placed, Agreed, OrdersKnown
  <2>2. hold'[o].status = "released" /\ \A x \in Orders \ {o} : hold'[x] = hold[x]
    BY <1>1, <1>5, <2>1 DEF ReleaseForOrder, Released
  <2>3. \A s \in Requests \ {r} : Placed(s) => req[s].order # o
    BY <2>1 DEF Agreed, OneEach
  <2>4. HeldFirst'
    BY <1>2, <2>1, <2>2, <2>3 DEF Agreed, OrdersKnown, HeldFirst, Placed, NoRequest
  <2>5. slips = 0 => order[o].status = "none"
    BY <2>1 DEF Agreed, InOrder
  <2>6. InOrder' /\ Covered'
    BY <1>2, <2>1, <2>2, <2>3, <2>5 DEF Agreed, OrdersKnown, InOrder, Covered, Placed, NoRequest
  <2> QED BY <1>3, <2>4, <2>6 DEF Agreed
<1>6. Crash(r) => UNCHANGED hold
  BY DEF Crash, placed
<1> QED BY <1>4, <1>5, <1>6

LEMMA OrderKeeps ==
    ASSUME Shapes, Agreed, NEW o \in Orders, SweepExpires(o) \/ ExpireReservation(o) \/ Cancel(o) \/ MarkPaid(o)
    PROVE  Agreed'
<1>1. hold \in [Orders -> HoldRecord] /\ order \in [Orders -> OrderRecord] /\ slips \in Nat
  BY DEF Shapes, PlacedShape, TroubleShape
<1>2. UNCHANGED <<cart, req>>
  BY DEF SweepExpires, ExpireReservation, Cancel, MarkPaid
<1>3. OrdersKnown' /\ OneEach' /\ Read'
  BY <1>2 DEF Agreed, OrdersKnown, OneEach, Read, AsRead, Placed
<1>4. \A x \in Orders \ {o} : hold'[x] = hold[x] /\ order'[x] = order[x] /\ (x \in expired <=> x \in expired')
  BY <1>1 DEF SweepExpires, ExpireReservation, Cancel, MarkPaid
<1>5. hold'[o] = hold[o] \/ hold'[o].status \in {"released", "committed"}
  BY <1>1 DEF SweepExpires, ExpireReservation, Cancel, MarkPaid, Released, HoldRecord
<1>6. order'[o].status \in {order[o].status, "paid", "cancelled"}
      /\ order'[o].fromCart = order[o].fromCart
      /\ (order'[o].status # order[o].status => order[o].status = "pending")
  BY <1>1 DEF SweepExpires, ExpireReservation, Cancel, MarkPaid, OrderRecord
<1>7. HeldFirst' /\ Plain'
  <2>1. \A x \in Orders : hold'[x].status = "none" => hold[x].status = "none" /\ order'[x] = order[x]
    BY <1>4, <1>5, <1>6 DEF SweepExpires, ExpireReservation, Cancel, MarkPaid, Agreed, HeldFirst
  <2>2. HeldFirst'
    BY <1>2, <2>1 DEF Agreed, OrdersKnown, HeldFirst, Placed
  <2>3. Plain'
    BY <1>4, <1>6 DEF Agreed, Plain
  <2> QED BY <2>2, <2>3
<1>8. slips' = 0 => slips = 0
  BY <1>1 DEF SweepExpires, ExpireReservation, Cancel, MarkPaid, trouble
<1>9. ASSUME slips' = 0, NEW r \in Requests, Placed(r)
      PROVE  /\ order'[req[r].order].status = "none"
             /\ req[r].pc = "writing" => hold'[req[r].order].status = "held"
  <2>1. req[r].order \in Orders /\ order[req[r].order].status = "none" /\ slips = 0
        /\ (req[r].pc = "writing" => hold[req[r].order].status = "held")
    BY <1>8, <1>9 DEF Agreed, OrdersKnown, InOrder, Placed
  <2>2. CASE req[r].order # o
    BY <1>4, <2>1, <2>2
  <2>3. CASE req[r].order = o
    <3>1. ~ SweepExpires(o)
      BY <1>1, <1>9, <2>3 DEF SweepExpires, Placing
    <3>2. UNCHANGED <<hold, order>>
      BY <1>1, <2>1, <2>3, <3>1 DEF ExpireReservation, Cancel, MarkPaid
    <3> QED BY <2>1, <3>2
  <2> QED BY <2>2, <2>3
<1>10. InOrder'
  BY <1>2, <1>9 DEF InOrder, Placed
<1>11. order'[o].status = "pending" /\ slips' = 0 => hold'[o].status = "held" \/ o \in expired'
  BY <1>1, <1>8 DEF SweepExpires, ExpireReservation, Cancel, MarkPaid, Agreed, Covered, OrderRecord
<1>12. Covered'
  BY <1>4, <1>8, <1>11 DEF Agreed, Covered
<1> QED BY <1>3, <1>7, <1>10, <1>12 DEF Agreed

-----------------------------------------------------------------------------
(* The units. *)

LEMMA UnitsFollow ==
    ASSUME PlacedShape, PlacedShape', UnitsKept, NEW o \in Orders,
           \A x \in Orders \ {o} : hold'[x] = hold[x],
           \A p \in Products : shelf'[p] + Withheld(o, p)' = shelf[p] + Withheld(o, p)
    PROVE  UnitsKept'
<1> SUFFICES ASSUME NEW p \in Products
             PROVE  shelf'[p] + Sum([x \in Orders |-> Withheld(x, p)']) = Units
  BY DEF UnitsKept
<1> DEFINE before == Sum([x \in Orders |-> Withheld(x, p)])
           after == Sum([x \in Orders |-> Withheld(x, p)'])
<1>1. after - Withheld(o, p)' = before - Withheld(o, p) /\ after \in Nat /\ before \in Nat
  BY OneHoldMoves
<1>2. Withheld(o, p) \in Nat
  BY WithheldType
<1>3. Withheld(o, p)' \in Nat
  <2>1. hold'[o].items \in Seq(Lines)
    BY DEF PlacedShape, HoldRecord
  <2> QED BY <2>1, QuantityType DEF Withheld
<1>4. shelf[p] \in Nat /\ shelf'[p] \in Nat /\ shelf[p] + before = Units
  BY DEF PlacedShape, UnitsKept
<1>5. shelf'[p] + Withheld(o, p)' = shelf[p] + Withheld(o, p)
  OBVIOUS
<1> HIDE DEF before, after
<1>6. shelf'[p] + after = Units
  <2> DEFINE w == Withheld(o, p)
             v == Withheld(o, p)'
             here == shelf'[p]
  <2>1. after - v = before - w /\ here + v = shelf[p] + w /\ shelf[p] + before = Units
        /\ after \in Nat /\ before \in Nat /\ v \in Nat /\ w \in Nat /\ here \in Nat /\ shelf[p] \in Nat
    BY <1>1, <1>2, <1>3, <1>4, <1>5
  <2> HIDE DEF w, v, here
  <2>2. here + after = Units
    BY <2>1
  <2> QED BY <2>2 DEF here
<1> QED BY <1>6 DEF after

LEMMA UnitsStay ==
    ASSUME UnitsKept, UNCHANGED <<hold, shelf>>
    PROVE  UnitsKept'
BY DEF UnitsKept, Withheld

(* A hold given back. *)
LEMMA UnitsBack ==
    ASSUME PlacedShape, PlacedShape', UnitsKept, NEW o \in Orders, hold[o].status = "held",
           hold' = [hold EXCEPT ![o] = Released], shelf' = Freed(o)
    PROVE  UnitsKept'
<1>1. hold'[o] = Released /\ \A x \in Orders \ {o} : hold'[x] = hold[x]
  BY DEF PlacedShape
<1>2. ASSUME NEW p \in Products PROVE shelf'[p] + Withheld(o, p)' = shelf[p] + Withheld(o, p)
  <2>1. Withheld(o, p)' = 0
    BY <1>1 DEF Withheld, Released
  <2>2. Withheld(o, p) = QuantityIn(hold[o].items, p) /\ shelf'[p] = shelf[p] + QuantityIn(hold[o].items, p)
    BY DEF Withheld, Freed
  <2>3. Withheld(o, p) \in Nat /\ shelf[p] \in Nat
    BY WithheldType DEF PlacedShape
  <2> QED BY <2>1, <2>2, <2>3
<1> QED BY <1>1, <1>2, UnitsFollow

LEMMA UnitsReserve ==
    ASSUME Shapes, Shapes', UnitsKept, NEW r \in Requests, ReserveForOrder(r)
    PROVE  UnitsKept'
<1>1. CASE Fits(req[r].items)
  <2>1. PICK o \in Orders \ Taken :
          /\ hold' = [hold EXCEPT ![o] = [status |-> "held", items |-> req[r].items]]
          /\ shelf' = [p \in Products |-> shelf[p] - QuantityIn(req[r].items, p)]
    BY <1>1 DEF ReserveForOrder
  <2>2. hold[o].status = "none" /\ hold'[o] = [status |-> "held", items |-> req[r].items]
        /\ \A x \in Orders \ {o} : hold'[x] = hold[x]
    BY <2>1 DEF Taken, Shapes, PlacedShape
  <2>3. ASSUME NEW p \in Products PROVE shelf'[p] + Withheld(o, p)' = shelf[p] + Withheld(o, p)
    <3>1. Withheld(o, p) = 0
      BY <2>2 DEF Withheld
    <3>2. Withheld(o, p)' = QuantityIn(req[r].items, p)
      BY <2>2 DEF Withheld
    <3>3. QuantityIn(req[r].items, p) \in Nat /\ shelf[p] \in Nat
      <4>1. req[r].items \in Seq(Lines)
        BY DEF Shapes, RequestShape, RequestRecord
      <4> QED BY <4>1, QuantityType DEF Shapes, PlacedShape
    <3>4. shelf'[p] = shelf[p] - QuantityIn(req[r].items, p)
      BY <2>1
    <3> QED BY <3>1, <3>2, <3>3, <3>4
  <2> QED BY <2>1, <2>2, <2>3, UnitsFollow DEF Shapes
<1>2. CASE ~ Fits(req[r].items)
  BY <1>2, UnitsStay DEF ReserveForOrder
<1> QED BY <1>1, <1>2

LEMMA UnitsPaid ==
    ASSUME Shapes, Shapes', UnitsKept, NEW o \in Orders, MarkPaid(o)
    PROVE  UnitsKept'
<1>1. hold[o].status = "held" /\ hold'[o].status = "committed" /\ hold'[o].items = hold[o].items
      /\ (\A x \in Orders \ {o} : hold'[x] = hold[x]) /\ shelf' = shelf
  BY DEF MarkPaid, Shapes, PlacedShape, HoldRecord
<1>2. ASSUME NEW p \in Products PROVE shelf'[p] + Withheld(o, p)' = shelf[p] + Withheld(o, p)
  BY <1>1 DEF Withheld
<1> QED BY <1>1, <1>2, UnitsFollow DEF Shapes

-----------------------------------------------------------------------------
(* The invariant, and what it says. *)

LEMMA PlacementsInit == Init => Placements
<1> SUFFICES ASSUME Init PROVE Placements
  OBVIOUS
<1>1. Shapes
  BY InitShapes
<1>2. OrdersKnown /\ OneEach /\ HeldFirst /\ Plain /\ Read /\ InOrder /\ Covered
  BY DEF Init, OrdersKnown, OneEach, HeldFirst, Plain, Read, AsRead, InOrder, Covered, Placed,
     NoRequest, NoHold, Unplaced
<1>3. UnitsKept
  <2> SUFFICES ASSUME NEW p \in Products PROVE shelf[p] + Sum([o \in Orders |-> Withheld(o, p)]) = Units
    BY DEF UnitsKept
  <2> DEFINE f == [o \in Orders |-> Withheld(o, p)]
  <2>1. \A o \in Orders : Withheld(o, p) = 0
    BY DEF Init, NoHold, Withheld
  <2>2. f \in [Orders -> Nat] /\ \A o \in Orders : f[o] = 0
    BY <2>1
  <2>3. IsFiniteSet(Orders) /\ Units \in Nat
    BY CheckoutAssumption
  <2> HIDE DEF f
  <2>4. Sum(f) = 0
    BY <2>2, <2>3, SumZero
  <2> QED BY <2>3, <2>4 DEF f, Init
<1> QED BY <1>1, <1>2, <1>3 DEF Placements

LEMMA PlacementsStep == Placements /\ [Next]_vars => Placements'
<1> SUFFICES ASSUME Placements, [Next]_vars PROVE Placements'
  OBVIOUS
<1>1. Shapes /\ Agreed /\ UnitsKept /\ OrdersKnown
  BY DEF Placements, Agreed
<1> SUFFICES Shapes' /\ Agreed' /\ UnitsKept'
  BY DEF Placements, Agreed
<1>2. ASSUME NEW w \in Writers, UpsertCartItem(w) \/ MergeLine(w) \/ ResolveMiss(w)
      PROVE  Shapes' /\ Agreed' /\ UnitsKept'
  <2>1. Shapes'
    BY <1>1, <1>2, UpsertShape, ResolveShape
  <2>2. UNCHANGED <<cart, placed, req, slips>>
    BY <1>2 DEF UpsertCartItem, MergeLine, ResolveMiss, trouble
  <2> QED BY <1>1, <2>1, <2>2, QuietKeeps, UnitsStay DEF placed
<1>3. ASSUME NEW w \in Writers, MatchExistingLine(w) \/ PushNewLine(w)
      PROVE  Shapes' /\ Agreed' /\ UnitsKept'
  <2>1. Shapes'
    BY <1>1, <1>3, MatchShape, PushShape
  <2>2. UNCHANGED <<placed, req, slips>>
    BY <1>3 DEF MatchExistingLine, PushNewLine, trouble
  <2>3. UNCHANGED cart \/ \E items : CartBecomes(items)
    BY <1>3 DEF MatchExistingLine, PushNewLine
  <2> QED BY <1>1, <2>1, <2>2, <2>3, QuietKeeps, UnitsStay DEF placed
<1>4. ASSUME \/ \E p \in Products : RemoveLine(p) \/ EditProduct(p)
             \/ ClearLines \/ SetShippingMethod
      PROVE  Shapes' /\ Agreed' /\ UnitsKept'
  <2>1. Shapes'
    BY <1>1, <1>4, CartShapeStep
  <2>2. UNCHANGED <<placed, req, slips>>
    BY <1>4 DEF RemoveLine, EditProduct, ClearLines, SetShippingMethod, trouble
  <2>3. UNCHANGED cart \/ \E items : CartBecomes(items)
    BY <1>4 DEF RemoveLine, EditProduct, ClearLines, SetShippingMethod
  <2> QED BY <1>1, <2>1, <2>2, <2>3, QuietKeeps, UnitsStay DEF placed
<1>5. ASSUME NEW r \in Requests, OrderConfirm(r) \/ Judge(r) \/ CreateByHand(r)
      PROVE  Shapes' /\ Agreed' /\ UnitsKept'
  <2>1. UNCHANGED placed
    BY <1>5 DEF OrderConfirm, Judge, CreateByHand
  <2> QED BY <1>1, <1>5, <2>1, ReadShape, ReadKeeps, UnitsStay DEF placed
<1>6. ASSUME NEW r \in Requests, ReserveForOrder(r) PROVE Shapes' /\ Agreed' /\ UnitsKept'
  BY <1>1, <1>6, ReserveShape, ReserveKeeps, UnitsReserve
<1>7. ASSUME NEW r \in Requests, WriteOrder(r) \/ WriteThrows(r) PROVE Shapes' /\ Agreed' /\ UnitsKept'
  <2>1. UNCHANGED <<hold, shelf>>
    BY <1>7 DEF WriteOrder, WriteThrows
  <2> QED BY <1>1, <1>7, <2>1, WriteOrderShape, WriteKeeps, UnitsStay
<1>8. ASSUME NEW r \in Requests, ReleaseForOrder(r) \/ Crash(r) PROVE Shapes' /\ Agreed' /\ UnitsKept'
  <2>1. Shapes' /\ Agreed'
    BY <1>1, <1>8, EndShape, EndKeeps
  <2>2. UnitsKept'
    <3>1. CASE UNCHANGED <<hold, shelf>>
      BY <1>1, <3>1, UnitsStay
    <3>2. CASE ReleaseForOrder(r) /\ hold[req[r].order].status = "held"
      <4>1. req[r].order \in Orders
        BY <1>1, <3>2 DEF OrdersKnown, Placed, ReleaseForOrder
      <4>2. hold' = [hold EXCEPT ![req[r].order] = Released] /\ shelf' = Freed(req[r].order)
        BY <3>2 DEF ReleaseForOrder
      <4> QED BY <1>1, <2>1, <3>2, <4>1, <4>2, UnitsBack DEF Shapes
    <3> QED BY <1>8, <3>1, <3>2 DEF ReleaseForOrder, Crash, placed
  <2> QED BY <2>1, <2>2
<1>9. ASSUME NEW o \in Orders, SweepExpires(o) \/ ExpireReservation(o) \/ Cancel(o) \/ MarkPaid(o)
      PROVE  Shapes' /\ Agreed' /\ UnitsKept'
  <2>1. Shapes' /\ Agreed'
    BY <1>1, <1>9, OrderShape, OrderKeeps
  <2>2. UnitsKept'
    <3>1. CASE UNCHANGED <<hold, shelf>>
      BY <1>1, <3>1, UnitsStay
    <3>2. CASE /\ hold[o].status = "held"
               /\ hold' = [hold EXCEPT ![o] = Released] /\ shelf' = Freed(o)
      BY <1>1, <2>1, <3>2, UnitsBack DEF Shapes
    <3>3. CASE MarkPaid(o)
      BY <1>1, <2>1, <3>3, UnitsPaid
    <3> QED BY <1>9, <3>1, <3>2, <3>3 DEF SweepExpires, ExpireReservation, Cancel
  <2> QED BY <2>1, <2>2
<1>10. CASE UNCHANGED vars
  <2>1. UNCHANGED <<cart, price, listed, shelf, hold, order, expired, write, req, faults, slips>>
    BY <1>10 DEF vars
  <2>2. Shapes'
    BY <1>1, <2>1 DEF Shapes, CartShape, CatalogueShape, PlacedShape, WriteShape, RequestShape, TroubleShape
  <2> QED BY <1>1, <2>1, <2>2, QuietKeeps, UnitsStay DEF placed
<1> QED BY <1>2, <1>3, <1>4, <1>5, <1>6, <1>7, <1>8, <1>9, <1>10 DEF Next

(* At every instant the cart, the placements at work and the holds agree:   *)
(* a placement knows its own hold, has read what it is about to order, and  *)
(* every unit is on the shelf or kept by one order.                         *)
THEOREM PlacementsInvariant == Spec => []Placements
BY PlacementsInit, PlacementsStep, PTL DEF Spec

(* Every variable of Checkout keeps its shape; the shelf never goes below   *)
(* zero, so no placement takes units that are not there.                    *)
THEOREM TypeCorrect == Spec => []TypeOK
<1>1. Placements => TypeOK
  <2> SUFFICES ASSUME Placements PROVE TypeOK
    OBVIOUS
  <2>1. cart.version \in 0 .. MaxVersion /\ cart.items \in Seq(Lines)
    BY DEF Placements, Shapes, CartShape
  <2>2. \A o \in Orders : hold[o] \in HoldRecord /\ order[o] \in OrderRecord
    BY DEF Placements, Shapes, PlacedShape
  <2> QED BY <2>1, <2>2 DEF Placements, Shapes, CatalogueShape, PlacedShape, TroubleShape,
             HoldRecord, OrderRecord, TypeOK
<1> QED BY <1>1, PlacementsInvariant, PTL

(* However many line writes, merges, removals and checkouts race, the       *)
(* filters and retries of upsertLine leave one line per product and none    *)
(* above the limit.                                                         *)
THEOREM OneLinePerProduct == Spec => []CartSound
<1>1. Placements => CartSound
  BY DEF Placements, Shapes, CartShape, Sound, Distinct, InLimit, CartSound
<1> QED BY <1>1, PlacementsInvariant, PTL

(* Whichever step of placeOrder fails or is overtaken, no unit is lost or   *)
(* sold twice, and a pending order has its units or its expiry on the way.  *)
THEOREM HoldsAreRight == Spec => []HoldsFollowOrders
<1>1. Placements => HoldsFollowOrders
  BY DEF Placements, UnitsKept, Covered, Withheld, HoldsFollowOrders
<1> QED BY <1>1, PlacementsInvariant, PTL

(* An order from the cart takes exactly the lines the same transaction      *)
(* clears, at the total the buyer saw: the version in clearCart's filter is *)
(* enough, so one basket is never ordered twice.                            *)
THEOREM BasketOrderedOnce == Spec => OrderTakesCart
<1> DEFINE Takes == \A o \in Orders : order[o].status = "none" /\ order'[o].fromCart =>
                        /\ cart'.items = <<>>
                        /\ \E r \in Requests : req[r].order = o /\ req[r].items = cart.items
                                                 /\ req[r].total = req[r].shown
<1>1. ASSUME Placements, [Next]_vars PROVE [Takes]_vars
  <2>1. Plain /\ Read /\ order \in [Orders -> OrderRecord]
    BY <1>1 DEF Placements, Shapes, PlacedShape
  <2>2. ASSUME \A o \in Orders : order[o].status = "none" => order'[o] = order[o] PROVE Takes
    BY <2>1, <2>2 DEF Plain
  <2>3. ASSUME NEW r \in Requests, WriteOrder(r) \/ WriteThrows(r) PROVE Takes
    <3>1. CASE UNCHANGED order
      BY <2>2, <3>1
    <3>2. CASE Written(r)
      <4> SUFFICES ASSUME NEW o \in Orders, order[o].status = "none", order'[o].fromCart
                   PROVE  /\ cart'.items = <<>>
                          /\ req[r].order = o /\ req[r].items = cart.items /\ req[r].total = req[r].shown
        OBVIOUS
      <4>1. o = req[r].order /\ req[r].fromCart
        BY <2>1, <3>2 DEF Written, Plain
      <4>2. AsRead(r) /\ req[r].pc = "writing"
        BY <2>1, <2>3 DEF Read, WriteOrder, WriteThrows
      <4>3. cart.version = req[r].version /\ cart'.items = <<>>
        BY <3>2, <4>1 DEF Written, CartBecomes
      <4> QED BY <4>1, <4>2, <4>3 DEF AsRead
    <3> QED BY <2>3, <3>1, <3>2 DEF WriteOrder, WriteThrows
  <2>4. ASSUME NEW o \in Orders, ExpireReservation(o) \/ Cancel(o) \/ MarkPaid(o) PROVE Takes
    <3>1. \A x \in Orders : order[x].status = "none" => order'[x] = order[x]
      BY <2>1, <2>4 DEF ExpireReservation, Cancel, MarkPaid
    <3> QED BY <2>2, <3>1
  <2>5. CASE UNCHANGED order
    BY <2>2, <2>5
  <2>6. CASE UNCHANGED vars
    BY <2>6
  <2> HIDE DEF Takes
  <2> QED BY <1>1, <2>3, <2>4, <2>5, <2>6 DEF Next, UpsertCartItem, MergeLine, MatchExistingLine, ResolveMiss,
             PushNewLine, RemoveLine, EditProduct, ClearLines, SetShippingMethod, OrderConfirm, Judge,
             CreateByHand, ReserveForOrder, ReleaseForOrder, Crash, SweepExpires, placed
<1> QED BY <1>1, PlacementsInvariant, PTL DEF Spec, OrderTakesCart
=============================================================================
