---------------------------- MODULE SumTheorems ----------------------------
(***************************************************************************)
(* What changing a table of amounts does to its total, for tables of any   *)
(* finite size.                                                            *)
(***************************************************************************)
EXTENDS Sums, FiniteSets, FiniteSetTheorems, WellFoundedInduction, TLAPS

-----------------------------------------------------------------------------
(* The fold adds one entry after the other; h holds the total of each part  *)
(* of the table.                                                            *)
Chosen(s) == CHOOSE x \in s : TRUE
Adds(f, h) == h = [s \in SUBSET DOMAIN f |->
                     IF s = {} THEN 0 ELSE f[Chosen(s)] + h[s \ {Chosen(s)}]]
Parts(f) == CHOOSE h : Adds(f, h)

LEMMA SumOfParts ==
    ASSUME NEW S, NEW f \in [S -> Nat]
    PROVE  Sum(f) = Parts(f)[S]
<1>1. DOMAIN f = S
  OBVIOUS
<1>2. Sum(f) = FoldFunctionOnSet(Plus, 0, f, S)
  BY <1>1 DEF Sum, FoldFunction
<1>3. Sum(f) = MapThenFoldSet(Plus, 0, LAMBDA i : f[i], LAMBDA s: CHOOSE x \in s : TRUE, S)
  BY <1>2 DEF FoldFunctionOnSet
<1> QED BY <1>1, <1>3 DEF MapThenFoldSet, Plus, Adds, Parts, Chosen

LEMMA NextIn == ASSUME NEW s, s # {} PROVE Chosen(s) \in s
BY DEF Chosen

(* Such an h exists: the number of units laid out entry by entry. *)
LEMMA AddsExists ==
    ASSUME NEW S, IsFiniteSet(S), NEW f \in [S -> Nat]
    PROVE  Adds(f, Parts(f))
<1> DEFINE Block(x) == {x} \X (1 .. f[x])
           Pile(s) == UNION {Block(x) : x \in s}
           h == [s \in SUBSET S |-> Cardinality(Pile(s))]
<1>1. ASSUME NEW x \in S PROVE IsFiniteSet(Block(x)) /\ Cardinality(Block(x)) = f[x]
  <2>1. IsFiniteSet({x}) /\ Cardinality({x}) = 1
    BY FS_Singleton
  <2>2. IsFiniteSet(1 .. f[x]) /\ Cardinality(1 .. f[x]) = f[x]
    BY FS_Interval
  <2>3. IsFiniteSet({x} \X (1 .. f[x])) /\ Cardinality({x} \X (1 .. f[x])) = 1 * f[x]
    BY <2>1, <2>2, FS_Product
  <2> QED BY <2>3
<1>2. ASSUME NEW s \in SUBSET S PROVE IsFiniteSet(Pile(s))
  <2>1. IsFiniteSet(s)
    BY FS_Subset
  <2>2. IsFiniteSet({Block(x) : x \in s})
    <3> DEFINE F == [x \in s |-> Block(x)]
    <3>1. F \in Surjection(s, {Block(x) : x \in s})
      BY DEF Surjection
    <3> QED BY <2>1, <3>1, FS_Surjection
  <2>3. \A b \in {Block(x) : x \in s} : IsFiniteSet(b)
    BY <1>1
  <2> QED BY <2>2, <2>3, FS_UNION
<1>3. Cardinality(Pile({})) = 0
  <2>1. Pile({}) = {}
    OBVIOUS
  <2> QED BY <2>1, FS_EmptySet
<1>4. ASSUME NEW s \in SUBSET S, NEW c \in s
      PROVE  Cardinality(Pile(s)) = f[c] + Cardinality(Pile(s \ {c}))
  <2>1. Pile(s) = Pile(s \ {c}) \cup Block(c)
    OBVIOUS
  <2>2. Pile(s \ {c}) \cap Block(c) = {}
    OBVIOUS
  <2>3. IsFiniteSet(Pile(s \ {c})) /\ IsFiniteSet(Block(c)) /\ Cardinality(Block(c)) = f[c]
    BY <1>1, <1>2
  <2>4. Cardinality(Pile(s \ {c})) \in Nat /\ Cardinality({}) = 0
    BY <2>3, FS_CardinalityType, FS_EmptySet
  <2> HIDE DEF Pile, Block
  <2>5. Cardinality(Pile(s \ {c}) \cup Block(c)) = Cardinality(Pile(s \ {c})) + Cardinality(Block(c)) - Cardinality(Pile(s \ {c}) \cap Block(c))
    BY <2>3, FS_Union
  <2>6. f[c] \in Nat
    OBVIOUS
  <2>7. Cardinality(Pile(s)) = Cardinality(Pile(s \ {c})) + f[c] - 0
    BY <2>1, <2>2, <2>3, <2>4, <2>5
  <2> QED BY <2>4, <2>6, <2>7
<1>5. Adds(f, h)
  <2> HIDE DEF Pile
  <2>1. \A s \in SUBSET S : h[s] = IF s = {} THEN 0 ELSE f[Chosen(s)] + h[s \ {Chosen(s)}]
    BY <1>3, <1>4, NextIn
  <2>2. h = [s \in SUBSET S |-> h[s]]
    OBVIOUS
  <2>3. DOMAIN f = S
    OBVIOUS
  <2> HIDE DEF h
  <2> QED BY <2>1, <2>2, <2>3 DEF Adds
<1> HIDE DEF h
<1> QED BY <1>5 DEF Parts

-----------------------------------------------------------------------------
(* Whatever holds of the empty part of a table and is kept when an entry is *)
(* added holds of the table: no part is a smallest counterexample.          *)
LEMMA Smallest ==
    ASSUME NEW S, IsFiniteSet(S), NEW T \in SUBSET SUBSET S, T # {}
    PROVE  \E s \in T : \A t \in T : t \subseteq s => t = s
<1>1. IsWellFoundedOn(StrictSubsetOrdering(S), SUBSET S)
  BY FS_FiniteSubsetsOfFinite, FS_StrictSubsetOrderingWellFounded
<1>2. PICK s \in T : \A t \in T : <<t, s>> \notin StrictSubsetOrdering(S)
  BY <1>1, WFMin
<1> QED BY <1>2 DEF StrictSubsetOrdering

LEMMA PartIs ==
    ASSUME NEW S, IsFiniteSet(S), NEW f \in [S -> Nat]
    PROVE  /\ Parts(f)[{}] = 0
           /\ \A s \in SUBSET S : s # {} =>
                 Chosen(s) \in s /\ Parts(f)[s] = f[Chosen(s)] + Parts(f)[s \ {Chosen(s)}]
<1>1. Parts(f) = [t \in SUBSET S |-> IF t = {} THEN 0 ELSE f[Chosen(t)] + Parts(f)[t \ {Chosen(t)}]]
  BY AddsExists DEF Adds
<1> QED BY <1>1, NextIn

LEMMA PartOf ==
    ASSUME NEW S, IsFiniteSet(S), NEW f \in [S -> Nat], NEW s \in SUBSET S, s # {}
    PROVE  Chosen(s) \in s /\ Parts(f)[s] = f[Chosen(s)] + Parts(f)[s \ {Chosen(s)}]
BY PartIs

(* A total is a number, and no part of it is negative. *)
LEMMA PartsType ==
    ASSUME NEW S, IsFiniteSet(S), NEW f \in [S -> Nat]
    PROVE  \A s \in SUBSET S : Parts(f)[s] \in Nat
<1> DEFINE T == {t \in SUBSET S : Parts(f)[t] \notin Nat}
<1> SUFFICES ASSUME T # {} PROVE FALSE
  OBVIOUS
<1>1. T \in SUBSET SUBSET S
  OBVIOUS
<1>2. PICK t \in T : \A u \in T : u \subseteq t => u = t
  <2> HIDE DEF T
  <2> QED BY <1>1, Smallest
<1>3. t # {}
  <2>1. Parts(f)[t] \notin Nat
    BY <1>2
  <2>2. Parts(f)[{}] \in Nat
    BY PartIs
  <2> QED BY <2>1, <2>2
<1>4. Chosen(t) \in t /\ Parts(f)[t] = f[Chosen(t)] + Parts(f)[t \ {Chosen(t)}]
  BY <1>3, PartIs
<1>5. t \ {Chosen(t)} \notin T
  <2> HIDE DEF T
  <2> QED BY <1>2, <1>4
<1>6. Parts(f)[t \ {Chosen(t)}] \in Nat /\ f[Chosen(t)] \in Nat
  BY <1>4, <1>5
<1> QED BY <1>2, <1>4, <1>6

(* The total of two tables added entry by entry. *)
LEMMA PartsAdd ==
    ASSUME NEW S, IsFiniteSet(S), NEW f \in [S -> Nat], NEW g \in [S -> Nat], NEW h \in [S -> Nat],
           \A x \in S : h[x] = f[x] + g[x]
    PROVE  \A s \in SUBSET S : Parts(h)[s] = Parts(f)[s] + Parts(g)[s]
<1> DEFINE T == {t \in SUBSET S : Parts(h)[t] # Parts(f)[t] + Parts(g)[t]}
<1> SUFFICES ASSUME T # {} PROVE FALSE
  OBVIOUS
<1>1. T \in SUBSET SUBSET S
  OBVIOUS
<1>2. PICK t \in T : \A u \in T : u \subseteq t => u = t
  <2> HIDE DEF T
  <2> QED BY <1>1, Smallest
<1>3. Parts(f)[{}] = 0 /\ Parts(g)[{}] = 0 /\ Parts(h)[{}] = 0
  BY PartIs
<1>4. t # {}
  <2>1. Parts(h)[t] # Parts(f)[t] + Parts(g)[t]
    BY <1>2
  <2>2. Parts(h)[{}] = Parts(f)[{}] + Parts(g)[{}]
    BY <1>3
  <2> QED BY <2>1, <2>2
<1> DEFINE x == Chosen(t)
           u == t \ {x}
<1>5. x \in t /\ Parts(f)[t] = f[x] + Parts(f)[u] /\ Parts(g)[t] = g[x] + Parts(g)[u]
             /\ Parts(h)[t] = h[x] + Parts(h)[u]
  <2>1. t \in SUBSET S
    BY <1>2
  <2> HIDE DEF T, x, u
  <2>2. Chosen(t) \in t /\ Parts(f)[t] = f[Chosen(t)] + Parts(f)[t \ {Chosen(t)}]
    <3>1. f \in [S -> Nat]
      OBVIOUS
    <3> QED BY ONLY IsFiniteSet(S), <3>1, <1>4, <2>1, PartOf
  <2>3. Chosen(t) \in t /\ Parts(g)[t] = g[Chosen(t)] + Parts(g)[t \ {Chosen(t)}]
    <3>1. g \in [S -> Nat]
      OBVIOUS
    <3> QED BY ONLY IsFiniteSet(S), <3>1, <1>4, <2>1, PartOf
  <2>4. Chosen(t) \in t /\ Parts(h)[t] = h[Chosen(t)] + Parts(h)[t \ {Chosen(t)}]
    <3>1. h \in [S -> Nat]
      OBVIOUS
    <3> QED BY ONLY IsFiniteSet(S), <3>1, <1>4, <2>1, PartOf
  <2> QED BY <2>2, <2>3, <2>4 DEF x, u
<1>6. u \notin T /\ u \in SUBSET S /\ t \in SUBSET S
  <2>1. u \subseteq t /\ u # t
    BY <1>5
  <2> HIDE DEF T, u
  <2> QED BY <1>1, <1>2, <2>1
<1>7. Parts(h)[u] = Parts(f)[u] + Parts(g)[u]
  BY <1>6
<1>8. Parts(f)[u] \in Nat /\ Parts(g)[u] \in Nat /\ f[x] \in Nat /\ g[x] \in Nat /\ h[x] = f[x] + g[x]
  BY <1>5, <1>6, PartsType
<1> HIDE DEF x, u
<1>9. Parts(h)[t] = Parts(f)[t] + Parts(g)[t]
  BY <1>5, <1>7, <1>8
<1> QED BY <1>2, <1>9

(* The total of a table with one entry. *)
LEMMA PartsOne ==
    ASSUME NEW S, IsFiniteSet(S), NEW f \in [S -> Nat], NEW x, \A y \in S \ {x} : f[y] = 0
    PROVE  \A s \in SUBSET S : Parts(f)[s] = IF x \in s THEN f[x] ELSE 0
<1> DEFINE T == {t \in SUBSET S : Parts(f)[t] # IF x \in t THEN f[x] ELSE 0}
<1> SUFFICES ASSUME T # {} PROVE FALSE
  OBVIOUS
<1>1. T \in SUBSET SUBSET S
  OBVIOUS
<1>2. PICK t \in T : \A u \in T : u \subseteq t => u = t
  <2> HIDE DEF T
  <2> QED BY <1>1, Smallest
<1>3. Parts(f)[{}] = 0
  BY PartIs
<1>4. t # {}
  BY <1>3
<1> DEFINE y == Chosen(t)
           u == t \ {y}
<1>5. y \in t /\ Parts(f)[t] = f[y] + Parts(f)[u]
  <2>1. t \in SUBSET S
    BY <1>2
  <2> HIDE DEF T, y, u
  <2>2. \A s \in SUBSET S : s # {} =>
           Chosen(s) \in s /\ Parts(f)[s] = f[Chosen(s)] + Parts(f)[s \ {Chosen(s)}]
    BY PartIs
  <2>3. Chosen(t) \in t /\ Parts(f)[t] = f[Chosen(t)] + Parts(f)[t \ {Chosen(t)}]
    BY ONLY <1>4, <2>1, <2>2
  <2> QED BY <2>3 DEF y, u
<1>6. u \notin T /\ u \in SUBSET S /\ t \in SUBSET S
  <2>1. u \subseteq t /\ u # t
    BY <1>5
  <2> HIDE DEF T, u
  <2> QED BY <1>1, <1>2, <2>1
<1>7. Parts(f)[u] = IF x \in u THEN f[x] ELSE 0
  BY <1>6
<1>8. f[y] \in Nat /\ (x \in t => f[x] \in Nat)
  BY <1>5, <1>6
<1>9. CASE y = x
  <2>1. Parts(f)[u] = 0 /\ x \in t
    BY <1>5, <1>7, <1>9
  <2> HIDE DEF y, u
  <2> QED BY <1>2, <1>5, <1>8, <1>9, <2>1
<1>10. CASE y # x
  <2>1. f[y] = 0 /\ (x \in u <=> x \in t)
    BY <1>5, <1>6, <1>10
  <2> HIDE DEF y, u
  <2>2. Parts(f)[t] = IF x \in t THEN f[x] ELSE 0
    BY <1>5, <1>7, <1>8, <2>1
  <2> QED BY <1>2, <2>2
<1> QED BY <1>9, <1>10

(* The entries may be added in any order: a part is any of its entries and the rest. *)
LEMMA PartsAny ==
    ASSUME NEW S, IsFiniteSet(S), NEW f \in [S -> Nat]
    PROVE  \A s \in SUBSET S : \A y \in s : Parts(f)[s] = f[y] + Parts(f)[s \ {y}]
<1> DEFINE T == {t \in SUBSET S : \E y \in t : Parts(f)[t] # f[y] + Parts(f)[t \ {y}]}
<1> SUFFICES ASSUME T # {} PROVE FALSE
  OBVIOUS
<1>1. T \in SUBSET SUBSET S
  OBVIOUS
<1>2. PICK t \in T : \A u \in T : u \subseteq t => u = t
  <2> HIDE DEF T
  <2> QED BY <1>1, Smallest
<1>3. PICK y \in t : Parts(f)[t] # f[y] + Parts(f)[t \ {y}]
  BY <1>2
<1> DEFINE c == Chosen(t)
           u == t \ {c}
           v == t \ {y}
<1>4. t \in SUBSET S /\ u \in SUBSET S /\ v \in SUBSET S /\ u \ {y} \in SUBSET S
  BY <1>2
<1>5. c \in t /\ Parts(f)[t] = f[c] + Parts(f)[u]
  <2>1. t # {}
    BY <1>3
  <2> QED BY <1>4, <2>1, PartIs
<1>6. c # y
  BY <1>3, <1>5
<1>7. u \notin T /\ v \notin T
  <2>1. u \subseteq t /\ u # t /\ v \subseteq t /\ v # t
    BY <1>5
  <2> HIDE DEF T, u, v
  <2> QED BY <1>2, <2>1
<1>8. Parts(f)[u] = f[y] + Parts(f)[u \ {y}]
  <2>1. y \in u
    BY <1>6
  <2> QED BY <1>4, <1>7, <2>1
<1>9. Parts(f)[v] = f[c] + Parts(f)[u \ {y}]
  <2>1. c \in v /\ v \ {c} = u \ {y}
    BY <1>5, <1>6
  <2> QED BY <1>4, <1>7, <2>1
<1>10. f[c] \in Nat /\ f[y] \in Nat /\ Parts(f)[u \ {y}] \in Nat
  BY <1>3, <1>4, <1>5, PartsType
<1> HIDE DEF c, u, v, T
<1>11. Parts(f)[t] = f[y] + Parts(f)[v]
  BY <1>5, <1>8, <1>9, <1>10
<1> QED BY <1>3, <1>11 DEF v

(* Two tables that agree on a part have the same total there. *)
LEMMA PartsAgree ==
    ASSUME NEW R, IsFiniteSet(R), NEW S \in SUBSET R, NEW f \in [S -> Nat], NEW g \in [R -> Nat],
           \A x \in S : g[x] = f[x]
    PROVE  \A s \in SUBSET S : Parts(g)[s] = Parts(f)[s]
<1> DEFINE T == {t \in SUBSET S : Parts(g)[t] # Parts(f)[t]}
<1> SUFFICES ASSUME T # {} PROVE FALSE
  OBVIOUS
<1>0. IsFiniteSet(S)
  BY FS_Subset
<1>1. T \in SUBSET SUBSET S
  OBVIOUS
<1>2. PICK t \in T : \A u \in T : u \subseteq t => u = t
  <2> HIDE DEF T
  <2> QED BY <1>0, <1>1, Smallest
<1>3. Parts(f)[{}] = 0 /\ Parts(g)[{}] = 0
  BY <1>0, PartIs
<1>4. t # {}
  BY <1>2, <1>3
<1> DEFINE c == Chosen(t)
           u == t \ {c}
<1>5. t \in SUBSET S /\ t \in SUBSET R
  BY <1>2
<1>6. c \in t /\ Parts(f)[t] = f[c] + Parts(f)[u]
  BY <1>0, <1>4, <1>5, PartIs
<1>7. Parts(g)[t] = g[c] + Parts(g)[u]
  <2>1. \A s \in SUBSET R : s # {} => Parts(g)[s] = g[Chosen(s)] + Parts(g)[s \ {Chosen(s)}]
    BY PartIs
  <2> HIDE DEF T
  <2> QED BY <1>4, <1>5, <2>1
<1>8. u \notin T /\ u \in SUBSET S
  <2>1. u \subseteq t /\ u # t
    BY <1>6
  <2> HIDE DEF T, u
  <2> QED BY <1>2, <1>5, <2>1
<1>9. Parts(g)[u] = Parts(f)[u] /\ g[c] = f[c]
  BY <1>5, <1>6, <1>8
<1> HIDE DEF c, u
<1> QED BY <1>2, <1>6, <1>7, <1>9

-----------------------------------------------------------------------------
(* What the model's proofs cite. *)

LEMMA SumType ==
    ASSUME NEW S, IsFiniteSet(S), NEW f \in [S -> Nat]
    PROVE  Sum(f) \in Nat
BY SumOfParts, PartsType

LEMMA SumAdd ==
    ASSUME NEW S, IsFiniteSet(S), NEW f \in [S -> Nat], NEW g \in [S -> Nat], NEW h \in [S -> Nat],
           \A x \in S : h[x] = f[x] + g[x]
    PROVE  Sum(h) = Sum(f) + Sum(g)
<1>1. Sum(h) = Parts(h)[S] /\ Sum(f) = Parts(f)[S] /\ Sum(g) = Parts(g)[S]
  BY SumOfParts
<1> QED BY <1>1, PartsAdd

LEMMA SumOne ==
    ASSUME NEW S, IsFiniteSet(S), NEW f \in [S -> Nat], NEW x \in S, \A y \in S \ {x} : f[y] = 0
    PROVE  Sum(f) = f[x]
<1>1. Sum(f) = Parts(f)[S]
  BY SumOfParts
<1> QED BY <1>1, PartsOne

LEMMA SumZero ==
    ASSUME NEW S, IsFiniteSet(S), NEW f \in [S -> Nat], \A y \in S : f[y] = 0
    PROVE  Sum(f) = 0
<1>1. Sum(f) = Parts(f)[S]
  BY SumOfParts
<1>2. CASE S = {}
  BY <1>1, <1>2, PartIs
<1>3. CASE S # {}
  BY <1>3, SumOne
<1> QED BY <1>2, <1>3

(* A table that is nowhere larger has no larger total. *)
LEMMA SumMonotone ==
    ASSUME NEW S, IsFiniteSet(S), NEW f \in [S -> Nat], NEW g \in [S -> Nat], \A x \in S : f[x] <= g[x]
    PROVE  Sum(f) <= Sum(g)
<1> DEFINE d == [x \in S |-> g[x] - f[x]]
<1>1. d \in [S -> Nat] /\ \A x \in S : g[x] = f[x] + d[x]
  OBVIOUS
<1> HIDE DEF d
<1>2. Sum(g) = Sum(f) + Sum(d)
  BY <1>1, SumAdd
<1>3. Sum(f) \in Nat /\ Sum(d) \in Nat
  BY <1>1, SumType
<1> QED BY <1>2, <1>3

(* The total follows the one entry that changes. *)
LEMMA SumChange ==
    ASSUME NEW S, IsFiniteSet(S), NEW f \in [S -> Nat], NEW g \in [S -> Nat], NEW x \in S,
           \A y \in S \ {x} : g[y] = f[y]
    PROVE  Sum(g) - g[x] = Sum(f) - f[x]
<1> DEFINE rest == [y \in S |-> IF y = x THEN 0 ELSE f[y]]
           one(t) == [y \in S |-> IF y = x THEN t[x] ELSE 0]
<1>1. rest \in [S -> Nat] /\ one(f) \in [S -> Nat] /\ one(g) \in [S -> Nat]
  OBVIOUS
<1>2. \A y \in S : f[y] = rest[y] + one(f)[y]
  OBVIOUS
<1>3. \A y \in S : g[y] = rest[y] + one(g)[y]
  OBVIOUS
<1>4. one(f)[x] = f[x] /\ one(g)[x] = g[x] /\ \A y \in S \ {x} : one(f)[y] = 0 /\ one(g)[y] = 0
  OBVIOUS
<1> HIDE DEF rest, one
<1>5. Sum(f) = Sum(rest) + Sum(one(f)) /\ Sum(g) = Sum(rest) + Sum(one(g))
  BY <1>1, <1>2, <1>3, SumAdd
<1>6. Sum(one(f)) = f[x] /\ Sum(one(g)) = g[x]
  BY <1>1, <1>4, SumOne
<1>7. Sum(rest) \in Nat /\ f[x] \in Nat /\ g[x] \in Nat
  BY <1>1, SumType
<1> QED BY <1>5, <1>6, <1>7

(* No entry is larger than the total. *)
LEMMA EntryInSum ==
    ASSUME NEW S, IsFiniteSet(S), NEW f \in [S -> Nat], NEW x \in S
    PROVE  f[x] <= Sum(f)
<1> DEFINE one == [y \in S |-> IF y = x THEN f[x] ELSE 0]
<1>1. one \in [S -> Nat] /\ one[x] = f[x] /\ (\A y \in S : one[y] <= f[y])
      /\ \A y \in S \ {x} : one[y] = 0
  OBVIOUS
<1> HIDE DEF one
<1> QED BY <1>1, SumOne, SumMonotone

(* The total grows by the entry a table gains. *)
LEMMA SumExtend ==
    ASSUME NEW R, IsFiniteSet(R), NEW x \in R, NEW S, S = R \ {x}, NEW f \in [S -> Nat],
           NEW g \in [R -> Nat], \A y \in S : g[y] = f[y]
    PROVE  Sum(g) = Sum(f) + g[x]
<1>1. IsFiniteSet(S) /\ S \in SUBSET R /\ S \in SUBSET S /\ R \in SUBSET R
  BY FS_Subset
<1>2. Sum(f) = Parts(f)[S] /\ Sum(g) = Parts(g)[R]
  BY SumOfParts
<1>3. Parts(g)[R] = g[x] + Parts(g)[R \ {x}]
  BY <1>1, PartsAny
<1>4. Parts(g)[S] = Parts(f)[S]
  <2>1. \A s \in SUBSET S : Parts(g)[s] = Parts(f)[s]
    BY <1>1, PartsAgree
  <2> QED BY <1>1, <2>1
<1>5. g[x] \in Nat /\ Parts(f)[S] \in Nat
  BY <1>1, PartsType
<1> QED BY <1>2, <1>3, <1>4, <1>5

(* A table grows at its end. *)
LEMMA SumAppend ==
    ASSUME NEW n \in Nat, NEW f, f \in [1 .. n -> Nat], NEW g, g \in [1 .. (n + 1) -> Nat],
           \A i \in 1 .. n : g[i] = f[i]
    PROVE  Sum(g) = Sum(f) + g[n + 1]
<1> DEFINE R == 1 .. (n + 1)
           S == 1 .. n
           x == n + 1
<1>1. IsFiniteSet(R)
  <2>1. n + 1 \in Int /\ 1 \in Int
    OBVIOUS
  <2> QED BY ONLY <2>1, FS_Interval
<1>2. x \in R /\ S = R \ {x}
  OBVIOUS
<1>3. f \in [S -> Nat] /\ g \in [R -> Nat] /\ \A y \in S : g[y] = f[y]
  OBVIOUS
<1>4. Sum(g) = Sum(f) + g[x]
  <2> HIDE DEF R, S, x
  <2> QED BY ONLY <1>1, <1>2, <1>3, SumExtend
<1> QED BY <1>4

-----------------------------------------------------------------------------
(* Numbers: a least one exists. *)

LEMMA Least ==
    ASSUME NEW T \in SUBSET Nat, T # {}
    PROVE  \E m \in T : \A k \in T : m <= k
<1>1. PICK n \in T : TRUE
  OBVIOUS
<1> DEFINE Below == {u \in SUBSET (1 .. n) : \E m \in T : m <= n /\ u = 1 .. m}
<1>2. IsFiniteSet(1 .. n)
  BY FS_Interval
<1>3. Below # {} /\ Below \in SUBSET SUBSET (1 .. n)
  <2>1. 1 .. n \in Below
    OBVIOUS
  <2> QED BY <2>1
<1>4. PICK u \in Below : \A t \in Below : t \subseteq u => t = u
  <2> DEFINE S == 1 .. n
  <2>1. IsFiniteSet(S) /\ Below # {} /\ Below \in SUBSET SUBSET S
    BY <1>2, <1>3
  <2> HIDE DEF Below, S
  <2> QED BY <2>1, Smallest
<1>5. PICK m \in T : m <= n /\ u = 1 .. m
  BY <1>4
<1>6. ASSUME NEW k \in T, k < m PROVE FALSE
  <2>1. 1 .. k \in Below /\ 1 .. k \subseteq u
    BY <1>5, <1>6
  <2>2. 1 .. k = 1 .. m
    BY <1>4, <1>5, <2>1
  <2>3. m \in 1 .. m /\ m \notin 1 .. k
    BY <1>6
  <2> QED BY <2>2, <2>3
<1> QED BY <1>5, <1>6
=============================================================================
