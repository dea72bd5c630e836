-------------------------- MODULE OrderBookOpsProofs --------------------------
(***************************************************************************)
(* Lemmas about the operators of OrderBookOps: what the counting of units  *)
(* adds up to, that each operation keeps a book well-formed, and that two  *)
(* books that compare equal do so after the same tick.                     *)
(***************************************************************************)
EXTENDS OrderBookOps, FiniteSetTheorems, WellFoundedInduction, TLAPS

-----------------------------------------------------------------------------
(* Induction, in the form of the least member of a set of naturals.        *)

Less == {p \in Nat \X Nat : p[1] < p[2]}

\* A set of naturals that has 0 and the successor of each of its members.
LEMMA Induct ==
  ASSUME NEW S, 0 \in S, \A n \in Nat : n \in S => n + 1 \in S
  PROVE  Nat \subseteq S
<1> SUFFICES ASSUME Nat \ S # {} PROVE FALSE
  OBVIOUS
<1>1. OpToRel(<, Nat) = Less
  BY Zenon DEF OpToRel, Less
<1>2. IsWellFoundedOn(Less, Nat)
  BY <1>1, NatLessThanWellFounded, Zenon
<1>3. PICK n \in Nat \ S : \A m \in Nat \ S : ~(<<m, n>> \in Less)
  BY <1>2, WFMin
<1>4. n - 1 \in Nat /\ n - 1 < n
  BY <1>3
<1>5. <<n - 1, n>> \in Less
  BY <1>3, <1>4 DEF Less
<1> QED  BY <1>3, <1>4, <1>5

-----------------------------------------------------------------------------
(* Entries and sums of quantities.                                         *)

\* Inserting or assigning an entry of one of order_book's maps changes that entry
\* only.
LEMMA WithFacts ==
  ASSUME NEW f, NEW k, NEW v
  PROVE  /\ DOMAIN With(f, k, v) = DOMAIN f \cup {k}
         /\ With(f, k, v)[k] = v
         /\ \A x \in DOMAIN f : x # k => With(f, k, v)[x] = f[x]
  BY DEF With

\* Erasing entries of one of order_book's maps leaves the others as they are.
LEMMA WithoutFacts ==
  ASSUME NEW f, NEW K
  PROVE  /\ DOMAIN Without(f, K) = DOMAIN f \ K
         /\ \A x \in DOMAIN f \ K : Without(f, K)[x] = f[x]
  BY DEF Without, Restrict

\* A book has finitely many keys, so that the quantities on a level can be added.
LEMMA KeyFinite == IsFiniteSet(Key)
<1>1. IsFiniteSet({"buy"}) /\ IsFiniteSet({"sell"})
  BY FS_Singleton
<1>2. IsFiniteSet({"buy"} \cup {"sell"})
  BY <1>1, FS_Union
<1>3. Side = {"buy"} \cup {"sell"}
  BY DEF Side
<1>4. QED
  BY <1>2, <1>3, OrderBookAssumption, FS_Product DEF Key

\* The units of a set of orders are finitely many.
LEMMA UnitsFinite ==
  ASSUME NEW o, NEW K \in SUBSET Key
  PROVE  IsFiniteSet(Units(o, K))
<1>1. IsFiniteSet(K)
  BY KeyFinite, FS_Subset
<1>2. IsFiniteSet(Qty)
  BY OrderBookAssumption, FS_Interval DEF Qty
<1>3. IsFiniteSet(K \X Qty)
  BY <1>1, <1>2, FS_Product
<1>4. Units(o, K) \in SUBSET (K \X Qty)
  BY DEF Units
<1>5. QED
  BY <1>3, <1>4, FS_Subset

\* The quantities of a level's orders add up to a natural number, as a level's
\* aggregate_depth should be.
LEMMA TotalNat ==
  ASSUME NEW o, NEW K \in SUBSET Key
  PROVE  Total(o, K) \in Nat
  BY UnitsFinite, FS_CardinalityType DEF Total

\* An order's units, one for each of its quantity, are as many as that quantity:
\* the ground that sums of quantities are counted on.
LEMMA Column ==
  ASSUME NEW k, NEW n \in Nat
  PROVE  IsFiniteSet({k} \X (1..n)) /\ Cardinality({k} \X (1..n)) = n
<1>1. IsFiniteSet(1..n) /\ Cardinality(1..n) = n
  <2>1. IsFiniteSet(1..n) /\ Cardinality(1..n) = IF 1 > n THEN 0 ELSE n - 1 + 1
    BY FS_Interval
  <2>2. QED
    BY <2>1
<1>2. IsFiniteSet({k}) /\ Cardinality({k}) = 1
  BY FS_Singleton
<1>3. /\ IsFiniteSet({k} \X (1..n))
      /\ Cardinality({k} \X (1..n)) = Cardinality({k}) * Cardinality(1..n)
  BY <1>1, <1>2, FS_Product
<1>4. QED
  BY <1>1, <1>2, <1>3

\* An order more: the total grows by its quantity.
LEMMA TotalMore ==
  ASSUME NEW o, NEW p, NEW K \in SUBSET Key, NEW k \in Key \ K,
         \A x \in K : p[x].qty = o[x].qty, p[k].qty \in Qty
  PROVE  Total(p, K \cup {k}) = Total(o, K) + p[k].qty
<1> DEFINE U == Units(o, K)
           V == {k} \X (1..p[k].qty)
<1>1. Units(p, K \cup {k}) = U \cup V
  BY OrderBookAssumption DEF Units, Qty
<1>2. U \cap V = {}
  BY DEF Units
<1>3. IsFiniteSet(U) /\ Cardinality(U) \in Nat
  BY UnitsFinite, FS_CardinalityType
<1>4. IsFiniteSet(V) /\ Cardinality(V) = p[k].qty
  <2>1. p[k].qty \in Nat
    BY OrderBookAssumption DEF Qty
  <2>2. QED
    BY <2>1, Column
<1>5. Cardinality(U \cup V) = Cardinality(U) + Cardinality(V)
  <2>1. Cardinality(U \cup V)
          = Cardinality(U) + Cardinality(V) - Cardinality(U \cap V)
    BY <1>3, <1>4, FS_Union
  <2>2. Cardinality(U \cap V) = 0
    BY <1>2, FS_EmptySet
  <2>3. Cardinality(V) \in Nat
    BY <1>4, FS_CardinalityType
  <2> HIDE DEF U, V
  <2>4. QED
    BY <2>1, <2>2, <2>3, <1>3
<1>6. QED
  BY <1>1, <1>4, <1>5 DEF Total

\* The total of a set of orders depends on their quantities only.
LEMMA TotalSame ==
  ASSUME NEW o, NEW p, NEW K, \A x \in K : p[x].qty = o[x].qty
  PROVE  Total(p, K) = Total(o, K)
  BY DEF Total, Units

-----------------------------------------------------------------------------
(* order_book::add.                                                        *)

\* order_book::add of an order that the book does not have keeps it well formed:
\* the level, its depth, the cache and the side's aggregate all follow.
LEMMA AddKeepsWellFormed ==
  ASSUME NEW b, WellFormed(b), NEW t \in AddTick, t.key \notin DOMAIN b.order
  PROVE  WellFormed(Add(b, t))
<1> DEFINE k  == t.key
           s  == t.key[1]
           l  == <<s, t.price>>
           d  == IF l \in DOMAIN b.level THEN b.level[l] ELSE 0
           c  == Add(b, t)
           o  == b.order
           p  == With(o, k, [price |-> t.price, qty |-> t.qty])
<1>t. k \in Key /\ s \in Side /\ t.price \in Price /\ t.qty \in Qty
  BY DEF AddTick, Key
<1>q. t.qty \in Nat /\ t.qty > 0
  BY <1>t, OrderBookAssumption DEF Qty
<1>c. /\ c.level = With(b.level, l, d + t.qty)
      /\ c.order = p
      /\ c.cache = With(b.cache, k, "live")
      /\ c.agg = [b.agg EXCEPT ![s] = @ + t.qty]
      /\ c.fault = b.fault
  BY DEF Add
<1>b. IsBook(b) /\ Indexed(b) /\ Levelled(b) /\ DepthCovers(b) /\ OffersCover(b)
  BY DEF WellFormed
<1>d. d \in Nat
  BY <1>b DEF IsBook
<1>v. /\ DOMAIN c.level = DOMAIN b.level \cup {l}
      /\ c.level[l] = d + t.qty
      /\ \A x \in DOMAIN b.level : x # l => c.level[x] = b.level[x]
  BY <1>c DEF With
<1>i. /\ DOMAIN c.cache = DOMAIN b.cache \cup {k}
      /\ c.cache[k] = "live"
      /\ \A x \in DOMAIN b.cache : x # k => c.cache[x] = b.cache[x]
  BY <1>c DEF With
<1>o. /\ DOMAIN p = DOMAIN o \cup {k}
      /\ p[k] = [price |-> t.price, qty |-> t.qty]
      /\ \A x \in DOMAIN o : p[x] = o[x]
  BY DEF With
<1> HIDE DEF c, d
<1>p. p[k].price = t.price /\ p[k].qty = t.qty
  BY <1>o
<1>l. /\ LevelOf(p, k) = l
      /\ \A x \in DOMAIN o : LevelOf(p, x) = LevelOf(o, x)
  BY <1>o, <1>p DEF LevelOf
<1> HIDE DEF p
<1>1. IsBook(c)
  <2>1. AreOrders(p)
    BY <1>b, <1>o, <1>t DEF IsBook, AreOrders, Order
  <2>2. /\ DOMAIN c.level \subseteq Side \X Price
        /\ \A x \in DOMAIN c.level : c.level[x] \in Nat
    BY <1>b, <1>v, <1>t, <1>q, <1>d DEF IsBook
  <2>3. /\ DOMAIN c.cache \subseteq Key
        /\ \A x \in DOMAIN c.cache : c.cache[x] \in {"live", "stale"}
    BY <1>b, <1>i, <1>t DEF IsBook
  <2>4. c.agg \in [Side -> Int]
    BY <1>b, <1>c, <1>t, <1>q DEF IsBook
  <2>5. QED
    BY <2>1, <2>2, <2>3, <2>4, <1>c, <1>b DEF IsBook
<1>2. Indexed(c)
  BY <1>b, <1>c, <1>i, <1>o DEF Indexed
<1>3. Levelled(c)
  <2>1. DOMAIN c.level = DOMAIN b.level \cup {l}
    BY <1>v
  <2>2. {LevelOf(p, x) : x \in DOMAIN p} = {LevelOf(o, x) : x \in DOMAIN o} \cup {l}
    BY <1>o, <1>l
  <2>3. QED
    BY <2>1, <2>2, <1>b, <1>c DEF Levelled
<1>4. DepthCovers(c)
  <2> SUFFICES ASSUME NEW x \in DOMAIN c.level
               PROVE  c.level[x] >= Total(p, At(p, x))
    BY <1>c DEF DepthCovers
  <2>1. At(o, x) \in SUBSET Key /\ k \in Key \ At(o, x)
    BY <1>b, <1>t DEF At, IsBook, AreOrders
  <2>n. Total(o, At(o, x)) \in Nat
    BY <2>1, TotalNat
  <2>e. \A y \in At(o, x) : p[y].qty = o[y].qty
    BY <1>o DEF At
  <2>2. CASE x = l
    <3>1. At(p, x) = At(o, x) \cup {k}
      BY <1>o, <1>l, <2>2 DEF At
    <3>2. Total(p, At(o, x) \cup {k}) = Total(o, At(o, x)) + p[k].qty
      BY <2>1, <2>e, <1>o, <1>t, TotalMore
    <3>3. c.level[x] = d + t.qty
      BY <1>v, <2>2
    <3>4. d >= Total(o, At(o, x))
      <4>1. CASE l \in DOMAIN b.level
        BY <4>1, <1>b, <2>2 DEF d, DepthCovers
      <4>2. CASE l \notin DOMAIN b.level
        <5>1. At(o, x) = {}
          BY <4>2, <2>2, <1>b DEF Levelled, At
        <5>2. Units(o, {}) = {}
          BY DEF Units
        <5>3. Total(o, {}) = 0
          BY <5>2, FS_EmptySet DEF Total
        <5>4. QED
          BY <5>1, <5>3, <1>d
      <4>3. QED
        BY <4>1, <4>2
    <3>5. QED
      BY <3>1, <3>2, <3>3, <3>4, <1>o, <1>d, <1>q, <2>n
  <2>3. CASE x # l
    <3>1. At(p, x) = At(o, x)
      BY <1>o, <1>l, <2>3 DEF At
    <3>2. Total(p, At(o, x)) = Total(o, At(o, x))
      BY <2>e, TotalSame
    <3>3. x \in DOMAIN b.level /\ c.level[x] = b.level[x]
      BY <1>v, <2>3
    <3>4. QED
      BY <3>1, <3>2, <3>3, <1>b DEF DepthCovers
  <2>4. QED
    BY <2>2, <2>3
<1>5. OffersCover(c)
  <2> DEFINE K == On(o, "sell")
  <2>1. K \in SUBSET Key /\ k \in Key \ K
    BY <1>b, <1>t DEF On, IsBook, AreOrders
  <2>n. Total(o, K) \in Nat /\ b.agg["sell"] \in Int
    BY <2>1, <1>b, TotalNat DEF IsBook, Side
  <2>e. \A y \in K : p[y].qty = o[y].qty
    BY <1>o DEF On
  <2>2. CASE s = "sell"
    <3>1. On(p, "sell") = K \cup {k}
      BY <1>o, <2>2 DEF On
    <3> HIDE DEF K
    <3>2. Total(p, K \cup {k}) = Total(o, K) + p[k].qty
      BY <2>1, <2>e, <1>o, <1>t, TotalMore
    <3>3. c.agg["sell"] = b.agg["sell"] + t.qty
      BY <1>c, <1>b, <2>2 DEF IsBook, Side
    <3>4. QED
      <4>1. c.order = p /\ b.agg["sell"] >= Total(o, K)
        BY <1>b, <1>c DEF OffersCover, K
      <4>2. Total(p, On(p, "sell")) = Total(o, K) + t.qty
        BY <3>1, <3>2, <1>p
      <4>3. b.agg["sell"] + t.qty >= Total(o, K) + t.qty
        BY <4>1, <1>q, <2>n
      <4>4. c.agg["sell"] >= Total(p, On(p, "sell"))
        BY <3>3, <4>2, <4>3
      <4>5. QED
        BY <4>1, <4>4 DEF OffersCover
  <2>3. CASE s # "sell"
    <3>1. On(p, "sell") = K
      BY <1>o, <2>3 DEF On
    <3>2. Total(p, K) = Total(o, K)
      BY <2>e, TotalSame
    <3>3. c.agg["sell"] = b.agg["sell"]
      BY <1>c, <1>b, <2>3 DEF IsBook, Side
    <3>4. QED
      BY <3>1, <3>2, <3>3, <1>b, <1>c DEF OffersCover
  <2>4. QED
    BY <2>2, <2>3
<1>6. QED
  BY <1>1, <1>2, <1>3, <1>4, <1>5 DEF WellFormed, c

-----------------------------------------------------------------------------
(* What remove and execute do to a known order.                            *)

\* The erasing that remove and execute share keeps a book well formed when the
\* level and the aggregate are charged no more than the order's quantity.
LEMMA EraseKeepsWellFormed ==
  ASSUME NEW b, WellFormed(b), NEW k \in DOMAIN b.order,
         NEW d \in Nat, d <= b.order[k].qty,
         NEW s \in Side, NEW q \in Nat,
         s = "sell" => k[1] = "sell" /\ q <= b.order[k].qty
  PROVE  WellFormed(Erase(b, k, d, s, q))
<1> DEFINE c == Erase(b, k, d, s, q)
           o == b.order
           l == LevelOf(o, k)
           p == Without(o, {k})
           R(K) == K \ {k}
<1>b. IsBook(b) /\ Indexed(b) /\ Levelled(b) /\ DepthCovers(b) /\ OffersCover(b)
  BY DEF WellFormed
<1>k. /\ k \in Key /\ o[k] \in Order /\ l \in DOMAIN b.level
      /\ o[k].qty \in Qty /\ o[k].qty \in Nat
  <2>1. k \in Key /\ o[k] \in Order
    BY <1>b DEF IsBook, AreOrders
  <2>2. l \in DOMAIN b.level
    BY <1>b DEF Levelled
  <2>3. o[k].qty \in Qty /\ o[k].qty \in Nat
    BY <2>1, OrderBookAssumption DEF Order, Qty
  <2>4. QED
    BY <2>1, <2>2, <2>3
<1>c. /\ c.level = IF At(o, l) = {k} THEN Without(b.level, {l})
                                     ELSE [b.level EXCEPT ![l] = @ - d]
      /\ c.order = p
      /\ c.cache = Without(b.cache, {k})
      /\ c.agg = [b.agg EXCEPT ![s] = @ - q]
      /\ c.fault = b.fault
  BY DEF Erase
<1>v. /\ DOMAIN c.level
           = IF At(o, l) = {k} THEN DOMAIN b.level \ {l} ELSE DOMAIN b.level
      /\ At(o, l) # {k} => c.level[l] = b.level[l] - d
      /\ \A x \in DOMAIN b.level : x # l => c.level[x] = b.level[x]
  BY <1>c, <1>k DEF Without, Restrict
<1>i. /\ DOMAIN c.cache = DOMAIN b.cache \ {k}
      /\ \A x \in DOMAIN c.cache : c.cache[x] = b.cache[x]
  BY <1>c DEF Without, Restrict
<1>o. /\ DOMAIN p = DOMAIN o \ {k}
      /\ \A x \in DOMAIN p : p[x] = o[x]
  BY DEF Without, Restrict
<1> HIDE DEF c, p
<1>l. \A x \in DOMAIN p : LevelOf(p, x) = LevelOf(o, x)
  BY <1>o DEF LevelOf
\* The total of a set of orders with k is that of the rest and k's quantity.
<1>r. ASSUME NEW K \in SUBSET DOMAIN o
      PROVE  /\ Total(p, R(K)) \in Nat /\ Total(o, K) \in Nat
             /\ Total(o, K) = Total(p, R(K)) + (IF k \in K THEN o[k].qty ELSE 0)
  <2>1. K \in SUBSET Key /\ R(K) \in SUBSET Key /\ k \in Key \ R(K)
    BY <1>b, <1>k DEF IsBook, AreOrders
  <2>2. \A x \in R(K) : o[x].qty = p[x].qty
    BY <1>o
  <2>3. Total(p, R(K)) \in Nat /\ Total(o, K) \in Nat
    BY <2>1, TotalNat
  <2>4. CASE k \in K
    <3>1. K = R(K) \cup {k}
      BY <2>4
    <3>2. Total(o, R(K) \cup {k}) = Total(p, R(K)) + o[k].qty
      BY <2>1, <2>2, <1>k, TotalMore
    <3>3. QED
      BY <3>1, <3>2, <2>3, <2>4
  <2>5. CASE k \notin K
    <3>1. K = R(K)
      BY <2>5
    <3>2. Total(o, R(K)) = Total(p, R(K))
      BY <2>2, TotalSame
    <3>3. QED
      BY <3>1, <3>2, <2>3, <2>5
  <2>6. QED
    BY <2>4, <2>5, <2>3
<1>1. DepthCovers(c)
  <2> SUFFICES ASSUME NEW x \in DOMAIN c.level
               PROVE  c.level[x] >= Total(p, At(p, x))
    BY <1>c DEF DepthCovers
  <2>1. x \in DOMAIN b.level /\ b.level[x] \in Nat
    BY <1>v, <1>b DEF IsBook
  <2>2. At(p, x) = R(At(o, x))
    BY <1>o, <1>l DEF At
  <2>3. b.level[x] >= Total(o, At(o, x))
    BY <2>1, <1>b DEF DepthCovers
  <2>4. /\ Total(p, R(At(o, x))) \in Nat /\ Total(o, At(o, x)) \in Nat
        /\ Total(o, At(o, x))
             = Total(p, R(At(o, x))) + (IF k \in At(o, x) THEN o[k].qty ELSE 0)
    <3>1. At(o, x) \in SUBSET DOMAIN o
      BY DEF At
    <3>2. QED
      BY <3>1, <1>r
  <2>5. k \in At(o, x) <=> x = l
    BY DEF At
  <2>6. CASE x = l
    <3>1. c.level[x] = b.level[x] - d
      BY <2>6, <1>v
    <3> HIDE DEF l, R
    <3>2. QED
      BY <2>1, <2>2, <2>3, <2>4, <2>5, <2>6, <3>1, <1>k
  <2>7. CASE x # l
    <3>1. c.level[x] = b.level[x]
      BY <2>1, <2>7, <1>v
    <3> HIDE DEF l, R
    <3>2. QED
      BY <2>1, <2>2, <2>3, <2>4, <2>5, <2>7, <3>1
  <2>8. QED
    BY <2>6, <2>7
<1>2. IsBook(c)
  <2>1. AreOrders(p)
    BY <1>b, <1>o DEF IsBook, AreOrders
  <2>2. /\ DOMAIN c.level \subseteq Side \X Price
        /\ \A x \in DOMAIN c.level : c.level[x] \in Int
    BY <1>b, <1>v, <1>k DEF IsBook
  <2>3. \A x \in DOMAIN c.level : c.level[x] \in Nat
    <3> SUFFICES ASSUME NEW x \in DOMAIN c.level
                 PROVE  c.level[x] \in Nat
      OBVIOUS
    <3>1. At(p, x) \in SUBSET Key
      BY <2>1 DEF AreOrders, At
    <3>2. Total(p, At(p, x)) \in Nat
      BY <3>1, TotalNat
    <3>3. c.level[x] >= Total(p, At(p, x))
      BY <1>1, <1>c DEF DepthCovers
    <3>4. QED
      BY <3>2, <3>3, <2>2
  <2>4. /\ DOMAIN c.cache \subseteq Key
        /\ \A x \in DOMAIN c.cache : c.cache[x] \in {"live", "stale"}
    BY <1>b, <1>i DEF IsBook
  <2>5. c.agg \in [Side -> Int]
    BY <1>b, <1>c DEF IsBook
  <2>6. QED
    BY <2>1, <2>2, <2>3, <2>4, <2>5, <1>c, <1>b DEF IsBook
<1>3. Indexed(c)
  BY <1>b, <1>c, <1>i, <1>o DEF Indexed
<1>4. Levelled(c)
  <2>1. {LevelOf(p, x) : x \in DOMAIN p}
          = IF At(o, l) = {k} THEN {LevelOf(o, x) : x \in DOMAIN o} \ {l}
                              ELSE {LevelOf(o, x) : x \in DOMAIN o}
    BY <1>o, <1>l DEF At
  <2>2. QED
    BY <2>1, <1>v, <1>b, <1>c DEF Levelled
<1>5. OffersCover(c)
  <2> DEFINE K == On(o, "sell")
  <2>1. K \in SUBSET DOMAIN o
    BY DEF On
  <2>2. On(p, "sell") = R(K)
    BY <1>o DEF On
  <2>3. /\ Total(p, R(K)) \in Nat /\ Total(o, K) \in Nat
        /\ Total(o, K) = Total(p, R(K)) + (IF k \in K THEN o[k].qty ELSE 0)
    BY <2>1, <1>r
  <2>4. k \in K <=> k[1] = "sell"
    BY DEF On
  <2>5. b.agg["sell"] \in Int /\ b.agg["sell"] >= Total(o, K)
    BY <1>b DEF IsBook, Side, OffersCover
  <2>6. c.agg["sell"] = IF s = "sell" THEN b.agg["sell"] - q ELSE b.agg["sell"]
    BY <1>b, <1>c DEF IsBook, Side
  <2> HIDE DEF K, R
  <2>7. c.agg["sell"] >= Total(p, R(K))
    <3>1. CASE s = "sell"
      BY <3>1, <2>3, <2>4, <2>5, <2>6, <1>k
    <3>2. CASE s # "sell"
      BY <3>2, <2>3, <2>5, <2>6, <1>k
    <3>3. QED
      BY <3>1, <3>2
  <2>8. QED
    BY <2>2, <2>7, <1>c DEF OffersCover
<1>6. QED
  BY <1>1, <1>2, <1>3, <1>4, <1>5 DEF WellFormed, c

-----------------------------------------------------------------------------
(* The ticks.                                                              *)

\* A book whose use met undefined behaviour is as it was, but for that mark.
LEMMA FaultedKeepsWellFormed ==
  ASSUME NEW b, WellFormed(b), NEW f \in {"stale", "freed"}
  PROVE  WellFormed(Faulted(b, f))
<1> DEFINE c == Faulted(b, f)
<1>1. /\ c.level = b.level /\ c.order = b.order /\ c.cache = b.cache
      /\ c.agg = b.agg /\ c.fault = f
  BY DEF Faulted
<1> HIDE DEF c
<1>2. WellFormed(c)
  BY <1>1 DEF WellFormed, IsBook, Indexed, Levelled, DepthCovers, OffersCover
<1>3. QED
  BY <1>2 DEF c

\* order_book::remove keeps a book well formed, whether it has the order or not.
LEMMA RemoveKeepsWellFormed ==
  ASSUME NEW b, WellFormed(b), NEW t \in RemoveTick
  PROVE  WellFormed(Remove(b, t))
<1>1. CASE t.key \notin DOMAIN b.cache
  BY <1>1 DEF Remove
<1>2. CASE t.key \in DOMAIN b.cache
  <2> DEFINE k == t.key
             q == b.order[t.key].qty
  <2>1. k \in DOMAIN b.order /\ b.cache[k] = "live"
    BY <1>2 DEF WellFormed, Indexed
  <2>2. k \in Key /\ q \in Nat
    BY <2>1, OrderBookAssumption DEF WellFormed, IsBook, AreOrders, Order, Qty
  <2>3. Remove(b, t) = Erase(b, k, q, k[1], q)
    BY <1>2, <2>1 DEF Remove
  <2>4. k[1] \in Side /\ q <= b.order[k].qty
    BY <2>2 DEF Key
  <2>5. QED
    BY <2>1, <2>2, <2>3, <2>4, EraseKeepsWellFormed
<1>3. QED
  BY <1>1, <1>2

\* order_book::execute keeps a book well formed, although it charges every
\* execution to the bids and none to the level.
LEMMA ExecuteKeepsWellFormed ==
  ASSUME NEW b, WellFormed(b), NEW t \in ExecuteTick
  PROVE  WellFormed(Execute(b, t))
<1>1. CASE t.key \notin DOMAIN b.cache
  BY <1>1 DEF Execute
<1>2. CASE t.key \in DOMAIN b.cache
  <2> DEFINE k == t.key
  <2>1. k \in DOMAIN b.order /\ b.cache[k] = "live"
    BY <1>2 DEF WellFormed, Indexed
  <2>2. 0 <= b.order[k].qty /\ t.qty \in Nat
    BY <2>1, OrderBookAssumption
       DEF WellFormed, IsBook, AreOrders, Order, Qty, ExecuteTick
  <2>3. \/ Execute(b, t) = Faulted(b, "freed")
        \/ Execute(b, t) = Erase(b, k, 0, "buy", t.qty)
    BY <1>2, <2>1 DEF Execute
  <2>4. WellFormed(Erase(b, k, 0, "buy", t.qty))
    BY <2>1, <2>2, EraseKeepsWellFormed DEF Side
  <2>5. WellFormed(Faulted(b, "freed"))
    BY FaultedKeepsWellFormed
  <2>6. QED
    BY <2>3, <2>4, <2>5
<1>3. QED
  BY <1>1, <1>2

\* order_book::reset, from any orders of a snapshot, leaves a well-formed book.
LEMMA LoadIsWellFormed ==
  ASSUME NEW o, AreOrders(o)
  PROVE  WellFormed(Load(o))
<1> DEFINE c == Load(o)
<1>1. /\ c.level = [l \in {LevelOf(o, k) : k \in DOMAIN o} |-> Total(o, At(o, l))]
      /\ c.order = o
      /\ c.cache = [k \in DOMAIN o |-> "live"]
      /\ c.agg = [s \in Side |-> Total(o, On(o, s))]
      /\ c.fault = "none"
  BY DEF Load
<1>2. \A l : Total(o, At(o, l)) \in Nat
  <2>1. \A l : At(o, l) \in SUBSET Key
    BY DEF AreOrders, At
  <2>2. QED
    BY <2>1, TotalNat
<1>3. \A s : Total(o, On(o, s)) \in Nat
  <2>1. \A s : On(o, s) \in SUBSET Key
    BY DEF AreOrders, On
  <2>2. QED
    BY <2>1, TotalNat
<1> HIDE DEF c
<1>4. IsBook(c)
  <2>1. DOMAIN c.level \subseteq Side \X Price
    BY <1>1 DEF AreOrders, Order, Key, LevelOf
  <2>2. \A l \in DOMAIN c.level : c.level[l] \in Nat
    BY <1>1, <1>2
  <2>3. c.agg \in [Side -> Int]
    BY <1>1, <1>3
  <2>4. /\ DOMAIN c.cache \subseteq Key
        /\ \A x \in DOMAIN c.cache : c.cache[x] \in {"live", "stale"}
    BY <1>1 DEF AreOrders
  <2>5. QED
    BY <1>1, <2>1, <2>2, <2>3, <2>4 DEF IsBook
<1>5. Indexed(c) /\ Levelled(c)
  BY <1>1 DEF Indexed, Levelled
<1>6. DepthCovers(c)
  BY <1>1, <1>2 DEF DepthCovers
<1>7. OffersCover(c)
  BY <1>1, <1>3 DEF OffersCover, Side
<1>8. QED
  BY <1>4, <1>5, <1>6, <1>7 DEF WellFormed, c

\* A tick the venue can send to a book that knows no order the venue has not.
LEMMA ApplyKeepsWellFormed ==
  ASSUME NEW b, WellFormed(b), NEW t,
         \/ t \in AddTick /\ (b.fault = "none" => t.key \notin DOMAIN b.order)
         \/ t \in RemoveTick
         \/ t \in ExecuteTick
         \/ \E o : AreOrders(o) /\ t = SnapshotOf(o)
  PROVE  WellFormed(Apply(b, t))
<1>1. CASE b.fault # "none"
  BY <1>1 DEF Apply
<1>2. CASE b.fault = "none"
  <2>1. CASE t \in AddTick /\ (b.fault = "none" => t.key \notin DOMAIN b.order)
    <3>1. t.kind = "add"
      BY <2>1 DEF AddTick
    <3>2. Apply(b, t) = Add(b, t)
      BY <1>2, <3>1 DEF Apply
    <3>3. QED
      BY <2>1, <3>2, <1>2, AddKeepsWellFormed
  <2>2. CASE t \in RemoveTick
    <3>1. t.kind = "remove"
      BY <2>2 DEF RemoveTick
    <3>2. Apply(b, t) = Remove(b, t)
      BY <1>2, <3>1 DEF Apply
    <3>3. QED
      BY <2>2, <3>2, RemoveKeepsWellFormed
  <2>3. CASE t \in ExecuteTick
    <3>1. t.kind = "execute"
      BY <2>3 DEF ExecuteTick
    <3>2. Apply(b, t) = Execute(b, t)
      BY <1>2, <3>1 DEF Apply
    <3>3. QED
      BY <2>3, <3>2, ExecuteKeepsWellFormed
  <2>4. ASSUME NEW o, AreOrders(o), t = SnapshotOf(o)
        PROVE  WellFormed(Apply(b, t))
    <3>1. t.kind = "snapshot" /\ t.orders = o
      BY <2>4 DEF SnapshotOf
    <3>2. Apply(b, t) = Load(o)
      BY <1>2, <3>1 DEF Apply
    <3>3. QED
      BY <2>4, <3>2, LoadIsWellFormed
  <2>5. QED
    BY <2>1, <2>2, <2>3, <2>4
<1>3. QED
  BY <1>1, <1>2

-----------------------------------------------------------------------------
(* Books that replay alike.                                                *)

\* What remove and execute need of a book to find an order of its ladders, or to
\* find none, whatever stale entries an assignment left in the caches.
Usable(b) ==
    /\ DOMAIN b.order \subseteq DOMAIN b.cache
    /\ \A k \in DOMAIN b.cache :
          /\ b.cache[k] \in {"live", "stale"}
          /\ b.cache[k] = "live" => k \in DOMAIN b.order

\* Until undefined behaviour the two books compare equal.
Same(a, b) == a.fault = "none" /\ b.fault = "none" => Visible(a) = Visible(b)

\* A book has the fields of an order_book and no other.
Shaped(b) == b = [level |-> b.level, order |-> b.order, cache |-> b.cache,
                  agg |-> b.agg, fault |-> b.fault]

\* A tick the venue sends, as process_tick distinguishes them.
Kinds == {"snapshot", "add", "remove", "execute"}

\* order_book::reset and the adds of a snapshot index every order.
LEMMA LoadUsable ==
  ASSUME NEW o
  PROVE  Usable(Load(o)) /\ Load(o).fault = "none" /\ Load(o).order = o
<1>1. /\ Load(o).cache = [k \in DOMAIN o |-> "live"] /\ Load(o).order = o
      /\ Load(o).fault = "none"
  BY DEF Load
<1> QED  BY <1>1 DEF Usable

\* order_book::operator= leaves stale entries, and one for each order at least.
LEMMA AssignUsable ==
  ASSUME NEW b, NEW r, Shaped(r)
  PROVE  /\ Usable(Assign(b, r))
         /\ Assign(b, r).fault = r.fault
         /\ Visible(Assign(b, r)) = Visible(r)
<1>1. /\ Assign(b, r).cache = [k \in DOMAIN b.cache \cup DOMAIN r.order |->
                                 IF k \in DOMAIN b.cache THEN "stale" ELSE "live"]
      /\ Assign(b, r).order = r.order /\ Assign(b, r).level = r.level
      /\ Assign(b, r).agg = r.agg /\ Assign(b, r).fault = r.fault
  BY DEF Assign, Shaped
<1> QED  BY <1>1 DEF Usable, Visible

\* order_book::remove and execute on a usable book: an order that is not in the
\* ladders is ignored or faults, one that is there is erased or faults.
LEMMA Finds ==
  ASSUME NEW b, NEW k, Usable(b)
  PROVE  /\ k \notin DOMAIN b.order => k \notin DOMAIN b.cache \/ b.cache[k] = "stale"
         /\ k \in DOMAIN b.order => k \in DOMAIN b.cache
BY DEF Usable

\* Erasing an order keeps the rest usable.
LEMMA EraseUsable ==
  ASSUME NEW b, NEW k, NEW d, NEW s, NEW q, Usable(b)
  PROVE  Usable(Erase(b, k, d, s, q))
<1> DEFINE c == Erase(b, k, d, s, q)
<1>1. c.order = Without(b.order, {k}) /\ c.cache = Without(b.cache, {k})
  BY DEF Erase
<1> HIDE DEF c
<1>2. DOMAIN c.order = DOMAIN b.order \ {k}
  BY <1>1, WithoutFacts
<1>3. DOMAIN c.cache = DOMAIN b.cache \ {k}
  BY <1>1, WithoutFacts
<1>4. \A x \in DOMAIN c.cache : c.cache[x] = b.cache[x]
  BY <1>1, <1>3 DEF Without, Restrict
<1>5. Usable(c)
  BY <1>2, <1>3, <1>4 DEF Usable
<1> QED  BY <1>5 DEF c

\* A marked book is as it was but for the mark.
LEMMA FaultedUsable ==
  ASSUME NEW b, NEW f, Usable(b)
  PROVE  Usable(Faulted(b, f))
<1>1. Faulted(b, f).order = b.order /\ Faulted(b, f).cache = b.cache
  BY DEF Faulted
<1> QED  BY <1>1 DEF Usable

\* A new order is indexed.
LEMMA AddUsable ==
  ASSUME NEW b, NEW t, Usable(b)
  PROVE  Usable(Add(b, t))
<1> DEFINE c == Add(b, t)
           v == [price |-> t.price, qty |-> t.qty]
<1>1. c.order = With(b.order, t.key, v) /\ c.cache = With(b.cache, t.key, "live")
  BY DEF Add
<1> HIDE DEF c, v
<1>2. DOMAIN c.order = DOMAIN b.order \cup {t.key}
  BY <1>1 DEF With
<1>3. /\ DOMAIN c.cache = DOMAIN b.cache \cup {t.key}
      /\ c.cache[t.key] = "live"
      /\ \A x \in DOMAIN b.cache : x # t.key => c.cache[x] = b.cache[x]
  BY <1>1 DEF With
<1>4. Usable(c)
  BY <1>2, <1>3 DEF Usable
<1> QED  BY <1>4 DEF c

\* replay_tick, by the kind of the tick.
LEMMA ApplyIs ==
  ASSUME NEW b, NEW t
  PROVE  /\ b.fault # "none" => Apply(b, t) = b
         /\ b.fault = "none" =>
              /\ t.kind = "snapshot" => Apply(b, t) = Load(t.orders)
              /\ t.kind = "add" => Apply(b, t) = Add(b, t)
              /\ t.kind = "remove" => Apply(b, t) = Remove(b, t)
              /\ t.kind = "execute" => Apply(b, t) = Execute(b, t)
BY DEF Apply

\* What remove may come to.
LEMMA RemoveIs ==
  ASSUME NEW b, NEW t
  PROVE  /\ t.key \notin DOMAIN b.cache => Remove(b, t) = b
         /\ t.key \in DOMAIN b.cache /\ b.cache[t.key] = "stale"
              => Remove(b, t) = Faulted(b, "stale")
         /\ t.key \in DOMAIN b.cache /\ b.cache[t.key] # "stale"
              => Remove(b, t) = Erase(b, t.key, b.order[t.key].qty, t.key[1],
                                      b.order[t.key].qty)
BY DEF Remove

\* What execute may come to.
LEMMA ExecuteIs ==
  ASSUME NEW b, NEW t
  PROVE  /\ t.key \notin DOMAIN b.cache => Execute(b, t) = b
         /\ t.key \in DOMAIN b.cache /\ b.cache[t.key] = "stale"
              => Execute(b, t) = Faulted(b, "stale")
         /\ t.key \in DOMAIN b.cache /\ b.cache[t.key] # "stale"
              => Execute(b, t) \in {Faulted(b, "freed"),
                                    Erase(b, t.key, 0, "buy", t.qty)}
BY DEF Execute

\* replay_tick keeps a book usable.
LEMMA ApplyUsable ==
  ASSUME NEW b, NEW t, Usable(b), t.kind \in Kinds
  PROVE  Usable(Apply(b, t))
<1>1. CASE b.fault # "none"
  BY <1>1, ApplyIs
<1>2. CASE b.fault = "none" /\ t.kind = "snapshot"
  BY <1>2, ApplyIs, LoadUsable
<1>3. CASE b.fault = "none" /\ t.kind = "add"
  BY <1>3, ApplyIs, AddUsable
<1>4. CASE b.fault = "none" /\ t.kind = "remove"
  <2>1. Usable(Remove(b, t))
    BY RemoveIs, FaultedUsable, EraseUsable
  <2> QED  BY <1>4, <2>1, ApplyIs
<1>5. CASE b.fault = "none" /\ t.kind = "execute"
  <2>1. Usable(Execute(b, t))
    BY ExecuteIs, FaultedUsable, EraseUsable
  <2> QED  BY <1>5, <2>1, ApplyIs
<1> QED  BY <1>1, <1>2, <1>3, <1>4, <1>5 DEF Kinds

\* A book that has faulted stays so.
LEMMA FaultStays ==
  ASSUME NEW b, NEW t, Apply(b, t).fault = "none"
  PROVE  b.fault = "none"
BY ApplyIs

\* Erase sees of a book what operator== compares.
LEMMA EraseSame ==
  ASSUME NEW a, NEW b, Visible(a) = Visible(b), NEW k, NEW d, NEW s, NEW q
  PROVE  Visible(Erase(a, k, d, s, q)) = Visible(Erase(b, k, d, s, q))
<1>1. a.level = b.level /\ a.order = b.order /\ a.agg = b.agg
  BY DEF Visible
<1> QED  BY <1>1, Zenon DEF Visible, Erase

\* Two usable books that compare equal do so after the same tick, unless one
\* of them meets undefined behaviour.
LEMMA SameApply ==
  ASSUME NEW a, NEW b, NEW t, Usable(a), Usable(b), Same(a, b), t.kind \in Kinds
  PROVE  Same(Apply(a, t), Apply(b, t))
<1> SUFFICES ASSUME Apply(a, t).fault = "none", Apply(b, t).fault = "none"
             PROVE  Visible(Apply(a, t)) = Visible(Apply(b, t))
  BY DEF Same
<1>1. a.fault = "none" /\ b.fault = "none" /\ Visible(a) = Visible(b)
  BY FaultStays DEF Same
<1>2. a.level = b.level /\ a.order = b.order /\ a.agg = b.agg
  BY <1>1 DEF Visible
<1>f. \A c, f : Faulted(c, f).fault = f
  BY DEF Faulted
<1>3. CASE t.kind = "snapshot"
  BY <1>1, <1>3, ApplyIs
<1>4. CASE t.kind = "add"
  <2>1. Visible(Add(a, t)) = Visible(Add(b, t))
    BY <1>2, Zenon DEF Visible, Add
  <2> QED  BY <1>1, <1>4, <2>1, ApplyIs
<1>5. CASE t.kind = "remove"
  <2>0. /\ Apply(a, t) = Remove(a, t) /\ Apply(b, t) = Remove(b, t)
        /\ ~(t.key \in DOMAIN a.cache /\ a.cache[t.key] = "stale")
        /\ ~(t.key \in DOMAIN b.cache /\ b.cache[t.key] = "stale")
    BY <1>1, <1>5, <1>f, ApplyIs, RemoveIs
  <2>1. CASE t.key \notin DOMAIN a.order
    <3>1. Remove(a, t) = a /\ Remove(b, t) = b
      BY <1>2, <2>0, <2>1, Finds, RemoveIs
    <3> QED  BY <1>1, <2>0, <3>1
  <2>2. CASE t.key \in DOMAIN a.order
    <3> DEFINE q == a.order[t.key].qty
    <3>1. /\ Remove(a, t) = Erase(a, t.key, q, t.key[1], q)
          /\ Remove(b, t) = Erase(b, t.key, q, t.key[1], q)
      BY <1>2, <2>0, <2>2, Finds, RemoveIs
    <3> HIDE DEF q
    <3>2. Visible(Erase(a, t.key, q, t.key[1], q)) = Visible(Erase(b, t.key, q, t.key[1], q))
      BY <1>1, EraseSame
    <3> QED  BY <2>0, <3>1, <3>2
  <2> QED  BY <2>1, <2>2
<1>6. CASE t.kind = "execute"
  <2>0. /\ Apply(a, t) = Execute(a, t) /\ Apply(b, t) = Execute(b, t)
        /\ ~(t.key \in DOMAIN a.cache /\ a.cache[t.key] = "stale")
        /\ ~(t.key \in DOMAIN b.cache /\ b.cache[t.key] = "stale")
    BY <1>1, <1>6, <1>f, ApplyIs, ExecuteIs
  <2>1. CASE t.key \notin DOMAIN a.order
    <3>1. Execute(a, t) = a /\ Execute(b, t) = b
      BY <1>2, <2>0, <2>1, Finds, ExecuteIs
    <3> QED  BY <1>1, <2>0, <3>1
  <2>2. CASE t.key \in DOMAIN a.order
    <3>1. /\ Execute(a, t) = Erase(a, t.key, 0, "buy", t.qty)
          /\ Execute(b, t) = Erase(b, t.key, 0, "buy", t.qty)
      BY <1>2, <1>f, <2>0, <2>2, Finds, ExecuteIs
    <3>2. Visible(Erase(a, t.key, 0, "buy", t.qty)) = Visible(Erase(b, t.key, 0, "buy", t.qty))
      BY <1>1, EraseSame
    <3> QED  BY <2>0, <3>1, <3>2
  <2> QED  BY <2>1, <2>2
<1> QED  BY <1>3, <1>4, <1>5, <1>6 DEF Kinds

\* replay_tick leaves a book of the same shape.
LEMMA ApplyShaped ==
  ASSUME NEW b, NEW t, Shaped(b), t.kind \in Kinds
  PROVE  Shaped(Apply(b, t))
<1>1. /\ \A o : Shaped(Load(o))
      /\ Shaped(Add(b, t))
      /\ \A f : Shaped(Faulted(b, f))
      /\ \A k, d, s, q : Shaped(Erase(b, k, d, s, q))
  <2>1. \A o : Shaped(Load(o))
    BY DEF Shaped, Load
  <2>2. Shaped(Add(b, t))
    BY DEF Shaped, Add
  <2>3. \A f : Shaped(Faulted(b, f))
    BY DEF Shaped, Faulted
  <2>4. \A k, d, s, q : Shaped(Erase(b, k, d, s, q))
    BY DEF Shaped, Erase
  <2> QED  BY <2>1, <2>2, <2>3, <2>4
<1>2. Shaped(Remove(b, t)) /\ Shaped(Execute(b, t))
  BY <1>1, RemoveIs, ExecuteIs
<1> QED  BY <1>1, <1>2, ApplyIs DEF Kinds
=============================================================================
