--------------------------- MODULE OrderBookProofs ---------------------------
(***************************************************************************)
(* Safety of one order book, for every set of order identifiers and        *)
(* prices, every largest quantity and either build.                        *)
(***************************************************************************)
EXTENDS OrderBook, OrderBookOpsProofs

\* The inductive invariant.  Well-formedness alone is not inductive: that add
\* meets a key the book does not hold follows from the book's soundness, and
\* soundness needs the caches to index the ladders.
IInv == WellFormed(book) /\ BookIsSound /\ AreOrders(live) /\ owed \subseteq Key

-----------------------------------------------------------------------------
(* What a tick leaves of the orders.                                       *)

\* add brings in one order.
LEMMA AddOrders ==
  ASSUME NEW b, b.fault = "none", NEW t \in AddTick, NEW c, c = Apply(b, t)
  PROVE  /\ DOMAIN c.order = DOMAIN b.order \cup {t.key}
         /\ c.order[t.key] = [price |-> t.price, qty |-> t.qty]
         /\ \A x \in DOMAIN b.order : x # t.key => c.order[x] = b.order[x]
<1>1. t.kind = "add"
  BY DEF AddTick
<1>2. c = Add(b, t)
  BY <1>1 DEF Apply
<1>3. c.order = With(b.order, t.key, [price |-> t.price, qty |-> t.qty])
  BY <1>2 DEF Add
<1>4. QED
  BY <1>3 DEF With

\* erasing takes one order out and changes no other.
LEMMA EraseOrders ==
  ASSUME NEW b, NEW k, NEW d, NEW s, NEW q, NEW c, c = Erase(b, k, d, s, q)
  PROVE  /\ DOMAIN c.order = DOMAIN b.order \ {k}
         /\ \A x \in DOMAIN c.order : c.order[x] = b.order[x]
<1>1. c.order = Without(b.order, {k})
  BY DEF Erase
<1>2. QED
  BY <1>1 DEF Without, Restrict

\* remove and execute leave no order under their key, unless the book faults.
LEMMA TickOrders ==
  ASSUME NEW b, WellFormed(b), b.fault = "none",
         NEW t \in RemoveTick \cup ExecuteTick, NEW c, c = Apply(b, t),
         c.fault = "none"
  PROVE  /\ DOMAIN c.order = DOMAIN b.order \ {t.key}
         /\ \A x \in DOMAIN c.order : c.order[x] = b.order[x]
<1>1. \/ t.kind = "remove" /\ c = Remove(b, t)
      \/ t.kind = "execute" /\ c = Execute(b, t)
  BY DEF Apply, RemoveTick, ExecuteTick
<1>2. CASE t.key \notin DOMAIN b.cache
  <2>1. c = b
    BY <1>1, <1>2 DEF Remove, Execute
  <2>2. t.key \notin DOMAIN b.order
    BY <1>2 DEF WellFormed, Indexed
  <2>3. QED
    BY <2>1, <2>2
<1>3. CASE t.key \in DOMAIN b.cache
  <2>1. b.cache[t.key] = "live"
    BY <1>3 DEF WellFormed, Indexed
  <2>2. \E d, s, q : c = Erase(b, t.key, d, s, q)
    <3>1. CASE t.kind = "remove" /\ c = Remove(b, t)
      BY <3>1, <1>3, <2>1 DEF Remove
    <3>2. CASE t.kind = "execute" /\ c = Execute(b, t)
      <4>1. \/ c = Faulted(b, "freed")
            \/ c = Erase(b, t.key, 0, "buy", t.qty)
        BY <3>2, <1>3, <2>1 DEF Execute
      <4>2. c # Faulted(b, "freed")
        BY DEF Faulted
      <4>3. QED
        BY <4>1, <4>2
    <3>3. QED
      BY <1>1, <3>1, <3>2
  <2>3. QED
    BY <2>2, EraseOrders
<1>4. QED
  BY <1>2, <1>3

-----------------------------------------------------------------------------
(* One lemma per action.                                                   *)

\* A new order_book is empty, and so is the venue: the invariant holds.
LEMMA InitIInv == Init => IInv
<1>1. AreOrders(NoOrders)
  BY DEF AreOrders, NoOrders
<1>2. WellFormed(EmptyBook)
  BY <1>1, LoadIsWellFormed DEF EmptyBook
<1>3. EmptyBook.order = NoOrders
  BY DEF EmptyBook, Load
<1>4. SUFFICES ASSUME Init PROVE IInv
  OBVIOUS
<1>5. BookIsSound
  BY <1>3, <1>4 DEF Init, BookIsSound, NoOrders
<1>6. QED
  BY <1>1, <1>2, <1>4, <1>5 DEF Init, VenueInit, IInv

\* order_added: the new order enters the venue's book and, by add, this one.
LEMMA PlaceKeepsIInv == IInv /\ OnPlace => IInv'
<1> SUFFICES ASSUME IInv, NEW t \in AddTick, Place(t), Replay(t)
             PROVE  IInv'
  BY DEF OnPlace
<1> DEFINE e == [price |-> t.price, qty |-> t.qty]
<1>1. t.key \in Key /\ e \in Order
  BY DEF AddTick, Order
<1>2. /\ DOMAIN live' = DOMAIN live \cup {t.key}
      /\ live'[t.key] = e
      /\ \A x \in DOMAIN live : x # t.key => live'[x] = live[x]
      /\ t.key \notin DOMAIN live
      /\ owed' = owed
  BY DEF Place, With
<1>3. AreOrders(live')
  BY <1>1, <1>2 DEF IInv, AreOrders
<1>4. book.fault = "none" => t.key \notin DOMAIN book.order
  BY <1>2 DEF IInv, BookIsSound
<1>5. WellFormed(book')
  BY <1>4, ApplyKeepsWellFormed DEF IInv, Replay
<1>6. BookIsSound'
  <2>1. CASE book.fault = "none"
    <3>1. /\ DOMAIN book'.order = DOMAIN book.order \cup {t.key}
          /\ book'.order[t.key] = e
          /\ \A x \in DOMAIN book.order : x # t.key => book'.order[x] = book.order[x]
      BY <2>1, AddOrders DEF Replay
    <3>2. \A x \in DOMAIN book.order : x \in DOMAIN live /\ book.order[x] = live[x]
      BY <2>1 DEF IInv, BookIsSound
    <3> HIDE DEF e
    <3>3. QED
      BY <3>1, <3>2, <1>2 DEF BookIsSound
  <2>2. CASE book.fault # "none"
    BY <2>2 DEF Replay, Apply, BookIsSound
  <2>3. QED
    BY <2>1, <2>2
<1>7. QED
  BY <1>2, <1>3, <1>5, <1>6 DEF IInv

\* The ticks that name a known order: each touches the venue under its key only.
LEMMA NamedTickKeepsIInv ==
  ASSUME IInv, NEW t \in RemoveTick \cup ExecuteTick, Replay(t),
         AreOrders(live'), owed' \subseteq Key,
         \A x \in DOMAIN live : x # t.key => x \in DOMAIN live' /\ live'[x] = live[x]
  PROVE  IInv'
<1>1. WellFormed(book')
  BY ApplyKeepsWellFormed DEF IInv, Replay
<1>2. BookIsSound'
  <2> SUFFICES ASSUME book'.fault = "none", NEW x \in DOMAIN book'.order
               PROVE  x \in DOMAIN live' /\ book'.order[x] = live'[x]
    BY DEF BookIsSound
  <2>1. book.fault = "none"
    BY DEF Replay, Apply
  <2>2. /\ DOMAIN book'.order = DOMAIN book.order \ {t.key}
        /\ book'.order[x] = book.order[x]
    BY <2>1, TickOrders DEF IInv, Replay
  <2>3. x \in DOMAIN live /\ book.order[x] = live[x]
    BY <2>1, <2>2 DEF IInv, BookIsSound
  <2>4. QED
    BY <2>2, <2>3
<1>3. QED
  BY <1>1, <1>2 DEF IInv

\* order_deleted, of an order cancelled or filled: remove erases it if it is here.
LEMMA CancelKeepsIInv == IInv /\ (OnCancel \/ OnFill) => IInv'
<1> SUFFICES ASSUME IInv, NEW t \in RemoveTick, Cancel(t) \/ Fill(t), Replay(t)
             PROVE  IInv'
  BY DEF OnCancel, OnFill
<1>1. live' = Without(live, {t.key}) /\ owed' \subseteq Key
  BY DEF Cancel, Fill, IInv, RemoveTick
<1>2. /\ DOMAIN live' = DOMAIN live \ {t.key}
      /\ \A x \in DOMAIN live' : live'[x] = live[x]
  BY <1>1 DEF Without, Restrict
<1>3. AreOrders(live')
  BY <1>2 DEF IInv, AreOrders
<1>4. QED
  BY <1>1, <1>2, <1>3, NamedTickKeepsIInv

\* order_executed that follows the deletion of a filled order: whatever execute
\* does, it adds no order.
LEMMA SettleKeepsIInv == IInv /\ OnSettle => IInv'
<1> SUFFICES ASSUME IInv, NEW t \in ExecuteTick, Settle(t), Replay(t)
             PROVE  IInv'
  BY DEF OnSettle
<1>1. live' = live /\ owed' \subseteq Key
  BY DEF Settle, IInv
<1>2. QED
  BY <1>1, NamedTickKeepsIInv DEF IInv

\* order_executed in part: the venue keeps the rest of the order, execute erases
\* it, so the book still holds live orders only.
LEMMA PartialFillKeepsIInv == IInv /\ OnPartialFill => IInv'
<1> SUFFICES ASSUME IInv, NEW t \in ExecuteTick, PartialFill(t), Replay(t)
             PROVE  IInv'
  BY DEF OnPartialFill
<1> DEFINE k == t.key
<1>1. /\ k \in DOMAIN live /\ t.qty < live[k].qty /\ owed' = owed
      /\ live' = [live EXCEPT ![k].qty = @ - t.qty]
  BY DEF PartialFill
<1>2. live[k] \in Order /\ t.qty \in Qty
  BY <1>1 DEF IInv, AreOrders, ExecuteTick
<1>3. /\ DOMAIN live' = DOMAIN live
      /\ live'[k] = [live[k] EXCEPT !.qty = @ - t.qty]
      /\ \A x \in DOMAIN live : x # k => live'[x] = live[x]
  BY <1>1
<1>4. live'[k] \in Order
  BY <1>1, <1>2, <1>3, OrderBookAssumption DEF Order, Qty
<1>5. AreOrders(live')
  BY <1>3, <1>4 DEF IInv, AreOrders
<1>6. QED
  BY <1>1, <1>3, <1>5, NamedTickKeepsIInv DEF IInv

\* snapshot: reset replaces the book by the venue's orders.
LEMMA SnapshotKeepsIInv == IInv /\ OnSnapshot => IInv'
<1> SUFFICES ASSUME IInv, OnSnapshot PROVE IInv'
  OBVIOUS
<1>1. live' = live /\ owed' = owed /\ book' = Apply(book, SnapshotOf(live))
  BY DEF OnSnapshot, Replay, venue
<1>2. WellFormed(book')
  BY <1>1, ApplyKeepsWellFormed DEF IInv
<1>3. BookIsSound'
  <2>1. CASE book.fault = "none"
    <3>1. book' = Load(live)
      BY <2>1, <1>1 DEF Apply, SnapshotOf
    <3>2. book'.order = live
      BY <3>1 DEF Load
    <3>3. QED
      BY <3>2, <1>1 DEF BookIsSound
  <2>2. CASE book.fault # "none"
    BY <2>2, <1>1 DEF Apply, BookIsSound
  <2>3. QED
    BY <2>1, <2>2
<1>4. QED
  BY <1>1, <1>2, <1>3 DEF IInv

-----------------------------------------------------------------------------
(* A book in step with the venue.                                          *)

\* The depths and aggregates of a book are those of its orders.
Exact(b) ==
    /\ \A l \in DOMAIN b.level : b.level[l] = Total(b.order, At(b.order, l))
    /\ \A s \in Side : b.agg[s] = Total(b.order, On(b.order, s))

\* An order more, or the same seen from the other side, an order less: what its
\* level and its side hold of the orders o is p's less its quantity.
LEMMA OneMore ==
  ASSUME NEW o, AreOrders(o), NEW p, NEW k \in Key \ DOMAIN o,
         DOMAIN p = DOMAIN o \cup {k}, \A x \in DOMAIN o : p[x] = o[x], p[k] \in Order
  PROVE  /\ \A l : Total(p, At(p, l)) =
                   Total(o, At(o, l)) + IF l = LevelOf(p, k) THEN p[k].qty ELSE 0
         /\ \A s : Total(p, On(p, s)) =
                   Total(o, On(o, s)) + IF s = k[1] THEN p[k].qty ELSE 0
<1>1. p[k].qty \in Qty
  BY DEF Order
<1>2. ASSUME NEW K \in SUBSET DOMAIN o
      PROVE  /\ Total(o, K) \in Nat /\ Total(p, K) = Total(o, K)
             /\ Total(p, K \cup {k}) = Total(o, K) + p[k].qty
  <2>1. K \in SUBSET Key /\ k \in Key \ K /\ \A x \in K : p[x].qty = o[x].qty
    BY DEF AreOrders
  <2>2. Total(o, K) \in Nat
    BY <2>1, TotalNat
  <2>3. Total(p, K) = Total(o, K)
    BY <2>1, TotalSame
  <2>4. Total(p, K \cup {k}) = Total(o, K) + p[k].qty
    BY <1>1, <2>1, TotalMore
  <2> QED  BY <2>2, <2>3, <2>4
<1>3. ASSUME NEW l
      PROVE  Total(p, At(p, l)) =
               Total(o, At(o, l)) + IF l = LevelOf(p, k) THEN p[k].qty ELSE 0
  <2>1. At(p, l) = IF l = LevelOf(p, k) THEN At(o, l) \cup {k} ELSE At(o, l)
    BY DEF At, LevelOf
  <2>2. At(o, l) \in SUBSET DOMAIN o
    BY DEF At
  <2>3. /\ Total(o, At(o, l)) \in Nat /\ Total(p, At(o, l)) = Total(o, At(o, l))
        /\ Total(p, At(o, l) \cup {k}) = Total(o, At(o, l)) + p[k].qty
    BY <1>2, <2>2
  <2>4. CASE l = LevelOf(p, k)
    BY <2>1, <2>3, <2>4
  <2>5. CASE l /= LevelOf(p, k)
    BY <2>1, <2>3, <2>5
  <2> QED  BY <2>4, <2>5
<1>4. ASSUME NEW s
      PROVE  Total(p, On(p, s)) = Total(o, On(o, s)) + IF s = k[1] THEN p[k].qty ELSE 0
  <2>1. On(p, s) = IF s = k[1] THEN On(o, s) \cup {k} ELSE On(o, s)
    BY DEF On
  <2>2. On(o, s) \in SUBSET DOMAIN o
    BY DEF On
  <2> QED  BY <1>2, <2>1, <2>2
<1> QED  BY <1>3, <1>4

\* No orders have no quantity.
LEMMA TotalOfNone == \A o : Total(o, {}) = 0
<1>1. \A o : Units(o, {}) = {}
  BY DEF Units
<1> QED  BY <1>1, FS_EmptySet DEF Total

\* order_book::add counts a new order where it stands.
LEMMA AddKeepsExact ==
  ASSUME NEW b, WellFormed(b), Exact(b), NEW t \in AddTick, t.key \notin DOMAIN b.order
  PROVE  Exact(Add(b, t))
<1> DEFINE k == t.key
           l == <<t.key[1], t.price>>
           o == b.order
           p == With(o, k, [price |-> t.price, qty |-> t.qty])
           c == Add(b, t)
<1>1. k \in Key /\ k[1] \in Side /\ t.qty \in Nat /\ AreOrders(o)
      /\ [price |-> t.price, qty |-> t.qty] \in Order
  BY OrderBookAssumption DEF AddTick, Key, Qty, Order, WellFormed, IsBook
<1>2. /\ c.order = p
      /\ c.level = With(b.level, l, (IF l \in DOMAIN b.level THEN b.level[l] ELSE 0) + t.qty)
      /\ c.agg = [b.agg EXCEPT ![k[1]] = @ + t.qty]
  BY DEF Add
<1>3. /\ DOMAIN p = DOMAIN o \cup {k} /\ p[k] = [price |-> t.price, qty |-> t.qty]
      /\ \A x \in DOMAIN o : p[x] = o[x]
  BY DEF With
<1>4. LevelOf(p, k) = l /\ p[k].qty = t.qty
  BY <1>3 DEF LevelOf
<1> HIDE DEF p, c
<1>5. /\ \A x : Total(p, At(p, x)) = Total(o, At(o, x)) + IF x = l THEN t.qty ELSE 0
      /\ \A s : Total(p, On(p, s)) = Total(o, On(o, s)) + IF s = k[1] THEN t.qty ELSE 0
  BY <1>1, <1>3, <1>4, OneMore
<1>6. l \notin DOMAIN b.level => Total(o, At(o, l)) = 0
  <2>1. l \notin DOMAIN b.level => At(o, l) = {}
    BY DEF WellFormed, Levelled, At
  <2> QED  BY <2>1, TotalOfNone
<1>7. ASSUME NEW x \in DOMAIN c.level PROVE c.level[x] = Total(p, At(p, x))
  <2> HIDE DEF l
  <2>1. CASE x = l
    <3>1. c.level[l] = (IF l \in DOMAIN b.level THEN b.level[l] ELSE 0) + t.qty
      BY <1>2 DEF With
    <3> QED  BY <1>5, <1>6, <2>1, <3>1 DEF Exact
  <2>2. CASE x /= l
    <3>1. x \in DOMAIN b.level /\ c.level[x] = b.level[x]
      BY <1>2, <1>7, <2>2 DEF With
    <3>2. b.level[x] \in Nat /\ b.level[x] = Total(o, At(o, x))
      BY <3>1 DEF WellFormed, IsBook, Exact
    <3> QED  BY <1>5, <2>2, <3>1, <3>2
  <2> QED  BY <2>1, <2>2
<1>8. ASSUME NEW s \in Side PROVE c.agg[s] = Total(p, On(p, s))
  <2>1. b.agg \in [Side -> Int] /\ b.agg[s] = Total(o, On(o, s))
    BY DEF WellFormed, IsBook, Exact
  <2>2. c.agg[s] = b.agg[s] + IF s = k[1] THEN t.qty ELSE 0
    BY <1>1, <1>2, <2>1
  <2> QED  BY <1>5, <2>1, <2>2
<1> QED  BY <1>2, <1>7, <1>8 DEF Exact, c

\* order_book::remove takes an order's quantity from where it stood.
LEMMA RemoveKeepsExact ==
  ASSUME NEW b, WellFormed(b), Exact(b), NEW t \in RemoveTick, t.key \in DOMAIN b.order
  PROVE  Exact(Remove(b, t)) /\ Remove(b, t).order = Without(b.order, {t.key})
<1> DEFINE k == t.key
           q == b.order[k].qty
           o == b.order
           p == Without(o, {k})
           l == LevelOf(o, k)
           c == Remove(b, t)
<1>1. k \in Key /\ k[1] \in Side /\ AreOrders(o) /\ o[k] \in Order /\ q \in Nat
  BY OrderBookAssumption DEF RemoveTick, Key, WellFormed, IsBook, AreOrders, Order, Qty
<1>2. c = Erase(b, k, q, k[1], q)
  BY DEF Remove, WellFormed, Indexed
<1>3. /\ c.order = p
      /\ c.level = IF At(o, l) = {k} THEN Without(b.level, {l})
                                     ELSE [b.level EXCEPT ![l] = @ - q]
      /\ c.agg = [b.agg EXCEPT ![k[1]] = @ - q]
  BY <1>2 DEF Erase
<1>4. DOMAIN p = DOMAIN o \ {k} /\ \A x \in DOMAIN p : o[x] = p[x]
  BY DEF Without, Restrict
<1>5. l \in DOMAIN b.level
  BY DEF WellFormed, Levelled
<1> HIDE DEF p, c
<1>6. AreOrders(p)
  BY <1>1, <1>4 DEF AreOrders
<1>7. /\ \A x : Total(o, At(o, x)) = Total(p, At(p, x)) + IF x = l THEN q ELSE 0
      /\ \A s : Total(o, On(o, s)) = Total(p, On(p, s)) + IF s = k[1] THEN q ELSE 0
  <2>1. DOMAIN o = DOMAIN p \cup {k} /\ k \in Key \ DOMAIN p
    BY <1>1, <1>4
  <2>2. \A x \in DOMAIN p : o[x] = p[x]
    BY <1>4
  <2>3. o[k] \in Order
    BY <1>1
  <2> HIDE DEF k, q, o, l
  <2>4. /\ \A x : Total(o, At(o, x)) =
                   Total(p, At(p, x)) + IF x = LevelOf(o, k) THEN o[k].qty ELSE 0
        /\ \A s : Total(o, On(o, s)) =
                   Total(p, On(p, s)) + IF s = k[1] THEN o[k].qty ELSE 0
    BY <1>6, <2>1, <2>2, <2>3, OneMore
  <2> QED  BY <2>4 DEF l, q, o
<1>8. \A x, s : Total(p, At(p, x)) \in Nat /\ Total(p, On(p, s)) \in Nat
  <2>1. \A x, s : At(p, x) \in SUBSET Key /\ On(p, s) \in SUBSET Key
    BY <1>6 DEF At, On, AreOrders
  <2> QED  BY <2>1, TotalNat
<1>9. ASSUME NEW x \in DOMAIN c.level PROVE c.level[x] = Total(p, At(p, x))
  <2> HIDE DEF l, q
  <2>1. CASE At(o, l) = {k}
    <3>1. x \in DOMAIN b.level /\ x /= l /\ c.level[x] = b.level[x]
      BY <1>3, <1>9, <2>1 DEF Without, Restrict
    <3> QED  BY <1>7, <1>8, <3>1 DEF Exact
  <2>2. CASE At(o, l) /= {k}
    <3>1. /\ x \in DOMAIN b.level
          /\ c.level[x] = IF x = l THEN b.level[x] - q ELSE b.level[x]
      BY <1>3, <1>9, <2>2
    <3>2. b.level[x] = Total(o, At(o, x))
      BY <3>1 DEF Exact
    <3> QED  BY <1>1, <1>7, <1>8, <3>1, <3>2
  <2> QED  BY <2>1, <2>2
<1>10. ASSUME NEW s \in Side PROVE c.agg[s] = Total(p, On(p, s))
  <2>1. b.agg \in [Side -> Int] /\ b.agg[s] = Total(o, On(o, s))
    BY DEF WellFormed, IsBook, Exact
  <2>2. c.agg[s] = b.agg[s] - IF s = k[1] THEN q ELSE 0
    BY <1>1, <1>3, <2>1
  <2> HIDE DEF q
  <2> QED  BY <1>1, <1>7, <1>8, <2>1, <2>2
<1> QED  BY <1>3, <1>9, <1>10 DEF Exact, p, c

\* order_book::reset and the adds of a snapshot.
LEMMA LoadIsExact ==
  ASSUME NEW o PROVE Exact(Load(o)) /\ Load(o).order = o
  BY DEF Exact, Load

\* An order whose execution is still to be announced is live no longer.
Apart == owed \cap DOMAIN live = {}

\* A key is used again only after its execution was announced.
LEMMA ApartStep == Apart /\ [Next]_vars => Apart'
<1> SUFFICES ASSUME Apart, [Next]_vars PROVE Apart'
  OBVIOUS
<1>1. CASE OnPlace
  BY <1>1 DEF OnPlace, Place, Apart, With
<1>2. CASE OnCancel \/ OnFill
  BY <1>2 DEF OnCancel, OnFill, Cancel, Fill, Apart, Without, Restrict
<1>3. CASE OnSettle \/ OnPartialFill
  BY <1>3 DEF OnSettle, OnPartialFill, Settle, PartialFill, Apart
<1>4. CASE OnSnapshot \/ UNCHANGED vars
  BY <1>4 DEF OnSnapshot, venue, vars, Apart
<1> QED  BY <1>1, <1>2, <1>3, <1>4 DEF Next

\* One tick, other than a partial fill.
LEMMA StepInStep ==
  ASSUME IInv, Apart, [Next]_vars, book.fault = "none", OnSnapshot \/ (InStep /\ ~OnPartialFill)
  PROVE  InStep'
<1> USE DEF InStep
<1>1. DepthsExact = Exact(book) /\ DepthsExact' = Exact(book')
  BY DEF DepthsExact, Exact
<1>2. WellFormed(book)
  BY DEF IInv
<1>3. CASE OnSnapshot
  <2>1. live' = live /\ book' = Load(live)
    BY <1>3 DEF OnSnapshot, Replay, venue, Apply, SnapshotOf
  <2> QED  BY <1>1, <2>1, LoadIsExact DEF MirrorsVenue
<1>4. CASE InStep /\ OnPlace
  <2>1. PICK t \in AddTick : Place(t) /\ Replay(t)
    BY <1>4 DEF OnPlace
  <2>2. book' = Add(book, t) /\ t.key \notin DOMAIN book.order
    BY <1>4, <2>1 DEF Replay, Apply, AddTick, Place, MirrorsVenue
  <2>3. Exact(book')
    BY <1>1, <1>2, <1>4, <2>2, AddKeepsExact
  <2>4. book'.order = live'
    BY <1>4, <2>1, <2>2 DEF Add, Place, MirrorsVenue
  <2> QED  BY <1>1, <2>3, <2>4 DEF MirrorsVenue
<1>5. CASE InStep /\ (OnCancel \/ OnFill)
  <2>1. PICK t \in RemoveTick : (Cancel(t) \/ Fill(t)) /\ Replay(t)
    BY <1>5 DEF OnCancel, OnFill
  <2>2. /\ book' = Remove(book, t) /\ t.key \in DOMAIN book.order
        /\ live' = Without(book.order, {t.key})
    BY <1>5, <2>1 DEF Replay, Apply, RemoveTick, Cancel, Fill, MirrorsVenue
  <2>3. Exact(book') /\ book'.order = live'
    BY <1>1, <1>2, <1>5, <2>2, RemoveKeepsExact
  <2> QED  BY <1>1, <2>3 DEF MirrorsVenue
<1>6. CASE InStep /\ OnSettle
  <2>1. PICK t \in ExecuteTick : Settle(t) /\ Replay(t)
    BY <1>6 DEF OnSettle
  <2>2. t.key \notin DOMAIN book.cache
    BY <1>2, <1>6, <2>1 DEF Apart, Settle, MirrorsVenue, WellFormed, Indexed
  <2>3. book' = book /\ live' = live
    BY <2>1, <2>2 DEF Replay, Apply, Execute, ExecuteTick, Settle
  <2> QED  BY <1>1, <1>6, <2>3 DEF MirrorsVenue
<1>7. CASE InStep /\ UNCHANGED vars
  BY <1>1, <1>7 DEF vars, MirrorsVenue
<1> QED  BY <1>3, <1>4, <1>5, <1>6, <1>7 DEF Next

-----------------------------------------------------------------------------
(* The theorems.                                                           *)

\* The invariant holds in every state that the ticks of any session lead to; the
\* theorems below are read off it.
THEOREM Inductive == Spec => []IInv
<1>1. Init => IInv
  BY InitIInv
<1>2. IInv /\ [Next]_vars => IInv'
  <2> SUFFICES ASSUME IInv, [Next]_vars PROVE IInv'
    OBVIOUS
  <2>1. CASE UNCHANGED vars
    BY <2>1 DEF IInv, BookIsSound, vars
  <2>2. CASE Next
    BY <2>2, PlaceKeepsIInv, CancelKeepsIInv, SettleKeepsIInv,
       PartialFillKeepsIInv, SnapshotKeepsIInv DEF Next
  <2>3. QED
    BY <2>1, <2>2
<1>3. QED
  BY <1>1, <1>2, PTL DEF Spec

\* The caches index exactly the orders in the ladders and never dangle, no level
\* stands empty, and depths are never negative, which is what remove's
\* assert(detail.aggregate_depth >= 0) demands.
THEOREM BookConsistent == Spec => []Consistent
<1>1. IInv => TypeOK
  BY DEF IInv, TypeOK, WellFormed
<1>2. IInv => CacheIndexesLadders /\ NoEmptyLevels
  BY DEF IInv, CacheIndexesLadders, NoEmptyLevels, WellFormed
<1>3. IInv => Consistent
  BY <1>1, <1>2 DEF Consistent
<1>4. QED
  BY <1>3, Inductive, PTL

\* The book shows no order that is not live at the venue, with that quantity.
THEOREM BookSound == Spec => []BookIsSound
<1>1. IInv => BookIsSound
  BY DEF IInv
<1>2. QED
  BY <1>1, Inductive, PTL

\* Depths and the offers' aggregate cover the orders they stand for.
THEOREM DepthsNeverShort == Spec => []DepthsCover
<1>1. IInv => DepthsCover
  BY DEF IInv, DepthsCover, DepthCoversOrders, OffersCovered, WellFormed
<1>2. QED
  BY <1>1, Inductive, PTL

\* Whatever the session, a snapshot brings the book in step with the venue, and no
\* tick but a partial fill takes it out of step: depths, aggregates and orders are
\* the venue's.
THEOREM InStepKept == Spec => StaysInStep
<1>1. Init => Apart
  BY DEF Init, VenueInit, Apart
<1>2. IInv /\ Apart /\ [Next]_vars =>
        [book.fault = "none" /\ (OnSnapshot \/ (InStep /\ ~OnPartialFill)) => InStep']_vars
  BY StepInStep
<1> QED  BY Inductive, ApartStep, <1>1, <1>2, PTL DEF Spec, StaysInStep

-----------------------------------------------------------------------------
(* A snapshot is loaded an order at a time.                                *)

\* The orders K of o, and the add of one of them.
Only(o, K) == [k \in K |-> o[k]]
AddOf(o, k) == [key |-> k, price |-> o[k].price, qty |-> o[k].qty]

\* A book made by a load has no freedom left: its orders are all there is to it.
LEMMA ExactIsLoad ==
  ASSUME NEW b, Shaped(b), b.fault = "none", Indexed(b), Levelled(b), Exact(b), NEW l, NEW c,
         b.level = [x \in DOMAIN l |-> l[x]], b.cache = [x \in DOMAIN c |-> c[x]],
         b.agg \in [Side -> Int]
  PROVE  b = Load(b.order)
<1> DEFINE o == b.order
<1>1. b.level = [x \in {LevelOf(o, k) : k \in DOMAIN o} |-> Total(o, At(o, x))]
  <2> DEFINE D == {LevelOf(o, k) : k \in DOMAIN o}
             t(x) == Total(o, At(o, x))
  <2>1. DOMAIN b.level = D /\ \A x \in D : b.level[x] = t(x)
    BY DEF Levelled, Exact
  <2>2. b.level = [x \in DOMAIN b.level |-> b.level[x]]
    OBVIOUS
  <2> HIDE DEF D, t
  <2>3. b.level = [x \in D |-> t(x)]
    BY <2>1, <2>2
  <2> QED  BY <2>3 DEF D, t
<1>2. b.cache = [k \in DOMAIN o |-> "live"]
  <2>1. b.cache = [x \in DOMAIN b.cache |-> b.cache[x]]
    OBVIOUS
  <2> QED  BY <2>1 DEF Indexed
<1>3. b.agg = [s \in Side |-> Total(o, On(o, s))]
  BY DEF Exact
<1>4. b = [level |-> b.level, order |-> o, cache |-> b.cache, agg |-> b.agg, fault |-> "none"]
  BY DEF Shaped
<1> HIDE DEF o
<1>5. b = Load(o)
  BY <1>1, <1>2, <1>3, <1>4 DEF Load
<1> QED  BY <1>5 DEF o

\* One more add makes the load of one more order.
LEMMA LoadOneMore ==
  ASSUME NEW o, AreOrders(o), NEW K \in SUBSET DOMAIN o, NEW k \in DOMAIN o \ K
  PROVE  Add(Load(Only(o, K)), AddOf(o, k)) = Load(Only(o, K \cup {k}))
<1> DEFINE b == Load(Only(o, K))
           t == [kind |-> "add", key |-> k, price |-> o[k].price, qty |-> o[k].qty]
           c == Add(b, t)
<1>1. AreOrders(Only(o, K))
  BY DEF AreOrders, Only
<1>2. WellFormed(b) /\ Exact(b) /\ b.order = Only(o, K) /\ b.fault = "none"
  BY <1>1, LoadIsWellFormed, LoadIsExact, LoadUsable
<1>3. t \in AddTick /\ t.key = k /\ t.price = o[k].price /\ t.qty = o[k].qty
  BY DEF AddTick, AreOrders, Order
<1>4. t.key \notin DOMAIN b.order
  BY <1>2, <1>3 DEF Only
<1> HIDE DEF b
<1>5. WellFormed(c) /\ Exact(c)
  BY <1>2, <1>3, <1>4, AddKeepsWellFormed, AddKeepsExact
<1>6. /\ c.level = With(b.level, <<t.key[1], t.price>>,
                        (IF <<t.key[1], t.price>> \in DOMAIN b.level
                         THEN b.level[<<t.key[1], t.price>>] ELSE 0) + t.qty)
      /\ c.order = With(b.order, t.key, [price |-> t.price, qty |-> t.qty])
      /\ c.cache = With(b.cache, t.key, "live")
      /\ c.fault = b.fault /\ Shaped(c)
  BY DEF Add, Shaped
<1>7. Add(b, AddOf(o, k)) = c
  BY DEF Add, AddOf
<1> HIDE DEF t, c
<1>8. c.order = Only(o, K \cup {k})
  <2>1. [price |-> o[k].price, qty |-> o[k].qty] = o[k]
    BY DEF AreOrders, Order
  <2> QED  BY <1>2, <1>3, <1>6, <2>1 DEF With, Only
<1>9. c = Load(c.order)
  <2>1. c.agg \in [Side -> Int] /\ Indexed(c) /\ Levelled(c)
    BY <1>5 DEF WellFormed, IsBook
  <2>2. \A f, x, v : With(f, x, v) = [y \in DOMAIN With(f, x, v) |-> With(f, x, v)[y]]
    BY DEF With
  <2>3. c.level = [y \in DOMAIN c.level |-> c.level[y]] /\ c.cache = [y \in DOMAIN c.cache |-> c.cache[y]]
    BY <1>6, <2>2
  <2>4. c.fault = "none" /\ Shaped(c)
    BY <1>2, <1>6
  <2> QED  BY <1>5, <2>1, <2>3, <2>4, ExactIsLoad
<1> QED  BY <1>7, <1>8, <1>9 DEF b

\* Of each part of S, f and g make the same once they do of the part less one.
StepAlike(f, g, S) ==
    \A s \in SUBSET S : s # {} =>
        \E x \in s : f[s \ {x}] = g[s \ {x}] => f[s] = g[s]

\* Two functions that start and go on alike are the same.
LEMMA SameBySteps ==
  ASSUME NEW S, IsFiniteSet(S), NEW f, NEW g, f[{}] = g[{}], StepAlike(f, g, S)
  PROVE  f[S] = g[S]
<1> DEFINE N == {n \in Nat : \A s \in SUBSET S : Cardinality(s) = n => f[s] = g[s]}
<1>1. \A s \in SUBSET S : IsFiniteSet(s) /\ Cardinality(s) \in Nat
  BY FS_Subset, FS_CardinalityType
<1>2. 0 \in N
  <2>1. \A s \in SUBSET S : Cardinality(s) = 0 => s = {}
    BY <1>1, FS_EmptySet
  <2> QED  BY <2>1
<1>3. ASSUME NEW n \in Nat, n \in N
      PROVE  n + 1 \in N
  <2> SUFFICES ASSUME NEW s \in SUBSET S, Cardinality(s) = n + 1
               PROVE  f[s] = g[s]
    OBVIOUS
  <2>1. s # {}
    <3>1. Cardinality({}) = 0 /\ n + 1 # 0
      BY FS_EmptySet
    <3> QED  BY <3>1
  <2>2. PICK x \in s : f[s \ {x}] = g[s \ {x}] => f[s] = g[s]
    BY <2>1 DEF StepAlike
  <2>3. Cardinality(s \ {x}) = n
    <3>1. Cardinality(s \ {x}) = Cardinality(s) - 1
      BY <1>1, FS_RemoveElement
    <3> QED  BY <3>1
  <2>4. f[s \ {x}] = g[s \ {x}]
    BY <1>3, <2>3
  <2> QED  BY <2>2, <2>4
<1> HIDE DEF N
<1>4. Nat \subseteq N
  BY <1>2, <1>3, Induct
<1>5. Cardinality(S) \in N
  BY <1>1, <1>4
<1> QED  BY <1>5 DEF N

\* order_book::reset and the adds make what Load is in one go.
LEMMA FoldOfAdds ==
  ASSUME NEW o, AreOrders(o), o = [k \in DOMAIN o |-> o[k]]
  PROVE  Load(o) = FoldSet(LAMBDA k, b : Add(b, [key |-> k, price |-> o[k].price,
                                                 qty |-> o[k].qty]),
                           EmptyBook, DOMAIN o)
<1> DEFINE S == DOMAIN o
           pick(s) == CHOOSE x \in s : TRUE
           From(f) == [s \in SUBSET S |-> IF s = {} THEN EmptyBook
                                          ELSE Add(f[s \ {pick(s)}], AddOf(o, pick(s)))]
           g == [s \in SUBSET S |-> Load(Only(o, s))]
           iter == CHOOSE f : f = From(f)
<1>1. IsFiniteSet(S)
  BY KeyFinite, FS_Subset DEF AreOrders
<1>2. Only(o, {}) = NoOrders
  BY DEF Only, NoOrders
<1>3. \A s \in SUBSET S : s # {} => pick(s) \in s
  OBVIOUS
<1> HIDE DEF pick
<1>4. g = From(g)
  <2>1. ASSUME NEW s \in SUBSET S, s # {}
        PROVE  Load(Only(o, s)) = Add(g[s \ {pick(s)}], AddOf(o, pick(s)))
    <3>1. /\ s \ {pick(s)} \in SUBSET S /\ pick(s) \in S \ (s \ {pick(s)})
          /\ (s \ {pick(s)}) \cup {pick(s)} = s
      BY <1>3, <2>1
    <3>2. g[s \ {pick(s)}] = Load(Only(o, s \ {pick(s)}))
      BY <3>1
    <3> HIDE DEF g
    <3> QED  BY <3>1, <3>2, LoadOneMore
  <2>2. Load(Only(o, {})) = EmptyBook
    BY <1>2 DEF EmptyBook
  <2> QED  BY <2>1, <2>2
<1>5. iter = From(iter)
  <2> HIDE DEF g, From
  <2> QED  BY <1>4
<1>6. iter[S] = g[S]
  <2>1. iter[{}] = g[{}]
    BY <1>4, <1>5
  <2>2. ASSUME NEW s \in SUBSET S, s # {}
        PROVE  \E x \in s : iter[s \ {x}] = g[s \ {x}] => iter[s] = g[s]
    <3>1. pick(s) \in s
      BY <1>3, <2>2
    <3>2. /\ iter[s] = Add(iter[s \ {pick(s)}], AddOf(o, pick(s)))
          /\ g[s] = Add(g[s \ {pick(s)}], AddOf(o, pick(s)))
      <4>1. \A f : From(f)[s] = Add(f[s \ {pick(s)}], AddOf(o, pick(s)))
        BY <2>2
      <4> HIDE DEF g, From, iter
      <4> QED  BY <1>4, <1>5, <4>1
    <3> HIDE DEF g, iter
    <3> QED  BY <3>1, <3>2
  <2> HIDE DEF g, iter
  <2>3. StepAlike(iter, g, S)
    BY <2>2 DEF StepAlike
  <2> QED  BY <1>1, <2>1, <2>3, SameBySteps
<1>7. FoldSet(LAMBDA k, b : Add(b, [key |-> k, price |-> o[k].price, qty |-> o[k].qty]),
              EmptyBook, S) = iter[S]
  BY DEF FoldSet, MapThenFoldSet, pick, AddOf
<1>8. Only(o, S) = o
  BY DEF Only
<1>9. g[S] = Load(Only(o, S))
  OBVIOUS
<1> QED  BY <1>6, <1>7, <1>8, <1>9

\* Whatever a snapshot holds, replay_tick makes of it what Load says.
THEOREM SnapshotsAreAdds == Spec => []LoadIsFoldOfAdds
<1> DEFINE Listed == live = [k \in DOMAIN live |-> live[k]]
<1>1. Init => Listed
  BY DEF Init, VenueInit, NoOrders
<1>2. Listed /\ [Next]_vars => Listed'
  <2> SUFFICES ASSUME Listed, [Next]_vars
               PROVE  Listed'
    OBVIOUS
  <2>1. CASE OnPlace
    BY <2>1 DEF OnPlace, Place, With
  <2>2. CASE OnCancel
    BY <2>2 DEF OnCancel, Cancel, Without, Restrict
  <2>3. CASE OnFill
    BY <2>3 DEF OnFill, Fill, Without, Restrict
  <2>4. CASE OnSettle
    BY <2>4 DEF OnSettle, Settle
  <2>5. CASE OnPartialFill
    BY <2>5 DEF OnPartialFill, PartialFill
  <2>6. CASE OnSnapshot \/ UNCHANGED vars
    BY <2>6 DEF OnSnapshot, venue, vars
  <2> QED  BY <2>1, <2>2, <2>3, <2>4, <2>5, <2>6 DEF Next
<1>3. IInv /\ Listed => LoadIsFoldOfAdds
  BY FoldOfAdds DEF IInv, LoadIsFoldOfAdds
<1> HIDE DEF Listed
<1> QED  BY <1>1, <1>2, <1>3, Inductive, PTL DEF Spec
=============================================================================
