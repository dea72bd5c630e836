----------------------------- MODULE OrderBookOps -----------------------------
(***************************************************************************)
(* The order book of power_trade (order_book.hpp, order_book.cpp) as a     *)
(* value, and its operations as operators on that value.                   *)
(*                                                                         *)
(* An order is named by its key <<side, order id>>: the venue never lists  *)
(* one key twice.  A book is a record:                                     *)
(*   level  the price levels (bids_, offers_) with their aggregate_depth,  *)
(*   order  the nodes of the levels' order lists,                          *)
(*   cache  the keys of bid_cache_ and offer_cache_: "live" when the entry *)
(*          points into the ladders, "stale" when the nodes it pointed at  *)
(*          have been replaced,                                            *)
(*   agg    aggregate_bids_ and aggregate_offers_,                         *)
(*   fault  what undefined behaviour ended the book, or "none".            *)
(* Time stamps, the order of a level's list and printing are left out.     *)
(***************************************************************************)
EXTENDS Integers, FiniteSets, Functions

CONSTANTS
    OrderId,       \* order identifiers
    Price,         \* prices
    MaxQty,        \* largest quantity of an order (bound)
    PoisonFreed    \* does the build overwrite (or trap on) freed memory?

ASSUME OrderBookAssumption ==
    /\ IsFiniteSet(OrderId)
    /\ MaxQty \in Nat \ {0}
    /\ PoisonFreed \in BOOLEAN

Side  == {"buy", "sell"}
Key   == Side \X OrderId
Qty   == 1..MaxQty
Order == [price : Price, qty : Qty]

NoOrders == [k \in {} |-> 0]

\* A function with k mapped to v, and one without the keys of K.
With(f, k, v) == [x \in DOMAIN f \cup {k} |-> IF x = k THEN v ELSE f[x]]
Without(f, K) == Restrict(f, DOMAIN f \ K)

-----------------------------------------------------------------------------
(* Orders, the levels they stand at and their quantities.                  *)

LevelOf(o, k) == <<k[1], o[k].price>>

At(o, l) == {k \in DOMAIN o : LevelOf(o, k) = l}

On(o, s) == {k \in DOMAIN o : k[1] = s}

\* The quantity of the orders K: each unit of an order is counted once.
Units(o, K) == {u \in K \X Qty : u[2] <= o[u[1]].qty}
Total(o, K) == Cardinality(Units(o, K))

-----------------------------------------------------------------------------
(* Ticks (tick_record.hpp): the four alternatives of tick_record.          *)

AddTick     == [kind : {"add"}, key : Key, price : Price, qty : Qty]
RemoveTick  == [kind : {"remove"}, key : Key]
ExecuteTick == [kind : {"execute"}, key : Key, qty : Qty]
SnapshotOf(o) == [kind |-> "snapshot", orders |-> o]

-----------------------------------------------------------------------------
(* The operations.                                                         *)

\* Mutant of Add: a known level's depth is overwritten.
AddOverwritesDepth(b, t) ==
    [level |-> With(b.level, <<t.key[1], t.price>>, t.qty),
     order |-> With(b.order, t.key, [price |-> t.price, qty |-> t.qty]),
     cache |-> With(b.cache, t.key, "live"),
     agg   |-> [b.agg EXCEPT ![t.key[1]] = @ + t.qty],
     fault |-> b.fault]

\* order_book::add: the level is found or made, the order goes to the end of
\* its list and the cache entry is (over)written.
Add(b, t) ==
    LET l == <<t.key[1], t.price>>
        d == IF l \in DOMAIN b.level THEN b.level[l] ELSE 0
    IN  [level |-> With(b.level, l, d + t.qty),
         order |-> With(b.order, t.key, [price |-> t.price, qty |-> t.qty]),
         cache |-> With(b.cache, t.key, "live"),
         agg   |-> [b.agg EXCEPT ![t.key[1]] = @ + t.qty],
         fault |-> b.fault]

\* Mutants of Erase: the empty level stays; the cache entry stays.
EraseKeepsLevel(b, k, d, s, q) ==
    [level |-> [b.level EXCEPT ![LevelOf(b.order, k)] = @ - d],
     order |-> Without(b.order, {k}),
     cache |-> Without(b.cache, {k}),
     agg   |-> [b.agg EXCEPT ![s] = @ - q],
     fault |-> b.fault]
EraseKeepsCache(b, k, d, s, q) ==
    [EraseKeepsLevel(b, k, d, s, q) EXCEPT !.cache = b.cache]

\* Order k leaves its list and the cache, and its level leaves the ladder when
\* the list is now empty.  A level that stays gives up depth d, and side s's
\* aggregate gives up q.
Erase(b, k, d, s, q) ==
    LET l == LevelOf(b.order, k) IN
    [level |-> IF At(b.order, l) = {k} THEN Without(b.level, {l})
                                       ELSE [b.level EXCEPT ![l] = @ - d],
     order |-> Without(b.order, {k}),
     cache |-> Without(b.cache, {k}),
     agg   |-> [b.agg EXCEPT ![s] = @ - q],
     fault |-> b.fault]

Faulted(b, f) == [level |-> b.level, order |-> b.order, cache |-> b.cache,
                  agg |-> b.agg, fault |-> f]

\* order_book::remove: an unknown order is ignored; the order's quantity leaves
\* the level and the side's aggregate.
Remove(b, t) ==
    LET q == b.order[t.key].qty IN
    IF t.key \notin DOMAIN b.cache THEN b
    ELSE IF b.cache[t.key] = "stale" THEN Faulted(b, "stale")
    ELSE Erase(b, t.key, q, t.key[1], q)

\* Mutants of Execute: the order stays as it was; an unknown order is charged
\* to the aggregate as well.
ExecuteKeepsOrder(b, t) == [b EXCEPT !.agg["buy"] = @ - t.qty]
ExecuteChargesUnknown(b, t) ==
    IF t.key \in DOMAIN b.cache THEN Erase(b, t.key, 0, "buy", t.qty)
                                ELSE [b EXCEPT !.agg["buy"] = @ - t.qty]

\* order_book::execute.  `iqty->qty -= tick.qty == 0` subtracts the truth value
\* of the comparison, which is 0 for the quantities the venue sends (Qty), and
\* then tests the order's quantity: any execution drops the whole order and
\* leaves the level's depth alone.  Both sides charge aggregate_bids_.  When the
\* level goes, its price is read through the cache entry erased just before.
Execute(b, t) ==
    IF t.key \notin DOMAIN b.cache THEN b
    ELSE IF b.cache[t.key] = "stale" THEN Faulted(b, "stale")
    ELSE IF PoisonFreed /\ At(b.order, LevelOf(b.order, t.key)) = {t.key}
         THEN Faulted(b, "freed")
    ELSE Erase(b, t.key, 0, "buy", t.qty)

\* order_book::reset, then order_book::add of every order in o (replay_tick's
\* snapshot alternative).
Load(o) ==
    [level |-> [l \in {LevelOf(o, k) : k \in DOMAIN o} |-> Total(o, At(o, l))],
     order |-> o,
     cache |-> [k \in DOMAIN o |-> "live"],
     agg   |-> [s \in Side |-> Total(o, On(o, s))],
     fault |-> "none"]

EmptyBook == Load(NoOrders)

\* order_book::operator=: the ladders are replaced, which invalidates every
\* iterator the target's caches hold; the caches are not cleared, and emplace
\* leaves the entry of a key they already hold.
Assign(b, r) ==
    [r EXCEPT !.cache =
        [k \in DOMAIN b.cache \cup DOMAIN r.order |->
            IF k \in DOMAIN b.cache THEN "stale" ELSE "live"]]

\* What operator== compares.
Visible(b) == <<b.level, b.order, b.agg>>

\* replay_tick; nothing is said of a book after undefined behaviour.
Apply(b, t) ==
    IF b.fault /= "none" THEN b
    ELSE CASE t.kind = "snapshot" -> Load(t.orders)
           [] t.kind = "add"      -> Add(b, t)
           [] t.kind = "remove"   -> Remove(b, t)
           [] t.kind = "execute"  -> Execute(b, t)

-----------------------------------------------------------------------------
(* What a well-formed book is, in parts.                                   *)

AreOrders(o) == DOMAIN o \subseteq Key /\ \A k \in DOMAIN o : o[k] \in Order

IsBook(b) ==
    /\ DOMAIN b.level \subseteq Side \X Price
    /\ \A l \in DOMAIN b.level : b.level[l] \in Nat
    /\ AreOrders(b.order)
    /\ DOMAIN b.cache \subseteq Key
    /\ \A k \in DOMAIN b.cache : b.cache[k] \in {"live", "stale"}
    /\ b.agg \in [Side -> Int]
    /\ b.fault \in {"none", "stale", "freed"}

\* The caches index exactly the orders in the ladders and no entry dangles.
Indexed(b) ==
    /\ DOMAIN b.cache = DOMAIN b.order
    /\ \A k \in DOMAIN b.cache : b.cache[k] = "live"

\* A level is in its ladder exactly while an order stands at it.
Levelled(b) == DOMAIN b.level = {LevelOf(b.order, k) : k \in DOMAIN b.order}

\* A level's depth covers its orders, the offers' aggregate covers the offers.
DepthCovers(b) ==
    \A l \in DOMAIN b.level : b.level[l] >= Total(b.order, At(b.order, l))
OffersCover(b) == b.agg["sell"] >= Total(b.order, On(b.order, "sell"))

WellFormed(b) ==
    /\ IsBook(b)
    /\ Indexed(b)
    /\ Levelled(b)
    /\ DepthCovers(b)
    /\ OffersCover(b)
=============================================================================
