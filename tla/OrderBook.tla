------------------------------- MODULE OrderBook -------------------------------
(***************************************************************************)
(* One order book fed with the venue's ticks in order.  Each step is one   *)
(* tick: the venue's own state moves and the book replays the tick.        *)
(***************************************************************************)
EXTENDS Venue, FiniteSetsExt

CONSTANT MaxDepth    \* bound on depths and aggregates

ASSUME DepthAssumption == MaxDepth \in Nat

VARIABLE book

vars == <<live, owed, book>>

Init == VenueInit /\ book = EmptyBook

\* The bound: no trade is simulated that takes a counter past MaxDepth.
Bounded(b) ==
    /\ \A l \in DOMAIN b.level : b.level[l] <= MaxDepth
    /\ \A s \in Side : b.agg[s] \in (-MaxDepth)..MaxDepth

Replay(t) == book' = Apply(book, t) /\ Bounded(book')

OnPlace       == \E t \in AddTick     : Place(t) /\ Replay(t)
OnCancel      == \E t \in RemoveTick  : Cancel(t) /\ Replay(t)
OnFill        == \E t \in RemoveTick  : Fill(t) /\ Replay(t)
OnSettle      == \E t \in ExecuteTick : Settle(t) /\ Replay(t)
OnPartialFill == \E t \in ExecuteTick : PartialFill(t) /\ Replay(t)

\* The answer to a new subscription.
OnSnapshot ==
    /\ Replay(SnapshotOf(live))
    /\ UNCHANGED venue

Next == OnPlace \/ OnCancel \/ OnFill \/ OnSettle \/ OnPartialFill \/ OnSnapshot

Spec == Init /\ [][Next]_vars

-----------------------------------------------------------------------------
(* Properties.                                                             *)

\* Type correctness of the book and of the venue's orders.
TypeOK ==
    /\ IsBook(book)
    /\ AreOrders(live)
    /\ owed \subseteq Key

\* bid_cache_ and offer_cache_ index exactly the orders in the ladders, and no
\* entry dangles: remove and execute reach their node through nothing else.
CacheIndexesLadders == Indexed(book)

\* A level is in its ladder exactly while an order stands at it, so the top of
\* book (top_bid_str, top_offer_str) is never an empty price.
NoEmptyLevels == Levelled(book)

\* The book's structure in the three respects above: what any call of add, remove
\* and execute relies on (order_book.cpp:102 and 148).
Consistent == TypeOK /\ CacheIndexesLadders /\ NoEmptyLevels

\* An order in the book is live at the venue, at that price, with that
\* remaining quantity: whatever execute drops, the book invents nothing.  (Of a
\* book that met undefined behaviour nothing is claimed.)
BookIsSound ==
    book.fault = "none" =>
        \A k \in DOMAIN book.order :
            k \in DOMAIN live /\ book.order[k] = live[k]

\* aggregate_depth covers the quantity of the level's orders, which is what
\* keeps remove's assert(detail.aggregate_depth >= 0) true.
DepthCoversOrders == DepthCovers(book)

\* aggregate_offers_ covers the orders offered: remove's
\* assert(aggregate_offers_ >= 0) holds.
OffersCovered == OffersCover(book)

\* Neither assert on a depth and on the offers fails.
DepthsCover == DepthCoversOrders /\ OffersCovered

\* orderbook_listener_impl.hpp: the class "maintains the [...] representation of
\* an order book": the orders in the book are the venue's live orders.
MirrorsVenue == book.order = live

\* The level depths of a mirrored book are those of its orders.
DepthsExact ==
    /\ \A l \in DOMAIN book.level :
           book.level[l] = Total(book.order, At(book.order, l))
    /\ \A s \in Side : book.agg[s] = Total(book.order, On(book.order, s))

InStep == MirrorsVenue /\ DepthsExact

\* replay_tick resets the book and adds the orders of a snapshot one by one: in
\* whatever sequence they come, what that makes is Load.
LoadIsFoldOfAdds ==
    Load(live) =
      FoldSet(LAMBDA k, b : Add(b, [key |-> k, price |-> live[k].price,
                                    qty |-> live[k].qty]),
              EmptyBook, DOMAIN live)

\* A snapshot heals the book (replay_tick resets it first), and a book in step
\* with the venue falls out of step at a partial fill and at no other tick.  (Of
\* a book that met undefined behaviour nothing is claimed.)
StaysInStep ==
    [][book.fault = "none" /\ (OnSnapshot \/ (InStep /\ ~OnPartialFill)) => InStep']_vars

\* remove: assert(aggregate_bids_ >= 0) (order_book.cpp:109), evaluated when a
\* known bid is removed.
BidAssertHolds ==
    [][\A k \in DOMAIN book.order :
          /\ k[1] = "buy"
          /\ k \notin DOMAIN live'
          /\ k \notin DOMAIN book'.order
          => book'.agg["buy"] >= 0]_vars
=============================================================================
