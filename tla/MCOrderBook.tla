----------------------------- MODULE MCOrderBook -----------------------------
(* Model values and symmetry for checking OrderBook.                        *)
EXTENDS OrderBook, TLC

Symmetry == Permutations(OrderId) \cup Permutations(Price)
=============================================================================
