-------------------------------- MODULE Venue --------------------------------
(***************************************************************************)
(* The exchange as its feed shows it: external to the repository.  The     *)
(* behaviour is that of the recorded session in the test data: keys are    *)
(* unique, an order that is filled is announced as deleted and then as     *)
(* executed, a partial fill is announced as executed only, and a           *)
(* subscription is answered by a snapshot of the live orders.              *)
(***************************************************************************)
EXTENDS OrderBookOps

CONSTANT PartialFills    \* are orders ever filled in part?

ASSUME VenueAssumption == PartialFills \in BOOLEAN

VARIABLES
    live,    \* the live orders, by key
    owed     \* keys of filled orders whose execution is still to be announced

venue == <<live, owed>>

VenueInit == live = NoOrders /\ owed = {}

Place(t) ==
    /\ t \in AddTick
    /\ t.key \notin DOMAIN live \cup owed
    /\ live' = With(live, t.key, [price |-> t.price, qty |-> t.qty])
    /\ UNCHANGED owed

Cancel(t) ==
    /\ t \in RemoveTick
    /\ t.key \in DOMAIN live
    /\ live' = Without(live, {t.key})
    /\ UNCHANGED owed

Fill(t) ==
    /\ t \in RemoveTick
    /\ t.key \in DOMAIN live
    /\ live' = Without(live, {t.key})
    /\ owed' = owed \cup {t.key}

Settle(t) ==
    /\ t \in ExecuteTick
    /\ t.key \in owed
    /\ owed' = owed \ {t.key}
    /\ UNCHANGED live

PartialFill(t) ==
    /\ PartialFills
    /\ t \in ExecuteTick
    /\ t.key \in DOMAIN live
    /\ t.qty < live[t.key].qty
    /\ live' = [live EXCEPT ![t.key].qty = @ - t.qty]
    /\ UNCHANGED owed

Trade(t) == Place(t) \/ Cancel(t) \/ Fill(t) \/ Settle(t) \/ PartialFill(t)

Ticks == AddTick \cup RemoveTick \cup ExecuteTick
=============================================================================
