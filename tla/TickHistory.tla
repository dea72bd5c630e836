----------------------------- MODULE TickHistory -----------------------------
(***************************************************************************)
(* tick_history (tick_history.hpp): the ticks of one generation by         *)
(* sequence number, and the sequence numbers (watermarks) up to which the  *)
(* outstanding snapshots have already replayed them.                       *)
(*                                                                         *)
(* The watermarks are a multiset in the code; since multiset::erase by     *)
(* value takes every equal element, and nothing counts them, they are a    *)
(* set here.  Sequence numbers do not wrap within the bounds of a run.     *)
(***************************************************************************)
EXTENDS OrderBookOps

NoTicks == [i \in {} |-> 0]

\* tick_history::reset, and the state a tick_history starts in.
EmptyHistory == [next |-> 0, history |-> NoTicks, watermarks |-> {}]

\* tick_history::add_tick
AddTickTo(h, t) ==
    [next       |-> h.next + 1,
     history    |-> With(h.history, h.next, t),
     watermarks |-> h.watermarks]

\* tick_history::highest_sequence: called after add_tick, so h.next > 0.
HighestSequence(h) == h.next - 1

\* tick_history::add_watermark
AddWatermark(h, w) ==
    [next |-> h.next, history |-> h.history, watermarks |-> h.watermarks \cup {w}]

\* Mutant of RemoveWatermark: ticks are dropped up to the smallest watermark
\* inclusive.
RemoveWatermarkOffByOne(h, w) ==
    LET ws == h.watermarks \ {w} IN
    [next       |-> h.next,
     history    |-> Without(h.history, {i \in DOMAIN h.history : \A m \in ws : i <= m}),
     watermarks |-> ws]

\* tick_history::remove_watermark: the ticks below every remaining watermark go
\* (all of them when none remains).
RemoveWatermark(h, w) ==
    LET ws == h.watermarks \ {w} IN
    [next       |-> h.next,
     history    |-> Without(h.history, {i \in DOMAIN h.history : \A m \in ws : i < m}),
     watermarks |-> ws]
=============================================================================
