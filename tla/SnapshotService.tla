---------------------------- MODULE SnapshotService ----------------------------
(***************************************************************************)
(* orderbook_snapshot_service and the listener's use of it.  Every tick is *)
(* applied to the service's own book and published in a snapshot.  A       *)
(* snapshot nobody holds any more goes back to a stack of free snapshots,  *)
(* and the next publication brings the top of the stack up to date by      *)
(* replaying the ticks it has missed.                                      *)
(*                                                                         *)
(* Ticks and deallocations run on the listener's executor, one at a time.  *)
(* A snapshot is named by its generation and sequence: no two published    *)
(* ones share them.                                                        *)
(***************************************************************************)
EXTENDS Venue, TickHistory, Sequences

CONSTANTS
    SnapshotFirst,   \* does the venue's snapshot precede its first other tick?
    MaxSeq,          \* bound on the ticks of the first generation; each later one has one fewer
    MaxGen,          \* bound on the generations
    MaxHeld          \* bound on the earlier snapshots consumers hold

ASSUME ServiceAssumption ==
    /\ SnapshotFirst \in BOOLEAN
    /\ MaxSeq \in Nat /\ MaxGen \in Nat /\ MaxHeld \in Nat

VARIABLES
    subscribed,   \* do the venue's ticks reach the listener?
    th,       \* tick_history_
    gen,      \* current_generation_
    truth,    \* order_book_
    free,     \* free_snaps_, the top last
    cur,      \* the listener's snapshot_, as a set of at most one
    shared,   \* does a consumer share cur?
    held      \* earlier snapshots that consumers still hold

service == <<th, gen, truth, free>>
vars == <<live, owed, subscribed, th, gen, truth, free, cur, shared, held>>

FreshSnap == [generation |-> 0, sequence |-> 0, book |-> EmptyBook]

Init ==
    /\ VenueInit
    /\ subscribed = ~SnapshotFirst
    /\ th = EmptyHistory
    /\ gen = 0
    /\ truth = EmptyBook
    /\ free = <<>>
    /\ cur = {}
    /\ shared = FALSE
    /\ held = {}

\* Nothing is said of a process after undefined behaviour.
Running == truth.fault = "none" /\ \A s \in cur : s.book.fault = "none"

\* allocate_snapshot
Allocated == IF free = <<>> THEN FreshSnap ELSE free[Len(free)]
Remaining == IF free = <<>> THEN <<>> ELSE SubSeq(free, 1, Len(free) - 1)

\* Mutant of ReplayAfter: the snapshot's own tick is replayed again.
ReplayFrom(h, s, b) ==
    LET B[i \in s..h.next - 1] ==
            Apply(IF i = s THEN b ELSE B[i - 1], h.history[i])
    IN  B[h.next - 1]

\* The ticks of h after sequence s, replayed in order on book b.
ReplayAfter(h, s, b) ==
    LET B[i \in s..h.next - 1] ==
            IF i = s THEN b ELSE Apply(B[i - 1], h.history[i])
    IN  B[h.next - 1]

\* Can process_tick bring the allocated snapshot up to date by replay?
Replayable(h, g) ==
    Allocated.generation = g /\ Allocated.sequence \in DOMAIN h.history

\* Mutant of Publication: the recycled snapshot's watermark stays.
PublicationKeepsMark(h, g, b) ==
    LET old == Allocated
        hit == Replayable(h, g)
        seq == HighestSequence(h)
    IN  [history |-> AddWatermark(h, seq),
         snap    |-> [generation |-> g, sequence |-> seq,
                      book |-> IF hit THEN ReplayAfter(h, old.sequence, old.book)
                                      ELSE Assign(old.book, b)]]

\* process_tick from allocate_snapshot on, with history h, generation g and book
\* b: the history it leaves and the snapshot it returns.  A snapshot that cannot
\* be replayed forward takes a copy of the book.
Publication(h, g, b) ==
    LET old == Allocated
        hit == Replayable(h, g)
        h2  == IF hit THEN RemoveWatermark(h, old.sequence) ELSE h
        seq == HighestSequence(h)
    IN  [history |-> AddWatermark(h2, seq),
         snap    |-> [generation |-> g, sequence |-> seq,
                      book |-> IF hit THEN ReplayAfter(h, old.sequence, old.book)
                                      ELSE Assign(old.book, b)]]

\* The history process_tick adds the tick to: a snapshot tick resets it.
HistoryFor(t) == IF t.kind = "snapshot" THEN EmptyHistory ELSE th

\* The generation the tick belongs to: a snapshot tick starts one.
GenerationFor(t) == IF t.kind = "snapshot" THEN gen + 1 ELSE gen

\* orderbook_listener_impl::on_tick: process_tick, then the old snapshot_ is let
\* go; its deleter returns it to the free list at once unless it is shared.
OnTick(t) ==
    LET b == Apply(truth, t)
        p == Publication(AddTickTo(HistoryFor(t), t), GenerationFor(t), b)
    IN  /\ th' = p.history
        /\ gen' = GenerationFor(t)
        /\ truth' = b
        /\ cur' = {p.snap}
        /\ shared' = FALSE
        /\ IF shared THEN held' = held \cup cur /\ free' = Remaining
           ELSE /\ held' = held
                /\ \/ cur = {} /\ free' = Remaining
                   \/ \E s \in cur : free' = Append(Remaining, s)

\* A tick of the venue reaches the listener.
Tick ==
    /\ Running
    /\ subscribed
    /\ th.next + gen =< MaxSeq
    /\ shared => Cardinality(held) < MaxHeld
    /\ \E t \in Ticks : Trade(t) /\ OnTick(t)
    /\ UNCHANGED subscribed

\* The venue answers a subscription; a stale request resent after a reconnect
\* is answered too, so this may happen more than once on a connection.
Snapshot ==
    /\ Running
    /\ gen < MaxGen
    /\ shared => Cardinality(held) < MaxHeld
    /\ OnTick(SnapshotOf(live))
    /\ subscribed' = TRUE
    /\ UNCHANGED venue

\* The connection is lost, and trading that the listener does not hear of.
Lose ==
    /\ Running
    /\ subscribed /\ gen < MaxGen
    /\ subscribed' = FALSE
    /\ UNCHANGED <<venue, service, cur, shared, held>>

Miss ==
    /\ Running
    /\ ~subscribed
    /\ \E t \in Ticks : Trade(t)
    /\ UNCHANGED <<subscribed, service, cur, shared, held>>

\* A consumer copies the listener's shared_ptr (subscribe, or the signal).
Take ==
    /\ Running
    /\ cur /= {} /\ ~shared
    /\ shared' = TRUE
    /\ UNCHANGED <<venue, subscribed, service, cur, held>>

\* The consumer drops its copy while the listener still has one.
Drop ==
    /\ Running
    /\ shared
    /\ shared' = FALSE
    /\ UNCHANGED <<venue, subscribed, service, cur, held>>

\* The last consumer of an earlier snapshot drops it: the deleter dispatches
\* deallocate_snapshot to the listener's executor, where it runs.
Release ==
    /\ Running
    /\ \E s \in held :
          /\ held' = held \ {s}
          /\ free' = Append(free, s)
    /\ UNCHANGED <<venue, subscribed, th, gen, truth, cur, shared>>

Next == Tick \/ Snapshot \/ Lose \/ Miss \/ Take \/ Drop \/ Release

Spec == Init /\ [][Next]_vars

-----------------------------------------------------------------------------
(* Properties.                                                             *)

FreeSnaps   == {free[i] : i \in DOMAIN free}
Outstanding == FreeSnaps \cup held \cup cur
Current     == {s \in Outstanding : s.generation = gen}

NumbersOK ==
    /\ gen \in Nat
    /\ th.next \in Nat
    /\ th.watermarks \subseteq Nat
    /\ \A i \in DOMAIN th.history : i \in Nat /\ i < th.next
    /\ \A s \in Outstanding : s.generation \in 1..gen /\ s.sequence \in Nat
    /\ \A s \in Current : s.sequence < th.next

\* Type correctness; a snapshot's numbers are ones the service has given out.
TypeOK ==
    /\ NumbersOK
    /\ shared \in BOOLEAN /\ subscribed \in BOOLEAN
    /\ \A s \in Outstanding : IsBook(s.book)
    /\ IsBook(truth)

\* process_tick can bring every snapshot of this generation up to date by
\* replay: its sequence, and every tick after it, is in the history, whatever
\* other snapshots were recycled in between.
HistoryServes ==
    \A s \in Current : s.sequence..th.next - 1 \subseteq DOMAIN th.history

\* The watermarks are those of the snapshots of this generation, wherever they
\* are: none is lost and none is left behind by a recycled snapshot.
WatermarksExact == th.watermarks = {s.sequence : s \in Current}

\* The history holds no tick older than the oldest snapshot of this generation:
\* only an outstanding snapshot pins memory.
NoOldTicks == \A i \in DOMAIN th.history : \E s \in Current : s.sequence <= i

\* The history holds what replay can still ask for and nothing older.
HistoryExact == HistoryServes /\ NoOldTicks

\* A snapshot of this generation is in one place only, and no other snapshot of
\* this generation has its sequence: removing a watermark by value is removing
\* that snapshot's.
SequencesUnique ==
    /\ \A i, j \in DOMAIN free :
          free[i].generation = gen /\ free[j].generation = gen
            /\ free[i].sequence = free[j].sequence => i = j
    /\ \A i \in DOMAIN free : \A s \in held \cup cur :
          free[i].generation = gen /\ s.generation = gen
            => free[i].sequence /= s.sequence
    /\ \A s, t \in held \cup cur :
          s.generation = gen /\ t.generation = gen /\ s.sequence = t.sequence
            => s = t
    /\ held \cap cur = {}

\* Once a tick has come the listener holds the snapshot of the last one.
CurIsLatest ==
    /\ gen > 0 => cur /= {}
    /\ \A s \in cur : s.generation = gen /\ s.sequence = th.next - 1
    /\ \A s, t \in cur : s = t

\* Before the venue's first snapshot nothing has been published.
NothingBefore ==
    gen = 0 => /\ ~subscribed /\ th = EmptyHistory
               /\ free = <<>> /\ cur = {} /\ held = {}

\* orderbook_snapshot_service.spec.cpp: CHECK(snap->book == svc.orderbook()).
PublishedIsBook ==
    Running => \A s \in cur : Visible(s.book) = Visible(truth)

\* order_book.hpp:100, "now rebuild the indexes": a published book's caches
\* index its own orders, however the snapshot was brought up to date.
PublishedIsIndexed == \A s \in cur : Indexed(s.book)

\* The consumers' view implements SnapshotFeed, until undefined behaviour.
View(S) == {[name |-> <<s.generation, s.sequence>>, book |-> Visible(s.book)] : s \in S}
Feed == INSTANCE SnapshotFeed WITH
    truth <- Visible(truth), current <- View(cur), kept <- View(held)
FeedSpec == Feed!Init /\ [][Running' => Feed!Next]_(Feed!feed)
=============================================================================
