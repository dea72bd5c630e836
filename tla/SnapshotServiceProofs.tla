------------------------- MODULE SnapshotServiceProofs -------------------------
(***************************************************************************)
(* Replay is always possible: for any number of ticks, generations and     *)
(* held snapshots, the history has what every snapshot of the current      *)
(* generation still has to replay, and no more.  The books themselves play *)
(* no part in that argument.  With it, replay is right: what it makes of   *)
(* any snapshot compares equal to the service's own book, so the consumers *)
(* see the feed that SnapshotFeed promises them.                           *)
(***************************************************************************)
EXTENDS SnapshotService, OrderBookOpsProofs, SequenceTheorems, TLAPS

\* Inductive together: that a recycled snapshot's watermark goes alone needs the
\* sequences to be unique, that others remain needs the listener's own snapshot,
\* and that the recycled one is found needs the history to reach back to it.
IInv ==
    /\ free \in Seq(FreeSnaps)
    /\ NumbersOK
    /\ NothingBefore
    /\ CurIsLatest
    /\ SequencesUnique
    /\ WatermarksExact
    /\ HistoryServes
    /\ NoOldTicks

-----------------------------------------------------------------------------
(* The free list.                                                          *)

\* The length SubSeqProperties gives to all of a sequence but its last element.
LEMMA ButLast ==
  ASSUME NEW n \in Nat, n > 0
  PROVE  (IF 1 <= n - 1 THEN n - 1 - 1 + 1 ELSE 0) = n - 1
OBVIOUS

\* Pushing a snapshot.
LEMMA Push ==
  ASSUME NEW S, NEW f \in Seq(S), NEW x
  PROVE  /\ Append(f, x) \in Seq(S \cup {x})
         /\ Len(Append(f, x)) = Len(f) + 1
         /\ \A i \in 1..Len(f) : Append(f, x)[i] = f[i]
         /\ Append(f, x)[Len(f) + 1] = x
<1>1. f \in Seq(S \cup {x}) /\ x \in S \cup {x}
  BY SeqMonotonic
<1> DEFINE T == S \cup {x}
<1>2. f \in Seq(T) /\ x \in T
  BY <1>1
<1> HIDE DEF T
<1>3. /\ Append(f, x) \in Seq(T)
      /\ Len(Append(f, x)) = Len(f) + 1
      /\ \A i \in 1..Len(f) : Append(f, x)[i] = f[i]
      /\ Append(f, x)[Len(f) + 1] = x
  BY <1>2
<1>4. QED
  BY <1>3 DEF T

\* What on_tick leaves of the free list before the old snapshot is let go.
LEMMA RemainingStack ==
  ASSUME free \in Seq(FreeSnaps)
  PROVE  /\ Remaining \in Seq(FreeSnaps)
         /\ Len(Remaining) \in Nat /\ Len(free) \in Nat
         /\ \A i \in 1..Len(Remaining) : Remaining[i] = free[i]
         /\ \/ free = <<>> /\ Len(free) = 0 /\ Len(Remaining) = 0 /\ Allocated = FreshSnap
            \/ /\ Len(free) > 0 /\ Len(Remaining) = Len(free) - 1
               /\ Allocated = free[Len(free)]
<1> DEFINE S == FreeSnaps
<1>1. free \in Seq(S)
  OBVIOUS
<1> HIDE DEF S
<1>2. CASE free = <<>>
  <2>1. Remaining = <<>> /\ Allocated = FreshSnap
    BY <1>2 DEF Remaining, Allocated
  <2>2. Remaining \in Seq(S) /\ Len(Remaining) = 0 /\ Len(free) = 0
    BY <1>2, <2>1, EmptySeq
  <2>3. QED
    BY <1>2, <2>1, <2>2 DEF S
<1>3. CASE free # <<>>
  <2>1. Len(free) \in Nat /\ Len(free) > 0
    BY <1>1, <1>3, EmptySeq
  <2>2. \A i \in 1..Len(free) - 1 : free[i] \in S
    BY <1>1, <2>1, ElementOfSeq
  <2>3. /\ Remaining = SubSeq(free, 1, Len(free) - 1)
        /\ Allocated = free[Len(free)]
    BY <1>3 DEF Remaining, Allocated
  <2>4. /\ Remaining \in Seq(S)
        /\ Len(Remaining) = Len(free) - 1
        /\ \A i \in 1..Len(free) - 1 : Remaining[i] = free[i]
    <3>1. /\ SubSeq(free, 1, Len(free) - 1) \in Seq(S)
          /\ Len(SubSeq(free, 1, Len(free) - 1))
               = IF 1 <= Len(free) - 1 THEN Len(free) - 1 - 1 + 1 ELSE 0
          /\ \A i \in 1..Len(free) - 1 - 1 + 1 :
                SubSeq(free, 1, Len(free) - 1)[i] = free[1 + i - 1]
      BY <2>1, <2>2, SubSeqProperties
    <3>2. \A i \in 1..Len(free) - 1 : i \in 1..Len(free) - 1 - 1 + 1 /\ 1 + i - 1 = i
      BY <2>1
    <3>3. (IF 1 <= Len(free) - 1 THEN Len(free) - 1 - 1 + 1 ELSE 0) = Len(free) - 1
      BY <2>1, ButLast
    <3>4. QED
      BY <3>1, <3>2, <3>3, <2>3
  <2>5. QED
    BY <2>1, <2>3, <2>4 DEF S
<1>4. QED
  BY <1>2, <1>3

\* Where the snapshots go when a tick is published: the top of the free list is
\* taken, and the listener's previous snapshot joins the free list or, shared,
\* the held ones.
LEMMA TickMoves ==
  ASSUME IInv, NEW t, OnTick(t)
  PROVE  /\ free' \in Seq(FreeSnaps')
         /\ \A i \in DOMAIN free' :
               \/ i \in 1..Len(Remaining) /\ i \in DOMAIN free /\ free'[i] = free[i]
               \/ i = Len(Remaining) + 1 /\ free'[i] \in cur /\ ~shared
         /\ \A i \in 1..Len(Remaining) : i \in DOMAIN free' /\ free'[i] = free[i]
         /\ held \subseteq held' /\ held' \subseteq held \cup cur
         /\ cur \subseteq held' \cup FreeSnaps'
         /\ ~shared => held' = held
<1> DEFINE R == Remaining
<1>1. /\ R \in Seq(FreeSnaps)
      /\ Len(R) \in Nat /\ Len(free) \in Nat
      /\ \A i \in 1..Len(R) : R[i] = free[i]
      /\ Len(R) <= Len(free)
  BY RemainingStack DEF IInv
<1>2. DOMAIN R = 1..Len(R) /\ DOMAIN free = 1..Len(free)
  BY <1>1, LenProperties DEF IInv
<1>3. \A i \in 1..Len(R) : i \in DOMAIN free
  BY <1>1, <1>2
<1>4. /\ IF shared THEN held' = held \cup cur /\ free' = R
         ELSE /\ held' = held
              /\ (\/ cur = {} /\ free' = R
                  \/ \E s \in cur : free' = Append(R, s))
  BY DEF OnTick
<1>5. \A x, y \in cur : x = y
  BY DEF IInv, CurIsLatest
<1> HIDE DEF R
<1>7. R \in Seq({R[j] : j \in DOMAIN R})
  BY <1>1, <1>2
<1>8. CASE free' = R /\ (shared \/ cur = {})
  <2>1. free' \in Seq(FreeSnaps')
    BY <1>7, <1>8 DEF FreeSnaps
  <2>2. QED
    BY <2>1, <1>1, <1>2, <1>3, <1>4, <1>8 DEF R
<1>9. CASE ~shared /\ \E s \in cur : free' = Append(R, s)
  <2>1. PICK s \in cur : free' = Append(R, s)
    BY <1>9
  <2>2. /\ Append(R, s) \in Seq(FreeSnaps \cup {s})
        /\ Len(Append(R, s)) = Len(R) + 1
        /\ \A i \in 1..Len(R) : Append(R, s)[i] = R[i]
        /\ Append(R, s)[Len(R) + 1] = s
    BY <1>1, Push
  <2>3. /\ DOMAIN free' = 1..Len(R) + 1
        /\ \A i \in 1..Len(R) : free'[i] = free[i]
        /\ free'[Len(R) + 1] = s
        /\ free' \in Seq(FreeSnaps \cup {s})
    BY <2>1, <2>2, <1>1, LenProperties
  <2>4. \A i \in DOMAIN free' : free'[i] \in FreeSnaps'
    BY DEF FreeSnaps
  <2>5. free' \in Seq(FreeSnaps')
    BY <2>2, <2>3, <2>4, <2>1, <1>1, LenProperties
  <2>6. s \in FreeSnaps'
    BY <2>3, <1>1 DEF FreeSnaps
  <2>7. \A i \in DOMAIN free' : i \in 1..Len(R) \/ i = Len(R) + 1
    BY <2>3, <1>1
  <2>8. \A i \in 1..Len(R) : i \in DOMAIN free'
    BY <2>3, <1>1
  <2>9. held' = held
    BY <1>4, <1>9
  <2>10. QED
    BY <2>1, <2>3, <2>5, <2>6, <2>7, <2>8, <2>9, <1>3, <1>5, <1>9 DEF R
<1>10. CASE ~shared /\ cur = {} /\ free' = R
  BY <1>8, <1>10
<1>11. QED
  BY <1>4, <1>8, <1>9, <1>10

-----------------------------------------------------------------------------
(* A tick.                                                                 *)

\* What is outstanding once the top of the free list is taken.
Left == {free[i] : i \in 1..Len(Remaining)}
Others == Left \cup held \cup cur

\* All of 1..n but n.
LEMMA TopIndex ==
  ASSUME NEW n \in Nat, n > 0, NEW m, m = n - 1
  PROVE  /\ n # 0 /\ n \in 1..n /\ n \notin 1..m
         /\ \A i \in 1..n : i \in 1..m \/ i = n
         /\ 1..m \subseteq 1..n
OBVIOUS

\* The snapshot allocated is a fresh one, or the top of the free list and no
\* other of it.
LEMMA TopTaken ==
  ASSUME free \in Seq(FreeSnaps)
  PROVE  /\ \A i \in 1..Len(Remaining) : free[i] \in FreeSnaps /\ i \in DOMAIN free
         /\ \/ Allocated = FreshSnap /\ Left = FreeSnaps
            \/ /\ Len(free) \in DOMAIN free /\ Allocated = free[Len(free)]
               /\ Len(free) \notin 1..Len(Remaining)
               /\ Allocated \in FreeSnaps
               /\ FreeSnaps = Left \cup {Allocated}
<1>1. /\ Len(free) \in Nat
      /\ DOMAIN free = 1..Len(free)
      /\ \/ Len(free) = 0 /\ Len(Remaining) = 0 /\ Allocated = FreshSnap
         \/ /\ Len(free) > 0 /\ Len(Remaining) = Len(free) - 1
            /\ Allocated = free[Len(free)]
  BY RemainingStack, LenProperties
<1>2. CASE Len(free) = 0
  <2>1. DOMAIN free = {} /\ 1..Len(Remaining) = {} /\ Allocated = FreshSnap
    BY <1>1, <1>2
  <2>2. QED
    BY <2>1 DEF FreeSnaps, Left
<1>3. CASE Len(free) > 0
  <2>1. Len(Remaining) = Len(free) - 1 /\ Allocated = free[Len(free)]
    <3>1. Len(free) # 0
      BY <1>1, <1>3, TopIndex
    <3>2. QED
      BY <1>1, <3>1
  <2>2. /\ Len(free) \in DOMAIN free /\ Len(free) \notin 1..Len(Remaining)
        /\ \A i \in DOMAIN free : i \in 1..Len(Remaining) \/ i = Len(free)
        /\ 1..Len(Remaining) \subseteq DOMAIN free
    BY <1>1, <1>3, <2>1, TopIndex
  <2>3. QED
    BY <2>1, <2>2 DEF FreeSnaps, Left
<1>4. QED
  BY <1>1, <1>2, <1>3

\* After a tick the snapshots are those left over and the one published.
LEMMA OutstandingAfter ==
  ASSUME IInv, NEW t, OnTick(t)
  PROVE  Outstanding' = Others \cup cur'
<1>1. FreeSnaps' \subseteq Left \cup cur
  BY TickMoves DEF FreeSnaps, Left
<1>2. Left \subseteq FreeSnaps'
  BY TickMoves DEF FreeSnaps, Left
<1>3. QED
  BY <1>1, <1>2, TickMoves DEF Outstanding, Others

\* No two snapshots of a generation share a sequence after a tick, when the
\* one published shares its own with none of the others.
LEMMA UniqueAfter ==
  ASSUME IInv, NEW t, OnTick(t), NEW n, cur' = {n},
         n.generation = gen',
         \A s \in Others : s.generation = gen' =>
            gen' = gen /\ s.sequence # n.sequence
  PROVE  SequencesUnique'
<1> DEFINE m == Len(Remaining)
<1>1. /\ \A i \in DOMAIN free' :
            \/ i \in 1..m /\ i \in DOMAIN free /\ free'[i] = free[i]
            \/ i = m + 1 /\ free'[i] \in cur /\ ~shared
      /\ held \subseteq held' /\ held' \subseteq held \cup cur
      /\ ~shared => held' = held
  BY TickMoves
<1>2. SequencesUnique /\ CurIsLatest
  BY DEF IInv
<1>3. \A i \in DOMAIN free' : free'[i] \in Others
  BY <1>1 DEF Others, Left
<1>4. held' \subseteq Others
  BY <1>1 DEF Others
<1> HIDE DEF m
<1>5. ASSUME NEW i \in DOMAIN free', NEW j \in DOMAIN free',
             free'[i].generation = gen', free'[j].generation = gen',
             free'[i].sequence = free'[j].sequence
      PROVE  i = j
  <2>1. gen' = gen
    BY <1>3, <1>5
  <2>2. QED
    BY <1>1, <1>2, <1>5, <2>1 DEF SequencesUnique
<1>6. ASSUME NEW i \in DOMAIN free', NEW s \in held',
             free'[i].generation = gen', s.generation = gen'
      PROVE  free'[i].sequence # s.sequence
  <2>1. gen' = gen
    BY <1>3, <1>6
  <2>2. CASE i \in DOMAIN free /\ free'[i] = free[i]
    BY <1>1, <1>2, <1>6, <2>1, <2>2 DEF SequencesUnique
  <2>3. CASE free'[i] \in cur /\ ~shared
    <3>1. s \in held /\ held \cap cur = {}
      BY <1>1, <1>2, <2>3 DEF SequencesUnique
    <3>2. s # free'[i]
      BY <3>1, <2>3
    <3>3. QED
      BY <1>2, <1>6, <2>1, <2>3, <3>1, <3>2 DEF SequencesUnique
  <2>4. QED
    BY <1>1, <2>2, <2>3
<1>7. \A i \in DOMAIN free' : free'[i].generation = gen' => free'[i].sequence # n.sequence
  BY <1>3
<1>8. ASSUME NEW s \in held' \cup cur', NEW u \in held' \cup cur',
             s.generation = gen', u.generation = gen', s.sequence = u.sequence
      PROVE  s = u
  <2>1. CASE s \in held' /\ u \in held'
    <3>1. gen' = gen /\ s \in held \cup cur /\ u \in held \cup cur
      BY <1>1, <1>4, <1>8, <2>1
    <3>2. QED
      BY <1>2, <1>8, <3>1 DEF SequencesUnique
  <2>2. QED
    BY <1>4, <1>8, <2>1
<1>9. held' \cap cur' = {}
  BY <1>4
<1>10. QED
  BY <1>5, <1>6, <1>7, <1>8, <1>9 DEF SequencesUnique

\* The history operators, field by field.
LEMMA AddTickFacts ==
  ASSUME NEW h, NEW t
  PROVE  /\ AddTickTo(h, t).next = h.next + 1
         /\ DOMAIN AddTickTo(h, t).history = DOMAIN h.history \cup {h.next}
         /\ AddTickTo(h, t).watermarks = h.watermarks
BY DEF AddTickTo, With

\* tick_history::add_watermark, field by field.
LEMMA AddWatermarkFacts ==
  ASSUME NEW h, NEW w
  PROVE  /\ AddWatermark(h, w).next = h.next
         /\ AddWatermark(h, w).history = h.history
         /\ AddWatermark(h, w).watermarks = h.watermarks \cup {w}
BY DEF AddWatermark

\* tick_history::remove_watermark, field by field: the ticks that stay are those
\* some other watermark still needs.
LEMMA RemoveWatermarkFacts ==
  ASSUME NEW h, NEW w
  PROVE  /\ RemoveWatermark(h, w).next = h.next
         /\ DOMAIN RemoveWatermark(h, w).history
              = {i \in DOMAIN h.history :
                    \E m \in h.watermarks \ {w} : ~(i < m)}
         /\ RemoveWatermark(h, w).watermarks = h.watermarks \ {w}
<1> DEFINE ws == h.watermarks \ {w}
           low == {i \in DOMAIN h.history : \A m \in ws : i < m}
<1>1. /\ RemoveWatermark(h, w).next = h.next
      /\ RemoveWatermark(h, w).history = Without(h.history, low)
      /\ RemoveWatermark(h, w).watermarks = ws
  BY DEF RemoveWatermark
<1>2. DOMAIN Without(h.history, low) = DOMAIN h.history \ low
  BY DEF Without, Restrict
<1>3. DOMAIN h.history \ low = {i \in DOMAIN h.history : \E m \in ws : ~(i < m)}
  OBVIOUS
<1>4. QED
  BY <1>1, <1>2, <1>3

\* A new generation starts from its snapshot tick: nothing older counts.
LEMMA FirstTick ==
  ASSUME IInv, NEW t, t.kind = "snapshot", OnTick(t)
  PROVE  IInv'
<1> DEFINE h == AddTickTo(EmptyHistory, t)
<1>1. /\ h.next = 1 /\ DOMAIN h.history = {0} /\ h.watermarks = {}
      /\ HighestSequence(h) = 0
  <2>1. /\ EmptyHistory.next = 0 /\ DOMAIN EmptyHistory.history = {}
        /\ EmptyHistory.watermarks = {}
    BY DEF EmptyHistory, NoTicks
  <2>2. /\ h.next = 0 + 1 /\ DOMAIN h.history = {} \cup {0} /\ h.watermarks = {}
    BY <2>1, AddTickFacts
  <2>3. QED
    BY <2>2 DEF HighestSequence
<1> HIDE DEF h
<1>2. gen \in Nat /\ \A s \in Outstanding : s.generation \in 1..gen /\ s.sequence \in Nat
  BY DEF IInv, NumbersOK
<1>3. Others \subseteq Outstanding /\ Allocated.generation \in 0..gen
  <2>1. \A i \in 1..Len(Remaining) : free[i] \in FreeSnaps
    BY RemainingStack, ElementOfSeq DEF IInv
  <2>2. \/ Allocated = FreshSnap
        \/ Len(free) \in Nat /\ Len(free) > 0 /\ Allocated = free[Len(free)]
    BY RemainingStack DEF IInv
  <2>3. Allocated = FreshSnap \/ Allocated \in FreeSnaps
    BY <2>2, ElementOfSeq DEF IInv
  <2>4. FreshSnap.generation = 0
    BY DEF FreshSnap
  <2>5. QED
    BY <1>2, <2>1, <2>3, <2>4 DEF Others, Left, Outstanding
<1>4. PICK n : /\ cur' = {n} /\ n.generation = gen + 1 /\ n.sequence = 0
               /\ gen' = gen + 1 /\ th' = AddWatermark(h, 0)
  <2>1. gen + 1 # Allocated.generation
    BY <1>2, <1>3
  <2>2. Publication(h, gen + 1, Apply(truth, t)).history = AddWatermark(h, 0)
    BY <1>1, <2>1 DEF Publication, Replayable
  <2>3. /\ Publication(h, gen + 1, Apply(truth, t)).snap.generation = gen + 1
        /\ Publication(h, gen + 1, Apply(truth, t)).snap.sequence = 0
    BY <1>1 DEF Publication, Replayable
  <2>4. /\ gen' = gen + 1
        /\ th' = Publication(h, gen + 1, Apply(truth, t)).history
        /\ cur' = {Publication(h, gen + 1, Apply(truth, t)).snap}
    BY DEF OnTick, HistoryFor, GenerationFor, h
  <2>5. QED
    BY <2>2, <2>3, <2>4
<1>5. th'.next = 1 /\ DOMAIN th'.history = {0} /\ th'.watermarks = {0}
  <2>1. /\ AddWatermark(h, 0).next = h.next
        /\ AddWatermark(h, 0).history = h.history
        /\ AddWatermark(h, 0).watermarks = h.watermarks \cup {0}
    BY AddWatermarkFacts
  <2>2. QED
    BY <1>1, <1>4, <2>1
<1>6. Outstanding' = Others \cup {n}
  BY <1>4, OutstandingAfter
<1>7. \A s \in Others : s.generation # gen + 1
  BY <1>2, <1>3
<1>8. Current' = {n}
  BY <1>4, <1>6, <1>7 DEF Current
<1>9. SequencesUnique'
  BY <1>4, <1>7, UniqueAfter
<1>10. NumbersOK'
  <2>1. \A s \in Outstanding' : s.generation \in 1..gen + 1 /\ s.sequence \in Nat
    BY <1>2, <1>3, <1>4, <1>6
  <2>2. QED
    BY <1>2, <1>4, <1>5, <1>8, <2>1 DEF NumbersOK
<1>11. HistoryServes' /\ WatermarksExact' /\ NoOldTicks'
  BY <1>4, <1>5, <1>8 DEF HistoryServes, WatermarksExact, NoOldTicks
<1>12. CurIsLatest' /\ NothingBefore'
  BY <1>2, <1>4, <1>5 DEF CurIsLatest, NothingBefore
<1>13. QED
  BY <1>9, <1>10, <1>11, <1>12, TickMoves DEF IInv

\* A tick within a generation: a recycled snapshot takes its watermark with it,
\* and the listener's own snapshot keeps the tick from being dropped.
LEMMA LaterTick ==
  ASSUME IInv, gen > 0, NEW t, t.kind # "snapshot", OnTick(t)
  PROVE  IInv'
<1> DEFINE h == AddTickTo(th, t)
           d == th.next
           old == Allocated
           hit == old.generation = gen /\ old.sequence \in DOMAIN h.history
<1>1. /\ gen \in Nat /\ d \in Nat
      /\ \A i \in DOMAIN th.history : i \in Nat /\ i < d
      /\ \A s \in Outstanding : s.generation \in 1..gen /\ s.sequence \in Nat
      /\ \A s \in Current : s.sequence < d
      /\ th.watermarks \subseteq Nat
  BY DEF IInv, NumbersOK
<1>2. /\ h.next = d + 1 /\ DOMAIN h.history = DOMAIN th.history \cup {d}
      /\ h.watermarks = th.watermarks
      /\ HighestSequence(h) = d
  BY AddTickFacts, <1>1 DEF HighestSequence
<1>3. /\ \A i \in 1..Len(Remaining) : free[i] \in FreeSnaps /\ i \in DOMAIN free
      /\ \/ Allocated = FreshSnap /\ Left = FreeSnaps
         \/ /\ Len(free) \in DOMAIN free /\ Allocated = free[Len(free)]
            /\ Len(free) \notin 1..Len(Remaining)
            /\ Allocated \in FreeSnaps
            /\ FreeSnaps = Left \cup {Allocated}
  BY TopTaken DEF IInv
<1>4. Left \subseteq FreeSnaps /\ Others \subseteq Outstanding
  BY <1>3 DEF Left, Others, Outstanding
<1>5. FreshSnap.generation = 0
  BY DEF FreshSnap
<1>6. PICK c \in cur : c \in Current /\ c.sequence = d - 1 /\ c \in Others
  BY DEF IInv, CurIsLatest, Current, Outstanding, Others
\* The history reaches back to every snapshot of this generation.
<1>7. hit <=> old.generation = gen
  <2>1. ASSUME old.generation = gen
        PROVE  old.sequence \in DOMAIN h.history
    <3>1. old \in Current
      BY <1>1, <1>3, <1>5, <2>1 DEF Current, Outstanding
    <3>2. old.sequence \in Nat /\ old.sequence < d
      BY <1>1, <3>1 DEF Current
    <3>3. old.sequence \in old.sequence..d - 1
      BY <1>1, <3>2
    <3>4. QED
      BY <1>2, <3>1, <3>3 DEF IInv, HistoryServes
  <2>2. QED
    BY <2>1
\* The current snapshots left over are all of them, or all but the recycled one.
<1>8. IF hit THEN /\ old \in Current
                  /\ \A s \in Others : s.generation = gen => s.sequence # old.sequence
                  /\ Current = {s \in Others : s.generation = gen} \cup {old}
      ELSE Current = {s \in Others : s.generation = gen}
  <2>1. CASE ~hit
    <3>1. Outstanding \subseteq Others \cup {old}
      BY <1>3 DEF Outstanding, Others
    <3>2. QED
      BY <1>4, <1>7, <2>1, <3>1 DEF Current
  <2>2. CASE hit
    <3>1. /\ Len(free) \in DOMAIN free /\ old = free[Len(free)]
          /\ Len(free) \notin 1..Len(Remaining)
          /\ old \in FreeSnaps /\ FreeSnaps = Left \cup {old}
      BY <1>1, <1>3, <1>5, <2>2
    <3>2. ASSUME NEW s \in Others, s.generation = gen
          PROVE  s.sequence # old.sequence
      <4>1. CASE s \in Left
        <5>1. PICK i \in 1..Len(Remaining) : s = free[i]
          BY <4>1 DEF Left
        <5>2. i \in DOMAIN free /\ i # Len(free)
          BY <1>3, <3>1
        <5>3. QED
          BY <2>2, <3>1, <3>2, <5>1, <5>2 DEF IInv, SequencesUnique
      <4>2. CASE s \in held \cup cur
        BY <2>2, <3>1, <3>2, <4>2 DEF IInv, SequencesUnique
      <4>3. QED
        BY <4>1, <4>2 DEF Others
    <3>3. QED
      BY <2>2, <3>1, <3>2 DEF Current, Outstanding, Others
  <2>3. QED
    BY <2>1, <2>2
<1> DEFINE Stay == {s \in Others : s.generation = gen}
           W == {s.sequence : s \in Stay}
\* What the tick does to the history.
<1>9. PICK n : /\ cur' = {n} /\ n.generation = gen /\ n.sequence = d
               /\ gen' = gen
               /\ th' = AddWatermark(IF hit THEN RemoveWatermark(h, old.sequence)
                                            ELSE h, d)
  <2>1. /\ gen' = gen
        /\ th' = Publication(h, gen, Apply(truth, t)).history
        /\ cur' = {Publication(h, gen, Apply(truth, t)).snap}
    BY DEF OnTick, HistoryFor, GenerationFor
  <2>2. Publication(h, gen, Apply(truth, t)).history
          = AddWatermark(IF hit THEN RemoveWatermark(h, old.sequence) ELSE h,
                         HighestSequence(h))
    BY DEF Publication, Replayable
  <2>3. /\ Publication(h, gen, Apply(truth, t)).snap.generation = gen
        /\ Publication(h, gen, Apply(truth, t)).snap.sequence = HighestSequence(h)
    BY DEF Publication, Replayable
  <2>4. QED
    BY <1>2, <2>1, <2>2, <2>3
<1> HIDE DEF h, d, old
<1>10. th.watermarks = {s.sequence : s \in Current}
  BY DEF IInv, WatermarksExact
<1>11. /\ th'.next = d + 1
       /\ th'.watermarks = W \cup {d}
       /\ DOMAIN th'.history \subseteq DOMAIN h.history
       /\ \A i \in DOMAIN h.history :
             i \in DOMAIN th'.history <=> (~hit \/ \E m \in W : ~(i < m))
  <2>1. CASE hit
    <3>1. /\ RemoveWatermark(h, old.sequence).next = h.next
          /\ RemoveWatermark(h, old.sequence).watermarks = h.watermarks \ {old.sequence}
          /\ DOMAIN RemoveWatermark(h, old.sequence).history
               = {i \in DOMAIN h.history :
                    \E m \in h.watermarks \ {old.sequence} : ~(i < m)}
      BY RemoveWatermarkFacts
    <3>2. h.watermarks \ {old.sequence} = W
      BY <1>2, <1>8, <1>10, <2>1
    <3>3. th' = AddWatermark(RemoveWatermark(h, old.sequence), d)
      BY <1>9, <2>1
    <3>4. /\ th'.next = RemoveWatermark(h, old.sequence).next
          /\ th'.history = RemoveWatermark(h, old.sequence).history
          /\ th'.watermarks = RemoveWatermark(h, old.sequence).watermarks \cup {d}
      BY <3>3, AddWatermarkFacts
    <3>5. QED
      BY <1>2, <2>1, <3>1, <3>2, <3>4
  <2>2. CASE ~hit
    <3>1. th'.next = h.next /\ th'.history = h.history
          /\ th'.watermarks = h.watermarks \cup {d}
      BY <1>9, <2>2, AddWatermarkFacts
    <3>2. h.watermarks = W
      BY <1>2, <1>8, <1>10, <2>2
    <3>3. QED
      BY <1>2, <2>2, <3>1, <3>2
  <2>3. QED
    BY <2>1, <2>2
<1>12. Outstanding' = Others \cup {n}
  BY <1>9, OutstandingAfter
<1>13. Current' = Stay \cup {n}
  BY <1>9, <1>12 DEF Current
<1>14. Stay \subseteq Current /\ c \in Stay
  BY <1>4, <1>6 DEF Current
<1>15. W \subseteq Nat /\ \A m \in W : m < d
  BY <1>1, <1>14 DEF Current
<1>16. SequencesUnique'
  BY <1>9, <1>15, UniqueAfter
<1>17. NumbersOK'
  <2>1. \A s \in Outstanding' : s.generation \in 1..gen /\ s.sequence \in Nat
    BY <1>1, <1>4, <1>9, <1>12
  <2>2. \A s \in Current' : s.sequence < d + 1
    <3>1. \A m \in W : m < d + 1
      BY <1>1, <1>15
    <3>2. \A s \in Stay : s.sequence \in W
      OBVIOUS
    <3>3. d < d + 1
      BY <1>1
    <3>4. QED
      BY <1>9, <1>13, <3>1, <3>2, <3>3
  <2>3. th'.watermarks \subseteq Nat /\ th'.next \in Nat
    BY <1>1, <1>11, <1>15
  <2>4. \A i \in DOMAIN th'.history : i \in Nat /\ i < d + 1
    BY <1>1, <1>2, <1>11
  <2>5. QED
    BY <1>1, <1>9, <1>11, <2>1, <2>2, <2>3, <2>4 DEF NumbersOK
<1>18. WatermarksExact'
  BY <1>9, <1>11, <1>13 DEF WatermarksExact
<1>19. HistoryServes'
  <2>1. ASSUME NEW s \in Stay, NEW i \in s.sequence..d
        PROVE  i \in DOMAIN th'.history
    <3>1. s.sequence \in W /\ s.sequence \in Nat /\ i \in Nat /\ ~(i < s.sequence)
      BY <1>1, <1>15, <2>1
    <3>2. i = d \/ i \in s.sequence..d - 1
      BY <1>1, <2>1, <3>1
    <3>3. i \in DOMAIN h.history
      BY <1>2, <1>14, <3>2 DEF IInv, HistoryServes, d
    <3>4. QED
      BY <1>11, <3>1, <3>3
  <2>2. d \in DOMAIN th'.history
    <3>1. c.sequence \in W /\ ~(d < c.sequence)
      BY <1>1, <1>6, <1>14
    <3>2. QED
      BY <1>2, <1>11, <3>1
  <2>3. \A s \in Current' : s.sequence..th'.next - 1 \subseteq DOMAIN th'.history
    <3>1. th'.next - 1 = d /\ d..d = {d}
      BY <1>1, <1>11
    <3>2. \A s \in Stay : s.sequence..d \subseteq DOMAIN th'.history
      BY <2>1
    <3>3. n.sequence..d \subseteq DOMAIN th'.history
      BY <1>9, <2>2, <3>1
    <3>4. QED
      BY <1>13, <3>1, <3>2, <3>3
  <2>4. QED
    BY <2>3 DEF HistoryServes
<1>20. NoOldTicks'
  <2>1. ASSUME NEW i \in DOMAIN th'.history
        PROVE  \E s \in Current' : s.sequence <= i
    <3>1. i \in Nat /\ (i = d \/ i \in DOMAIN th.history)
      BY <1>1, <1>2, <1>11
    <3>2. CASE i = d
      BY <1>1, <1>9, <1>13, <3>2
    <3>3. CASE hit
      <4>1. PICK m \in W : ~(i < m)
        BY <1>11, <3>3
      <4>2. m <= i
        BY <1>15, <3>1, <4>1
      <4>3. QED
        BY <1>13, <4>2
    <3>4. CASE ~hit /\ i \in DOMAIN th.history
      BY <1>8, <1>13, <3>4 DEF IInv, NoOldTicks
    <3>5. QED
      BY <3>1, <3>2, <3>3, <3>4
  <2>2. QED
    BY <2>1 DEF NoOldTicks
<1>21. CurIsLatest' /\ NothingBefore'
  BY <1>1, <1>9, <1>11 DEF CurIsLatest, NothingBefore
<1>22. QED
  BY <1>16, <1>17, <1>18, <1>19, <1>20, <1>21, TickMoves DEF IInv

-----------------------------------------------------------------------------
(* The other steps, and the theorems.                                      *)

\* A consumer lets go of an earlier snapshot: it moves to the free list.
LEMMA ReleaseKeeps ==
  ASSUME IInv, Release
  PROVE  IInv'
<1>1. PICK s \in held : held' = held \ {s} /\ free' = Append(free, s)
  BY DEF Release
<1>2. UNCHANGED <<th, gen, cur, subscribed>>
  BY DEF Release
<1>3. free \in Seq(FreeSnaps) /\ SequencesUnique
  BY DEF IInv
<1>4. /\ free' \in Seq(FreeSnaps \cup {s})
      /\ Len(free') = Len(free) + 1 /\ Len(free) \in Nat
      /\ \A i \in 1..Len(free) : free'[i] = free[i]
      /\ free'[Len(free) + 1] = s
      /\ DOMAIN free = 1..Len(free) /\ DOMAIN free' = 1..Len(free')
  BY <1>1, <1>3, Push, LenProperties
<1> DEFINE m == Len(free)
<1>5. /\ m \in Nat
      /\ DOMAIN free = 1..m
      /\ DOMAIN free' = 1..m + 1
      /\ \A i \in 1..m : free'[i] = free[i]
      /\ free'[m + 1] = s
  BY <1>4
<1> HIDE DEF m
<1>6. /\ \A i \in DOMAIN free' :
            \/ i \in DOMAIN free /\ free'[i] = free[i]
            \/ i = m + 1 /\ free'[i] = s
      /\ \A i \in DOMAIN free : i \in DOMAIN free' /\ free'[i] = free[i]
      /\ m + 1 \in DOMAIN free'
  BY <1>5
<1>7. FreeSnaps' = FreeSnaps \cup {s}
  BY <1>5, <1>6 DEF FreeSnaps
<1>8. free' \in Seq(FreeSnaps')
  BY <1>4, <1>7
<1>9. Outstanding' = Outstanding
  BY <1>1, <1>2, <1>7 DEF Outstanding
<1>10. Current' = Current
  BY <1>2, <1>9 DEF Current
<1>11. SequencesUnique'
  <2>1. ASSUME NEW i \in DOMAIN free', NEW j \in DOMAIN free',
               free'[i].generation = gen, free'[j].generation = gen,
               free'[i].sequence = free'[j].sequence
        PROVE  i = j
    BY <1>3, <1>6, <2>1 DEF SequencesUnique
  <2>2. ASSUME NEW i \in DOMAIN free', NEW u \in held' \cup cur,
               free'[i].generation = gen, u.generation = gen
        PROVE  free'[i].sequence # u.sequence
    <3>1. u # s /\ u \in held \cup cur
      BY <1>1, <1>3 DEF SequencesUnique
    <3>2. QED
      BY <1>3, <1>6, <2>2, <3>1 DEF SequencesUnique
  <2>3. QED
    BY <1>1, <1>2, <1>3, <2>1, <2>2 DEF SequencesUnique
<1>12. NumbersOK' /\ WatermarksExact' /\ HistoryServes' /\ NoOldTicks' /\ CurIsLatest'
  BY <1>2, <1>9, <1>10
     DEF IInv, NumbersOK, WatermarksExact, HistoryServes, NoOldTicks, CurIsLatest
<1>13. NothingBefore'
  BY <1>1, <1>2 DEF IInv, NothingBefore
<1>14. QED
  BY <1>8, <1>11, <1>12, <1>13 DEF IInv

\* Nothing else touches the history or a snapshot.
LEMMA OthersKeep ==
  ASSUME IInv, UNCHANGED <<th, gen, free, cur, held>>,
         gen = 0 => ~subscribed'
  PROVE  IInv'
<1>1. /\ FreeSnaps' = FreeSnaps /\ Outstanding' = Outstanding
      /\ Current' = Current
  BY DEF FreeSnaps, Outstanding, Current
<1>2. QED
  BY <1>1 DEF IInv, NumbersOK, WatermarksExact, HistoryServes, NoOldTicks,
              CurIsLatest, NothingBefore, SequencesUnique

\* The ticks of trading are not snapshots.
LEMMA TradeTicks ==
  ASSUME NEW t \in Ticks
  PROVE  t.kind # "snapshot"
BY DEF Ticks, AddTick, RemoveTick, ExecuteTick

\* A new orderbook_snapshot_service has published nothing: the invariant holds.
LEMMA Start ==
  ASSUME SnapshotFirst, Init
  PROVE  IInv
<1>1. /\ FreeSnaps = {} /\ Outstanding = {} /\ Current = {}
      /\ free \in Seq(FreeSnaps) /\ DOMAIN free = {}
  BY DEF Init, FreeSnaps, Outstanding, Current
<1>2. th.next = 0 /\ DOMAIN th.history = {} /\ th.watermarks = {} /\ gen = 0
  BY DEF Init, EmptyHistory, NoTicks
<1>3. NothingBefore /\ CurIsLatest /\ SequencesUnique
  <2>1. /\ ~subscribed /\ th = EmptyHistory
        /\ free = <<>> /\ cur = {} /\ held = {}
    BY DEF Init
  <2>2. ~(gen > 0)
    BY <1>2
  <2>3. QED
    BY <1>1, <2>1, <2>2 DEF NothingBefore, CurIsLatest, SequencesUnique
<1>4. NumbersOK /\ WatermarksExact /\ HistoryServes /\ NoOldTicks
  BY <1>1, <1>2 DEF NumbersOK, WatermarksExact, HistoryServes, NoOldTicks
<1>5. QED
  BY <1>1, <1>3, <1>4 DEF IInv

\* When the venue's snapshot comes first, the invariant holds throughout.
THEOREM Inductive ==
  ASSUME SnapshotFirst
  PROVE  Spec => []IInv
<1>1. Init => IInv
  BY Start
<1>2. IInv /\ [Next]_vars => IInv'
  <2> SUFFICES ASSUME IInv, [Next]_vars PROVE IInv'
    OBVIOUS
  <2>0. gen \in Nat
    BY DEF IInv, NumbersOK
  <2>1. CASE Tick
    <3>1. gen > 0
      BY <2>0, <2>1 DEF Tick, IInv, NothingBefore
    <3>2. PICK t \in Ticks : OnTick(t)
      BY <2>1 DEF Tick
    <3>3. QED
      BY <3>1, <3>2, TradeTicks, LaterTick
  <2>2. CASE Snapshot
    <3>1. SnapshotOf(live).kind = "snapshot"
      BY DEF SnapshotOf
    <3>2. QED
      BY <2>2, <3>1, FirstTick DEF Snapshot
  <2>3. CASE Lose
    BY <2>3, OthersKeep DEF Lose, service
  <2>4. CASE Miss
    BY <2>4, OthersKeep DEF Miss, service, IInv, NothingBefore
  <2>5. CASE Take
    BY <2>5, OthersKeep DEF Take, service, IInv, NothingBefore
  <2>6. CASE Drop
    BY <2>6, OthersKeep DEF Drop, service, IInv, NothingBefore
  <2>7. CASE Release
    BY <2>7, ReleaseKeeps
  <2>8. CASE UNCHANGED vars
    BY <2>8, OthersKeep DEF vars, IInv, NothingBefore
  <2>9. QED
    BY <2>1, <2>2, <2>3, <2>4, <2>5, <2>6, <2>7, <2>8 DEF Next
<1>3. QED
  BY <1>1, <1>2, PTL DEF Spec

\* remove_watermark and add_watermark keep one watermark for each snapshot of
\* the generation and none for any other (WatermarksExact).
THEOREM WatermarksCorrect ==
  ASSUME SnapshotFirst
  PROVE  Spec => []WatermarksExact
<1>1. IInv => WatermarksExact
  BY DEF IInv
<1>2. QED
  BY <1>1, Inductive, PTL

\* process_tick finds in the history every tick that any snapshot of the
\* generation has missed, for any number of consumers that hold theirs for any
\* time, and remove_watermark drops every other (HistoryExact).
THEOREM HistoryKept ==
  ASSUME SnapshotFirst
  PROVE  Spec => []HistoryExact
<1>1. IInv => HistoryExact
  BY DEF IInv, HistoryExact
<1>2. QED
  BY <1>1, Inductive, PTL

-----------------------------------------------------------------------------
(* Replay.  A recursive function is what its equation says once a function *)
(* that satisfies the equation is shown to exist and to be the only one.   *)

\* B replays on book b the ticks of f after s, up to n.
Replays(B, f, s, n, b) ==
  B = [i \in s..n |-> IF i = s THEN b ELSE Apply(B[i - 1], f[i])]

\* The same, from one tick to the next.
Stepwise(B, f, s, n, b) ==
  B[s] = b /\ \A i \in s..n : i < n => B[i + 1] = Apply(B[i], f[i + 1])

\* f and g have the same ticks after s, up to n.
SameTicks(f, g, s, n) == \A i \in s + 1..n : f[i] = g[i]

\* A replay applies each tick to the book before it.
LEMMA ReplayStep ==
  ASSUME NEW B, NEW f, NEW s \in Nat, NEW n \in Nat, NEW b, Replays(B, f, s, n, b), s <= n
  PROVE  Stepwise(B, f, s, n, b)
<1>1. \A i \in s..n : B[i] = IF i = s THEN b ELSE Apply(B[i - 1], f[i])
  BY DEF Replays
<1>2. s \in s..n
  OBVIOUS
<1>3. ASSUME NEW i \in s..n, i < n PROVE B[i + 1] = Apply(B[i], f[i + 1])
  <2>1. i + 1 \in s..n /\ i + 1 # s /\ (i + 1) - 1 = i
    BY <1>3
  <2> QED  BY <1>1, <2>1
<1> QED  BY <1>1, <1>2, <1>3 DEF Stepwise

\* There is a replay up to any tick: each is the one before and a tick more.
LEMMA ReplayExists ==
  ASSUME NEW f, NEW s \in Nat, NEW b
  PROVE  \A n \in Nat : s <= n => \E B : Replays(B, f, s, n, b)
<1> DEFINE S == {m \in Nat : \E B : Replays(B, f, s, s + m, b)}
<1>1. 0 \in S
  <2> DEFINE B == [i \in s..s |-> b]
  <2>1. B = [i \in s..s |-> IF i = s THEN b ELSE Apply(B[i - 1], f[i])]
    OBVIOUS
  <2>2. s + 0 = s
    OBVIOUS
  <2> HIDE DEF B
  <2> QED  BY <2>1, <2>2 DEF Replays
<1>2. ASSUME NEW m \in Nat, m \in S PROVE m + 1 \in S
  <2>1. PICK B : Replays(B, f, s, s + m, b)
    BY <1>2
  <2> DEFINE n == s + m
             C == [i \in s..n + 1 |-> IF i = n + 1 THEN Apply(B[n], f[n + 1]) ELSE B[i]]
  <2>2. n \in Nat /\ s <= n
    OBVIOUS
  <2> HIDE DEF n
  <2>3. \A i \in s..n : B[i] = IF i = s THEN b ELSE Apply(B[i - 1], f[i])
    BY <2>1 DEF Replays, n
  <2>4. ASSUME NEW i \in s..n + 1
        PROVE  C[i] = IF i = s THEN b ELSE Apply(C[i - 1], f[i])
    <3>1. CASE i = n + 1
      <4>1. i # s /\ i - 1 = n /\ n \in s..n + 1 /\ n # n + 1
        BY <2>2, <3>1
      <4>2. C[i] = Apply(B[n], f[n + 1]) /\ C[n] = B[n]
        BY <3>1, <4>1
      <4> QED  BY <3>1, <4>1, <4>2
    <3>2. CASE i = s
      <4>1. i \in s..n /\ i # n + 1
        BY <2>2, <3>2
      <4> QED  BY <2>3, <3>2, <4>1
    <3>3. CASE i # n + 1 /\ i # s
      <4>1. i \in s..n /\ i - 1 \in s..n + 1 /\ i - 1 # n + 1
        BY <2>2, <3>3
      <4>2. C[i] = B[i] /\ C[i - 1] = B[i - 1]
        BY <3>3, <4>1
      <4> QED  BY <2>3, <3>3, <4>1, <4>2
    <3> QED  BY <3>1, <3>2, <3>3
  <2>5. Replays(C, f, s, n + 1, b)
    <3>1. C = [i \in s..n + 1 |-> C[i]]
      OBVIOUS
    <3> HIDE DEF C
    <3> QED  BY <2>4, <3>1 DEF Replays
  <2>6. n + 1 = s + (m + 1)
    BY DEF n
  <2> QED  BY <2>5, <2>6
<1>3. Nat \subseteq S
  <2> HIDE DEF S
  <2> QED  BY <1>1, <1>2, Induct
<1>4. ASSUME NEW n \in Nat, s <= n PROVE \E B : Replays(B, f, s, n, b)
  <2>1. n - s \in Nat /\ s + (n - s) = n
    BY <1>4
  <2>2. n - s \in S
    BY <1>3, <2>1
  <2> QED  BY <2>1, <2>2
<1> QED  BY <1>4

\* Two replays agree as far as the ticks they replay do.
LEMMA ReplaysAgree ==
  ASSUME NEW f, NEW g, NEW s \in Nat, NEW n \in Nat, NEW k \in Nat, NEW b,
         NEW B, Replays(B, f, s, n, b), NEW C, Replays(C, g, s, k, b),
         s <= n, n <= k, SameTicks(f, g, s, n)
  PROVE  B[n] = C[n]
<1> DEFINE S == {m \in Nat : s + m <= n => B[s + m] = C[s + m]}
<1>k. s <= k
  OBVIOUS
<1>f. Stepwise(B, f, s, n, b)
  BY ReplayStep
<1>g. Stepwise(C, g, s, k, b)
  BY <1>k, ReplayStep
<1>0. B[s] = b /\ C[s] = b
  BY <1>f, <1>g DEF Stepwise
<1>1. 0 \in S
  <2>1. s + 0 = s
    OBVIOUS
  <2> QED  BY <1>0, <2>1
<1>2. ASSUME NEW m \in Nat, m \in S PROVE m + 1 \in S
  <2> SUFFICES ASSUME s + (m + 1) <= n PROVE B[s + (m + 1)] = C[s + (m + 1)]
    OBVIOUS
  <2>0. PICK i \in Nat : i = s + m
    OBVIOUS
  <2>1. /\ i \in s..n /\ i \in s..k /\ i < n /\ i < k /\ i + 1 \in s + 1..n
        /\ s + (m + 1) = i + 1 /\ i <= n
    BY <2>0
  <2>2. B[i] = C[i]
    BY <1>2, <2>0, <2>1
  <2>3. B[i + 1] = Apply(B[i], f[i + 1]) /\ C[i + 1] = Apply(C[i], g[i + 1])
    BY <1>f, <1>g, <2>1 DEF Stepwise
  <2>4. f[i + 1] = g[i + 1]
    BY <2>1 DEF SameTicks
  <2> QED  BY <2>1, <2>2, <2>3, <2>4
<1>3. Nat \subseteq S
  <2> HIDE DEF S
  <2> QED  BY <1>1, <1>2, Induct
<1>4. n - s \in Nat /\ s + (n - s) = n /\ n <= n
  OBVIOUS
<1>5. n - s \in S
  BY <1>3, <1>4
<1> QED  BY <1>4, <1>5

\* What process_tick's replay comes to is the last value of any such function.
LEMMA ReplayIs ==
  ASSUME NEW h, NEW s \in Nat, NEW b, NEW n \in Nat, h.next - 1 = n, s <= n
  PROVE  \E B : Replays(B, h.history, s, n, b) /\ ReplayAfter(h, s, b) = B[n]
<1> DEFINE Eq(B) == B = [i \in s..n |-> IF i = s THEN b ELSE Apply(B[i - 1], h.history[i])]
<1>1. ReplayAfter(h, s, b) =
        (CHOOSE B : B = [i \in s..h.next - 1 |->
                           IF i = s THEN b ELSE Apply(B[i - 1], h.history[i])])[h.next - 1]
  BY Zenon DEF ReplayAfter
<1>2. ReplayAfter(h, s, b) = (CHOOSE B : Eq(B))[n]
  BY <1>1, Zenon
<1>3. \E B : Eq(B)
  <2>1. \E B : Replays(B, h.history, s, n, b)
    BY ReplayExists
  <2> QED  BY <2>1, Zenon DEF Replays
<1> HIDE DEF Eq
<1>4. Eq(CHOOSE B : Eq(B))
  BY <1>3, Zenon
<1>5. Replays(CHOOSE B : Eq(B), h.history, s, n, b)
  BY <1>4, Zenon DEF Eq, Replays
<1> QED  BY <1>2, <1>5, Zenon

\* A snapshot of the last tick is up to date.
LEMMA ReplayNone ==
  ASSUME NEW h, NEW s \in Nat, NEW b, h.next - 1 = s
  PROVE  ReplayAfter(h, s, b) = b
<1>1. s <= s
  OBVIOUS
<1>2. PICK B : Replays(B, h.history, s, s, b) /\ ReplayAfter(h, s, b) = B[s]
  BY <1>1, ReplayIs
<1>3. Stepwise(B, h.history, s, s, b)
  BY <1>1, <1>2, ReplayStep
<1> QED  BY <1>2, <1>3 DEF Stepwise

\* Histories with the same ticks to replay.
LEMMA ReplaySame ==
  ASSUME NEW h, NEW g, NEW s \in Nat, NEW b, NEW n \in Nat,
         h.next - 1 = n, g.next - 1 = n, s <= n,
         SameTicks(h.history, g.history, s, n)
  PROVE  ReplayAfter(g, s, b) = ReplayAfter(h, s, b)
<1>1. n <= n
  OBVIOUS
<1>2. PICK B : Replays(B, h.history, s, n, b) /\ ReplayAfter(h, s, b) = B[n]
  BY ReplayIs
<1>3. PICK C : Replays(C, g.history, s, n, b) /\ ReplayAfter(g, s, b) = C[n]
  BY ReplayIs
<1>4. B[n] = C[n]
  BY <1>1, <1>2, <1>3, ReplaysAgree
<1> QED  BY <1>2, <1>3, <1>4

\* History g has one tick more than h, its k-th, and the ticks of h after s.
OneMore(h, g, s, n, k) ==
    /\ s <= n /\ k = n + 1
    /\ h.next - 1 = n /\ g.next - 1 = k
    /\ SameTicks(h.history, g.history, s, n)

\* That tick is applied last.
LEMMA ReplayOneMore ==
  ASSUME NEW h, NEW g, NEW s \in Nat, NEW b, NEW n \in Nat, NEW k \in Nat,
         OneMore(h, g, s, n, k)
  PROVE  ReplayAfter(g, s, b) = Apply(ReplayAfter(h, s, b), g.history[k])
<1>0. /\ h.next - 1 = n /\ g.next - 1 = k /\ s <= n /\ k = n + 1
      /\ SameTicks(h.history, g.history, s, n)
  BY DEF OneMore
<1>1. s <= k /\ n <= k /\ n < k /\ n \in s..k /\ k = n + 1
  BY <1>0
<1>2. PICK B : Replays(B, h.history, s, n, b) /\ ReplayAfter(h, s, b) = B[n]
  BY <1>0, ReplayIs
<1>3. PICK C : Replays(C, g.history, s, k, b) /\ ReplayAfter(g, s, b) = C[k]
  BY <1>0, <1>1, ReplayIs
<1>4. B[n] = C[n]
  BY <1>0, <1>1, <1>2, <1>3, ReplaysAgree
<1>5. C[k] = Apply(C[n], g.history[k])
  <2>1. Stepwise(C, g.history, s, k, b)
    BY <1>1, <1>3, ReplayStep
  <2> QED  BY <1>1, <2>1 DEF Stepwise
<1> QED  BY <1>2, <1>3, <1>4, <1>5

-----------------------------------------------------------------------------
(* The consumers' feed.                                                    *)

\* A snapshot as process_tick would return it now.
UpToDate(s) == ReplayAfter(th, s.sequence, s.book)

\* Whatever the venue does next, replay brings every snapshot of the generation
\* to the service's own book.
Faithful ==
    \A s \in Current : Usable(UpToDate(s)) /\ Same(UpToDate(s), truth)

\* A consumer's snapshots, the listener's among them, have names of their own.
Named ==
    \A s, t \in held \cup cur :
        s.generation = t.generation /\ s.sequence = t.sequence => s = t

FeedInv == IInv /\ Usable(truth) /\ Shaped(truth) /\ Named /\ Faithful

\* tick_history::add_tick leaves the earlier ticks as they were.
LEMMA AddTickValues ==
  ASSUME NEW h, NEW t
  PROVE  /\ AddTickTo(h, t).history[h.next] = t
         /\ \A i \in DOMAIN h.history : i # h.next
               => AddTickTo(h, t).history[i] = h.history[i]
BY DEF AddTickTo, With

\* tick_history::remove_watermark leaves the ticks that stay as they were.
LEMMA RemoveWatermarkValues ==
  ASSUME NEW h, NEW w, NEW i, i \in DOMAIN RemoveWatermark(h, w).history
  PROVE  /\ i \in DOMAIN h.history
         /\ RemoveWatermark(h, w).history[i] = h.history[i]
<1> DEFINE low == {j \in DOMAIN h.history : \A m \in h.watermarks \ {w} : j < m}
<1>1. RemoveWatermark(h, w).history = Without(h.history, low)
  BY DEF RemoveWatermark
<1> HIDE DEF low
<1> QED  BY <1>1 DEF Without, Restrict

\* What a tick makes of the history, the service's book and the listener's
\* snapshot.
LEMMA TickResult ==
  ASSUME NEW t, OnTick(t), NEW h, h = AddTickTo(HistoryFor(t), t)
  PROVE  /\ gen' = GenerationFor(t)
         /\ truth' = Apply(truth, t)
         /\ th'.next = h.next
         /\ \A i \in DOMAIN th'.history :
               i \in DOMAIN h.history /\ th'.history[i] = h.history[i]
         /\ \E n : /\ cur' = {n}
                   /\ n.generation = gen' /\ n.sequence = h.next - 1
                   /\ n.book = IF Replayable(h, gen')
                               THEN ReplayAfter(h, Allocated.sequence, Allocated.book)
                               ELSE Assign(Allocated.book, truth')
<1> DEFINE p == Publication(h, gen', truth')
<1>1. gen' = GenerationFor(t) /\ truth' = Apply(truth, t)
  BY DEF OnTick
<1>2. th' = p.history /\ cur' = {p.snap}
  BY DEF OnTick
<1>3. p.history = AddWatermark(IF Replayable(h, gen')
                               THEN RemoveWatermark(h, Allocated.sequence) ELSE h,
                               HighestSequence(h))
  BY DEF Publication
<1>4. /\ p.snap.generation = gen' /\ p.snap.sequence = h.next - 1
      /\ p.snap.book = IF Replayable(h, gen')
                       THEN ReplayAfter(h, Allocated.sequence, Allocated.book)
                       ELSE Assign(Allocated.book, truth')
  BY DEF Publication, HighestSequence
<1> HIDE DEF p
<1>5. /\ th'.next = h.next
      /\ \A i \in DOMAIN th'.history :
            i \in DOMAIN h.history /\ th'.history[i] = h.history[i]
  <2>1. CASE Replayable(h, gen')
    <3>1. th' = AddWatermark(RemoveWatermark(h, Allocated.sequence), HighestSequence(h))
      BY <1>2, <1>3, <2>1
    <3>2. /\ th'.next = RemoveWatermark(h, Allocated.sequence).next
          /\ th'.history = RemoveWatermark(h, Allocated.sequence).history
      BY <3>1, AddWatermarkFacts
    <3>3. RemoveWatermark(h, Allocated.sequence).next = h.next
      BY RemoveWatermarkFacts
    <3>4. \A i \in DOMAIN RemoveWatermark(h, Allocated.sequence).history :
             /\ i \in DOMAIN h.history
             /\ RemoveWatermark(h, Allocated.sequence).history[i] = h.history[i]
      BY RemoveWatermarkValues
    <3> QED  BY <3>2, <3>3, <3>4
  <2>2. CASE ~Replayable(h, gen')
    <3>1. th' = AddWatermark(h, HighestSequence(h))
      BY <1>2, <1>3, <2>2
    <3> QED  BY <3>1, AddWatermarkFacts
  <2> QED  BY <2>1, <2>2
<1> QED  BY <1>1, <1>2, <1>4, <1>5

\* The snapshot a tick publishes has a name no consumer's has.
LEMMA NewName ==
  ASSUME IInv, NEW t, OnTick(t), NEW h, h = AddTickTo(HistoryFor(t), t),
         t.kind # "snapshot" => gen > 0
  PROVE  \A u \in Outstanding : ~(u.generation = gen' /\ u.sequence = h.next - 1)
<1>0. /\ gen \in Nat /\ th.next \in Nat
      /\ \A u \in Outstanding : u.generation \in 1..gen
      /\ \A u \in Current : u.sequence \in Nat /\ u.sequence < th.next
  BY DEF IInv, NumbersOK, Current
<1>1. gen' = GenerationFor(t)
  BY TickResult
<1>2. CASE t.kind = "snapshot"
  <2>1. gen' = gen + 1
    BY <1>1, <1>2 DEF GenerationFor
  <2> QED  BY <1>0, <2>1
<1>3. CASE t.kind # "snapshot"
  <2>1. gen' = gen /\ h = AddTickTo(th, t)
    BY <1>1, <1>3 DEF GenerationFor, HistoryFor
  <2>2. h.next = th.next + 1
    BY <2>1, AddTickFacts
  <2>3. \A u \in Current : u.sequence # h.next - 1
    BY <1>0, <2>2
  <2> QED  BY <2>1, <2>3 DEF Current
<1> QED  BY <1>2, <1>3

\* So the consumers' snapshots still have names of their own.
LEMMA NamedAfter ==
  ASSUME IInv, Named, NEW t, OnTick(t), t.kind # "snapshot" => gen > 0
  PROVE  Named'
<1> DEFINE h == AddTickTo(HistoryFor(t), t)
<1>1. PICK n : cur' = {n} /\ n.generation = gen' /\ n.sequence = h.next - 1
  BY TickResult
<1>2. \A u \in held \cup cur : ~(u.generation = n.generation /\ u.sequence = n.sequence)
  BY <1>1, NewName DEF Outstanding
<1>3. held' \subseteq held \cup cur
  BY TickMoves
<1> QED  BY <1>1, <1>2, <1>3 DEF Named

\* Only a snapshot of the generation is brought up to date by replay.
LEMMA ReplayedIsCurrent ==
  ASSUME IInv, NEW h, NEW g \in Nat, g > 0, Replayable(h, g)
  PROVE  Allocated \in Outstanding /\ Allocated.generation = g
<1>1. Allocated.generation = g /\ FreshSnap.generation = 0
  BY DEF Replayable, FreshSnap
<1>2. Allocated # FreshSnap
  BY <1>1
<1>3. Allocated \in FreeSnaps
  BY <1>2, TopTaken DEF IInv
<1> QED  BY <1>1, <1>3 DEF Outstanding

\* The venue's snapshot: the one published is a copy of the service's new book.
LEMMA FirstFaithful ==
  ASSUME FeedInv, NEW t, t.kind = "snapshot", OnTick(t)
  PROVE  FeedInv'
<1> DEFINE h == AddTickTo(HistoryFor(t), t)
<1>1. IInv' /\ Named'
  BY FirstTick, NamedAfter DEF FeedInv
<1>2. /\ gen \in Nat /\ \A s \in Outstanding : s.generation \in 1..gen
      /\ gen' = gen + 1 /\ h.next = 1
  <2>1. gen' = gen + 1
    BY TickResult DEF GenerationFor
  <2>2. h.next = 1
    BY AddTickFacts DEF HistoryFor, EmptyHistory
  <2> QED  BY <2>1, <2>2 DEF FeedInv, IInv, NumbersOK
<1>3. Usable(truth') /\ Shaped(truth') /\ th'.next = h.next
  BY TickResult, ApplyUsable, ApplyShaped DEF FeedInv, Kinds
<1>4. PICK n : /\ cur' = {n} /\ n.generation = gen' /\ n.sequence = h.next - 1
               /\ n.book = IF Replayable(h, gen')
                           THEN ReplayAfter(h, Allocated.sequence, Allocated.book)
                           ELSE Assign(Allocated.book, truth')
  BY TickResult
<1>5. ~Replayable(h, gen')
  BY <1>2, ReplayedIsCurrent DEF FeedInv
<1>6. Usable(n.book) /\ Same(n.book, truth')
  BY <1>3, <1>4, <1>5, AssignUsable DEF Same
<1>7. Current' = {n}
  <2>1. Outstanding' = Others \cup {n}
    BY <1>4, OutstandingAfter DEF FeedInv
  <2>2. Others \subseteq Outstanding
    BY TopTaken DEF FeedInv, IInv, Others, Outstanding, Left
  <2>3. \A s \in Others : s.generation # gen'
    BY <1>2, <2>2
  <2> QED  BY <1>4, <2>1, <2>3 DEF Current
<1>8. ReplayAfter(th', n.sequence, n.book) = n.book
  <2>1. n.sequence = 0 /\ th'.next - 1 = 0
    BY <1>2, <1>3, <1>4
  <2> QED  BY <2>1, ReplayNone
<1>9. Faithful'
  BY <1>6, <1>7, <1>8 DEF Faithful, UpToDate
<1> QED  BY <1>1, <1>3, <1>9 DEF FeedInv

\* A later tick: the service applies to its book what replay will apply to every
\* snapshot, and the recycled one has had it applied.
LEMMA LaterFaithful ==
  ASSUME FeedInv, gen > 0, NEW t, t.kind \in Kinds, t.kind # "snapshot", OnTick(t)
  PROVE  FeedInv'
<1> DEFINE h == AddTickTo(HistoryFor(t), t)
<1>1. IInv' /\ Named'
  BY LaterTick, NamedAfter DEF FeedInv
<1>2. IInv /\ Usable(truth) /\ Faithful /\ HistoryServes /\ HistoryServes'
  BY <1>1 DEF FeedInv, IInv
<1>3. PICK d \in Nat : d = th.next
  BY DEF FeedInv, IInv, NumbersOK
<1>4. /\ gen' = gen /\ gen \in Nat /\ h = AddTickTo(th, t)
      /\ \A s \in Current : s.sequence \in Nat /\ s.sequence < d
  <2>1. gen' = gen
    BY TickResult DEF GenerationFor
  <2>2. h = AddTickTo(th, t)
    BY DEF HistoryFor
  <2> QED  BY <1>3, <2>1, <2>2 DEF FeedInv, IInv, NumbersOK, Current
<1>5. /\ h.next = d + 1 /\ h.history[d] = t
      /\ \A i \in DOMAIN th.history : i # d => h.history[i] = th.history[i]
  BY <1>3, <1>4, AddTickFacts, AddTickValues
<1>6. /\ truth' = Apply(truth, t) /\ th'.next = h.next
      /\ \A i \in DOMAIN th'.history : th'.history[i] = h.history[i]
  BY TickResult
<1>7. Usable(truth') /\ Shaped(truth')
  BY <1>6, ApplyUsable, ApplyShaped DEF FeedInv
<1>8. PICK n : /\ cur' = {n} /\ n.generation = gen' /\ n.sequence = h.next - 1
               /\ n.book = IF Replayable(h, gen')
                           THEN ReplayAfter(h, Allocated.sequence, Allocated.book)
                           ELSE Assign(Allocated.book, truth')
  BY TickResult
<1> HIDE DEF h
\* Replay of the new tick, whatever is dropped from the history later.
<1>9. ASSUME NEW s \in Current
      PROVE  /\ Usable(ReplayAfter(h, s.sequence, s.book))
             /\ Same(ReplayAfter(h, s.sequence, s.book), truth')
  <2>1. PICK q \in Nat : q = s.sequence
    BY <1>4
  <2>2. PICK m \in Nat : d = m + 1 /\ q <= m
    <3>1. d - 1 \in Nat /\ d = (d - 1) + 1 /\ q <= d - 1
      BY <1>3, <1>4, <2>1
    <3> QED  BY <3>1
  <2>3. th.next - 1 = m /\ h.next - 1 = d
    BY <1>3, <1>5, <2>2
  <2>4. SameTicks(th.history, h.history, q, m)
    <3>1. \A i \in q + 1..m : i \in q..th.next - 1 /\ i # d
      BY <2>2, <2>3
    <3>2. \A i \in q + 1..m : i \in DOMAIN th.history
      BY <1>2, <2>1, <3>1 DEF HistoryServes
    <3> QED  BY <1>5, <3>1, <3>2 DEF SameTicks
  <2>5. ReplayAfter(h, q, s.book) = Apply(ReplayAfter(th, q, s.book), h.history[d])
    <3>1. OneMore(th, h, q, m, d)
      BY <2>2, <2>3, <2>4 DEF OneMore
    <3> QED  BY <3>1, ReplayOneMore
  <2>6. ReplayAfter(h, s.sequence, s.book) = Apply(UpToDate(s), t)
    BY <1>5, <2>1, <2>5 DEF UpToDate
  <2>7. Usable(UpToDate(s)) /\ Same(UpToDate(s), truth)
    BY <1>2 DEF Faithful
  <2> QED  BY <1>2, <1>6, <2>6, <2>7, ApplyUsable, SameApply
<1>10. Usable(n.book) /\ Same(n.book, truth')
  <2>1. CASE Replayable(h, gen')
    <3>1. Allocated \in Current
      BY <1>2, <1>4, <2>1, ReplayedIsCurrent DEF Current
    <3>2. n.book = ReplayAfter(h, Allocated.sequence, Allocated.book)
      BY <1>8, <2>1
    <3> QED  BY <1>9, <3>1, <3>2
  <2>2. CASE ~Replayable(h, gen')
    BY <1>7, <1>8, <2>2, AssignUsable DEF Same
  <2> QED  BY <2>1, <2>2
<1>11. ReplayAfter(th', n.sequence, n.book) = n.book
  <2>1. n.sequence \in Nat /\ th'.next - 1 = n.sequence
    BY <1>3, <1>5, <1>6, <1>8
  <2> QED  BY <2>1, ReplayNone
<1>12. ASSUME NEW s \in Current', s # n
       PROVE  Usable(UpToDate(s)') /\ Same(UpToDate(s)', truth')
  <2>1. s \in Current
    <3>1. Outstanding' = Others \cup {n}
      BY <1>2, <1>8, OutstandingAfter
    <3>2. Others \subseteq Outstanding
      BY <1>2, TopTaken DEF IInv, Others, Outstanding, Left
    <3> QED  BY <1>4, <1>12, <3>1, <3>2 DEF Current
  <2>2. PICK q \in Nat : q = s.sequence
    BY <1>4, <2>1
  <2>3. q <= d /\ h.next - 1 = d /\ th'.next - 1 = d
    BY <1>3, <1>4, <1>5, <1>6, <2>1, <2>2
  <2>4. SameTicks(h.history, th'.history, q, d)
    <3>1. \A i \in q + 1..d : i \in q..th'.next - 1
      BY <2>3
    <3>2. \A i \in q + 1..d : i \in DOMAIN th'.history
      BY <1>2, <2>2, <3>1 DEF HistoryServes
    <3> QED  BY <1>6, <3>2 DEF SameTicks
  <2>5. ReplayAfter(th', q, s.book) = ReplayAfter(h, q, s.book)
    BY <1>3, <2>3, <2>4, ReplaySame
  <2> QED  BY <1>9, <2>1, <2>2, <2>5 DEF UpToDate
<1>13. Faithful'
  BY <1>10, <1>11, <1>12 DEF Faithful, UpToDate
<1> QED  BY <1>1, <1>7, <1>13 DEF FeedInv

-----------------------------------------------------------------------------
(* The consumers' view implements SnapshotFeed.                            *)

\* A new orderbook_snapshot_service, empty, has nothing to replay.
LEMMA FeedStart ==
  ASSUME SnapshotFirst, Init
  PROVE  FeedInv
<1>1. IInv /\ held = {} /\ cur = {} /\ free = <<>> /\ truth = EmptyBook
  BY Start DEF Init
<1>2. Usable(truth) /\ Shaped(truth)
  <2>1. Usable(Load(NoOrders)) /\ Shaped(Load(NoOrders))
    BY LoadUsable DEF Shaped, Load
  <2> QED  BY <1>1, <2>1 DEF EmptyBook
<1>3. Current = {}
  BY <1>1 DEF Current, Outstanding, FreeSnaps
<1> QED  BY <1>1, <1>2, <1>3 DEF FeedInv, Named, Faithful

\* A consumer that lets go of a snapshot changes neither a book nor the history.
LEMMA ReleaseFaithful ==
  ASSUME FeedInv, Release
  PROVE  FeedInv'
<1>1. IInv'
  BY ReleaseKeeps DEF FeedInv
<1>2. PICK s \in held : held' = held \ {s} /\ free' = Append(free, s)
  BY DEF Release
<1>3. UNCHANGED <<th, gen, truth, cur>>
  BY DEF Release
<1>4. free \in Seq(FreeSnaps)
  BY DEF FeedInv, IInv
<1>5. \A i \in DOMAIN free' : free'[i] \in FreeSnaps \cup {s}
  <2>1. free' \in Seq(FreeSnaps \cup {s})
    BY <1>2, <1>4, Push
  <2> QED  BY <2>1
<1>6. FreeSnaps' \subseteq FreeSnaps \cup {s}
  BY <1>5 DEF FreeSnaps
<1>7. Current' \subseteq Current
  BY <1>2, <1>3, <1>6 DEF Current, Outstanding
<1>8. Named'
  BY <1>2, <1>3 DEF FeedInv, Named
<1>9. Faithful'
  BY <1>3, <1>7 DEF FeedInv, Faithful, UpToDate
<1> QED  BY <1>1, <1>3, <1>8, <1>9 DEF FeedInv

\* Nothing else touches a book, a snapshot or the history.
LEMMA OthersFaithful ==
  ASSUME FeedInv, UNCHANGED <<th, gen, truth, free, cur, held>>, gen = 0 => ~subscribed'
  PROVE  FeedInv'
<1>1. IInv'
  BY OthersKeep DEF FeedInv
<1>2. Current' = Current
  BY DEF Current, Outstanding, FreeSnaps
<1>3. Named' /\ Faithful'
  BY <1>2 DEF FeedInv, Named, Faithful, UpToDate
<1> QED  BY <1>1, <1>3 DEF FeedInv

\* A tick publishes a snapshot of a new name, and a copy of the service's book.
LEMMA Published ==
  ASSUME FeedInv, FeedInv', NEW t, OnTick(t), t.kind # "snapshot" => gen > 0, Running'
  PROVE  Feed!Publish
<1> DEFINE h == AddTickTo(HistoryFor(t), t)
<1>1. PICK n : cur' = {n} /\ n.generation = gen' /\ n.sequence = h.next - 1
  BY TickResult
<1> DEFINE v == [name |-> <<n.generation, n.sequence>>, book |-> Visible(n.book)]
<1>2. View(cur)' = {v}
  BY <1>1 DEF View
<1>3. Visible(n.book) = Visible(truth)'
  <2>1. n.sequence \in Nat /\ th'.next - 1 = n.sequence /\ n \in Current'
    BY <1>1 DEF FeedInv, IInv, CurIsLatest, NumbersOK, Current, Outstanding
  <2>2. Same(n.book, truth')
    <3>1. ReplayAfter(th', n.sequence, n.book) = n.book
      BY <2>1, ReplayNone
    <3> QED  BY <2>1, <3>1 DEF FeedInv, Faithful, UpToDate
  <2> QED  BY <1>1, <2>2 DEF Running, Same
<1>4. v \notin View(cur) \cup View(held)
  <2>1. \A u \in cur \cup held : ~(u.generation = n.generation /\ u.sequence = n.sequence)
    BY <1>1, NewName DEF FeedInv, Outstanding
  <2>2. \A u \in cur \cup held : <<u.generation, u.sequence>> # v.name
    BY <2>1
  <2> QED  BY <2>2 DEF View
<1>5. View(held)' \in {View(held), View(held) \cup View(cur)}
  <2>1. held' = held \/ held' = held \cup cur
    BY DEF OnTick
  <2> QED  BY <2>1 DEF View
<1>6. v.book = Visible(truth)'
  BY <1>3
<1> HIDE DEF v
<1> QED  BY <1>2, <1>4, <1>5, <1>6 DEF Feed!Publish

\* A consumer's snapshot goes, and no other of its name.
LEMMA LetGone ==
  ASSUME FeedInv, Release
  PROVE  Feed!LetGo
<1>1. PICK s \in held : held' = held \ {s}
  BY DEF Release
<1>2. UNCHANGED <<truth, cur>>
  BY DEF Release
<1> DEFINE v(u) == [name |-> <<u.generation, u.sequence>>, book |-> Visible(u.book)]
<1>3. ASSUME NEW u \in held, u # s
      PROVE  v(u) # v(s)
  <2>1. ~(u.generation = s.generation /\ u.sequence = s.sequence)
    BY <1>3 DEF FeedInv, Named
  <2>2. v(u).name # v(s).name
    BY <2>1
  <2> QED  BY <2>2
<1>4. View(held) = {v(u) : u \in held} /\ View(held)' = {v(u) : u \in held'}
  BY DEF View
<1> HIDE DEF v
<1>5. View(held)' = View(held) \ {v(s)} /\ v(s) \in View(held)
  BY <1>1, <1>3, <1>4
<1>6. UNCHANGED <<Visible(truth), View(cur)>>
  BY <1>2
<1> QED  BY <1>5, <1>6 DEF Feed!LetGo

\* When the venue's snapshot comes first: every snapshot published is a copy of
\* the service's book, however it was brought up to date, nobody's snapshot ever
\* changes, and the names that consumers see are never reused (FeedSpec).
THEOREM FeedImplemented ==
  ASSUME SnapshotFirst
  PROVE  Spec => FeedSpec
<1>1. Init => FeedInv /\ Feed!Init
  <2> SUFFICES ASSUME Init PROVE FeedInv /\ Feed!Init
    OBVIOUS
  <2>1. View({}) = {}
    BY DEF View
  <2> QED  BY <2>1, FeedStart DEF Init, Feed!Init
<1>2. FeedInv /\ [Next]_vars => FeedInv' /\ [Running' => Feed!Next]_(Feed!feed)
  <2> SUFFICES ASSUME FeedInv, [Next]_vars
               PROVE  FeedInv' /\ [Running' => Feed!Next]_(Feed!feed)
    OBVIOUS
  <2>0. gen \in Nat /\ (gen = 0 => ~subscribed)
    BY DEF FeedInv, IInv, NumbersOK, NothingBefore
  <2>1. CASE Tick
    <3>1. gen > 0
      BY <2>0, <2>1 DEF Tick
    <3>2. PICK t \in Ticks : OnTick(t)
      BY <2>1 DEF Tick
    <3>3. t.kind \in Kinds /\ t.kind # "snapshot"
      BY DEF Ticks, AddTick, RemoveTick, ExecuteTick, Kinds
    <3>4. FeedInv'
      BY <3>1, <3>2, <3>3, LaterFaithful
    <3> QED  BY <3>1, <3>2, <3>4, Published DEF Feed!Next
  <2>2. CASE Snapshot
    <3>1. SnapshotOf(live).kind = "snapshot" /\ OnTick(SnapshotOf(live))
      BY <2>2 DEF SnapshotOf, Snapshot
    <3>2. FeedInv'
      BY <3>1, FirstFaithful
    <3> QED  BY <3>1, <3>2, Published DEF Feed!Next
  <2>3. CASE Release
    BY <2>3, ReleaseFaithful, LetGone DEF Feed!Next
  <2>4. CASE Lose \/ Miss \/ Take \/ Drop \/ UNCHANGED vars
    <3>1. UNCHANGED <<th, gen, truth, free, cur, held>> /\ (gen = 0 => ~subscribed')
      BY <2>0, <2>4 DEF Lose, Miss, Take, Drop, vars, service
    <3>2. UNCHANGED Feed!feed
      BY <3>1 DEF Feed!feed
    <3> QED  BY <3>1, <3>2, OthersFaithful
  <2> QED  BY <2>1, <2>2, <2>3, <2>4 DEF Next
<1> QED  BY <1>1, <1>2, PTL DEF Spec, FeedSpec
=============================================================================
