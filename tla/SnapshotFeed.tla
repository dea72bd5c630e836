----------------------------- MODULE SnapshotFeed -----------------------------
(***************************************************************************)
(* What the consumers of an order book feed are promised: the current      *)
(* snapshot is a copy of the feed's own book, made when a tick changes it, *)
(* and a snapshot somebody keeps never changes until it is let go.         *)
(***************************************************************************)
VARIABLES
    truth,      \* the feed's own book
    current,    \* the snapshot last published, as a set of at most one
    kept        \* earlier snapshots still held by consumers

feed == <<truth, current, kept>>

Init == current = {} /\ kept = {}

\* A snapshot is a record [name, book]; a publication makes a new one.
Publish ==
    /\ \E s \in current' \ (current \cup kept) :
          current' = {s} /\ s.book = truth'
    /\ kept' \in {kept, kept \cup current}

LetGo ==
    /\ \E s \in kept : kept' = kept \ {s}
    /\ UNCHANGED <<truth, current>>

Next == Publish \/ LetGo

Spec == Init /\ [][Next]_feed
=============================================================================
