------------------------------- MODULE Listener -------------------------------
(***************************************************************************)
(* orderbook_listener_impl: how it follows a connection, subscribes on     *)
(* each one, and decides whether the book it publishes is good.  It uses   *)
(* the connector as Uplink describes it; Connector implements Uplink.      *)
(*                                                                         *)
(* The book is abstracted to the version of the venue's book it is a copy  *)
(* of, 0 for none; OrderBook says what becomes of the orders in it.  The   *)
(* slots of the connector's signals run on the connector's executor.  What *)
(* they post or dispatch to the listener's executor are the jobs; on one   *)
(* executor a dispatch runs inline, and a network event comes after the    *)
(* jobs posted before it.                                                  *)
(***************************************************************************)
EXTENDS Uplink, Naturals, SequencesExt

CONSTANTS
    Executors,      \* may the connector and the listener have 1 executor, or 2?
    MaxVer,         \* bound on the versions of the venue's book
    MaxRises,       \* bound on the connections
    MaxJobs         \* bound on the jobs queued by repeated notices of a loss

ASSUME ListenerAssumption ==
    /\ Executors \subseteq 1..2
    /\ MaxVer \in Nat \ {0} /\ MaxRises \in Nat /\ MaxJobs \in Nat

VARIABLES
    executors, \* 1 when the connector and the listener share one, or 2
    rejects,   \* does the venue ever reject a subscription?
    link,      \* the socket of the connection that is up: "open", "broken"
    rises,     \* connections so far
    ver,       \* version of the venue's book
    asks,      \* subscriptions the venue has yet to answer
    granted,   \* does the venue send ticks on this connection?
    wire,      \* messages from the venue not yet received
    setup,     \* slots that run() has connected, 7 once it is done
    first,     \* connstate, read when the first slot was connected
    jobs,      \* what waits for the listener's executor
    conn,      \* connstate_.up()
    connection_condition, book_condition,
    book       \* version of the book published, 0 for none or a wrong one

OneExecutor == executors = 1

given == <<executors, rejects>>
line == <<link, rises, asks, granted, wire>>
listener == <<setup, first, conn, connection_condition, book_condition, book>>
vars == <<given, up, queue, line, ver, jobs, listener>>

State == <<"good", "stale", "not_ready", "error">>    \* feed_state, in order
Severity(s) == CHOOSE i \in DOMAIN State : State[i] = s

\* feed_condition::merge keeps the worse state.
Worse(s, t) == IF Severity(s) < Severity(t) THEN t ELSE s

\* The condition of the snapshot that update() publishes.
Shown == Worse(connection_condition, book_condition)

Subscribe == "subscribe"

Init ==
    /\ UplinkInit
    /\ executors \in Executors /\ rejects \in BOOLEAN
    /\ link = "open" /\ rises = 0 /\ asks = 0 /\ granted = FALSE /\ wire = <<>>
    /\ ver = 1
    /\ setup = 0 /\ first = FALSE /\ jobs = <<>> /\ conn = FALSE
    /\ connection_condition = "not_ready" /\ book_condition = "not_ready"
    /\ book = 0

-----------------------------------------------------------------------------
(* The listener's handlers *)

\* Mutant of OnState: the loss leaves the book's condition alone.
OnStateKeepsBook(u) ==
    /\ conn' = u
    /\ connection_condition' = IF u THEN "good" ELSE "stale"
    /\ UNCHANGED <<book_condition, book>>
    /\ IF u THEN Enqueue(Subscribe) ELSE UNCHANGED uplink

\* Mutant of OnState: a listener that is up does not subscribe again.
OnStateOnce(u) ==
    /\ conn' = u
    /\ connection_condition' = IF u THEN "good" ELSE "stale"
    /\ book_condition' = IF u THEN book_condition ELSE Worse(book_condition, "stale")
    /\ UNCHANGED book
    /\ IF u /\ book = 0 THEN Enqueue(Subscribe) ELSE UNCHANGED uplink

\* Mutant of OnState: a loss is taken for nothing to do.
OnStateIgnoresLoss(u) ==
    /\ conn' = u
    /\ connection_condition' = IF u THEN "good" ELSE connection_condition
    /\ UNCHANGED <<book_condition, book>>
    /\ IF u THEN Enqueue(Subscribe) ELSE UNCHANGED uplink

\* on_connection_state
OnState(u) ==
    /\ conn' = u
    /\ connection_condition' = IF u THEN "good" ELSE "stale"
    /\ book_condition' = IF u THEN book_condition ELSE Worse(book_condition, "stale")
    /\ UNCHANGED book
    /\ IF u THEN Enqueue(Subscribe) ELSE UNCHANGED uplink

\* on_command_response
OnResponse(ok) ==
    /\ book_condition' = IF ok THEN "not_ready" ELSE "error"
    /\ UNCHANGED <<uplink, conn, connection_condition, book>>

\* A snapshot is the venue's book; a tick brings the version before it up to
\* date and makes no book of any other.
After(b, m) ==
    CASE m.kind = "snapshot" -> m.ver
      [] m.kind = "tick" -> IF b > 0 /\ m.ver = b + 1 THEN m.ver ELSE 0
      [] OTHER -> b

\* on_tick
OnTick(m) ==
    /\ book' = After(book, m)
    /\ book_condition' = "good"
    /\ UNCHANGED <<uplink, conn, connection_condition>>

Handle(m) ==
    CASE m.kind = "state" -> OnState(m.up)
      [] m.kind = "response" -> OnResponse(m.ok)
      [] OTHER -> OnTick(m)

\* The listener's executor runs the next job.
RunJob ==
    /\ jobs /= <<>>
    /\ Handle(Head(jobs))
    /\ jobs' = Tail(jobs)
    /\ UNCHANGED <<given, line, ver, setup, first>>

-----------------------------------------------------------------------------
(* run(): each slot is connected on the connector's executor *)

\* On one executor no await in run() suspends it.
SetUpAtOnce ==
    /\ OneExecutor /\ setup = 0
    /\ setup' = 7 /\ first' = up
    /\ OnState(up)
    /\ UNCHANGED <<given, line, ver, jobs>>

\* The connection state is read when its slot is connected ...
WatchState ==
    /\ ~OneExecutor /\ setup = 0
    /\ setup' = 1 /\ first' = up
    /\ UNCHANGED <<given, up, queue, line, ver, jobs, conn, connection_condition,
                   book_condition, book>>

\* ... then those of command_response, snapshot, order_added, _deleted and
\* _executed are, in this order ...
WatchNext ==
    /\ setup \in 1..5
    /\ setup' = setup + 1
    /\ UNCHANGED <<given, up, queue, line, ver, jobs, first, conn,
                   connection_condition, book_condition, book>>

\* ... and the state read at first is handled last.
SetUpDone ==
    /\ setup = 6 /\ setup' = 7
    /\ OnState(first)
    /\ UNCHANGED <<given, line, ver, jobs, first>>

SetUp == SetUpAtOnce \/ WatchState \/ WatchNext \/ SetUpDone

-----------------------------------------------------------------------------
(* The connector *)

\* Events of the network come after the jobs already posted.
InOrder == OneExecutor => jobs = <<>>

\* The slot of the connection state: it posts.
Posted(u) == IF setup > 0 THEN Append(jobs, [kind |-> "state", up |-> u]) ELSE jobs

Connect ==
    /\ InOrder /\ rises < MaxRises
    /\ Rise
    /\ rises' = rises + 1
    /\ link' = "open" /\ asks' = 0 /\ granted' = FALSE /\ wire' = <<>>
    /\ jobs' = Posted(TRUE)
    /\ UNCHANGED <<given, ver, listener>>

Disconnect ==
    /\ InOrder
    /\ Fall
    /\ asks' = 0 /\ granted' = FALSE /\ wire' = <<>>
    /\ jobs' = Posted(FALSE)
    /\ UNCHANGED <<given, link, rises, ver, listener>>

\* run_connection tells it again, and so does every attempt that fails.
StillDown ==
    /\ InOrder /\ ~up /\ setup > 0 /\ Len(jobs) < MaxJobs
    /\ jobs' = Posted(FALSE)
    /\ UNCHANGED <<given, up, queue, line, ver, listener>>

\* A request written to a broken link is lost.
Write ==
    /\ InOrder
    /\ Written
    /\ asks' = IF up /\ link = "open" THEN asks + 1 ELSE asks
    /\ UNCHANGED <<given, link, rises, granted, wire, ver, jobs, listener>>

\* The number of the slot that handles a message.
Slot(m) ==
    CASE m.kind = "response" -> 2 [] m.kind = "snapshot" -> 3 [] OTHER -> m.slot

\* A message without a slot is logged and forgotten.
Receive ==
    /\ InOrder /\ up /\ wire /= <<>>
    /\ wire' = Tail(wire)
    /\ CASE setup < Slot(Head(wire)) ->
                UNCHANGED <<uplink, jobs, conn, connection_condition,
                            book_condition, book>>
         [] setup >= Slot(Head(wire)) /\ OneExecutor ->
                Handle(Head(wire)) /\ UNCHANGED jobs
         [] OTHER ->
                /\ jobs' = Append(jobs, Head(wire))
                /\ UNCHANGED <<uplink, conn, connection_condition,
                               book_condition, book>>
    /\ UNCHANGED <<given, link, rises, asks, granted, ver, setup, first>>

-----------------------------------------------------------------------------
(* The venue and the network *)

Break ==
    /\ up /\ link = "open" /\ link' = "broken"
    /\ UNCHANGED <<given, up, queue, rises, asks, granted, wire, ver, jobs, listener>>

Grant ==
    /\ up /\ link = "open" /\ asks > 0
    /\ asks' = asks - 1
    /\ granted' = TRUE
    /\ wire' = wire \o <<[kind |-> "response", ok |-> TRUE],
                         [kind |-> "snapshot", ver |-> ver]>>
    /\ UNCHANGED <<given, up, queue, link, rises, ver, jobs, listener>>

Reject ==
    /\ rejects
    /\ up /\ link = "open" /\ asks > 0
    /\ asks' = asks - 1
    /\ wire' = Append(wire, [kind |-> "response", ok |-> FALSE])
    /\ UNCHANGED <<given, up, queue, link, rises, granted, ver, jobs, listener>>

\* An order is added, deleted or executed.
Change ==
    /\ ver < MaxVer
    /\ ver' = ver + 1
    /\ IF up /\ link = "open" /\ granted
       THEN \E slot \in 4..6 :
               wire' = Append(wire, [kind |-> "tick", ver |-> ver', slot |-> slot])
       ELSE UNCHANGED wire
    /\ UNCHANGED <<given, up, queue, link, rises, asks, granted, jobs, listener>>

-----------------------------------------------------------------------------

Next ==
    \/ SetUp \/ RunJob
    \/ Connect \/ Disconnect \/ StillDown \/ Write \/ Receive
    \/ Break \/ Grant \/ Reject \/ Change

Spec == Init /\ [][Next]_vars

\* The executors run what is ready, the connector writes while it is up and
\* notices a broken link, and the venue answers.
FairSpec ==
    /\ Spec
    /\ WF_vars(SetUp) /\ WF_vars(RunJob)
    /\ WF_vars(Disconnect /\ link = "broken")
    /\ WF_vars(Write /\ up) /\ WF_vars(Receive)
    /\ WF_vars(Grant)

-----------------------------------------------------------------------------
(* Properties *)

TypeOK ==
    /\ executors \in Executors /\ rejects \in BOOLEAN
    /\ up \in BOOLEAN /\ queue \in Seq({Subscribe})
    /\ link \in {"open", "broken"} /\ rises \in 0..MaxRises
    /\ ver \in 1..MaxVer /\ asks \in Nat /\ granted \in BOOLEAN
    /\ setup \in 0..7 /\ first \in BOOLEAN /\ conn \in BOOLEAN
    /\ {connection_condition, book_condition} \subseteq Range(State)
    /\ book \in 0..MaxVer

\* feed_snapshot.hpp, "The current condition of the entity producing the
\* snapshot": once set up and with no event waiting, the listener knows whether
\* the connection is up and shows so.
ConditionIsCurrent ==
    setup = 7 /\ jobs = <<>> =>
        /\ conn = up
        /\ connection_condition = (IF up THEN "good" ELSE "stale")

IsVersion(m) == m.kind \in {"snapshot", "tick"}

\* A book of version b, given the first n messages of w, has version v.
Reaches(b, w, n, v) ==
    \/ v = b /\ \A j \in 1..n : ~IsVersion(w[j])
    \/ \E i \in 1..n :
         /\ IsVersion(w[i]) /\ w[i].ver = v
         /\ \A j \in i + 1..n : ~IsVersion(w[j])

\* Each tick in w finds the version that it brings up to date.
InSequence(b, w) ==
    \A i \in 1..Len(w) :
        w[i].kind = "tick" => w[i].ver > 1 /\ Reaches(b, w, i - 1, w[i].ver - 1)

\* orderbook_listener_impl.hpp:31, "Upon reconnect, the listener will rebuild
\* the entire order book via a snapshot request": a book shown as good is a copy
\* of the venue's, up to the messages still on their way, which bring it there.
GoodIsVenueBook ==
    Shown = "good" /\ jobs = <<>> =>
        /\ book > 0
        /\ up => InSequence(book, wire)
        /\ up /\ link = "open" => Reaches(book, wire, Len(wire), ver)

\* Both hold of a listener on the connector's executor, as main creates it.
ConditionIsCurrentOnOne == OneExecutor => ConditionIsCurrent
GoodIsVenueBookOnOne == OneExecutor => GoodIsVenueBook

\* A listener whose link broke stops showing a good book.
LossIsShown == (up /\ link = "broken") ~> Shown /= "good"

\* A listener whose connection stays gets to show a good book, and keeps to it,
\* however the connection and the book changed before: on one executor, and
\* when the venue rejects nothing.
Recovers ==
    OneExecutor /\ ~rejects /\ <>[](up /\ link = "open")
        => <>[](Shown = "good" /\ book = ver)
=============================================================================
