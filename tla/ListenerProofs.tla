---------------------------- MODULE ListenerProofs ----------------------------
(***************************************************************************)
(* Listener's types, and that on one executor the listener knows whether   *)
(* the connection is up and a book it shows as good is the venue's, for    *)
(* any number of connections, versions and jobs.                           *)
(***************************************************************************)
EXTENDS Listener, TLAPS

\* What the venue sends, and what waits for the listener's executor.
FromVenue ==
    [kind : {"response"}, ok : BOOLEAN]
        \cup [kind : {"snapshot"}, ver : 1..MaxVer]
        \cup [kind : {"tick"}, ver : 1..MaxVer, slot : 4..6]
Job == FromVenue \cup [kind : {"state"}, up : BOOLEAN]

Condition == {"good", "stale", "not_ready", "error"}

LineOK ==
    /\ executors \in Executors /\ rejects \in BOOLEAN
    /\ up \in BOOLEAN /\ queue \in Seq({Subscribe})
    /\ link \in {"open", "broken"} /\ rises \in 0..MaxRises
    /\ ver \in 1..MaxVer /\ asks \in Nat /\ granted \in BOOLEAN
    /\ wire \in Seq(FromVenue) /\ jobs \in Seq(Job)

BookOK ==
    /\ conn \in BOOLEAN /\ book \in 0..MaxVer
    /\ connection_condition \in Condition /\ book_condition \in Condition

SetUpOK == setup \in 0..7 /\ first \in BOOLEAN

\* On one executor run() is set up at once, and at most one notice, the latest,
\* waits for a listener that otherwise knows the state of the connection.
Informed ==
    /\ setup \in {0, 7}
    /\ setup = 0 => jobs = <<>>
    /\ setup = 7 => \/ jobs = <<[kind |-> "state", up |-> up]>>
                    \/ /\ jobs = <<>>
                       /\ conn = up
                       /\ connection_condition = (IF up THEN "good" ELSE "stale")

Inv == LineOK /\ SetUpOK /\ BookOK /\ (OneExecutor => Informed)

\* Nothing waiting is a sequence of whatever may wait.
LEMMA EmptyIsSequence == \A S : <<>> \in Seq(S)
  OBVIOUS

\* feed_condition::merge gives one of the two states it is given.
LEMMA WorseIsOne == \A s, t : Worse(s, t) \in {s, t}
  BY DEF Worse

\* on_connection_state sets the condition of the connection, keeps the types and
\* queues a subscription when the connection is up.
LEMMA StateHandled ==
  ASSUME BookOK, up \in BOOLEAN, queue \in Seq({Subscribe}), NEW u \in BOOLEAN, OnState(u)
  PROVE  /\ BookOK' /\ up' = up /\ queue' \in Seq({Subscribe})
         /\ conn' = u /\ connection_condition' = (IF u THEN "good" ELSE "stale")
<1>1. book_condition' \in Condition
  BY WorseIsOne DEF OnState, BookOK, Condition
<1>2. up' = up /\ queue' \in Seq({Subscribe})
  BY DEF OnState, Enqueue, uplink
<1>3. QED
  BY <1>1, <1>2 DEF OnState, BookOK, Condition

\* on_command_response and on_tick say nothing of the connection and keep the
\* types; a book published is of a version that the venue has had.
LEMMA MessageHandled ==
  ASSUME LineOK, BookOK, NEW m \in FromVenue, Handle(m)
  PROVE  /\ BookOK' /\ up' = up /\ queue' = queue
         /\ conn' = conn /\ connection_condition' = connection_condition
<1>1. CASE m.kind = "response"
  BY <1>1 DEF Handle, OnResponse, BookOK, Condition, uplink
<1>2. CASE m.kind \in {"snapshot", "tick"}
  <2>1. After(book, m) \in 0..MaxVer
    BY <1>2, ListenerAssumption DEF After, FromVenue, BookOK
  <2>2. OnTick(m)
    BY <1>2 DEF Handle
  <2>3. QED
    BY <2>1, <2>2 DEF OnTick, BookOK, Condition, uplink
<1>3. m.kind \in {"response", "snapshot", "tick"}
  BY DEF FromVenue
<1>4. QED
  BY <1>1, <1>2, <1>3

\* Nothing is known, and nothing waits, before run() has begun.
LEMMA Initially == Init => Inv
<1> SUFFICES ASSUME Init PROVE Inv
  OBVIOUS
<1>1. queue \in Seq({Subscribe}) /\ wire \in Seq(FromVenue) /\ jobs \in Seq(Job)
  BY EmptyIsSequence DEF Init, UplinkInit
<1>2. LineOK
  <2>1. up \in BOOLEAN /\ granted \in BOOLEAN /\ rejects \in BOOLEAN
    BY DEF Init, UplinkInit
  <2>2. executors \in Executors /\ link \in {"open", "broken"}
    BY DEF Init
  <2>3. rises = 0 /\ asks = 0 /\ ver = 1
    BY DEF Init
  <2>4. rises \in 0..MaxRises /\ asks \in Nat /\ ver \in 1..MaxVer
    BY <2>3, ListenerAssumption
  <2>5. QED
    BY <1>1, <2>1, <2>2, <2>4 DEF LineOK
<1>3. SetUpOK /\ Informed
  <2>1. first \in BOOLEAN
    BY DEF Init
  <2>2. setup = 0 /\ jobs = <<>>
    BY DEF Init
  <2>3. QED
    BY <2>1, <2>2 DEF SetUpOK, Informed
<1>4. BookOK
  <2>1. conn \in BOOLEAN
    BY DEF Init
  <2>2. book = 0 /\ connection_condition = "not_ready" /\ book_condition = "not_ready"
    BY DEF Init
  <2>3. QED
    BY <2>1, <2>2, ListenerAssumption DEF BookOK, Condition
<1>5. QED
  BY <1>2, <1>3, <1>4 DEF Inv

\* The executor runs a posted notice of the connection, or a message.
LEMMA RunJobStep == Inv /\ RunJob => Inv'
<1> SUFFICES ASSUME Inv, RunJob PROVE Inv'
  OBVIOUS
<1>1. jobs /= <<>> /\ Head(jobs) \in Job /\ Tail(jobs) \in Seq(Job) /\ jobs' = Tail(jobs)
  BY DEF RunJob, Inv, LineOK
<1>2. Handle(Head(jobs)) /\ UNCHANGED <<given, line, ver, setup, first>>
  BY DEF RunJob
<1>3. CASE Head(jobs) \in FromVenue
  <2>1. /\ BookOK' /\ up' = up /\ queue' = queue
    BY <1>2, <1>3, MessageHandled DEF Inv
  <2>2. ~OneExecutor
    <3>1. SUFFICES ASSUME OneExecutor PROVE FALSE
      OBVIOUS
    <3>2. Head(jobs).kind = "state"
      BY <1>1, <3>1 DEF Inv, Informed, SetUpOK
    <3>3. QED
      BY <1>3, <3>2 DEF FromVenue
  <2>3. QED
    BY <1>1, <1>2, <2>1, <2>2 DEF Inv, LineOK, SetUpOK, given, line, OneExecutor
<1>4. CASE Head(jobs) \in [kind : {"state"}, up : BOOLEAN]
  <2>1. OnState(Head(jobs).up) /\ Head(jobs).up \in BOOLEAN
    BY <1>2, <1>4 DEF Handle
  <2>2. /\ BookOK' /\ up' = up /\ queue' \in Seq({Subscribe}) /\ conn' = Head(jobs).up
        /\ connection_condition' = (IF Head(jobs).up THEN "good" ELSE "stale")
    BY <2>1, StateHandled DEF Inv, LineOK
  <2>3. OneExecutor => jobs = <<[kind |-> "state", up |-> up]>> /\ setup = 7
    BY <1>1 DEF Inv, Informed
  <2>4. OneExecutor => jobs' = <<>> /\ Head(jobs).up = up
    BY <1>1, <2>3
  <2>5. OneExecutor' => Informed'
    BY <1>2, <2>2, <2>3, <2>4 DEF Informed, given, OneExecutor
  <2>6. QED
    BY <1>1, <1>2, <2>2, <2>5 DEF Inv, LineOK, SetUpOK, given, line
<1>5. QED
  BY <1>1, <1>3, <1>4 DEF Job

\* run() sets the slots up; on one executor, all of them at once.
LEMMA SetUpStep == Inv /\ SetUp => Inv'
<1> SUFFICES ASSUME Inv, SetUp PROVE Inv'
  OBVIOUS
<1>1. CASE SetUpAtOnce
  <2>1. OnState(up) /\ setup' = 7 /\ first' = up /\ jobs = <<>> /\ UNCHANGED <<given, line, ver, jobs>>
    BY <1>1 DEF SetUpAtOnce, Inv, Informed
  <2>2. /\ BookOK' /\ up' = up /\ queue' \in Seq({Subscribe}) /\ conn' = up
        /\ connection_condition' = (IF up THEN "good" ELSE "stale")
    BY <2>1, StateHandled DEF Inv, LineOK
  <2>3. Informed'
    BY <2>1, <2>2 DEF Informed
  <2>4. QED
    BY <2>1, <2>2, <2>3 DEF Inv, LineOK, SetUpOK, given, line
<1>2. CASE WatchState
  BY <1>2 DEF WatchState, Inv, LineOK, SetUpOK, BookOK, OneExecutor, given, line
<1>3. CASE WatchNext
  <2>1. ~OneExecutor
    BY <1>3 DEF WatchNext, Inv, Informed
  <2>2. QED
    BY <1>3, <2>1 DEF WatchNext, Inv, LineOK, SetUpOK, BookOK, OneExecutor, given, line
<1>4. CASE SetUpDone
  <2>1. ~OneExecutor
    BY <1>4 DEF SetUpDone, Inv, Informed
  <2>2. OnState(first) /\ setup' = 7 /\ UNCHANGED <<given, line, ver, jobs, first>>
    BY <1>4 DEF SetUpDone
  <2>3. BookOK' /\ up' = up /\ queue' \in Seq({Subscribe})
    BY <2>2, StateHandled DEF Inv, LineOK, SetUpOK
  <2>4. QED
    BY <2>1, <2>2, <2>3 DEF Inv, LineOK, SetUpOK, OneExecutor, given, line
<1>5. QED
  BY <1>1, <1>2, <1>3, <1>4 DEF SetUp

\* A notice of the connection is posted to a listener that watches it.
LEMMA NoticePosted ==
  ASSUME Inv, InOrder, NEW u \in BOOLEAN
  PROVE  /\ Posted(u) \in Seq(Job)
         /\ OneExecutor => Posted(u) = IF setup > 0 THEN <<[kind |-> "state", up |-> u]>>
                                                    ELSE <<>>
<1> DEFINE notice == [kind |-> "state", up |-> u]
<1>1. notice \in Job
  BY DEF Job
<1>2. jobs \in Seq(Job) /\ (OneExecutor => jobs = <<>>)
  BY DEF Inv, LineOK, InOrder
<1>3. Posted(u) = IF setup > 0 THEN Append(jobs, notice) ELSE jobs
  BY DEF Posted
<1> HIDE DEF notice
<1>4. Posted(u) \in Seq(Job)
  BY <1>1, <1>2, <1>3
<1>5. OneExecutor => Posted(u) = IF setup > 0 THEN <<notice>> ELSE <<>>
  BY <1>2, <1>3
<1>6. QED
  BY <1>4, <1>5 DEF notice

\* The connection changes, or its loss is told once more.
LEMMA NoticeStep == Inv /\ (Connect \/ Disconnect \/ StillDown) => Inv'
<1> SUFFICES ASSUME Inv, Connect \/ Disconnect \/ StillDown PROVE Inv'
  OBVIOUS
<1>1. \E u \in BOOLEAN :
        /\ InOrder /\ jobs' = Posted(u) /\ up' = u
        /\ UNCHANGED <<given, ver, listener>>
  BY DEF Connect, Disconnect, StillDown, Rise, Fall, Inv, LineOK
<1>2. PICK u \in BOOLEAN :
        /\ InOrder /\ jobs' = Posted(u) /\ up' = u
        /\ UNCHANGED <<given, ver, listener>>
  BY <1>1
<1>3. /\ jobs' \in Seq(Job)
      /\ OneExecutor => jobs' = IF setup > 0 THEN <<[kind |-> "state", up |-> u]>> ELSE <<>>
  BY <1>2, NoticePosted
<1>4. /\ queue' \in Seq({Subscribe}) /\ wire' \in Seq(FromVenue) /\ asks' \in Nat
      /\ link' \in {"open", "broken"} /\ rises' \in 0..MaxRises /\ granted' \in BOOLEAN
  <2>1. CASE Connect
    <3>1. rises' = rises + 1 /\ rises < MaxRises /\ rises \in 0..MaxRises
      BY <2>1 DEF Connect, Inv, LineOK
    <3>2. rises' \in 0..MaxRises
      BY <3>1, ListenerAssumption
    <3>3. granted' \in BOOLEAN
      BY <2>1 DEF Connect
    <3>4. wire' = <<>> /\ asks' = 0 /\ link' = "open" /\ queue' = queue
      BY <2>1 DEF Connect, Rise
    <3>5. QED
      BY <3>2, <3>3, <3>4, EmptyIsSequence DEF Inv, LineOK
  <2>2. CASE Disconnect
    BY <2>2, EmptyIsSequence DEF Disconnect, Fall, Inv, LineOK
  <2>3. CASE StillDown
    BY <2>3 DEF StillDown, Inv, LineOK, line
  <2>4. QED
    BY <2>1, <2>2, <2>3
<1>5. LineOK' /\ SetUpOK' /\ BookOK'
  BY <1>2, <1>3, <1>4 DEF Inv, LineOK, SetUpOK, BookOK, given, listener
<1>6. (OneExecutor => Informed)'
  <2>1. SUFFICES ASSUME OneExecutor PROVE Informed'
    BY <1>2 DEF OneExecutor, given
  <2>2. setup' = setup /\ setup \in {0, 7}
    BY <1>2, <2>1 DEF Inv, Informed, listener
  <2>3. QED
    BY <1>2, <1>3, <2>1, <2>2 DEF Informed
<1>7. QED
  BY <1>5, <1>6 DEF Inv

\* A request leaves the queue.
LEMMA WriteStep == Inv /\ Write => Inv'
<1> SUFFICES ASSUME Inv, Write PROVE Inv'
  OBVIOUS
<1>1. /\ queue /= <<>> /\ queue' = Tail(queue) /\ up' = up
      /\ UNCHANGED <<given, link, rises, granted, wire, ver, jobs, listener>>
  BY DEF Write, Written
<1>2. queue' \in Seq({Subscribe})
  BY <1>1 DEF Inv, LineOK
<1>3. asks' = asks + 1 \/ asks' = asks
  BY DEF Write
<1>4. LineOK'
  BY <1>1, <1>2, <1>3 DEF Inv, LineOK, given
<1>5. QED
  BY <1>1, <1>4 DEF Inv, SetUpOK, BookOK, Informed, OneExecutor, given, listener

\* A message is handled, posted or forgotten.
LEMMA ReceiveStep == Inv /\ Receive => Inv'
<1> SUFFICES ASSUME Inv, Receive PROVE Inv'
  OBVIOUS
<1>1. /\ wire /= <<>> /\ wire' = Tail(wire) /\ (OneExecutor => jobs = <<>>)
      /\ UNCHANGED <<given, link, rises, asks, granted, ver, setup, first>>
  BY DEF Receive, InOrder
<1>2. Head(wire) \in FromVenue /\ wire' \in Seq(FromVenue) /\ Head(wire) \in Job
  BY <1>1 DEF Inv, LineOK, Job
<1>3. CASE /\ BookOK' /\ up' = up /\ queue' = queue /\ jobs' = jobs
           /\ conn' = conn /\ connection_condition' = connection_condition
  BY <1>1, <1>2, <1>3 DEF Inv, LineOK, SetUpOK, Informed, OneExecutor, given
<1>4. CASE OneExecutor /\ Handle(Head(wire)) /\ jobs' = jobs
  <2>1. /\ BookOK' /\ up' = up /\ queue' = queue
        /\ conn' = conn /\ connection_condition' = connection_condition
    BY <1>2, <1>4, MessageHandled DEF Inv
  <2>2. QED
    BY <1>3, <1>4, <2>1
<1>5. CASE UNCHANGED <<uplink, jobs, conn, connection_condition, book_condition, book>>
  <2>1. BookOK'
    BY <1>5 DEF Inv, BookOK
  <2>2. QED
    BY <1>3, <1>5, <2>1 DEF uplink
<1>6. CASE /\ ~OneExecutor /\ jobs' = Append(jobs, Head(wire))
           /\ UNCHANGED <<uplink, conn, connection_condition, book_condition, book>>
  <2>1. jobs' \in Seq(Job)
    BY <1>2, <1>6 DEF Inv, LineOK
  <2>2. LineOK'
    BY <1>1, <1>2, <1>6, <2>1 DEF Inv, LineOK, uplink, given
  <2>3. QED
    BY <1>1, <1>6, <2>2 DEF Inv, SetUpOK, BookOK, OneExecutor, given
<1>7. \/ OneExecutor /\ Handle(Head(wire)) /\ jobs' = jobs
      \/ UNCHANGED <<uplink, jobs, conn, connection_condition, book_condition, book>>
      \/ /\ ~OneExecutor /\ jobs' = Append(jobs, Head(wire))
         /\ UNCHANGED <<uplink, conn, connection_condition, book_condition, book>>
  <2>1. CASE setup < Slot(Head(wire))
    BY <2>1 DEF Receive
  <2>2. CASE ~(setup < Slot(Head(wire))) /\ setup >= Slot(Head(wire)) /\ OneExecutor
    BY <2>2 DEF Receive
  <2>3. CASE ~(setup < Slot(Head(wire))) /\ setup >= Slot(Head(wire)) /\ ~OneExecutor
    BY <2>3 DEF Receive
  <2>4. Slot(Head(wire)) \in Int /\ setup \in Int
    BY <1>2 DEF Slot, FromVenue, Inv, SetUpOK
  <2>5. QED
    BY <2>1, <2>2, <2>3, <2>4
<1>8. QED
  BY <1>4, <1>5, <1>6, <1>7

\* The link breaks, the venue answers, or its book changes.
LEMMA VenueStep == Inv /\ (Break \/ Grant \/ Reject \/ Change) => Inv'
<1> SUFFICES ASSUME Inv, Break \/ Grant \/ Reject \/ Change PROVE Inv'
  OBVIOUS
<1>1. UNCHANGED <<given, up, queue, rises, jobs, listener>>
  BY DEF Break, Grant, Reject, Change
<1>2. /\ ver' \in 1..MaxVer /\ asks' \in Nat /\ granted' \in BOOLEAN
      /\ link' \in {"open", "broken"} /\ wire' \in Seq(FromVenue)
  <2>1. CASE Break
    BY <2>1 DEF Break, Inv, LineOK
  <2>2. CASE Grant
    <3> DEFINE ok == [kind |-> "response", ok |-> TRUE]
               copy == [kind |-> "snapshot", ver |-> ver]
    <3>1. wire' = wire \o <<ok, copy>> /\ UNCHANGED <<ver, link>>
      BY <2>2 DEF Grant
    <3>2. ok \in FromVenue /\ copy \in FromVenue
      BY DEF FromVenue, Inv, LineOK
    <3>3. asks' = asks - 1 /\ asks > 0
      BY <2>2 DEF Grant
    <3>4. granted' \in BOOLEAN
      BY <2>2 DEF Grant
    <3> HIDE DEF ok, copy
    <3>5. wire' \in Seq(FromVenue)
      BY <3>1, <3>2 DEF Inv, LineOK
    <3>6. QED
      BY <3>1, <3>3, <3>4, <3>5 DEF Inv, LineOK
  <2>3. CASE Reject
    <3> DEFINE no == [kind |-> "response", ok |-> FALSE]
    <3>1. wire' = Append(wire, no) /\ UNCHANGED <<ver, link, granted>>
      BY <2>3 DEF Reject
    <3>2. no \in FromVenue
      BY DEF FromVenue
    <3>3. asks' = asks - 1 /\ asks > 0
      BY <2>3 DEF Reject
    <3> HIDE DEF no
    <3>4. wire' \in Seq(FromVenue)
      BY <3>1, <3>2 DEF Inv, LineOK
    <3>5. QED
      BY <3>1, <3>3, <3>4 DEF Inv, LineOK
  <2>4. CASE Change
    <3>1. ver' \in 1..MaxVer /\ UNCHANGED <<link, asks, granted>>
      BY <2>4, ListenerAssumption DEF Change, Inv, LineOK
    <3>2. \A slot \in 4..6 : [kind |-> "tick", ver |-> ver', slot |-> slot] \in FromVenue
      BY <3>1 DEF FromVenue
    <3>3. wire' = wire \/ \E m \in FromVenue : wire' = Append(wire, m)
      BY <2>4, <3>2 DEF Change
    <3>4. wire' \in Seq(FromVenue)
      <4>1. wire \in Seq(FromVenue)
        BY DEF Inv, LineOK
      <4>2. \A m \in FromVenue : Append(wire, m) \in Seq(FromVenue)
        BY <4>1
      <4>3. QED
        BY <3>3, <4>1, <4>2
    <3>5. QED
      BY <3>1, <3>4 DEF Inv, LineOK
  <2>5. QED
    BY <2>1, <2>2, <2>3, <2>4
<1>3. LineOK'
  BY <1>1, <1>2 DEF Inv, LineOK, given
<1>4. QED
  BY <1>1, <1>3 DEF Inv, SetUpOK, BookOK, Informed, OneExecutor, given, listener

-----------------------------------------------------------------------------

\* The invariant is inductive.
THEOREM Inductive == Spec => []Inv
<1>1. Inv /\ [Next]_vars => Inv'
  <2> SUFFICES ASSUME Inv, [Next]_vars PROVE Inv'
    OBVIOUS
  <2>1. CASE Next
    BY <2>1, SetUpStep, RunJobStep, NoticeStep, WriteStep, ReceiveStep, VenueStep DEF Next
  <2>2. CASE UNCHANGED vars
    BY <2>2 DEF vars, given, line, listener, Inv, LineOK, SetUpOK, BookOK, Informed, OneExecutor
  <2>3. QED
    BY <2>1, <2>2
<1>2. QED
  BY Initially, <1>1, PTL DEF Spec

-----------------------------------------------------------------------------
(* The book, on one executor *)

\* What is on the way brings a book of version b to the venue's.
Follows(b) ==
    InSequence(b, wire) /\ (link = "open" => Reaches(b, wire, Len(wire), ver))

Quiet(w) == \A i \in 1..Len(w) : ~IsVersion(w[i])

\* Until a connection's first snapshot the book is not good; from then on what is on
\* the way follows it.  Nothing is asked for before run() has begun.
Carried ==
    /\ setup = 0 =>
         queue = <<>> /\ asks = 0 /\ wire = <<>> /\ ~granted /\ book_condition = "not_ready"
    /\ ~up => book_condition /= "good" \/ jobs /= <<>>
    /\ up /\ ~granted => Quiet(wire) /\ book_condition /= "good"
    /\ up /\ granted => \/ book > 0 /\ Follows(book)
                        \/ book_condition /= "good" /\ Follows(0)

\* A book that has handled the first of w has one message less to come.
LEMMA ReachesTail ==
    ASSUME NEW w \in Seq(FromVenue), w /= <<>>, NEW b, NEW c,
           c = IF IsVersion(Head(w)) THEN Head(w).ver ELSE b,
           NEW n \in 0..Len(w) - 1, NEW v, Reaches(b, w, n + 1, v)
    PROVE  Reaches(c, Tail(w), n, v)
<1>1. \A j \in 1..n : Tail(w)[j] = w[j + 1]
  OBVIOUS
<1>2. Head(w) = w[1]
  OBVIOUS
<1>3. CASE v = b /\ \A j \in 1..n + 1 : ~IsVersion(w[j])
  <2>1. ~IsVersion(w[1]) /\ \A j \in 1..n : ~IsVersion(w[j + 1])
    BY <1>3
  <2> QED  BY <1>1, <1>2, <1>3, <2>1 DEF Reaches
<1>4. CASE \E i \in 1..n + 1 : /\ IsVersion(w[i]) /\ w[i].ver = v
                                /\ \A j \in i + 1..n + 1 : ~IsVersion(w[j])
  <2>1. PICK i \in 1..n + 1 : /\ IsVersion(w[i]) /\ w[i].ver = v
                              /\ \A j \in i + 1..n + 1 : ~IsVersion(w[j])
    BY <1>4
  <2>2. \A j \in i..n : ~IsVersion(Tail(w)[j])
    <3>1. \A j \in i..n : j + 1 \in i + 1..n + 1
      OBVIOUS
    <3> QED  BY <1>1, <2>1, <3>1
  <2>3. CASE i = 1
    BY <1>2, <2>1, <2>2, <2>3 DEF Reaches
  <2>4. CASE i > 1
    <3>1. i - 1 \in 1..n /\ Tail(w)[i - 1] = w[i] /\ (i - 1) + 1 = i
      BY <1>1, <2>4
    <3> QED  BY <2>1, <2>2, <3>1 DEF Reaches
  <2> QED  BY <2>3, <2>4
<1> QED  BY <1>3, <1>4 DEF Reaches

\* What follows the first message follows the version that it brings.
LEMMA InSequenceTail ==
    ASSUME NEW w \in Seq(FromVenue), w /= <<>>, NEW b, NEW c,
           c = IF IsVersion(Head(w)) THEN Head(w).ver ELSE b, InSequence(b, w)
    PROVE  InSequence(c, Tail(w))
<1> SUFFICES ASSUME NEW i \in 1..Len(w) - 1, Tail(w)[i].kind = "tick"
             PROVE  Tail(w)[i].ver > 1 /\ Reaches(c, Tail(w), i - 1, Tail(w)[i].ver - 1)
  BY DEF InSequence
<1>1. Tail(w)[i] = w[i + 1] /\ i + 1 \in 1..Len(w) /\ (i + 1) - 1 = (i - 1) + 1
  OBVIOUS
<1>2. w[i + 1].ver > 1 /\ Reaches(b, w, (i - 1) + 1, w[i + 1].ver - 1)
  BY <1>1 DEF InSequence
<1> QED  BY <1>1, <1>2, ReachesTail

\* A message at the end leaves those before it as they are.
LEMMA ReachesAppend ==
    ASSUME NEW w \in Seq(FromVenue), NEW m \in FromVenue, NEW b,
           NEW n \in 0..Len(w), NEW v, Reaches(b, w, n, v)
    PROVE  Reaches(b, Append(w, m), n, v)
<1>1. \A j \in 1..n : Append(w, m)[j] = w[j]
  OBVIOUS
<1>2. \A i \in 1..n : \A j \in i + 1..n : Append(w, m)[j] = w[j]
  BY <1>1
<1> QED  BY <1>1, <1>2 DEF Reaches

\* A tick of the next version may be put behind what is on the way.
LEMMA InSequenceAppend ==
    ASSUME NEW w \in Seq(FromVenue), NEW m \in FromVenue, NEW b, InSequence(b, w),
           m.kind = "tick" => m.ver > 1 /\ Reaches(b, w, Len(w), m.ver - 1)
    PROVE  InSequence(b, Append(w, m))
<1> SUFFICES ASSUME NEW i \in 1..Len(w) + 1, Append(w, m)[i].kind = "tick"
             PROVE  /\ Append(w, m)[i].ver > 1
                    /\ Reaches(b, Append(w, m), i - 1, Append(w, m)[i].ver - 1)
  BY DEF InSequence
<1>1. CASE i <= Len(w)
  <2>1. Append(w, m)[i] = w[i] /\ i \in 1..Len(w) /\ i - 1 \in 0..Len(w)
    BY <1>1
  <2>2. w[i].ver > 1 /\ Reaches(b, w, i - 1, w[i].ver - 1)
    BY <2>1 DEF InSequence
  <2> QED  BY <2>1, <2>2, ReachesAppend
<1>2. CASE i = Len(w) + 1
  <2>1. Append(w, m)[i] = m /\ i - 1 = Len(w) /\ Len(w) \in 0..Len(w)
    BY <1>2
  <2> QED  BY <2>1, ReachesAppend
<1> QED  BY <1>1, <1>2

\* The version of the last message, or the one before if it has none.
LEMMA ReachesLast ==
    ASSUME NEW w \in Seq(FromVenue), NEW m \in FromVenue, NEW b, NEW v,
           IF IsVersion(m) THEN v = m.ver ELSE Reaches(b, w, Len(w), v)
    PROVE  Reaches(b, Append(w, m), Len(Append(w, m)), v)
<1>1. Len(Append(w, m)) = Len(w) + 1 /\ Append(w, m)[Len(w) + 1] = m
  OBVIOUS
<1>2. CASE IsVersion(m)
  BY <1>1, <1>2 DEF Reaches
<1>3. CASE ~IsVersion(m)
  <2>1. \A i \in 1..Len(w) : Append(w, m)[i] = w[i]
    OBVIOUS
  <2>2. \A i \in 1..Len(w) : (\A j \in i + 1..Len(w) : ~IsVersion(w[j]))
                               => \A j \in i + 1..Len(w) + 1 : ~IsVersion(Append(w, m)[j])
    BY <1>1, <1>3, <2>1
  <2>3. (\A j \in 1..Len(w) : ~IsVersion(w[j]))
          => \A j \in 1..Len(w) + 1 : ~IsVersion(Append(w, m)[j])
    BY <1>1, <1>3, <2>1
  <2> QED  BY <1>1, <1>3, <2>1, <2>2, <2>3 DEF Reaches
<1> QED  BY <1>2, <1>3

\* A loss leaves no book good.
LEMMA LossSpoils == \A s \in Condition : Worse(s, "stale") /= "good"
<1>1. SUFFICES ASSUME NEW s \in Condition, Worse(s, "stale") = "good" PROVE FALSE
  OBVIOUS
<1>2. DOMAIN State = 1..4 /\ State[1] = "good" /\ State[2] = "stale"
      /\ State[3] = "not_ready" /\ State[4] = "error"
  BY DEF State
<1>3. Severity("good") = 1
  BY <1>2 DEF Severity
<1>4. Severity("stale") = 2
  BY <1>2 DEF Severity
<1>5. s = "good" /\ ~(Severity(s) < Severity("stale"))
  BY <1>1 DEF Worse
<1> QED  BY <1>3, <1>4, <1>5

\* A condition is good only if both that it is made of are.
LEMMA WorseOfGood ==
    \A s, t \in Condition : Worse(s, t) = "good" => s = "good" /\ t = "good"
<1>1. SUFFICES ASSUME NEW s \in Condition, NEW t \in Condition, Worse(s, t) = "good"
               PROVE  s = "good" /\ t = "good"
  OBVIOUS
<1>2. /\ DOMAIN State = 1..4 /\ State[1] = "good" /\ State[2] = "stale"
      /\ State[3] = "not_ready" /\ State[4] = "error"
  BY DEF State
<1>3. Severity("good") = 1
  BY <1>2 DEF Severity
<1>4. Severity("stale") = 2
  BY <1>2 DEF Severity
<1>5. Severity("not_ready") = 3
  BY <1>2 DEF Severity
<1>6. Severity("error") = 4
  BY <1>2 DEF Severity
<1> QED  BY <1>1, <1>3, <1>4, <1>5, <1>6 DEF Worse, Condition

\* Nothing is good, asked for or on the way when run() begins.
LEMMA CarriedAtFirst == Init => Carried
  BY DEF Init, UplinkInit, Carried

\* run() begins before anything has come.
LEMMA CarriedSetUp ==
    ASSUME Inv, OneExecutor, Carried, SetUp PROVE Carried'
<1>1. setup = 0 /\ OnState(up) /\ setup' = 7 /\ UNCHANGED <<line, ver, jobs>>
  BY DEF SetUp, SetUpAtOnce, WatchState, WatchNext, SetUpDone, Inv, Informed
<1>2. up' = up
  BY <1>1, StateHandled DEF Inv, LineOK
<1>3. book_condition' /= "good"
  BY <1>1, LossSpoils DEF Carried, OnState, Condition
<1>4. wire' = <<>> /\ ~granted'
  BY <1>1 DEF Carried, line
<1> QED  BY <1>1, <1>2, <1>3, <1>4 DEF Carried, Quiet

\* The one job that waits is the notice of the connection's present state.
LEMMA CarriedRunJob ==
    ASSUME Inv, OneExecutor, Carried, RunJob PROVE Carried'
<1>1. setup = 7 /\ jobs = <<[kind |-> "state", up |-> up]>>
  BY DEF RunJob, Inv, Informed
<1>2. Head(jobs).kind = "state" /\ Head(jobs).up = up
  BY <1>1
<1>3. OnState(up) /\ UNCHANGED <<line, ver, setup>>
  BY <1>2 DEF RunJob, Handle
<1>4. up' = up /\ book' = book
  BY <1>3, StateHandled DEF Inv, LineOK, OnState
<1>5. IF up THEN book_condition' = book_condition ELSE book_condition' /= "good"
  BY <1>3, LossSpoils DEF OnState, Inv, BookOK
<1> QED  BY <1>1, <1>3, <1>4, <1>5 DEF Carried, Quiet, Follows, line

\* A connection begins with nothing on the way and a book that is not good.
LEMMA CarriedNotice ==
    ASSUME Inv, OneExecutor, Carried, Connect \/ Disconnect \/ StillDown PROVE Carried'
<1>1. jobs = <<>> /\ UNCHANGED listener /\ queue' = queue
  BY DEF Connect, Disconnect, StillDown, InOrder, Rise, Fall
<1>2. setup = 7 /\ (Disconnect \/ StillDown) => jobs' /= <<>>
  <2> DEFINE notice == [kind |-> "state", up |-> FALSE]
  <2>1. setup = 7 /\ (Disconnect \/ StillDown) => jobs' = Append(jobs, notice)
    BY DEF Disconnect, StillDown, Posted
  <2> HIDE DEF notice
  <2>2. Append(<<>>, notice) /= <<>>
    OBVIOUS
  <2> QED  BY <1>1, <2>1, <2>2
<1>3. setup = 0 \/ setup = 7
  BY DEF Inv, Informed
<1>4. CASE Connect
  <2>1. ~up /\ up' /\ wire' = <<>> /\ ~granted' /\ asks' = 0
    BY <1>4 DEF Connect, Rise
  <2> QED  BY <1>1, <2>1 DEF Carried, Quiet, listener
<1>5. CASE Disconnect
  <2>1. ~up' /\ wire' = <<>> /\ ~granted' /\ asks' = 0
    BY <1>5 DEF Disconnect, Fall
  <2>2. setup = 0 \/ jobs' /= <<>>
    BY <1>2, <1>3, <1>5
  <2> QED  BY <1>1, <2>1, <2>2 DEF Carried, listener
<1>6. CASE StillDown
  <2>1. setup > 0 /\ ~up' /\ UNCHANGED line
    BY <1>6 DEF StillDown
  <2>2. jobs' /= <<>>
    BY <1>2, <1>3, <1>6, <2>1
  <2> QED  BY <1>1, <1>3, <2>1, <2>2 DEF Carried, listener, line
<1> QED  BY <1>4, <1>5, <1>6

\* Writing a subscription changes nothing that is on the way.
LEMMA CarriedWrite ==
    ASSUME Inv, OneExecutor, Carried, Write PROVE Carried'
<1>1. queue /= <<>> /\ up' = up
      /\ UNCHANGED <<link, granted, wire, ver, jobs, listener>>
  BY DEF Write, Written
<1>2. setup /= 0
  BY <1>1 DEF Carried
<1> QED  BY <1>1, <1>2 DEF Carried, Quiet, Follows, listener

\* A snapshot or a tick on the way gives the book that what comes after it follows.
LEMMA CarriedReceive ==
    ASSUME Inv, OneExecutor, Carried, Receive PROVE Carried'
<1> DEFINE m == Head(wire)
<1>1. /\ up /\ wire /= <<>> /\ wire' = Tail(wire) /\ m \in FromVenue /\ m = wire[1]
      /\ jobs = <<>> /\ wire \in Seq(FromVenue)
      /\ UNCHANGED <<link, rises, asks, granted, ver, setup, first>>
  BY DEF Receive, InOrder, Inv, LineOK
<1>2. setup = 7
  BY <1>1 DEF Carried, Inv, Informed
<1>3. setup >= Slot(m) /\ ~(setup < Slot(m))
  <2>1. Slot(m) \in 2..6
    BY <1>1 DEF Slot, FromVenue
  <2> QED  BY <1>2, <2>1
<1>4. Handle(m) /\ UNCHANGED jobs
  BY <1>3 DEF Receive
<1>5. up' = up /\ queue' = queue
  BY <1>1, <1>4, MessageHandled DEF Inv
<1>6. ASSUME NEW b, NEW c, Follows(b), c = IF IsVersion(m) THEN m.ver ELSE b
      PROVE  Follows(c)'
  <2>1. InSequence(c, Tail(wire))
    BY <1>1, <1>6, InSequenceTail DEF Follows
  <2>2. ASSUME link = "open" PROVE Reaches(c, Tail(wire), Len(Tail(wire)), ver)
    <3>1. Len(Tail(wire)) \in 0..Len(wire) - 1 /\ Len(Tail(wire)) + 1 = Len(wire)
      BY <1>1
    <3>2. Reaches(b, wire, Len(Tail(wire)) + 1, ver)
      BY <1>6, <2>2, <3>1 DEF Follows
    <3> QED  BY <1>1, <1>6, <3>1, <3>2, ReachesTail
  <2> QED  BY <1>1, <2>1, <2>2 DEF Follows
<1>7. Quiet(wire) => Quiet(wire') /\ ~IsVersion(m)
  <2>1. \A i \in 1..Len(Tail(wire)) : Tail(wire)[i] = wire[i + 1] /\ i + 1 \in 1..Len(wire)
    BY <1>1
  <2>2. 1 \in 1..Len(wire)
    BY <1>1
  <2> QED  BY <1>1, <2>1, <2>2 DEF Quiet
<1>8. CASE m.kind = "response"
  <2>1. book_condition' /= "good" /\ book' = book /\ ~IsVersion(m)
    BY <1>4, <1>8 DEF Handle, OnResponse, IsVersion
  <2>2. \A b \in {0, book} : Follows(b) => Follows(b)'
    BY <1>6, <2>1
  <2> HIDE DEF m
  <2> QED  BY <1>1, <1>2, <1>5, <1>7, <2>1, <2>2 DEF Carried
<1>9. CASE m.kind \in {"snapshot", "tick"}
  <2>1. IsVersion(m) /\ granted /\ book' = After(book, m) /\ book_condition' = "good"
    BY <1>1, <1>4, <1>7, <1>9 DEF Handle, OnTick, IsVersion, Carried
  <2>2. m.ver \in 1..MaxVer
    BY <1>1, <1>9 DEF FromVenue
  <2>3. PICK b \in {0, book} : Follows(b) /\ (b = book \/ b = 0)
    BY <1>1, <2>1 DEF Carried
  <2>4. PICK v \in 1..MaxVer : v = m.ver
    BY <2>2
  <2>5. book' = m.ver
    <3>1. CASE m.kind = "snapshot"
      BY <2>1, <3>1 DEF After
    <3>2. CASE m.kind = "tick"
      <4>1. m.ver > 1 /\ Reaches(b, wire, 1 - 1, m.ver - 1)
        BY <1>1, <2>3, <3>2 DEF Follows, InSequence
      <4>2. b = m.ver - 1
        BY <4>1 DEF Reaches
      <4>3. b > 0 /\ book > 0 /\ m.ver = book + 1
        BY <2>2, <2>3, <4>1, <4>2
      <4> QED  BY <2>1, <3>2, <4>3 DEF After
    <3> QED  BY <1>9, <3>1, <3>2
  <2> HIDE DEF m
  <2>6. Follows(v)'
    BY <1>6, <2>1, <2>3, <2>4
  <2>7. book' > 0 /\ Follows(book)'
    BY <2>4, <2>5, <2>6 DEF Follows
  <2> QED  BY <1>1, <1>2, <1>5, <2>1, <2>7 DEF Carried
<1>10. m.kind \in {"response", "snapshot", "tick"}
  BY <1>1 DEF FromVenue
<1> QED  BY <1>8, <1>9, <1>10

\* The link breaks, the venue answers, or its book changes: what comes last on the
\* way, if anything does, is the venue's book.
LEMMA CarriedVenue ==
    ASSUME Inv, OneExecutor, Carried, Break \/ Grant \/ Reject \/ Change PROVE Carried'
<1>1. /\ wire \in Seq(FromVenue) /\ ver \in 1..MaxVer /\ book \in 0..MaxVer
      /\ up' = up /\ queue' = queue /\ jobs' = jobs /\ UNCHANGED listener
  BY DEF Break, Grant, Reject, Change, Inv, LineOK, BookOK
<1>2. CASE Break
  <2>1. UNCHANGED <<asks, granted, wire, ver>> /\ link' /= "open"
    BY <1>2 DEF Break
  <2>2. \A b \in {0, book} : Follows(b) => Follows(b)'
    BY <2>1 DEF Follows
  <2> QED  BY <1>1, <2>1, <2>2 DEF Carried, Quiet, listener
<1>3. CASE Grant
  <2> DEFINE ok == [kind |-> "response", ok |-> TRUE]
             copy == [kind |-> "snapshot", ver |-> ver]
             w == Append(wire, ok)
  <2>1. /\ up /\ link = "open" /\ asks > 0 /\ granted' /\ link' = link /\ ver' = ver
        /\ wire' = wire \o <<ok, copy>>
    BY <1>3 DEF Grant
  <2>2. ok \in FromVenue /\ copy \in FromVenue /\ ~IsVersion(ok) /\ IsVersion(copy)
    BY <1>1 DEF FromVenue, IsVersion
  <2>3. ok.kind /= "tick" /\ copy.kind /= "tick" /\ copy.ver = ver
    OBVIOUS
  <2> HIDE DEF ok, copy
  <2>4. w \in Seq(FromVenue) /\ wire' = Append(w, copy)
    BY <1>1, <2>1, <2>2
  <2> HIDE DEF w
  <2>5. ASSUME NEW b, InSequence(b, wire) PROVE Follows(b)'
    <3>1. InSequence(b, w)
      BY <1>1, <2>2, <2>3, <2>5, InSequenceAppend DEF w
    <3>2. InSequence(b, Append(w, copy))
      BY <2>2, <2>3, <2>4, <3>1, InSequenceAppend
    <3>3. Reaches(b, Append(w, copy), Len(Append(w, copy)), ver)
      BY <2>2, <2>3, <2>4, ReachesLast
    <3> QED  BY <2>1, <2>4, <3>2, <3>3 DEF Follows
  <2>6. Quiet(wire) => InSequence(0, wire)
    BY <1>1 DEF Quiet, InSequence, IsVersion
  <2>7. setup /= 0
    BY <2>1 DEF Carried
  <2>8. CASE ~granted
    BY <1>1, <2>1, <2>5, <2>6, <2>7, <2>8 DEF Carried, listener
  <2>9. CASE granted /\ book > 0 /\ Follows(book)
    <3>1. Follows(book)'
      BY <1>1, <2>5, <2>9 DEF Follows, listener
    <3> QED  BY <1>1, <2>1, <2>7, <2>9, <3>1 DEF Carried, listener
  <2>10. CASE granted /\ book_condition /= "good" /\ Follows(0)
    <3>1. Follows(0)'
      BY <2>5, <2>10 DEF Follows
    <3> QED  BY <1>1, <2>1, <2>7, <2>10, <3>1 DEF Carried, listener
  <2> QED  BY <2>1, <2>8, <2>9, <2>10 DEF Carried
<1>4. CASE Reject
  <2> DEFINE no == [kind |-> "response", ok |-> FALSE]
  <2>1. /\ up /\ link = "open" /\ asks > 0 /\ UNCHANGED <<link, granted, ver>>
        /\ wire' = Append(wire, no)
    BY <1>4 DEF Reject
  <2>2. no \in FromVenue /\ ~IsVersion(no) /\ no.kind /= "tick"
    BY DEF FromVenue, IsVersion
  <2> HIDE DEF no
  <2>3. \A b \in {0, book} : Follows(b) => Follows(b)'
    BY <1>1, <2>1, <2>2, InSequenceAppend, ReachesLast DEF Follows
  <2>4. Quiet(wire) => Quiet(wire')
    BY <1>1, <2>1, <2>2 DEF Quiet
  <2>5. setup /= 0
    BY <2>1 DEF Carried
  <2> QED  BY <1>1, <2>1, <2>3, <2>4, <2>5 DEF Carried, listener
<1>5. CASE Change
  <2>1. ver' = ver + 1 /\ UNCHANGED <<link, asks, granted>>
    BY <1>5 DEF Change
  <2>2. CASE up /\ link = "open" /\ granted
    <3>1. PICK slot \in 4..6 :
             wire' = Append(wire, [kind |-> "tick", ver |-> ver + 1, slot |-> slot])
      BY <1>5, <2>1, <2>2 DEF Change
    <3> DEFINE m == [kind |-> "tick", ver |-> ver + 1, slot |-> slot]
    <3>2. ver + 1 \in 1..MaxVer
      BY <1>1, <1>5, ListenerAssumption DEF Change
    <3>3. m \in FromVenue /\ m.kind = "tick" /\ m.ver = ver + 1 /\ IsVersion(m)
      BY <3>2 DEF FromVenue, IsVersion
    <3> HIDE DEF m
    <3>4. wire' = Append(wire, m)
      BY <3>1 DEF m
    <3>5. ASSUME NEW b, Follows(b) PROVE Follows(b)'
      <4>1. InSequence(b, wire) /\ Reaches(b, wire, Len(wire), m.ver - 1) /\ m.ver > 1
        BY <1>1, <2>2, <3>3, <3>5 DEF Follows
      <4>2. InSequence(b, Append(wire, m))
        BY <1>1, <3>3, <4>1, InSequenceAppend
      <4>3. Reaches(b, Append(wire, m), Len(Append(wire, m)), ver')
        BY <1>1, <2>1, <3>3, ReachesLast
      <4> QED  BY <3>4, <4>2, <4>3 DEF Follows
    <3>6. book > 0 /\ Follows(book) => book' > 0 /\ Follows(book)'
      BY <1>1, <3>5 DEF Follows, listener
    <3>7. Follows(0) => Follows(0)'
      BY <3>5
    <3>8. setup /= 0 /\ up' /\ granted'
      BY <1>1, <2>1, <2>2 DEF Carried
    <3> QED  BY <1>1, <2>2, <3>6, <3>7, <3>8 DEF Carried, listener
  <2>3. CASE ~(up /\ link = "open" /\ granted)
    <3>1. wire' = wire
      BY <1>5, <2>3 DEF Change
    <3>2. up /\ granted => \A b \in {0, book} : Follows(b) => Follows(b)'
      BY <2>1, <2>3, <3>1 DEF Follows
    <3> QED  BY <1>1, <2>1, <3>1, <3>2 DEF Carried, Quiet, listener
  <2> QED  BY <2>2, <2>3
<1> QED  BY <1>2, <1>3, <1>4, <1>5

\* Every step keeps it.
LEMMA CarriedStep ==
    ASSUME Inv, OneExecutor => Carried, [Next]_vars PROVE (OneExecutor => Carried)'
<1>1. executors' = executors
  BY DEF Next, vars, given, SetUp, SetUpAtOnce, WatchState, WatchNext, SetUpDone, RunJob,
         Connect, Disconnect, StillDown, Write, Receive, Break, Grant, Reject, Change
<1>2. SUFFICES ASSUME OneExecutor, Carried PROVE Carried'
  BY <1>1 DEF OneExecutor
<1>3. CASE Next
  BY <1>2, <1>3, CarriedSetUp, CarriedRunJob, CarriedNotice, CarriedWrite, CarriedReceive,
     CarriedVenue DEF Next
<1>4. CASE UNCHANGED vars
  BY <1>2, <1>4 DEF vars, line, listener, Carried, Quiet, Follows
<1> QED  BY <1>3, <1>4

\* On one executor, for any number of connections, versions and subscriptions left
\* over: a book that update() publishes as good is the venue's, up to what is on the
\* way.
THEOREM GoodBookIsVenues == Spec => []GoodIsVenueBookOnOne
<1>1. Init => (OneExecutor => Carried)
  BY CarriedAtFirst
<1>2. Inv /\ (OneExecutor => Carried) /\ [Next]_vars => (OneExecutor => Carried)'
  BY CarriedStep
<1>3. Inv /\ (OneExecutor => Carried) => GoodIsVenueBookOnOne
  <2> SUFFICES ASSUME Inv, OneExecutor, Carried, Shown = "good", jobs = <<>>
               PROVE  /\ book > 0
                      /\ up => InSequence(book, wire)
                      /\ up /\ link = "open" => Reaches(book, wire, Len(wire), ver)
    BY DEF GoodIsVenueBookOnOne, GoodIsVenueBook
  <2>1. connection_condition = "good" /\ book_condition = "good"
    BY WorseOfGood DEF Shown, Inv, BookOK
  <2>2. up
    BY <2>1 DEF Carried
  <2> QED  BY <2>1, <2>2 DEF Carried, Follows
<1> QED  BY Inductive, <1>1, <1>2, <1>3, PTL DEF Spec

\* feed_state's values are the conditions.
LEMMA Conditions == Range(State) = Condition
<1>1. DOMAIN State = {1, 2, 3, 4}
  BY DEF State
<1>2. Range(State) = {State[1], State[2], State[3], State[4]}
  BY <1>1 DEF Range
<1>3. QED
  BY <1>2 DEF State, Condition

\* orderbook_listener_impl's members keep their types, and the book it publishes is
\* of a version that the venue has had.
THEOREM Typed == Spec => []TypeOK
<1>1. Inv => TypeOK
  BY Conditions DEF Inv, LineOK, SetUpOK, BookOK, TypeOK
<1>2. QED
  BY Inductive, <1>1, PTL

\* On one executor, whatever the network does: once run() is set up and no notice
\* waits, on_connection_state has recorded the connection's present state.
THEOREM ConditionCurrent == Spec => []ConditionIsCurrentOnOne
<1>1. Inv => ConditionIsCurrentOnOne
  BY DEF Inv, Informed, ConditionIsCurrentOnOne, ConditionIsCurrent
<1>2. QED
  BY Inductive, <1>1, PTL
=============================================================================
