------------------------------- MODULE Connector -------------------------------
(***************************************************************************)
(* connector_impl: the coroutine that keeps a websocket to the venue open, *)
(* its send and receive loops, and the calls send, interrupt and stop.     *)
(*                                                                         *)
(* All of it runs on one executor, so a step lasts from one suspension of  *)
(* a coroutine to its next.  Messages are numbered in the order of send.   *)
(***************************************************************************)
EXTENDS Naturals, Sequences

CONSTANT MaxSends      \* bound on the messages sent

ASSUME ConnectorAssumption == MaxSends \in Nat

VARIABLES
    run,        \* run(): "pause" before an attempt, "connecting", "loops", "ended"
    stopped,    \* stopped_
    cut,        \* has interrupt or stop cancelled what run() awaits?
    up,         \* connstate_.up()
    queue,      \* send_queue_
    sender,     \* send_loop: "ready", "waiting", "writing", "done"
    receiver,   \* receive_loop: "reading", "done"
    sent,       \* how many messages were sent
    link,       \* the socket: "open", "broken", "silent" (dead unnoticed), "closed"
    wire,       \* messages written and not yet with the venue
    got         \* messages the venue has got on this connection

loops == <<sender, receiver>>
socket == <<link, wire, got>>
vars == <<run, stopped, cut, up, queue, loops, sent, socket>>

Init ==
    /\ run = "pause" /\ stopped = FALSE /\ cut = FALSE
    /\ up = FALSE /\ queue = <<>> /\ sent = 0
    /\ sender = "done" /\ receiver = "done"
    /\ link = "closed" /\ wire = <<>> /\ got = <<>>

\* send_cv_.cancel(): a waiting send loop looks again.
Woken == IF sender = "waiting" THEN "ready" ELSE sender

-----------------------------------------------------------------------------
(* run() and run_connection() *)

\* The loop's test on entry and after the reconnect delay, which stop cancels.
Begin ==
    /\ run = "pause"
    /\ run' = IF stopped THEN "ended" ELSE "connecting"
    /\ UNCHANGED <<stopped, cut, up, queue, loops, sent, socket>>

\* Mutant of Connected: what was queued for the last connection is dropped.
ConnectedClears ==
    /\ run = "connecting" /\ ~cut
    /\ run' = "loops" /\ up' = TRUE
    /\ sender' = "ready" /\ receiver' = "reading"
    /\ link' = "open" /\ wire' = <<>> /\ got' = <<>> /\ queue' = <<>>
    /\ UNCHANGED <<stopped, cut, sent>>

Connected ==
    /\ run = "connecting" /\ ~cut
    /\ run' = "loops" /\ up' = TRUE
    /\ sender' = "ready" /\ receiver' = "reading"
    /\ link' = "open" /\ wire' = <<>> /\ got' = <<>>
    /\ UNCHANGED <<stopped, cut, queue, sent>>

\* Mutant of Over: nobody sets the state to down.
OverStaysUp ==
    /\ run' = IF stopped THEN "ended" ELSE "pause"
    /\ cut' = FALSE
    /\ link' = "closed" /\ wire' = <<>> /\ got' = <<>>
    /\ UNCHANGED <<stopped, up, queue, loops, sent>>

\* Mutant of Over: the interrupt is still there for the next attempt.
OverStaysCut ==
    /\ run' = IF stopped THEN "ended" ELSE "pause"
    /\ up' = FALSE
    /\ link' = "closed" /\ wire' = <<>> /\ got' = <<>>
    /\ UNCHANGED <<stopped, cut, queue, loops, sent>>

\* After a connection or an attempt: the state is set to down.
Over ==
    /\ run' = IF stopped THEN "ended" ELSE "pause"
    /\ cut' = FALSE /\ up' = FALSE
    /\ link' = "closed" /\ wire' = <<>> /\ got' = <<>>
    /\ UNCHANGED <<stopped, queue, loops, sent>>

\* The attempt fails, or it was interrupted: then even a success throws.
ConnectFails == run = "connecting" /\ Over

\* send_loop || receive_loop completes once both have.
LoopsEnd == run = "loops" /\ sender = "done" /\ receiver = "done" /\ Over

-----------------------------------------------------------------------------
(* send_loop: up to its next suspension *)

Cancelled == cut \/ receiver = "done"

\* Mutant of SendLoop: the message leaves the queue before it is written.
SendLoopPopsFirst ==
    /\ run = "loops" /\ sender = "ready"
    /\ sender' = IF Cancelled \/ ~up THEN "done"
                 ELSE IF queue = <<>> THEN "waiting" ELSE "writing"
    /\ queue' = IF sender' = "writing" THEN Tail(queue) ELSE queue
    /\ wire' = IF sender' = "writing" /\ link = "open"
               THEN Append(wire, Head(queue)) ELSE wire
    /\ UNCHANGED <<run, stopped, cut, up, receiver, sent, link, got>>

SendLoop ==
    /\ run = "loops" /\ sender = "ready"
    /\ sender' = IF Cancelled \/ ~up THEN "done"
                 ELSE IF queue = <<>> THEN "waiting" ELSE "writing"
    /\ wire' = IF sender' = "writing" /\ link = "open"
               THEN Append(wire, Head(queue)) ELSE wire
    /\ UNCHANGED <<run, stopped, cut, up, queue, receiver, sent, link, got>>

\* Mutant of WriteDone: the message stays in the queue.
WriteDoneKeeps ==
    /\ run = "loops" /\ sender = "writing"
    /\ sender' = "ready"
    /\ UNCHANGED <<run, stopped, cut, up, queue, receiver, sent, socket>>

\* The write completes: on a link that is not open the message may be lost.
WriteDone ==
    /\ run = "loops" /\ sender = "writing"
    /\ queue' = Tail(queue)
    /\ sender' = "ready"
    /\ UNCHANGED <<run, stopped, cut, up, receiver, sent, socket>>

\* The write throws: the message stays at the head for the next connection.
WriteFails ==
    /\ run = "loops" /\ sender = "writing"
    /\ link /= "open" \/ Cancelled
    /\ sender' = "done"
    /\ UNCHANGED <<run, stopped, cut, up, queue, receiver, sent, socket>>

-----------------------------------------------------------------------------
(* receive_loop *)

\* Mutant of ReadFails: the send loop is not told.
ReadFailsQuietly ==
    /\ run = "loops" /\ receiver = "reading"
    /\ receiver' = "done" /\ up' = FALSE
    /\ UNCHANGED <<run, stopped, cut, queue, sender, sent, socket>>

\* The read fails, or a message or its handler throws: connstate_ goes down.
\* The socket of a loop that ends by a bad message is still open.
ReadFails ==
    /\ run = "loops" /\ receiver = "reading"
    /\ receiver' = "done" /\ up' = FALSE
    /\ sender' = Woken
    /\ UNCHANGED <<run, stopped, cut, queue, sent, socket>>

\* A handled message is followed by an await that throws once the loop is
\* cancelled: then connstate_ is left up for run_connection to set.
ReceiveThrows ==
    /\ run = "loops" /\ receiver = "reading" /\ (cut \/ sender = "done")
    /\ receiver' = "done" /\ sender' = Woken
    /\ UNCHANGED <<run, stopped, cut, up, queue, sent, socket>>

ReceiveEnds == ReadFails \/ ReceiveThrows

-----------------------------------------------------------------------------
(* The calls of the connector's users *)

\* Mutant of Send: send_cv_ is not cancelled.
SendQuietly ==
    /\ sent < MaxSends
    /\ sent' = sent + 1
    /\ queue' = Append(queue, sent')
    /\ UNCHANGED <<run, stopped, cut, up, loops, socket>>

Send ==
    /\ sent < MaxSends
    /\ sent' = sent + 1
    /\ queue' = Append(queue, sent')
    /\ sender' = Woken
    /\ UNCHANGED <<run, stopped, cut, up, receiver, socket>>

\* Mutant of Cut: only the socket is closed, nothing is cancelled.
CutSocketOnly ==
    /\ cut' = FALSE
    /\ link' = IF run = "loops" THEN "closed" ELSE link
    /\ UNCHANGED <<run, up, queue, loops, sent, wire, got>>

\* Cancel what run() awaits: the attempt, or the loops, whose socket is closed.
Cut ==
    /\ cut' = (run \in {"connecting", "loops"})
    /\ link' = IF run = "loops" THEN "closed" ELSE link
    /\ sender' = Woken
    /\ UNCHANGED <<run, up, queue, receiver, sent, wire, got>>

\* In the reconnect delay nobody has assigned a handler: nothing happens.
Interrupt == run \in {"connecting", "loops"} /\ ~cut /\ Cut /\ UNCHANGED stopped

\* ~connector, once.
Stop == ~stopped /\ stopped' = TRUE /\ Cut

-----------------------------------------------------------------------------
(* The network *)

Deliver ==
    /\ run = "loops" /\ link = "open" /\ wire /= <<>>
    /\ got' = Append(got, Head(wire)) /\ wire' = Tail(wire)
    /\ UNCHANGED <<run, stopped, cut, up, queue, loops, sent, link>>

\* A silent link never fails a read: there is no keep-alive and no time limit.
Break ==
    /\ run = "loops" /\ link = "open"
    /\ link' \in {"broken", "silent"}
    /\ UNCHANGED <<run, stopped, cut, up, queue, loops, sent, wire, got>>

-----------------------------------------------------------------------------

AttemptEnds == Connected \/ ConnectFails
WriteEnds == WriteDone \/ WriteFails
Coroutines ==
    Begin \/ AttemptEnds \/ SendLoop \/ WriteEnds \/ ReceiveEnds \/ LoopsEnd
Calls == Send \/ Interrupt \/ Stop
Next == Coroutines \/ Calls \/ Deliver \/ Break

Spec == Init /\ [][Next]_vars

\* The executor runs what is ready; an attempt is answered, refused or
\* cancelled; a read or a write of a broken or closed socket fails.  Nothing is
\* asked of the connector's users, of the network or of a silent link.
ReadMustEnd == ReceiveEnds /\ (link \in {"broken", "closed"} \/ Cancelled)
WriteMustEnd == WriteEnds /\ link /= "silent"
FairSpec ==
    /\ Spec
    /\ WF_vars(Begin) /\ WF_vars(AttemptEnds) /\ WF_vars(SendLoop)
    /\ WF_vars(WriteMustEnd) /\ WF_vars(ReadMustEnd) /\ WF_vars(LoopsEnd)

-----------------------------------------------------------------------------
(* Properties *)

TypeOK ==
    /\ run \in {"pause", "connecting", "loops", "ended"}
    /\ stopped \in BOOLEAN /\ cut \in BOOLEAN /\ up \in BOOLEAN
    /\ sender \in {"ready", "waiting", "writing", "done"}
    /\ receiver \in {"reading", "done"}
    /\ link \in {"open", "broken", "silent", "closed"}
    /\ sent \in 0..MaxSends
    /\ queue \in Seq(1..sent) /\ wire \in Seq(1..sent) /\ got \in Seq(1..sent)

\* The send loop sleeps only while there is nothing for it to do: no message,
\* no loss of the connection and no interrupt goes unnoticed.
NoSleepOnWork == sender = "waiting" => up /\ queue = <<>> /\ ~cut

\* connector: while its link holds and its loops run, the venue gets every
\* message sent from some point on, each once and in order: what it got, what
\* is on the wire and what is still queued end with the last one sent.
Unwritten == IF sender = "writing" THEN Tail(queue) ELSE queue
Line == got \o wire \o Unwritten
NothingSkipped ==
    run = "loops" /\ link = "open" /\ sender /= "done" =>
        \A i \in 1..Len(Line) : Line[i] = sent - Len(Line) + i

\* send_loop: a message leaves the queue when it was written, so one may be
\* lost only when the link failed under it.
LostOnlyWithLink ==
    [][ Len(queue') < Len(queue) =>
          \/ link /= "open"
          \/ \E s \in {got, wire} : \E i \in 1..Len(s) : s[i] = Head(queue) ]_vars

\* connstate_: told to the watchers, it is up only while there is a connection.
UpIsConnected ==
    /\ up => run = "loops"
    /\ run = "loops" /\ receiver = "reading" => up

\* What run_connection (connector_impl.cpp:112-131) and the loops keep of each
\* other's state, whoever of them ends first.
Consistent == TypeOK /\ NoSleepOnWork /\ UpIsConnected

\* What the connector's users see implements Uplink.
Up == INSTANCE Uplink WITH Message <- 1..MaxSends
ImplementsUplink == Up!UplinkSpec

\* ~connector: run() ends, whatever it was doing, even on a silent link.
StopEnds == stopped ~> run = "ended"

\* A broken link ends in another attempt, unless the connector is stopped.
Reconnects == (run = "loops" /\ link = "broken") ~> (run = "connecting" \/ stopped)

\* interrupt: the attempt or connection it hits ends.
InterruptEnds == cut ~> ~cut

\* What was sent, at any time, is written once a connection stays.
QueueDrains == <>[](up /\ link = "open") => <>[](queue = <<>>)
=============================================================================
