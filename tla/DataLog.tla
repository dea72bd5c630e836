------------------------------- MODULE DataLog -------------------------------
(***************************************************************************)
(* data_log, a file written by a coroutine that receives lines over a      *)
(* bounded channel, and its two kinds of user: tick_logger, which logs     *)
(* the messages the connector receives, on the log's own executor, and     *)
(* any other, on that executor or on another thread.                       *)
(*                                                                         *)
(* A dispatch from the executor runs inline, one from elsewhere is posted. *)
(* Lines are numbered in the order they are given to the log.              *)
(***************************************************************************)
EXTENDS Naturals, Sequences

CONSTANTS
    Capacity,     \* of the channel: 1024 in the code
    MaxLines      \* bound on the lines

ASSUME DataLogAssumption == Capacity \in Nat \ {0} /\ MaxLines \in Nat

VARIABLES
    user,      \* "tick_logger", or "other"
    inside,    \* is the user's code on the log's executor?
    jobs,      \* what was posted to the log's executor
    watching,  \* are tick_logger's slots connected?
    ended,     \* is the user (so the data_log) destroyed?
    sent,      \* the lines given to the log
    buffer,    \* the channel's buffer
    senders,   \* the channel's waiting sends
    writer,    \* run(): "new", "waiting", "resumed", "writing", "over"
    line,      \* current_line, 0 for the end of file
    file,      \* the lines in the file
    broken     \* did a write fail?

use == <<user, inside>>
channel == <<buffer, senders>>
disk == <<file, broken>>
vars == <<use, jobs, watching, ended, sent, channel, writer, line, disk>>

Eof == 0    \* the message that carries asio::error::eof

\* The jobs that are not lines or the end of file: tick_logger's start and stop.
Start == MaxLines + 1
Stop == MaxLines + 2

Init ==
    /\ user \in {"tick_logger", "other"} /\ inside \in BOOLEAN
    /\ watching = (user = "tick_logger" /\ inside)
    /\ jobs = IF user = "tick_logger" /\ ~inside THEN <<Start>> ELSE <<>>
    /\ ended = FALSE /\ sent = 0
    /\ buffer = <<>> /\ senders = <<>>
    /\ writer = "new" /\ line = Eof
    /\ file = <<>> /\ broken = FALSE

-----------------------------------------------------------------------------
(* The channel *)

\* Mutant of DoSend: a full channel drops the line.
DoSendOrDrops(l) ==
    IF writer = "waiting" THEN writer' = "resumed" /\ line' = l /\ UNCHANGED channel
    ELSE /\ buffer' = IF writer /= "over" /\ Len(buffer) < Capacity
                      THEN Append(buffer, l) ELSE buffer
         /\ UNCHANGED <<senders, writer, line>>

\* do_send: try_send gives the line to the waiting receiver or to the buffer; it
\* fails when the buffer is full, and async_send waits, or when the channel is
\* closed, and async_send ends with an error that nobody looks at.
DoSend(l) ==
    \/ /\ writer = "waiting"
       /\ writer' = "resumed" /\ line' = l
       /\ UNCHANGED channel
    \/ /\ writer \notin {"waiting", "over"}
       /\ IF Len(buffer) < Capacity
          THEN buffer' = Append(buffer, l) /\ UNCHANGED senders
          ELSE senders' = Append(senders, l) /\ UNCHANGED buffer
       /\ UNCHANGED <<writer, line>>
    \/ writer = "over" /\ UNCHANGED <<channel, writer, line>>

\* run() has received l: a line is written, the end of file closes the channel.
Received(l) ==
    /\ line' = l
    /\ writer' = IF l = Eof THEN "over" ELSE "writing"

\* Mutant of Receive: the send that waits longest does not get the place in the
\* buffer: it stays where it is.
ReceiveLeavesSenders ==
    IF buffer = <<>> THEN writer' = "waiting" /\ UNCHANGED <<line, channel>>
    ELSE Received(Head(buffer)) /\ buffer' = Tail(buffer) /\ UNCHANGED senders

\* try_receive, then async_receive: the line at the head of the buffer, whose
\* place the send that has waited longest takes; or run() waits.
Receive ==
    IF buffer = <<>> THEN writer' = "waiting" /\ UNCHANGED <<line, channel>>
    ELSE /\ Received(Head(buffer))
         /\ IF senders = <<>>
            THEN buffer' = Tail(buffer) /\ UNCHANGED senders
            ELSE buffer' = Append(Tail(buffer), Head(senders)) /\ senders' = Tail(senders)

-----------------------------------------------------------------------------
(* run(), from one suspension to the next *)

Begin ==
    /\ writer = "new" /\ Receive
    /\ UNCHANGED <<use, jobs, watching, ended, sent, disk>>

\* async_receive completes.
Resume ==
    /\ writer = "resumed" /\ Received(line)
    /\ UNCHANGED <<use, jobs, watching, ended, sent, channel, disk>>

WriteDone ==
    /\ writer = "writing"
    /\ file' = Append(file, line)
    /\ Receive
    /\ UNCHANGED <<use, jobs, watching, ended, sent, broken>>

\* The channel is closed; what was in it or waiting for it is lost.
WriteFails ==
    /\ writer = "writing"
    /\ writer' = "over" /\ broken' = TRUE
    /\ UNCHANGED <<use, jobs, watching, ended, sent, channel, line, file>>

-----------------------------------------------------------------------------
(* The users, and the jobs they post *)

\* A message for the logger's symbol, of a type it watches, is logged.
Hear ==
    /\ user = "tick_logger" /\ watching /\ sent < MaxLines
    /\ sent' = sent + 1
    /\ DoSend(sent')
    /\ UNCHANGED <<use, jobs, watching, ended, disk>>

\* data_log::send by another user.
Send ==
    /\ user = "other" /\ ~ended /\ sent < MaxLines
    /\ sent' = sent + 1
    /\ IF inside THEN DoSend(sent') /\ UNCHANGED jobs
       ELSE jobs' = Append(jobs, sent') /\ UNCHANGED <<channel, writer, line>>
    /\ UNCHANGED <<use, watching, ended, disk>>

\* Mutant of Halt: a slot holds the impl, so that the data_log stays.
HaltKeepsLog == watching' = FALSE /\ UNCHANGED <<channel, writer, line>>

\* tick_logger::impl::stop, after which nobody holds the impl: its data_log goes,
\* on the executor.
Halt == watching' = FALSE /\ DoSend(Eof)

\* ~tick_logger, or ~data_log.
Destroy ==
    /\ ~ended /\ ended' = TRUE
    /\ IF inside
       THEN /\ jobs' = jobs
            /\ IF user = "tick_logger" THEN Halt ELSE DoSend(Eof) /\ UNCHANGED watching
       ELSE /\ jobs' = Append(jobs, IF user = "tick_logger" THEN Stop ELSE Eof)
            /\ UNCHANGED <<watching, channel, writer, line>>
    /\ UNCHANGED <<use, sent, disk>>

\* The executor runs the next job.  The thread that posted the stop may be the
\* last to let go of the impl: then the end of file is posted too.
RunJob ==
    /\ jobs /= <<>>
    /\ \/ /\ Head(jobs) = Start /\ watching' = TRUE
          /\ jobs' = Tail(jobs) /\ UNCHANGED <<channel, writer, line>>
       \/ Head(jobs) = Stop /\ Halt /\ jobs' = Tail(jobs)
       \/ /\ Head(jobs) = Stop /\ watching' = FALSE
          /\ jobs' = Append(Tail(jobs), Eof) /\ UNCHANGED <<channel, writer, line>>
       \/ /\ Head(jobs) \in 0..MaxLines /\ DoSend(Head(jobs))
          /\ jobs' = Tail(jobs) /\ UNCHANGED watching
    /\ UNCHANGED <<use, ended, sent, disk>>

-----------------------------------------------------------------------------

Next ==
    \/ Begin \/ Resume \/ WriteDone \/ WriteFails
    \/ Hear \/ Send \/ Destroy \/ RunJob

Spec == Init /\ [][Next]_vars

-----------------------------------------------------------------------------
(* Properties *)

TypeOK ==
    /\ user \in {"tick_logger", "other"} /\ inside \in BOOLEAN
    /\ watching \in BOOLEAN /\ ended \in BOOLEAN /\ broken \in BOOLEAN
    /\ sent \in 0..MaxLines /\ line \in 0..sent
    /\ jobs \in Seq(0..sent \cup {Start, Stop})
    /\ buffer \in Seq(0..sent) /\ senders \in Seq(0..sent) /\ file \in Seq(1..sent)
    /\ writer \in {"new", "waiting", "resumed", "writing", "over"}
    /\ Len(buffer) <= Capacity

\* data_log: the file holds the first lines given to the log, in their order, none
\* twice and none left out, whatever the channel's buffer and its waiting sends.
FileIsPrefix == \A i \in 1..Len(file) : file[i] = i

\* ~data_log: the log ends by its user's end of file only when every line it was
\* given is in the file.
EndsComplete == writer = "over" /\ ~broken => ended /\ Len(file) = sent

\* Once its user is gone the log's coroutine ends, and nothing holds the file.
LogEnds == ended ~> writer = "over"
=============================================================================
