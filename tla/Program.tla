------------------------------- MODULE Program -------------------------------
(***************************************************************************)
(* main: the coroutine check, which makes the program's parts, reads keys  *)
(* until it is told to quit, and lets the parts go; the io_context runs    *)
(* until nothing is left to do.  The parts are those of the other modules, *)
(* reduced to who holds whom and to whether their coroutines have ended.   *)
(***************************************************************************)
EXTENDS Naturals, FiniteSets

CONSTANT MaxOpen    \* bound on the sessions open at a time

ASSUME ProgramAssumption == MaxOpen \in Nat

VARIABLES
    keys,      \* monitor_keys: "reading", "cancelled", "over"
    frame,     \* is check's frame there?
    objects,   \* the parts that exist
    connects,  \* connector_impl::run: "running", "stopped", "over"
    logs,      \* data_log's run: "running", "eof", "over"
    serves,    \* the http server's run, the same
    sessions,  \* sessions that are open
    notice     \* is a connection state posted to the listener and not yet handled?

coroutines == <<connects, logs, serves>>
programVars == <<keys, frame, objects, coroutines, sessions, notice>>

Part == {"con", "watch1", "eth_log", "watch2", "reactive"}

\* The parts that hold the connector, besides check's frame.
Keepers == {"watch1", "eth_log", "watch2"}

ProgramInit ==
    /\ keys = "reading" /\ frame = TRUE /\ objects = Part
    /\ connects = "running" /\ logs = "running" /\ serves = "running"
    /\ sessions = 0 /\ notice = FALSE

\* What is left of the parts o: the last to hold the connector destroys it.
Released(o) == IF o \cap Keepers = {} THEN o \ {"con"} ELSE o

\* ~connector stops its impl.
LetGo(o) ==
    /\ objects' = Released(o)
    /\ connects' = IF "con" \in objects \ objects' /\ connects = "running"
                   THEN "stopped" ELSE connects

Halted(c) == IF c = "running" THEN "stopped" ELSE c

-----------------------------------------------------------------------------
(* monitor_keys and check *)

\* A key has its signal: q cancels the coroutine that reads and shuts the server
\* down, r lets the entity go, others have no slot.
PressQ ==
    /\ keys = "reading" /\ keys' = "cancelled"
    /\ serves' = Halted(serves)
    /\ UNCHANGED <<frame, objects, connects, logs, sessions, notice>>

PressR ==
    /\ keys = "reading"
    /\ objects' = objects \ {"reactive"}
    /\ UNCHANGED <<keys, frame, coroutines, sessions, notice>>

\* The loop ends, cancelled or at the end of the input.
KeysEnd ==
    /\ keys /= "over" /\ keys' = "over"
    /\ UNCHANGED <<frame, objects, coroutines, sessions, notice>>

\* Mutant of FrameEnds: the server's destructor does not shut it down.
FrameEndsServing ==
    /\ keys = "over" /\ frame /\ frame' = FALSE
    /\ LetGo(IF notice THEN {"watch2", "con"} ELSE {"con"})
    /\ logs' = Halted(logs)
    /\ UNCHANGED <<keys, serves, sessions, notice>>

\* check returns: watch2, eth_log, watch1, con, the server and reactive are let go.
\* A notice holds the listener.
FrameEnds ==
    /\ keys = "over" /\ frame /\ frame' = FALSE
    /\ LetGo(IF notice THEN {"watch2", "con"} ELSE {"con"})
    /\ logs' = Halted(logs)
    /\ serves' = Halted(serves)
    /\ UNCHANGED <<keys, sessions, notice>>

-----------------------------------------------------------------------------
(* The parts *)

\* The connector's state changes while the listener's slot is there.  An event of
\* the network comes after the jobs posted before it.
Notify ==
    /\ connects /= "over" /\ "watch2" \in objects
    /\ ~notice /\ notice' = TRUE
    /\ UNCHANGED <<keys, frame, objects, coroutines, sessions>>

\* The job is done with, and with it its reference to the listener.
Noticed ==
    /\ notice /\ notice' = FALSE
    /\ LetGo(IF frame THEN objects ELSE objects \ {"watch2"})
    /\ UNCHANGED <<keys, frame, logs, serves, sessions>>

ConnectorEnds ==
    /\ connects = "stopped" /\ connects' = "over"
    /\ UNCHANGED <<keys, frame, objects, logs, serves, sessions, notice>>

LogEnded ==
    /\ logs = "stopped" /\ logs' = "over"
    /\ UNCHANGED <<keys, frame, objects, connects, serves, sessions, notice>>

\* A file that cannot be written ends its coroutine, an acceptor that fails its own.
LogFails ==
    /\ logs = "running" /\ logs' = "over"
    /\ UNCHANGED <<keys, frame, objects, connects, serves, sessions, notice>>

ServerEnded ==
    /\ serves \in {"running", "stopped"} /\ serves' = "over"
    /\ UNCHANGED <<keys, frame, objects, connects, logs, sessions, notice>>

SessionBegins ==
    /\ serves /= "over" /\ sessions < MaxOpen
    /\ sessions' = sessions + 1
    /\ UNCHANGED <<keys, frame, objects, coroutines, notice>>

SessionEnds ==
    /\ sessions > 0 /\ sessions' = sessions - 1
    /\ UNCHANGED <<keys, frame, objects, coroutines, notice>>

ProgramNext ==
    \/ PressQ \/ PressR \/ KeysEnd \/ FrameEnds
    \/ Notify \/ Noticed \/ ConnectorEnds \/ LogEnded \/ LogFails \/ ServerEnded
    \/ SessionBegins \/ SessionEnds

ProgramSpec == ProgramInit /\ [][ProgramNext]_programVars

-----------------------------------------------------------------------------
(* Properties *)

\* ioc.run returns: no coroutine is left and no job is posted.
Idle ==
    /\ ~frame /\ connects = "over" /\ logs = "over" /\ serves = "over"
    /\ sessions = 0 /\ ~notice

\* main.cpp: the program ends after q, or the end of its input, in whatever state
\* that finds the parts, once the clients of the web server leave.
QuitEnds == keys /= "reading" ~> Idle
=============================================================================
