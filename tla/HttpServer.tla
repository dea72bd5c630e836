------------------------------ MODULE HttpServer ------------------------------
(***************************************************************************)
(* http_server: one call of serve, with a coroutine that accepts on each   *)
(* endpoint the host resolves to, and the sessions those start.            *)
(*                                                                         *)
(* All of it runs on one executor, so a step lasts from one suspension of  *)
(* a coroutine to its next.  A request is abstracted to the app that first *)
(* matches its target and to whether it asks to keep the connection alive; *)
(* the answer the client gets is named after the app, "none" being 404.    *)
(***************************************************************************)
EXTENDS Naturals, Sequences, FiniteSetsExt

CONSTANTS
    Endpoint,       \* what the host and port resolve to
    Client,         \* connections that clients make, one each
    Request,        \* records [app, keep]
    MaxRequests     \* bound on the requests of all clients

ASSUME HttpAssumption ==
    /\ Endpoint /= {}
    /\ Request \subseteq [app : {"summary", "detail", "none"}, keep : BOOLEAN]
    /\ MaxRequests \in Nat

VARIABLES
    run,      \* impl::run: "resolving", "serving", "over"
    held,     \* does the http_server still hold the impl, or was it shut down?
    listen,   \* serve(endpoint): "accepting", "accepted" (not yet resumed), "over",
              \* or cancelled meanwhile: "aborted" and "last"
    at,       \* the endpoint a client connected to
    conn,     \* a connection: "new", "pending", "accepted", "reading", "writing", "done"
    left,     \* clients that closed their end
    asked,    \* the requests a client has sent
    read,     \* how many of them the session has read
    got       \* the answers the client has got

server == <<run, held, listen>>
traffic == <<left, asked, read, got>>
vars == <<server, at, conn, traffic>>

Init ==
    /\ run = "resolving" /\ held = TRUE
    /\ listen = [e \in Endpoint |-> "over"]
    /\ at \in [Client -> Endpoint]
    /\ conn = [c \in Client |-> "new"]
    /\ left = {}
    /\ asked = [c \in Client |-> <<>>]
    /\ read = [c \in Client |-> 0]
    /\ got = [c \in Client |-> <<>>]

-----------------------------------------------------------------------------
(* Listening *)

\* Cancellation reaches the coroutines of all endpoints: an accept that is
\* waiting is aborted; one that has completed is the last.
Cut(l) ==
    [e \in DOMAIN l |-> CASE l[e] = "accepting" -> "aborted"
                          [] l[e] = "accepted" -> "last"
                          [] OTHER -> l[e]]

\* The acceptor of e is closed: connections it has not accepted are reset.
ResetAt(e) ==
    [c \in Client |-> IF at[c] = e /\ conn[c] = "pending" THEN "done" ELSE conn[c]]

\* resolve cannot be cancelled; serve after it throws if a shutdown came first.
Resolve ==
    /\ run = "resolving"
    /\ \/ held /\ run' = "serving" /\ listen' = [e \in Endpoint |-> "accepting"]
       \/ run' = "over" /\ UNCHANGED listen
    /\ UNCHANGED <<held, at, conn, traffic>>

\* async_accept completes.
Accept(c) ==
    /\ listen[at[c]] = "accepting" /\ conn[c] = "pending"
    /\ listen' = [listen EXCEPT ![at[c]] = "accepted"]
    /\ conn' = [conn EXCEPT ![c] = "accepted"]
    /\ UNCHANGED <<run, held, at, traffic>>

\* serve goes on: it spawns the session, and the next iteration has an acceptor
\* of its own, unless making it fails or the coroutine was cancelled.
Served(c) ==
    /\ listen[at[c]] \in {"accepted", "last"} /\ conn[c] = "accepted"
    /\ conn' = [ResetAt(at[c]) EXCEPT ![c] = "reading"]
    /\ \/ listen[at[c]] = "accepted"
          /\ listen' = [listen EXCEPT ![at[c]] = "accepting"]
       \/ listen' = Cut([listen EXCEPT ![at[c]] = "over"])
    /\ UNCHANGED <<run, held, at, traffic>>

\* Mutant of Fail: the other endpoints go on.
FailAlone(e) ==
    /\ listen[e] = "accepting"
    /\ listen' = [listen EXCEPT ![e] = "over"]
    /\ conn' = ResetAt(e)
    /\ UNCHANGED <<run, held, at, traffic>>

\* The acceptor cannot be made, or the accept fails: serve(first) && serve(next)
\* cancels the others.
Fail(e) ==
    /\ listen[e] = "accepting"
    /\ listen' = Cut([listen EXCEPT ![e] = "over"])
    /\ conn' = ResetAt(e)
    /\ UNCHANGED <<run, held, at, traffic>>

\* Mutant of Aborted: the acceptor is kept.
AbortedKeepsAcceptor(e) ==
    /\ listen[e] = "aborted"
    /\ listen' = [listen EXCEPT ![e] = "over"]
    /\ UNCHANGED <<run, held, at, conn, traffic>>

Aborted(e) ==
    /\ listen[e] = "aborted"
    /\ listen' = [listen EXCEPT ![e] = "over"]
    /\ conn' = ResetAt(e)
    /\ UNCHANGED <<run, held, at, traffic>>

RunEnds ==
    /\ run = "serving" /\ \A e \in Endpoint : listen[e] = "over"
    /\ run' = "over"
    /\ UNCHANGED <<held, listen, at, conn, traffic>>

\* Mutant of Shutdown: the impl is let go without being stopped.
ShutdownSilently ==
    /\ held /\ held' = FALSE
    /\ UNCHANGED <<run, listen, at, conn, traffic>>

\* The sessions are not told.
Shutdown ==
    /\ held /\ held' = FALSE
    /\ listen' = Cut(listen)
    /\ UNCHANGED <<run, at, conn, traffic>>

-----------------------------------------------------------------------------
(* Sessions *)

\* The request the session reads next, or is answering.
Asked(c) == asked[c][read[c] + 1]
Answering(c) == asked[c][read[c]]

\* The request is read before the timer; entity_detail_app writes nothing and
\* ends the session, anything else is answered.
ReadRequest(c) ==
    /\ conn[c] = "reading" /\ read[c] < Len(asked[c])
    /\ read' = [read EXCEPT ![c] = @ + 1]
    /\ conn' = [conn EXCEPT ![c] = IF Asked(c).app = "detail" THEN "done" ELSE "writing"]
    /\ UNCHANGED <<server, at, left, asked, got>>

\* Mutant of Timeout: the timer is only looked at while no client has left.
TimeoutUnlessLeft(c) ==
    /\ conn[c] = "reading" /\ c \notin left
    /\ conn' = [conn EXCEPT ![c] = "done"]
    /\ UNCHANGED <<server, at, traffic>>

\* The timer is first, though a request may have come; after a read that failed
\* the session still waits for it.
Timeout(c) ==
    /\ conn[c] = "reading"
    /\ conn' = [conn EXCEPT ![c] = "done"]
    /\ UNCHANGED <<server, at, traffic>>

\* Mutant of WriteDone: again keeps the value it had.
WriteDoneAgain(c) ==
    /\ conn[c] = "writing"
    /\ got' = [got EXCEPT ![c] = Append(@, Answering(c).app)]
    /\ conn' = [conn EXCEPT ![c] = "reading"]
    /\ UNCHANGED <<server, at, left, asked, read>>

\* The client gets the answer; the session goes on if it asked to.
WriteDone(c) ==
    /\ conn[c] = "writing"
    /\ got' = [got EXCEPT ![c] = Append(@, Answering(c).app)]
    /\ conn' = [conn EXCEPT ![c] = IF Answering(c).keep THEN "reading" ELSE "done"]
    /\ UNCHANGED <<server, at, left, asked, read>>

WriteFails(c) ==
    /\ conn[c] = "writing" /\ c \in left
    /\ conn' = [conn EXCEPT ![c] = "done"]
    /\ UNCHANGED <<server, at, traffic>>

-----------------------------------------------------------------------------
(* Clients *)

Connect(c) ==
    /\ conn[c] = "new" /\ run = "serving" /\ listen[at[c]] /= "over"
    /\ conn' = [conn EXCEPT ![c] = "pending"]
    /\ UNCHANGED <<server, at, traffic>>

Ask(c) ==
    /\ conn[c] \notin {"new", "done"} /\ c \notin left
    /\ MapThenSumSet(LAMBDA d : Len(asked[d]), Client) < MaxRequests
    /\ \E r \in Request : asked' = [asked EXCEPT ![c] = Append(@, r)]
    /\ UNCHANGED <<server, at, conn, left, read, got>>

Leave(c) ==
    /\ conn[c] \notin {"new", "done"} /\ c \notin left
    /\ left' = left \cup {c}
    /\ UNCHANGED <<server, at, conn, asked, read, got>>

-----------------------------------------------------------------------------

Next ==
    \/ Resolve \/ RunEnds \/ Shutdown
    \/ \E e \in Endpoint : Fail(e) \/ Aborted(e)
    \/ \E c \in Client : \/ Accept(c) \/ Served(c)
                         \/ ReadRequest(c) \/ Timeout(c) \/ WriteDone(c) \/ WriteFails(c)
                         \/ Connect(c) \/ Ask(c) \/ Leave(c)

Spec == Init /\ [][Next]_vars

\* The executor runs what is ready, the resolver answers, the kernel accepts, the
\* timer expires and a write to a client that left fails.  A write to a client
\* that does not read may never end.
FairSpec ==
    /\ Spec
    /\ WF_vars(Resolve) /\ WF_vars(RunEnds)
    /\ \A e \in Endpoint : WF_vars(Aborted(e))
    /\ \A c \in Client : /\ WF_vars(Accept(c)) /\ WF_vars(Served(c))
                         /\ WF_vars(Timeout(c)) /\ WF_vars(WriteFails(c))

-----------------------------------------------------------------------------
(* Properties *)

TypeOK ==
    /\ run \in {"resolving", "serving", "over"} /\ held \in BOOLEAN
    /\ listen \in [Endpoint -> {"accepting", "accepted", "last", "aborted", "over"}]
    /\ at \in [Client -> Endpoint]
    /\ conn \in [Client -> {"new", "pending", "accepted", "reading", "writing", "done"}]
    /\ left \subseteq Client
    /\ asked \in [Client -> Seq(Request)]
    /\ read \in [Client -> Nat] /\ \A c \in Client : read[c] <= Len(asked[c])
    /\ got \in [Client -> Seq({"summary", "none"})]

\* session: the answers a client gets are those to its first requests, in their
\* order and one each, and nothing is read after a request that ends the session.
AnswersInOrder ==
    \A c \in Client :
        /\ Len(got[c]) <= read[c]
        /\ \A i \in 1..Len(got[c]) : got[c][i] = asked[c][i].app
        /\ \A i \in 1..read[c] - 1 : asked[c][i].keep /\ asked[c][i].app /= "detail"

Ending(e) == listen[e] \in {"aborted", "last"} \/ (run = "serving" /\ listen[e] = "over")

\* serve(first) && serve(next, last): the server never stays on some of its
\* endpoints when another is lost, and after a shutdown it stays on none.
ListensTogether ==
    ~held \/ (\E e \in Endpoint : Ending(e))
        => \A e \in Endpoint : listen[e] \notin {"accepting", "accepted"}

\* A client that connects is served or reset: it never waits forever, whatever
\* happens to the acceptor.
NobodyWaits ==
    \A c \in Client : conn[c] = "pending" ~> conn[c] /= "pending"

\* shutdown ends the coroutine that listens.
ShutdownEnds == ~held ~> run = "over"

\* Each session ends after its client has left, wherever that finds it.
LeaversEnd == \A c \in Client : c \in left ~> conn[c] = "done"
=============================================================================
