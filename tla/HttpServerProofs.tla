--------------------------- MODULE HttpServerProofs ---------------------------
(***************************************************************************)
(* HttpServer's safety properties, for any endpoints, clients and requests. *)
(***************************************************************************)
EXTENDS HttpServer, TLAPS

Listening == {"accepting", "accepted"}
ListenState == Listening \cup {"last", "aborted", "over"}

\* While the server serves, all of its endpoints listen, or none; it listens
\* only while it is held.
Together ==
    /\ run /= "serving" => \A e \in Endpoint : listen[e] = "over"
    /\ \/ held /\ \A e \in Endpoint : listen[e] \in Listening
       \/ \A e \in Endpoint : listen[e] \notin Listening

ServerOK ==
    /\ run \in {"resolving", "serving", "over"} /\ held \in BOOLEAN
    /\ listen \in [Endpoint -> ListenState]
    /\ Together

\* What is known of a session at each of its stages.
Progress(c) ==
    /\ conn[c] \in {"new", "pending", "accepted"} => read[c] = 0
    /\ conn[c] = "reading" =>
          /\ Len(got[c]) = read[c]
          /\ \A i \in 1..read[c] : asked[c][i].keep /\ asked[c][i].app /= "detail"
    /\ conn[c] = "writing" =>
          /\ read[c] > 0 /\ Len(got[c]) = read[c] - 1
          /\ asked[c][read[c]].app /= "detail"

Counts(c) ==
    /\ conn[c] \in {"new", "pending", "accepted", "reading", "writing", "done"}
    /\ asked[c] \in Seq(Request) /\ got[c] \in Seq({"summary", "none"})
    /\ read[c] \in Nat /\ read[c] <= Len(asked[c])

InOrder(c) ==
    /\ Len(got[c]) <= read[c]
    /\ \A i \in 1..Len(got[c]) : got[c][i] = asked[c][i].app
    /\ \A i \in 1..read[c] - 1 : asked[c][i].keep /\ asked[c][i].app /= "detail"

SessionOK(c) == Counts(c) /\ InOrder(c) /\ Progress(c)

Shape ==
    /\ at \in [Client -> Endpoint] /\ left \subseteq Client
    /\ DOMAIN conn = Client /\ DOMAIN asked = Client
    /\ DOMAIN read = Client /\ DOMAIN got = Client
    /\ conn = [c \in Client |-> conn[c]] /\ asked = [c \in Client |-> asked[c]]
    /\ read = [c \in Client |-> read[c]] /\ got = [c \in Client |-> got[c]]

SessionsOK == \A c \in Client : SessionOK(c)

Inv == ServerOK /\ Shape /\ SessionsOK

\* Cancelled coroutines listen no more (the && of serve's coroutines).
LEMMA CutEndsListening ==
  ASSUME NEW l \in [Endpoint -> ListenState]
  PROVE  /\ Cut(l) \in [Endpoint -> ListenState]
         /\ \A e \in Endpoint : Cut(l)[e] \notin Listening
         /\ \A e \in Endpoint : l[e] = "over" => Cut(l)[e] = "over"
  BY DEF Cut, ListenState, Listening

\* A server that was just made does not listen yet, and no client has connected.
LEMMA Initially == Init => Inv
<1> SUFFICES ASSUME Init PROVE Inv
  OBVIOUS
<1>1. ServerOK
  BY DEF Init, ServerOK, Together, Listening, ListenState
<1>2. Shape
  BY DEF Init, Shape
<1>3. ASSUME NEW c \in Client PROVE SessionOK(c)
  BY <1>3 DEF Init, SessionOK, Counts, InOrder, Progress
<1>4. QED
  BY <1>1, <1>2, <1>3 DEF Inv, SessionsOK

\* Every step of serve, of its coroutines and of shutdown keeps the endpoints
\* together: what loses one of them cancels the rest.
LEMMA ServerStep == ServerOK /\ Shape /\ [Next]_vars => ServerOK'
<1> SUFFICES ASSUME ServerOK, Shape, [Next]_vars PROVE ServerOK'
  OBVIOUS
<1> USE DEF ServerOK, Together, ListenState, Listening, server
<1>1. CASE Resolve
  BY <1>1 DEF Resolve
<1>2. CASE RunEnds
  BY <1>2 DEF RunEnds
<1>3. CASE Shutdown
  BY <1>3, CutEndsListening DEF Shutdown
<1>4. ASSUME NEW e \in Endpoint, Fail(e) PROVE ServerOK'
  <2>1. [listen EXCEPT ![e] = "over"] \in [Endpoint -> ListenState]
    OBVIOUS
  <2>2. run = "serving"
    BY <1>4 DEF Fail
  <2>3. QED
    BY <1>4, <2>1, <2>2, CutEndsListening DEF Fail
<1>5. ASSUME NEW e \in Endpoint, Aborted(e) PROVE ServerOK'
  BY <1>5 DEF Aborted
<1>6. ASSUME NEW c \in Client, Accept(c) PROVE ServerOK'
  <2>1. at[c] \in Endpoint
    BY DEF Shape
  <2>2. QED
    BY <1>6, <2>1 DEF Accept
<1>7. ASSUME NEW c \in Client, Served(c) PROVE ServerOK'
  <2>1. at[c] \in Endpoint
    BY DEF Shape
  <2>2. run = "serving"
    BY <1>7, <2>1 DEF Served
  <2>3. CASE listen[at[c]] = "accepted"
             /\ listen' = [listen EXCEPT ![at[c]] = "accepting"]
    BY <1>7, <2>1, <2>2, <2>3 DEF Served
  <2>4. CASE listen' = Cut([listen EXCEPT ![at[c]] = "over"])
    <3>1. [listen EXCEPT ![at[c]] = "over"] \in [Endpoint -> ListenState]
      BY <2>1
    <3>2. QED
      BY <1>7, <2>2, <2>4, <3>1, CutEndsListening DEF Served
  <2>5. QED
    BY <1>7, <2>3, <2>4 DEF Served
<1>8. ASSUME NEW c \in Client,
             ReadRequest(c) \/ Timeout(c) \/ WriteDone(c) \/ WriteFails(c)
               \/ Connect(c) \/ Ask(c) \/ Leave(c)
      PROVE  ServerOK'
  BY <1>8 DEF ReadRequest, Timeout, WriteDone, WriteFails, Connect, Ask, Leave
<1>9. CASE UNCHANGED vars
  BY <1>9 DEF vars
<1>10. QED
  BY <1>1, <1>2, <1>3, <1>4, <1>5, <1>6, <1>7, <1>8, <1>9 DEF Next

\* No step changes what clients, connections and endpoints there are.
LEMMA ShapeStep == Shape /\ [Next]_vars => Shape'
<1> SUFFICES ASSUME Shape, [Next]_vars PROVE Shape'
  OBVIOUS
<1> USE DEF Shape, server, traffic
<1>1. CASE Resolve \/ RunEnds \/ Shutdown
  BY <1>1 DEF Resolve, RunEnds, Shutdown
<1>2. ASSUME NEW e \in Endpoint, Fail(e) \/ Aborted(e) PROVE Shape'
  BY <1>2 DEF Fail, Aborted, ResetAt
<1>3. ASSUME NEW c \in Client, Accept(c) \/ Served(c) PROVE Shape'
  BY <1>3 DEF Accept, Served, ResetAt
<1>4. ASSUME NEW c \in Client,
             ReadRequest(c) \/ Timeout(c) \/ WriteDone(c) \/ WriteFails(c)
      PROVE  Shape'
  BY <1>4 DEF ReadRequest, Timeout, WriteDone, WriteFails
<1>5. ASSUME NEW c \in Client, Connect(c) \/ Ask(c) \/ Leave(c) PROVE Shape'
  BY <1>5 DEF Connect, Ask, Leave
<1>6. CASE UNCHANGED vars
  BY <1>6 DEF vars
<1>7. QED
  BY <1>1, <1>2, <1>3, <1>4, <1>5, <1>6 DEF Next

\* A client that sends one more request leaves those before it as they were.
LEMMA AskKeeps ==
  ASSUME NEW s \in Seq(Request), NEW r \in Request
  PROVE  /\ Append(s, r) \in Seq(Request) /\ Len(Append(s, r)) = Len(s) + 1
         /\ \A i \in 1..Len(s) : Append(s, r)[i] = s[i]
  OBVIOUS

\* A session and its client are left as they are by steps of others.
LEMMA Untouched ==
  ASSUME NEW c \in Client, SessionOK(c),
         conn'[c] = conn[c], asked'[c] = asked[c], read'[c] = read[c], got'[c] = got[c]
  PROVE  SessionOK(c)'
  BY DEF SessionOK, Counts, InOrder, Progress

\* A connection that is reset, or a session that is over, says nothing more.
LEMMA Finished ==
  ASSUME NEW c \in Client, SessionOK(c),
         conn'[c] = "done", asked'[c] = asked[c], read'[c] = read[c], got'[c] = got[c]
  PROVE  SessionOK(c)'
  BY DEF SessionOK, Counts, InOrder, Progress

\* A connection gets no answer before its session has started.
LEMMA Unheard ==
  ASSUME NEW c \in Client, SessionOK(c), conn[c] \in {"new", "pending", "accepted"},
         conn'[c] \in {"pending", "accepted", "reading"},
         asked'[c] = asked[c], read'[c] = read[c], got'[c] = got[c]
  PROVE  SessionOK(c)'
  BY DEF SessionOK, Counts, InOrder, Progress

\* Closing an acceptor touches the connections in its backlog only.
LEMMA ResetEnds ==
  ASSUME Shape, NEW e \in Endpoint, NEW c \in Client
  PROVE  ResetAt(e)[c] = conn[c] \/ ResetAt(e)[c] = "done"
  BY DEF ResetAt

\* session: reading a request of one that goes on, whose requests before it all
\* asked to go on.
LEMMA ReadKeepsOrder ==
  ASSUME Shape, NEW c \in Client, SessionOK(c), ReadRequest(c)
  PROVE  SessionOK(c)'
<1>1. /\ conn[c] = "reading" /\ read[c] < Len(asked[c])
      /\ read'[c] = read[c] + 1 /\ asked'[c] = asked[c] /\ got'[c] = got[c]
      /\ conn'[c] = IF asked[c][read[c] + 1].app = "detail" THEN "done" ELSE "writing"
  BY DEF ReadRequest, Shape, Asked
<1>2. Counts(c)'
  BY <1>1 DEF SessionOK, Counts
<1>3. InOrder(c)'
  BY <1>1 DEF SessionOK, Counts, InOrder, Progress
<1>4. Progress(c)'
  BY <1>1 DEF SessionOK, Counts, InOrder, Progress
<1>5. QED
  BY <1>2, <1>3, <1>4 DEF SessionOK

\* session: the answer written is that of the request read last.
LEMMA AnswerKeepsOrder ==
  ASSUME Shape, NEW c \in Client, SessionOK(c), WriteDone(c)
  PROVE  SessionOK(c)'
<1> DEFINE r == asked[c][read[c]]
<1>1. /\ conn[c] = "writing" /\ read'[c] = read[c] /\ asked'[c] = asked[c]
      /\ got'[c] = Append(got[c], r.app)
      /\ conn'[c] = IF r.keep THEN "reading" ELSE "done"
  BY DEF WriteDone, Shape, Answering
<1>2. read[c] \in 1..Len(asked[c]) /\ Len(got[c]) = read[c] - 1 /\ r.app /= "detail"
  BY <1>1 DEF SessionOK, Counts, Progress
<1>3. r \in Request
  BY <1>2 DEF SessionOK, Counts
<1>4. r.app \in {"summary", "none"}
  BY <1>2, <1>3, HttpAssumption
<1>5. /\ got'[c] \in Seq({"summary", "none"}) /\ Len(got'[c]) = read[c]
      /\ got'[c][read[c]] = r.app
      /\ \A i \in 1..read[c] - 1 : got'[c][i] = got[c][i]
  BY <1>1, <1>2, <1>4 DEF SessionOK, Counts
<1>6. Counts(c)'
  BY <1>1, <1>5 DEF SessionOK, Counts
<1>7. InOrder(c)'
  BY <1>1, <1>2, <1>5 DEF SessionOK, InOrder
<1>8. Progress(c)'
  <2>1. /\ \A i \in 1..read[c] - 1 : asked[c][i].keep /\ asked[c][i].app /= "detail"
        /\ read[c] \in Nat
    BY DEF SessionOK, Counts, InOrder
  <2>2. CASE ~r.keep
    BY <1>1, <2>2 DEF Progress
  <2>3. CASE r.keep
    <3>1. \A i \in 1..read[c] : asked[c][i].keep /\ asked[c][i].app /= "detail"
      BY <1>2, <2>1, <2>3
    <3>2. conn'[c] = "reading"
      BY <1>1, <2>3
    <3>3. QED
      BY <1>1, <1>5, <3>1, <3>2 DEF Progress
  <2>4. QED
    BY <2>2, <2>3
<1>9. QED
  BY <1>6, <1>7, <1>8 DEF SessionOK

\* Sending is allowed at any stage and changes no request already sent.
LEMMA AskKeepsOrder ==
  ASSUME Shape, NEW c \in Client, SessionOK(c), Ask(c)
  PROVE  SessionOK(c)'
<1>1. PICK r \in Request : asked' = [asked EXCEPT ![c] = Append(@, r)]
  BY DEF Ask
<1>2. /\ asked'[c] = Append(asked[c], r)
      /\ read'[c] = read[c] /\ conn'[c] = conn[c] /\ got'[c] = got[c]
  BY <1>1 DEF Ask, Shape
<1>3. /\ asked'[c] \in Seq(Request) /\ Len(asked'[c]) = Len(asked[c]) + 1
      /\ \A i \in 1..Len(asked[c]) : asked'[c][i] = asked[c][i]
  BY <1>2, AskKeeps DEF SessionOK, Counts
<1>4. read[c] \in Nat /\ read[c] <= Len(asked[c]) /\ Len(asked[c]) \in Nat
      /\ Len(got[c]) \in Nat /\ Len(got[c]) <= read[c]
  BY DEF SessionOK, Counts, InOrder
<1>5. Counts(c)'
  BY <1>2, <1>3, <1>4 DEF SessionOK, Counts
<1>6. InOrder(c)'
  BY <1>2, <1>3, <1>4 DEF SessionOK, InOrder
<1>7. Progress(c)'
  BY <1>2, <1>3, <1>4 DEF SessionOK, Progress
<1>8. QED
  BY <1>5, <1>6, <1>7 DEF SessionOK

\* Every step keeps each session's answers in order.
LEMMA SessionsStep == Shape /\ SessionsOK /\ [Next]_vars => SessionsOK'
<1> SUFFICES ASSUME Shape, SessionsOK, [Next]_vars, NEW d \in Client
             PROVE  SessionOK(d)'
  BY DEF SessionsOK
<1>0. SessionOK(d)
  BY DEF SessionsOK
<1> USE DEF server, traffic
<1>1. CASE Resolve \/ RunEnds \/ Shutdown
  BY <1>0, <1>1, Untouched DEF Resolve, RunEnds, Shutdown
<1>2. ASSUME NEW e \in Endpoint, Fail(e) \/ Aborted(e) PROVE SessionOK(d)'
  BY <1>0, <1>2, ResetEnds, Untouched, Finished DEF Fail, Aborted
<1>3. ASSUME NEW c \in Client, Accept(c) PROVE SessionOK(d)'
  BY <1>0, <1>3, Untouched, Unheard DEF Accept, Shape
<1>4. ASSUME NEW c \in Client, Served(c) PROVE SessionOK(d)'
  <2>1. at[c] \in Endpoint
    BY DEF Shape
  <2>2. CASE d = c
    <3>1. conn'[c] = "reading"
      BY <1>4 DEF Served, ResetAt
    <3>2. QED
      BY <1>0, <1>4, <2>2, <3>1, Unheard DEF Served
  <2>3. CASE d /= c
    <3>1. conn'[d] = ResetAt(at[c])[d]
      BY <1>4, <2>3 DEF Served
    <3>2. QED
      BY <1>0, <1>4, <2>1, <3>1, ResetEnds, Untouched, Finished DEF Served
  <2>4. QED
    BY <2>2, <2>3
<1>5. ASSUME NEW c \in Client, ReadRequest(c) PROVE SessionOK(d)'
  <2>1. CASE d = c
    BY <1>0, <1>5, <2>1, ReadKeepsOrder
  <2>2. CASE d /= c
    BY <1>0, <1>5, <2>2, Untouched DEF ReadRequest, Shape
  <2>3. QED
    BY <2>1, <2>2
<1>6. ASSUME NEW c \in Client, WriteDone(c) PROVE SessionOK(d)'
  <2>1. CASE d = c
    BY <1>0, <1>6, <2>1, AnswerKeepsOrder
  <2>2. CASE d /= c
    BY <1>0, <1>6, <2>2, Untouched DEF WriteDone, Shape
  <2>3. QED
    BY <2>1, <2>2
<1>7. ASSUME NEW c \in Client, Timeout(c) \/ WriteFails(c) PROVE SessionOK(d)'
  BY <1>0, <1>7, Untouched, Finished DEF Timeout, WriteFails, Shape
<1>8. ASSUME NEW c \in Client, Connect(c) PROVE SessionOK(d)'
  BY <1>0, <1>8, Untouched, Unheard DEF Connect, Shape
<1>9. ASSUME NEW c \in Client, Ask(c) PROVE SessionOK(d)'
  <2>1. CASE d = c
    BY <1>0, <1>9, <2>1, AskKeepsOrder
  <2>2. CASE d /= c
    BY <1>0, <1>9, <2>2, Untouched DEF Ask, Shape
  <2>3. QED
    BY <2>1, <2>2
<1>10. ASSUME NEW c \in Client, Leave(c) PROVE SessionOK(d)'
  BY <1>0, <1>10, Untouched DEF Leave
<1>11. CASE UNCHANGED vars
  BY <1>0, <1>11, Untouched DEF vars
<1>12. QED
  BY <1>1, <1>2, <1>3, <1>4, <1>5, <1>6, <1>7, <1>8, <1>9, <1>10, <1>11 DEF Next

\* The invariant is inductive: no handler of the server or of a session, and
\* nothing a client does, breaks it.
THEOREM Inductive == Spec => []Inv
<1>1. Inv /\ [Next]_vars => Inv'
  BY ServerStep, ShapeStep, SessionsStep DEF Inv
<1>2. QED
  BY <1>1, Initially, PTL DEF Spec

\* The server's state keeps its types, whatever clients ask.
THEOREM Typed == Spec => []TypeOK
<1>1. Inv => TypeOK
  <2> SUFFICES ASSUME Inv PROVE TypeOK
    OBVIOUS
  <2>1. /\ run \in {"resolving", "serving", "over"} /\ held \in BOOLEAN
        /\ listen \in [Endpoint -> {"accepting", "accepted", "last", "aborted", "over"}]
    BY DEF Inv, ServerOK, ListenState, Listening
  <2>2. /\ at \in [Client -> Endpoint] /\ left \subseteq Client
        /\ conn \in [Client -> {"new", "pending", "accepted", "reading", "writing", "done"}]
        /\ asked \in [Client -> Seq(Request)]
        /\ read \in [Client -> Nat] /\ \A c \in Client : read[c] <= Len(asked[c])
        /\ got \in [Client -> Seq({"summary", "none"})]
    BY DEF Inv, Shape, SessionsOK, SessionOK, Counts
  <2>3. QED
    BY <2>1, <2>2 DEF TypeOK
<1>2. QED
  BY <1>1, Inductive, PTL

\* serve(first) && serve(next, last): for any number of endpoints, the server
\* listens on all of them or on none, and on none after shutdown.
THEOREM EndpointsTogether == Spec => []ListensTogether
<1>1. Inv => ListensTogether
  BY DEF Inv, ServerOK, Together, ListensTogether, Ending, Listening
<1>2. QED
  BY <1>1, Inductive, PTL

\* session: for any clients and requests, each client's answers are those to its
\* first requests, in order, and nothing is read after one that ends the session.
THEOREM RequestsAnsweredInOrder == Spec => []AnswersInOrder
<1>1. Inv => AnswersInOrder
  BY DEF Inv, SessionsOK, SessionOK, InOrder, AnswersInOrder
<1>2. QED
  BY <1>1, Inductive, PTL
=============================================================================
