---------------------------- MODULE ConnectorProofs ----------------------------
(***************************************************************************)
(* Connector's safety properties, for every number of messages sent.       *)
(***************************************************************************)
EXTENDS Connector, Integers, TLAPS

\* The loops run only on a connection; a closed socket has been cut.
LoopsOfConnection ==
    /\ run /= "loops" => sender = "done" /\ receiver = "done"
    /\ cut => run \in {"connecting", "loops"}
    /\ sender = "writing" => queue /= <<>>

\* The numbers of s follow one another and k ends them.
Ends(s, k) == \A i \in 1..Len(s) : s[i] = k - Len(s) + i

\* The number of the last message put on the line.
LastOnLine == sent - (IF sender = "writing" THEN Len(queue) - 1 ELSE Len(queue))

\* NothingSkipped, one sequence at a time: the queue ends with the last message
\* sent; on an open link the wire ends where the queue begins, and what the
\* venue has got ends where the wire begins; what is being written is there.
Chained ==
    /\ Ends(queue, sent)
    /\ run = "loops" /\ link = "open" /\ sender /= "done" =>
          /\ Ends(wire, LastOnLine)
          /\ Ends(got, LastOnLine - Len(wire))
          /\ sender = "writing" => Len(wire) + Len(got) > 0

Inv == TypeOK /\ LoopsOfConnection /\ NoSleepOnWork /\ UpIsConnected

\* No message is sent yet: the queues are empty.
LEMMA EmptyIsSequence == ASSUME NEW S PROVE <<>> \in Seq(S)
  OBVIOUS

\* The numbers of n messages are among those of n + 1.
LEMMA MoreMessages ==
  ASSUME NEW n \in Nat, NEW q \in Seq(1..n)
  PROVE  q \in Seq(1..n + 1) /\ Append(q, n + 1) \in Seq(1..n + 1)
<1>1. \A i \in 1..Len(q) : q[i] \in 1..n + 1
  OBVIOUS
<1>2. q \in Seq(1..n + 1)
  BY <1>1
<1>3. QED
  BY <1>2

\* The invariant holds of a new connector, whose run() has yet to start.
LEMMA Initially == Init => Inv
<1> SUFFICES ASSUME Init PROVE Inv
  OBVIOUS
<1>1. /\ queue \in Seq(1..sent) /\ wire \in Seq(1..sent)
      /\ got \in Seq(1..sent)
  BY EmptyIsSequence DEF Init
<1>2. sent \in 0..MaxSends
  BY ConnectorAssumption DEF Init
<1>3. /\ run = "pause" /\ ~stopped /\ ~cut /\ ~up /\ link = "closed"
      /\ sender = "done" /\ receiver = "done"
      /\ stopped \in BOOLEAN /\ cut \in BOOLEAN /\ up \in BOOLEAN
  BY DEF Init
<1>4. TypeOK
  BY <1>1, <1>2, <1>3 DEF TypeOK
<1>5. QED
  BY <1>3, <1>4 DEF Inv, LoopsOfConnection, NoSleepOnWork, UpIsConnected

\* Every step of a coroutine, of a call or of the network keeps the invariant:
\* in particular the send loop is woken by whatever gives it work.
LEMMA Inductive == Inv /\ [Next]_vars => Inv'
<1> SUFFICES ASSUME Inv, [Next]_vars PROVE Inv'
  OBVIOUS
<1> USE ConnectorAssumption DEF Inv, TypeOK, LoopsOfConnection, NoSleepOnWork,
        UpIsConnected, loops, socket, Woken
<1>1. CASE Begin
  BY <1>1 DEF Begin
<1>2. CASE Connected
  BY <1>2, EmptyIsSequence DEF Connected
<1>3. CASE ConnectFails
  BY <1>3, EmptyIsSequence DEF ConnectFails, Over
<1>4. CASE LoopsEnd
  BY <1>4, EmptyIsSequence DEF LoopsEnd, Over
<1>5. CASE SendLoop
  <2>1. sender' = "writing" => ~cut /\ up /\ queue /= <<>>
    BY <1>5 DEF SendLoop, Cancelled
  <2>2. queue /= <<>> => Head(queue) \in 1..sent
    OBVIOUS
  <2>3. wire' \in Seq(1..sent)
    <3>1. \/ wire' = wire
          \/ queue /= <<>> /\ wire' = Append(wire, Head(queue))
      BY <1>5, <2>1 DEF SendLoop
    <3>2. ASSUME NEW x \in 1..sent PROVE Append(wire, x) \in Seq(1..sent)
      OBVIOUS
    <3>3. QED
      BY <3>1, <3>2, <2>2
  <2>4. QED
    BY <1>5, <2>1, <2>3 DEF SendLoop, Cancelled
<1>6. CASE WriteDone
  BY <1>6 DEF WriteDone
<1>7. CASE WriteFails
  BY <1>7 DEF WriteFails
<1>8. CASE ReceiveEnds
  BY <1>8 DEF ReceiveEnds, ReadFails, ReceiveThrows
<1>9. CASE Send
  <2>1. /\ queue' \in Seq(1..sent') /\ wire' \in Seq(1..sent')
        /\ got' \in Seq(1..sent')
    BY <1>9, MoreMessages DEF Send
  <2>2. queue' /= <<>>
    BY <1>9 DEF Send
  <2>3. QED
    BY <1>9, <2>1, <2>2 DEF Send
<1>10. CASE Interrupt
  BY <1>10 DEF Interrupt, Cut
<1>11. CASE Stop
  BY <1>11 DEF Stop, Cut
<1>12. CASE Deliver
  BY <1>12 DEF Deliver
<1>13. CASE Break
  BY <1>13 DEF Break
<1>14. CASE UNCHANGED vars
  BY <1>14 DEF vars
<1> QED
  BY <1>1, <1>2, <1>3, <1>4, <1>5, <1>6, <1>7, <1>8, <1>9, <1>10, <1>11, <1>12,
     <1>13, <1>14 DEF Next, Coroutines, AttemptEnds, WriteEnds, Calls

\* The three sequences are sequences of numbers.
LEMMA Types ==
  ASSUME Inv
  PROVE  sent \in Nat /\ queue \in Seq(Nat) /\ wire \in Seq(Nat) /\ got \in Seq(Nat)
<1>1. sent \in Nat
  BY ConnectorAssumption DEF Inv, TypeOK
<1>2. ASSUME NEW q \in Seq(1..sent) PROVE q \in Seq(Nat)
  <2>1. \A i \in 1..Len(q) : q[i] \in Nat
    BY <1>1
  <2>2. QED
    BY <2>1
<1>3. QED
  BY <1>1, <1>2 DEF Inv, TypeOK

\* The queue of a new connector, and the line of a new connection, are in order.
LEMMA EndsEmpty == ASSUME NEW k PROVE Ends(<<>>, k)
  BY DEF Ends

\* The last message of a sequence in order is the one that ends it.
LEMMA EndsLast ==
  ASSUME NEW s \in Seq(Nat), NEW k \in Int, Ends(s, k), Len(s) > 0
  PROVE  s[Len(s)] = k
  BY DEF Ends

\* Taking the first message, pop_front, leaves the others in order.
LEMMA EndsTail ==
  ASSUME NEW s \in Seq(Nat), NEW k \in Int, Ends(s, k), s /= <<>>
  PROVE  /\ Ends(Tail(s), k) /\ Len(Tail(s)) = Len(s) - 1
         /\ Head(s) = k - Len(s) + 1
<1>1. /\ Len(Tail(s)) = Len(s) - 1 /\ Len(s) \in Nat \ {0}
      /\ \A i \in 1..Len(s) - 1 : Tail(s)[i] = s[i + 1]
      /\ Head(s) = s[1]
  OBVIOUS
<1>2. QED
  BY <1>1 DEF Ends

\* Sending the next message, push_back, keeps the order.
LEMMA EndsAppend ==
  ASSUME NEW s \in Seq(Nat), NEW k \in Int, Ends(s, k), NEW x, x = k + 1
  PROVE  Ends(Append(s, x), k + 1) /\ Len(Append(s, x)) = Len(s) + 1
<1>1. /\ Len(Append(s, x)) = Len(s) + 1 /\ Len(s) \in Nat
      /\ \A i \in 1..Len(s) : Append(s, x)[i] = s[i]
      /\ Append(s, x)[Len(s) + 1] = k + 1
  OBVIOUS
<1>2. QED
  BY <1>1 DEF Ends

\* Two sequences in order, one ending where the other begins, are one.
LEMMA EndsConcat ==
  ASSUME NEW s \in Seq(Nat), NEW t \in Seq(Nat), NEW k \in Int,
         Ends(s, k - Len(t)), Ends(t, k)
  PROVE  Ends(s \o t, k)
<1> DEFINE n == Len(s)
           m == Len(t)
           u == s \o t
<1>1. /\ Len(u) = n + m /\ n \in Nat /\ m \in Nat
      /\ \A i \in 1..n + m : u[i] = IF i <= n THEN s[i] ELSE t[i - n]
  OBVIOUS
<1>2. /\ \A i \in 1..n : s[i] = k - m - n + i
      /\ \A i \in 1..m : t[i] = k - m + i
  BY DEF Ends
<1> HIDE DEF n, m, u
<1>3. \A i \in 1..n + m : u[i] = k - (n + m) + i
  <2> SUFFICES ASSUME NEW i \in 1..n + m PROVE u[i] = k - (n + m) + i
    OBVIOUS
  <2>1. CASE i <= n
    <3>1. i \in 1..n /\ u[i] = s[i]
      BY <1>1, <2>1
    <3>2. QED
      BY <1>1, <1>2, <3>1
  <2>2. CASE i > n
    <3>1. i - n \in 1..m /\ u[i] = t[i - n]
      BY <1>1, <2>2
    <3>2. u[i] = k - m + (i - n)
      BY <1>2, <3>1
    <3>3. QED
      BY <1>1, <3>2
  <2>3. QED
    BY <1>1, <2>1, <2>2
<1>4. QED
  BY <1>1, <1>3 DEF Ends, u

\* A new connector has sent nothing and has no link.
LEMMA InitiallyChained == Init => Chained
  BY EndsEmpty DEF Init, Chained

\* No step breaks the order of the queue, the wire and what the venue has got.
LEMMA StaysChained == Inv /\ Chained /\ [Next]_vars => Chained'
<1> SUFFICES ASSUME Inv, Chained, [Next]_vars PROVE Chained'
  OBVIOUS
<1>0. /\ sent \in Nat /\ queue \in Seq(Nat) /\ wire \in Seq(Nat) /\ got \in Seq(Nat)
      /\ run /= "loops" => sender = "done"
      /\ sender = "writing" => queue /= <<>>
      /\ Len(queue) \in Nat /\ Len(wire) \in Nat /\ Len(got) \in Nat
      /\ LastOnLine \in Int
  <2>1. sent \in Nat /\ queue \in Seq(Nat) /\ wire \in Seq(Nat) /\ got \in Seq(Nat)
    BY Types
  <2>2. Len(queue) \in Nat /\ Len(wire) \in Nat /\ Len(got) \in Nat
    BY <2>1
  <2>3. LastOnLine \in Int
    BY <2>1, <2>2 DEF LastOnLine
  <2>4. QED
    BY <2>1, <2>2, <2>3 DEF Inv, LoopsOfConnection
<1> USE DEF loops, socket
<1>1. CASE Connected
  <2>1. wire' = <<>> /\ got' = <<>> /\ queue' = queue /\ sent' = sent
        /\ sender' = "ready"
    BY <1>1 DEF Connected
  <2>2. QED
    BY <2>1, EndsEmpty DEF Chained
<1>2. CASE ConnectFails \/ LoopsEnd
  BY <1>2, <1>0 DEF ConnectFails, LoopsEnd, Over, Chained
<1>3. CASE SendLoop
  <2>1. /\ sender = "ready" /\ run' = run /\ queue' = queue /\ sent' = sent
        /\ link' = link /\ got' = got
        /\ sender' = "writing" => queue /= <<>>
        /\ wire' = IF sender' = "writing" /\ link = "open"
                   THEN Append(wire, Head(queue)) ELSE wire
    BY <1>3 DEF SendLoop
  <2>2. CASE sender' = "writing" /\ link = "open" /\ run = "loops"
    <3>1. LastOnLine' = LastOnLine + 1 /\ LastOnLine = sent - Len(queue)
      BY <1>0, <2>1, <2>2 DEF LastOnLine
    <3>2. Head(queue) = LastOnLine + 1
      BY <1>0, <2>1, <2>2, <3>1, EndsTail DEF Chained
    <3>3. Ends(wire', LastOnLine + 1) /\ Len(wire') = Len(wire) + 1
      BY <1>0, <2>1, <2>2, <3>2, EndsAppend DEF Chained
    <3>4. Ends(got, LastOnLine' - Len(wire'))
      <4>1. LastOnLine' - Len(wire') = LastOnLine - Len(wire)
        BY <1>0, <3>1, <3>3
      <4>2. QED
        BY <4>1, <2>1, <2>2 DEF Chained
    <3>5. Len(wire') + Len(got) > 0
      BY <1>0, <3>3
    <3>6. Ends(queue, sent)
      BY DEF Chained
    <3>7. QED
      BY <2>1, <3>1, <3>3, <3>4, <3>5, <3>6 DEF Chained
  <2>3. CASE ~(sender' = "writing" /\ link = "open" /\ run = "loops")
    <3>1. wire' = wire /\ (sender' /= "writing" => LastOnLine' = LastOnLine)
      BY <1>3, <2>1, <2>3 DEF SendLoop, LastOnLine
    <3>2. QED
      BY <2>1, <2>3, <3>1 DEF Chained
  <2>4. QED
    BY <2>2, <2>3
<1>4. CASE WriteDone
  <2>1. /\ run' = run /\ link' = link /\ wire' = wire /\ got' = got
        /\ sender = "writing" /\ sender' = "ready" /\ sent' = sent
        /\ queue /= <<>> /\ queue' = Tail(queue)
    BY <1>0, <1>4 DEF WriteDone
  <2>2. Ends(queue', sent) /\ Len(queue') = Len(queue) - 1
    BY <1>0, <2>1, EndsTail DEF Chained
  <2>3. LastOnLine' = LastOnLine
    BY <2>1, <2>2 DEF LastOnLine
  <2>4. QED
    BY <2>1, <2>2, <2>3 DEF Chained
<1>5. CASE Send
  <2>1. /\ run' = run /\ link' = link /\ wire' = wire /\ got' = got
        /\ sent' = sent + 1 /\ queue' = Append(queue, sent + 1)
        /\ sender' = Woken
    BY <1>5 DEF Send
  <2>2. /\ sender' = "writing" <=> sender = "writing"
        /\ sender' = "done" <=> sender = "done"
    BY <2>1 DEF Woken
  <2>3. Ends(queue', sent') /\ Len(queue') = Len(queue) + 1
    BY <1>0, <2>1, EndsAppend DEF Chained
  <2>4. LastOnLine' = LastOnLine
    <3>1. /\ sent' - (Len(queue') - 1) = sent - (Len(queue) - 1)
          /\ sent' - Len(queue') = sent - Len(queue)
      BY <1>0, <2>1, <2>3
    <3>2. QED
      BY <2>2, <3>1 DEF LastOnLine
  <2>5. QED
    BY <2>1, <2>2, <2>3, <2>4 DEF Chained
<1>6. CASE Deliver
  <2>1. /\ UNCHANGED <<run, sender, queue, sent, link>> /\ wire /= <<>>
        /\ wire' = Tail(wire) /\ got' = Append(got, Head(wire))
        /\ run = "loops" /\ link = "open"
    BY <1>6 DEF Deliver
  <2>2. LastOnLine' = LastOnLine
    BY <2>1 DEF LastOnLine
  <2>3. CASE sender = "done"
    BY <2>1, <2>3 DEF Chained
  <2>4. CASE sender /= "done"
    <3>1. /\ Ends(wire', LastOnLine) /\ Len(wire') = Len(wire) - 1
          /\ Head(wire) = LastOnLine - Len(wire) + 1
      BY <1>0, <2>1, <2>4, EndsTail DEF Chained
    <3>2. /\ Ends(got', LastOnLine - Len(wire) + 1) /\ Len(got') = Len(got) + 1
      BY <1>0, <2>1, <2>4, <3>1, EndsAppend DEF Chained
    <3>3. LastOnLine - Len(wire) + 1 = LastOnLine' - Len(wire')
      BY <1>0, <2>2, <3>1
    <3>4. Len(wire') + Len(got') > 0
      BY <1>0, <3>1, <3>2
    <3>5. QED
      BY <2>1, <2>2, <3>1, <3>2, <3>3, <3>4 DEF Chained
  <2>5. QED
    BY <2>3, <2>4
<1>7. ASSUME UNCHANGED <<queue, sent, wire, got>>,
             run' = "loops" /\ link' = "open" /\ sender' /= "done" =>
                /\ run = "loops" /\ link = "open" /\ sender /= "done"
                /\ sender' = "writing" <=> sender = "writing"
      PROVE  Chained'
  BY <1>7 DEF Chained, LastOnLine
<1>8. CASE Begin \/ WriteFails \/ ReceiveEnds
  BY <1>7, <1>8 DEF Begin, WriteFails, ReceiveEnds, ReadFails, ReceiveThrows, Woken
<1>9. CASE Interrupt \/ Stop \/ Break
  BY <1>7, <1>9 DEF Interrupt, Stop, Cut, Break, Woken
<1>10. CASE UNCHANGED vars
  BY <1>7, <1>10 DEF vars
<1> QED
  BY <1>1, <1>2, <1>3, <1>4, <1>5, <1>6, <1>8, <1>9, <1>10
     DEF Next, Coroutines, AttemptEnds, WriteEnds, Calls

\* The chain of the three sequences is NothingSkipped's line.
LEMMA ChainedLine == Inv /\ Chained => NothingSkipped
<1> SUFFICES ASSUME Inv, Chained, run = "loops", link = "open", sender /= "done"
             PROVE  Ends(Line, sent)
  BY DEF NothingSkipped, Ends
<1>1. /\ sent \in Nat /\ queue \in Seq(Nat) /\ wire \in Seq(Nat) /\ got \in Seq(Nat)
      /\ sender = "writing" => queue /= <<>>
  BY Types DEF Inv, LoopsOfConnection
<1>2. Unwritten \in Seq(Nat) /\ Ends(Unwritten, sent)
  BY <1>1, EndsTail DEF Unwritten, Chained
<1>3. LastOnLine = sent - Len(Unwritten)
  BY <1>1, EndsTail DEF Unwritten, LastOnLine, Chained
<1>4. /\ Len(Unwritten) \in Nat /\ Len(wire) \in Nat
      /\ wire \o Unwritten \in Seq(Nat)
      /\ Len(wire \o Unwritten) = Len(wire) + Len(Unwritten)
  BY <1>1, <1>2
<1>5. Ends(wire \o Unwritten, sent)
  BY <1>1, <1>2, <1>3, EndsConcat DEF Chained
<1>6. LastOnLine - Len(wire) = sent - Len(wire \o Unwritten)
  BY <1>1, <1>3, <1>4
<1>7. Ends(got, sent - Len(wire \o Unwritten))
  BY <1>6 DEF Chained
<1>8. Ends(got \o (wire \o Unwritten), sent)
  <2> DEFINE t == wire \o Unwritten
  <2>1. /\ t \in Seq(Nat) /\ got \in Seq(Nat) /\ sent \in Int
        /\ Ends(got, sent - Len(t)) /\ Ends(t, sent)
    BY <1>1, <1>4, <1>5, <1>7
  <2> HIDE DEF t
  <2>2. Ends(got \o t, sent)
    BY <2>1, EndsConcat
  <2>3. QED
    BY <2>2 DEF t
<1>9. Line = got \o (wire \o Unwritten)
  BY <1>1, <1>2 DEF Line
<1>10. QED
  BY <1>8, <1>9

\* send_loop never sleeps through a message, a lost connection or an interrupt;
\* connstate_ is up only within a connection, and throughout its receive loop.
THEOREM AlwaysConsistent == Spec => []Consistent
<1>1. Inv => Consistent
  BY DEF Inv, Consistent
<1>2. QED
  BY <1>1, Initially, Inductive, PTL DEF Spec

\* While a link holds the venue gets every message, once and in order.
THEOREM VenueGetsAll == Spec => []NothingSkipped
<1>1. Spec => [](Inv /\ Chained)
  BY Initially, Inductive, InitiallyChained, StaysChained, PTL DEF Spec
<1>2. QED
  BY <1>1, ChainedLine, PTL

\* A completed write takes from the queue what it has put on the line.
THEOREM NothingLost == Spec => LostOnlyWithLink
<1> DEFINE OnLine == \/ link /= "open"
                     \/ \E s \in {got, wire} :
                           \E i \in 1..Len(s) : s[i] = Head(queue)
<1>1. Inv /\ Chained /\ [Next]_vars => [Len(queue') < Len(queue) => OnLine]_vars
  <2> SUFFICES ASSUME Inv, Chained, [Next]_vars, Len(queue') < Len(queue)
               PROVE  OnLine
    OBVIOUS
  <2>0. /\ sent \in Nat /\ queue \in Seq(Nat) /\ wire \in Seq(Nat)
        /\ got \in Seq(Nat)
        /\ sender = "writing" => queue /= <<>>
    BY Types DEF Inv, LoopsOfConnection
  <2> Len(queue) \in Nat /\ Len(wire) \in Nat /\ Len(got) \in Nat
    BY <2>0
  <2>1. CASE WriteDone
    <3> SUFFICES ASSUME link = "open" PROVE OnLine
      OBVIOUS
    <3>1. /\ run = "loops" /\ sender = "writing" /\ queue /= <<>>
          /\ Len(queue) >= 1 /\ Head(queue) = queue[1]
      BY <2>0, <2>1 DEF WriteDone
    <3>2. Head(queue) = LastOnLine /\ LastOnLine \in Int
      BY <2>0, <3>1, EndsTail DEF Chained, LastOnLine
    <3>3. CASE Len(wire) > 0
      <4>1. wire[Len(wire)] = Head(queue)
        BY <2>0, <3>1, <3>2, <3>3, EndsLast DEF Chained
      <4>2. QED
        BY <4>1, <3>3
    <3>4. CASE Len(wire) = 0
      <4>1. Len(got) > 0 /\ Ends(got, LastOnLine)
        BY <2>0, <3>1, <3>2, <3>4 DEF Chained
      <4>2. got[Len(got)] = Head(queue)
        BY <2>0, <3>2, <4>1, EndsLast
      <4>3. QED
        BY <4>1, <4>2
    <3>5. QED
      BY <3>3, <3>4
  <2>2. CASE Send
    BY <2>0, <2>2 DEF Send
  <2>3. CASE Begin \/ AttemptEnds \/ SendLoop \/ WriteFails \/ ReceiveEnds
             \/ LoopsEnd
    BY <2>3 DEF Begin, AttemptEnds, Connected, ConnectFails, LoopsEnd, Over,
       SendLoop, WriteFails, ReceiveEnds, ReadFails, ReceiveThrows
  <2>4. CASE Interrupt \/ Stop \/ Deliver \/ Break \/ UNCHANGED vars
    BY <2>4 DEF Interrupt, Stop, Cut, Deliver, Break, vars
  <2>5. QED
    BY <2>1, <2>2, <2>3, <2>4 DEF Next, Coroutines, WriteEnds, Calls
<1>2. Spec => [](Inv /\ Chained)
  BY Initially, Inductive, InitiallyChained, StaysChained, PTL DEF Spec
<1>3. QED
  BY <1>1, <1>2, PTL DEF Spec, LostOnlyWithLink

\* Every step is one of Uplink's or leaves the connection state and the queue
\* alone: only Send appends, only a completed write takes the head.
THEOREM UplinkImplemented == Spec => ImplementsUplink
<1>1. Init => Up!UplinkInit
  BY DEF Init, Up!UplinkInit
<1>2. Inv /\ [Next]_vars => [Up!UplinkNext]_(Up!uplink)
  <2> SUFFICES ASSUME Inv, [Next]_vars PROVE [Up!UplinkNext]_(Up!uplink)
    OBVIOUS
  <2> USE DEF Inv, TypeOK, LoopsOfConnection, UpIsConnected, Up!uplink
  <2>1. CASE Connected
    BY <2>1 DEF Connected, Up!UplinkNext, Up!Rise
  <2>2. CASE WriteDone
    BY <2>2 DEF WriteDone, Up!UplinkNext, Up!Written
  <2>3. CASE Send
    <3>1. sent + 1 \in 1..MaxSends
      BY <2>3, ConnectorAssumption DEF Send
    <3>2. queue' = Append(queue, sent + 1) /\ up' = up
      BY <2>3 DEF Send
    <3>3. QED
      BY <3>1, <3>2 DEF Up!UplinkNext, Up!Enqueue
  <2>4. up' \in {up, FALSE} /\ queue' = queue => [Up!UplinkNext]_(Up!uplink)
    BY DEF Up!UplinkNext, Up!Fall
  <2>5. CASE Begin \/ ConnectFails \/ SendLoop \/ WriteFails \/ ReceiveEnds
             \/ LoopsEnd
    BY <2>5, <2>4 DEF Begin, ConnectFails, LoopsEnd, Over, SendLoop,
       WriteFails, ReceiveEnds, ReadFails, ReceiveThrows
  <2>6. CASE Interrupt \/ Stop \/ Deliver \/ Break
    BY <2>6, <2>4 DEF Interrupt, Stop, Cut, Deliver, Break
  <2>7. CASE UNCHANGED vars
    BY <2>7, <2>4 DEF vars
  <2>8. QED
    BY <2>1, <2>2, <2>3, <2>5, <2>6, <2>7
       DEF Next, Coroutines, AttemptEnds, WriteEnds, Calls
<1>3. QED
  BY <1>1, <1>2, Initially, Inductive, PTL DEF Spec, ImplementsUplink, Up!UplinkSpec
=============================================================================
