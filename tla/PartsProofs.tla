------------------------------ MODULE PartsProofs ------------------------------
(***************************************************************************)
(* What is proved of parts of the program that stand by themselves, each   *)
(* for any values of its constants:                                        *)
(*                                                                         *)
(*  - DataLog: the file holds a prefix of what its log was given, all of   *)
(*    it when the log ends;                                                *)
(*  - Messages: who watches hears every message, and leaves no slot;       *)
(*  - Semaphore: no unit is lost, and the first to come is served first;   *)
(*  - TextPool: an object shows its own text;                              *)
(*  - Table: the columns are aligned;                                      *)
(*  - MarketKeys: the names of a market are read back as that market.      *)
(***************************************************************************)
EXTENDS DataLog, Messages, Semaphore, TextPool, Table, MarketKeys,
        SequenceTheorems, FiniteSetTheorems, WellFoundedInduction, TLAPS

-----------------------------------------------------------------------------
(* DataLog.  The lines on their way to the file stand in one row: the line *)
(* that run() has, the channel's buffer, its waiting sends, and the sends  *)
(* that were posted.  Place p of the row, counted from the first line ever *)
(* given, has line p, and the place after the last line the end of file.   *)

Alive == writer /= "over"

\* The places up to the line that run() has, to the end of the buffer, and to the
\* end of the waiting sends.
InHand == IF writer \in {"resumed", "writing"} THEN 1 ELSE 0
Before == Len(file) + InHand
Given == Before + Len(buffer) + Len(senders)

\* What is at place p when n lines were given.
At(p, n) == IF p <= n THEN p ELSE Eof

\* The channel's part of the row, where k places come before it.
Channel(k, b, s, n) ==
    /\ \A i \in 1..Len(b) : b[i] = At(k + i, n)
    /\ \A i \in 1..Len(s) : s[i] = At(k + Len(b) + i, n)
    /\ Len(b) <= Capacity /\ (s /= <<>> => Len(b) = Capacity)

LinesRow ==
    Alive =>
        /\ InHand = 1 => line = At(Before, sent)
        /\ writer = "writing" => line /= Eof
        /\ Channel(Before, buffer, senders, sent)
        /\ writer = "waiting" => buffer = <<>>

\* A user that is no tick_logger: its end of file is the last it posts.
OtherRow ==
    user = "other" =>
        /\ ~watching
        /\ \A i \in 1..Len(jobs) : jobs[i] \in 0..MaxLines
        /\ Alive =>
             /\ \A i \in 1..Len(jobs) : jobs[i] = At(Given + i, sent)
             /\ Given + Len(jobs) = IF ended THEN sent + 1 ELSE sent

\* A tick_logger hears what the connector receives until it is stopped.
LoggerRow ==
    user = "tick_logger" =>
        \/ ~ended /\ watching /\ jobs = <<>> /\ (Alive => Given = sent)
        \/ ~watching /\ jobs = <<Start>> /\ ~ended /\ (Alive => Given = sent)
        \/ ended /\ watching /\ jobs = <<Stop>> /\ (Alive => Given = sent)
        \/ ended /\ ~watching /\ jobs = <<Start, Stop>> /\ (Alive => Given = sent)
        \/ ended /\ ~watching /\ jobs = <<Eof>> /\ (Alive => Given = sent)
        \/ ended /\ ~watching /\ jobs = <<>> /\ (Alive => Given = sent + 1)

\* When the log has ended nobody can give it a line any more.
Ended ==
    ~Alive /\ ~broken => ended /\ Len(file) = sent /\ ~watching /\ jobs = <<>>

LogShape ==
    /\ user \in {"tick_logger", "other"} /\ inside \in BOOLEAN
    /\ watching \in BOOLEAN /\ ended \in BOOLEAN /\ broken \in BOOLEAN
    /\ sent \in Nat /\ sent <= MaxLines /\ line \in Nat
    /\ jobs \in Seq(Nat) /\ buffer \in Seq(Nat) /\ senders \in Seq(Nat) /\ file \in Seq(Nat)
    /\ writer \in {"new", "waiting", "resumed", "writing", "over"}
    /\ broken => ~Alive
    /\ inside => jobs = <<>>

LogInv == LogShape /\ FileIsPrefix /\ LinesRow /\ OtherRow /\ LoggerRow /\ Ended

-----------------------------------------------------------------------------
(* Sequences *)

\* One more at the end of a list of lines.
LEMMA NumberAppended ==
    ASSUME NEW s \in Seq(Nat), NEW l \in Nat
    PROVE  /\ Append(s, l) \in Seq(Nat) /\ Len(Append(s, l)) = Len(s) + 1
           /\ Append(s, l) /= <<>>
           /\ \A i \in 1..Len(s) + 1 : Append(s, l)[i] = IF i <= Len(s) THEN s[i] ELSE l
BY AppendProperties

\* The first of a list of lines goes.
LEMMA FirstRemoved ==
    ASSUME NEW s \in Seq(Nat), s /= <<>>
    PROVE  /\ Len(s) \in Nat \ {0} /\ Head(s) = s[1] /\ Head(s) \in Nat
           /\ Tail(s) \in Seq(Nat) /\ Len(Tail(s)) = Len(s) - 1
           /\ \A i \in 1..Len(s) - 1 : Tail(s)[i] = s[i + 1]
<1>1. Len(s) \in Nat /\ Len(s) /= 0
  BY EmptySeq, LenProperties
<1>2. Head(s) = s[1] /\ Head(s) \in Nat /\ Tail(s) \in Seq(Nat)
  BY HeadTailProperties
<1>3. Len(Tail(s)) = Len(s) - 1 /\ \A i \in 1..Len(Tail(s)) : Tail(s)[i] = s[i + 1]
  BY HeadTailProperties
<1> QED  BY <1>1, <1>2, <1>3

\* The empty list is the one of length 0.
LEMMA NoLines == \A s \in Seq(Nat) : s = <<>> <=> Len(s) = 0
BY EmptySeq, LenProperties

\* The queues of a tick_logger's jobs.
LEMMA OneJob ==
    ASSUME NEW a
    PROVE  /\ Head(<<a>>) = a /\ Tail(<<a>>) = <<>> /\ Append(<<>>, a) = <<a>>
           /\ <<a>> /= <<>>
OBVIOUS

\* What is in a list of two, and in one without its first.
LEMMA TwoJobs ==
    ASSUME NEW a, NEW b
    PROVE  /\ Head(<<a, b>>) = a /\ Tail(<<a, b>>) = <<b>> /\ <<a, b>> /= <<>>
           /\ Append(<<a>>, b) = <<a, b>>
<1> DEFINE S == {a, b}
           s == Append(<<a>>, b)
           t == <<a, b>>
<1>1. /\ <<a>> \in Seq(S) /\ b \in S /\ Len(<<a>>) = 1 /\ <<a>>[1] = a
      /\ t \in Seq(S) /\ Len(t) = 2 /\ t[1] = a /\ t[2] = b
  OBVIOUS
<1>2. s \in Seq(S) /\ Len(s) = 2 /\ s[1] = a /\ s[2] = b
  BY <1>1, AppendProperties
<1>3. \A i \in 1..Len(s) : s[i] = t[i]
  BY <1>1, <1>2
<1> HIDE DEF S, s, t
<1>4. s = t
  BY <1>1, <1>2, <1>3, SeqEqual
<1>5. Head(<<a, b>>) = a /\ Tail(<<a, b>>) = <<b>> /\ <<a, b>> /= <<>>
  OBVIOUS
<1> QED  BY <1>4, <1>5 DEF s, t

-----------------------------------------------------------------------------
(* The channel *)

\* do_send puts what it is given at the end of the row.
LEMMA DoSendExtends ==
    ASSUME LogShape, LinesRow, NEW l \in Nat, DoSend(l), file' = file,
           sent' \in Nat,
           Alive => l = At(Given + 1, sent'),
           Alive => \A p \in 1..Given : At(p, sent') = At(p, sent)
    PROVE  /\ LinesRow' /\ Alive' = Alive /\ (Alive => Given' = Given + 1)
           /\ line' \in Nat /\ buffer' \in Seq(Nat) /\ senders' \in Seq(Nat)
           /\ writer' \in {"new", "waiting", "resumed", "writing", "over"}
<1> USE DataLogAssumption DEF LogShape
<1>0. /\ Len(file) \in Nat /\ Len(buffer) \in Nat /\ Len(senders) \in Nat
      /\ InHand \in {0, 1} /\ Len(file') = Len(file)
  BY LenProperties DEF InHand
<1>1. CASE writer = "waiting"
  <2>1. writer' = "resumed" /\ line' = l /\ buffer' = buffer /\ senders' = senders
    BY <1>1 DEF DoSend, channel
  <2>2. buffer = <<>> /\ senders = <<>>
    BY <1>1, <1>0, NoLines DEF LinesRow, Alive, Channel
  <2>3. Len(buffer) = 0 /\ Len(senders) = 0
    BY <2>2, NoLines
  <2>4. Given = Len(file) /\ Before' = Len(file) + 1 /\ Given' = Len(file) + 1
    BY <1>0, <1>1, <2>1, <2>2, <2>3 DEF Given, Before, InHand
  <2>5. Channel(Before, buffer, senders, sent)'
    BY <2>1, <2>2, <2>3, <2>4, <1>0 DEF Channel
  <2>6. line' = At(Before', sent')
    BY <2>1, <2>4, <1>1 DEF Alive
  <2> QED  BY <1>1, <2>1, <2>4, <2>5, <2>6 DEF LinesRow, Alive
<1>2. CASE writer \notin {"waiting", "over"} /\ Len(buffer) < Capacity
  <2>1. /\ buffer' = Append(buffer, l) /\ senders' = senders
        /\ writer' = writer /\ line' = line
    BY <1>2 DEF DoSend
  <2>2. senders = <<>> /\ Len(senders) = 0
    BY <1>2, <1>0, NoLines DEF LinesRow, Alive, Channel
  <2>3. /\ buffer' \in Seq(Nat) /\ Len(buffer') = Len(buffer) + 1
        /\ \A i \in 1..Len(buffer) + 1 :
              buffer'[i] = IF i <= Len(buffer) THEN buffer[i] ELSE l
    BY <2>1, NumberAppended
  <2>4. Before' = Before /\ Before \in Nat /\ Given = Before + Len(buffer) /\ Given' = Given + 1
    <3>1. InHand' = InHand
      BY <2>1 DEF InHand
    <3>2. Before' = Before /\ Before \in Nat
      BY <3>1, <1>0 DEF Before
    <3> QED  BY <3>2, <1>0, <2>1, <2>2, <2>3 DEF Given
  <2>5. \A i \in 1..Len(buffer') : buffer'[i] = At(Before + i, sent')
    <3> SUFFICES ASSUME NEW i \in 1..Len(buffer) + 1 PROVE buffer'[i] = At(Before + i, sent')
      BY <2>3
    <3>1. CASE i <= Len(buffer)
      <4>1. buffer[i] = At(Before + i, sent)
        BY <3>1, <1>0, <1>2 DEF LinesRow, Alive, Channel
      <4>2. Before + i \in 1..Given
        BY <3>1, <2>4, <1>0
      <4> QED  BY <3>1, <4>1, <4>2, <2>3, <1>2 DEF Alive
    <3>2. CASE i = Len(buffer) + 1
      <4> HIDE DEF LogShape
      <4>0. Len(buffer) \in Nat /\ Before \in Nat
        BY <2>4, <1>0
      <4>1. buffer'[i] = l
        BY <3>2, <2>3, <4>0
      <4>3. Before + i = Given + 1
        BY <3>2, <2>4, <4>0
      <4>2. l = At(Given + 1, sent')
        BY <1>2 DEF Alive
      <4> QED  BY <4>1, <4>2, <4>3
    <3> QED  BY <3>1, <3>2, <1>0
  <2>6. Channel(Before, buffer, senders, sent)'
    <3>1. Len(senders') = 0 /\ senders' = <<>> /\ Len(buffer') <= Capacity
      BY <1>0, <1>2, <2>1, <2>2, <2>3
    <3>2. \A i \in 1..Len(senders') : senders'[i] = At(Before' + Len(buffer') + i, sent')
      BY <3>1
    <3>3. \A i \in 1..Len(buffer') : buffer'[i] = At(Before' + i, sent')
      BY <2>4, <2>5
    <3> QED  BY <3>1, <3>2, <3>3 DEF Channel
  <2>7. InHand = 1 => line' = At(Before', sent')
    <3> HAVE InHand = 1
    <3>1. Before \in 1..Given
      BY <1>0, <2>4 DEF Before, InHand
    <3> QED  BY <3>1, <2>1, <2>4, <1>2 DEF LinesRow, Alive
  <2>8. InHand' = InHand
    BY <2>1 DEF InHand
  <2> QED  BY <1>2, <2>1, <2>3, <2>4, <2>6, <2>7, <2>8 DEF LinesRow, Alive
<1>3. CASE writer \notin {"waiting", "over"} /\ ~(Len(buffer) < Capacity)
  <2>1. /\ senders' = Append(senders, l) /\ buffer' = buffer
        /\ writer' = writer /\ line' = line
    BY <1>3 DEF DoSend
  <2>2. /\ senders' \in Seq(Nat) /\ Len(senders') = Len(senders) + 1
        /\ \A i \in 1..Len(senders) + 1 :
              senders'[i] = IF i <= Len(senders) THEN senders[i] ELSE l
    BY <2>1, NumberAppended
  <2>3. /\ Before' = Before /\ Before \in Nat
        /\ Given = Before + Len(buffer) + Len(senders) /\ Given' = Given + 1
    <3>1. InHand' = InHand
      BY <2>1 DEF InHand
    <3>2. Before' = Before /\ Before \in Nat
      BY <3>1, <1>0 DEF Before
    <3> QED  BY <3>2, <1>0, <2>1, <2>2 DEF Given
  <2>4. \A i \in 1..Len(senders') : senders'[i] = At(Before + Len(buffer) + i, sent')
    <3> SUFFICES ASSUME NEW i \in 1..Len(senders) + 1
                 PROVE  senders'[i] = At(Before + Len(buffer) + i, sent')
      BY <2>2
    <3>1. CASE i <= Len(senders)
      <4>1. senders[i] = At(Before + Len(buffer) + i, sent)
        BY <3>1, <1>0, <1>3 DEF LinesRow, Alive, Channel
      <4>2. Before + Len(buffer) + i \in 1..Given
        BY <3>1, <2>3, <1>0
      <4> QED  BY <3>1, <4>1, <4>2, <2>2, <1>3 DEF Alive
    <3>2. CASE i = Len(senders) + 1
      <4> HIDE DEF LogShape
      <4>0. Len(buffer) \in Nat /\ Len(senders) \in Nat /\ Before \in Nat
        BY <2>3, <1>0
      <4>1. senders'[i] = l
        BY <3>2, <2>2, <4>0
      <4>3. Given + 1 = Before + Len(buffer) + i
        BY <3>2, <2>3, <4>0
      <4>2. l = At(Given + 1, sent')
        BY <1>3 DEF Alive
      <4> QED  BY <4>1, <4>2, <4>3
    <3> QED  BY <3>1, <3>2, <1>0
  <2>5. \A i \in 1..Len(buffer) : buffer[i] = At(Before + i, sent')
    <3> SUFFICES ASSUME NEW i \in 1..Len(buffer) PROVE buffer[i] = At(Before + i, sent')
      OBVIOUS
    <3>1. Before + i \in 1..Given
      BY <2>3, <1>0
    <3> QED  BY <3>1, <1>3 DEF LinesRow, Alive, Channel
  <2>6. Len(buffer) = Capacity
    BY <1>0, <1>3 DEF LinesRow, Alive, Channel
  <2>7. Channel(Before, buffer, senders, sent)'
    <3>1. \A i \in 1..Len(buffer') : buffer'[i] = At(Before' + i, sent')
      BY <2>1, <2>3, <2>5
    <3>2. \A i \in 1..Len(senders') : senders'[i] = At(Before' + Len(buffer') + i, sent')
      BY <2>1, <2>3, <2>4
    <3>3. Len(buffer') <= Capacity /\ Len(buffer') = Capacity
      BY <2>1, <2>6
    <3> QED  BY <3>1, <3>2, <3>3 DEF Channel
  <2>8. InHand = 1 => line' = At(Before', sent')
    <3> HAVE InHand = 1
    <3>1. Before \in 1..Given
      BY <1>0, <2>3 DEF Before, InHand
    <3> QED  BY <3>1, <2>1, <2>3, <1>3 DEF LinesRow, Alive
  <2>9. InHand' = InHand
    BY <2>1 DEF InHand
  <2> QED  BY <1>3, <2>1, <2>2, <2>3, <2>7, <2>8, <2>9 DEF LinesRow, Alive
<1>4. CASE writer = "over"
  BY <1>4 DEF DoSend, LinesRow, Alive, channel
<1> QED  BY <1>1, <1>2, <1>3, <1>4

\* The receiver takes the first of the row behind the line it wrote, if it had one.
LEMMA ReceiveKeeps ==
    ASSUME LogShape, LinesRow, Alive, Receive, writer /= "waiting",
           file' \in Seq(Nat), Len(file') = Before, sent' = sent, Given <= sent + 1
    PROVE  /\ LinesRow' /\ (Alive' => Given' = Given)
           /\ ~Alive' => Len(file') = sent /\ Given = sent + 1
           /\ line' \in Nat /\ buffer' \in Seq(Nat) /\ senders' \in Seq(Nat)
           /\ writer' \in {"waiting", "writing", "over"}
<1>0. /\ Len(file) \in Nat /\ Len(buffer) \in Nat /\ Len(senders) \in Nat
      /\ Before \in Nat /\ sent \in Nat /\ Given = Before + Len(buffer) + Len(senders)
      /\ buffer \in Seq(Nat) /\ senders \in Seq(Nat) /\ line \in Nat
  <2>1. Len(file) \in Nat /\ InHand \in {0, 1}
    BY LenProperties DEF LogShape, InHand
  <2> QED  BY <2>1, LenProperties DEF LogShape, Before, Given
<1>1. Channel(Before, buffer, senders, sent)
  BY DEF LinesRow
<1>2. CASE buffer = <<>>
  <2>1. writer' = "waiting" /\ line' = line /\ buffer' = buffer /\ senders' = senders
    BY <1>2 DEF Receive, channel
  <2>2. senders = <<>> /\ Len(senders) = 0 /\ Len(buffer) = 0
    <3>1. Len(buffer) = 0
      BY <1>0, <1>2, NoLines
    <3>2. senders = <<>>
      BY <1>1, <3>1, DataLogAssumption DEF Channel
    <3> QED  BY <3>1, <3>2, <1>0, NoLines
  <2>3. InHand' = 0 /\ Before' = Before
    <3>1. InHand' = 0
      BY <2>1 DEF InHand
    <3> QED  BY <3>1, <1>0 DEF Before
  <2>4. Given' = Given
    BY <2>1, <2>3 DEF Given
  <2>5. Channel(Before, buffer, senders, sent)'
    BY <1>1, <2>1, <2>3
  <2> QED  BY <1>0, <1>2, <2>1, <2>3, <2>4, <2>5 DEF LinesRow, Alive
<1>3. CASE buffer /= <<>>
  <2>1. Received(buffer[1]) /\ buffer[1] \in Nat
    BY <1>3, <1>0, FirstRemoved DEF Receive
  <2>2. /\ Len(buffer) >= 1 /\ buffer[1] = At(Before + 1, sent)
        /\ Tail(buffer) \in Seq(Nat) /\ Len(Tail(buffer)) = Len(buffer) - 1
        /\ \A i \in 1..Len(buffer) - 1 : Tail(buffer)[i] = buffer[i + 1]
    <3>1. /\ Len(buffer) \in Nat \ {0}
          /\ Tail(buffer) \in Seq(Nat) /\ Len(Tail(buffer)) = Len(buffer) - 1
          /\ \A i \in 1..Len(buffer) - 1 : Tail(buffer)[i] = buffer[i + 1]
      BY <1>3, <1>0, FirstRemoved
    <3>2. 1 \in 1..Len(buffer)
      BY <3>1
    <3>3. buffer[1] = At(Before + 1, sent)
      BY <1>1, <3>2 DEF Channel
    <3> QED  BY <3>1, <3>3
  <2>3. /\ buffer' \in Seq(Nat) /\ senders' \in Seq(Nat)
        /\ Len(buffer') + Len(senders') = Len(buffer) + Len(senders) - 1
        /\ Channel(Before + 1, buffer', senders', sent)
    <3>1. CASE senders = <<>>
      <4>1. buffer' = Tail(buffer) /\ senders' = senders
        BY <1>3, <3>1 DEF Receive
      <4>2. Len(senders) = 0
        BY <3>1, NoLines, <1>0
      <4>3. \A i \in 1..Len(buffer') : buffer'[i] = At((Before + 1) + i, sent)
        <5> SUFFICES ASSUME NEW i \in 1..Len(buffer) - 1
                     PROVE  buffer'[i] = At((Before + 1) + i, sent)
          BY <4>1, <2>2
        <5>1. i + 1 \in 1..Len(buffer) /\ Before + (i + 1) = (Before + 1) + i
          BY <1>0
        <5> QED  BY <4>1, <2>2, <5>1, <1>1 DEF Channel
      <4>4. \A i \in 1..Len(senders') :
               senders'[i] = At((Before + 1) + Len(buffer') + i, sent)
        BY <4>1, <4>2
      <4>5. Len(buffer') <= Capacity
        <5>1. Len(buffer) <= Capacity /\ Capacity \in Nat
          BY <1>1, DataLogAssumption DEF Channel
        <5>2. Len(buffer') = Len(buffer) - 1
          BY <4>1, <2>2
        <5> QED  BY <5>1, <5>2, <1>0
      <4>6. Len(buffer') + Len(senders') = Len(buffer) + Len(senders) - 1
        BY <4>1, <2>2, <1>0
      <4> QED  BY <3>1, <4>1, <4>3, <4>4, <4>5, <4>6, <2>2, <1>0 DEF Channel
    <3>2. CASE senders /= <<>>
      <4>1. /\ buffer' = Append(Tail(buffer), Head(senders))
            /\ senders' = Tail(senders)
        BY <1>3, <3>2 DEF Receive
      <4>2. /\ Len(senders) >= 1 /\ Head(senders) = senders[1] /\ Head(senders) \in Nat
            /\ Tail(senders) \in Seq(Nat) /\ Len(Tail(senders)) = Len(senders) - 1
            /\ \A i \in 1..Len(senders) - 1 : Tail(senders)[i] = senders[i + 1]
        BY <3>2, <1>0, FirstRemoved
      <4>3. /\ buffer' \in Seq(Nat) /\ Len(buffer') = Len(buffer)
            /\ \A i \in 1..Len(buffer) - 1 : buffer'[i] = Tail(buffer)[i]
            /\ buffer'[Len(buffer)] = senders[1]
        <5>1. /\ buffer' \in Seq(Nat) /\ Len(buffer') = Len(Tail(buffer)) + 1
              /\ \A i \in 1..Len(Tail(buffer)) + 1 :
                    buffer'[i] = IF i <= Len(Tail(buffer)) THEN Tail(buffer)[i]
                                                          ELSE Head(senders)
          <6> DEFINE t == Tail(buffer)  h == Head(senders)
          <6>1. t \in Seq(Nat) /\ h \in Nat /\ buffer' = Append(t, h)
            BY <4>1, <4>2, <2>2
          <6> HIDE DEF t, h
          <6>2. /\ buffer' \in Seq(Nat) /\ Len(buffer') = Len(t) + 1
                /\ \A i \in 1..Len(t) + 1 : buffer'[i] = IF i <= Len(t) THEN t[i] ELSE h
            BY <6>1, NumberAppended
          <6> QED  BY <6>2 DEF t, h
        <5>2. Len(Tail(buffer)) + 1 = Len(buffer) /\ Len(Tail(buffer)) = Len(buffer) - 1
          BY <2>2, <1>0
        <5>3. ASSUME NEW i \in 1..Len(buffer) - 1 PROVE buffer'[i] = Tail(buffer)[i]
          <6>1. i \in 1..Len(Tail(buffer)) + 1 /\ i <= Len(Tail(buffer))
            BY <5>2, <1>0
          <6> QED  BY <5>1, <6>1
        <5>4. buffer'[Len(buffer)] = senders[1]
          <6>1. Len(buffer) \in 1..Len(Tail(buffer)) + 1 /\ ~(Len(buffer) <= Len(Tail(buffer)))
            BY <5>2, <2>2, <1>0
          <6> QED  BY <5>1, <6>1, <4>2
        <5>5. buffer' \in Seq(Nat) /\ Len(buffer') = Len(buffer)
          BY <5>1, <5>2
        <5> QED  BY <5>3, <5>4, <5>5
      <4>4. \A i \in 1..Len(buffer') : buffer'[i] = At((Before + 1) + i, sent)
        <5> SUFFICES ASSUME NEW i \in 1..Len(buffer)
                     PROVE  buffer'[i] = At((Before + 1) + i, sent)
          BY <4>3
        <5>1. CASE i <= Len(buffer) - 1
          <6>1. i + 1 \in 1..Len(buffer) /\ Before + (i + 1) = (Before + 1) + i
                /\ i \in 1..Len(buffer) - 1
            BY <1>0, <5>1
          <6> QED  BY <4>3, <2>2, <5>1, <6>1, <1>1 DEF Channel
        <5>2. CASE ~(i <= Len(buffer) - 1)
          <6>0. i = Len(buffer) /\ 1 \in 1..Len(senders)
            BY <1>0, <5>2, <4>2
          <6>1. Before + Len(buffer) + 1 = (Before + 1) + i /\ 1 \in 1..Len(senders)
            BY <6>0, <1>0
          <6>2. senders[1] = At(Before + Len(buffer) + 1, sent)
            BY <6>1, <1>1 DEF Channel
          <6> QED  BY <4>3, <6>0, <6>1, <6>2
        <5> QED  BY <5>1, <5>2
      <4>5. \A i \in 1..Len(senders') :
               senders'[i] = At((Before + 1) + Len(buffer') + i, sent)
        <5> SUFFICES ASSUME NEW i \in 1..Len(senders) - 1
                     PROVE  senders'[i] = At((Before + 1) + Len(buffer) + i, sent)
          BY <4>1, <4>2, <4>3
        <5>1. /\ i + 1 \in 1..Len(senders)
              /\ Before + Len(buffer) + (i + 1) = (Before + 1) + Len(buffer) + i
          BY <1>0
        <5> QED  BY <4>1, <4>2, <5>1, <1>1 DEF Channel
      <4>6. Len(buffer') = Capacity /\ Len(buffer') <= Capacity
        BY <3>2, <4>3, <1>1 DEF Channel
      <4>7. Len(buffer') + Len(senders') = Len(buffer) + Len(senders) - 1
        BY <4>1, <4>2, <4>3, <1>0
      <4> QED  BY <4>1, <4>2, <4>3, <4>4, <4>5, <4>6, <4>7 DEF Channel
    <3> QED  BY <3>1, <3>2
  <2>4. CASE buffer[1] = Eof
    <3>1. writer' = "over" /\ line' = Eof
      BY <2>1, <2>4 DEF Received
    <3>2. ~(Before + 1 <= sent)
      BY <2>2, <2>4, <1>0 DEF At, Eof
    <3>3. Before = sent /\ Given = sent + 1
      BY <3>2, <2>2, <1>0
    <3> QED  BY <3>1, <3>3, <2>3 DEF LinesRow, Alive, Eof
  <2>5. CASE buffer[1] /= Eof
    <3>1. writer' = "writing" /\ line' = buffer[1]
      BY <2>1, <2>5 DEF Received
    <3>2. InHand' = 1 /\ Before' = Before + 1
      <4>1. InHand' = 1
        BY <3>1 DEF InHand
      <4> QED  BY <4>1 DEF Before
    <3>3. Given' = Given
      <4>1. Given' = (Before + 1) + Len(buffer') + Len(senders')
        BY <3>2 DEF Given
      <4>2. Len(buffer') \in Nat /\ Len(senders') \in Nat
        BY <2>3, LenProperties
      <4> QED  BY <4>1, <4>2, <2>3, <1>0
    <3>4. Channel(Before, buffer, senders, sent)' /\ line' = At(Before', sent')
      BY <3>1, <3>2, <2>2, <2>3
    <3> QED  BY <3>1, <3>3, <3>4, <2>1, <2>3, <2>5 DEF LinesRow, Alive
  <2> QED  BY <2>4, <2>5
<1> QED  BY <1>2, <1>3

-----------------------------------------------------------------------------
(* run() *)

\* The places are numbers.
LEMMA GivenNat ==
    ASSUME LogShape
    PROVE  /\ Len(file) \in Nat /\ InHand \in {0, 1} /\ Before \in Nat /\ Given \in Nat
           /\ Before <= Given
<1>1. Len(file) \in Nat /\ Len(buffer) \in Nat /\ Len(senders) \in Nat
  BY LenProperties DEF LogShape
<1>2. InHand \in {0, 1}
  BY DEF InHand
<1> QED  BY <1>1, <1>2 DEF Before, Given

\* The end of file is given last.
LEMMA EofIsLast ==
    ASSUME LogShape, OtherRow, LoggerRow, Alive
    PROVE  /\ Given <= sent + 1
           /\ Given = sent + 1 => ended /\ ~watching /\ jobs = <<>>
<1>1. Given \in Nat /\ sent \in Nat
  BY GivenNat DEF LogShape
<1>2. CASE user = "other"
  <2>1. /\ Given + Len(jobs) = IF ended THEN sent + 1 ELSE sent
        /\ ~watching
    BY <1>2 DEF OtherRow
  <2>2. Len(jobs) \in Nat /\ (jobs = <<>> <=> Len(jobs) = 0)
    BY LenProperties, NoLines DEF LogShape
  <2> QED  BY <1>1, <2>1, <2>2
<1>3. CASE user = "tick_logger"
  BY <1>1, <1>3 DEF LoggerRow
<1> QED  BY <1>2, <1>3 DEF LogShape

\* run() waits for the next line, or has it.
LEMMA ReceiveInv ==
    ASSUME LogInv, Alive, Receive, writer /= "waiting",
           file' \in Seq(Nat), Len(file') = Before, FileIsPrefix',
           UNCHANGED <<use, jobs, watching, ended, sent, broken>>
    PROVE  LogInv'
<1> USE DEF use
<1>1. /\ Given <= sent + 1
      /\ Given = sent + 1 => ended /\ ~watching /\ jobs = <<>>
  BY EofIsLast DEF LogInv
<1>2. /\ LinesRow' /\ (Alive' => Given' = Given)
      /\ ~Alive' => Len(file') = sent /\ Given = sent + 1
      /\ line' \in Nat /\ buffer' \in Seq(Nat) /\ senders' \in Seq(Nat)
      /\ writer' \in {"waiting", "writing", "over"}
  BY <1>1, ReceiveKeeps DEF LogInv
<1>3. LogShape'
  BY <1>2 DEF LogInv, LogShape, Alive
<1>4. OtherRow'
  BY <1>2 DEF LogInv, OtherRow
<1>5. LoggerRow'
  BY <1>2 DEF LogInv, LoggerRow
<1>6. Ended'
  BY <1>1, <1>2 DEF Ended
<1> QED  BY <1>2, <1>3, <1>4, <1>5, <1>6 DEF LogInv

\* run() begins.
LEMMA BeginInv == ASSUME LogInv, Begin PROVE LogInv'
<1>1. Receive /\ writer = "new" /\ Alive
  BY DEF Begin, Alive
<1>2. file' = file /\ Len(file') = Before
  <2>1. file' = file
    BY DEF Begin, disk
  <2>2. InHand = 0
    BY <1>1 DEF InHand
  <2> QED  BY <2>1, <2>2, GivenNat DEF Before, LogInv
<1>3. FileIsPrefix' /\ file' \in Seq(Nat)
  BY <1>2 DEF LogInv, LogShape, FileIsPrefix
<1> QED  BY <1>1, <1>2, <1>3, ReceiveInv DEF Begin, disk

\* A line is in the file.
LEMMA WriteDoneInv == ASSUME LogInv, WriteDone PROVE LogInv'
<1>1. Receive /\ writer = "writing" /\ Alive
  BY DEF WriteDone, Alive
<1>2. Before = Len(file) + 1 /\ Len(file) \in Nat
  <2>1. InHand = 1
    BY <1>1 DEF InHand
  <2> QED  BY <2>1, GivenNat DEF Before, LogInv
<1>3. line = Before
  <2>1. line = At(Before, sent) /\ line /= Eof
    <3>1. InHand = 1
      BY <1>1 DEF InHand
    <3> QED  BY <1>1, <3>1 DEF LogInv, LinesRow
  <2> QED  BY <2>1 DEF At
<1>4. /\ file' \in Seq(Nat) /\ Len(file') = Before
      /\ \A i \in 1..Len(file) + 1 : file'[i] = IF i <= Len(file) THEN file[i] ELSE line
  BY <1>2, NumberAppended DEF WriteDone, LogInv, LogShape
<1>5. FileIsPrefix'
  <2> SUFFICES ASSUME NEW i \in 1..Len(file) + 1 PROVE file'[i] = i
    BY <1>2, <1>4 DEF FileIsPrefix
  <2>1. CASE i <= Len(file)
    <3>1. i \in 1..Len(file)
      BY <1>2, <2>1
    <3> QED  BY <3>1, <2>1, <1>4 DEF LogInv, FileIsPrefix
  <2>2. CASE ~(i <= Len(file))
    <3>1. i = Before
      BY <1>2, <2>2
    <3> QED  BY <3>1, <2>2, <1>3, <1>4
  <2> QED  BY <2>1, <2>2
<1> QED  BY <1>1, <1>4, <1>5, ReceiveInv DEF WriteDone

\* run() has a line, which it writes, or the end of file.
LEMMA ResumeInv == ASSUME LogInv, Resume PROVE LogInv'
<1> USE DEF use, channel, disk
<1>1. /\ writer = "resumed" /\ Alive /\ InHand = 1 /\ line' = line
      /\ UNCHANGED <<use, jobs, watching, ended, sent, channel, disk>>
  BY DEF Resume, Received, Alive, InHand
<1>2. /\ Given <= sent + 1
      /\ Given = sent + 1 => ended /\ ~watching /\ jobs = <<>>
  BY <1>1, EofIsLast DEF LogInv
<1>3. /\ Before = Len(file) + 1 /\ Before <= Given /\ Given \in Nat /\ Len(file) \in Nat
      /\ sent \in Nat
  BY <1>1, GivenNat DEF Before, LogInv, LogShape
<1>4. line = At(Before, sent)
  BY <1>1 DEF LogInv, LinesRow
<1>5. FileIsPrefix'
  BY <1>1 DEF LogInv, FileIsPrefix
<1>6. CASE line = Eof
  <2>1. writer' = "over"
    BY <1>6 DEF Resume, Received
  <2>2. Before = sent + 1 /\ Given = sent + 1
    BY <1>2, <1>3, <1>4, <1>6 DEF At, Eof
  <2>3. Len(file) = sent /\ ended /\ ~watching /\ jobs = <<>>
    BY <1>2, <1>3, <2>2
  <2>4. ~Alive' /\ LinesRow' /\ Ended'
    BY <1>1, <2>1, <2>3 DEF Alive, LinesRow, Ended
  <2>5. LogShape'
    BY <1>1, <2>1 DEF LogInv, LogShape, Alive
  <2>6. OtherRow' /\ LoggerRow'
    BY <1>1, <2>4 DEF LogInv, OtherRow, LoggerRow
  <2> QED  BY <1>5, <2>4, <2>5, <2>6 DEF LogInv
<1>7. CASE line /= Eof
  <2>1. writer' = "writing" /\ InHand' = 1 /\ Alive'
    BY <1>7 DEF Resume, Received, InHand, Alive
  <2>2. Before' = Before /\ Given' = Given
    BY <1>1, <2>1 DEF Before, Given
  <2>3. LinesRow'
    BY <1>1, <1>4, <1>7, <2>1, <2>2 DEF LogInv, LinesRow, Channel
  <2>4. LogShape' /\ Ended'
    BY <1>1, <2>1 DEF LogInv, LogShape, Alive, Ended
  <2>5. OtherRow' /\ LoggerRow'
    BY <1>1, <2>1, <2>2 DEF LogInv, OtherRow, LoggerRow
  <2> QED  BY <1>5, <2>3, <2>4, <2>5 DEF LogInv
<1> QED  BY <1>6, <1>7

\* A write fails: the log is over.
LEMMA WriteFailsInv == ASSUME LogInv, WriteFails PROVE LogInv'
<1> USE DEF use, channel
<1>1. /\ ~Alive' /\ broken' = TRUE /\ writer' = "over"
      /\ UNCHANGED <<use, jobs, watching, ended, sent, channel, line, file>>
  BY DEF WriteFails, Alive
<1>2. LinesRow' /\ Ended' /\ FileIsPrefix'
  BY <1>1 DEF LogInv, LinesRow, Ended, FileIsPrefix
<1>3. LogShape'
  BY <1>1 DEF LogInv, LogShape
<1>4. OtherRow' /\ LoggerRow'
  BY <1>1 DEF LogInv, OtherRow, LoggerRow
<1> QED  BY <1>2, <1>3, <1>4 DEF LogInv

-----------------------------------------------------------------------------
(* The users and their jobs *)

\* One more line leaves what stands before it in the row.
LEMMA AtEarlier ==
    ASSUME NEW n \in Nat, NEW p \in Nat, p <= n
    PROVE  At(p, n + 1) = At(p, n) /\ At(p, n) = p
BY DEF At

\* One more line is given.
LEMMA AtNext ==
    ASSUME NEW n \in Nat
    PROVE  At(n + 1, n + 1) = n + 1 /\ At(n + 1, n) = Eof
BY DEF At

\* What a step that sends nothing more to the channel keeps.
LEMMA LogQuiet ==
    ASSUME LogShape, LinesRow, UNCHANGED <<channel, writer, line, file, sent>>
    PROVE  LinesRow' /\ Alive' = Alive /\ Given' = Given
<1>1. /\ buffer' = buffer /\ senders' = senders /\ writer' = writer
      /\ line' = line /\ file' = file /\ sent' = sent
  BY DEF channel
<1>2. InHand' = InHand
  BY <1>1 DEF InHand
<1>3. Before' = Before /\ Given' = Given
  BY <1>1, <1>2 DEF Before, Given
<1> QED  BY <1>1, <1>2, <1>3 DEF LinesRow, Alive, Channel

\* A tick_logger hears a message.
LEMMA HearInv == ASSUME LogInv, Hear PROVE LogInv'
<1> USE DEF use, disk
<1>1. /\ user = "tick_logger" /\ watching /\ sent < MaxLines /\ sent' = sent + 1
      /\ DoSend(sent + 1) /\ sent \in Nat
      /\ UNCHANGED <<use, jobs, watching, ended, disk>>
  BY DEF Hear, LogInv, LogShape
<1>2. Alive => Given = sent
  BY <1>1 DEF LogInv, LoggerRow
<1>3. sent + 1 \in Nat /\ sent' \in Nat
  BY <1>1
<1>4. Alive => sent + 1 = At(Given + 1, sent')
  BY <1>1, <1>2, AtNext
<1>5. Alive => \A p \in 1..Given : At(p, sent') = At(p, sent)
  BY <1>1, <1>2, AtEarlier
<1>6. /\ LinesRow' /\ Alive' = Alive /\ (Alive => Given' = Given + 1)
      /\ line' \in Nat /\ buffer' \in Seq(Nat) /\ senders' \in Seq(Nat)
      /\ writer' \in {"new", "waiting", "resumed", "writing", "over"}
  BY <1>1, <1>3, <1>4, <1>5, DoSendExtends DEF LogInv
<1>7. LogShape'
  BY <1>1, <1>6, DataLogAssumption DEF LogInv, LogShape
<1>8. FileIsPrefix' /\ OtherRow'
  BY <1>1 DEF LogInv, FileIsPrefix, OtherRow
<1>9. Alive' => Given' = sent'
  BY <1>1, <1>2, <1>6
<1>10. LoggerRow'
  BY <1>1, <1>9 DEF LogInv, LoggerRow
<1>11. Ended'
  BY <1>1, <1>6 DEF LogInv, Ended
<1> QED  BY <1>6, <1>7, <1>8, <1>10, <1>11 DEF LogInv

\* A user gives a line.
LEMMA SendInv == ASSUME LogInv, Send PROVE LogInv'
<1> USE DEF use, disk
<1>1. /\ user = "other" /\ ~ended /\ ~watching /\ sent < MaxLines /\ sent' = sent + 1
      /\ sent \in Nat /\ UNCHANGED <<use, watching, ended, disk>>
      /\ Alive => Given + Len(jobs) = sent
      /\ Alive => \A i \in 1..Len(jobs) : jobs[i] = At(Given + i, sent)
      /\ \A i \in 1..Len(jobs) : jobs[i] \in 0..MaxLines
  BY DEF Send, LogInv, LogShape, OtherRow
<1>2. Given \in Nat /\ Len(jobs) \in Nat /\ sent' \in Nat
  BY <1>1, GivenNat, LenProperties DEF LogInv, LogShape
<1>3. FileIsPrefix' /\ LoggerRow'
  BY <1>1 DEF LogInv, FileIsPrefix, LoggerRow
<1>4. ~(~Alive /\ ~broken)
  BY <1>1 DEF LogInv, Ended
<1>5. CASE inside
  <2>1. jobs = <<>> /\ jobs' = jobs /\ DoSend(sent + 1) /\ Len(jobs) = 0
    BY <1>1, <1>5, NoLines DEF Send, LogInv, LogShape
  <2>2. Alive => Given = sent
    BY <1>1, <1>2, <2>1
  <2>3. Alive => sent + 1 = At(Given + 1, sent')
    BY <1>1, <2>2, AtNext
  <2>4. Alive => \A p \in 1..Given : At(p, sent') = At(p, sent)
    BY <1>1, <2>2, AtEarlier
  <2>5. /\ LinesRow' /\ Alive' = Alive /\ (Alive => Given' = Given + 1)
        /\ line' \in Nat /\ buffer' \in Seq(Nat) /\ senders' \in Seq(Nat)
        /\ writer' \in {"new", "waiting", "resumed", "writing", "over"}
    <3>1. sent + 1 \in Nat
      BY <1>1
    <3> QED  BY <1>1, <1>2, <2>1, <2>3, <2>4, <3>1, DoSendExtends DEF LogInv
  <2>6. LogShape'
    BY <1>1, <2>1, <2>5, DataLogAssumption DEF LogInv, LogShape
  <2>7. Alive' => Given' + Len(jobs') = sent'
    BY <1>1, <2>1, <2>2, <2>5
  <2>8. OtherRow'
    BY <1>1, <2>1, <2>7 DEF OtherRow
  <2>9. Ended'
    BY <1>1, <1>4, <2>5 DEF Ended
  <2> QED  BY <1>3, <2>5, <2>6, <2>8, <2>9 DEF LogInv
<1>6. CASE ~inside
  <2>1. jobs' = Append(jobs, sent + 1) /\ UNCHANGED <<channel, writer, line>>
    BY <1>1, <1>6 DEF Send
  <2>2. /\ jobs' \in Seq(Nat) /\ Len(jobs') = Len(jobs) + 1
        /\ \A i \in 1..Len(jobs) + 1 :
              jobs'[i] = IF i <= Len(jobs) THEN jobs[i] ELSE sent + 1
    <3>1. sent + 1 \in Nat /\ jobs \in Seq(Nat)
      BY <1>1 DEF LogInv, LogShape
    <3> QED  BY <2>1, <3>1, NumberAppended
  <2>3. /\ buffer' = buffer /\ senders' = senders /\ writer' = writer
        /\ line' = line /\ file' = file /\ Alive' = Alive
    BY <1>1, <2>1 DEF channel, Alive
  <2>4. Before' = Before /\ Given' = Given /\ InHand' = InHand
    <3>1. InHand' = InHand
      BY <2>3 DEF InHand
    <3> QED  BY <2>3, <3>1 DEF Before, Given
  <2>5. Alive => \A p \in 1..Given : At(p, sent') = At(p, sent)
    BY <1>1, <1>2, AtEarlier
  <2>6. LinesRow'
    <3> SUFFICES ASSUME Alive PROVE LinesRow'
      BY <2>3 DEF LinesRow
    <3>1. /\ Len(buffer) \in Nat /\ Len(senders) \in Nat /\ Before \in Nat
          /\ InHand \in {0, 1} /\ Given = Before + Len(buffer) + Len(senders)
          /\ Len(file) \in Nat /\ Before = Len(file) + InHand
      BY GivenNat, LenProperties DEF LogInv, LogShape, Given, Before
    <3>2. Channel(Before, buffer, senders, sent')
      <4>1. ASSUME NEW i \in 1..Len(buffer) PROVE buffer[i] = At(Before + i, sent')
        <5>1. Before + i \in 1..Given
          BY <3>1
        <5> QED  BY <2>5, <5>1 DEF LogInv, LinesRow, Channel
      <4>2. ASSUME NEW i \in 1..Len(senders)
            PROVE  senders[i] = At(Before + Len(buffer) + i, sent')
        <5>1. Before + Len(buffer) + i \in 1..Given
          BY <3>1
        <5> QED  BY <2>5, <5>1 DEF LogInv, LinesRow, Channel
      <4> QED  BY <4>1, <4>2 DEF LogInv, LinesRow, Channel
    <3>3. InHand = 1 => line = At(Before, sent')
      <4> HAVE InHand = 1
      <4>1. Before \in 1..Given
        BY <3>1
      <4> QED  BY <2>5, <4>1 DEF LogInv, LinesRow
    <3> QED  BY <2>3, <2>4, <3>2, <3>3 DEF LogInv, LinesRow, Channel
  <2>7. LogShape'
    BY <1>1, <1>6, <2>2, <2>3, DataLogAssumption DEF LogInv, LogShape
  <2>8. \A i \in 1..Len(jobs') : jobs'[i] \in 0..MaxLines
    BY <1>1, <1>2, <2>2, DataLogAssumption
  <2>9. Alive' => \A i \in 1..Len(jobs') : jobs'[i] = At(Given' + i, sent')
    <3> SUFFICES ASSUME Alive, NEW i \in 1..Len(jobs) + 1
                 PROVE  jobs'[i] = At(Given + i, sent')
      BY <2>2, <2>3, <2>4
    <3>1. CASE i <= Len(jobs)
      <4>1. i \in 1..Len(jobs) /\ jobs'[i] = jobs[i]
        BY <1>2, <2>2, <3>1
      <4>2. jobs[i] = At(Given + i, sent) /\ Given + Len(jobs) = sent
        BY <1>1, <4>1
      <4>3. Given + i \in Nat /\ Given + i <= sent
        BY <1>2, <4>1, <4>2
      <4> QED  BY <1>1, <4>1, <4>2, <4>3, AtEarlier
    <3>2. CASE ~(i <= Len(jobs))
      <4>1. jobs'[i] = sent + 1 /\ Given + i = sent + 1
        BY <1>1, <1>2, <2>2, <3>2
      <4> QED  BY <1>1, <4>1, AtNext
    <3> QED  BY <3>1, <3>2
  <2>10. Alive' => Given' + Len(jobs') = sent'
    BY <1>1, <1>2, <2>2, <2>3, <2>4
  <2>11. OtherRow'
    BY <1>1, <2>8, <2>9, <2>10 DEF OtherRow
  <2>12. Ended'
    BY <1>1, <1>4, <2>3 DEF Ended
  <2> QED  BY <1>3, <2>6, <2>7, <2>11, <2>12 DEF LogInv
<1> QED  BY <1>5, <1>6

\* The end of file is what stands behind the last line.
LEMMA EofSent ==
    ASSUME LogShape, LinesRow, Alive => Given = sent, DoSend(Eof), file' = file, sent' = sent
    PROVE  /\ LinesRow' /\ Alive' = Alive /\ (Alive => Given' = sent' + 1)
           /\ line' \in Nat /\ buffer' \in Seq(Nat) /\ senders' \in Seq(Nat)
           /\ writer' \in {"new", "waiting", "resumed", "writing", "over"}
<1>1. sent' \in Nat /\ Eof \in Nat /\ sent \in Nat
  BY DEF LogShape, Eof
<1>2. Alive => Eof = At(Given + 1, sent')
  BY <1>1, AtNext
<1>3. Alive => \A p \in 1..Given : At(p, sent') = At(p, sent)
  OBVIOUS
<1>4. /\ LinesRow' /\ Alive' = Alive /\ (Alive => Given' = Given + 1)
      /\ line' \in Nat /\ buffer' \in Seq(Nat) /\ senders' \in Seq(Nat)
      /\ writer' \in {"new", "waiting", "resumed", "writing", "over"}
  BY <1>1, <1>2, <1>3, DoSendExtends
<1> QED  BY <1>4

\* The user is destroyed.
LEMMA DestroyInv == ASSUME LogInv, Destroy PROVE LogInv'
<1> USE DEF use, disk
<1>1. /\ ~ended /\ ended' = TRUE /\ UNCHANGED <<use, sent, disk>>
      /\ user \in {"tick_logger", "other"} /\ sent \in Nat /\ jobs \in Seq(Nat)
  BY DEF Destroy, LogInv, LogShape
<1>2. FileIsPrefix'
  BY <1>1 DEF LogInv, FileIsPrefix
<1>3. ~(~Alive /\ ~broken)
  BY <1>1 DEF LogInv, Ended
<1>4. CASE user = "tick_logger" /\ inside
  <2>1. /\ jobs' = jobs /\ jobs = <<>> /\ watching' = FALSE /\ DoSend(Eof)
    BY <1>4 DEF Destroy, Halt, LogInv, LogShape
  <2>2. Alive => Given = sent
    BY <1>1, <1>4, <2>1 DEF LogInv, LoggerRow
  <2>3. /\ LinesRow' /\ Alive' = Alive /\ (Alive => Given' = sent' + 1)
        /\ line' \in Nat /\ buffer' \in Seq(Nat) /\ senders' \in Seq(Nat)
        /\ writer' \in {"new", "waiting", "resumed", "writing", "over"}
    BY <1>1, <2>1, <2>2, EofSent DEF LogInv
  <2>4. LogShape'
    BY <1>1, <2>1, <2>3 DEF LogInv, LogShape
  <2>5. LoggerRow' /\ OtherRow'
    BY <1>1, <1>4, <2>1, <2>3 DEF LoggerRow, OtherRow
  <2>6. Ended'
    BY <1>1, <1>3, <2>3 DEF Ended
  <2> QED  BY <1>2, <2>3, <2>4, <2>5, <2>6 DEF LogInv
<1>5. CASE user = "other" /\ inside
  <2>1. /\ jobs' = jobs /\ jobs = <<>> /\ watching' = watching /\ ~watching /\ DoSend(Eof)
        /\ Len(jobs) = 0
    BY <1>5, NoLines DEF Destroy, LogInv, LogShape, OtherRow
  <2>2. Alive => Given = sent
    BY <1>1, <1>5, <2>1, GivenNat DEF LogInv, OtherRow
  <2>3. /\ LinesRow' /\ Alive' = Alive /\ (Alive => Given' = sent' + 1)
        /\ line' \in Nat /\ buffer' \in Seq(Nat) /\ senders' \in Seq(Nat)
        /\ writer' \in {"new", "waiting", "resumed", "writing", "over"}
    BY <1>1, <2>1, <2>2, EofSent DEF LogInv
  <2>4. LogShape'
    BY <1>1, <2>1, <2>3 DEF LogInv, LogShape
  <2>5. LoggerRow' /\ OtherRow'
    BY <1>1, <1>5, <2>1, <2>3 DEF LoggerRow, OtherRow
  <2>6. Ended'
    BY <1>1, <1>3, <2>3 DEF Ended
  <2> QED  BY <1>2, <2>3, <2>4, <2>5, <2>6 DEF LogInv
<1>6. CASE ~inside
  <2> DEFINE j == IF user = "tick_logger" THEN Stop ELSE Eof
  <2>1. jobs' = Append(jobs, j) /\ UNCHANGED <<watching, channel, writer, line>>
    BY <1>6 DEF Destroy
  <2>2. LinesRow' /\ Alive' = Alive /\ Given' = Given
    BY <1>1, <2>1, LogQuiet DEF LogInv
  <2>3. j \in Nat
    BY DataLogAssumption DEF Stop, Eof
  <2>4. /\ jobs' \in Seq(Nat) /\ Len(jobs') = Len(jobs) + 1
        /\ \A i \in 1..Len(jobs) + 1 : jobs'[i] = IF i <= Len(jobs) THEN jobs[i] ELSE j
    BY <1>1, <2>1, <2>3, NumberAppended
  <2>5. LogShape'
    BY <1>1, <1>6, <2>1, <2>2, <2>4 DEF LogInv, LogShape, channel
  <2>6. Ended'
    BY <1>1, <1>3, <2>2 DEF Ended
  <2>7. CASE user = "tick_logger"
    <3>1. /\ Alive => Given = sent
          /\ \/ watching /\ jobs = <<>>
             \/ ~watching /\ jobs = <<Start>>
      BY <1>1, <2>7 DEF LogInv, LoggerRow
    <3>2. \/ watching /\ jobs' = <<Stop>>
          \/ ~watching /\ jobs' = <<Start, Stop>>
      <4>1. jobs' = Append(jobs, Stop)
        BY <2>1, <2>7
      <4>2. Append(<<>>, Stop) = <<Stop>> /\ Append(<<Start>>, Stop) = <<Start, Stop>>
        BY OneJob, TwoJobs
      <4> QED  BY <3>1, <4>1, <4>2
    <3>3. LoggerRow' /\ OtherRow'
      BY <1>1, <2>1, <2>2, <2>7, <3>1, <3>2 DEF LoggerRow, OtherRow
    <3> QED  BY <1>2, <2>2, <2>5, <2>6, <3>3 DEF LogInv
  <2>8. CASE user = "other"
    <3>1. /\ ~watching /\ (Alive => Given + Len(jobs) = sent)
          /\ Alive => \A i \in 1..Len(jobs) : jobs[i] = At(Given + i, sent)
          /\ \A i \in 1..Len(jobs) : jobs[i] \in 0..MaxLines
      BY <1>1, <2>8 DEF LogInv, OtherRow
    <3>2. Given \in Nat /\ Len(jobs) \in Nat
      BY <1>1, GivenNat, LenProperties DEF LogInv
    <3>3. j = 0
      BY <2>8 DEF Eof
    <3>4. \A i \in 1..Len(jobs') : jobs'[i] \in 0..MaxLines
      BY <2>4, <3>1, <3>2, <3>3, DataLogAssumption
    <3>5. Alive => \A i \in 1..Len(jobs') : jobs'[i] = At(Given + i, sent)
      <4> SUFFICES ASSUME Alive, NEW i \in 1..Len(jobs) + 1
                   PROVE  jobs'[i] = At(Given + i, sent)
        BY <2>4
      <4>1. CASE i <= Len(jobs)
        BY <2>4, <3>1, <3>2, <4>1
      <4>2. CASE ~(i <= Len(jobs))
        <5>1. Given + i = sent + 1 /\ jobs'[i] = j
          BY <2>4, <3>1, <3>2, <4>2
        <5> QED  BY <1>1, <3>3, <5>1, AtNext DEF Eof
      <4> QED  BY <4>1, <4>2
    <3>6. Alive => Given + Len(jobs') = sent + 1
      BY <2>4, <3>1, <3>2
    <3>7. OtherRow' /\ LoggerRow'
      BY <1>1, <2>1, <2>2, <2>8, <3>1, <3>4, <3>5, <3>6 DEF OtherRow, LoggerRow
    <3> QED  BY <1>2, <2>2, <2>5, <2>6, <3>7 DEF LogInv
  <2> QED  BY <1>1, <2>7, <2>8
<1> QED  BY <1>1, <1>4, <1>5, <1>6

\* A job that was posted runs.
LEMMA RunJobInv == ASSUME LogInv, RunJob PROVE LogInv'
<1> USE DEF use, disk
<1>1. /\ jobs /= <<>> /\ ~inside /\ UNCHANGED <<use, ended, sent, disk>>
      /\ user \in {"tick_logger", "other"} /\ sent \in Nat /\ jobs \in Seq(Nat)
      /\ MaxLines \in Nat
  BY DataLogAssumption DEF RunJob, LogInv, LogShape
<1>2. FileIsPrefix'
  BY <1>1 DEF LogInv, FileIsPrefix
<1>3. ~Alive => broken
  BY <1>1 DEF LogInv, Ended
<1>4. /\ Len(jobs) \in Nat \ {0} /\ Head(jobs) = jobs[1] /\ Head(jobs) \in Nat
      /\ Tail(jobs) \in Seq(Nat) /\ Len(Tail(jobs)) = Len(jobs) - 1
      /\ \A i \in 1..Len(jobs) - 1 : Tail(jobs)[i] = jobs[i + 1]
  BY <1>1, FirstRemoved
<1>5. CASE user = "tick_logger"
  <2>0. \/ ~ended /\ ~watching /\ jobs = <<Start>> /\ Head(jobs) = Start
        \/ ended /\ watching /\ jobs = <<Stop>> /\ Head(jobs) = Stop
        \/ ended /\ ~watching /\ jobs = <<Start, Stop>> /\ Head(jobs) = Start
        \/ ended /\ ~watching /\ jobs = <<Eof>> /\ Head(jobs) = Eof
    BY <1>1, <1>5, OneJob, TwoJobs DEF LogInv, LoggerRow
  <2> Start /= Stop /\ Start /= Eof /\ Stop /= Eof
    BY <1>1 DEF Start, Stop, Eof
  <2>1. Alive => Given = sent
    BY <1>1, <1>5 DEF LogInv, LoggerRow
  <2>2. CASE Head(jobs) = Start /\ watching' = TRUE /\ jobs' = Tail(jobs)
             /\ UNCHANGED <<channel, writer, line>>
    <3>1. \/ ~ended /\ ~watching /\ jobs' = <<>>
          \/ ended /\ ~watching /\ jobs' = <<Stop>>
      <4>1. \/ ~ended /\ ~watching /\ jobs = <<Start>>
            \/ ended /\ ~watching /\ jobs = <<Start, Stop>>
        BY <2>0, <2>2
      <4>2. Tail(<<Start>>) = <<>> /\ Tail(<<Start, Stop>>) = <<Stop>>
        BY OneJob, TwoJobs
      <4> QED  BY <2>2, <4>1, <4>2
    <3>2. LinesRow' /\ Alive' = Alive /\ Given' = Given
      BY <1>1, <2>2, LogQuiet DEF LogInv
    <3>3. LoggerRow' /\ OtherRow' /\ Ended'
      BY <1>1, <1>3, <1>5, <2>1, <2>2, <3>1, <3>2 DEF LoggerRow, OtherRow, Ended
    <3>4. LogShape'
      BY <1>1, <1>4, <2>2, <3>2 DEF LogInv, LogShape, channel
    <3> QED  BY <1>2, <3>2, <3>3, <3>4 DEF LogInv
  <2>3. CASE Head(jobs) = Stop /\ Halt /\ jobs' = Tail(jobs)
    <3>1. ended /\ watching /\ jobs' = <<>> /\ watching' = FALSE /\ DoSend(Eof)
      BY <2>0, <2>3, OneJob DEF Halt
    <3>2. /\ LinesRow' /\ Alive' = Alive /\ (Alive => Given' = sent' + 1)
          /\ line' \in Nat /\ buffer' \in Seq(Nat) /\ senders' \in Seq(Nat)
          /\ writer' \in {"new", "waiting", "resumed", "writing", "over"}
      BY <1>1, <2>1, <3>1, EofSent DEF LogInv
    <3>3. LoggerRow' /\ OtherRow' /\ Ended'
      BY <1>1, <1>3, <1>5, <3>1, <3>2 DEF LoggerRow, OtherRow, Ended
    <3>4. LogShape'
      BY <1>1, <1>4, <2>3, <3>1, <3>2 DEF LogInv, LogShape
    <3> QED  BY <1>2, <3>2, <3>3, <3>4 DEF LogInv
  <2>4. CASE Head(jobs) = Stop /\ watching' = FALSE /\ jobs' = Append(Tail(jobs), Eof)
             /\ UNCHANGED <<channel, writer, line>>
    <3>1. ended /\ watching /\ jobs' = <<Eof>>
      BY <2>0, <2>4, OneJob
    <3>2. LinesRow' /\ Alive' = Alive /\ Given' = Given
      BY <1>1, <2>4, LogQuiet DEF LogInv
    <3>3. LoggerRow' /\ OtherRow' /\ Ended'
      BY <1>1, <1>3, <1>5, <2>1, <2>4, <3>1, <3>2 DEF LoggerRow, OtherRow, Ended
    <3>4. jobs' \in Seq(Nat)
      BY <1>4, <2>4, NumberAppended DEF Eof
    <3>5. LogShape'
      BY <1>1, <2>4, <3>2, <3>4 DEF LogInv, LogShape, channel
    <3> QED  BY <1>2, <3>2, <3>3, <3>5 DEF LogInv
  <2>5. CASE Head(jobs) \in 0..MaxLines /\ DoSend(Head(jobs)) /\ jobs' = Tail(jobs)
             /\ watching' = watching
    <3>1. ended /\ ~watching /\ jobs' = <<>> /\ DoSend(Eof)
      <4>1. Head(jobs) /= Start /\ Head(jobs) /= Stop
        BY <1>1, <2>5 DEF Start, Stop
      <4> QED  BY <2>0, <2>5, <4>1, OneJob
    <3>2. /\ LinesRow' /\ Alive' = Alive /\ (Alive => Given' = sent' + 1)
          /\ line' \in Nat /\ buffer' \in Seq(Nat) /\ senders' \in Seq(Nat)
          /\ writer' \in {"new", "waiting", "resumed", "writing", "over"}
      BY <1>1, <2>1, <3>1, EofSent DEF LogInv
    <3>3. LoggerRow' /\ OtherRow' /\ Ended'
      BY <1>1, <1>3, <1>5, <2>5, <3>1, <3>2 DEF LoggerRow, OtherRow, Ended
    <3>4. LogShape'
      BY <1>1, <1>4, <2>5, <3>1, <3>2 DEF LogInv, LogShape
    <3> QED  BY <1>2, <3>2, <3>3, <3>4 DEF LogInv
  <2> QED  BY <2>2, <2>3, <2>4, <2>5 DEF RunJob
<1>6. CASE user = "other"
  <2>1. /\ ~watching /\ \A i \in 1..Len(jobs) : jobs[i] \in 0..MaxLines
        /\ Alive => \A i \in 1..Len(jobs) : jobs[i] = At(Given + i, sent)
        /\ Alive => Given + Len(jobs) = IF ended THEN sent + 1 ELSE sent
    BY <1>6 DEF LogInv, OtherRow
  <2>2. 1 \in 1..Len(jobs)
    BY <1>4
  <2>3. Head(jobs) \in 0..MaxLines /\ (Alive => Head(jobs) = At(Given + 1, sent))
    BY <1>4, <2>1, <2>2
  <2>4. DoSend(Head(jobs)) /\ jobs' = Tail(jobs) /\ watching' = watching
    BY <1>1, <2>3 DEF RunJob, Start, Stop
  <2>5. /\ LinesRow' /\ Alive' = Alive /\ (Alive => Given' = Given + 1)
        /\ line' \in Nat /\ buffer' \in Seq(Nat) /\ senders' \in Seq(Nat)
        /\ writer' \in {"new", "waiting", "resumed", "writing", "over"}
    <3>1. sent' \in Nat /\ sent' = sent /\ file' = file
      BY <1>1
    <3> DEFINE h == Head(jobs)
    <3>2. h \in Nat /\ DoSend(h) /\ (Alive => h = At(Given + 1, sent'))
      BY <1>4, <2>3, <2>4, <3>1
    <3>3. Alive => \A p \in 1..Given : At(p, sent') = At(p, sent)
      BY <3>1
    <3> HIDE DEF h
    <3> QED  BY <3>1, <3>2, <3>3, DoSendExtends DEF LogInv
  <2>6. LogShape'
    BY <1>1, <1>4, <2>4, <2>5 DEF LogInv, LogShape
  <2>7. Given \in Nat
    BY GivenNat DEF LogInv
  <2>8. OtherRow'
    <3>1. ASSUME NEW i \in 1..Len(jobs) - 1
          PROVE  /\ jobs'[i] \in 0..MaxLines
                 /\ Alive => jobs'[i] = At((Given + 1) + i, sent)
      <4>1. i + 1 \in 1..Len(jobs) /\ Given + (i + 1) = (Given + 1) + i
        BY <1>4, <2>7
      <4>2. jobs'[i] = jobs[i + 1]
        BY <1>4, <2>4
      <4> QED  BY <2>1, <4>1, <4>2
    <3>2. Len(jobs') = Len(jobs) - 1
      BY <1>4, <2>4
    <3>3. Alive => (Given + 1) + Len(jobs') = Given + Len(jobs)
      BY <1>4, <2>7, <3>2
    <3> QED  BY <1>1, <2>1, <2>4, <2>5, <3>1, <3>2, <3>3 DEF OtherRow
  <2>9. LoggerRow' /\ Ended'
    BY <1>1, <1>3, <1>6, <2>5 DEF LoggerRow, Ended
  <2> QED  BY <1>2, <2>5, <2>6, <2>8, <2>9 DEF LogInv
<1> QED  BY <1>1, <1>5, <1>6

-----------------------------------------------------------------------------
(* The invariant, and what it says of the file *)

\* The invariant holds of a log that was just made.
LEMMA InitInv == ASSUME Init PROVE LogInv
<1>1. /\ sent = 0 /\ Len(file) = 0 /\ Len(buffer) = 0 /\ Len(senders) = 0
      /\ writer = "new" /\ ~ended /\ ~broken /\ inside \in BOOLEAN
      /\ buffer = <<>> /\ senders = <<>> /\ file = <<>> /\ line = 0
      /\ user \in {"tick_logger", "other"} /\ ended = FALSE /\ broken = FALSE
      /\ watching = (user = "tick_logger" /\ inside)
  BY DEF Init, Eof
<1>2. InHand = 0 /\ Before = 0 /\ Given = 0 /\ Alive
  BY <1>1 DEF InHand, Before, Given, Alive
<1>3. \/ jobs = <<>> /\ (user = "other" \/ watching)
      \/ jobs = <<Start>> /\ user = "tick_logger" /\ ~watching /\ ~inside
  BY <1>1 DEF Init
<1>4. jobs \in Seq(Nat)
  <2>1. Start \in Nat
    BY DataLogAssumption DEF Start
  <2>2. <<>> \in Seq(Nat) /\ <<Start>> \in Seq(Nat)
    BY <2>1
  <2> QED  BY <1>3, <2>2
<1>5. LogShape
  <2>1. /\ watching \in BOOLEAN /\ buffer \in Seq(Nat) /\ senders \in Seq(Nat)
        /\ file \in Seq(Nat) /\ (inside => jobs = <<>>)
    BY <1>1, <1>3
  <2>2. ended \in BOOLEAN /\ broken \in BOOLEAN
    BY <1>1
  <2>4. sent \in Nat /\ sent <= MaxLines /\ line \in Nat
    BY <1>1, DataLogAssumption
  <2>3. writer \in {"new", "waiting", "resumed", "writing", "over"}
    BY <1>1
  <2> QED  BY <1>1, <1>2, <1>4, <2>1, <2>2, <2>3, <2>4 DEF LogShape
<1>6. LinesRow /\ FileIsPrefix
  BY <1>1, <1>2, DataLogAssumption DEF LinesRow, Channel, FileIsPrefix
<1>7. LoggerRow /\ Ended
  BY <1>1, <1>2, <1>3 DEF LoggerRow, Ended
<1>8. OtherRow
  <2> SUFFICES ASSUME user = "other" PROVE OtherRow
    BY DEF OtherRow
  <2>1. jobs = <<>> /\ Len(jobs) = 0 /\ ~watching
    BY <1>1, <1>3
  <2> QED  BY <1>1, <1>2, <2>1 DEF OtherRow
<1> QED  BY <1>5, <1>6, <1>7, <1>8 DEF LogInv

\* Every step keeps the invariant.
LEMMA NextInv == ASSUME LogInv, [Next]_vars PROVE LogInv'
<1>1. CASE Next
  BY <1>1, BeginInv, ResumeInv, WriteDoneInv, WriteFailsInv, HearInv, SendInv, DestroyInv,
     RunJobInv DEF Next
<1>2. CASE UNCHANGED vars
  <2>1. UNCHANGED <<use, jobs, watching, ended, sent, channel, writer, line, disk>>
    BY <1>2 DEF vars
  <2>2. LinesRow' /\ Alive' = Alive /\ Given' = Given
    BY <2>1, LogQuiet DEF LogInv, disk
  <2>3. LogShape' /\ FileIsPrefix'
    BY <2>1, <2>2 DEF LogInv, LogShape, FileIsPrefix, use, disk, channel
  <2>4. OtherRow' /\ LoggerRow' /\ Ended'
    BY <2>1, <2>2 DEF LogInv, OtherRow, LoggerRow, Ended, use, disk
  <2> QED  BY <2>2, <2>3, <2>4 DEF LogInv
<1> QED  BY <1>1, <1>2

\* The invariant of a log and its user.
LEMMA LogInductive == Spec => []LogInv
<1>1. Init => LogInv
  BY InitInv
<1>2. LogInv /\ [Next]_vars => LogInv'
  BY NextInv
<1> QED  BY <1>1, <1>2, PTL DEF Spec

\* data_log: whatever the capacity of the channel, the file never holds a line out
\* of order, twice, or behind one that is missing.
THEOREM FileHoldsPrefix == Spec => []FileIsPrefix
<1>1. LogInv => FileIsPrefix
  BY DEF LogInv
<1> QED  BY <1>1, LogInductive, PTL

\* ~data_log and its end of file: a log that ended without a failed write holds all
\* it was given, and its user, who gave the end of file, gives nothing after it.
THEOREM LogEndsComplete == Spec => []EndsComplete
<1>1. LogInv => EndsComplete
  BY DEF LogInv, Ended, Alive, EndsComplete
<1> QED  BY <1>1, LogInductive, PTL

-----------------------------------------------------------------------------
(* The least member of a set of naturals.                                  *)

Less == {p \in Nat \X Nat : p[1] < p[2]}

\* A set of naturals has a least member.
LEMMA LeastOf ==
  ASSUME NEW S, S \subseteq Nat, S # {}
  PROVE  \E n \in S : \A m \in S : n <= m
<1>1. OpToRel(<, Nat) = Less
  BY Zenon DEF OpToRel, Less
<1>2. IsWellFoundedOn(Less, Nat)
  BY <1>1, NatLessThanWellFounded, Zenon
<1>3. PICK n \in S : \A m \in S : ~(<<m, n>> \in Less)
  BY <1>2, WFMin
<1>4. \A m \in S : ~(m < n)
  BY <1>3 DEF Less
<1> QED  BY <1>3, <1>4

\* Min finds it.
LEMMA MinIs ==
  ASSUME NEW S, S \subseteq Nat, S # {}
  PROVE  Min(S) \in S /\ \A m \in S : Min(S) <= m
<1>1. \E n \in S : \A m \in S : n <= m
  BY LeastOf
<1> QED  BY <1>1 DEF Min

-----------------------------------------------------------------------------
(* Lists of things that are in them at most once.                          *)

Distinct(s) == \A i, j \in 1..Len(s) : s[i] = s[j] => i = j

\* Something goes to the end of a list.
LEMMA AppendedTo ==
  ASSUME NEW S, NEW s \in Seq(S), NEW x \in S
  PROVE  /\ Append(s, x) \in Seq(S) /\ Append(s, x) # <<>>
         /\ \A y : Contains(Append(s, x), y) <=> Contains(s, y) \/ y = x
         /\ Distinct(s) /\ ~Contains(s, x) => Distinct(Append(s, x))
<1>1. PICK m \in Nat : m = Len(s)
  BY LenProperties
<1> DEFINE t == Append(s, x)
<1>2. t \in Seq(S) /\ Len(t) = m + 1 /\ t[m + 1] = x /\ \A i \in 1..m : t[i] = s[i]
  BY <1>1, AppendProperties
<1>3. t # <<>>
  BY <1>1, <1>2, EmptySeq
<1> HIDE DEF t
<1>4. \A i \in 1..m + 1 : i \in 1..m \/ i = m + 1
  BY <1>1
<1>5. \A y : Contains(t, y) <=> Contains(s, y) \/ y = x
  <2>1. 1..m \subseteq 1..m + 1 /\ m + 1 \in 1..m + 1
    BY <1>1
  <2> QED  BY <1>1, <1>2, <1>4, <2>1 DEF Contains
<1>6. Distinct(s) /\ ~Contains(s, x) => Distinct(t)
  BY <1>1, <1>2, <1>4 DEF Distinct, Contains
<1> QED  BY <1>2, <1>3, <1>5, <1>6 DEF t

\* The first of a list goes.
LEMMA HeadTaken ==
  ASSUME NEW S, NEW s \in Seq(S), s # <<>>
  PROVE  /\ Head(s) \in S /\ Tail(s) \in Seq(S) /\ Contains(s, Head(s))
         /\ \A y : Contains(s, y) <=> Contains(Tail(s), y) \/ y = Head(s)
         /\ Distinct(s) => Distinct(Tail(s)) /\ ~Contains(Tail(s), Head(s))
<1>1. PICK m \in Nat : Len(s) = m + 1
  <2>1. Len(s) \in Nat /\ Len(s) # 0
    BY LenProperties, EmptySeq
  <2>2. Len(s) - 1 \in Nat /\ Len(s) = (Len(s) - 1) + 1
    BY <2>1
  <2> QED  BY <2>2
<1> DEFINE t == Tail(s)
           h == Head(s)
<1>2. h \in S /\ t \in Seq(S) /\ Len(t) = m /\ \A i \in 1..m : t[i] = s[i + 1]
  BY <1>1, HeadTailProperties
<1>3. h = s[1]
  BY <1>1
<1> HIDE DEF t, h
<1>4. /\ 1 \in 1..m + 1 /\ \A i \in 1..m : i + 1 \in 1..m + 1 /\ i + 1 # 1
      /\ \A i \in 1..m + 1 : i = 1 \/ \E j \in 1..m : i = j + 1
  <2>1. \A i \in 1..m + 1 : i # 1 => i - 1 \in 1..m /\ i = (i - 1) + 1
    BY <1>1
  <2> QED  BY <1>1, <2>1
<1>5. \A y : Contains(s, y) <=> Contains(t, y) \/ y = h
  <2>1. ASSUME NEW y, Contains(s, y) PROVE Contains(t, y) \/ y = h
    <3>1. PICK i \in 1..m + 1 : s[i] = y
      BY <1>1, <2>1 DEF Contains
    <3>2. i = 1 \/ \E j \in 1..m : t[j] = y
      <4>1. i = 1 \/ \E j \in 1..m : i = j + 1
        BY <1>4
      <4> QED  BY <1>2, <3>1, <4>1
    <3> QED  BY <1>2, <1>3, <3>1, <3>2 DEF Contains
  <2>2. ASSUME NEW y, Contains(t, y) PROVE Contains(s, y)
    <3>1. PICK i \in 1..m : t[i] = y
      BY <1>2, <2>2 DEF Contains
    <3>2. i + 1 \in 1..m + 1 /\ s[i + 1] = y
      BY <1>2, <1>4, <3>1
    <3> QED  BY <1>1, <3>2 DEF Contains
  <2>3. Contains(s, h)
    BY <1>1, <1>3, <1>4 DEF Contains
  <2> QED  BY <2>1, <2>2, <2>3
<1>6. Distinct(s) => Distinct(t) /\ ~Contains(t, h)
  BY <1>1, <1>2, <1>3, <1>4 DEF Distinct, Contains
<1>7. Contains(s, h)
  BY <1>5
<1> QED  BY <1>2, <1>5, <1>6, <1>7 DEF t, h

\* One of a list goes, wherever it stands.
LEMMA RemovedAt ==
  ASSUME NEW S, NEW s \in Seq(S), NEW k \in 1..Len(s)
  PROVE  /\ RemoveAt(s, k) \in Seq(S)
         /\ Len(RemoveAt(s, k)) = Len(s) - 1
         /\ \A i \in 1..Len(s) - 1 : RemoveAt(s, k)[i] = IF i < k THEN s[i] ELSE s[i + 1]
<1>1. PICK m \in Nat : m = Len(s) /\ k \in 1..m
  BY LenProperties
<1>2. \A i \in 1..m : s[i] \in S
  BY <1>1, ElementOfSeq
<1> DEFINE a == SubSeq(s, 1, k - 1)
           b == SubSeq(s, k + 1, m)
<1>3. a \in Seq(S) /\ Len(a) = k - 1 /\ \A i \in 1..k - 1 : a[i] = s[i]
  <2>1. 1 \in Int /\ k - 1 \in Int /\ \A i \in 1..k - 1 : i \in 1..m
    BY <1>1
  <2>2. /\ a \in Seq(S) /\ Len(a) = IF 1 <= k - 1 THEN (k - 1) - 1 + 1 ELSE 0
        /\ \A i \in 1..(k - 1) - 1 + 1 : a[i] = s[1 + i - 1]
    BY <1>2, <2>1, SubSeqProperties
  <2> HIDE DEF a
  <2>3. (IF 1 <= k - 1 THEN (k - 1) - 1 + 1 ELSE 0) = k - 1
    BY <1>1
  <2>4. \A i \in 1..k - 1 : i \in 1..(k - 1) - 1 + 1 /\ 1 + i - 1 = i
    BY <1>1
  <2> QED  BY <2>2, <2>3, <2>4
<1>4. b \in Seq(S) /\ Len(b) = m - k /\ \A i \in 1..m - k : b[i] = s[k + i]
  <2>1. k + 1 \in Int /\ m \in Int /\ \A i \in k + 1..m : i \in 1..m
    BY <1>1
  <2>2. /\ b \in Seq(S) /\ Len(b) = IF k + 1 <= m THEN m - (k + 1) + 1 ELSE 0
        /\ \A i \in 1..m - (k + 1) + 1 : b[i] = s[k + 1 + i - 1]
    BY <1>2, <2>1, SubSeqProperties
  <2> HIDE DEF b
  <2>3. (IF k + 1 <= m THEN m - (k + 1) + 1 ELSE 0) = m - k
    BY <1>1
  <2>4. \A i \in 1..m - k : i \in 1..m - (k + 1) + 1 /\ k + 1 + i - 1 = k + i
    BY <1>1
  <2> QED  BY <2>2, <2>3, <2>4
<1>5. RemoveAt(s, k) = a \o b
  BY <1>1 DEF RemoveAt
<1> HIDE DEF a, b
<1>6. /\ a \o b \in Seq(S) /\ Len(a \o b) = Len(a) + Len(b)
      /\ \A i \in 1..Len(a) + Len(b) :
            (a \o b)[i] = IF i <= Len(a) THEN a[i] ELSE b[i - Len(a)]
  BY <1>3, <1>4, ConcatProperties
<1>7. Len(a) + Len(b) = m - 1
  BY <1>1, <1>3, <1>4
<1>8. ASSUME NEW i \in 1..m - 1
      PROVE  (a \o b)[i] = IF i < k THEN s[i] ELSE s[i + 1]
  <2>1. (a \o b)[i] = IF i <= k - 1 THEN a[i] ELSE b[i - (k - 1)]
    BY <1>3, <1>6, <1>7
  <2>2. CASE i < k
    <3>1. i <= k - 1 /\ i \in 1..k - 1
      BY <1>1, <2>2
    <3> QED  BY <1>3, <2>1, <2>2, <3>1
  <2>3. CASE ~(i < k)
    <3>1. ~(i <= k - 1) /\ i - (k - 1) \in 1..m - k /\ k + (i - (k - 1)) = i + 1
      BY <1>1, <2>3
    <3> QED  BY <1>4, <2>1, <2>3, <3>1
  <2> QED  BY <2>2, <2>3
<1> QED  BY <1>1, <1>5, <1>6, <1>7, <1>8

\* What is left of such a list is without the one that went, and with the others.
LEMMA OneTaken ==
  ASSUME NEW S, NEW s \in Seq(S), NEW k \in 1..Len(s), Distinct(s)
  PROVE  /\ RemoveAt(s, k) \in Seq(S) /\ Distinct(RemoveAt(s, k))
         /\ \A y : Contains(RemoveAt(s, k), y) <=> Contains(s, y) /\ y # s[k]
<1>1. PICK m \in Nat : Len(s) = m + 1 /\ k \in 1..m + 1
  <2>1. Len(s) \in Nat /\ Len(s) - 1 \in Nat /\ Len(s) = (Len(s) - 1) + 1
    BY LenProperties
  <2> QED  BY <2>1
<1> DEFINE t == RemoveAt(s, k)
           From(i) == IF i < k THEN i ELSE i + 1
<1>2. t \in Seq(S) /\ Len(t) = m /\ \A i \in 1..m : t[i] = s[From(i)]
  <2>1. Len(s) - 1 = m
    BY <1>1
  <2> QED  BY <2>1, RemovedAt
<1>3. /\ \A i \in 1..m : From(i) \in 1..m + 1 /\ From(i) # k
      /\ \A i, j \in 1..m : From(i) = From(j) => i = j
  BY <1>1
<1>4. \A i \in 1..m + 1 : i # k => \E j \in 1..m : From(j) = i
  <2>1. ASSUME NEW i \in 1..m + 1, i < k
        PROVE  \E j \in 1..m : From(j) = i
    <3>1. i \in 1..m /\ From(i) = i
      BY <1>1, <2>1
    <3> QED  BY <3>1
  <2>2. ASSUME NEW i \in 1..m + 1, k < i
        PROVE  \E j \in 1..m : From(j) = i
    <3>1. i - 1 \in 1..m /\ From(i - 1) = i
      BY <1>1, <2>2
    <3> QED  BY <3>1
  <2>3. \A i \in 1..m + 1 : i # k => i < k \/ k < i
    BY <1>1
  <2> QED  BY <2>1, <2>2, <2>3
<1> HIDE DEF t, From
<1>5. Distinct(t)
  BY <1>1, <1>2, <1>3 DEF Distinct
<1>6. \A y : Contains(t, y) <=> Contains(s, y) /\ y # s[k]
  BY <1>1, <1>2, <1>3, <1>4 DEF Distinct, Contains
<1> QED  BY <1>2, <1>5, <1>6 DEF t

-----------------------------------------------------------------------------
(* Messages: every watcher hears every message, and leaves no slot.        *)

MessagesTyped ==
    /\ away \subseteq Watcher /\ wants \in [Watcher -> Kind]
    /\ bond \in [Watcher -> {"none", "asked", "connected", "watching", "gone"}]
    /\ slots \in [Kind -> Seq(Watcher)]
    /\ calls \in Seq({"watch", "disconnect"} \X Watcher)
    /\ left \in Seq(Watcher)
    /\ loop \in {"down", "reading", "emitting"}
    /\ received \in Nat
    /\ heard \in [Watcher -> Seq(Nat)]
    /\ due \in [Watcher -> SUBSET Nat]

Asked(u) == Contains(calls, <<"watch", u>>)
Leaving(u) == Contains(calls, <<"disconnect", u>>)

\* What is posted to the connector's executor: at most one call of a user, from
\* another executor.
CallsRight ==
    /\ Distinct(calls)
    /\ \A u \in Watcher :
          /\ Asked(u) => u \in away /\ bond[u] = "asked"
          /\ Leaving(u) => u \in away /\ bond[u] = "gone"

\* A user has a slot, of the type it wants and one only, from when it is connected
\* until its disconnection has run.
SlotsRight ==
    /\ \A k \in Kind : Distinct(slots[k])
    /\ \A k \in Kind : \A u \in Watcher :
          Contains(slots[k], u) <=>
              /\ wants[u] = k
              /\ bond[u] \in {"connected", "watching"} \/ Leaving(u)

\* The slots an emission has yet to call are those of users that have not heard
\* the message; users have heard no later one, each once and in order.
HeardRight ==
    /\ Distinct(left)
    /\ loop = "emitting" \/ left = <<>>
    /\ loop = "emitting" => kind \in Kind
    /\ \A u \in Watcher :
          /\ \A i, j \in 1..Len(heard[u]) : i < j => heard[u][i] < heard[u][j]
          /\ \A n \in Nat : Contains(heard[u], n) => n <= received
          /\ Contains(left, u) => ~Contains(heard[u], received)

\* A message that came while a user watched has reached it, or the user is among
\* those yet to be called, or it was the last of its connection.
DueRight ==
    \A u \in Watcher :
        /\ bond[u] \in {"none", "asked", "connected"} => due[u] = {}
        /\ bond[u] = "watching" =>
              \A n \in due[u] :
                  \/ Contains(heard[u], n) \/ n \in lastOf
                  \/ n = received /\ Contains(left, u) /\ wants[u] = kind

MessagesInv == MessagesTyped /\ CallsRight /\ SlotsRight /\ HeardRight /\ DueRight

\* A list of numbers that grows by a larger one.
LEMMA Increases ==
  ASSUME NEW s \in Seq(Nat), NEW n \in Nat, \A m \in Nat : Contains(s, m) => m < n,
         \A i, j \in 1..Len(s) : i < j => s[i] < s[j]
  PROVE  LET t == Append(s, n)
         IN  \A i, j \in 1..Len(t) : i < j => t[i] < t[j]
<1>1. PICK m \in Nat : m = Len(s)
  BY LenProperties
<1> DEFINE t == Append(s, n)
<1>2. Len(t) = m + 1 /\ t[m + 1] = n /\ \A i \in 1..m : t[i] = s[i]
  BY <1>1, AppendProperties
<1>3. \A i \in 1..m : s[i] \in Nat /\ s[i] < n
  BY <1>1, ElementOfSeq DEF Contains
<1> HIDE DEF t
<1>4. ASSUME NEW i \in 1..m + 1, NEW j \in 1..m + 1, i < j
      PROVE  t[i] < t[j]
  <2>1. i \in 1..m /\ (j \in 1..m \/ j = m + 1)
    BY <1>1, <1>4
  <2> QED  BY <1>1, <1>2, <1>3, <1>4, <2>1
<1> QED  BY <1>2, <1>4 DEF t

\* A list with nothing in it.
LEMMA EmptyList ==
  /\ \A S : <<>> \in Seq(S)
  /\ Distinct(<<>>) /\ \A x : ~Contains(<<>>, x)
BY DEF Distinct, Contains

\* A new connector has no slots and has heard nothing.
LEMMA MessagesStart ==
  ASSUME MessagesInit
  PROVE  MessagesInv
<1>1. MessagesTyped
  BY EmptyList DEF MessagesInit, MessagesTyped
<1>2. CallsRight /\ SlotsRight
  BY EmptyList DEF MessagesInit, CallsRight, SlotsRight, Asked, Leaving
<1>3. HeardRight
  <2>1. Len(<<>>) = 0 /\ 1..0 = {}
    OBVIOUS
  <2> QED  BY <2>1, EmptyList DEF MessagesInit, HeardRight
<1>4. DueRight
  BY DEF MessagesInit, DueRight
<1> QED  BY <1>1, <1>2, <1>3, <1>4 DEF MessagesInv

-----------------------------------------------------------------------------
(* The users' calls *)

\* Connecting a user's slot.
LEMMA PluggedFacts ==
  ASSUME MessagesTyped, NEW u \in Watcher, Plugged(u), ~Contains(slots[wants[u]], u),
         \A k \in Kind : Distinct(slots[k])
  PROVE  /\ slots' \in [Kind -> Seq(Watcher)]
         /\ \A k \in Kind : Distinct(slots'[k])
         /\ \A k \in Kind : \A v \in Watcher :
               Contains(slots'[k], v) <=> Contains(slots[k], v) \/ (v = u /\ k = wants[u])
<1>1. wants[u] \in Kind /\ slots \in [Kind -> Seq(Watcher)]
  BY DEF MessagesTyped
<1>2. slots' = [slots EXCEPT ![wants[u]] = Append(slots[wants[u]], u)]
  BY DEF Plugged
<1> DEFINE s == slots[wants[u]]
           t == Append(s, u)
<1>3. s \in Seq(Watcher)
  BY <1>1
<1>4. /\ t \in Seq(Watcher) /\ Distinct(t)
      /\ \A v : Contains(t, v) <=> Contains(s, v) \/ v = u
  <2> HIDE DEF s
  <2> QED  BY <1>1, <1>3, AppendedTo DEF s
<1>5. /\ slots' \in [Kind -> Seq(Watcher)] /\ slots'[wants[u]] = t
      /\ \A k \in Kind : k # wants[u] => slots'[k] = slots[k]
  BY <1>1, <1>2, <1>4
<1> HIDE DEF t
<1> QED  BY <1>1, <1>4, <1>5

\* Disconnecting it.
LEMMA UnpluggedFacts ==
  ASSUME MessagesTyped, NEW u \in Watcher, Unplugged(u),
         \A k \in Kind : Distinct(slots[k])
  PROVE  /\ slots' \in [Kind -> Seq(Watcher)]
         /\ \A k \in Kind : Distinct(slots'[k])
         /\ \A k \in Kind : \A v \in Watcher :
               Contains(slots'[k], v) <=> Contains(slots[k], v) /\ ~(v = u /\ k = wants[u])
<1>1. wants[u] \in Kind /\ slots \in [Kind -> Seq(Watcher)]
  BY DEF MessagesTyped
<1> DEFINE s == slots[wants[u]]
<1>2. PICK i \in DOMAIN s : s[i] = u /\ slots' = [slots EXCEPT ![wants[u]] = RemoveAt(s, i)]
  BY DEF Unplugged
<1> DEFINE t == RemoveAt(s, i)
<1>3. s \in Seq(Watcher) /\ Distinct(s)
  BY <1>1
<1>4. i \in 1..Len(s)
  BY <1>2, <1>3
<1>5. /\ t \in Seq(Watcher) /\ Distinct(t)
      /\ \A v : Contains(t, v) <=> Contains(s, v) /\ v # u
  <2> HIDE DEF s
  <2> QED  BY <1>2, <1>3, <1>4, OneTaken
<1>6. /\ slots' \in [Kind -> Seq(Watcher)] /\ slots'[wants[u]] = t
      /\ \A k \in Kind : k # wants[u] => slots'[k] = slots[k]
  BY <1>1, <1>2, <1>5
<1> HIDE DEF t
<1> QED  BY <1>1, <1>3, <1>5, <1>6

\* Posting a user's call to the connector's executor.
LEMMA PostedFacts ==
  ASSUME MessagesTyped, NEW u \in Watcher, NEW w \in {"watch", "disconnect"},
         calls' = Append(calls, <<w, u>>), ~Contains(calls, <<w, u>>), Distinct(calls)
  PROVE  /\ calls' \in Seq({"watch", "disconnect"} \X Watcher) /\ Distinct(calls')
         /\ \A v \in Watcher : /\ Asked(v)' <=> Asked(v) \/ (v = u /\ w = "watch")
                               /\ Leaving(v)' <=> Leaving(v) \/ (v = u /\ w = "disconnect")
<1> DEFINE S == {"watch", "disconnect"} \X Watcher
<1>1. calls \in Seq(S) /\ <<w, u>> \in S
  BY DEF MessagesTyped
<1> HIDE DEF S
<1>2. /\ calls' \in Seq(S) /\ Distinct(calls')
      /\ \A c : Contains(calls', c) <=> Contains(calls, c) \/ c = <<w, u>>
  BY <1>1, AppendedTo
<1>3. ASSUME NEW v \in Watcher
      PROVE  /\ Asked(v)' <=> Asked(v) \/ (v = u /\ w = "watch")
             /\ Leaving(v)' <=> Leaving(v) \/ (v = u /\ w = "disconnect")
  <2>1. /\ <<"watch", v>> = <<w, u>> <=> (v = u /\ w = "watch")
        /\ <<"disconnect", v>> = <<w, u>> <=> (v = u /\ w = "disconnect")
    OBVIOUS
  <2> QED  BY <1>2, <2>1 DEF Asked, Leaving
<1> QED  BY <1>2, <1>3 DEF S

\* The first call is run.
LEMMA RunFacts ==
  ASSUME MessagesTyped, CallsRight, RunCall
  PROVE  \E u \in Watcher :
           /\ calls' \in Seq({"watch", "disconnect"} \X Watcher) /\ Distinct(calls')
           /\ \/ /\ Asked(u) /\ ~Asked(u)' /\ Plugged(u)
                 /\ bond' = [bond EXCEPT ![u] = "connected"]
                 /\ \A v \in Watcher : /\ Asked(v)' <=> Asked(v) /\ v # u
                                       /\ Leaving(v)' <=> Leaving(v)
              \/ /\ Leaving(u) /\ ~Leaving(u)' /\ Unplugged(u) /\ bond' = bond
                 /\ \A v \in Watcher : /\ Asked(v)' <=> Asked(v)
                                       /\ Leaving(v)' <=> Leaving(v) /\ v # u
<1> DEFINE S == {"watch", "disconnect"} \X Watcher
<1>1. calls \in Seq(S) /\ calls # <<>> /\ Distinct(calls) /\ calls' = Tail(calls)
  BY DEF MessagesTyped, CallsRight, RunCall
<1> HIDE DEF S
<1>2. /\ Head(calls) \in S /\ calls' \in Seq(S) /\ Distinct(calls')
      /\ Contains(calls, Head(calls)) /\ ~Contains(calls', Head(calls))
      /\ \A c : Contains(calls, c) <=> Contains(calls', c) \/ c = Head(calls)
  BY <1>1, HeadTaken
<1>3. PICK w \in {"watch", "disconnect"}, u \in Watcher : Head(calls) = <<w, u>>
  BY <1>2 DEF S
<1>4. \A v \in Watcher :
        /\ Asked(v) <=> Asked(v)' \/ (v = u /\ w = "watch")
        /\ Leaving(v) <=> Leaving(v)' \/ (v = u /\ w = "disconnect")
  <2>1. \A v \in Watcher :
          /\ <<"watch", v>> = <<w, u>> <=> (v = u /\ w = "watch")
          /\ <<"disconnect", v>> = <<w, u>> <=> (v = u /\ w = "disconnect")
    OBVIOUS
  <2> QED  BY <1>2, <1>3, <2>1 DEF Asked, Leaving
<1>5. Head(calls)[1] = w /\ Head(calls)[2] = u
  BY <1>3
<1>6. CASE w = "watch"
  <2>1. Plugged(u) /\ bond' = [bond EXCEPT ![u] = "connected"]
    BY <1>5, <1>6 DEF RunCall
  <2>2. Asked(u) /\ ~Asked(u)'
    BY <1>2, <1>3, <1>6 DEF Asked
  <2>3. \A v \in Watcher : (Asked(v)' <=> Asked(v) /\ v # u) /\ (Leaving(v)' <=> Leaving(v))
    BY <1>4, <1>6, <2>2
  <2> QED  BY <1>2, <2>1, <2>2, <2>3 DEF S
<1>7. CASE w = "disconnect"
  <2>1. Unplugged(u) /\ bond' = bond
    BY <1>5, <1>7 DEF RunCall
  <2>2. Leaving(u) /\ ~Leaving(u)'
    BY <1>2, <1>3, <1>7 DEF Leaving
  <2>3. \A v \in Watcher : (Asked(v)' <=> Asked(v)) /\ (Leaving(v)' <=> Leaving(v) /\ v # u)
    BY <1>4, <1>7, <2>2
  <2> QED  BY <1>2, <2>1, <2>2, <2>3 DEF S
<1> QED  BY <1>6, <1>7

\* The users' calls leave alone what was heard, and a user that comes to watch has
\* nothing due.
LEMMA HearingKept ==
  ASSUME MessagesInv, UNCHANGED <<away, wants, receiving, heard, due, lastOf>>,
         bond' \in [Watcher -> {"none", "asked", "connected", "watching", "gone"}],
         \A u \in Watcher : \/ bond'[u] = bond[u]
                            \/ bond[u] \in {"none", "asked", "connected"}
                            \/ bond[u] = "watching" /\ bond'[u] = "gone"
  PROVE  HeardRight' /\ DueRight'
<1>1. UNCHANGED <<away, wants, loop, received, kind, left, heard, due, lastOf>>
  BY DEF receiving
<1>2. HeardRight'
  BY <1>1 DEF MessagesInv, HeardRight
<1>3. DueRight'
  <2> SUFFICES ASSUME NEW u \in Watcher
               PROVE  /\ bond'[u] \in {"none", "asked", "connected"} => due[u] = {}
                      /\ bond'[u] = "watching" =>
                            \A n \in due[u] :
                                \/ Contains(heard[u], n) \/ n \in lastOf
                                \/ n = received /\ Contains(left, u) /\ wants[u] = kind
    BY <1>1 DEF DueRight
  <2>1. CASE bond'[u] = bond[u]
    BY <2>1 DEF MessagesInv, DueRight
  <2>2. CASE bond[u] \in {"none", "asked", "connected"}
    BY <2>2 DEF MessagesInv, DueRight
  <2>3. CASE bond[u] = "watching" /\ bond'[u] = "gone"
    BY <2>3
  <2> QED  BY <2>1, <2>2, <2>3
<1> QED  BY <1>2, <1>3

\* watch_messages.
LEMMA WatchKeeps ==
  ASSUME MessagesInv, NEW u \in Watcher, Watch(u)
  PROVE  MessagesInv'
<1>1. /\ MessagesTyped /\ CallsRight /\ SlotsRight
      /\ bond[u] = "none" /\ wants[u] \in Kind
      /\ UNCHANGED <<away, wants, receiving, heard, due, lastOf>>
      /\ UNCHANGED <<away, wants, loop, received, kind, left, heard, due, lastOf>>
  BY DEF MessagesInv, MessagesTyped, Watch, receiving
<1>2. ~Asked(u) /\ ~Leaving(u) /\ ~Contains(slots[wants[u]], u)
  BY <1>1 DEF CallsRight, SlotsRight
<1>3. CASE u \in away
  <2>1. /\ bond' = [bond EXCEPT ![u] = "asked"]
        /\ calls' = Append(calls, <<"watch", u>>) /\ slots' = slots
    BY <1>3 DEF Watch
  <2>2. /\ calls' \in Seq({"watch", "disconnect"} \X Watcher) /\ Distinct(calls')
        /\ \A v \in Watcher : (Asked(v)' <=> Asked(v) \/ v = u) /\ (Leaving(v)' <=> Leaving(v))
    BY <1>1, <1>2, <2>1, PostedFacts DEF CallsRight, Asked
  <2>3. /\ bond' \in [Watcher -> {"none", "asked", "connected", "watching", "gone"}]
        /\ bond'[u] = "asked" /\ \A v \in Watcher : v # u => bond'[v] = bond[v]
    BY <1>1, <2>1 DEF MessagesTyped
  <2>4. MessagesTyped'
    BY <1>1, <2>1, <2>2, <2>3 DEF MessagesTyped
  <2>5. CallsRight'
    BY <1>1, <1>2, <1>3, <2>2, <2>3 DEF CallsRight
  <2>6. SlotsRight'
    BY <1>1, <1>2, <2>1, <2>2, <2>3 DEF SlotsRight
  <2>7. HeardRight' /\ DueRight'
    BY <1>1, <2>3, HearingKept
  <2> QED  BY <2>4, <2>5, <2>6, <2>7 DEF MessagesInv
<1>4. CASE u \notin away
  <2>1. bond' = [bond EXCEPT ![u] = "watching"] /\ Plugged(u) /\ calls' = calls
    BY <1>4 DEF Watch
  <2>2. /\ slots' \in [Kind -> Seq(Watcher)] /\ \A k \in Kind : Distinct(slots'[k])
        /\ \A k \in Kind : \A v \in Watcher :
              Contains(slots'[k], v) <=> Contains(slots[k], v) \/ (v = u /\ k = wants[u])
    BY <1>1, <1>2, <2>1, PluggedFacts DEF SlotsRight
  <2>3. /\ bond' \in [Watcher -> {"none", "asked", "connected", "watching", "gone"}]
        /\ bond'[u] = "watching" /\ \A v \in Watcher : v # u => bond'[v] = bond[v]
    BY <1>1, <2>1 DEF MessagesTyped
  <2>c. \A v \in Watcher : (Asked(v)' <=> Asked(v)) /\ (Leaving(v)' <=> Leaving(v))
    BY <2>1 DEF Asked, Leaving
  <2>4. MessagesTyped'
    BY <1>1, <2>1, <2>2, <2>3 DEF MessagesTyped
  <2>5. CallsRight'
    BY <1>1, <1>2, <2>1, <2>3, <2>c DEF CallsRight
  <2>6. SlotsRight'
    BY <1>1, <1>2, <2>2, <2>3, <2>c DEF SlotsRight
  <2>7. HeardRight' /\ DueRight'
    BY <1>1, <2>3, HearingKept
  <2> QED  BY <2>4, <2>5, <2>6, <2>7 DEF MessagesInv
<1> QED  BY <1>3, <1>4

\* The user's coroutine goes on with its connection.
LEMMA WatchedKeeps ==
  ASSUME MessagesInv, NEW u \in Watcher, Watched(u)
  PROVE  MessagesInv'
<1>1. /\ MessagesTyped /\ CallsRight /\ SlotsRight /\ bond[u] = "connected"
      /\ bond' = [bond EXCEPT ![u] = "watching"]
      /\ UNCHANGED <<away, wants, calls, slots, receiving, heard, due, lastOf>>
      /\ UNCHANGED <<loop, received, kind, left>>
  BY DEF MessagesInv, Watched, receiving
<1>2. /\ bond' \in [Watcher -> {"none", "asked", "connected", "watching", "gone"}]
      /\ bond'[u] = "watching" /\ \A v \in Watcher : v # u => bond'[v] = bond[v]
  BY <1>1 DEF MessagesTyped
<1>3. \A v \in Watcher : (Asked(v)' <=> Asked(v)) /\ (Leaving(v)' <=> Leaving(v))
  BY <1>1 DEF Asked, Leaving
<1>4. MessagesTyped'
  BY <1>1, <1>2 DEF MessagesTyped
<1>5. CallsRight' /\ SlotsRight'
  BY <1>1, <1>2, <1>3 DEF CallsRight, SlotsRight
<1>6. HeardRight' /\ DueRight'
  BY <1>1, <1>2, HearingKept
<1> QED  BY <1>4, <1>5, <1>6 DEF MessagesInv

\* A user and its connection are destroyed.
LEMMA UnwatchKeeps ==
  ASSUME MessagesInv, NEW u \in Watcher, Unwatch(u)
  PROVE  MessagesInv'
<1>1. /\ MessagesTyped /\ CallsRight /\ SlotsRight
      /\ bond[u] = "watching" /\ wants[u] \in Kind
      /\ bond' = [bond EXCEPT ![u] = "gone"]
      /\ UNCHANGED <<away, wants, receiving, heard, due, lastOf>>
      /\ UNCHANGED <<away, wants, loop, received, kind, left, heard, due, lastOf>>
  BY DEF MessagesInv, MessagesTyped, Unwatch, receiving
<1>2. ~Asked(u) /\ ~Leaving(u)
  BY <1>1 DEF CallsRight
<1>3. /\ bond' \in [Watcher -> {"none", "asked", "connected", "watching", "gone"}]
      /\ bond'[u] = "gone" /\ \A v \in Watcher : v # u => bond'[v] = bond[v]
  BY <1>1 DEF MessagesTyped
<1>4. HeardRight' /\ DueRight'
  BY <1>1, <1>3, HearingKept
<1>5. CASE u \in away
  <2>1. calls' = Append(calls, <<"disconnect", u>>) /\ slots' = slots
    BY <1>5 DEF Unwatch
  <2>2. /\ calls' \in Seq({"watch", "disconnect"} \X Watcher) /\ Distinct(calls')
        /\ \A v \in Watcher : (Asked(v)' <=> Asked(v)) /\ (Leaving(v)' <=> Leaving(v) \/ v = u)
    BY <1>1, <1>2, <2>1, PostedFacts DEF CallsRight, Leaving
  <2>3. MessagesTyped'
    BY <1>1, <1>3, <2>1, <2>2 DEF MessagesTyped
  <2>4. CallsRight'
    BY <1>1, <1>2, <1>3, <1>5, <2>2 DEF CallsRight
  <2>5. SlotsRight'
    BY <1>1, <1>2, <1>3, <2>1, <2>2 DEF SlotsRight
  <2> QED  BY <1>4, <2>3, <2>4, <2>5 DEF MessagesInv
<1>6. CASE u \notin away
  <2>1. Unplugged(u) /\ calls' = calls
    BY <1>6 DEF Unwatch
  <2>2. /\ slots' \in [Kind -> Seq(Watcher)] /\ \A k \in Kind : Distinct(slots'[k])
        /\ \A k \in Kind : \A v \in Watcher :
              Contains(slots'[k], v) <=> Contains(slots[k], v) /\ ~(v = u /\ k = wants[u])
    BY <1>1, <2>1, UnpluggedFacts DEF SlotsRight
  <2>3. \A v \in Watcher : (Asked(v)' <=> Asked(v)) /\ (Leaving(v)' <=> Leaving(v))
    BY <2>1 DEF Asked, Leaving
  <2>4. MessagesTyped'
    BY <1>1, <1>3, <2>1, <2>2 DEF MessagesTyped
  <2>5. CallsRight'
    BY <1>1, <1>2, <1>3, <2>1, <2>3 DEF CallsRight
  <2>6. SlotsRight'
    BY <1>1, <1>2, <1>3, <2>2, <2>3 DEF SlotsRight
  <2> QED  BY <1>4, <2>4, <2>5, <2>6 DEF MessagesInv
<1> QED  BY <1>5, <1>6

\* The connector's executor runs a call.
LEMMA RunCallKeeps ==
  ASSUME MessagesInv, RunCall
  PROVE  MessagesInv'
<1>1. /\ MessagesTyped /\ CallsRight /\ SlotsRight
      /\ UNCHANGED <<away, wants, receiving, heard, due, lastOf>>
      /\ UNCHANGED <<away, wants, loop, received, kind, left, heard, due, lastOf>>
  BY DEF MessagesInv, RunCall, receiving
<1>2. PICK u \in Watcher :
        /\ calls' \in Seq({"watch", "disconnect"} \X Watcher) /\ Distinct(calls')
        /\ \/ /\ Asked(u) /\ ~Asked(u)' /\ Plugged(u)
              /\ bond' = [bond EXCEPT ![u] = "connected"]
              /\ \A v \in Watcher : /\ Asked(v)' <=> Asked(v) /\ v # u
                                    /\ Leaving(v)' <=> Leaving(v)
           \/ /\ Leaving(u) /\ ~Leaving(u)' /\ Unplugged(u) /\ bond' = bond
              /\ \A v \in Watcher : /\ Asked(v)' <=> Asked(v)
                                    /\ Leaving(v)' <=> Leaving(v) /\ v # u
  BY <1>1, RunFacts
<1>3. CASE Asked(u) /\ Plugged(u)
  <2>1. bond[u] = "asked" /\ ~Leaving(u) /\ wants[u] \in Kind
    BY <1>1, <1>3 DEF CallsRight, MessagesTyped
  <2>2. /\ bond' = [bond EXCEPT ![u] = "connected"] /\ ~Asked(u)'
        /\ \A v \in Watcher : (Asked(v)' <=> Asked(v) /\ v # u) /\ (Leaving(v)' <=> Leaving(v))
    BY <1>1, <1>2, <2>1
  <2>3. /\ slots' \in [Kind -> Seq(Watcher)] /\ \A k \in Kind : Distinct(slots'[k])
        /\ \A k \in Kind : \A v \in Watcher :
              Contains(slots'[k], v) <=> Contains(slots[k], v) \/ (v = u /\ k = wants[u])
    BY <1>1, <1>3, <2>1, PluggedFacts DEF SlotsRight
  <2>4. /\ bond' \in [Watcher -> {"none", "asked", "connected", "watching", "gone"}]
        /\ bond'[u] = "connected" /\ \A v \in Watcher : v # u => bond'[v] = bond[v]
    BY <1>1, <2>2 DEF MessagesTyped
  <2>5. MessagesTyped'
    BY <1>1, <1>2, <2>3, <2>4 DEF MessagesTyped
  <2>6. CallsRight'
    BY <1>1, <1>2, <2>1, <2>2, <2>4 DEF CallsRight
  <2>7. SlotsRight'
    BY <1>1, <2>1, <2>2, <2>3, <2>4 DEF SlotsRight
  <2>8. HeardRight' /\ DueRight'
    BY <1>1, <2>1, <2>4, HearingKept
  <2> QED  BY <2>5, <2>6, <2>7, <2>8 DEF MessagesInv
<1>4. CASE ~(Asked(u) /\ Plugged(u))
  <2>1. /\ Leaving(u) /\ Unplugged(u) /\ bond' = bond
        /\ \A v \in Watcher : (Asked(v)' <=> Asked(v)) /\ (Leaving(v)' <=> Leaving(v) /\ v # u)
    BY <1>2, <1>4
  <2>2. bond[u] = "gone" /\ wants[u] \in Kind
    BY <1>1, <2>1 DEF CallsRight, MessagesTyped
  <2>3. /\ slots' \in [Kind -> Seq(Watcher)] /\ \A k \in Kind : Distinct(slots'[k])
        /\ \A k \in Kind : \A v \in Watcher :
              Contains(slots'[k], v) <=> Contains(slots[k], v) /\ ~(v = u /\ k = wants[u])
    BY <1>1, <2>1, UnpluggedFacts DEF SlotsRight
  <2>4. MessagesTyped'
    BY <1>1, <1>2, <2>1, <2>3 DEF MessagesTyped
  <2>5. CallsRight'
    BY <1>1, <1>2, <2>1 DEF CallsRight
  <2>6. SlotsRight'
    BY <1>1, <2>1, <2>2, <2>3 DEF SlotsRight
  <2>7. HeardRight' /\ DueRight'
    BY <1>1, <2>1, HearingKept DEF MessagesTyped
  <2> QED  BY <2>4, <2>5, <2>6, <2>7 DEF MessagesInv
<1> QED  BY <1>3, <1>4

-----------------------------------------------------------------------------
(* receive_loop *)

\* receive_loop leaves the users' calls and slots alone.
LEMMA SlotsKept ==
  ASSUME MessagesInv, UNCHANGED <<users, slots>>
  PROVE  /\ CallsRight' /\ SlotsRight'
         /\ UNCHANGED <<away, wants, bond, calls, slots>>
<1>1. UNCHANGED <<away, wants, bond, calls, slots>>
  BY DEF users
<1>2. \A v \in Watcher : (Asked(v)' <=> Asked(v)) /\ (Leaving(v)' <=> Leaving(v))
  BY <1>1 DEF Asked, Leaving
<1> QED  BY <1>1, <1>2 DEF MessagesInv, CallsRight, SlotsRight

\* A new connection's loop, the end of one between messages or at a slot that
\* throws, and the end of an emission.
LEMMA LoopKeeps ==
  ASSUME MessagesInv, LoopBegins \/ ReadEnds \/ EmissionDone \/ SlotThrows
  PROVE  MessagesInv'
<1>1. /\ UNCHANGED <<users, slots>> /\ UNCHANGED <<received, kind, heard, due>>
      /\ MessagesTyped /\ HeardRight /\ DueRight
  BY DEF LoopBegins, ReadEnds, EmissionDone, SlotThrows, MessagesInv
<1>2. /\ CallsRight' /\ SlotsRight' /\ UNCHANGED <<away, wants, bond, calls, slots>>
  BY <1>1, SlotsKept
<1>3. /\ loop' \in {"down", "reading"} /\ left' = <<>>
      /\ lastOf \subseteq lastOf'
      /\ left = <<>> \/ received \in lastOf'
  BY <1>1 DEF LoopBegins, ReadEnds, EmissionDone, SlotThrows, LoopEnds, HeardRight
<1>4. MessagesTyped'
  BY <1>1, <1>2, <1>3, EmptyList DEF MessagesTyped
<1>5. HeardRight'
  BY <1>1, <1>3, EmptyList DEF HeardRight
<1>6. DueRight'
  BY <1>1, <1>2, <1>3, EmptyList DEF DueRight
<1> QED  BY <1>2, <1>4, <1>5, <1>6 DEF MessagesInv

\* A message is read.
LEMMA ReadKeeps ==
  ASSUME MessagesInv, NEW k \in Kind, ReadMessage(k)
  PROVE  MessagesInv'
<1>1. /\ UNCHANGED <<users, slots, heard, lastOf>>
      /\ MessagesTyped /\ HeardRight /\ DueRight /\ SlotsRight
      /\ loop = "reading" /\ received' = received + 1 /\ kind' = k /\ left' = slots[k]
      /\ loop' = IF left' = <<>> THEN "reading" ELSE "emitting"
      /\ due' = [u \in Watcher |-> IF bond[u] = "watching" /\ wants[u] = k
                                   THEN due[u] \cup {received'} ELSE due[u]]
  BY DEF ReadMessage, MessagesInv
<1>2. /\ CallsRight' /\ SlotsRight' /\ UNCHANGED <<away, wants, bond, calls, slots>>
  BY <1>1, SlotsKept
<1>3. /\ received \in Nat /\ received' \in Nat /\ received < received'
      /\ left = <<>> /\ slots[k] \in Seq(Watcher)
  BY <1>1 DEF MessagesTyped, HeardRight
<1>4. MessagesTyped'
  BY <1>1, <1>2, <1>3 DEF MessagesTyped
<1>5. HeardRight'
  <2>1. Distinct(left') /\ (loop' = "emitting" \/ left' = <<>>) /\ kind' \in Kind
    BY <1>1 DEF SlotsRight
  <2>2. ASSUME NEW u \in Watcher
        PROVE  /\ \A n \in Nat : Contains(heard[u], n) => n <= received'
               /\ ~Contains(heard[u], received')
    <3>1. \A n \in Nat : Contains(heard[u], n) => n <= received
      BY <1>1 DEF HeardRight
    <3>2. \A n \in Nat : n <= received => n <= received' /\ n # received'
      BY <1>3
    <3> QED  BY <1>3, <3>1, <3>2
  <2> QED  BY <1>1, <2>1, <2>2 DEF HeardRight
<1>6. DueRight'
  <2> SUFFICES ASSUME NEW u \in Watcher
               PROVE  /\ bond[u] \in {"none", "asked", "connected"} => due'[u] = {}
                      /\ bond[u] = "watching" =>
                            \A n \in due'[u] :
                                \/ Contains(heard[u], n) \/ n \in lastOf
                                \/ n = received' /\ Contains(left', u) /\ wants[u] = kind'
    BY <1>1, <1>2 DEF DueRight
  <2>1. due'[u] = IF bond[u] = "watching" /\ wants[u] = k
                  THEN due[u] \cup {received'} ELSE due[u]
    BY <1>1
  <2>2. bond[u] \in {"none", "asked", "connected"} => due'[u] = {}
    BY <1>1, <2>1 DEF DueRight
  <2>3. ASSUME bond[u] = "watching", NEW n \in due'[u]
        PROVE  \/ Contains(heard[u], n) \/ n \in lastOf
               \/ n = received' /\ Contains(left', u) /\ wants[u] = kind'
    <3>1. CASE n \in due[u]
      BY <1>1, <1>3, <2>3, <3>1, EmptyList DEF DueRight
    <3>2. CASE n \notin due[u]
      <4>1. n = received' /\ wants[u] = k
        BY <2>1, <3>2
      <4>2. Contains(slots[k], u)
        BY <1>1, <2>3, <4>1 DEF SlotsRight
      <4> QED  BY <1>1, <4>1, <4>2
    <3> QED  BY <3>1, <3>2
  <2> QED  BY <2>2, <2>3
<1> QED  BY <1>2, <1>4, <1>5, <1>6 DEF MessagesInv

\* The next slot is called.
LEMMA CallSlotKeeps ==
  ASSUME MessagesInv, CallSlot
  PROVE  MessagesInv'
<1> DEFINE u == Head(left)
<1>1. /\ UNCHANGED <<users, slots, loop, received, kind, due, lastOf>>
      /\ MessagesTyped /\ HeardRight /\ DueRight /\ SlotsRight
      /\ loop = "emitting" /\ left # <<>> /\ left' = Tail(left)
      /\ heard' = IF Contains(slots[kind], u) /\ bond[u] # "gone"
                  THEN [heard EXCEPT ![u] = Append(heard[u], received)] ELSE heard
  BY DEF CallSlot, MessagesInv
<1>2. /\ CallsRight' /\ SlotsRight' /\ UNCHANGED <<away, wants, bond, calls, slots>>
  BY <1>1, SlotsKept
<1>3. left \in Seq(Watcher) /\ received \in Nat /\ heard \in [Watcher -> Seq(Nat)]
  BY <1>1 DEF MessagesTyped
<1>4. /\ u \in Watcher /\ left' \in Seq(Watcher) /\ Distinct(left')
      /\ Contains(left, u) /\ ~Contains(left', u)
      /\ \A v : Contains(left, v) <=> Contains(left', v) \/ v = u
  BY <1>1, <1>3, HeadTaken DEF HeardRight
<1> HIDE DEF u
\* Only u hears it, and u has not heard it before.
<1>5. /\ heard' \in [Watcher -> Seq(Nat)]
      /\ \A v \in Watcher : v # u => heard'[v] = heard[v]
      /\ heard'[u] = IF Contains(slots[kind], u) /\ bond[u] # "gone"
                     THEN Append(heard[u], received) ELSE heard[u]
  <2>1. heard[u] \in Seq(Nat) /\ Append(heard[u], received) \in Seq(Nat)
    BY <1>3, <1>4
  <2> QED  BY <1>1, <1>3, <1>4, <2>1
<1>6. /\ \A n \in Nat : Contains(heard[u], n) => n < received
      /\ \A i, j \in 1..Len(heard[u]) : i < j => heard[u][i] < heard[u][j]
  <2>1. /\ \A n \in Nat : Contains(heard[u], n) => n <= received
        /\ ~Contains(heard[u], received)
        /\ \A i, j \in 1..Len(heard[u]) : i < j => heard[u][i] < heard[u][j]
    BY <1>1, <1>4 DEF HeardRight
  <2>2. \A n \in Nat : n <= received /\ n # received => n < received
    BY <1>3
  <2> QED  BY <2>1, <2>2
<1>7. /\ \A i, j \in 1..Len(heard'[u]) : i < j => heard'[u][i] < heard'[u][j]
      /\ \A n : Contains(heard[u], n) => Contains(heard'[u], n)
      /\ \A n \in Nat : Contains(heard'[u], n) => n <= received
      /\ Contains(slots[kind], u) /\ bond[u] # "gone" => Contains(heard'[u], received)
  <2>1. CASE Contains(slots[kind], u) /\ bond[u] # "gone"
    <3>1. heard[u] \in Seq(Nat) /\ heard'[u] = Append(heard[u], received)
      BY <1>3, <1>4, <1>5, <2>1
    <3>2. \A n : Contains(heard'[u], n) <=> Contains(heard[u], n) \/ n = received
      BY <1>3, <3>1, AppendedTo
    <3>3. \A i, j \in 1..Len(heard'[u]) : i < j => heard'[u][i] < heard'[u][j]
      BY <1>3, <1>6, <3>1, Increases
    <3>4. \A n \in Nat : n < received \/ n = received => n <= received
      BY <1>3
    <3> QED  BY <1>6, <3>2, <3>3, <3>4
  <2>2. CASE ~(Contains(slots[kind], u) /\ bond[u] # "gone")
    <3>1. heard'[u] = heard[u]
      BY <1>5, <2>2
    <3>2. \A n \in Nat : n < received => n <= received
      BY <1>3
    <3> QED  BY <1>6, <2>2, <3>1, <3>2
  <2> QED  BY <2>1, <2>2
<1>8. MessagesTyped'
  BY <1>1, <1>2, <1>4, <1>5 DEF MessagesTyped
<1>9. HeardRight'
  <2> SUFFICES ASSUME NEW v \in Watcher
               PROVE  /\ \A i, j \in 1..Len(heard'[v]) : i < j => heard'[v][i] < heard'[v][j]
                      /\ \A n \in Nat : Contains(heard'[v], n) => n <= received
                      /\ Contains(left', v) => ~Contains(heard'[v], received)
    BY <1>1, <1>4 DEF HeardRight
  <2>1. CASE v = u
    BY <1>4, <1>7, <2>1
  <2>2. CASE v # u
    BY <1>1, <1>4, <1>5, <2>2 DEF HeardRight
  <2> QED  BY <2>1, <2>2
<1>10. DueRight'
  <2> SUFFICES ASSUME NEW v \in Watcher
               PROVE  /\ bond[v] \in {"none", "asked", "connected"} => due[v] = {}
                      /\ bond[v] = "watching" =>
                            \A n \in due[v] :
                                \/ Contains(heard'[v], n) \/ n \in lastOf
                                \/ n = received /\ Contains(left', v) /\ wants[v] = kind
    BY <1>1, <1>2 DEF DueRight
  <2>1. CASE v # u
    BY <1>1, <1>4, <1>5, <2>1 DEF DueRight
  <2>2. ASSUME v = u, bond[v] = "watching", NEW n \in due[v]
        PROVE  Contains(heard'[v], n) \/ n \in lastOf
    <3>1. CASE n = received /\ wants[v] = kind
      <4>1. Contains(slots[kind], u) /\ bond[u] # "gone"
        BY <1>1, <1>4, <2>2, <3>1 DEF SlotsRight, HeardRight
      <4> QED  BY <1>7, <2>2, <3>1, <4>1
    <3>2. CASE ~(n = received /\ wants[v] = kind)
      BY <1>1, <1>7, <2>2, <3>2 DEF DueRight
    <3> QED  BY <3>1, <3>2
  <2>3. v = u => (bond[v] \in {"none", "asked", "connected"} => due[v] = {})
    BY <1>1 DEF DueRight
  <2> QED  BY <2>1, <2>2, <2>3
<1> QED  BY <1>2, <1>8, <1>9, <1>10 DEF MessagesInv

-----------------------------------------------------------------------------
(* The theorems about messages *)

\* The invariant of the connector's messages, for any users and types.
THEOREM MessagesInductive == MessagesSpec => []MessagesInv
<1>1. MessagesInv /\ [MessagesNext]_messagesVars => MessagesInv'
  <2> SUFFICES ASSUME MessagesInv, [MessagesNext]_messagesVars PROVE MessagesInv'
    OBVIOUS
  <2>1. CASE \E u \in Watcher : Watch(u) \/ Watched(u) \/ Unwatch(u)
    BY <2>1, WatchKeeps, WatchedKeeps, UnwatchKeeps
  <2>2. CASE RunCall
    BY <2>2, RunCallKeeps
  <2>3. CASE LoopBegins \/ ReadEnds \/ EmissionDone \/ SlotThrows
    BY <2>3, LoopKeeps
  <2>4. CASE CallSlot
    BY <2>4, CallSlotKeeps
  <2>5. CASE \E k \in Kind : ReadMessage(k)
    BY <2>5, ReadKeeps
  <2>6. CASE UNCHANGED messagesVars
    BY <2>6 DEF messagesVars, users, receiving, MessagesInv, MessagesTyped, CallsRight,
                SlotsRight, HeardRight, DueRight, Asked, Leaving
  <2> QED  BY <2>1, <2>2, <2>3, <2>4, <2>5, <2>6 DEF MessagesNext
<1> QED  BY <1>1, MessagesStart, PTL DEF MessagesSpec

\* watch_messages and the cross_executor_connection: a user on any executor hears
\* every message of its type that is received while it watches, once and in order,
\* but for the last of a connection (HearsAll), with any number of users,
\* messages and types.
THEOREM WatchersHear == MessagesSpec => []HearsAll
<1>1. MessagesInv => HearsAll
  <2> SUFFICES ASSUME MessagesInv, NEW u \in Watcher
               PROVE  /\ \A i, j \in DOMAIN heard[u] : i < j => heard[u][i] < heard[u][j]
                      /\ bond[u] = "watching" /\ Quiet =>
                            due[u] \subseteq Range(heard[u]) \cup lastOf
    BY DEF HearsAll
  <2>1. DOMAIN heard[u] = 1..Len(heard[u])
    BY DEF MessagesInv, MessagesTyped
  <2>2. \A n : Contains(heard[u], n) => n \in Range(heard[u])
    BY <2>1 DEF Contains, Range
  <2>3. Quiet => left = <<>>
    BY DEF MessagesInv, HeardRight, Quiet
  <2>4. \A i, j \in DOMAIN heard[u] : i < j => heard[u][i] < heard[u][j]
    BY <2>1 DEF MessagesInv, HeardRight
  <2>5. bond[u] = "watching" /\ Quiet => due[u] \subseteq Range(heard[u]) \cup lastOf
    BY <2>2, <2>3, EmptyList DEF MessagesInv, DueRight
  <2> QED  BY <2>4, <2>5
<1> QED  BY <1>1, MessagesInductive, PTL

\* A destroyed user's slot is freed, or its disconnection is on its way
\* (SlotsFreed).
THEOREM SlotsAreFreed == MessagesSpec => []SlotsFreed
<1>1. MessagesInv => SlotsFreed
  BY DEF MessagesInv, MessagesTyped, SlotsRight, CallsRight, SlotsFreed, Leaving
<1> QED  BY <1>1, MessagesInductive, PTL

-----------------------------------------------------------------------------
(* Semaphore: no unit is lost, and operations are served as they came.     *)

SemTyped ==
    /\ count \in Nat /\ waiters \in Seq(Op)
    /\ op \in [Op -> {"idle", "waiting", "posted", "aborted", "holds", "over"}]
    /\ entry \in [Op -> {"none", "try", "fast", "handed"}]

\* The list has the operations that wait, each once; who has had no unit has come
\* by none.
WaitersRight ==
    /\ Distinct(waiters)
    /\ \A w \in Op : Contains(waiters, w) <=> op[w] = "waiting"
    /\ \A w \in Op : op[w] \in {"idle", "waiting", "aborted"} => entry[w] = "none"

\* The units can be counted, for any set of operations: only so many have begun.
UnitsRight == IsFiniteSet(Charged) /\ IsFiniteSet(Gifts) /\ NoUnitLost

SemInv == SemTyped /\ WaitersRight /\ UnitsRight

\* What a step does to the operations that took a unit of the count and to those
\* that gave one they had not taken, and what that does to the equation.
LEMMA UnitsMoved ==
  ASSUME SemInv, SemaphoreAssumption, NEW w \in Op, NEW h \in Op, count' \in Nat,
         \/ Charged' = Charged /\ Gifts' = Gifts /\ count' = count
         \/ w \notin Charged /\ Charged' = Charged \cup {w} /\ Gifts' = Gifts
            /\ count' = count - 1
         \/ w \in Charged /\ Charged' = Charged \ {w} /\ Gifts' = Gifts
            /\ count' = count + 1
         \/ w \notin Gifts /\ Charged' = Charged /\ Gifts' = Gifts \cup {w}
            /\ count' = count + 1
         \/ /\ w \in Charged /\ h \notin Charged /\ h # w
            /\ Charged' = (Charged \ {w}) \cup {h} /\ Gifts' = Gifts /\ count' = count
         \/ /\ w \notin Gifts /\ h \notin Charged
            /\ Charged' = Charged \cup {h} /\ Gifts' = Gifts \cup {w} /\ count' = count
  PROVE  UnitsRight'
<1>1. /\ count \in Nat /\ InitialCount \in Nat /\ IsFiniteSet(Charged) /\ IsFiniteSet(Gifts)
      /\ Cardinality(Charged) + count = InitialCount + Cardinality(Gifts)
  BY DEF SemInv, SemTyped, UnitsRight, NoUnitLost, SemaphoreAssumption
<1> DEFINE c == Charged
           g == Gifts
           d == Charged'
           e == Gifts'
<1>2. Cardinality(c) \in Nat /\ Cardinality(g) \in Nat
  BY <1>1, FS_CardinalityType
<1> SUFFICES /\ IsFiniteSet(d) /\ IsFiniteSet(e)
             /\ Cardinality(d) + count' = InitialCount + Cardinality(e)
  BY DEF UnitsRight, NoUnitLost
<1>3. \A x : /\ IsFiniteSet(c \cup {x}) /\ IsFiniteSet(g \cup {x}) /\ IsFiniteSet(c \ {x})
             /\ x \notin c => Cardinality(c \cup {x}) = Cardinality(c) + 1
             /\ x \notin g => Cardinality(g \cup {x}) = Cardinality(g) + 1
             /\ x \in c => Cardinality(c \ {x}) = Cardinality(c) - 1
  BY <1>1, FS_AddElement, FS_RemoveElement
<1>4. \A x, y : x \in c /\ y \notin c /\ y # x =>
                  /\ IsFiniteSet((c \ {x}) \cup {y})
                  /\ Cardinality((c \ {x}) \cup {y}) = Cardinality(c)
  <2> TAKE x, y
  <2> HAVE x \in c /\ y \notin c /\ y # x
  <2>1. IsFiniteSet(c \ {x}) /\ Cardinality(c \ {x}) = Cardinality(c) - 1 /\ y \notin c \ {x}
    BY <1>3
  <2>2. /\ IsFiniteSet((c \ {x}) \cup {y})
        /\ Cardinality((c \ {x}) \cup {y}) = (Cardinality(c) - 1) + 1
    BY <2>1, FS_AddElement
  <2> QED  BY <1>2, <2>2
<1>5. \/ d = c /\ e = g /\ count' = count
      \/ w \notin c /\ d = c \cup {w} /\ e = g /\ count' = count - 1
      \/ w \in c /\ d = c \ {w} /\ e = g /\ count' = count + 1
      \/ w \notin g /\ d = c /\ e = g \cup {w} /\ count' = count + 1
      \/ w \in c /\ h \notin c /\ h # w /\ d = (c \ {w}) \cup {h} /\ e = g /\ count' = count
      \/ w \notin g /\ h \notin c /\ d = c \cup {h} /\ e = g \cup {w} /\ count' = count
  OBVIOUS
<1>6. Cardinality(c) + count = InitialCount + Cardinality(g)
  BY <1>1
<1>7. IsFiniteSet(c) /\ IsFiniteSet(g)
  BY <1>1
<1> HIDE DEF c, d, e, g
<1>8. CASE d = c /\ e = g /\ count' = count
  BY <1>6, <1>7, <1>8
<1>9. CASE w \notin c /\ d = c \cup {w} /\ e = g /\ count' = count - 1
  <2>1. IsFiniteSet(d) /\ Cardinality(d) = Cardinality(c) + 1 /\ e = g /\ count' = count - 1
    BY <1>3, <1>9
  <2> QED  BY <1>1, <1>2, <1>6, <1>7, <2>1
<1>10. CASE w \in c /\ d = c \ {w} /\ e = g /\ count' = count + 1
  <2>1. IsFiniteSet(d) /\ Cardinality(d) = Cardinality(c) - 1 /\ e = g /\ count' = count + 1
    BY <1>3, <1>10
  <2> QED  BY <1>1, <1>2, <1>6, <1>7, <2>1
<1>11. CASE w \notin g /\ d = c /\ e = g \cup {w} /\ count' = count + 1
  <2>1. IsFiniteSet(e) /\ Cardinality(e) = Cardinality(g) + 1 /\ d = c /\ count' = count + 1
    BY <1>3, <1>11
  <2> QED  BY <1>1, <1>2, <1>6, <1>7, <2>1
<1>12. CASE w \in c /\ h \notin c /\ h # w /\ d = (c \ {w}) \cup {h} /\ e = g /\ count' = count
  BY <1>4, <1>6, <1>7, <1>12
<1>13. CASE w \notin g /\ h \notin c /\ d = c \cup {h} /\ e = g \cup {w} /\ count' = count
  <2>1. /\ IsFiniteSet(d) /\ Cardinality(d) = Cardinality(c) + 1 /\ count' = count
        /\ IsFiniteSet(e) /\ Cardinality(e) = Cardinality(g) + 1
    BY <1>3, <1>13
  <2> QED  BY <1>1, <1>2, <1>6, <1>7, <2>1
<1> QED  BY <1>5, <1>8, <1>9, <1>10, <1>11, <1>12, <1>13

\* async_acquire and try_acquire.
LEMMA AcquireKeeps ==
  ASSUME SemInv, SemaphoreAssumption, NEW w \in Op,
         AcquireFast(w) \/ AcquireWaits(w) \/ TryAcquire(w)
  PROVE  SemInv'
<1>1. SemTyped /\ WaitersRight
  BY DEF SemInv
<1>2. SemTyped'
  <2>1. Append(waiters, w) \in Seq(Op)
    BY <1>1, AppendedTo DEF SemTyped
  <2>2. CASE AcquireFast(w)
    BY <1>1, <2>2 DEF SemTyped, AcquireFast
  <2>3. CASE AcquireWaits(w)
    BY <1>1, <2>1, <2>3 DEF SemTyped, AcquireWaits
  <2>4. CASE TryAcquire(w)
    BY <1>1, <2>4 DEF SemTyped, TryAcquire
  <2> QED  BY <2>2, <2>3, <2>4
<1>3. WaitersRight'
  <2>1. ~Contains(waiters, w)
    BY <1>1 DEF WaitersRight, AcquireFast, AcquireWaits, TryAcquire
  <2>2. CASE AcquireWaits(w)
    <3>1. Distinct(waiters') /\ \A y : Contains(waiters', y) <=> Contains(waiters, y) \/ y = w
      BY <1>1, <2>1, <2>2, AppendedTo DEF SemTyped, WaitersRight, AcquireWaits
    <3> QED  BY <1>1, <2>2, <3>1 DEF SemTyped, WaitersRight, AcquireWaits
  <2>3. CASE AcquireFast(w) \/ TryAcquire(w)
    BY <1>1, <2>3 DEF SemTyped, WaitersRight, AcquireFast, TryAcquire
  <2> QED  BY <2>2, <2>3
<1>4. UnitsRight'
  <2>1. CASE AcquireFast(w) \/ AcquireWaits(w)
    <3>1. Charged' = Charged /\ Gifts' = Gifts /\ count' = count
      BY <1>1, <2>1
      DEF SemTyped, WaitersRight, AcquireFast, AcquireWaits, Charged, Holders, Gifts
    <3> QED  BY <1>2, <3>1, UnitsMoved DEF SemTyped
  <2>2. CASE TryAcquire(w)
    <3>1. /\ w \notin Charged /\ Charged' = Charged \cup {w} /\ Gifts' = Gifts
          /\ count' = count - 1
      BY <1>1, <2>2 DEF SemTyped, WaitersRight, TryAcquire, Charged, Holders, Gifts
    <3> QED  BY <1>2, <3>1, UnitsMoved DEF SemTyped
  <2> QED  BY <2>1, <2>2
<1> QED  BY <1>2, <1>3, <1>4 DEF SemInv

\* release: the unit goes to the first that waits, or to the count.
LEMMA ReleaseKeeps ==
  ASSUME SemInv, SemaphoreAssumption, NEW w \in Op, ReleaseUnit(w)
  PROVE  SemInv'
<1>1. SemTyped /\ WaitersRight /\ op[w] = "holds"
  BY DEF SemInv, ReleaseUnit
<1>2. Give([op EXCEPT ![w] = "over"])
  BY DEF ReleaseUnit
<1>3. CASE waiters = <<>>
  <2>1. /\ count' = count + 1 /\ op' = [op EXCEPT ![w] = "over"]
        /\ UNCHANGED <<waiters, entry>>
    BY <1>2, <1>3 DEF Give
  <2>2. SemTyped'
    BY <1>1, <2>1 DEF SemTyped
  <2>3. WaitersRight'
    BY <1>1, <2>1 DEF SemTyped, WaitersRight
  <2>4. CASE entry[w] = "fast"
    <3>1. w \notin Gifts /\ Charged' = Charged /\ Gifts' = Gifts \cup {w}
      BY <1>1, <2>1, <2>4 DEF SemTyped, Charged, Holders, Gifts
    <3>2. UnitsRight'
      BY <2>1, <2>2, <3>1, UnitsMoved DEF SemTyped
    <3> QED  BY <2>2, <2>3, <3>2 DEF SemInv
  <2>5. CASE entry[w] # "fast"
    <3>1. w \in Charged /\ Charged' = Charged \ {w} /\ Gifts' = Gifts
      BY <1>1, <2>1, <2>5 DEF SemTyped, Charged, Holders, Gifts
    <3>2. UnitsRight'
      BY <2>1, <2>2, <3>1, UnitsMoved DEF SemTyped
    <3> QED  BY <2>2, <2>3, <3>2 DEF SemInv
  <2> QED  BY <2>4, <2>5
<1>4. CASE waiters # <<>>
  <2> DEFINE h == Head(waiters)
  <2>1. /\ h \in Op /\ Tail(waiters) \in Seq(Op) /\ Contains(waiters, h)
        /\ \A y : Contains(waiters, y) <=> Contains(Tail(waiters), y) \/ y = h
        /\ Distinct(Tail(waiters)) /\ ~Contains(Tail(waiters), h)
    BY <1>1, <1>4, HeadTaken DEF SemTyped, WaitersRight
  <2>2. /\ op' = [[op EXCEPT ![w] = "over"] EXCEPT ![h] = "posted"]
        /\ entry' = [entry EXCEPT ![h] = "handed"]
        /\ waiters' = Tail(waiters) /\ count' = count
    BY <1>2, <1>4 DEF Give
  <2> HIDE DEF h
  <2>3. op[h] = "waiting" /\ entry[h] = "none" /\ h # w
    BY <1>1, <2>1 DEF WaitersRight
  <2>4. SemTyped'
    BY <1>1, <2>1, <2>2 DEF SemTyped
  <2>5. WaitersRight'
    BY <1>1, <2>1, <2>2, <2>3 DEF SemTyped, WaitersRight
  <2>6. h \notin Charged
    BY <2>3 DEF Charged, Holders
  <2>7. CASE entry[w] = "fast"
    <3>1. w \notin Gifts /\ Charged' = Charged \cup {h} /\ Gifts' = Gifts \cup {w}
      BY <1>1, <2>1, <2>2, <2>3, <2>7 DEF SemTyped, Charged, Holders, Gifts
    <3>2. UnitsRight'
      BY <2>1, <2>2, <2>4, <2>6, <3>1, UnitsMoved DEF SemTyped
    <3> QED  BY <2>4, <2>5, <3>2 DEF SemInv
  <2>8. CASE entry[w] # "fast"
    <3>1. w \in Charged /\ Charged' = (Charged \ {w}) \cup {h} /\ Gifts' = Gifts
      BY <1>1, <2>1, <2>2, <2>3, <2>8 DEF SemTyped, Charged, Holders, Gifts
    <3>2. UnitsRight'
      BY <2>1, <2>2, <2>3, <2>4, <2>6, <3>1, UnitsMoved DEF SemTyped
    <3> QED  BY <2>4, <2>5, <3>2 DEF SemInv
  <2> QED  BY <2>7, <2>8
<1> QED  BY <1>3, <1>4

\* The executor runs a handler: who holds a unit goes on holding it.
LEMMA HandlerKeeps ==
  ASSUME SemInv, SemaphoreAssumption, NEW w \in Op, RunHandler(w)
  PROVE  SemInv'
<1>1. SemTyped /\ WaitersRight
  BY DEF SemInv
<1>2. SemTyped'
  BY <1>1 DEF SemTyped, RunHandler
<1>3. WaitersRight'
  BY <1>1 DEF SemTyped, WaitersRight, RunHandler
<1>4. Charged' = Charged /\ Gifts' = Gifts /\ count' = count
  BY <1>1 DEF SemTyped, WaitersRight, RunHandler, Charged, Holders, Gifts
<1> QED  BY <1>2, <1>3, <1>4, UnitsMoved DEF SemInv, SemTyped

\* The slot of a waiting operation.
LEMMA CancelKeeps ==
  ASSUME SemInv, SemaphoreAssumption, NEW w \in Op, CancelWait(w)
  PROVE  SemInv'
<1>1. SemTyped /\ WaitersRight
  BY DEF SemInv
<1>2. PICK i \in DOMAIN waiters : waiters[i] = w /\ waiters' = RemoveAt(waiters, i)
  BY DEF CancelWait, Unlinked
<1>3. i \in 1..Len(waiters)
  BY <1>1, <1>2, LenProperties DEF SemTyped
<1>4. /\ waiters' \in Seq(Op) /\ Distinct(waiters')
      /\ \A y : Contains(waiters', y) <=> Contains(waiters, y) /\ y # w
  BY <1>1, <1>2, <1>3, OneTaken DEF SemTyped, WaitersRight
<1>5. SemTyped'
  BY <1>1, <1>4 DEF SemTyped, CancelWait
<1>6. WaitersRight'
  BY <1>1, <1>4 DEF SemTyped, WaitersRight, CancelWait
<1>7. Charged' = Charged /\ Gifts' = Gifts /\ count' = count
  BY <1>1 DEF SemTyped, WaitersRight, CancelWait, Charged, Holders, Gifts
<1> QED  BY <1>5, <1>6, <1>7, UnitsMoved DEF SemInv, SemTyped

\* At the start nobody has a unit.
LEMMA SemStart == ASSUME SemInit, SemaphoreAssumption PROVE SemInv
<1>1. SemTyped
  BY DEF SemInit, SemTyped, SemaphoreAssumption
<1>2. <<>> \in Seq(Op) /\ \A y : ~Contains(<<>>, y)
  BY DEF Contains
<1>3. WaitersRight
  BY <1>2 DEF SemInit, WaitersRight, Distinct
<1>4. Charged = {} /\ Gifts = {}
  BY DEF SemInit, Charged, Holders, Gifts
<1>5. UnitsRight
  BY <1>4, FS_EmptySet DEF SemInit, UnitsRight, NoUnitLost, SemaphoreAssumption
<1> QED  BY <1>1, <1>3, <1>5 DEF SemInv

\* Every step keeps the invariant.
LEMMA SemStep == ASSUME SemInv, SemaphoreAssumption, [SemNext]_semVars PROVE SemInv'
<1>1. CASE \E w \in Op : \/ AcquireFast(w) \/ AcquireWaits(w) \/ TryAcquire(w)
                         \/ ReleaseUnit(w) \/ RunHandler(w) \/ CancelWait(w)
  BY <1>1, AcquireKeeps, ReleaseKeeps, HandlerKeeps, CancelKeeps
<1>2. CASE DestroySemaphore \/ UNCHANGED semVars
  <2>1. UNCHANGED <<count, waiters, op, entry>>
    BY <1>2 DEF DestroySemaphore, semVars
  <2> QED
    BY <2>1 DEF SemInv, SemTyped, WaitersRight, UnitsRight, NoUnitLost, Charged, Gifts, Holders
<1> QED  BY <1>1, <1>2 DEF SemNext

\* The invariant of a semaphore, for any operations and any initial count.
THEOREM SemaphoreInductive == SemSpec => []SemInv
<1>1. SemaphoreAssumption
  BY SemaphoreAssumption
<1>2. SemInit => SemInv
  BY <1>1, SemStart
<1>3. SemInv /\ [SemNext]_semVars => SemInv'
  BY <1>1, SemStep
<1> QED  BY <1>2, <1>3, PTL DEF SemSpec

\* A unit is with the count or with one operation, through every order of releases,
\* cancellations and posted handlers.
THEOREM UnitsAreKept == SemSpec => []NoUnitLost
<1>1. SemInv => NoUnitLost
  BY DEF SemInv, UnitsRight
<1> QED  BY <1>1, SemaphoreInductive, PTL

\* No two of a list came the other way round, and each came once.
InOrder(s) == \A i, j \in 1..Len(s) : i <= j => ~CameFirst(s[j], s[i])

\* The list is in the order of arrival, and while somebody waits there is no unit
\* for a newcomer.
QueueInv ==
    /\ came \in Seq(Op)
    /\ \A w \in Op : Contains(came, w) => op[w] # "idle"
    /\ waiters # <<>> => count = 0
    /\ InOrder(waiters)

\* An operation that had not come comes last.
LEMMA CameLast ==
  ASSUME QueueInv, NEW w \in Op, op[w] = "idle", came' = Append(came, w)
  PROVE  /\ came' \in Seq(Op)
         /\ \A y : Contains(came', y) <=> Contains(came, y) \/ y = w
         /\ \A v, u : CameFirst(v, u)' => CameFirst(v, u) \/ u = w
         /\ \A u : ~CameFirst(w, u)'
<1>1. came \in Seq(Op) /\ ~Contains(came, w)
  BY DEF QueueInv
<1>2. PICK m \in Nat : m = Len(came)
  BY <1>1, LenProperties
<1>3. /\ came' \in Seq(Op) /\ Len(came') = m + 1 /\ came'[m + 1] = w
      /\ \A i \in 1..m : came'[i] = came[i]
  BY <1>1, <1>2, AppendProperties
<1>4. DOMAIN came = 1..m /\ DOMAIN came' = 1..m + 1
  BY <1>1, <1>2, <1>3, LenProperties
<1>5. \A y : Contains(came', y) <=> Contains(came, y) \/ y = w
  BY <1>1, AppendedTo
<1>6. \A i, j \in 1..m + 1 : i < j => i \in 1..m /\ (j \in 1..m \/ j = m + 1)
  BY <1>2
<1>7. ASSUME NEW v, NEW u, CameFirst(v, u)'
      PROVE  v # w /\ (CameFirst(v, u) \/ u = w)
  <2>1. PICK i, j \in 1..m + 1 : i < j /\ came'[i] = v /\ came'[j] = u
    BY <1>4, <1>7 DEF CameFirst
  <2>2. i \in 1..m /\ came[i] = v
    BY <1>3, <1>6, <2>1
  <2>3. v # w
    BY <1>1, <1>2, <2>2 DEF Contains
  <2>4. j = m + 1 => u = w
    BY <1>3, <2>1
  <2>5. j \in 1..m => CameFirst(v, u)
    <3>1. j \in 1..m => came[j] = u
      BY <1>3, <2>1
    <3> QED  BY <1>4, <2>1, <2>2, <3>1 DEF CameFirst
  <2> QED  BY <1>6, <2>1, <2>3, <2>4, <2>5
<1> QED  BY <1>3, <1>5, <1>7

\* async_acquire puts who has to wait behind those that wait.
LEMMA WaitsLast ==
  ASSUME SemInv, QueueInv, NEW w \in Op, AcquireWaits(w)
  PROVE  QueueInv'
<1>1. SemTyped /\ WaitersRight /\ op[w] = "idle" /\ count' = 0
  BY DEF SemInv, AcquireWaits
<1>2. /\ came' \in Seq(Op)
      /\ \A y : Contains(came', y) <=> Contains(came, y) \/ y = w
      /\ \A v, u : CameFirst(v, u)' => CameFirst(v, u) \/ u = w
      /\ \A u : ~CameFirst(w, u)'
  BY <1>1, CameLast DEF AcquireWaits
<1>3. \A v \in Op : Contains(came', v) => op'[v] # "idle"
  BY <1>1, <1>2 DEF SemTyped, QueueInv, AcquireWaits
<1>4. PICK m \in Nat : m = Len(waiters)
  BY <1>1, LenProperties DEF SemTyped
<1>5. /\ Len(waiters') = m + 1 /\ waiters'[m + 1] = w
      /\ \A i \in 1..m : waiters'[i] = waiters[i]
  BY <1>1, <1>4, AppendProperties DEF SemTyped, AcquireWaits
<1>6. \A i \in 1..m : waiters[i] # w
  BY <1>1, <1>4 DEF WaitersRight, Contains
<1>7. InOrder(waiters)'
  <2> SUFFICES ASSUME NEW i \in 1..m + 1, NEW j \in 1..m + 1, i <= j
               PROVE  ~CameFirst(waiters[j], waiters[i])'
    BY <1>5 DEF InOrder
  <2>1. CASE j = m + 1
    BY <1>2, <1>5, <2>1
  <2>2. CASE j # m + 1
    <3>1. i \in 1..m /\ j \in 1..m
      BY <1>4, <2>2
    <3>2. ~CameFirst(waiters[j], waiters[i]) /\ waiters[i] # w
      BY <1>4, <1>6, <3>1 DEF QueueInv, InOrder
    <3>3. waiters'[i] = waiters[i] /\ waiters'[j] = waiters[j]
      BY <1>5, <3>1
    <3> QED  BY <1>2, <3>2, <3>3
  <2> QED  BY <2>1, <2>2
<1> QED  BY <1>1, <1>2, <1>3, <1>7 DEF QueueInv

\* The order of what is left when one of the list goes is the order it had.
LEMMA OrderKept ==
  ASSUME SemInv, QueueInv, UNCHANGED came, NEW k \in 1..Len(waiters),
         Len(waiters') = Len(waiters) - 1,
         \A i \in 1..Len(waiters) - 1 :
             waiters'[i] = IF i < k THEN waiters[i] ELSE waiters[i + 1]
  PROVE  InOrder(waiters)'
<1>1. PICK m \in Nat : m = Len(waiters)
  BY LenProperties DEF SemInv, SemTyped
<1> SUFFICES ASSUME NEW i \in 1..m - 1, NEW j \in 1..m - 1, i <= j
             PROVE  ~CameFirst(waiters'[j], waiters'[i])
  <2>1. \A v, u : CameFirst(v, u)' <=> CameFirst(v, u)
    BY DEF CameFirst
  <2> QED  BY <1>1, <2>1 DEF InOrder
<1>2. PICK a \in 1..m, b \in 1..m : a <= b /\ waiters'[i] = waiters[a] /\ waiters'[j] = waiters[b]
  <2>1. i \in 1..m /\ j \in 1..m /\ i + 1 \in 1..m /\ j + 1 \in 1..m
    BY <1>1
  <2>2. /\ waiters'[i] = IF i < k THEN waiters[i] ELSE waiters[i + 1]
        /\ waiters'[j] = IF j < k THEN waiters[j] ELSE waiters[j + 1]
    BY <1>1
  <2>3. i <= j /\ i + 1 <= j + 1 /\ i <= j + 1 /\ (i < k \/ ~(j < k))
    BY <1>1
  <2> QED  BY <2>1, <2>2, <2>3
<1> QED  BY <1>1, <1>2 DEF QueueInv, InOrder

\* release takes the first of the list, the slot of an operation takes that one.
LEMMA GoneFromQueue ==
  ASSUME SemInv, QueueInv, NEW w \in Op, ReleaseUnit(w) \/ CancelWait(w)
  PROVE  QueueInv'
<1>1. SemTyped /\ WaitersRight /\ UNCHANGED came
  BY DEF SemInv, ReleaseUnit, CancelWait
<1>2. PICK m \in Nat : m = Len(waiters)
  BY <1>1, LenProperties DEF SemTyped
<1>3. CASE waiters = <<>>
  <2>1. ReleaseUnit(w)
    BY <1>3 DEF CancelWait, Unlinked
  <2>2. UNCHANGED waiters /\ op' = [op EXCEPT ![w] = "over"]
    BY <1>3, <2>1 DEF ReleaseUnit, Give
  <2>3. \A v \in Op : Contains(came', v) => op'[v] # "idle"
    BY <1>1, <2>2 DEF SemTyped, QueueInv
  <2>4. InOrder(waiters)'
    BY <1>1, <2>2 DEF QueueInv, InOrder, CameFirst
  <2> QED  BY <1>1, <1>3, <2>2, <2>3, <2>4 DEF QueueInv
<1>4. CASE waiters # <<>>
  <2>1. /\ count' = count /\ \A v \in Op : op[v] # "idle" => op'[v] # "idle"
        /\ \E k \in 1..m : /\ Len(waiters') = m - 1
                           /\ \A i \in 1..m - 1 :
                                 waiters'[i] = IF i < k THEN waiters[i] ELSE waiters[i + 1]
    <3>1. CASE ReleaseUnit(w)
      <4>1. /\ op' = [[op EXCEPT ![w] = "over"] EXCEPT ![Head(waiters)] = "posted"]
            /\ waiters' = Tail(waiters) /\ count' = count
        BY <1>4, <3>1 DEF ReleaseUnit, Give
      <4>2. Len(waiters') = m - 1 /\ \A i \in 1..m - 1 : waiters'[i] = waiters[i + 1]
        BY <1>1, <1>2, <1>4, <4>1, HeadTailProperties DEF SemTyped
      <4>3. m # 0
        BY <1>1, <1>2, <1>4, EmptySeq DEF SemTyped
      <4>4. 1 \in 1..m /\ \A i \in 1..m - 1 : ~(i < 1)
        BY <1>2, <4>3
      <4>5. \A v \in Op : op[v] # "idle" => op'[v] # "idle"
        BY <1>1, <4>1 DEF SemTyped
      <4> QED  BY <4>1, <4>2, <4>4, <4>5
    <3>2. CASE CancelWait(w)
      <4>1. PICK k \in 1..m : waiters' = RemoveAt(waiters, k)
        BY <1>1, <1>2, <3>2, LenProperties DEF SemTyped, CancelWait, Unlinked
      <4>2. /\ Len(waiters') = m - 1
            /\ \A i \in 1..m - 1 : waiters'[i] = IF i < k THEN waiters[i] ELSE waiters[i + 1]
        BY <1>1, <1>2, <4>1, RemovedAt DEF SemTyped
      <4>3. count' = count /\ \A v \in Op : op[v] # "idle" => op'[v] # "idle"
        BY <1>1, <3>2 DEF SemTyped, CancelWait
      <4> QED  BY <4>2, <4>3
    <3> QED  BY <3>1, <3>2
  <2>2. InOrder(waiters)'
    BY <1>1, <1>2, <2>1, OrderKept
  <2> QED  BY <1>1, <1>4, <2>1, <2>2 DEF QueueInv
<1> QED  BY <1>3, <1>4

\* Nothing else touches the list, and who finds a unit finds nobody waiting.
LEMMA QueueStep ==
  ASSUME SemInv, QueueInv, [SemNext]_semVars
  PROVE  QueueInv'
<1>1. SemTyped
  BY DEF SemInv
<1>2. ASSUME UNCHANGED <<waiters, came>>, waiters # <<>> => count' = 0,
             \A v \in Op : op[v] # "idle" => op'[v] # "idle"
      PROVE  QueueInv'
  <2>1. InOrder(waiters)'
    BY <1>2 DEF QueueInv, InOrder, CameFirst
  <2> QED  BY <1>2, <2>1 DEF QueueInv
<1>3. ASSUME NEW w \in Op, AcquireFast(w) \/ TryAcquire(w)
      PROVE  QueueInv'
  <2>1. waiters = <<>>
    BY <1>1, <1>3 DEF SemTyped, QueueInv, AcquireFast, TryAcquire
  <2>2. /\ UNCHANGED <<waiters, came>>
        /\ \A v \in Op : op[v] # "idle" => op'[v] # "idle"
    BY <1>1, <1>3 DEF SemTyped, AcquireFast, TryAcquire
  <2> QED  BY <1>2, <2>1, <2>2
<1>4. ASSUME NEW w \in Op, RunHandler(w)
      PROVE  QueueInv'
  <2>1. /\ UNCHANGED <<count, waiters, came>>
        /\ \A v \in Op : op[v] # "idle" => op'[v] # "idle"
    BY <1>1, <1>4 DEF SemTyped, RunHandler
  <2> QED  BY <1>2, <2>1 DEF QueueInv
<1>5. CASE DestroySemaphore \/ UNCHANGED semVars
  <2>1. UNCHANGED <<count, waiters, op, came>>
    BY <1>5 DEF DestroySemaphore, semVars
  <2> QED  BY <1>2, <2>1 DEF QueueInv
<1> QED  BY <1>3, <1>4, <1>5, WaitsLast, GoneFromQueue DEF SemNext

\* Who comes by a unit finds nobody waiting, or is the first of the list.
LEMMA WhoIsServed ==
  ASSUME SemInv, QueueInv, SemNext, NEW w \in Op, op[w] \in {"idle", "waiting"},
         op'[w] \in {"posted", "holds"}
  PROVE  waiters = <<>> \/ (op[w] = "waiting" /\ w = Head(waiters))
<1>1. SemTyped
  BY DEF SemInv
<1>2. ASSUME NEW v \in Op, AcquireFast(v) \/ TryAcquire(v)
      PROVE  waiters = <<>>
  BY <1>1, <1>2 DEF SemTyped, QueueInv, AcquireFast, TryAcquire
<1>3. ASSUME NEW v \in Op, ReleaseUnit(v), waiters # <<>>
      PROVE  op[w] = "waiting" /\ w = Head(waiters)
  <2>1. op' = [[op EXCEPT ![v] = "over"] EXCEPT ![Head(waiters)] = "posted"]
    BY <1>3 DEF ReleaseUnit, Give
  <2>2. v # w
    BY <1>3 DEF ReleaseUnit
  <2>3. w = Head(waiters)
    BY <1>1, <2>1, <2>2 DEF SemTyped
  <2>4. Contains(waiters, Head(waiters))
    BY <1>1, <1>3, HeadTaken DEF SemTyped
  <2> QED  BY <2>3, <2>4 DEF SemInv, WaitersRight
<1>4. ASSUME NEW v \in Op, AcquireWaits(v) \/ RunHandler(v) \/ CancelWait(v)
      PROVE  FALSE
  BY <1>1, <1>4 DEF SemTyped, AcquireWaits, RunHandler, CancelWait
<1>5. ~DestroySemaphore
  BY DEF DestroySemaphore
<1> QED  BY <1>2, <1>3, <1>4, <1>5 DEF SemNext

\* Units go to the operations in the order these came: while one waits, neither one
\* that came later nor a newcomer has a unit.
THEOREM FirstIsServed == SemSpec => ServedInOrder
<1>1. SemInit => QueueInv
  <2>1. <<>> \in Seq(Op) /\ Len(<<>>) = 0 /\ \A y : ~Contains(<<>>, y)
    BY DEF Contains
  <2> QED  BY <2>1 DEF SemInit, QueueInv, InOrder
<1>2. SemInv /\ QueueInv /\ [SemNext]_semVars => QueueInv'
  BY QueueStep
<1>3. SemInv /\ QueueInv /\ [SemNext]_semVars
          => [\A v, w \in Op :
                 op[v] = "waiting" /\ (op[w] = "idle" \/ (op[w] = "waiting" /\ CameFirst(v, w)))
                     => op'[w] \notin {"posted", "holds"}]_semVars
  <2> SUFFICES ASSUME SemInv, QueueInv, SemNext, NEW v \in Op, NEW w \in Op,
                      op[v] = "waiting", op[w] = "idle" \/ (op[w] = "waiting" /\ CameFirst(v, w)),
                      op'[w] \in {"posted", "holds"}
               PROVE  FALSE
    OBVIOUS
  <2>1. waiters \in Seq(Op) /\ Contains(waiters, v)
    BY DEF SemInv, SemTyped, WaitersRight
  <2>2. PICK i \in 1..Len(waiters) : waiters[i] = v
    BY <2>1 DEF Contains
  <2>3. waiters # <<>>
    BY <2>2
  <2>4. op[w] = "waiting" /\ w = Head(waiters)
    BY <2>3, WhoIsServed
  <2>5. waiters[1] = w /\ 1 \in 1..Len(waiters) /\ 1 <= i
    BY <2>1, <2>2, <2>4
  <2>6. ~CameFirst(v, w)
    BY <2>2, <2>5 DEF QueueInv, InOrder
  <2> QED  BY <2>4, <2>6
<1> QED  BY <1>1, <1>2, <1>3, SemaphoreInductive, PTL DEF SemSpec, ServedInOrder

-----------------------------------------------------------------------------
(* TextPool: an object goes on showing its own text.                       *)

\* The larger of two.
LEMMA MaxOfTwo ==
  ASSUME NEW a \in Nat, NEW b \in Nat
  PROVE  Max({a, b}) = IF a <= b THEN b ELSE a
<1>1. \E x \in {a, b} : \A y \in {a, b} : x >= y
  BY DEF Max
<1>2. Max({a, b}) \in {a, b} /\ \A y \in {a, b} : Max({a, b}) >= y
  BY <1>1 DEF Max
<1> QED  BY <1>2

\* What truncate puts into a string.
LEMMA CutText ==
  ASSUME NEW t \in Seq(Nat), NEW limit \in Nat, TooLong(t, limit)
  PROVE  LET most == Max({limit, 3})
         IN  /\ Len(Cut(t, limit)) = most
             /\ \A i \in 1..most : Cut(t, limit)[i] = IF i > most - 3 THEN 0 ELSE t[i]
<1> DEFINE most == Max({limit, 3})
           c == Cut(t, limit)
<1>1. most \in Nat /\ most >= 3 /\ Len(t) \in Nat /\ Len(t) > most
  BY MaxOfTwo, LenProperties DEF TooLong
<1>2. c = SubSeq(t, 1, most - 3) \o Ellipsis
  BY DEF Cut
<1> HIDE DEF most, c
<1>3. PICK k \in Nat : k = most - 3
  BY <1>1
<1> DEFINE a == SubSeq(t, 1, k)
<1>4. a \in Seq(Nat) /\ Len(a) = k /\ \A i \in 1..k : a[i] = t[i]
  <2>1. \A i \in 1..k : t[i] \in Nat
    <3>1. \A i \in 1..k : i \in 1..Len(t)
      BY <1>1, <1>3
    <3> QED  BY <3>1, ElementOfSeq
  <2>2. /\ a \in Seq(Nat) /\ Len(a) = IF 1 <= k THEN k - 1 + 1 ELSE 0
        /\ \A i \in 1..k - 1 + 1 : a[i] = t[1 + i - 1]
    BY <2>1, SubSeqProperties
  <2> HIDE DEF a
  <2>3. (IF 1 <= k THEN k - 1 + 1 ELSE 0) = k /\ k - 1 + 1 = k /\ \A i \in 1..k : 1 + i - 1 = i
    OBVIOUS
  <2> QED  BY <2>2, <2>3
<1>5. Ellipsis \in Seq(Nat) /\ Len(Ellipsis) = 3 /\ \A i \in 1..3 : Ellipsis[i] = 0
  <2>1. \A i \in 1..3 : i = 1 \/ i = 2 \/ i = 3
    OBVIOUS
  <2> QED  BY <2>1 DEF Ellipsis
<1> HIDE DEF a
<1>6. c = a \o Ellipsis
  BY <1>2, <1>3 DEF a
<1>7. /\ Len(c) = k + 3
      /\ \A i \in 1..k + 3 : c[i] = IF i <= k THEN a[i] ELSE Ellipsis[i - k]
  <2>1. /\ Len(c) = Len(a) + Len(Ellipsis)
        /\ \A i \in 1..Len(a) + Len(Ellipsis) :
              c[i] = IF i <= Len(a) THEN a[i] ELSE Ellipsis[i - Len(a)]
    BY <1>4, <1>5, <1>6, ConcatProperties
  <2>2. Len(a) = k /\ Len(Ellipsis) = 3
    BY <1>4, <1>5
  <2> QED  BY <2>1, <2>2
<1>8. most = k + 3 /\ \A i \in 1..k + 3 : /\ i <= k => i \in 1..k /\ ~(i > most - 3)
                                          /\ ~(i <= k) => i - k \in 1..3 /\ i > most - 3
  BY <1>1, <1>3
<1>9. Len(c) = most /\ \A i \in 1..most : c[i] = IF i > most - 3 THEN 0 ELSE t[i]
  BY <1>4, <1>5, <1>7, <1>8
<1> QED  BY <1>9 DEF c, most

PoolTyped ==
    /\ made \in Nat /\ DOMAIN content = 1..made /\ pool \in Seq(1..made)
    /\ handle \in [View -> Nat] /\ sv \in [View -> Nat]
    /\ source \in [View -> SUBSET (Text \X Limit)]

\* Only a string that was kept is in a list more than once.
Once(p) == \A i, j \in 1..Len(p) : p[i] = p[j] => i = j \/ p[i] \in kept

\* A string that was not kept is in the pool once or with one object.
StringsRight ==
    /\ Once(pool)
    /\ \A v \in View : handle[v] # 0 =>
           handle[v] \in 1..made /\ (Contains(pool, handle[v]) => handle[v] \in kept)
    /\ \A v, w \in View :
           v # w /\ handle[v] = handle[w] => handle[v] = 0 \/ handle[v] \in kept

\* What object v, made from s, refers to.
Showing(v, s) ==
    /\ source[v] = {s} /\ sv[v] = handle[v]
    /\ handle[v] # 0 <=> TooLong(s[1], s[2])
    /\ handle[v] # 0 => handle[v] \in kept \/ content[handle[v]] = Cut(s[1], s[2])

ShownRight ==
    \A v \in View : /\ source[v] = {} => handle[v] = 0
                    /\ \A s \in source[v] : Showing(v, s)

PoolInv == PoolTyped /\ StringsRight /\ ShownRight

\* A string is linked: if it is in the pool, which closes to a ring then, it is one
\* that was kept.
LEMMA LinkKeeps ==
  ASSUME NEW S, pool \in Seq(S), NEW n \in S, Once(pool), Contains(pool, n) => n \in kept
  PROVE  /\ OnTop(n) \in Seq(S) /\ Once(OnTop(n))
         /\ \A y : Contains(OnTop(n), y) => Contains(pool, y) \/ y = n
<1>1. PICK m \in Nat : m = Len(pool) /\ DOMAIN pool = 1..m
  BY LenProperties
<1>2. PICK q \in Seq(S), k \in 0..m :
         OnTop(n) = <<n>> \o q /\ Len(q) = k /\ \A i \in 1..k : q[i] = pool[i]
  <2>1. CASE Linked(n) = {}
    <3>1. OnTop(n) = <<n>> \o pool
      BY <2>1 DEF OnTop
    <3>2. m \in 0..m
      BY <1>1
    <3> QED  BY <1>1, <3>1, <3>2
  <2>2. CASE Linked(n) # {}
    <3> DEFINE k == Min(Linked(n))
               q == SubSeq(pool, 1, k)
    <3>1. Linked(n) \subseteq 1..m
      BY <1>1 DEF Linked
    <3>2. k \in 1..m
      <4>1. Linked(n) \subseteq Nat
        BY <1>1, <3>1
      <4>2. k \in Linked(n)
        BY <2>2, <4>1, MinIs
      <4> QED  BY <3>1, <4>2
    <3>3. OnTop(n) = <<n>> \o q
      BY <2>2 DEF OnTop
    <3> HIDE DEF k
    <3>4. \A i \in 1..k : i \in 1..m /\ pool[i] \in S
      BY <1>1, <3>2, ElementOfSeq
    <3>5. 1 \in Int /\ k \in Int
      BY <3>2
    <3>6. /\ q \in Seq(S) /\ Len(q) = IF 1 <= k THEN k - 1 + 1 ELSE 0
          /\ \A i \in 1..k - 1 + 1 : q[i] = pool[1 + i - 1]
      BY <3>4, <3>5, SubSeqProperties
    <3> HIDE DEF q
    <3>7. k - 1 + 1 = k /\ 1 <= k /\ k \in 0..m /\ \A i \in 1..k : 1 + i - 1 = i
      BY <1>1, <3>2
    <3>8. q \in Seq(S) /\ k \in 0..m /\ Len(q) = k /\ \A i \in 1..k : q[i] = pool[i]
      <4>1. Len(q) = k
        BY <3>6, <3>7
      <4>2. \A i \in 1..k : q[i] = pool[i]
        BY <3>6, <3>7
      <4> QED  BY <3>6, <3>7, <4>1, <4>2
    <3> QED  BY <3>3, <3>8
  <2> QED  BY <2>1, <2>2
<1> DEFINE t == OnTop(n)
<1>3. /\ t \in Seq(S) /\ Len(t) = 1 + k /\ t[1] = n
      /\ \A i \in 1..1 + k : i = 1 \/ (i - 1 \in 1..k /\ t[i] = pool[i - 1])
  <2>1. <<n>> \in Seq(S) /\ Len(<<n>>) = 1 /\ <<n>>[1] = n
    OBVIOUS
  <2>2. /\ t \in Seq(S) /\ Len(t) = 1 + k
        /\ \A i \in 1..1 + k : t[i] = IF i <= 1 THEN <<n>>[i] ELSE q[i - 1]
    BY <1>2, <2>1, ConcatProperties
  <2> HIDE DEF t
  <2>3. 1 \in 1..1 + k /\ \A i \in 1..1 + k : i = 1 \/ (~(i <= 1) /\ i - 1 \in 1..k)
    BY <1>1
  <2> QED  BY <1>2, <2>1, <2>2, <2>3
<1> HIDE DEF t
<1>4. \A i \in 1..k : i \in 1..m
  BY <1>1
<1>5. ASSUME NEW y, Contains(t, y) PROVE Contains(pool, y) \/ y = n
  <2>1. PICK i \in 1..1 + k : t[i] = y
    BY <1>3, <1>5 DEF Contains
  <2>2. y = n \/ (i - 1 \in 1..m /\ pool[i - 1] = y)
    BY <1>3, <1>4, <2>1
  <2> QED  BY <1>1, <2>2 DEF Contains
<1>6. Once(t)
  <2> SUFFICES ASSUME NEW i \in 1..1 + k, NEW j \in 1..1 + k, t[i] = t[j], t[i] \notin kept
               PROVE  i = j
    BY <1>3 DEF Once
  <2>1. ~Contains(pool, t[i]) \/ t[i] # n
    OBVIOUS
  <2>2. \A h \in 1..k : Contains(pool, pool[h])
    BY <1>1, <1>4 DEF Contains
  <2>3. CASE i = 1 \/ j = 1
    BY <1>3, <2>1, <2>2, <2>3
  <2>4. CASE i # 1 /\ j # 1
    <3>1. i - 1 \in 1..m /\ j - 1 \in 1..m /\ pool[i - 1] = pool[j - 1] /\ pool[i - 1] \notin kept
      BY <1>3, <1>4, <2>4
    <3>2. i - 1 = j - 1
      BY <1>1, <3>1 DEF Once
    <3> QED  BY <1>1, <3>2
  <2> QED  BY <2>3, <2>4
<1> QED  BY <1>3, <1>5, <1>6 DEF t

\* An object's string, if it has one, goes back to the pool.
LEMMA BackInPool ==
  ASSUME PoolInv, NEW v \in View
  PROVE  LET p == GivenBack(handle[v])
         IN  /\ p \in Seq(1..made) /\ Once(p)
             /\ \A y : Contains(p, y) => Contains(pool, y) \/ (handle[v] # 0 /\ y = handle[v])
<1>1. /\ pool \in Seq(1..made) /\ Once(pool)
      /\ handle[v] # 0 => handle[v] \in 1..made /\ (Contains(pool, handle[v]) => handle[v] \in kept)
  BY DEF PoolInv, PoolTyped, StringsRight
<1>2. CASE handle[v] = 0
  BY <1>1, <1>2 DEF GivenBack
<1>3. CASE handle[v] # 0
  <2>1. GivenBack(handle[v]) = OnTop(handle[v])
    BY <1>3 DEF GivenBack
  <2>2. /\ OnTop(handle[v]) \in Seq(1..made) /\ Once(OnTop(handle[v]))
        /\ \A y : Contains(OnTop(handle[v]), y) => Contains(pool, y) \/ y = handle[v]
    BY <1>1, <1>3, LinkKeeps
  <2> QED  BY <1>3, <2>1, <2>2
<1> QED  BY <1>2, <1>3

\* The string for a text that is too long is with nobody, or was kept.
LEMMA TakenFromPool ==
  ASSUME PoolInv, made' = Max({made, Popped}), pool' = PoolWithout, UNCHANGED kept
  PROVE  /\ made' \in Nat /\ made <= made' /\ Popped \in 1..made' /\ Popped # 0
         /\ 1..made' = 1..made \cup {Popped}
         /\ pool' \in Seq(1..made') /\ Once(pool')
         /\ Contains(pool', Popped) => Popped \in kept
         /\ \A y : Contains(pool', y) => Contains(pool, y)
         /\ \A v \in View : handle[v] # 0 /\ handle[v] = Popped => Popped \in kept
<1>1. PoolTyped /\ StringsRight
  BY DEF PoolInv
<1>2. CASE pool = <<>>
  <2>1. Popped = made + 1 /\ pool' = <<>> /\ made \in Nat
    BY <1>1, <1>2 DEF Popped, PoolWithout, PoolTyped
  <2>2. made' = made + 1
    BY <2>1, MaxOfTwo
  <2>3. \A y : ~Contains(pool', y)
    BY <2>1 DEF Contains
  <2>4. Once(pool') /\ pool' \in Seq(1..made')
    BY <2>1 DEF Once
  <2>5. \A v \in View : handle[v] # 0 => handle[v] # Popped
    BY <1>1, <2>1 DEF StringsRight
  <2>6. made' \in Nat /\ made <= made' /\ Popped \in 1..made' /\ Popped # 0
    BY <2>1, <2>2
  <2>7. 1..made' = 1..made \cup {Popped}
    BY <2>1, <2>2
  <2> QED  BY <2>3, <2>4, <2>5, <2>6, <2>7
<1>3. CASE pool # <<>>
  <2> DEFINE n == Head(pool)
             p == Tail(pool)
  <2>1. Popped = n /\ pool' = p /\ made \in Nat
    BY <1>1, <1>3 DEF Popped, PoolWithout, PoolTyped
  <2>2. /\ n \in 1..made /\ p \in Seq(1..made) /\ Contains(pool, n)
        /\ \A y : Contains(pool, y) <=> Contains(p, y) \/ y = n
    BY <1>1, <1>3, HeadTaken DEF PoolTyped
  <2>3. PICK m \in Nat : Len(pool) = m + 1
    <3>1. Len(pool) \in Nat /\ Len(pool) # 0
      BY <1>1, <1>3, LenProperties, EmptySeq DEF PoolTyped
    <3>2. Len(pool) - 1 \in Nat /\ Len(pool) = (Len(pool) - 1) + 1
      BY <3>1
    <3> QED  BY <3>2
  <2>4. n = pool[1] /\ Len(p) = m /\ \A i \in 1..m : p[i] = pool[i + 1]
    BY <1>1, <1>3, <2>3, HeadTailProperties DEF PoolTyped
  <2> HIDE DEF n, p
  <2>5. 1 \in 1..m + 1 /\ \A i \in 1..m : i + 1 \in 1..m + 1 /\ i + 1 # 1
    BY <2>3
  <2>6. Once(p)
    <3> SUFFICES ASSUME NEW i \in 1..m, NEW j \in 1..m, p[i] = p[j], p[i] \notin kept
                 PROVE  i = j
      BY <2>4 DEF Once
    <3>1. i + 1 \in 1..m + 1 /\ j + 1 \in 1..m + 1 /\ pool[i + 1] = pool[j + 1]
          /\ pool[i + 1] \notin kept
      BY <2>4, <2>5
    <3>2. i + 1 = j + 1
      BY <1>1, <2>3, <3>1 DEF StringsRight, Once
    <3> QED  BY <2>3, <3>2
  <2>7. Contains(p, n) => n \in kept
    <3> SUFFICES ASSUME NEW i \in 1..m, p[i] = n
                 PROVE  n \in kept
      BY <2>4 DEF Contains
    <3>1. pool[i + 1] = pool[1] /\ i + 1 \in 1..m + 1 /\ i + 1 # 1
      BY <2>4, <2>5
    <3> QED  BY <1>1, <2>3, <2>4, <2>5, <3>1 DEF StringsRight, Once
  <2>8. made' = made
    <3>1. n \in Nat /\ n <= made
      BY <2>1, <2>2
    <3> QED  BY <2>1, <3>1, MaxOfTwo
  <2>9. \A v \in View : handle[v] # 0 /\ handle[v] = Popped => Popped \in kept
    BY <1>1, <2>1, <2>2 DEF StringsRight
  <2>10. made' \in Nat /\ made <= made' /\ Popped \in 1..made' /\ Popped # 0
    BY <2>1, <2>2, <2>8
  <2>11. 1..made' = 1..made \cup {Popped}
    BY <2>1, <2>2, <2>8
  <2> QED  BY <2>1, <2>2, <2>6, <2>7, <2>8, <2>9, <2>10, <2>11
<1> QED  BY <1>2, <1>3

\* truncate_op(t, limit)
LEMMA TruncateKeeps ==
  ASSUME PoolInv, TextAssumption, NEW v \in View, NEW t \in Text, NEW limit \in Limit,
         Truncate(v, t, limit)
  PROVE  PoolInv'
<1>1. PoolTyped /\ StringsRight /\ ShownRight /\ source[v] = {} /\ handle[v] = 0
  BY DEF PoolInv, ShownRight, Truncate
<1>2. source' = [source EXCEPT ![v] = {<<t, limit>>}] /\ UNCHANGED kept
  BY DEF Truncate
<1>3. CASE TooLong(t, limit)
  <2> DEFINE n == Popped
  <2>1. /\ handle' = [handle EXCEPT ![v] = n] /\ sv' = [sv EXCEPT ![v] = n]
        /\ content' = [i \in DOMAIN content \cup {n} |->
                          IF i = n THEN Cut(t, limit) ELSE content[i]]
        /\ pool' = PoolWithout /\ made' = Max({made, n})
    BY <1>3 DEF Truncate
  <2>2. /\ made' \in Nat /\ made <= made' /\ n \in 1..made' /\ n # 0
        /\ 1..made' = 1..made \cup {n}
        /\ pool' \in Seq(1..made') /\ Once(pool') /\ (Contains(pool', n) => n \in kept)
        /\ \A y : Contains(pool', y) => Contains(pool, y)
        /\ \A u \in View : handle[u] # 0 /\ handle[u] = n => n \in kept
    BY <1>2, <2>1, TakenFromPool
  <2> HIDE DEF n
  <2>3. PoolTyped'
    <3>1. n \in Nat
      BY <2>2
    <3>2. DOMAIN content' = 1..made'
      BY <1>1, <2>1, <2>2 DEF PoolTyped
    <3>3. source' \in [View -> SUBSET (Text \X Limit)]
      BY <1>1, <1>2 DEF PoolTyped
    <3>4. handle' \in [View -> Nat] /\ sv' \in [View -> Nat]
      BY <1>1, <2>1, <3>1 DEF PoolTyped
    <3> QED  BY <2>2, <3>2, <3>3, <3>4 DEF PoolTyped
  <2>4. StringsRight'
    <3>1. Once(pool)'
      BY <1>2, <2>2 DEF Once
    <3>2. \A u \in View : handle'[u] = IF u = v THEN n ELSE handle[u]
      BY <1>1, <2>1 DEF PoolTyped
    <3>3. \A u \in View : handle'[u] # 0 =>
             handle'[u] \in 1..made' /\ (Contains(pool', handle'[u]) => handle'[u] \in kept)
      BY <1>1, <2>2, <3>2 DEF StringsRight
    <3>4. \A u, w \in View :
             u # w /\ handle'[u] = handle'[w] => handle'[u] = 0 \/ handle'[u] \in kept
      BY <1>1, <2>2, <3>2 DEF StringsRight
    <3> QED  BY <1>2, <3>1, <3>3, <3>4 DEF StringsRight
  <2>5. ShownRight'
    <3> SUFFICES ASSUME NEW u \in View
                 PROVE  /\ source'[u] = {} => handle'[u] = 0
                        /\ \A s \in source'[u] : Showing(u, s)'
      BY DEF ShownRight
    <3>1. CASE u = v
      <4>1. source'[u] = {<<t, limit>>} /\ handle'[u] = n /\ sv'[u] = n /\ content'[n] = Cut(t, limit)
        BY <1>1, <1>2, <2>1, <2>2, <3>1 DEF PoolTyped
      <4>2. <<t, limit>>[1] = t /\ <<t, limit>>[2] = limit
        OBVIOUS
      <4>3. Showing(u, <<t, limit>>)'
        BY <1>3, <2>2, <4>1, <4>2 DEF Showing
      <4> QED  BY <2>2, <4>1, <4>3
    <3>2. CASE u # v
      <4>1. source'[u] = source[u] /\ handle'[u] = handle[u] /\ sv'[u] = sv[u]
        BY <1>1, <1>2, <2>1, <3>2 DEF PoolTyped
      <4>2. handle[u] # 0 => handle[u] \in kept \/ content'[handle[u]] = content[handle[u]]
        BY <1>1, <2>1, <2>2 DEF PoolTyped, StringsRight
      <4> QED  BY <1>1, <1>2, <4>1, <4>2 DEF ShownRight, Showing
    <3> QED  BY <3>1, <3>2
  <2> QED  BY <2>3, <2>4, <2>5 DEF PoolInv
<1>4. CASE ~TooLong(t, limit)
  <2>1. sv' = [sv EXCEPT ![v] = 0] /\ UNCHANGED <<pool, made, content, handle>>
    BY <1>4 DEF Truncate
  <2>2. PoolTyped' /\ StringsRight'
    BY <1>1, <1>2, <2>1 DEF PoolTyped, StringsRight, Once
  <2>3. ShownRight'
    <3> SUFFICES ASSUME NEW u \in View
                 PROVE  /\ source'[u] = {} => handle'[u] = 0
                        /\ \A s \in source'[u] : Showing(u, s)'
      BY DEF ShownRight
    <3>1. CASE u = v
      <4>1. source'[u] = {<<t, limit>>} /\ handle'[u] = 0 /\ sv'[u] = 0
        BY <1>1, <1>2, <2>1, <3>1 DEF PoolTyped
      <4>2. <<t, limit>>[1] = t /\ <<t, limit>>[2] = limit
        OBVIOUS
      <4>3. Showing(u, <<t, limit>>)'
        BY <1>4, <4>1, <4>2 DEF Showing
      <4> QED  BY <4>1, <4>3
    <3>2. CASE u # v
      <4>1. /\ source'[u] = source[u] /\ handle'[u] = handle[u] /\ sv'[u] = sv[u]
            /\ content' = content /\ kept' = kept
        BY <1>1, <1>2, <2>1, <3>2 DEF PoolTyped
      <4> QED  BY <1>1, <4>1 DEF ShownRight, Showing
    <3> QED  BY <3>1, <3>2
  <2> QED  BY <2>2, <2>3 DEF PoolInv
<1> QED  BY <1>3, <1>4

\* The destructor gives the string back.
LEMMA DestroyViewKeeps ==
  ASSUME PoolInv, NEW v \in View, DestroyView(v)
  PROVE  PoolInv'
<1>1. PoolTyped /\ StringsRight /\ ShownRight
  BY DEF PoolInv
<1>2. /\ source' = [source EXCEPT ![v] = {}] /\ pool' = GivenBack(handle[v])
      /\ handle' = [handle EXCEPT ![v] = 0] /\ UNCHANGED <<made, content, sv, kept>>
  BY DEF DestroyView
<1>3. /\ pool' \in Seq(1..made) /\ Once(pool')
      /\ \A y : Contains(pool', y) => Contains(pool, y) \/ (handle[v] # 0 /\ y = handle[v])
  BY <1>2, BackInPool
<1>4. PoolTyped'
  BY <1>1, <1>2, <1>3 DEF PoolTyped
<1>5. StringsRight'
  <2>1. \A u \in View : handle'[u] = IF u = v THEN 0 ELSE handle[u]
    BY <1>1, <1>2 DEF PoolTyped
  <2>2. Once(pool)'
    BY <1>2, <1>3 DEF Once
  <2>3. \A u \in View : handle'[u] # 0 =>
           handle'[u] \in 1..made /\ (Contains(pool', handle'[u]) => handle'[u] \in kept)
    BY <1>1, <1>3, <2>1 DEF StringsRight
  <2>4. \A u, w \in View :
           u # w /\ handle'[u] = handle'[w] => handle'[u] = 0 \/ handle'[u] \in kept
    BY <1>1, <2>1 DEF StringsRight
  <2> QED  BY <1>2, <2>2, <2>3, <2>4 DEF StringsRight
<1>6. ShownRight'
  BY <1>1, <1>2 DEF PoolTyped, ShownRight, Showing
<1> QED  BY <1>4, <1>5, <1>6 DEF PoolInv

\* The move constructor: the string goes with the view.
LEMMA MoveViewKeeps ==
  ASSUME PoolInv, NEW v \in View, NEW w \in View, MoveView(v, w)
  PROVE  PoolInv'
<1>1. PoolTyped /\ StringsRight /\ ShownRight /\ v # w /\ source[w] = {} /\ handle[w] = 0
  BY DEF PoolInv, ShownRight, MoveView
<1>2. /\ source' = [source EXCEPT ![w] = source[v], ![v] = {}]
      /\ handle' = [handle EXCEPT ![w] = handle[v], ![v] = 0]
      /\ sv' = [sv EXCEPT ![w] = sv[v]] /\ UNCHANGED <<pool, made, content, kept>>
  BY DEF MoveView
<1>3. PoolTyped'
  BY <1>1, <1>2 DEF PoolTyped
<1>4. \A u \in View : handle'[u] = IF u = v THEN 0 ELSE IF u = w THEN handle[v] ELSE handle[u]
  BY <1>1, <1>2 DEF PoolTyped
<1>5. StringsRight'
  <2>1. Once(pool)'
    BY <1>1, <1>2 DEF StringsRight, Once
  <2>2. \A u \in View : handle'[u] # 0 =>
           handle'[u] \in 1..made /\ (Contains(pool', handle'[u]) => handle'[u] \in kept)
    BY <1>1, <1>2, <1>4 DEF StringsRight
  <2>3. ASSUME NEW x \in View, NEW y \in View, x # y, handle'[x] = handle'[y]
        PROVE  handle'[x] = 0 \/ handle'[x] \in kept
    BY <1>1, <1>4, <2>3 DEF StringsRight
  <2> QED  BY <1>2, <2>1, <2>2, <2>3 DEF StringsRight
<1>6. ShownRight'
  <2>1. \A u \in View : /\ source'[u] = IF u = v THEN {} ELSE IF u = w THEN source[v] ELSE source[u]
                        /\ sv'[u] = IF u = w THEN sv[v] ELSE sv[u]
    BY <1>1, <1>2 DEF PoolTyped
  <2> SUFFICES ASSUME NEW u \in View
               PROVE  /\ source'[u] = {} => handle'[u] = 0
                      /\ \A s \in source'[u] : Showing(u, s)'
    BY DEF ShownRight
  <2>2. CASE u = v
    BY <1>4, <2>1, <2>2
  <2>3. CASE u = w
    <3>1. source'[u] = source[v] /\ handle'[u] = handle[v] /\ sv'[u] = sv[v]
          /\ content' = content /\ kept' = kept
      BY <1>1, <1>2, <1>4, <2>1, <2>3
    <3> QED  BY <1>1, <3>1 DEF ShownRight, Showing
  <2>4. CASE u # v /\ u # w
    <3>1. source'[u] = source[u] /\ handle'[u] = handle[u] /\ sv'[u] = sv[u]
          /\ content' = content /\ kept' = kept
      BY <1>2, <1>4, <2>1, <2>4
    <3> QED  BY <1>1, <3>1 DEF ShownRight, Showing
  <2> QED  BY <2>2, <2>3, <2>4
<1> QED  BY <1>3, <1>5, <1>6 DEF PoolInv

\* The move assignment: the string there was goes back, and is kept if the object is
\* assigned to itself.
LEMMA AssignViewKeeps ==
  ASSUME PoolInv, NEW v \in View, NEW w \in View, AssignView(v, w)
  PROVE  PoolInv'
<1>1. PoolTyped /\ StringsRight /\ ShownRight
  BY DEF PoolInv
<1>2. /\ source' = [source EXCEPT ![w] = {}, ![v] = source[w]]
      /\ pool' = GivenBack(handle[v])
      /\ handle' = [handle EXCEPT ![w] = 0, ![v] = handle[w]]
      /\ sv' = [sv EXCEPT ![v] = sv[w]]
      /\ kept' = kept \cup (IF v = w THEN {handle[v]} \ {0} ELSE {})
      /\ UNCHANGED <<made, content>>
  BY DEF AssignView
<1>3. /\ pool' \in Seq(1..made) /\ Once(pool')
      /\ \A y : Contains(pool', y) => Contains(pool, y) \/ (handle[v] # 0 /\ y = handle[v])
  BY <1>2, BackInPool
<1>4. PoolTyped'
  BY <1>1, <1>2, <1>3 DEF PoolTyped
<1>5. \A u \in View : handle'[u] = IF u = v THEN handle[w] ELSE IF u = w THEN 0 ELSE handle[u]
  BY <1>1, <1>2 DEF PoolTyped
<1>6. StringsRight'
  <2>1. kept \subseteq kept' /\ (v = w /\ handle[v] # 0 => handle[v] \in kept')
    BY <1>2
  <2>2. Once(pool)'
    BY <1>3, <2>1 DEF Once
  <2>3. ASSUME NEW u \in View, handle'[u] # 0
        PROVE  handle'[u] \in 1..made /\ (Contains(pool', handle'[u]) => handle'[u] \in kept')
    <3>1. CASE u = v
      BY <1>1, <1>3, <1>5, <2>1, <2>3, <3>1 DEF StringsRight
    <3>2. CASE u # v
      BY <1>1, <1>3, <1>5, <2>1, <2>3, <3>2 DEF StringsRight
    <3> QED  BY <3>1, <3>2
  <2>4. ASSUME NEW x \in View, NEW y \in View, x # y, handle'[x] = handle'[y]
        PROVE  handle'[x] = 0 \/ handle'[x] \in kept'
    BY <1>1, <1>5, <2>1, <2>4 DEF StringsRight
  <2> QED  BY <1>2, <2>2, <2>3, <2>4 DEF StringsRight
<1>7. ShownRight'
  <2>1. \A u \in View : /\ source'[u] = IF u = v THEN source[w] ELSE IF u = w THEN {} ELSE source[u]
                        /\ sv'[u] = IF u = v THEN sv[w] ELSE sv[u]
    BY <1>1, <1>2 DEF PoolTyped
  <2>0. kept \subseteq kept' /\ content' = content
    BY <1>2
  <2> SUFFICES ASSUME NEW u \in View
               PROVE  /\ source'[u] = {} => handle'[u] = 0
                      /\ \A s \in source'[u] : Showing(u, s)'
    BY DEF ShownRight
  <2>2. CASE u = w /\ u # v
    BY <1>5, <2>1, <2>2
  <2>3. CASE u = v
    <3>1. source'[u] = source[w] /\ handle'[u] = handle[w] /\ sv'[u] = sv[w]
      BY <1>1, <1>2, <1>5, <2>1, <2>3
    <3> QED  BY <1>1, <2>0, <3>1 DEF ShownRight, Showing
  <2>4. CASE u # v /\ u # w
    <3>1. source'[u] = source[u] /\ handle'[u] = handle[u] /\ sv'[u] = sv[u]
      BY <1>2, <1>5, <2>1, <2>4
    <3> QED  BY <1>1, <2>0, <3>1 DEF ShownRight, Showing
  <2> QED  BY <2>2, <2>3, <2>4
<1> QED  BY <1>4, <1>6, <1>7 DEF PoolInv

\* But for those an object kept when it was assigned to itself, the strings are with
\* one object or in the pool, and an object's string has its text.
THEOREM PoolInductive == PoolSpec => []PoolInv
<1>1. TextAssumption
  BY TextAssumption
<1>2. PoolInit => PoolInv
  <2> SUFFICES ASSUME PoolInit
               PROVE  PoolInv
    OBVIOUS
  <2>1. PoolTyped
    BY DEF PoolInit, PoolTyped
  <2>2. StringsRight /\ ShownRight
    BY DEF PoolInit, StringsRight, ShownRight, Once
  <2> QED  BY <2>1, <2>2 DEF PoolInv
<1>3. PoolInv /\ [PoolNext]_poolVars => PoolInv'
  <2> SUFFICES ASSUME PoolInv, [PoolNext]_poolVars
               PROVE  PoolInv'
    OBVIOUS
  <2>1. CASE PoolNext
    BY <1>1, <2>1, TruncateKeeps, DestroyViewKeeps, MoveViewKeeps, AssignViewKeeps DEF PoolNext
  <2>2. CASE UNCHANGED poolVars
    BY <2>2 DEF poolVars, PoolInv, PoolTyped, StringsRight, Once, ShownRight, Showing
  <2> QED  BY <2>1, <2>2
<1> QED  BY <1>2, <1>3, PTL DEF PoolSpec

\* An object shows its own text, whole or cut, whatever other objects did with the
\* strings of the pool, unless its string is one that an object assigned to itself
\* gave back and kept.
THEOREM TextsAreShown == PoolSpec => []ShowsItsText
<1>1. PoolInv => ShowsItsText
  <2> SUFFICES ASSUME PoolInv, NEW v \in View, NEW s \in source[v], sv[v] \notin kept
               PROVE  LET most == Max({s[2], 3})
                      IN  IF Len(s[1]) <= most THEN Shown(v) = s[1]
                          ELSE /\ Len(Shown(v)) = most
                               /\ \A i \in 1..most :
                                     Shown(v)[i] = IF i > most - 3 THEN 0 ELSE s[1][i]
    BY DEF ShowsItsText
  <2>1. Showing(v, s) /\ s \in Text \X Limit
    BY DEF PoolInv, PoolTyped, ShownRight
  <2>2. PICK t \in Text, limit \in Limit : s = <<t, limit>>
    BY <2>1
  <2>3. t \in Seq(Nat) /\ limit \in Nat /\ Len(t) \in Nat
    BY LenProperties, TextAssumption DEF TextAssumption
  <2>8. TooLong(t, limit) <=> ~(Len(t) <= Max({limit, 3}))
    <3>1. Max({limit, 3}) \in Nat
      BY <2>3, MaxOfTwo
    <3>2. Len(t) > Max({limit, 3}) <=> ~(Len(t) <= Max({limit, 3}))
      BY <2>3, <3>1
    <3> QED  BY <3>2 DEF TooLong
  <2>4. (CHOOSE x \in source[v] : TRUE) = s
    BY <2>1 DEF Showing
  <2>5. Shown(v) = IF sv[v] = 0 THEN t ELSE content[sv[v]]
    <3>1. (CHOOSE x \in source[v] : TRUE)[1] = t
      <4>1. s[1] = t
        BY <2>2
      <4> QED  BY <2>4, <4>1
    <3> QED  BY <3>1 DEF Shown
  <2>6. CASE TooLong(t, limit)
    <3>1. Shown(v) = Cut(t, limit)
      BY <2>1, <2>2, <2>5, <2>6 DEF Showing
    <3>2. ~(Len(t) <= Max({limit, 3}))
      BY <2>6, <2>8
    <3>3. LET most == Max({limit, 3})
          IN  /\ Len(Cut(t, limit)) = most
              /\ \A i \in 1..most : Cut(t, limit)[i] = IF i > most - 3 THEN 0 ELSE t[i]
      BY <2>3, <2>6, CutText
    <3>4. s[1] = t /\ s[2] = limit
      BY <2>2
    <3> QED  BY <3>1, <3>2, <3>3, <3>4
  <2>7. CASE ~TooLong(t, limit)
    <3>1. Shown(v) = t
      BY <2>1, <2>2, <2>5, <2>7 DEF Showing
    <3>2. Len(t) <= Max({limit, 3})
      BY <2>7, <2>8
    <3> QED  BY <2>2, <3>1, <3>2
  <2> QED  BY <2>6, <2>7
<1> QED  BY <1>1, PoolInductive, PTL

-----------------------------------------------------------------------------
(* The largest member of a set.                                            *)

\* A set of naturals with a bound has a largest member, and Max finds it.
LEMMA MaxIs ==
  ASSUME NEW S, S \subseteq Nat, S # {}, NEW b \in Nat, \A m \in S : m <= b
  PROVE  Max(S) \in S /\ \A m \in S : m <= Max(S)
<1> DEFINE U == {u \in Nat : \A m \in S : m <= u}
<1>1. PICK n \in U : \A u \in U : n <= u
  <2>1. U \subseteq Nat /\ U # {}
    OBVIOUS
  <2> HIDE DEF U
  <2> QED  BY <2>1, LeastOf
<1>2. n \in S
  <2> SUFFICES ASSUME n \notin S
               PROVE  FALSE
    OBVIOUS
  <2>1. \A m \in S : m \in Nat /\ m <= n /\ m # n
    BY <1>1
  <2>2. n # 0 /\ n - 1 \in Nat
    <3>1. PICK m \in S : TRUE
      OBVIOUS
    <3>2. n \in Nat /\ m \in Nat /\ m <= n /\ m # n
      BY <1>1, <2>1
    <3> QED  BY <3>2
  <2>3. \A m \in S : m <= n - 1
    BY <1>1, <2>1
  <2>4. n - 1 \in U
    BY <2>2, <2>3
  <2> QED  BY <1>1, <2>2, <2>4
<1>3. \E x \in S : \A y \in S : x >= y
  BY <1>1, <1>2
<1>4. Max(S) \in S /\ \A y \in S : Max(S) >= y
  BY <1>3 DEF Max
<1> QED  BY <1>4

-----------------------------------------------------------------------------
(* Table: the columns are aligned.                                         *)

\* Rows that have a text, in columns and of lengths up to some number.
TableInv ==
    \E b \in Nat : \A r \in DOMAIN data :
        /\ DOMAIN data[r] # {}
        /\ \A c \in DOMAIN data[r] : c \in 0..b /\ data[r][c] \in 0..b

\* set leaves a table so.
LEMMA SetCellKeeps ==
  ASSUME TableInv, TableAssumption, NEW r \in Row, NEW c \in Column, NEW n \in Width,
         SetCell(r, c, n)
  PROVE  TableInv'
<1>1. c \in Nat /\ n \in Nat
  BY DEF TableAssumption
<1>2. PICK b \in Nat : \A s \in DOMAIN data :
          /\ DOMAIN data[s] # {}
          /\ \A d \in DOMAIN data[s] : d \in 0..b /\ data[s][d] \in 0..b
  BY DEF TableInv
<1> DEFINE e == b + c + n
           cells == [d \in DOMAIN CellsOf(r) \cup {c} |-> IF d = c THEN n ELSE CellsOf(r)[d]]
<1>3. e \in Nat /\ c \in 0..e /\ n \in 0..e /\ \A x \in 0..b : x \in 0..e
  BY <1>1
<1>4. data' = [s \in DOMAIN data \cup {r} |-> IF s = r THEN cells ELSE data[s]]
  BY DEF SetCell
<1>5. \A d \in DOMAIN CellsOf(r) : d \in 0..b /\ CellsOf(r)[d] \in 0..b
  BY <1>2 DEF CellsOf, NoCells
<1>6. DOMAIN cells # {} /\ \A d \in DOMAIN cells : d \in 0..e /\ cells[d] \in 0..e
  <2>1. DOMAIN cells = DOMAIN CellsOf(r) \cup {c}
    OBVIOUS
  <2>2. \A d \in DOMAIN cells : cells[d] = IF d = c THEN n ELSE CellsOf(r)[d]
    OBVIOUS
  <2> HIDE DEF cells, e
  <2> QED  BY <1>3, <1>5, <2>1, <2>2
<1> HIDE DEF cells, e
<1>7. ASSUME NEW s \in DOMAIN data'
      PROVE  /\ DOMAIN data'[s] # {}
             /\ \A d \in DOMAIN data'[s] : d \in 0..e /\ data'[s][d] \in 0..e
  <2>1. CASE s = r
    <3>1. data'[s] = cells
      BY <1>4, <1>7, <2>1
    <3> QED  BY <1>6, <3>1
  <2>2. CASE s # r
    <3>1. s \in DOMAIN data /\ data'[s] = data[s]
      BY <1>4, <1>7, <2>2
    <3> QED  BY <1>2, <1>3, <3>1
  <2> QED  BY <2>1, <2>2
<1> QED  BY <1>3, <1>7 DEF TableInv

\* calc_widths: every column up to the last is as wide as any of its texts.
LEMMA WidthsFit ==
  ASSUME TableInv, NEW r \in DOMAIN data
  PROVE  /\ \A c \in DOMAIN CalcWidths : CalcWidths[c] \in Nat
         /\ \A c \in DOMAIN data[r] :
               c \in DOMAIN CalcWidths /\ data[r][c] \in Nat /\ data[r][c] <= CalcWidths[c]
<1>1. PICK b \in Nat : \A s \in DOMAIN data :
          /\ DOMAIN data[s] # {}
          /\ \A d \in DOMAIN data[s] : d \in 0..b /\ data[s][d] \in 0..b
  BY DEF TableInv
<1> DEFINE C == UNION {DOMAIN data[s] : s \in DOMAIN data}
           L(c) == {0} \cup {data[s][c] : s \in {q \in DOMAIN data : c \in DOMAIN data[q]}}
<1>2. Max(C) \in Nat /\ \A c \in C : c \in 0..Max(C)
  <2>1. C \subseteq Nat /\ C # {} /\ \A c \in C : c <= b
    BY <1>1
  <2> HIDE DEF C
  <2>2. Max(C) \in C /\ \A m \in C : m <= Max(C)
    BY <2>1, MaxIs
  <2> DEFINE M == Max(C)
  <2>3. M \in Nat /\ \A c \in C : c \in Nat /\ c <= M
    BY <2>1, <2>2
  <2> HIDE DEF M
  <2>4. M \in Nat /\ \A c \in C : c \in 0..M
    BY <2>3
  <2> QED  BY <2>4 DEF M
<1>3. ASSUME NEW c
      PROVE  Max(L(c)) \in Nat /\ \A n \in L(c) : n \in Nat /\ n <= Max(L(c))
  <2>1. L(c) \subseteq Nat /\ L(c) # {} /\ \A n \in L(c) : n <= b
    BY <1>1
  <2> HIDE DEF L
  <2>2. Max(L(c)) \in L(c) /\ \A m \in L(c) : m <= Max(L(c))
    BY <2>1, MaxIs
  <2> QED  BY <2>1, <2>2
<1>4. CalcWidths = [c \in 0..Max(C) |-> Max(L(c))]
  BY DEF CalcWidths
<1>5. \A c \in DOMAIN data[r] : c \in C /\ data[r][c] \in L(c)
  OBVIOUS
<1> HIDE DEF C, L
<1>6. DOMAIN CalcWidths = 0..Max(C) /\ \A c \in 0..Max(C) : CalcWidths[c] = Max(L(c))
  BY <1>4
<1>7. \A c \in DOMAIN CalcWidths : CalcWidths[c] \in Nat
  BY <1>3, <1>6
<1>8. ASSUME NEW c \in DOMAIN data[r]
      PROVE  c \in DOMAIN CalcWidths /\ data[r][c] \in Nat /\ data[r][c] <= CalcWidths[c]
  BY <1>2, <1>3, <1>5, <1>6, <1>8
<1> QED  BY <1>7, <1>8

\* pad: the spaces around a text that fits.
LEMMA PadCentres ==
  ASSUME NEW n \in Nat, NEW field \in Nat, n <= field
  PROVE  LET f == Pad(n, field)
         IN  /\ f.pre >= 0 /\ f.post - f.pre \in {0, 1} /\ f.text = n
             /\ f.pre + f.text + f.post = field
<1>1. PICK k \in Nat : k = field - n
  OBVIOUS
<1>2. PICK h \in Nat : h = k \div 2 /\ (k = 2 * h \/ k = 2 * h + 1)
  OBVIOUS
<1>3. Pad(n, field) = [pre |-> h, text |-> n, post |-> field - (n + h)]
  BY <1>1, <1>2 DEF Pad
<1>4. field - (n + h) - h \in {0, 1} /\ h + n + (field - (n + h)) = field
  BY <1>1, <1>2
<1> QED  BY <1>3, <1>4

\* A field is never narrower than its text, whatever rows and columns are missing.
THEOREM TablesAlign == TableSpec => []ColumnsAlign
<1>1. TableAssumption
  BY TableAssumption
<1>2. TableInit => TableInv
  BY DEF TableInit, TableInv
<1>3. TableInv /\ [TableNext]_data => TableInv'
  <2>1. ASSUME TableInv, UNCHANGED data PROVE TableInv'
    BY <2>1 DEF TableInv
  <2> QED  BY <1>1, <2>1, SetCellKeeps DEF TableNext
<1>4. TableInv => ColumnsAlign
  <2> SUFFICES ASSUME TableInv, NEW r \in DOMAIN data, NEW c \in DOMAIN CalcWidths
               PROVE  LET f == Line(r)[c]
                      IN  /\ f.pre >= 0 /\ f.post - f.pre \in {0, 1}
                          /\ f.pre + f.text + f.post = CalcWidths[c]
                          /\ c \in DOMAIN data[r] => f.text = data[r][c]
    BY DEF ColumnsAlign
  <2> DEFINE n == IF c \in DOMAIN data[r] THEN data[r][c] ELSE 0
  <2>1. Line(r)[c] = Pad(n, CalcWidths[c])
    BY DEF Line
  <2>2. n \in Nat /\ CalcWidths[c] \in Nat /\ n <= CalcWidths[c]
    BY WidthsFit
  <2>3. c \in DOMAIN data[r] => n = data[r][c]
    OBVIOUS
  <2> HIDE DEF n
  <2> QED  BY <2>1, <2>2, <2>3, PadCentres
<1> QED  BY <1>2, <1>3, <1>4, PTL DEF TableSpec

-----------------------------------------------------------------------------
(* MarketKeys: what is printed and sent for a market is read back as it.   *)

Small == {"a", "b"}
Lowered(c) == IF c \in DOMAIN Lower THEN Lower[c] ELSE c

\* A text t that is read as base b and term m: their lengths, and their characters
\* in one case or the other.
Reads(t, b, m) ==
    /\ Len(t) = Len(b) + 1 + Len(m)
    /\ \A i \in 1..Len(b) : t[i] \notin Separator /\ Lowered(t[i]) = b[i]
    /\ t[Len(b) + 1] \in Separator
    /\ \A i \in 1..Len(m) : Lowered(t[Len(b) + 1 + i]) = m[i]

\* Letters have two cases, separators one.
LEMMA Cases ==
  /\ DOMAIN Lower \cap Separator = {} /\ DOMAIN Upper = DOMAIN Lower
  /\ Small \subseteq DOMAIN Lower /\ Character = DOMAIN Lower \cup Separator
  /\ \A c \in DOMAIN Lower : Lower[c] \in Small /\ Upper[c] \in DOMAIN Lower
  /\ \A c \in Small : Lower[c] = c /\ Lower[Upper[c]] = c
  BY DEF Lower, Upper, Separator, Character, Small

\* Part of a text.
LEMMA PartOf ==
  ASSUME NEW S, NEW t \in Seq(S), NEW j \in Nat, NEW n \in Nat, j + n <= Len(t)
  PROVE  LET p == SubSeq(t, j + 1, j + n)
         IN  p \in Seq(S) /\ Len(p) = n /\ \A i \in 1..n : p[i] = t[j + i]
<1>1. PICK l \in Nat : l = Len(t)
  BY LenProperties
<1>2. \A i \in j + 1..j + n : t[i] \in S
  <2>1. \A i \in j + 1..j + n : i \in 1..l
    BY <1>1
  <2> QED  BY <1>1, <2>1, ElementOfSeq
<1> DEFINE p == SubSeq(t, j + 1, j + n)
<1>3. /\ p \in Seq(S) /\ Len(p) = IF j + 1 <= j + n THEN (j + n) - (j + 1) + 1 ELSE 0
      /\ \A i \in 1..(j + n) - (j + 1) + 1 : p[i] = t[j + 1 + i - 1]
  <2>1. j + 1 \in Int /\ j + n \in Int
    OBVIOUS
  <2> QED  BY <1>2, <2>1, SubSeqProperties
<1> HIDE DEF p
<1>4. /\ (IF j + 1 <= j + n THEN (j + n) - (j + 1) + 1 ELSE 0) = n
      /\ (j + n) - (j + 1) + 1 = n /\ \A i \in 1..n : j + 1 + i - 1 = j + i
  OBVIOUS
<1>5. p \in Seq(S) /\ Len(p) = n /\ \A i \in 1..n : p[i] = t[j + i]
  BY <1>3, <1>4
<1> QED  BY <1>5 DEF p

\* Changing the case of a text.
Maps(f, S, R) == \A c \in S : (IF c \in DOMAIN f THEN f[c] ELSE c) \in R

\* A text in another case has the same length, and its characters one by one.
LEMMA CasedIs ==
  ASSUME NEW S, NEW s \in Seq(S), NEW f, NEW R, Maps(f, S, R)
  PROVE  /\ Cased(s, f) \in Seq(R) /\ Len(Cased(s, f)) = Len(s)
         /\ \A i \in 1..Len(s) : Cased(s, f)[i] = IF s[i] \in DOMAIN f THEN f[s[i]] ELSE s[i]
<1>1. PICK m \in Nat : m = Len(s)
  BY LenProperties
<1>2. DOMAIN s = 1..m /\ \A i \in 1..m : s[i] \in S
  BY <1>1, LenProperties, ElementOfSeq
<1>3. Cased(s, f) = [i \in 1..m |-> IF s[i] \in DOMAIN f THEN f[s[i]] ELSE s[i]]
  BY <1>2 DEF Cased
<1>4. Cased(s, f) \in [1..m -> R]
  BY <1>2, <1>3 DEF Maps
<1> DEFINE c == Cased(s, f)
<1> HIDE DEF c
<1>5. c \in Seq(R) /\ Len(c) = m
  BY <1>4 DEF c
<1> QED  BY <1>1, <1>3, <1>5 DEF c

\* spot_key reads the base and the term of such a text.
LEMMA ReadBack ==
  ASSUME NEW t \in Seq(Character), NEW b \in Seq(Character), NEW m \in Seq(Character),
         Reads(t, b, m)
  PROVE  SpotKey(t) = {[base |-> b, term |-> m]}
<1>1. PICK k \in Nat, n \in Nat : k = Len(b) /\ n = Len(m)
  BY LenProperties
<1>2. Len(t) = k + 1 + n /\ DOMAIN t = 1..k + 1 + n
  BY <1>1, LenProperties DEF Reads
<1>3. SeparatorAt(t) = k + 1
  <2> DEFINE I == {i \in DOMAIN t : t[i] \in Separator}
  <2>1. k + 1 \in I
    BY <1>1, <1>2 DEF Reads
  <2>2. \A i \in I : i \in Nat /\ k + 1 <= i
    <3> SUFFICES ASSUME NEW i \in I, ~(k + 1 <= i)
                 PROVE  FALSE
      BY <1>2
    <3>1. i \in 1..k
      BY <1>2
    <3> QED  BY <1>1, <3>1 DEF Reads
  <2> HIDE DEF I
  <2>3. Min(I) \in I /\ \A i \in I : Min(I) <= i
    <3>1. I \subseteq Nat /\ I # {}
      BY <2>1, <2>2
    <3> QED  BY <3>1, MinIs
  <2>4. Min(I) = k + 1
    <3>1. Min(I) \in Nat /\ Min(I) <= k + 1 /\ k + 1 <= Min(I)
      BY <2>1, <2>2, <2>3
    <3> QED  BY <3>1
  <2> QED  BY <2>4 DEF SeparatorAt, I
<1>4. \E i \in DOMAIN t : t[i] \in Separator
  BY <1>1, <1>2 DEF Reads
<1> DEFINE p == SubSeq(t, 1, k)
           q == SubSeq(t, k + 2, k + 1 + n)
<1>5. SpotKey(t) = {[base |-> Cased(p, Lower), term |-> Cased(q, Lower)]}
  <2>1. (k + 1) - 1 = k /\ (k + 1) + 1 = k + 2
    OBVIOUS
  <2> QED  BY <1>2, <1>3, <1>4, <2>1 DEF SpotKey
<1>6. p \in Seq(Character) /\ Len(p) = k /\ \A i \in 1..k : p[i] = t[i]
  <2>1. 0 \in Nat /\ 0 + k <= Len(t) /\ 0 + 1 = 1 /\ 0 + k = k /\ \A i \in 1..k : 0 + i = i
    BY <1>2
  <2> QED  BY <2>1, PartOf
<1>7. q \in Seq(Character) /\ Len(q) = n /\ \A i \in 1..n : q[i] = t[k + 1 + i]
  <2> DEFINE r == SubSeq(t, (k + 1) + 1, (k + 1) + n)
  <2>1. k + 1 \in Nat /\ (k + 1) + n <= Len(t)
    BY <1>2
  <2>2. r \in Seq(Character) /\ Len(r) = n /\ \A i \in 1..n : r[i] = t[(k + 1) + i]
    BY <2>1, PartOf
  <2>3. q = r
    <3>1. (k + 1) + 1 = k + 2
      OBVIOUS
    <3> QED  BY <3>1
  <2> HIDE DEF q, r
  <2> QED  BY <2>2, <2>3
<1> HIDE DEF p, q
<1>8. Maps(Lower, Character, Character)
  BY Cases DEF Maps
<1>9. /\ Cased(p, Lower) \in Seq(Character) /\ Len(Cased(p, Lower)) = k
      /\ \A i \in 1..k : Cased(p, Lower)[i] = Lowered(p[i])
  <2> DEFINE c == Cased(p, Lower)
  <2>1. /\ c \in Seq(Character) /\ Len(c) = Len(p)
        /\ \A i \in 1..Len(p) : c[i] = IF p[i] \in DOMAIN Lower THEN Lower[p[i]] ELSE p[i]
    <3>1. p \in Seq(Character)
      BY <1>6
    <3> QED  BY <1>8, <3>1, CasedIs
  <2> HIDE DEF c
  <2>2. /\ c \in Seq(Character) /\ Len(c) = k
        /\ \A i \in 1..k : c[i] = Lowered(p[i])
    BY <1>6, <2>1 DEF Lowered
  <2> QED  BY <2>2 DEF c
<1>10. /\ Cased(q, Lower) \in Seq(Character) /\ Len(Cased(q, Lower)) = n
       /\ \A i \in 1..n : Cased(q, Lower)[i] = Lowered(q[i])
  <2> DEFINE c == Cased(q, Lower)
  <2>1. /\ c \in Seq(Character) /\ Len(c) = Len(q)
        /\ \A i \in 1..Len(q) : c[i] = IF q[i] \in DOMAIN Lower THEN Lower[q[i]] ELSE q[i]
    <3>1. q \in Seq(Character)
      BY <1>7
    <3> QED  BY <1>8, <3>1, CasedIs
  <2> HIDE DEF c
  <2>2. /\ c \in Seq(Character) /\ Len(c) = n
        /\ \A i \in 1..n : c[i] = Lowered(q[i])
    BY <1>7, <2>1 DEF Lowered
  <2> QED  BY <2>2 DEF c
<1>11. Cased(p, Lower) = b
  <2>1. \A i \in 1..k : Cased(p, Lower)[i] = b[i]
    BY <1>1, <1>6, <1>9 DEF Reads
  <2> QED  BY <1>1, <1>9, <2>1, SeqEqual
<1>12. Cased(q, Lower) = m
  <2>1. \A i \in 1..n : Cased(q, Lower)[i] = m[i]
    BY <1>1, <1>7, <1>10 DEF Reads
  <2> QED  BY <1>1, <1>10, <2>1, SeqEqual
<1> QED  BY <1>5, <1>11, <1>12

\* A key has lower-case parts, the base without a separator.
LEMMA KeyParts ==
  ASSUME NEW t \in Seq(Character), NEW k \in SpotKey(t)
  PROVE  /\ k.base \in Seq(Small) /\ k.term \in Seq(Small \cup Separator)
         /\ k = [base |-> k.base, term |-> k.term]
<1>1. PICK l \in Nat : l = Len(t) /\ DOMAIN t = 1..l
  BY LenProperties
<1>2. \E i \in DOMAIN t : t[i] \in Separator
  BY DEF SpotKey
<1> DEFINE I == {i \in DOMAIN t : t[i] \in Separator}
           s == SeparatorAt(t)
<1>3. s \in 1..l /\ \A i \in 1..l : t[i] \in Separator => s <= i
  <2>1. I \subseteq Nat /\ I # {} /\ I \subseteq 1..l /\ \A i \in 1..l : t[i] \in Separator => i \in I
    BY <1>1, <1>2
  <2>2. s = Min(I)
    BY DEF SeparatorAt
  <2> HIDE DEF I, s
  <2> QED  BY <2>1, <2>2, MinIs
<1> HIDE DEF s
<1>4. PICK j \in Nat, n \in Nat : s = j + 1 /\ l = s + n
  <2>1. s - 1 \in Nat /\ l - s \in Nat /\ s = (s - 1) + 1 /\ l = s + (l - s)
    BY <1>3
  <2> QED  BY <2>1
<1> DEFINE p == SubSeq(t, 1, j)
           q == SubSeq(t, s + 1, l)
<1>5. k = [base |-> Cased(p, Lower), term |-> Cased(q, Lower)]
  <2>1. s - 1 = j
    BY <1>4
  <2> QED  BY <1>1, <1>2, <2>1 DEF SpotKey, s
<1>6. p \in Seq(DOMAIN Lower)
  <2>1. \A i \in 1..j : t[i] \in DOMAIN Lower
    <3> TAKE i \in 1..j
    <3>1. i \in 1..l /\ ~(s <= i)
      BY <1>4
    <3>2. t[i] \in Character /\ t[i] \notin Separator
      BY <1>1, <1>3, <3>1, ElementOfSeq
    <3> QED  BY <3>2, Cases
  <2> QED  BY <2>1, SubSeqProperties
<1>7. q \in Seq(Character)
  <2>1. \A i \in s + 1..l : t[i] \in Character
    <3>1. \A i \in s + 1..l : i \in 1..l
      BY <1>3
    <3> QED  BY <1>1, <3>1, ElementOfSeq
  <2>2. s + 1 \in Int /\ l \in Int
    BY <1>3
  <2> QED  BY <2>1, <2>2, SubSeqProperties
<1> HIDE DEF p, q
<1>8. Maps(Lower, DOMAIN Lower, Small) /\ Maps(Lower, Character, Small \cup Separator)
  BY Cases DEF Maps
<1>9. Cased(p, Lower) \in Seq(Small) /\ Cased(q, Lower) \in Seq(Small \cup Separator)
  BY <1>6, <1>7, <1>8, CasedIs
<1> QED  BY <1>5, <1>9

\* The parts of a key with a separator between them.
LEMMA Joined ==
  ASSUME NEW b \in Seq(Character), NEW m \in Seq(Character), NEW c \in Character
  PROVE  LET t == b \o <<c>> \o m
         IN  /\ t \in Seq(Character) /\ Len(t) = Len(b) + 1 + Len(m)
             /\ \A i \in 1..Len(b) : t[i] = b[i]
             /\ t[Len(b) + 1] = c
             /\ \A i \in 1..Len(m) : t[Len(b) + 1 + i] = m[i]
<1>1. PICK k \in Nat, n \in Nat : k = Len(b) /\ n = Len(m)
  BY LenProperties
<1> DEFINE h == Append(b, c)
           t == h \o m
<1>2. h \in Seq(Character) /\ Len(h) = k + 1 /\ h[k + 1] = c /\ \A i \in 1..k : h[i] = b[i]
  BY <1>1, AppendProperties
<1>3. b \o <<c>> = h
  BY AppendIsConcat
<1> HIDE DEF h
<1>4. /\ t \in Seq(Character) /\ Len(t) = (k + 1) + n
      /\ \A i \in 1..(k + 1) + n : t[i] = IF i <= k + 1 THEN h[i] ELSE m[i - (k + 1)]
  <2>1. /\ t \in Seq(Character) /\ Len(t) = Len(h) + Len(m)
        /\ \A i \in 1..Len(h) + Len(m) : t[i] = IF i <= Len(h) THEN h[i] ELSE m[i - Len(h)]
    BY <1>2, ConcatProperties
  <2> HIDE DEF t
  <2> QED  BY <1>1, <1>2, <2>1
<1> HIDE DEF t
<1>5. /\ \A i \in 1..k : i \in 1..(k + 1) + n /\ i <= k + 1
      /\ k + 1 \in 1..(k + 1) + n
      /\ \A i \in 1..n : (k + 1) + i \in 1..(k + 1) + n /\ ~((k + 1) + i <= k + 1)
                         /\ ((k + 1) + i) - (k + 1) = i
  OBVIOUS
<1>6. \A i \in 1..k : t[i] = b[i]
  BY <1>2, <1>4, <1>5
<1>7. t[k + 1] = c
  BY <1>2, <1>4, <1>5
<1>8. \A i \in 1..n : t[(k + 1) + i] = m[i]
  <2> TAKE i \in 1..n
  <2>1. t[(k + 1) + i] = IF (k + 1) + i <= k + 1 THEN h[(k + 1) + i] ELSE m[((k + 1) + i) - (k + 1)]
    BY <1>4, <1>5
  <2> QED  BY <1>5, <2>1
<1> QED  BY <1>1, <1>3, <1>4, <1>6, <1>7, <1>8 DEF t

\* For every text: its market is known from what it prints and from its symbol.
LEMMA KeysReadBack == \A t \in Seq(Character) : NamesOneMarket(t)
<1> SUFFICES ASSUME NEW t \in Seq(Character), NEW k \in SpotKey(t)
             PROVE  SpotKey(KeyText(k)) = {k} /\ SpotKey(NativeSymbol(k)) = {k}
  BY DEF NamesOneMarket
<1> DEFINE b == k.base
           m == k.term
<1>1. /\ b \in Seq(Small) /\ m \in Seq(Small \cup Separator)
      /\ k = [base |-> b, term |-> m]
  BY KeyParts
<1> HIDE DEF b, m
<1>2. PICK l \in Nat, n \in Nat : l = Len(b) /\ n = Len(m)
  BY <1>1, LenProperties
<1>3. /\ \A i \in 1..l : b[i] \in Small
      /\ \A i \in 1..n : m[i] \in Small \cup Separator
  BY <1>1, <1>2, ElementOfSeq
<1>4. b \in Seq(Character) /\ m \in Seq(Character)
  <2>1. Small \subseteq Character /\ Small \cup Separator \subseteq Character
    BY Cases
  <2> QED  BY <1>1, <2>1
<1>5. "/" \in Separator /\ "-" \in Separator /\ Separator \subseteq Character
  BY DEF Separator, Character
<1>6. \A c \in Small \cup Separator : Lowered(c) = c
  BY Cases DEF Lowered
<1>7. \A c \in Small \cup Separator :
         Lowered(IF c \in DOMAIN Upper THEN Upper[c] ELSE c) = c
  BY Cases DEF Lowered
<1>8. SpotKey(KeyText(k)) = {k}
  <2> DEFINE u == b \o <<"/">> \o m
  <2>1. /\ u \in Seq(Character) /\ Len(u) = l + 1 + n
        /\ \A i \in 1..l : u[i] = b[i]
        /\ u[l + 1] = "/"
        /\ \A i \in 1..n : u[l + 1 + i] = m[i]
    BY <1>2, <1>4, <1>5, Joined
  <2>2. KeyText(k) = u
    BY DEF KeyText, b, m
  <2> HIDE DEF u
  <2>3. Reads(u, b, m)
    <3>1. \A i \in 1..l : u[i] \notin Separator /\ Lowered(u[i]) = b[i]
      BY <1>3, <1>6, <2>1, Cases
    <3>2. \A i \in 1..n : Lowered(u[l + 1 + i]) = m[i]
      BY <1>3, <1>6, <2>1
    <3> QED  BY <1>2, <1>5, <2>1, <3>1, <3>2 DEF Reads
  <2> QED  BY <1>1, <1>4, <2>1, <2>2, <2>3, ReadBack
<1>9. SpotKey(NativeSymbol(k)) = {k}
  <2> DEFINE u == b \o <<"-">> \o m
             v == Cased(u, Upper)
  <2>1. /\ u \in Seq(Character) /\ Len(u) = l + 1 + n
        /\ \A i \in 1..l : u[i] = b[i]
        /\ u[l + 1] = "-"
        /\ \A i \in 1..n : u[l + 1 + i] = m[i]
    BY <1>2, <1>4, <1>5, Joined
  <2>2. NativeSymbol(k) = v
    BY DEF NativeSymbol, b, m
  <2> HIDE DEF u
  <2>3. Maps(Upper, Character, Character)
    BY Cases DEF Maps
  <2>4. /\ v \in Seq(Character) /\ Len(v) = l + 1 + n
        /\ \A i \in 1..l + 1 + n : v[i] = IF u[i] \in DOMAIN Upper THEN Upper[u[i]] ELSE u[i]
    BY <2>1, <2>3, CasedIs
  <2> HIDE DEF v
  <2>5. /\ \A i \in 1..l : i \in 1..l + 1 + n
        /\ l + 1 \in 1..l + 1 + n
        /\ \A i \in 1..n : l + 1 + i \in 1..l + 1 + n
    OBVIOUS
  <2>6. Reads(v, b, m)
    <3>1. \A i \in 1..l : v[i] \notin Separator /\ Lowered(v[i]) = b[i]
      <4> TAKE i \in 1..l
      <4>1. v[i] = IF b[i] \in DOMAIN Upper THEN Upper[b[i]] ELSE b[i]
        BY <2>1, <2>4, <2>5
      <4>2. b[i] \in Small
        BY <1>3
      <4> QED  BY <1>7, <4>1, <4>2, Cases
    <3>2. \A i \in 1..n : Lowered(v[l + 1 + i]) = m[i]
      <4> TAKE i \in 1..n
      <4>1. v[l + 1 + i] = IF m[i] \in DOMAIN Upper THEN Upper[m[i]] ELSE m[i]
        BY <2>1, <2>4, <2>5
      <4> QED  BY <1>3, <1>7, <4>1
    <3>3. v[l + 1] \in Separator
      BY <1>5, <2>1, <2>4, <2>5, Cases
    <3> QED  BY <1>2, <2>4, <3>1, <3>2, <3>3 DEF Reads
  <2> QED  BY <1>1, <1>4, <2>2, <2>4, <2>6, ReadBack
<1> QED  BY <1>8, <1>9

\* A market is known from what it prints and from the symbol it subscribes to,
\* whatever was typed for it.
THEOREM MarketsAreNamed == NameSpec => []MarketNamed
<1>1. NameInit => name \in Seq(Character)
  BY DEF NameInit
<1>2. name \in Seq(Character) /\ [NameNext]_name => (name \in Seq(Character))'
  BY AppendProperties DEF NameNext
<1>3. name \in Seq(Character) => MarketNamed
  BY KeysReadBack DEF MarketNamed
<1> QED  BY <1>1, <1>2, <1>3, PTL DEF NameSpec
=============================================================================
