---------------------------- MODULE EntityProofs ----------------------------
(***************************************************************************)
(* An entity is started, then stopped, once each, before it is deleted,    *)
(* and the page lists the web server's own entities: for any number of     *)
(* entities, executors and requests.                                       *)
(*                                                                         *)
(* What has happened to an entity and what is still to happen to it are    *)
(* found in its handle's stage and in its jobs: a start, a stop or a give  *)
(* is somewhere in the executors' queues exactly when the handle's stage   *)
(* and the handlers that have run say so, and a start is ahead of a stop   *)
(* and of a give to the entity's own executor.                             *)
(*                                                                         *)
(* At the end, the keys under which require finds entities.                *)
(***************************************************************************)
EXTENDS Entities, EntityKey, TLAPS, SequenceTheorems, FiniteSetTheorems

Blank == <<>>
Begun == <<"start">>
Full  == <<"start", "stop">>

Jobs == {"start", "stop", "give", "summary", "final"} \X Entity \X Nat

\* Job i of executor x in the queues w is of the given kind and about e.
Has(w, x, i, what, e) ==
    i \in 1..Len(w[x]) /\ w[x][i][1] = what /\ w[x][i][2] = e

\* The queues w hold the jobs that an entity has whose home, stage, owner and
\* handlers are h, s, o and d.
Starts(w, e, h, s, d) ==
    \A x \in Executor, i \in Nat : Has(w, x, i, "start", e) =>
        /\ x = h /\ d = Blank /\ s \in {"held", "moving", "dropped"}
        /\ \A y \in Executor, j \in Nat :
             /\ Has(w, y, j, "start", e) => y = x /\ j = i
             /\ Has(w, y, j, "stop", e) => i < j
             /\ Has(w, y, j, "give", e) /\ y = h => i < j

Stops(w, e, h, s, d) ==
    \A x \in Executor, i \in Nat : Has(w, x, i, "stop", e) =>
        /\ x = h /\ s = "dropped" /\ d /= Full
        /\ \A y \in Executor, j \in Nat : Has(w, y, j, "stop", e) => y = x /\ j = i

Gives(w, e, s) ==
    \A x \in Executor, i \in Nat : Has(w, x, i, "give", e) =>
        /\ s = "moving"
        /\ \A y \in Executor, j \in Nat : Has(w, y, j, "give", e) => y = x /\ j = i

Awaits(w, e, s, d) ==
    /\ s \in {"held", "moving", "dropped"} /\ d = Blank =>
         \E x \in Executor, i \in Nat : Has(w, x, i, "start", e)
    /\ s = "dropped" /\ d /= Full =>
         \E x \in Executor, i \in Nat : Has(w, x, i, "stop", e)
    /\ s = "moving" =>
         \E x \in Executor, i \in Nat : Has(w, x, i, "give", e)

Queued(w, e, h, s, d) ==
    Starts(w, e, h, s, d) /\ Stops(w, e, h, s, d) /\ Gives(w, e, s) /\ Awaits(w, e, s, d)

\* What the stage of an entity says of its handlers.
Staged(h, s, o, d, r) ==
    /\ d \in {Blank, Begun, Full}
    /\ s \in {"none", "registered"} => d = Blank
    /\ s = "held" /\ o = h => d /= Blank
    /\ d = Full => s = "dropped"
    /\ s /= "none" /\ ~r => d = Full

Types ==
    /\ home \in [Entity -> Executor] /\ owner \in [Entity -> Executor]
    /\ stage \in [Entity -> {"none", "registered", "held", "moving", "dropped"}]
    /\ handled \in [Entity -> {Blank, Begun, Full}]
    /\ work \in [Executor -> Seq(Jobs)]
    /\ registry \subseteq Entity /\ walk \subseteq Entity /\ pages \in Nat
    /\ pinned = {} \/ \E e \in Entity : pinned = {e}

Life ==
    \A e \in Entity :
        /\ Queued(work, e, home[e], stage[e], handled[e])
        /\ Staged(home[e], stage[e], owner[e], handled[e], e \in registry)

\* The page has, or will still come to, the entities it has to list.
Listed ==
    /\ \A e \in summaries : home[e] = Web
    /\ present \subseteq {e \in Entity : stage[e] \in {"held", "moving"}}
    /\ page = "walking" =>
         {e \in present : home[e] = Web} \subseteq summaries \cup walk \cup pinned
    /\ page = "writing" => {e \in present : home[e] = Web} \subseteq summaries

EInv == Types /\ Life /\ Listed

-----------------------------------------------------------------------------
(* Handlers and queues *)

\* What handlers have run: none, the start, both, in that order.
LEMMA Handlers ==
    /\ Append(Blank, "start") = Begun /\ Append(Begun, "stop") = Full
    /\ Blank /= Begun /\ Blank /= Full /\ Begun /= Full
<1> DEFINE S == {"start", "stop"}
           s == Append(<<"start">>, "stop")
           t == <<"start", "stop">>
<1>1. /\ <<"start">> \in Seq(S) /\ "stop" \in S /\ Len(<<"start">>) = 1
      /\ <<"start">>[1] = "start"
      /\ t \in Seq(S) /\ Len(t) = 2 /\ t[1] = "start" /\ t[2] = "stop"
  OBVIOUS
<1>2. s \in Seq(S) /\ Len(s) = 2 /\ s[1] = "start" /\ s[2] = "stop"
  BY <1>1, AppendProperties
<1>3. \A i \in 1..Len(s) : s[i] = t[i]
  BY <1>1, <1>2
<1>4. Append(<<>>, "start") = <<"start">> /\ <<>> /= <<"start">> /\ <<>> /= t
      /\ <<"start">> /= t
  OBVIOUS
<1> HIDE DEF S, s, t
<1>5. s = t
  BY <1>1, <1>2, <1>3, SeqEqual
<1> QED  BY <1>4, <1>5 DEF s, t, Blank, Begun, Full

\* The queues are v when job is posted to z, and when z has run its first job.
Posted(w, z, job, v) ==
    /\ w \in [Executor -> Seq(Jobs)] /\ z \in Executor /\ job \in Jobs
    /\ v = [w EXCEPT ![z] = Append(@, job)]

Ran(w, z, v) ==
    /\ w \in [Executor -> Seq(Jobs)] /\ z \in Executor /\ w[z] /= <<>>
    /\ v = [w EXCEPT ![z] = Tail(@)]

\* A post puts one job behind the others of its executor.
Longer(w, z, job, v) ==
    /\ v \in [Executor -> Seq(Jobs)]
    /\ \A x \in Executor, i \in Nat : \A what, e :
         Has(v, x, i, what, e) <=>
             \/ Has(w, x, i, what, e)
             \/ x = z /\ i = Len(w[z]) + 1 /\ job[1] = what /\ job[2] = e
    /\ \A i \in Nat : \A what, e : Has(w, z, i, what, e) => i < Len(w[z]) + 1
    /\ Len(w[z]) + 1 \in Nat

\* What is posted to an executor is its last job.
LEMMA PostAdds == \A w, z, job, v : Posted(w, z, job, v) => Longer(w, z, job, v)
<1> SUFFICES ASSUME NEW w, NEW z, NEW job, NEW v, Posted(w, z, job, v)
             PROVE  Longer(w, z, job, v)
  OBVIOUS
<1>0. /\ w \in [Executor -> Seq(Jobs)] /\ z \in Executor /\ job \in Jobs
      /\ v = [w EXCEPT ![z] = Append(@, job)]
  BY DEF Posted
<1>1. w[z] \in Seq(Jobs) /\ Len(w[z]) \in Nat
  BY <1>0, LenProperties
<1>2. /\ Append(w[z], job) \in Seq(Jobs) /\ Len(Append(w[z], job)) = Len(w[z]) + 1
      /\ \A i \in 1..Len(w[z]) : Append(w[z], job)[i] = w[z][i]
      /\ Append(w[z], job)[Len(w[z]) + 1] = job
  BY <1>0, <1>1, AppendProperties
<1> DEFINE q == Append(w[z], job)
<1>3. v \in [Executor -> Seq(Jobs)] /\ v[z] = q /\ \A x \in Executor : x /= z => v[x] = w[x]
  BY <1>0, <1>2
<1> HIDE DEF q
<1>4. ASSUME NEW x \in Executor, NEW i \in Nat, NEW what, NEW e
      PROVE  Has(v, x, i, what, e) <=>
                    \/ Has(w, x, i, what, e)
                    \/ x = z /\ i = Len(w[z]) + 1 /\ job[1] = what /\ job[2] = e
  <2>1. CASE x /= z
    BY <1>3, <2>1 DEF Has
  <2>2. CASE x = z
    <3>1. CASE i = Len(w[z]) + 1
      BY <1>1, <1>2, <1>3, <2>2, <3>1 DEF Has, q
    <3>2. CASE i /= Len(w[z]) + 1
      <4>1. i \in 1..Len(q) <=> i \in 1..Len(w[z])
        BY <1>1, <1>2, <3>2 DEF q
      <4>2. i \in 1..Len(w[z]) => q[i] = w[z][i]
        BY <1>2 DEF q
      <4> QED  BY <1>3, <2>2, <3>2, <4>1, <4>2 DEF Has
    <3> QED  BY <3>1, <3>2
  <2> QED  BY <2>1, <2>2
<1>5. ASSUME NEW i \in Nat, NEW what, NEW e, Has(w, z, i, what, e)
      PROVE  i < Len(w[z]) + 1
  BY <1>1, <1>5 DEF Has
<1> QED  BY <1>1, <1>3, <1>4, <1>5 DEF Longer

\* To run the first job of an executor is to move its others up.
Shorter(w, z, v) ==
    /\ v \in [Executor -> Seq(Jobs)] /\ Head(w[z]) \in Jobs
    /\ \A x \in Executor, i \in Nat : \A what, e :
         Has(v, x, i, what, e) <=>
             \/ x /= z /\ Has(w, x, i, what, e)
             \/ x = z /\ i /= 0 /\ Has(w, x, i + 1, what, e)
    /\ \A i \in Nat : \A what, e : Has(w, z, i, what, e) =>
             \/ i = 1 /\ Head(w[z])[1] = what /\ Head(w[z])[2] = e
             \/ i - 1 \in Nat /\ i - 1 /= 0 /\ Has(v, z, i - 1, what, e)
    /\ Has(w, z, 1, Head(w[z])[1], Head(w[z])[2])

\* What an executor runs is its first job.
LEMMA RunTakes == \A w, z, v : Ran(w, z, v) => Shorter(w, z, v)
<1> SUFFICES ASSUME NEW w, NEW z, NEW v, Ran(w, z, v) PROVE Shorter(w, z, v)
  OBVIOUS
<1>0. /\ w \in [Executor -> Seq(Jobs)] /\ z \in Executor /\ w[z] /= <<>>
      /\ v = [w EXCEPT ![z] = Tail(@)]
  BY DEF Ran
<1>1. /\ w[z] \in Seq(Jobs) /\ Len(w[z]) \in Nat /\ Len(w[z]) /= 0
      /\ Head(w[z]) \in Jobs /\ Head(w[z]) = w[z][1]
      /\ Tail(w[z]) \in Seq(Jobs) /\ Len(Tail(w[z])) = Len(w[z]) - 1
      /\ \A i \in 1..Len(Tail(w[z])) : Tail(w[z])[i] = w[z][i + 1]
  <2>1. w[z] \in Seq(Jobs)
    BY <1>0
  <2>2. Len(w[z]) \in Nat /\ Len(w[z]) /= 0
    BY <1>0, <2>1, EmptySeq, LenProperties
  <2> QED  BY <1>0, <2>1, <2>2, HeadTailProperties
<1> DEFINE q == Tail(w[z])
<1>2. v \in [Executor -> Seq(Jobs)] /\ v[z] = q /\ \A x \in Executor : x /= z => v[x] = w[x]
  BY <1>0, <1>1
<1>3. /\ q \in Seq(Jobs) /\ Len(q) = Len(w[z]) - 1
      /\ \A i \in 1..Len(w[z]) - 1 : q[i] = w[z][i + 1]
  BY <1>1
<1> HIDE DEF q
<1>4. ASSUME NEW x \in Executor, NEW i \in Nat, NEW what, NEW e
      PROVE  Has(v, x, i, what, e) <=>
                    \/ x /= z /\ Has(w, x, i, what, e)
                    \/ x = z /\ i /= 0 /\ Has(w, x, i + 1, what, e)
  <2>1. CASE x /= z
    BY <1>2, <2>1 DEF Has
  <2>2. CASE x = z
    <3>1. i \in 1..Len(q) <=> i /= 0 /\ i + 1 \in 1..Len(w[z])
      BY <1>1, <1>3
    <3>2. i \in 1..Len(q) => q[i] = w[z][i + 1]
      BY <1>1, <1>3
    <3> QED  BY <1>2, <2>2, <3>1, <3>2 DEF Has
  <2> QED  BY <2>1, <2>2
<1>5. ASSUME NEW i \in Nat, NEW what, NEW e, Has(w, z, i, what, e)
      PROVE  \/ i = 1 /\ Head(w[z])[1] = what /\ Head(w[z])[2] = e
             \/ i - 1 \in Nat /\ i - 1 /= 0 /\ Has(v, z, i - 1, what, e)
  <2>1. CASE i = 1
    BY <1>1, <1>5, <2>1 DEF Has
  <2>2. CASE i /= 1
    <3>1. i - 1 \in Nat /\ i - 1 /= 0 /\ (i - 1) + 1 = i
      BY <1>5, <2>2 DEF Has
    <3> QED  BY <1>0, <1>4, <1>5, <3>1
  <2> QED  BY <2>1, <2>2
<1>6. Has(w, z, 1, Head(w[z])[1], Head(w[z])[2])
  BY <1>1 DEF Has
<1> QED  BY <1>1, <1>2, <1>4, <1>5, <1>6 DEF Shorter

\* How far the job of x is moved up when z runs its first one.
Up(x, z) == IF x = z THEN 1 ELSE 0

\* Jobs that are not the one that is run are moved up.
Moved(w, z, v, what, e) ==
    \A x \in Executor, i \in Nat :
        /\ Has(v, x, i, what, e) <=> Has(w, x, i + Up(x, z), what, e)
        /\ Has(w, x, i, what, e) =>
             i - Up(x, z) \in Nat /\ Has(v, x, i - Up(x, z), what, e)

\* Running another job leaves an entity's jobs in their order.
LEMMA Shift ==
    ASSUME NEW w, NEW z, NEW v, Ran(w, z, v), NEW what, NEW e,
           ~(Head(w[z])[1] = what /\ Head(w[z])[2] = e)
    PROVE  Moved(w, z, v, what, e)
<1> SUFFICES \A x \in Executor, i \in Nat :
                /\ Has(v, x, i, what, e) <=> Has(w, x, i + Up(x, z), what, e)
                /\ Has(w, x, i, what, e) =>
                     i - Up(x, z) \in Nat /\ Has(v, x, i - Up(x, z), what, e)
  BY DEF Moved
<1> TAKE x \in Executor, i \in Nat
<1>1. /\ Has(v, x, i, what, e) <=>
                    \/ x /= z /\ Has(w, x, i, what, e)
                    \/ x = z /\ i /= 0 /\ Has(w, x, i + 1, what, e)
      /\ Has(w, z, i, what, e) =>
                    i - 1 \in Nat /\ i - 1 /= 0 /\ Has(v, z, i - 1, what, e)
      /\ ~Has(w, z, 1, what, e)
  <2>1. /\ Has(v, x, i, what, e) <=>
                    \/ x /= z /\ Has(w, x, i, what, e)
                    \/ x = z /\ i /= 0 /\ Has(w, x, i + 1, what, e)
        /\ \A k \in Nat : Has(w, z, k, what, e) =>
                    k - 1 \in Nat /\ k - 1 /= 0 /\ Has(v, z, k - 1, what, e)
    <3>1. Shorter(w, z, v)
      BY RunTakes
    <3> QED  BY <3>1 DEF Shorter
  <2>2. ~Has(w, z, 1, what, e)
    BY <2>1
  <2> QED  BY <2>1, <2>2
<1>2. CASE x = z
  <2>1. Up(x, z) = 1
    BY <1>2 DEF Up
  <2>2. Has(v, x, i, what, e) <=> Has(w, x, i + 1, what, e)
    <3>1. i = 0 => i + 1 = 1
      OBVIOUS
    <3> QED  BY <1>1, <1>2, <3>1
  <2> QED  BY <1>1, <1>2, <2>1, <2>2
<1>3. CASE x /= z
  <2>1. Up(x, z) = 0 /\ i + 0 = i /\ i - 0 = i
    BY <1>3 DEF Up
  <2> QED  BY <1>1, <1>3, <2>1
<1> QED  BY <1>2, <1>3

\* The only job of its kind is gone when it has run.
LEMMA Gone ==
    ASSUME NEW w, NEW z, NEW v, Ran(w, z, v), NEW what, NEW e,
           \A y \in Executor, j \in Nat : Has(w, y, j, what, e) => y = z /\ j = 1
    PROVE  \A x \in Executor, i \in Nat : ~Has(v, x, i, what, e)
<1> SUFFICES ASSUME NEW x \in Executor, NEW i \in Nat, Has(v, x, i, what, e) PROVE FALSE
  OBVIOUS
<1>1. \/ x /= z /\ Has(w, x, i, what, e)
      \/ x = z /\ i /= 0 /\ Has(w, x, i + 1, what, e)
  <2>1. Shorter(w, z, v)
    BY RunTakes
  <2> QED  BY <2>1 DEF Shorter
<1>2. i + 1 \in Nat /\ (i /= 0 => i + 1 /= 1)
  OBVIOUS
<1> QED  BY <1>1, <1>2

\* What other entities' jobs, and summaries, do not disturb.
LEMMA PostOther ==
    ASSUME NEW w, NEW z, NEW job, NEW v, Posted(w, z, job, v),
           NEW e, NEW h, NEW s, NEW d, Queued(w, e, h, s, d),
           job[2] /= e \/ job[1] \in {"summary", "final"}
    PROVE  Queued(v, e, h, s, d)
<1>1. ASSUME NEW x \in Executor, NEW i \in Nat, NEW what \in {"start", "stop", "give"}
      PROVE  Has(v, x, i, what, e) <=> Has(w, x, i, what, e)
  <2>1. Longer(w, z, job, v)
    BY PostAdds
  <2>2. what \notin {"summary", "final"}
    OBVIOUS
  <2> QED  BY <2>1, <2>2 DEF Longer
<1>2. Starts(v, e, h, s, d)
  BY <1>1 DEF Queued, Starts
<1>3. Stops(v, e, h, s, d)
  BY <1>1 DEF Queued, Stops
<1>4. Gives(v, e, s)
  BY <1>1 DEF Queued, Gives
<1>5. Awaits(v, e, s, d)
  BY <1>1 DEF Queued, Awaits
<1> QED  BY <1>2, <1>3, <1>4, <1>5 DEF Queued

\* Running another entity's job, or a summary, changes nothing for this one.
LEMMA RunOther ==
    ASSUME NEW w, NEW z, NEW v, Ran(w, z, v),
           NEW e, NEW h, NEW s, NEW d, Queued(w, e, h, s, d),
           Head(w[z])[2] /= e \/ Head(w[z])[1] \in {"summary", "final"}
    PROVE  Queued(v, e, h, s, d)
<1>1. ASSUME NEW what \in {"start", "stop", "give"}
      PROVE  \A x \in Executor, i \in Nat :
               /\ Has(v, x, i, what, e) <=> Has(w, x, i + Up(x, z), what, e)
               /\ Has(w, x, i, what, e) =>
                    i - Up(x, z) \in Nat /\ Has(v, x, i - Up(x, z), what, e)
  <2>1. ~(Head(w[z])[1] = what /\ Head(w[z])[2] = e)
    OBVIOUS
  <2>2. Moved(w, z, v, what, e)
    BY <2>1, Shift
  <2> QED  BY <2>2 DEF Moved
<1>2. \A x \in Executor, i \in Nat : i + Up(x, z) \in Nat
  BY DEF Up
<1>3. Starts(v, e, h, s, d)
  <2> SUFFICES ASSUME NEW x \in Executor, NEW i \in Nat, Has(v, x, i, "start", e)
               PROVE  /\ x = h /\ d = Blank /\ s \in {"held", "moving", "dropped"}
                      /\ \A y \in Executor, j \in Nat :
                           /\ Has(v, y, j, "start", e) => y = x /\ j = i
                           /\ Has(v, y, j, "stop", e) => i < j
                           /\ Has(v, y, j, "give", e) /\ y = h => i < j
    BY DEF Starts
  <2>1. i + Up(x, z) \in Nat /\ Has(w, x, i + Up(x, z), "start", e)
    BY <1>1, <1>2
  <2>2. /\ x = h /\ d = Blank /\ s \in {"held", "moving", "dropped"}
        /\ \A y \in Executor, j \in Nat :
             /\ Has(w, y, j, "start", e) => y = x /\ j = i + Up(x, z)
             /\ Has(w, y, j, "stop", e) => i + Up(x, z) < j
             /\ Has(w, y, j, "give", e) /\ y = h => i + Up(x, z) < j
    BY <2>1 DEF Queued, Starts
  <2>3. ASSUME NEW y \in Executor, NEW j \in Nat, Has(v, y, j, "start", e)
        PROVE  y = x /\ j = i
    <3>1. y = x /\ j + Up(y, z) = i + Up(x, z)
      BY <1>1, <1>2, <2>2, <2>3
    <3> QED  BY <3>1 DEF Up
  <2>4. ASSUME NEW y \in Executor, NEW j \in Nat, Has(v, y, j, "stop", e)
        PROVE  i < j
    <3>1. Has(w, y, j + Up(y, z), "stop", e) /\ j + Up(y, z) \in Nat
      BY <1>1, <1>2, <2>4
    <3>2. y = h /\ i + Up(x, z) < j + Up(y, z)
      BY <2>2, <3>1 DEF Queued, Stops
    <3> QED  BY <2>2, <3>2 DEF Up
  <2>5. ASSUME NEW y \in Executor, NEW j \in Nat, Has(v, y, j, "give", e), y = h
        PROVE  i < j
    <3>1. Has(w, y, j + Up(y, z), "give", e) /\ j + Up(y, z) \in Nat
      BY <1>1, <1>2, <2>5
    <3>2. i + Up(x, z) < j + Up(y, z)
      BY <2>2, <2>5, <3>1
    <3> QED  BY <2>2, <2>5, <3>2 DEF Up
  <2> QED  BY <2>2, <2>3, <2>4, <2>5
<1>4. Stops(v, e, h, s, d)
  <2> SUFFICES ASSUME NEW x \in Executor, NEW i \in Nat, Has(v, x, i, "stop", e)
               PROVE  /\ x = h /\ s = "dropped" /\ d /= Full
                      /\ \A y \in Executor, j \in Nat :
                            Has(v, y, j, "stop", e) => y = x /\ j = i
    BY DEF Stops
  <2>1. /\ x = h /\ s = "dropped" /\ d /= Full
        /\ \A y \in Executor, j \in Nat :
              Has(w, y, j, "stop", e) => y = x /\ j = i + Up(x, z)
    BY <1>1, <1>2 DEF Queued, Stops
  <2>2. ASSUME NEW y \in Executor, NEW j \in Nat, Has(v, y, j, "stop", e)
        PROVE  y = x /\ j = i
    <3>1. y = x /\ j + Up(y, z) = i + Up(x, z)
      BY <1>1, <1>2, <2>1, <2>2
    <3> QED  BY <3>1 DEF Up
  <2> QED  BY <2>1, <2>2
<1>5. Gives(v, e, s)
  <2> SUFFICES ASSUME NEW x \in Executor, NEW i \in Nat, Has(v, x, i, "give", e)
               PROVE  /\ s = "moving"
                      /\ \A y \in Executor, j \in Nat :
                            Has(v, y, j, "give", e) => y = x /\ j = i
    BY DEF Gives
  <2>1. /\ s = "moving"
        /\ \A y \in Executor, j \in Nat :
              Has(w, y, j, "give", e) => y = x /\ j = i + Up(x, z)
    BY <1>1, <1>2 DEF Queued, Gives
  <2>2. ASSUME NEW y \in Executor, NEW j \in Nat, Has(v, y, j, "give", e)
        PROVE  y = x /\ j = i
    <3>1. y = x /\ j + Up(y, z) = i + Up(x, z)
      BY <1>1, <1>2, <2>1, <2>2
    <3> QED  BY <3>1 DEF Up
  <2> QED  BY <2>1, <2>2
<1>6. Awaits(v, e, s, d)
  <2>1. ASSUME NEW what \in {"start", "stop", "give"},
               \E x \in Executor, i \in Nat : Has(w, x, i, what, e)
        PROVE  \E x \in Executor, i \in Nat : Has(v, x, i, what, e)
    BY <1>1, <2>1
  <2> QED  BY <2>1 DEF Queued, Awaits
<1> QED  BY <1>3, <1>4, <1>5, <1>6 DEF Queued

-----------------------------------------------------------------------------
(* What an entity's own steps do to its jobs *)

\* Which jobs an entity has not got, by its stage and by what has run.
LEMMA NoJobs ==
    ASSUME NEW w, NEW e, NEW h, NEW s, NEW d, Queued(w, e, h, s, d),
           NEW x \in Executor, NEW i \in Nat
    PROVE  /\ s \in {"none", "registered"} \/ d /= Blank => ~Has(w, x, i, "start", e)
           /\ s /= "dropped" \/ d = Full => ~Has(w, x, i, "stop", e)
           /\ s /= "moving" => ~Has(w, x, i, "give", e)
BY DEF Queued, Starts, Stops, Gives

\* A start that runs at once leaves no job.
LEMMA StartHere ==
    ASSUME NEW w, NEW e, NEW h, Queued(w, e, h, "registered", Blank)
    PROVE  Queued(w, e, h, "held", Begun)
BY NoJobs, Handlers DEF Queued, Starts, Stops, Gives, Awaits

\* Nor does a stop that runs at once.
LEMMA DropHere ==
    ASSUME NEW w, NEW e, NEW h, Queued(w, e, h, "held", Begun)
    PROVE  Queued(w, e, h, "dropped", Full)
BY NoJobs, Handlers DEF Queued, Starts, Stops, Gives, Awaits

\* The queues are v, which has a job at place n of z that was not in w.
Added(w, v, z, n, what, e) ==
    /\ z \in Executor /\ n \in Nat /\ Has(v, z, n, what, e)
    /\ \A x \in Executor, i \in Nat :
         /\ Has(v, x, i, what, e) => Has(w, x, i, what, e) \/ (x = z /\ i = n)
         /\ \A a : a /= what => (Has(v, x, i, a, e) <=> Has(w, x, i, a, e))
         /\ \A a : Has(w, z, i, a, e) => i < n

\* A job posted for an entity is the only one that was not there.
LEMMA PostOwn ==
    ASSUME NEW w, NEW z, NEW job, NEW v, Posted(w, z, job, v),
           NEW what, NEW e, job[1] = what, job[2] = e
    PROVE  Added(w, v, z, Len(w[z]) + 1, what, e)
<1> DEFINE n == Len(w[z]) + 1
<1>1. Longer(w, z, job, v) /\ z \in Executor
  BY PostAdds DEF Posted
<1>2. /\ \A x \in Executor, i \in Nat : \A a :
           Has(v, x, i, a, e) <=> Has(w, x, i, a, e) \/ (x = z /\ i = n /\ what = a)
      /\ \A i \in Nat : \A a : Has(w, z, i, a, e) => i < n
      /\ n \in Nat
  BY <1>1 DEF Longer
<1> HIDE DEF n
<1>3. Has(v, z, n, what, e)
  BY <1>1, <1>2
<1>4. Added(w, v, z, n, what, e)
  BY <1>1, <1>2, <1>3 DEF Added
<1> QED  BY <1>4 DEF n

\* A start is posted, to the executor that the entity is made for.
LEMMA StartPosted ==
    ASSUME NEW w, NEW e, NEW h, Queued(w, e, h, "registered", Blank),
           NEW job, NEW v, Posted(w, h, job, v), job[1] = "start", job[2] = e
    PROVE  Queued(v, e, h, "held", Blank)
<1> DEFINE n == Len(w[h]) + 1
<1>1. /\ h \in Executor /\ n \in Nat /\ Has(v, h, n, "start", e)
      /\ \A x \in Executor, i \in Nat :
            Has(v, x, i, "start", e) => Has(w, x, i, "start", e) \/ (x = h /\ i = n)
      /\ \A x \in Executor, i \in Nat : \A a :
            a /= "start" => (Has(v, x, i, a, e) <=> Has(w, x, i, a, e))
  <2>1. Added(w, v, h, n, "start", e)
    BY PostOwn
  <2> HIDE DEF n
  <2> QED  BY <2>1 DEF Added
<1> HIDE DEF n
<1>2. ASSUME NEW x \in Executor, NEW i \in Nat
      PROVE  /\ Has(v, x, i, "start", e) => x = h /\ i = n
             /\ ~Has(v, x, i, "stop", e) /\ ~Has(v, x, i, "give", e)
  <2>1. ~Has(w, x, i, "start", e) /\ ~Has(w, x, i, "stop", e) /\ ~Has(w, x, i, "give", e)
    BY NoJobs
  <2> QED  BY <1>1, <2>1
<1> QED  BY <1>1, <1>2 DEF Queued, Starts, Stops, Gives, Awaits

\* A handle is posted to another executor.
LEMMA GivePosted ==
    ASSUME NEW w, NEW e, NEW h, NEW d, Queued(w, e, h, "held", d),
           NEW z, NEW job, NEW v, Posted(w, z, job, v), job[1] = "give", job[2] = e
    PROVE  Queued(v, e, h, "moving", d)
<1> DEFINE n == Len(w[z]) + 1
<1>1. /\ z \in Executor /\ n \in Nat /\ Has(v, z, n, "give", e)
      /\ \A x \in Executor, i \in Nat :
            Has(v, x, i, "give", e) => Has(w, x, i, "give", e) \/ (x = z /\ i = n)
      /\ \A x \in Executor, i \in Nat : \A a :
            /\ a /= "give" => (Has(v, x, i, a, e) <=> Has(w, x, i, a, e))
            /\ Has(w, z, i, a, e) => i < n
  <2>1. Added(w, v, z, n, "give", e)
    BY PostOwn
  <2> HIDE DEF n
  <2> QED  BY <2>1 DEF Added
<1> HIDE DEF n
<1>2. ASSUME NEW x \in Executor, NEW i \in Nat
      PROVE  /\ Has(v, x, i, "give", e) => x = z /\ i = n
             /\ ~Has(v, x, i, "stop", e)
             /\ Has(v, x, i, "start", e) <=> Has(w, x, i, "start", e)
             /\ Has(w, z, i, "start", e) => i < n
  <2>1. ~Has(w, x, i, "stop", e) /\ ~Has(w, x, i, "give", e)
    BY NoJobs
  <2> QED  BY <1>1, <2>1
<1>3. Starts(v, e, h, "moving", d)
  BY <1>1, <1>2 DEF Queued, Starts
<1> QED  BY <1>1, <1>2, <1>3 DEF Queued, Stops, Gives, Awaits

\* The stop is posted behind a start that may wait still.
LEMMA StopPosted ==
    ASSUME NEW w, NEW e, NEW h, NEW d, Queued(w, e, h, "held", d), d /= Full,
           NEW job, NEW v, Posted(w, h, job, v), job[1] = "stop", job[2] = e
    PROVE  Queued(v, e, h, "dropped", d)
<1> DEFINE n == Len(w[h]) + 1
<1>1. /\ h \in Executor /\ n \in Nat /\ Has(v, h, n, "stop", e)
      /\ \A x \in Executor, i \in Nat :
            Has(v, x, i, "stop", e) => Has(w, x, i, "stop", e) \/ (x = h /\ i = n)
      /\ \A x \in Executor, i \in Nat : \A a :
            /\ a /= "stop" => (Has(v, x, i, a, e) <=> Has(w, x, i, a, e))
            /\ Has(w, h, i, a, e) => i < n
  <2>1. Added(w, v, h, n, "stop", e)
    BY PostOwn
  <2> HIDE DEF n
  <2> QED  BY <2>1 DEF Added
<1> HIDE DEF n
<1>2. ASSUME NEW x \in Executor, NEW i \in Nat
      PROVE  /\ Has(v, x, i, "stop", e) => x = h /\ i = n
             /\ ~Has(v, x, i, "give", e)
             /\ Has(v, x, i, "start", e) <=> Has(w, x, i, "start", e)
             /\ Has(w, h, i, "start", e) => i < n
  <2>1. ~Has(w, x, i, "stop", e) /\ ~Has(w, x, i, "give", e)
    BY NoJobs
  <2> QED  BY <1>1, <2>1
<1>3. Starts(v, e, h, "dropped", d)
  BY <1>1, <1>2 DEF Queued, Starts
<1> QED  BY <1>1, <1>2, <1>3 DEF Queued, Stops, Gives, Awaits

\* The job that is run is the first of z; the places in the queues are from 1.
LEMMA FirstJob ==
    ASSUME NEW w, NEW z, NEW v, Ran(w, z, v), NEW what, NEW e,
           Head(w[z])[1] = what, Head(w[z])[2] = e
    PROVE  /\ z \in Executor /\ Has(w, z, 1, what, e)
           /\ \A x \in Executor, i \in Nat : \A a : Has(w, x, i, a, e) => i >= 1
<1>1. Shorter(w, z, v) /\ z \in Executor
  BY RunTakes DEF Ran
<1>2. Has(w, z, 1, what, e)
  BY <1>1 DEF Shorter
<1> QED  BY <1>1, <1>2 DEF Has

\* A start that was posted runs: it is the first handler.
LEMMA StartRun ==
    ASSUME NEW w, NEW e, NEW h, NEW s, NEW d, Queued(w, e, h, s, d),
           NEW z, NEW v, Ran(w, z, v), Head(w[z])[1] = "start", Head(w[z])[2] = e
    PROVE  /\ d = Blank /\ s \in {"held", "moving", "dropped"}
           /\ Queued(v, e, h, s, Begun)
<1>1. z \in Executor /\ Has(w, z, 1, "start", e)
  BY FirstJob
<1>2. /\ z = h /\ d = Blank /\ s \in {"held", "moving", "dropped"}
      /\ \A y \in Executor, j \in Nat : Has(w, y, j, "start", e) => y = z /\ j = 1
  BY <1>1 DEF Queued, Starts
<1>3. \A x \in Executor, i \in Nat : ~Has(v, x, i, "start", e)
  BY <1>2, Gone
<1>4. Moved(w, z, v, "stop", e) /\ Moved(w, z, v, "give", e)
  BY Shift
<1>5. \A x \in Executor, i \in Nat : i + Up(x, z) \in Nat
  BY DEF Up
<1>6. Starts(v, e, h, s, Begun)
  BY <1>3 DEF Starts
<1>7. Stops(v, e, h, s, Begun)
  <2> SUFFICES ASSUME NEW x \in Executor, NEW i \in Nat, Has(v, x, i, "stop", e)
               PROVE  /\ x = h /\ s = "dropped" /\ Begun /= Full
                      /\ \A y \in Executor, j \in Nat :
                            Has(v, y, j, "stop", e) => y = x /\ j = i
    BY DEF Stops
  <2>1. /\ x = h /\ s = "dropped"
        /\ \A y \in Executor, j \in Nat :
              Has(w, y, j, "stop", e) => y = x /\ j = i + Up(x, z)
    BY <1>4, <1>5 DEF Queued, Stops, Moved
  <2>2. ASSUME NEW y \in Executor, NEW j \in Nat, Has(v, y, j, "stop", e)
        PROVE  y = x /\ j = i
    <3>1. y = x /\ j + Up(y, z) = i + Up(x, z)
      BY <1>4, <1>5, <2>1, <2>2 DEF Moved
    <3> QED  BY <3>1 DEF Up
  <2> QED  BY <2>1, <2>2, Handlers
<1>8. Gives(v, e, s)
  <2> SUFFICES ASSUME NEW x \in Executor, NEW i \in Nat, Has(v, x, i, "give", e)
               PROVE  /\ s = "moving"
                      /\ \A y \in Executor, j \in Nat :
                            Has(v, y, j, "give", e) => y = x /\ j = i
    BY DEF Gives
  <2>1. /\ s = "moving"
        /\ \A y \in Executor, j \in Nat :
              Has(w, y, j, "give", e) => y = x /\ j = i + Up(x, z)
    BY <1>4, <1>5 DEF Queued, Gives, Moved
  <2>2. ASSUME NEW y \in Executor, NEW j \in Nat, Has(v, y, j, "give", e)
        PROVE  y = x /\ j = i
    <3>1. y = x /\ j + Up(y, z) = i + Up(x, z)
      BY <1>4, <1>5, <2>1, <2>2 DEF Moved
    <3> QED  BY <3>1 DEF Up
  <2> QED  BY <2>1, <2>2
<1>9. Awaits(v, e, s, Begun)
  <2>1. s = "dropped" => \E x \in Executor, i \in Nat : Has(v, x, i, "stop", e)
    BY <1>2, <1>4, Handlers DEF Queued, Awaits, Moved
  <2>2. s = "moving" => \E x \in Executor, i \in Nat : Has(v, x, i, "give", e)
    BY <1>4 DEF Queued, Awaits, Moved
  <2> QED  BY <2>1, <2>2, Handlers DEF Awaits
<1> QED  BY <1>2, <1>6, <1>7, <1>8, <1>9 DEF Queued

\* A stop that was posted runs: the start has run, and it comes last.
LEMMA StopRun ==
    ASSUME NEW w, NEW e, NEW h, NEW s, NEW d, Queued(w, e, h, s, d),
           d \in {Blank, Begun, Full},
           NEW z, NEW v, Ran(w, z, v), Head(w[z])[1] = "stop", Head(w[z])[2] = e
    PROVE  s = "dropped" /\ d = Begun /\ Queued(v, e, h, "dropped", Full)
<1>1. /\ z \in Executor /\ Has(w, z, 1, "stop", e)
      /\ \A x \in Executor, i \in Nat : Has(w, x, i, "start", e) => i >= 1
  BY FirstJob
<1>2. /\ z = h /\ s = "dropped" /\ d /= Full
      /\ \A y \in Executor, j \in Nat : Has(w, y, j, "stop", e) => y = z /\ j = 1
  BY <1>1 DEF Queued, Stops
<1>3. d /= Blank
  <2> SUFFICES ASSUME d = Blank PROVE FALSE
    OBVIOUS
  <2>1. PICK x \in Executor, i \in Nat : Has(w, x, i, "start", e)
    BY <1>2 DEF Queued, Awaits
  <2>2. i < 1
    BY <1>1, <2>1 DEF Queued, Starts
  <2> QED  BY <1>1, <2>1, <2>2
<1>4. \A x \in Executor, i \in Nat : ~Has(v, x, i, "stop", e)
  BY <1>2, Gone
<1>5. \A x \in Executor, i \in Nat : ~Has(v, x, i, "start", e) /\ ~Has(v, x, i, "give", e)
  <2>1. Moved(w, z, v, "start", e) /\ Moved(w, z, v, "give", e)
    BY Shift
  <2>2. \A x \in Executor, i \in Nat : ~Has(w, x, i, "start", e) /\ ~Has(w, x, i, "give", e)
    BY <1>2, <1>3, NoJobs
  <2>3. \A x \in Executor, i \in Nat : i + Up(x, z) \in Nat
    BY DEF Up
  <2> QED  BY <2>1, <2>2, <2>3 DEF Moved
<1>6. d = Begun
  BY <1>2, <1>3
<1> QED  BY <1>2, <1>4, <1>5, <1>6, Handlers DEF Queued, Starts, Stops, Gives, Awaits

\* A handle arrives where it was posted to.
LEMMA GiveRun ==
    ASSUME NEW w, NEW e, NEW h, NEW s, NEW d, Queued(w, e, h, s, d),
           NEW z, NEW v, Ran(w, z, v), Head(w[z])[1] = "give", Head(w[z])[2] = e
    PROVE  s = "moving" /\ (z = h => d /= Blank) /\ Queued(v, e, h, "held", d)
<1>1. /\ z \in Executor /\ Has(w, z, 1, "give", e)
      /\ \A x \in Executor, i \in Nat : Has(w, x, i, "start", e) => i >= 1
  BY FirstJob
<1>2. /\ s = "moving"
      /\ \A y \in Executor, j \in Nat : Has(w, y, j, "give", e) => y = z /\ j = 1
  BY <1>1 DEF Queued, Gives
<1>3. z = h => d /= Blank
  <2> SUFFICES ASSUME z = h, d = Blank PROVE FALSE
    OBVIOUS
  <2>1. PICK x \in Executor, i \in Nat : Has(w, x, i, "start", e)
    BY <1>2 DEF Queued, Awaits
  <2>2. i < 1
    BY <1>1, <2>1 DEF Queued, Starts
  <2> QED  BY <1>1, <2>1, <2>2
<1>4. \A x \in Executor, i \in Nat : ~Has(v, x, i, "give", e)
  BY <1>2, Gone
<1>5. Moved(w, z, v, "start", e) /\ Moved(w, z, v, "stop", e)
  BY Shift
<1>6. \A x \in Executor, i \in Nat : i + Up(x, z) \in Nat
  BY DEF Up
<1>7. \A x \in Executor, i \in Nat : ~Has(v, x, i, "stop", e)
  <2>1. \A x \in Executor, i \in Nat : ~Has(w, x, i, "stop", e)
    BY <1>2, NoJobs
  <2> QED  BY <1>5, <1>6, <2>1 DEF Moved
<1>8. Starts(v, e, h, "held", d)
  <2> SUFFICES ASSUME NEW x \in Executor, NEW i \in Nat, Has(v, x, i, "start", e)
               PROVE  /\ x = h /\ d = Blank
                      /\ \A y \in Executor, j \in Nat :
                            Has(v, y, j, "start", e) => y = x /\ j = i
    BY <1>4, <1>7 DEF Starts
  <2>1. /\ x = h /\ d = Blank
        /\ \A y \in Executor, j \in Nat :
              Has(w, y, j, "start", e) => y = x /\ j = i + Up(x, z)
    BY <1>5, <1>6 DEF Queued, Starts, Moved
  <2>2. ASSUME NEW y \in Executor, NEW j \in Nat, Has(v, y, j, "start", e)
        PROVE  y = x /\ j = i
    <3>1. y = x /\ j + Up(y, z) = i + Up(x, z)
      BY <1>5, <1>6, <2>1, <2>2 DEF Moved
    <3> QED  BY <3>1 DEF Up
  <2> QED  BY <2>1, <2>2
<1>9. Awaits(v, e, "held", d)
  <2>1. d = Blank => \E x \in Executor, i \in Nat : Has(v, x, i, "start", e)
    BY <1>2, <1>5 DEF Queued, Awaits, Moved
  <2> QED  BY <2>1 DEF Awaits
<1> QED  BY <1>2, <1>3, <1>4, <1>7, <1>8, <1>9 DEF Queued, Stops, Gives

-----------------------------------------------------------------------------
(* The actions *)

\* The jobs that the program posts.
LEMMA JobOf ==
    ASSUME Types, NEW what \in {"start", "stop", "give", "summary", "final"},
           NEW e \in Entity, NEW n \in Nat
    PROVE  /\ <<what, e, n>> \in Jobs
           /\ <<what, e, n>>[1] = what /\ <<what, e, n>>[2] = e
BY DEF Jobs

\* An entity is registered: it has no jobs.
LEMMA ConstructInv ==
    ASSUME EInv, NEW e \in Entity, NEW x \in Executor, Construct(e, x) PROVE EInv'
<1> USE DEF web
<1>1. /\ stage[e] = "none"
      /\ stage' = [stage EXCEPT ![e] = "registered"]
      /\ owner' = [owner EXCEPT ![e] = x] /\ registry' = registry \cup {e}
      /\ UNCHANGED <<home, handled, work, web, present>>
  BY DEF Construct
<1>2. Types'
  BY <1>1 DEF EInv, Types
<1>3. Life'
  <2> SUFFICES ASSUME NEW f \in Entity
               PROVE  /\ Queued(work, f, home[f], stage'[f], handled[f])
                      /\ Staged(home[f], stage'[f], owner'[f], handled[f], f \in registry')
    BY <1>1 DEF Life
  <2>1. /\ Queued(work, f, home[f], stage[f], handled[f])
        /\ Staged(home[f], stage[f], owner[f], handled[f], f \in registry)
    BY DEF EInv, Life
  <2>2. CASE f = e
    <3>1. stage'[f] = "registered" /\ handled[f] = Blank /\ f \in registry'
      BY <1>1, <2>1, <2>2 DEF Staged, EInv, Types
    <3>2. Queued(work, f, home[f], "registered", Blank)
      BY <1>1, <2>1, <2>2, <3>1, NoJobs DEF Queued, Starts, Stops, Gives, Awaits
    <3>3. Staged(home[f], "registered", owner'[f], Blank, TRUE)
      BY Handlers DEF Staged
    <3> QED  BY <3>1, <3>2, <3>3
  <2>3. CASE f /= e
    <3>1. stage'[f] = stage[f] /\ owner'[f] = owner[f] /\ (f \in registry' <=> f \in registry)
      BY <1>1, <2>3 DEF EInv, Types
    <3> QED  BY <2>1, <3>1 DEF Staged
  <2> QED  BY <2>2, <2>3
<1>4. Listed'
  <2>1. present' \subseteq {f \in Entity : stage'[f] \in {"held", "moving"}}
    BY <1>1 DEF EInv, Types, Listed
  <2> QED  BY <1>1, <2>1 DEF EInv, Listed
<1> QED  BY <1>2, <1>3, <1>4 DEF EInv

\* The start runs at once, or is posted.
LEMMA StartEntityInv ==
    ASSUME EInv, NEW e \in Entity, StartEntity(e) PROVE EInv'
<1> USE DEF web
<1>1. /\ stage[e] = "registered" /\ stage' = [stage EXCEPT ![e] = "held"]
      /\ UNCHANGED <<home, owner, registry, web, present>>
  BY DEF StartEntity
<1>2. /\ Queued(work, e, home[e], "registered", Blank) /\ handled[e] = Blank
      /\ e \in registry /\ home[e] \in Executor /\ pages \in Nat
  <2>1. /\ Queued(work, e, home[e], stage[e], handled[e])
        /\ Staged(home[e], stage[e], owner[e], handled[e], e \in registry)
    BY DEF EInv, Life
  <2>2. handled[e] = Blank
    BY <1>1, <2>1 DEF Staged
  <2>3. e \in registry
    BY <1>1, <2>1, <2>2, Handlers DEF Staged
  <2> QED  BY <1>1, <2>1, <2>2, <2>3 DEF EInv, Types
<1>3. Listed'
  <2>1. present' \subseteq {f \in Entity : stage'[f] \in {"held", "moving"}}
    BY <1>1 DEF EInv, Types, Listed
  <2> QED  BY <1>1, <2>1 DEF EInv, Listed
<1>4. CASE owner[e] = home[e]
  <2>1. handled' = [handled EXCEPT ![e] = Begun] /\ work' = work
    BY <1>2, <1>4, Handlers DEF StartEntity, EInv, Types
  <2>2. Types'
    BY <1>1, <2>1 DEF EInv, Types
  <2>3. Life'
    <3> SUFFICES ASSUME NEW f \in Entity
                 PROVE  /\ Queued(work, f, home[f], stage'[f], handled'[f])
                        /\ Staged(home[f], stage'[f], owner[f], handled'[f], f \in registry)
      BY <1>1, <2>1 DEF Life
    <3>1. CASE f = e
      <4>1. stage'[f] = "held" /\ handled'[f] = Begun
        BY <1>1, <2>1, <3>1 DEF EInv, Types
      <4>2. Queued(work, f, home[f], "held", Begun)
        BY <1>2, <3>1, StartHere
      <4>3. Staged(home[f], "held", owner[f], Begun, f \in registry)
        BY <1>2, <3>1, Handlers DEF Staged
      <4> QED  BY <4>1, <4>2, <4>3
    <3>2. CASE f /= e
      <4>1. stage'[f] = stage[f] /\ handled'[f] = handled[f]
        BY <1>1, <2>1, <3>2 DEF EInv, Types
      <4> QED  BY <4>1 DEF EInv, Life
    <3> QED  BY <3>1, <3>2
  <2> QED  BY <1>3, <2>2, <2>3 DEF EInv
<1>5. CASE owner[e] /= home[e]
  <2> DEFINE job == <<"start", e, pages>>
  <2>1. handled' = handled /\ Posted(work, home[e], job, work')
    BY <1>2, <1>5, JobOf DEF StartEntity, Post, Posted, EInv, Types
  <2>2. job[1] = "start" /\ job[2] = e
    OBVIOUS
  <2> HIDE DEF job
  <2>3. work' \in [Executor -> Seq(Jobs)]
    BY <2>1, PostAdds DEF Longer
  <2>4. Types'
    BY <1>1, <2>1, <2>3 DEF EInv, Types
  <2>5. Life'
    <3> SUFFICES ASSUME NEW f \in Entity
                 PROVE  /\ Queued(work', f, home[f], stage'[f], handled[f])
                        /\ Staged(home[f], stage'[f], owner[f], handled[f], f \in registry)
      BY <1>1, <2>1 DEF Life
    <3>1. CASE f = e
      <4>1. stage'[f] = "held" /\ handled[f] = Blank
        BY <1>1, <1>2, <3>1 DEF EInv, Types
      <4>2. Queued(work', f, home[f], "held", Blank)
        BY <1>2, <2>1, <2>2, <3>1, StartPosted
      <4>3. Staged(home[f], "held", owner[f], Blank, f \in registry)
        BY <1>2, <1>5, <3>1, Handlers DEF Staged
      <4> QED  BY <4>1, <4>2, <4>3
    <3>2. CASE f /= e
      <4>1. stage'[f] = stage[f]
        BY <1>1, <3>2 DEF EInv, Types
      <4>2. Queued(work', f, home[f], stage[f], handled[f])
        BY <2>1, <2>2, <3>2, PostOther DEF EInv, Life
      <4> QED  BY <4>1, <4>2 DEF EInv, Life
    <3> QED  BY <3>1, <3>2
  <2> QED  BY <1>3, <2>4, <2>5 DEF EInv
<1> QED  BY <1>4, <1>5

\* The handle moves, at once or as a job.
LEMMA HandOverInv ==
    ASSUME EInv, NEW e \in Entity, NEW x \in Executor, HandOver(e, x) PROVE EInv'
<1> USE DEF web
<1> DEFINE job == <<"give", e, pages>>
<1>1. /\ stage[e] = "held" /\ stage' = [stage EXCEPT ![e] = "moving"]
      /\ UNCHANGED <<home, owner, handled, registry, web, present>>
      /\ Posted(work, x, job, work')
  BY JobOf DEF HandOver, Post, Posted, EInv, Types
<1>2. job[1] = "give" /\ job[2] = e
  OBVIOUS
<1> HIDE DEF job
<1>3. work' \in [Executor -> Seq(Jobs)]
  BY <1>1, PostAdds DEF Longer
<1>4. Types'
  BY <1>1, <1>3 DEF EInv, Types
<1>5. Life'
  <2> SUFFICES ASSUME NEW f \in Entity
               PROVE  /\ Queued(work', f, home[f], stage'[f], handled[f])
                      /\ Staged(home[f], stage'[f], owner[f], handled[f], f \in registry)
    BY <1>1 DEF Life
  <2>1. /\ Queued(work, f, home[f], stage[f], handled[f])
        /\ Staged(home[f], stage[f], owner[f], handled[f], f \in registry)
    BY DEF EInv, Life
  <2>2. CASE f = e
    <3>1. stage'[f] = "moving" /\ stage[f] = "held"
      BY <1>1, <2>2 DEF EInv, Types
    <3>2. Queued(work', f, home[f], "moving", handled[f])
      BY <1>1, <1>2, <2>1, <2>2, GivePosted
    <3>3. Staged(home[f], "moving", owner[f], handled[f], f \in registry)
      BY <1>1, <2>1, <2>2 DEF Staged
    <3> QED  BY <3>1, <3>2, <3>3
  <2>3. CASE f /= e
    <3>1. stage'[f] = stage[f]
      BY <1>1, <2>3 DEF EInv, Types
    <3>2. Queued(work', f, home[f], stage[f], handled[f])
      BY <1>1, <1>2, <2>1, <2>3, PostOther
    <3> QED  BY <2>1, <3>1, <3>2
  <2> QED  BY <2>2, <2>3
<1>6. Listed'
  <2>1. present' \subseteq {f \in Entity : stage'[f] \in {"held", "moving"}}
    BY <1>1 DEF EInv, Types, Listed
  <2> QED  BY <1>1, <2>1 DEF EInv, Listed
<1> QED  BY <1>4, <1>5, <1>6 DEF EInv

\* The last handle goes: the stop runs at once, or is posted.
LEMMA DropHandleInv ==
    ASSUME EInv, NEW e \in Entity, DropHandle(e) PROVE EInv'
<1> USE DEF web
<1>1. /\ stage[e] = "held" /\ stage' = [stage EXCEPT ![e] = "dropped"]
      /\ present' = present \ {e}
      /\ UNCHANGED <<home, owner, registry, web>>
  BY DEF DropHandle
<1>2. /\ Queued(work, e, home[e], "held", handled[e]) /\ handled[e] /= Full
      /\ e \in registry /\ home[e] \in Executor /\ pages \in Nat
      /\ owner[e] = home[e] => handled[e] = Begun
  <2>1. /\ Queued(work, e, home[e], stage[e], handled[e])
        /\ Staged(home[e], stage[e], owner[e], handled[e], e \in registry)
    BY DEF EInv, Life
  <2>2. handled[e] /= Full
    BY <1>1, <2>1 DEF Staged
  <2> QED  BY <1>1, <2>1, <2>2 DEF Staged, EInv, Types
<1>3. Listed'
  <2>1. present' \subseteq {f \in Entity : stage'[f] \in {"held", "moving"}}
    BY <1>1 DEF EInv, Types, Listed
  <2> QED  BY <1>1, <2>1 DEF EInv, Listed
<1>4. CASE owner[e] = home[e]
  <2>1. handled' = [handled EXCEPT ![e] = Full] /\ work' = work
    BY <1>2, <1>4, Handlers DEF DropHandle, Stopped, EInv, Types
  <2>2. Types'
    BY <1>1, <2>1 DEF EInv, Types
  <2>3. Life'
    <3> SUFFICES ASSUME NEW f \in Entity
                 PROVE  /\ Queued(work, f, home[f], stage'[f], handled'[f])
                        /\ Staged(home[f], stage'[f], owner[f], handled'[f], f \in registry)
      BY <1>1, <2>1 DEF Life
    <3>1. CASE f = e
      <4>1. stage'[f] = "dropped" /\ handled'[f] = Full
        BY <1>1, <2>1, <3>1 DEF EInv, Types
      <4>2. Queued(work, f, home[f], "dropped", Full)
        BY <1>2, <1>4, <3>1, DropHere
      <4>3. Staged(home[f], "dropped", owner[f], Full, f \in registry)
        BY DEF Staged
      <4> QED  BY <4>1, <4>2, <4>3
    <3>2. CASE f /= e
      <4>1. stage'[f] = stage[f] /\ handled'[f] = handled[f]
        BY <1>1, <2>1, <3>2 DEF EInv, Types
      <4> QED  BY <4>1 DEF EInv, Life
    <3> QED  BY <3>1, <3>2
  <2> QED  BY <1>3, <2>2, <2>3 DEF EInv
<1>5. CASE owner[e] /= home[e]
  <2> DEFINE job == <<"stop", e, pages>>
  <2>1. handled' = handled /\ Posted(work, home[e], job, work')
    BY <1>2, <1>5, JobOf DEF DropHandle, Post, Posted, EInv, Types
  <2>2. job[1] = "stop" /\ job[2] = e
    OBVIOUS
  <2> HIDE DEF job
  <2>3. work' \in [Executor -> Seq(Jobs)]
    BY <2>1, PostAdds DEF Longer
  <2>4. Types'
    BY <1>1, <2>1, <2>3 DEF EInv, Types
  <2>5. Life'
    <3> SUFFICES ASSUME NEW f \in Entity
                 PROVE  /\ Queued(work', f, home[f], stage'[f], handled[f])
                        /\ Staged(home[f], stage'[f], owner[f], handled[f], f \in registry)
      BY <1>1, <2>1 DEF Life
    <3>1. CASE f = e
      <4>1. stage'[f] = "dropped"
        BY <1>1, <3>1 DEF EInv, Types
      <4>2. Queued(work', f, home[f], "dropped", handled[f])
        BY <1>2, <2>1, <2>2, <3>1, StopPosted
      <4>3. Staged(home[f], "dropped", owner[f], handled[f], f \in registry)
        BY <1>2, <3>1 DEF Staged, EInv, Types
      <4> QED  BY <4>1, <4>2, <4>3
    <3>2. CASE f /= e
      <4>1. stage'[f] = stage[f]
        BY <1>1, <3>2 DEF EInv, Types
      <4>2. Queued(work', f, home[f], stage[f], handled[f])
        BY <2>1, <2>2, <3>2, PostOther DEF EInv, Life
      <4> QED  BY <4>1, <4>2 DEF EInv, Life
    <3> QED  BY <3>1, <3>2
  <2> QED  BY <1>3, <2>4, <2>5 DEF EInv
<1> QED  BY <1>4, <1>5

\* An entity to which nobody refers has been through both handlers.
LEMMA NotReferenced ==
    ASSUME EInv, NEW e \in Entity, ~Referenced(e), stage[e] /= "none"
    PROVE  stage[e] = "dropped" /\ handled[e] = Full
<1>1. /\ Queued(work, e, home[e], stage[e], handled[e])
      /\ stage[e] \in {"none", "registered", "held", "moving", "dropped"}
  BY DEF EInv, Life, Types
<1>2. \A x \in Executor, i \in Nat : ~Has(work, x, i, "stop", e) /\ ~Has(work, x, i, "give", e)
  BY DEF Referenced, Strong, Has
<1>3. stage[e] \notin {"registered", "held", "moving"}
  BY <1>1, <1>2 DEF Referenced, Queued, Awaits
<1>4. stage[e] = "dropped"
  BY <1>1, <1>3
<1> QED  BY <1>1, <1>2, <1>4 DEF Queued, Awaits

\* Nothing holds the entity, so both its handlers have run.
LEMMA DeletedInv ==
    ASSUME EInv, NEW e \in Entity, Deleted(e) PROVE EInv'
<1> USE DEF web, person
<1>1. /\ ~Referenced(e) /\ registry' = registry \ {e}
      /\ UNCHANGED <<home, person, work, web, present>>
  BY DEF Deleted
<1>2. Types' /\ Listed'
  BY <1>1 DEF EInv, Types, Listed
<1>3. Life'
  <2> SUFFICES ASSUME NEW f \in Entity
               PROVE  /\ Queued(work, f, home[f], stage[f], handled[f])
                      /\ Staged(home[f], stage[f], owner[f], handled[f], f \in registry')
    BY <1>1 DEF Life
  <2>1. /\ Queued(work, f, home[f], stage[f], handled[f])
        /\ Staged(home[f], stage[f], owner[f], handled[f], f \in registry)
    BY DEF EInv, Life
  <2>2. CASE f = e
    <3>1. stage[f] /= "none" => handled[f] = Full
      BY <1>1, <2>2, NotReferenced
    <3> QED  BY <2>1, <3>1 DEF Staged
  <2>3. CASE f /= e
    BY <1>1, <2>1, <2>3 DEF Staged
  <2> QED  BY <2>2, <2>3
<1> QED  BY <1>2, <1>3 DEF EInv

\* A request begins with the whole registry to look at.
LEMMA AskPageInv == ASSUME EInv, AskPage PROVE EInv'
<1> USE DEF person
<1>1. /\ page' = "walking" /\ pages' = pages + 1 /\ walk' = registry /\ summaries' = {}
      /\ present' = {e \in Entity : stage[e] \in {"held", "moving"}}
      /\ UNCHANGED <<home, person, registry, work, pinned>>
  BY DEF AskPage
<1>2. Types' /\ Life'
  BY <1>1 DEF EInv, Types, Life
<1>3. ASSUME NEW e \in Entity, stage[e] \in {"held", "moving"} PROVE e \in registry
  <2>1. Staged(home[e], stage[e], owner[e], handled[e], e \in registry)
    BY DEF EInv, Life
  <2> QED  BY <1>3, <2>1 DEF Staged
<1>4. Listed'
  BY <1>1, <1>3 DEF Listed
<1> QED  BY <1>2, <1>4 DEF EInv

\* An entity that is held is locked and is on its way to the page.
LEMMA LockWeakInv ==
    ASSUME EInv, NEW e \in Entity, LockWeak(e) PROVE EInv'
<1> USE DEF person
<1>1. /\ page = "walking" /\ pinned = {} /\ walk' = walk \ {e}
      /\ pinned' = IF Referenced(e) THEN {e} ELSE {}
      /\ UNCHANGED <<home, person, registry, work, summaries, page, pages, present>>
  BY DEF LockWeak
<1>2. Types'
  BY <1>1 DEF EInv, Types
<1>3. Life'
  BY <1>1 DEF EInv, Life
<1>4. e \in present => Referenced(e)
  BY NotReferenced DEF EInv, Listed
<1>5. Listed'
  BY <1>1, <1>4 DEF EInv, Listed
<1> QED  BY <1>2, <1>3, <1>5 DEF EInv

\* An entity of the web server's executor writes its summary at once.
LEMMA VisitInv ==
    ASSUME EInv, NEW e \in Entity, Visit(e) PROVE EInv'
<1> USE DEF person
<1>1. /\ pinned = {e} /\ pinned' = {}
      /\ UNCHANGED <<home, person, registry, walk, page, pages, present>>
  BY DEF Visit
<1>2. CASE home[e] = Web
  <2>1. summaries' = summaries \cup {e} /\ work' = work
    BY <1>2 DEF Visit
  <2>2. Types'
    BY <1>1, <2>1 DEF EInv, Types
  <2>3. Life' /\ Listed'
    BY <1>1, <1>2, <2>1 DEF EInv, Life, Listed
  <2> QED  BY <2>2, <2>3 DEF EInv
<1>3. CASE home[e] /= Web
  <2> DEFINE job == <<"summary", e, pages>>
  <2>1. summaries' = summaries /\ Posted(work, home[e], job, work')
    BY <1>3, JobOf DEF Visit, Post, Posted, EInv, Types
  <2>2. job[1] = "summary"
    OBVIOUS
  <2> HIDE DEF job
  <2>3. work' \in [Executor -> Seq(Jobs)]
    BY <2>1, PostAdds DEF Longer
  <2>4. Types'
    BY <1>1, <2>3 DEF EInv, Types
  <2>5. Life'
    <3> SUFFICES ASSUME NEW f \in Entity
                 PROVE  Queued(work', f, home[f], stage[f], handled[f])
      BY <1>1 DEF EInv, Life
    <3>1. Queued(work, f, home[f], stage[f], handled[f])
      BY DEF EInv, Life
    <3> QED  BY <2>1, <2>2, <3>1, PostOther
  <2>6. Listed'
    BY <1>1, <1>3, <2>1 DEF EInv, Listed
  <2> QED  BY <2>4, <2>5, <2>6 DEF EInv
<1> QED  BY <1>2, <1>3

\* The page is written when there is nothing left to look at.
LEMMA WriteInv == ASSUME EInv, WritePage \/ PageDone PROVE EInv'
<1> USE DEF person
<1>1. /\ \/ page = "walking" /\ walk = {} /\ pinned = {} /\ page' = "writing"
         \/ page' = "idle"
      /\ UNCHANGED <<home, person, registry, work, walk, pinned, summaries, pages, present>>
  BY DEF WritePage, PageDone
<1>2. Types' /\ Life'
  BY <1>1 DEF EInv, Types, Life
<1>3. Listed'
  BY <1>1 DEF EInv, Listed
<1> QED  BY <1>2, <1>3 DEF EInv

\* The jobs run: a start, a stop, a handle that arrives, or a summary.
LEMMA RunWorkInv ==
    ASSUME EInv, NEW x \in Executor, RunWork(x) PROVE EInv'
<1> USE DEF web
<1> DEFINE what == Head(work[x])[1]
           e == Head(work[x])[2]
           rest == [work EXCEPT ![x] = Tail(@)]
<1>1. /\ Ran(work, x, rest) /\ UNCHANGED <<home, registry, web, present>>
      /\ home \in [Entity -> Executor]
  BY DEF RunWork, Ran, EInv, Types
<1>2. /\ rest \in [Executor -> Seq(Jobs)] /\ e \in Entity
      /\ what \in {"start", "stop", "give", "summary", "final"}
      /\ Head(work[x])[3] \in Nat
  <2>1. rest \in [Executor -> Seq(Jobs)] /\ Head(work[x]) \in Jobs
    <3> HIDE DEF rest
    <3>1. Shorter(work, x, rest)
      BY <1>1, RunTakes
    <3> QED  BY <3>1 DEF Shorter
  <2> QED  BY <2>1 DEF Jobs
<1>3. /\ Queued(work, e, home[e], stage[e], handled[e])
      /\ Staged(home[e], stage[e], owner[e], handled[e], e \in registry)
  BY <1>2 DEF EInv, Life
<1>4. ASSUME NEW f \in Entity, f /= e \/ what \in {"summary", "final"}
      PROVE  Queued(rest, f, home[f], stage[f], handled[f])
  <2>1. Queued(work, f, home[f], stage[f], handled[f])
    BY DEF EInv, Life
  <2> QED  BY <1>1, <1>4, <2>1, RunOther
<1>5. /\ \A f \in Entity : Staged(home[f], stage[f], owner[f], handled[f], f \in registry)
      /\ stage \in [Entity -> {"none", "registered", "held", "moving", "dropped"}]
      /\ owner \in [Entity -> Executor] /\ handled \in [Entity -> {Blank, Begun, Full}]
  BY DEF EInv, Life, Types
<1>6. CASE what = "start"
  <2>1. /\ work' = rest /\ UNCHANGED <<stage, owner, estate>>
        /\ handled' = [handled EXCEPT ![e] = Append(@, "start")]
    BY <1>6 DEF RunWork
  <2>2. /\ handled[e] = Blank /\ stage[e] \in {"held", "moving", "dropped"}
        /\ Queued(rest, e, home[e], stage[e], Begun)
    BY <1>1, <1>3, <1>6, StartRun
  <2> HIDE DEF what, e, rest
  <2>3. handled' = [handled EXCEPT ![e] = Begun]
    BY <1>2, <1>5, <2>1, <2>2, Handlers
  <2>4. Types'
    BY <1>1, <1>2, <2>1, <2>3 DEF EInv, Types
  <2>5. Life'
    <3> SUFFICES ASSUME NEW f \in Entity
                 PROVE  /\ Queued(rest, f, home[f], stage[f], handled'[f])
                        /\ Staged(home[f], stage[f], owner[f], handled'[f], f \in registry)
      BY <1>1, <2>1 DEF Life
    <3>1. CASE f = e
      <4>1. handled'[f] = Begun
        BY <1>2, <1>5, <2>3, <3>1
      <4>2. e \in registry
        BY <1>3, <2>2, Handlers DEF Staged
      <4> QED  BY <2>2, <3>1, <4>1, <4>2, Handlers DEF Staged
    <3>2. CASE f /= e
      <4>1. handled'[f] = handled[f]
        BY <1>5, <2>3, <3>2
      <4> QED  BY <1>4, <1>5, <3>2, <4>1
    <3> QED  BY <3>1, <3>2
  <2>6. Listed'
    BY <1>1, <2>1 DEF EInv, Listed
  <2> QED  BY <2>4, <2>5, <2>6 DEF EInv
<1>7. CASE what = "stop"
  <2>1. /\ work' = rest /\ UNCHANGED <<stage, owner>>
        /\ handled' = [handled EXCEPT ![e] = Append(@, "stop")]
    BY <1>7 DEF RunWork, Stopped
  <2>2. /\ handled[e] = Begun /\ stage[e] = "dropped"
        /\ Queued(rest, e, home[e], "dropped", Full)
    <3>1. handled[e] \in {Blank, Begun, Full}
      BY <1>2, <1>5
    <3>2. Head(work[x])[1] = "stop" /\ Head(work[x])[2] = e
      BY <1>7
    <3> HIDE DEF what, e, rest
    <3> QED  BY <1>1, <1>3, <3>1, <3>2, StopRun
  <2> HIDE DEF what, e, rest
  <2>3. handled' = [handled EXCEPT ![e] = Full]
    BY <1>2, <1>5, <2>1, <2>2, Handlers
  <2>4. Types'
    BY <1>1, <1>2, <2>1, <2>3 DEF EInv, Types
  <2>5. Life'
    <3> SUFFICES ASSUME NEW f \in Entity
                 PROVE  /\ Queued(rest, f, home[f], stage[f], handled'[f])
                        /\ Staged(home[f], stage[f], owner[f], handled'[f], f \in registry)
      BY <1>1, <2>1 DEF Life
    <3>1. CASE f = e
      <4>1. handled'[f] = Full
        BY <1>2, <1>5, <2>3, <3>1
      <4> QED  BY <2>2, <3>1, <4>1 DEF Staged
    <3>2. CASE f /= e
      <4>1. handled'[f] = handled[f]
        BY <1>5, <2>3, <3>2
      <4> QED  BY <1>4, <1>5, <3>2, <4>1
    <3> QED  BY <3>1, <3>2
  <2>6. Listed'
    BY <1>1, <2>1 DEF EInv, Listed
  <2> QED  BY <2>4, <2>5, <2>6 DEF EInv
<1>8. CASE what = "give"
  <2>1. /\ work' = rest /\ UNCHANGED <<estate, handled>>
        /\ owner' = [owner EXCEPT ![e] = x] /\ stage' = [stage EXCEPT ![e] = "held"]
    BY <1>8 DEF RunWork
  <2>2. /\ stage[e] = "moving" /\ (x = home[e] => handled[e] /= Blank)
        /\ Queued(rest, e, home[e], "held", handled[e])
    BY <1>1, <1>3, <1>8, GiveRun
  <2> HIDE DEF what, e, rest
  <2>3. Types'
    BY <1>1, <1>2, <2>1 DEF EInv, Types
  <2>4. Life'
    <3> SUFFICES ASSUME NEW f \in Entity
                 PROVE  /\ Queued(rest, f, home[f], stage'[f], handled[f])
                        /\ Staged(home[f], stage'[f], owner'[f], handled[f], f \in registry)
      BY <1>1, <2>1 DEF Life
    <3>1. CASE f = e
      <4>1. stage'[f] = "held" /\ owner'[f] = x
        BY <1>2, <1>5, <2>1, <3>1
      <4>2. handled[e] /= Full /\ e \in registry
        BY <1>3, <2>2 DEF Staged
      <4>3. Staged(home[e], "held", x, handled[e], TRUE)
        BY <1>3, <2>2, <4>2 DEF Staged
      <4> QED  BY <2>2, <3>1, <4>1, <4>2, <4>3
    <3>2. CASE f /= e
      <4>1. stage'[f] = stage[f] /\ owner'[f] = owner[f]
        BY <1>5, <2>1, <3>2
      <4> QED  BY <1>4, <1>5, <3>2, <4>1
    <3> QED  BY <3>1, <3>2
  <2>5. Listed'
    <3>1. present' \subseteq {f \in Entity : stage'[f] \in {"held", "moving"}}
      BY <1>1, <1>5, <2>1 DEF EInv, Listed
    <3> QED  BY <1>1, <3>1 DEF EInv, Listed
  <2> QED  BY <2>3, <2>4, <2>5 DEF EInv
<1>9. CASE what = "summary"
  <2> DEFINE job == <<"final", e, Head(work[x])[3]>>
  <2>1. UNCHANGED person /\ work' = [rest EXCEPT ![Web] = Append(@, job)]
    BY <1>9 DEF RunWork
  <2>2. job \in Jobs /\ job[1] = "final"
    BY <1>2 DEF Jobs
  <2> HIDE DEF what, e, rest, job
  <2>3. Posted(rest, Web, job, work')
    BY <1>2, <2>1, <2>2, EntityAssumption DEF Posted
  <2>4. work' \in [Executor -> Seq(Jobs)]
    BY <2>3, PostAdds DEF Longer
  <2>5. Types'
    BY <1>1, <2>1, <2>4 DEF EInv, Types, person
  <2>6. Life'
    <3> SUFFICES ASSUME NEW f \in Entity
                 PROVE  Queued(work', f, home[f], stage[f], handled[f])
      BY <1>1, <1>5, <2>1 DEF Life, person
    <3>1. Queued(rest, f, home[f], stage[f], handled[f])
      BY <1>4, <1>9
    <3> QED  BY <2>2, <2>3, <3>1, PostOther
  <2>7. Listed'
    BY <1>1, <2>1 DEF EInv, Listed, person
  <2> QED  BY <2>5, <2>6, <2>7 DEF EInv
<1>10. CASE what = "final"
  <2>1. UNCHANGED person /\ work' = rest
    BY <1>10 DEF RunWork
  <2> HIDE DEF what, e, rest
  <2>2. Types'
    BY <1>1, <1>2, <2>1 DEF EInv, Types, person
  <2>3. Life'
    BY <1>1, <1>4, <1>5, <1>10, <2>1 DEF Life, person
  <2>4. Listed'
    BY <1>1, <2>1 DEF EInv, Listed, person
  <2> QED  BY <2>2, <2>3, <2>4 DEF EInv
<1> QED  BY <1>2, <1>6, <1>7, <1>8, <1>9, <1>10

-----------------------------------------------------------------------------
(* The invariant, and what it says of entities and of the page *)

\* At the start there are neither entities nor jobs.
LEMMA InitEInv == ASSUME EntityInit PROVE EInv
<1>1. /\ home \in [Entity -> Executor]
      /\ stage = [e \in Entity |-> "none"] /\ owner = [e \in Entity |-> Web]
      /\ handled = [e \in Entity |-> Blank]
      /\ registry = {} /\ work = [x \in Executor |-> <<>>] /\ walk = {}
      /\ pinned = {} /\ summaries = {} /\ page = "idle" /\ pages = 0 /\ present = {}
  BY DEF EntityInit, Blank
<1>2. Types
  BY <1>1, EntityAssumption DEF Types
<1>3. Listed
  BY <1>1 DEF Listed
<1>4. Life
  <2> SUFFICES ASSUME NEW e \in Entity
               PROVE  /\ Queued(work, e, home[e], "none", Blank)
                      /\ Staged(home[e], "none", owner[e], Blank, e \in registry)
    BY <1>1 DEF Life
  <2>1. \A x \in Executor, i \in Nat : \A what : ~Has(work, x, i, what, e)
    BY <1>1 DEF Has
  <2> QED  BY <2>1, Handlers DEF Queued, Starts, Stops, Gives, Awaits, Staged
<1> QED  BY <1>2, <1>3, <1>4 DEF EInv

\* Every step keeps the invariant.
LEMMA NextEInv == ASSUME EInv, [EntityNext]_entityVars PROVE EInv'
<1>1. CASE EntityNext
  BY <1>1, ConstructInv, StartEntityInv, HandOverInv, DropHandleInv, DeletedInv, AskPageInv,
     LockWeakInv, VisitInv, WriteInv, RunWorkInv DEF EntityNext
<1>2. CASE UNCHANGED entityVars
  BY <1>2 DEF entityVars, person, web, EInv, Types, Life, Listed
<1> QED  BY <1>1, <1>2

\* The invariant always holds.
LEMMA EntitiesInv == EntitySpec => []EInv
<1>1. EntityInit => EInv
  BY InitEInv
<1>2. EInv /\ [EntityNext]_entityVars => EInv'
  BY NextEInv
<1> QED  BY <1>1, <1>2, PTL DEF EntitySpec

\* entity_base: whatever threads an entity's handle is made, moved and dropped on, its
\* handlers run once each and in order, and before it is deleted.
THEOREM AlwaysStartedThenStopped == EntitySpec => []StartedThenStopped
<1>1. ASSUME EInv PROVE StartedThenStopped
  <2> SUFFICES ASSUME NEW e \in Entity
               PROVE  /\ handled[e] \in {<<>>, <<"start">>, <<"start", "stop">>}
                      /\ "stop" \in {handled[e][i] : i \in DOMAIN handled[e]}
                             => stage[e] = "dropped"
                      /\ stage[e] /= "none" /\ (e \notin registry \/ ~Referenced(e))
                             => handled[e] = <<"start", "stop">>
    BY DEF StartedThenStopped
  <2>1. /\ handled[e] \in {Blank, Begun, Full}
        /\ Staged(home[e], stage[e], owner[e], handled[e], e \in registry)
    BY <1>1 DEF EInv, Types, Life
  <2>2. handled[e] /= Full => "stop" \notin {handled[e][i] : i \in DOMAIN handled[e]}
    BY <2>1 DEF Blank, Begun, Full
  <2>3. "stop" \in {handled[e][i] : i \in DOMAIN handled[e]} => stage[e] = "dropped"
    BY <2>1, <2>2 DEF Staged
  <2>4. stage[e] /= "none" /\ (e \notin registry \/ ~Referenced(e)) => handled[e] = Full
    BY <1>1, <2>1, NotReferenced DEF Staged
  <2> QED  BY <2>1, <2>3, <2>4 DEF Blank, Begun, Full
<1> QED  BY <1>1, EntitiesInv, PTL

\* entity_summary_app: however the entities come, go and move meanwhile, a page that
\* is written has the web server's entities that stayed, and no other executor's.
THEOREM AlwaysPageListsOwn == EntitySpec => []PageListsOwn
<1>1. EInv => PageListsOwn
  BY DEF EInv, Listed, PageListsOwn
<1> QED  BY <1>1, EntitiesInv, PTL

-----------------------------------------------------------------------------
(* The cache of entity_service::require: a key there may share its impl    *)
(* with the program's, and copy_check gives those a new one to change.     *)

\* The impls are those that somebody has, and a digest is that of its values.
KInv ==
    /\ held \in [KeyVar -> Nat]
    /\ DOMAIN cached \subseteq Nat /\ IsFiniteSet(DOMAIN cached)
    /\ DOMAIN impl = InUse(held, cached)
    /\ \A i \in DOMAIN impl : impl[i].locked => impl[i].hash = Digest(impl[i].values)
    /\ OneEntryPerKey

\* An impl with a new number is nobody's.
LEMMA FreshIsNew ==
    ASSUME KInv
    PROVE  Fresh \in Nat /\ Fresh \notin DOMAIN impl
<1> DEFINE D == DOMAIN impl
           n == Cardinality(D)
<1>1. IsFiniteSet(D) /\ n \in Nat
  <2>1. IsFiniteSet(Range(held))
    <3>1. Range(held) = {held[k] : k \in KeyVar}
      BY DEF Range, KInv
    <3>2. held \in Surjection(KeyVar, {held[k] : k \in KeyVar})
      BY DEF KInv, Surjection
    <3>3. IsFiniteSet({held[k] : k \in KeyVar})
      BY <3>2, KeyAssumption, FS_Surjection
    <3> QED  BY <3>1, <3>3
  <2>2. IsFiniteSet(D)
    BY <2>1, FS_Union DEF KInv, InUse
  <2> QED  BY <2>2, FS_CardinalityType
<1>2. \E i \in 1..n + 1 : i \notin D
  <2> SUFFICES ASSUME 1..n + 1 \subseteq D PROVE FALSE
    OBVIOUS
  <2> HIDE DEF n, D
  <2>1. Cardinality(1..n + 1) = n + 1
    BY <1>1, FS_Interval
  <2>2. Cardinality(1..n + 1) <= Cardinality(D)
    BY <1>1, FS_Subset
  <2>3. Cardinality(D) = n
    BY DEF n
  <2> QED  BY <1>1, <2>1, <2>2, <2>3
<1>3. Fresh \in 1..n + 1 /\ Fresh \notin D
  BY <1>2 DEF Fresh
<1> QED  BY <1>1, <1>3

\* What it takes to give the variables other impls.
LEMMA HoldKeeps ==
    ASSUME KInv, NEW h \in [KeyVar -> Nat], NEW f, Hold(h, f),
           \A i \in InUse(h, cached) : f[i].locked => f[i].hash = Digest(f[i].values),
           \A c \in DOMAIN cached : f[c] = impl[c]
    PROVE  KInv'
<1>1. /\ held' = h /\ cached' = cached
      /\ impl' = [i \in InUse(h, cached) |-> f[i]]
  BY DEF Hold
<1>2. DOMAIN impl' = InUse(held', cached')
  BY <1>1
<1>3. \A i \in DOMAIN impl' : impl'[i].locked => impl'[i].hash = Digest(impl'[i].values)
  BY <1>1
<1>4. \A c \in DOMAIN cached : impl'[c] = impl[c]
  BY <1>1 DEF InUse
<1>5. OneEntryPerKey'
  BY <1>1, <1>4 DEF KInv, OneEntryPerKey
<1> QED  BY <1>1, <1>2, <1>3, <1>5 DEF KInv

\* A key with an impl of its own may be anything.
LEMMA ChangeKeeps ==
    ASSUME KInv, NEW k \in KeyVar, NEW n \in Nat, n \notin DOMAIN cached, NEW m,
           n \notin DOMAIN impl \/ n = held[k],
           SetImpl(k, n, m)
    PROVE  KInv'
<1> DEFINE h == [held EXCEPT ![k] = n]
           f == [j \in DOMAIN impl \cup {n} |-> IF j = n THEN Unlocked(m) ELSE impl[j]]
<1>1. h \in [KeyVar -> Nat]
  BY DEF KInv
<1>2. DOMAIN f = DOMAIN impl \cup {n}
  OBVIOUS
<1>3. f[n] = Unlocked(m) /\ \A i \in DOMAIN impl : i /= n => f[i] = impl[i]
  OBVIOUS
<1>4. \A c \in DOMAIN cached : c \in DOMAIN impl /\ f[c] = impl[c]
  BY <1>3 DEF KInv, InUse
<1>5. ASSUME NEW i \in InUse(h, cached), f[i].locked PROVE f[i].hash = Digest(f[i].values)
  <2>1. CASE i = n
    BY <1>3, <1>5, <2>1 DEF Unlocked
  <2>2. CASE i /= n
    <3>1. i \in InUse(held, cached)
      BY <2>2 DEF InUse, Range, KInv
    <3> QED  BY <1>3, <1>5, <2>2, <3>1 DEF KInv
  <2> QED  BY <2>1, <2>2
<1> HIDE DEF f, h
<1>6. Hold(h, f)
  BY DEF SetImpl, f, h
<1> QED  BY <1>1, <1>4, <1>5, <1>6, HoldKeeps

\* copy_check: the map that a change is made in is nobody else's, and not in the cache.
LEMMA OwnIsOwn ==
    ASSUME KInv, NEW k \in KeyVar
    PROVE  /\ Own(k) \in Nat /\ Own(k) \notin DOMAIN cached
           /\ Own(k) \notin DOMAIN impl \/ Own(k) = held[k]
<1>1. Fresh \in Nat /\ Fresh \notin DOMAIN impl /\ DOMAIN cached \subseteq DOMAIN impl
  BY FreshIsNew DEF KInv, InUse
<1>2. held[k] \in Nat
  BY DEF KInv
<1>3. CASE Shared(k)
  BY <1>1, <1>3 DEF Own
<1>4. CASE ~Shared(k)
  BY <1>2, <1>4 DEF Own, Shared
<1> QED  BY <1>3, <1>4

\* A map that is locked is not in the cache yet, as those are locked.
LEMMA LockInv ==
    ASSUME KInv, NEW k \in KeyVar, LockKey(k) PROVE KInv'
<1>1. /\ ~impl[held[k]].locked /\ UNCHANGED <<held, cached>>
      /\ impl' = [impl EXCEPT ![held[k]] = Locked(impl[held[k]].values)]
  BY DEF LockKey
<1>2. held[k] \notin DOMAIN cached
  BY <1>1 DEF KInv, OneEntryPerKey
<1>3. /\ DOMAIN impl' = DOMAIN impl
      /\ \A i \in DOMAIN impl : i /= held[k] => impl'[i] = impl[i]
      /\ held[k] \in DOMAIN impl => impl'[held[k]] = Locked(impl[held[k]].values)
  BY <1>1
<1>4. \A i \in DOMAIN impl' : impl'[i].locked => impl'[i].hash = Digest(impl'[i].values)
  BY <1>3 DEF KInv, Locked
<1>5. \A c \in DOMAIN cached : c \in DOMAIN impl /\ impl'[c] = impl[c]
  BY <1>2, <1>3 DEF KInv, InUse
<1>6. OneEntryPerKey'
  BY <1>1, <1>5 DEF KInv, OneEntryPerKey
<1> QED  BY <1>1, <1>3, <1>4, <1>6 DEF KInv, InUse

\* require enters a key only when no entry compares equal to it.
LEMMA RequireInv ==
    ASSUME KInv, NEW k \in KeyVar, Require(k) PROVE KInv'
<1>1. PICK c \in DOMAIN cached \cup {held[k]} :
         /\ SameKey(c, held[k])
         /\ c \in DOMAIN cached \/ \A d \in DOMAIN cached : ~SameKey(d, held[k])
         /\ cached' = [d \in DOMAIN cached \cup {c} |->
                         IF d \in DOMAIN cached THEN cached[d] ELSE impl[c].values]
  BY DEF Require
<1>2. impl[held[k]].locked /\ UNCHANGED <<impl, held>>
  BY DEF Require
<1>3. /\ DOMAIN cached' = DOMAIN cached \cup {c}
      /\ \A d \in DOMAIN cached : cached'[d] = cached[d]
      /\ c \notin DOMAIN cached => cached'[c] = impl[c].values
  BY <1>1
<1>4. held[k] \in DOMAIN impl /\ c \in DOMAIN impl /\ held[k] \in Nat /\ c \in Nat
  BY <1>1 DEF KInv, InUse, Range
<1>5. DOMAIN cached' \subseteq Nat /\ IsFiniteSet(DOMAIN cached')
  BY <1>3, <1>4, FS_AddElement DEF KInv
<1>6. DOMAIN impl' = InUse(held', cached')
  BY <1>1, <1>2, <1>3, <1>4 DEF KInv, InUse, Range
<1>7. CASE c \in DOMAIN cached
  <2>1. DOMAIN cached' = DOMAIN cached
    BY <1>3, <1>7
  <2> QED  BY <1>2, <1>3, <1>5, <1>6, <2>1 DEF KInv, OneEntryPerKey
<1>8. CASE c \notin DOMAIN cached
  <2>1. c = held[k] /\ impl[c].locked /\ impl[c].hash = Digest(impl[c].values)
    BY <1>1, <1>2, <1>4, <1>8 DEF KInv
  <2>2. ASSUME NEW d \in DOMAIN cached PROVE cached[d] /= impl[c].values
    <3>1. impl[d].values = cached[d] /\ impl[d].hash = Digest(cached[d])
      BY DEF KInv, OneEntryPerKey
    <3> QED  BY <1>1, <1>8, <2>1, <3>1 DEF SameKey
  <2>3. OneEntryPerKey'
    <3> SUFFICES ASSUME NEW d \in DOMAIN cached'
                 PROVE  /\ impl[d].locked
                        /\ impl[d].values = cached'[d] /\ impl[d].hash = Digest(cached'[d])
                        /\ \A b \in DOMAIN cached' : cached'[b] = cached'[d] => b = d
      BY <1>2 DEF OneEntryPerKey
    <3>1. CASE d \in DOMAIN cached
      BY <1>3, <1>8, <2>2, <3>1 DEF KInv, OneEntryPerKey
    <3>2. CASE d = c
      BY <1>3, <1>8, <2>1, <2>2, <3>2
    <3> QED  BY <1>3, <3>1, <3>2
  <2> QED  BY <1>2, <1>5, <1>6, <2>3 DEF KInv
<1> QED  BY <1>7, <1>8

\* At the start all keys share one empty map, and the cache is empty.
LEMMA InitKInv == ASSUME KeyInit PROVE KInv
<1>1. /\ held = [k \in KeyVar |-> 1] /\ impl = [i \in {1} |-> Unlocked(<<>>)]
      /\ cached = <<>> /\ DOMAIN cached = {}
  BY DEF KeyInit
<1>2. held \in [KeyVar -> Nat] /\ IsFiniteSet(DOMAIN cached) /\ DOMAIN cached \subseteq Nat
  BY <1>1, FS_EmptySet
<1>3. DOMAIN impl = InUse(held, cached)
  <2>1. KeyVar /= {} => Range(held) = {1}
    BY <1>1 DEF Range
  <2> QED  BY <1>1, <2>1, KeyAssumption DEF InUse
<1>4. \A i \in DOMAIN impl : impl[i].locked => impl[i].hash = Digest(impl[i].values)
  BY <1>1 DEF Unlocked
<1>5. OneEntryPerKey
  BY <1>1 DEF OneEntryPerKey
<1> QED  BY <1>2, <1>3, <1>4, <1>5 DEF KInv

\* Every step keeps the invariant.
LEMMA StepKInv == ASSUME KInv, [KeyNext]_keyVars PROVE KInv'
<1>1. ASSUME NEW k \in KeyVar, ConstructKey(k) PROVE KInv'
  <2>1. Fresh \in Nat /\ Fresh \notin DOMAIN impl /\ Fresh \notin DOMAIN cached
    BY FreshIsNew DEF KInv, InUse
  <2> QED  BY <1>1, <2>1, ChangeKeeps DEF ConstructKey
<1>2. ASSUME NEW k \in KeyVar, NEW j \in KeyVar, CopyKey(k, j) PROVE KInv'
  <2> DEFINE h == [held EXCEPT ![k] = held[j]]
  <2>1. h \in [KeyVar -> Nat] /\ Hold(h, impl)
    BY <1>2 DEF CopyKey, KInv
  <2>2. InUse(h, cached) \subseteq DOMAIN impl
    BY DEF KInv, InUse, Range
  <2> HIDE DEF h
  <2> QED  BY <2>1, <2>2, HoldKeeps DEF KInv
<1>3. ASSUME NEW k \in KeyVar, NEW n \in Name, NEW v \in Val, SetKey(k, n, v) PROVE KInv'
  <2> DEFINE m == (n :> v) @@ impl[held[k]].values
  <2>1. SetImpl(k, Own(k), m)
    BY <1>3 DEF SetKey
  <2> HIDE DEF m
  <2> QED  BY <2>1, OwnIsOwn, ChangeKeeps
<1>4. ASSUME NEW k \in KeyVar, NEW j \in KeyVar, MergeKey(k, j) PROVE KInv'
  <2> DEFINE m == impl[held[k]].values @@ impl[held[j]].values
  <2>1. SetImpl(k, Own(k), m)
    BY <1>4 DEF MergeKey
  <2> HIDE DEF m
  <2> QED  BY <2>1, OwnIsOwn, ChangeKeeps
<1>5. ASSUME NEW c \in handles, ReleaseEntity(c) PROVE KInv'
  BY <1>5 DEF ReleaseEntity, KInv, OneEntryPerKey, InUse
<1>6. CASE UNCHANGED keyVars
  BY <1>6 DEF keyVars, KInv, OneEntryPerKey, InUse
<1> QED  BY <1>1, <1>2, <1>3, <1>4, <1>5, <1>6, LockInv, RequireInv DEF KeyNext

\* entity_service::require finds one entry per key: a key in the cache keeps its
\* values and its digest whatever becomes of the keys it shares its impl with.
THEOREM AlwaysOneEntryPerKey == KeySpec => []OneEntryPerKey
<1>1. KeyInit => KInv
  BY InitKInv
<1>2. KInv /\ [KeyNext]_keyVars => KInv'
  BY StepKInv
<1>3. KInv => OneEntryPerKey
  BY DEF KInv
<1> QED  BY <1>1, <1>2, <1>3, PTL DEF KeySpec
=============================================================================
