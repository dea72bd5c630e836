------------------------------ MODULE TextPool ------------------------------
(***************************************************************************)
(* truncate: an operation object shows a text cut to a limit.  A text that *)
(* is too long is cut in a string of a thread's pool, which the object has *)
(* until it is destroyed; the pool is a stack that grows when it is empty. *)
(*                                                                         *)
(* The strings are numbered as they are made.  Objects are made and        *)
(* destroyed on the pool's thread.                                         *)
(***************************************************************************)
EXTENDS Naturals, Sequences, FiniteSetsExt

CONSTANTS
    View,       \* truncate_op objects
    Text,       \* the texts to be cut, sequences of characters
    Limit,      \* the limits
    MaxStrings  \* bound: how many strings are ever made

ASSUME TextAssumption ==
    Text \subseteq Seq(Nat) /\ Limit \subseteq Nat /\ MaxStrings \in Nat

VARIABLES
    pool,     \* buffers_, the top first
    made,     \* the number of strings ever made
    content,  \* the strings, by number
    source,   \* what each object was made from: at most one <<text, limit>>
    handle,   \* the object's string, 0 for none
    sv,       \* what its view refers to: a string, or 0 for the source text
    kept      \* history: the strings given back by an object that kept them

poolVars == <<pool, made, content, source, handle, sv, kept>>

PoolInit ==
    /\ pool = <<>> /\ made = 0 /\ content = <<>>
    /\ source = [v \in View |-> {}]
    /\ handle = [v \in View |-> 0] /\ sv = [v \in View |-> 0]
    /\ kept = {}

Ellipsis == <<0, 0, 0>>

\* transform: the text that goes into the string.
Cut(t, limit) == SubSeq(t, 1, Max({limit, 3}) - 3) \o Ellipsis

TooLong(t, limit) == Len(t) > Max({limit, 3})

\* pop and unlink: the top of the pool, or a new string.
Popped == IF pool = <<>> THEN made + 1 ELSE Head(pool)

\* Mutant of PoolWithout: the string is still in the pool.
PoolKept == pool

PoolWithout == IF pool = <<>> THEN <<>> ELSE Tail(pool)

\* The places of a string in the pool.
Linked(n) == {i \in DOMAIN pool : pool[i] = n}

\* The pool with string n linked on top.  If n was in it, what stood below n is lost
\* and the list closes to a ring: n is on top and at the bottom, and unlink, which
\* resets n's pointer, opens the ring again.
OnTop(n) == <<n>> \o (IF Linked(n) = {} THEN pool ELSE SubSeq(pool, 1, Min(Linked(n))))

\* link: the string is given back, if there is one.
GivenBack(n) == IF n = 0 THEN pool ELSE OnTop(n)

\* truncate_op(t, limit).
Truncate(v, t, limit) ==
    /\ source[v] = {} /\ source' = [source EXCEPT ![v] = {<<t, limit>>}]
    /\ TooLong(t, limit) /\ pool = <<>> => made < MaxStrings
    /\ IF TooLong(t, limit)
       THEN LET n == Popped
            IN  /\ handle' = [handle EXCEPT ![v] = n] /\ sv' = [sv EXCEPT ![v] = n]
                /\ content' = [i \in DOMAIN content \cup {n} |->
                                  IF i = n THEN Cut(t, limit) ELSE content[i]]
                /\ pool' = PoolWithout /\ made' = Max({made, n})
       ELSE /\ sv' = [sv EXCEPT ![v] = 0]
            /\ UNCHANGED <<pool, made, content, handle>>
    /\ UNCHANGED kept

\* The object is destroyed.
DestroyView(v) ==
    /\ source[v] /= {} /\ source' = [source EXCEPT ![v] = {}]
    /\ pool' = GivenBack(handle[v])
    /\ handle' = [handle EXCEPT ![v] = 0]
    /\ UNCHANGED <<made, content, sv, kept>>

\* An object is made from v, which is destroyed: the handle and the view move.
MoveView(v, w) ==
    /\ source[v] /= {} /\ source[w] = {}
    /\ source' = [source EXCEPT ![w] = source[v], ![v] = {}]
    /\ handle' = [handle EXCEPT ![w] = handle[v], ![v] = 0]
    /\ sv' = [sv EXCEPT ![w] = sv[v]]
    /\ UNCHANGED <<pool, made, content, kept>>

\* v is assigned from w, which is left without a text: the string v had goes back
\* first, and it does so even if v is w, which then keeps it.
AssignView(v, w) ==
    /\ source[v] /= {} /\ source[w] /= {}
    /\ source' = [source EXCEPT ![w] = {}, ![v] = source[w]]
    /\ pool' = GivenBack(handle[v])
    /\ handle' = [handle EXCEPT ![w] = 0, ![v] = handle[w]]
    /\ sv' = [sv EXCEPT ![v] = sv[w]]
    /\ kept' = kept \cup (IF v = w THEN {handle[v]} \ {0} ELSE {})
    /\ UNCHANGED <<made, content>>

PoolNext ==
    \E v \in View :
        \/ \E t \in Text, limit \in Limit : Truncate(v, t, limit)
        \/ DestroyView(v)
        \/ \E w \in View : MoveView(v, w) \/ AssignView(v, w)

PoolSpec == PoolInit /\ [][PoolNext]_poolVars

-----------------------------------------------------------------------------
(* Properties *)

Shown(v) ==
    LET t == (CHOOSE s \in source[v] : TRUE)[1]
    IN  IF sv[v] = 0 THEN t ELSE content[sv[v]]

\* truncate.spec.cpp:19: an object shows its own text whole if it is within the
\* limit, else as many characters as the limit has, the last three of them dots,
\* and it goes on doing so whatever other objects did with the pool's strings.  An
\* object that is assigned to itself, truncate.cpp:37, spoils this for those that
\* come by its string, and for no other.
ShowsItsText ==
    \A v \in View : \A s \in {u \in source[v] : sv[v] \notin kept} :
        LET most == Max({s[2], 3})
        IN  IF Len(s[1]) <= most THEN Shown(v) = s[1]
            ELSE /\ Len(Shown(v)) = most
                 /\ \A i \in 1..most :
                       Shown(v)[i] = IF i > most - 3 THEN 0 ELSE s[1][i]
=============================================================================
