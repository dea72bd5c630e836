------------------------------- MODULE Messages -------------------------------
(***************************************************************************)
(* How the connector's users hear its messages: watch_messages, the slots  *)
(* by type of message, receive_loop with handle_message, and the           *)
(* cross_executor_connection that disconnects a slot.                      *)
(*                                                                         *)
(* A user is on the connector's executor, or away, on one of its own: then *)
(* its calls are posted to the connector's executor and awaited, and its   *)
(* slot posts what it hears back.  Messages are numbered as they come.     *)
(***************************************************************************)
EXTENDS Naturals, SequencesExt

CONSTANTS
    Watcher,       \* the users, with one slot each
    Kind,          \* types of messages
    MaxMessages    \* bound on the messages received

ASSUME MessagesAssumption == MaxMessages \in Nat

VARIABLES
    away,      \* the users on another executor
    wants,     \* the type each watches
    bond,      \* a user: "none", "asked", "connected", "watching", "gone"
    slots,     \* signal_map_: the slots of each type, as connected
    calls,     \* what was posted to the connector's executor
    loop,      \* receive_loop: "down", "reading", "emitting"
    received,  \* messages so far
    kind,      \* the type of the last one
    left,      \* the slots an emission has yet to call
    heard,     \* the messages that reached each user
    due,       \* those that came while it watched
    lastOf     \* the last messages of connections that are over

users == <<away, wants, bond, calls>>
receiving == <<loop, received, kind, left>>
messagesVars == <<users, slots, receiving, heard, due, lastOf>>

MessagesInit ==
    /\ away \in SUBSET Watcher
    /\ wants \in [Watcher -> Kind]
    /\ bond = [u \in Watcher |-> "none"]
    /\ slots = [k \in Kind |-> <<>>]
    /\ calls = <<>>
    /\ loop = "down" /\ received = 0 /\ kind = (CHOOSE k \in Kind : TRUE) /\ left = <<>>
    /\ heard = [u \in Watcher |-> <<>>]
    /\ due = [u \in Watcher |-> {}]
    /\ lastOf = {}

Quiet == loop /= "emitting"

-----------------------------------------------------------------------------
(* The users' calls *)

Plugged(u) == slots' = [slots EXCEPT ![wants[u]] = Append(@, u)]
Unplugged(u) ==
    \E i \in DOMAIN slots[wants[u]] :
        /\ slots[wants[u]][i] = u
        /\ slots' = [slots EXCEPT ![wants[u]] = RemoveAt(@, i)]

\* Mutant of Watch: a user elsewhere does not wait for the call it posted.
WatchPosted(u) ==
    /\ bond[u] = "none"
    /\ bond' = [bond EXCEPT ![u] = "watching"]
    /\ IF u \in away THEN calls' = Append(calls, <<"watch", u>>) /\ UNCHANGED slots
       ELSE Plugged(u) /\ UNCHANGED calls
    /\ UNCHANGED <<away, wants, receiving, heard, due, lastOf>>

\* watch_messages.  On the connector's executor this may be in another's slot.
Watch(u) ==
    /\ bond[u] = "none"
    /\ IF u \in away
       THEN /\ bond' = [bond EXCEPT ![u] = "asked"]
            /\ calls' = Append(calls, <<"watch", u>>) /\ UNCHANGED slots
       ELSE bond' = [bond EXCEPT ![u] = "watching"] /\ Plugged(u) /\ UNCHANGED calls
    /\ UNCHANGED <<away, wants, receiving, heard, due, lastOf>>

\* The user's coroutine goes on, with its connection.
Watched(u) ==
    /\ bond[u] = "connected"
    /\ bond' = [bond EXCEPT ![u] = "watching"]
    /\ UNCHANGED <<away, wants, calls, slots, receiving, heard, due, lastOf>>

\* Mutant of Unwatch: only the user goes.
UnwatchForgets(u) ==
    /\ bond[u] = "watching"
    /\ bond' = [bond EXCEPT ![u] = "gone"]
    /\ UNCHANGED <<away, wants, calls, slots, receiving, heard, due, lastOf>>

\* A user is destroyed and with it its connection, which is disconnected on the
\* connector's executor.
Unwatch(u) ==
    /\ bond[u] = "watching"
    /\ bond' = [bond EXCEPT ![u] = "gone"]
    /\ IF u \in away THEN calls' = Append(calls, <<"disconnect", u>>) /\ UNCHANGED slots
       ELSE Unplugged(u) /\ UNCHANGED calls
    /\ UNCHANGED <<away, wants, receiving, heard, due, lastOf>>

\* The connector's executor runs a call.
RunCall ==
    /\ calls /= <<>> /\ Quiet
    /\ calls' = Tail(calls)
    /\ LET u == Head(calls)[2]
       IN  IF Head(calls)[1] = "watch"
           THEN Plugged(u) /\ bond' = [bond EXCEPT ![u] = "connected"]
           ELSE Unplugged(u) /\ UNCHANGED bond
    /\ UNCHANGED <<away, wants, receiving, heard, due, lastOf>>

-----------------------------------------------------------------------------
(* receive_loop *)

\* run_connection is up: a loop with a message object of its own.
LoopBegins ==
    /\ loop = "down" /\ loop' = "reading"
    /\ UNCHANGED <<users, slots, received, kind, left, heard, due, lastOf>>

LoopEnds == loop' = "down" /\ left' = <<>> /\ lastOf' = lastOf \cup {received}

\* A message is read: those that watch are to hear it, unless nobody does.
ReadMessage(k) ==
    /\ loop = "reading" /\ received < MaxMessages
    /\ received' = received + 1 /\ kind' = k
    /\ left' = slots[k]
    /\ loop' = IF left' = <<>> THEN "reading" ELSE "emitting"
    /\ due' = [u \in Watcher |-> IF bond[u] = "watching" /\ wants[u] = k
                                 THEN due[u] \cup {received'} ELSE due[u]]
    /\ UNCHANGED <<users, slots, heard, lastOf>>

\* The read fails, or the message is not JSON.
ReadEnds ==
    /\ loop = "reading"
    /\ LoopEnds
    /\ UNCHANGED <<users, slots, received, kind, heard, due>>

\* The next slot, if it is still connected; it does nothing for a user that is gone.
CallSlot ==
    /\ loop = "emitting" /\ left /= <<>>
    /\ left' = Tail(left)
    /\ LET u == Head(left)
       IN  heard' = IF Contains(slots[kind], u) /\ bond[u] /= "gone"
                    THEN [heard EXCEPT ![u] = Append(@, received)] ELSE heard
    /\ UNCHANGED <<users, slots, loop, received, kind, due, lastOf>>

EmissionDone ==
    /\ loop = "emitting" /\ left = <<>>
    /\ loop' = "reading"
    /\ UNCHANGED <<users, slots, received, kind, left, heard, due, lastOf>>

\* Mutant of SlotThrows: the loop goes on with the next message.
SlotThrowsOn ==
    /\ loop = "emitting" /\ left /= <<>>
    /\ loop' = "reading" /\ left' = <<>>
    /\ UNCHANGED <<users, slots, received, kind, heard, due, lastOf>>

\* A slot throws: the slots after it are not called, and the connection is over.
SlotThrows ==
    /\ loop = "emitting" /\ left /= <<>>
    /\ LoopEnds
    /\ UNCHANGED <<users, slots, received, kind, heard, due>>

MessagesNext ==
    \/ \E u \in Watcher : Watch(u) \/ Watched(u) \/ Unwatch(u)
    \/ RunCall
    \/ LoopBegins \/ ReadEnds \/ CallSlot \/ EmissionDone \/ SlotThrows
    \/ \E k \in Kind : ReadMessage(k)

MessagesSpec == MessagesInit /\ [][MessagesNext]_messagesVars

-----------------------------------------------------------------------------
(* Properties *)

\* connector.hpp:70: who watches hears every message of the type that comes from
\* then on, in order and once, wherever it runs and whoever connects, disconnects
\* or throws meanwhile; the one it may miss is the last of a connection.
HearsAll ==
    \A u \in Watcher :
        /\ \A i, j \in DOMAIN heard[u] : i < j => heard[u][i] < heard[u][j]
        /\ bond[u] = "watching" /\ Quiet => due[u] \subseteq Range(heard[u]) \cup lastOf

\* connector.hpp:74: a user that is gone leaves no slot, unless its disconnection is
\* on its way to the connector's executor.
SlotsFreed ==
    \A u \in Watcher :
        bond[u] = "gone" /\ Contains(slots[wants[u]], u)
            => u \in away /\ Contains(calls, <<"disconnect", u>>)
=============================================================================
