-------------------------------- MODULE Uplink --------------------------------
(***************************************************************************)
(* What connector promises those who use it: it is up or down, and what is *)
(* sent joins a first-in first-out queue, which only the message at its    *)
(* head leaves, whatever connections come and go meanwhile.                *)
(***************************************************************************)
EXTENDS Sequences

CONSTANT Message

VARIABLES
    up,       \* is the connection to the venue up?
    queue     \* the messages still to be written

uplink == <<up, queue>>

UplinkInit == up = FALSE /\ queue = <<>>

Rise == ~up /\ up' = TRUE /\ UNCHANGED queue

Fall == up /\ up' = FALSE /\ UNCHANGED queue

Enqueue(m) == queue' = Append(queue, m) /\ UNCHANGED up

Written == queue /= <<>> /\ queue' = Tail(queue) /\ UNCHANGED up

UplinkNext == Rise \/ Fall \/ Written \/ \E m \in Message : Enqueue(m)

UplinkSpec == UplinkInit /\ [][UplinkNext]_uplink
=============================================================================
