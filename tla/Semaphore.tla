------------------------------ MODULE Semaphore ------------------------------
(***************************************************************************)
(* async_semaphore: a count and a list of waiting operations.  An          *)
(* operation is complete when its handler is posted; the executor runs the *)
(* handler later, and whoever it belongs to holds a unit from then on.     *)
(*                                                                         *)
(* The semaphore is used from one thread, as its documentation asks.       *)
(***************************************************************************)
EXTENDS Naturals, SequencesExt

CONSTANTS
    Op,           \* the operations, each started once
    InitialCount  \* initial_count

ASSUME SemaphoreAssumption == InitialCount \in Nat

VARIABLES
    count,     \* count_
    waiters,   \* waiters_, the first to come first
    op,        \* "idle", "waiting", "posted", "aborted", "holds" or "over"
    entry,     \* how the operation got its unit: "none", "try", "fast", "handed"
    semaphore, \* "live", "gone", or "fault" after undefined behaviour
    came       \* history: the operations that had to wait, as they were started

semVars == <<count, waiters, op, entry, semaphore, came>>

SemInit ==
    /\ count = InitialCount
    /\ waiters = <<>>
    /\ op = [w \in Op |-> "idle"]
    /\ entry = [w \in Op |-> "none"]
    /\ semaphore = "live" /\ came = <<>>

Live == semaphore = "live" /\ UNCHANGED semaphore

\* async_acquire with a unit to have: the handler is posted, and the count stays
\* as it was.
AcquireFast(w) ==
    /\ Live /\ op[w] = "idle" /\ count > 0
    /\ op' = [op EXCEPT ![w] = "posted"]
    /\ entry' = [entry EXCEPT ![w] = "fast"]
    /\ UNCHANGED <<count, waiters, came>>

\* Mutant of AcquireWaits: the operation goes to the front of the list.
AcquireFirst(w) ==
    /\ Live /\ op[w] = "idle" /\ count = 0
    /\ op' = [op EXCEPT ![w] = "waiting"]
    /\ waiters' = <<w>> \o waiters
    /\ came' = Append(came, w)
    /\ UNCHANGED <<count, entry>>

\* async_acquire without one: the operation goes to the end of the list.
AcquireWaits(w) ==
    /\ Live /\ op[w] = "idle" /\ count = 0
    /\ op' = [op EXCEPT ![w] = "waiting"]
    /\ waiters' = Append(waiters, w)
    /\ came' = Append(came, w)
    /\ UNCHANGED <<count, entry>>

\* try_acquire, when it succeeds.
TryAcquire(w) ==
    /\ Live /\ op[w] = "idle" /\ count > 0
    /\ op' = [op EXCEPT ![w] = "holds"]
    /\ entry' = [entry EXCEPT ![w] = "try"]
    /\ count' = count - 1
    /\ UNCHANGED <<waiters, came>>

\* release, with o the operations as they are otherwise: the first that waits has
\* the unit, or else the count.
Give(o) ==
    \/ /\ waiters = <<>>
       /\ count' = count + 1 /\ op' = o
       /\ UNCHANGED <<waiters, entry>>
    \/ /\ waiters /= <<>>
       /\ op' = [o EXCEPT ![Head(waiters)] = "posted"]
       /\ entry' = [entry EXCEPT ![Head(waiters)] = "handed"]
       /\ waiters' = Tail(waiters)
       /\ count' = count

\* A holder is done; it releases the semaphore.
ReleaseUnit(w) ==
    /\ Live /\ op[w] = "holds"
    /\ Give([op EXCEPT ![w] = "over"])
    /\ UNCHANGED came

\* The executor runs a handler.
RunHandler(w) ==
    /\ op[w] \in {"posted", "aborted"}
    /\ op' = [op EXCEPT ![w] = IF op[w] = "posted" THEN "holds" ELSE "over"]
    /\ UNCHANGED <<count, waiters, entry, semaphore, came>>

\* unlink, of an operation in the list.
Unlinked(w) ==
    \E i \in DOMAIN waiters : waiters[i] = w /\ waiters' = RemoveAt(waiters, i)

\* Mutant of CancelWait: the slot is still connected once the handler is posted.
CancelLate(w) ==
    /\ Live /\ op[w] \in {"waiting", "posted"}
    /\ op' = [op EXCEPT ![w] = "aborted"]
    /\ op[w] = "waiting" => Unlinked(w)
    /\ op[w] = "posted" => UNCHANGED waiters
    /\ UNCHANGED <<count, entry, came>>

\* The slot of a waiting operation: it is unlinked and completed with an error.
CancelWait(w) ==
    /\ Live /\ op[w] = "waiting"
    /\ op' = [op EXCEPT ![w] = "aborted"]
    /\ Unlinked(w)
    /\ UNCHANGED <<count, entry, came>>

\* The destructor.  The loop completes the list's own node before the first
\* operation's, and that node is no operation.
DestroySemaphore ==
    /\ semaphore = "live"
    /\ semaphore' = IF waiters = <<>> THEN "gone" ELSE "fault"
    /\ UNCHANGED <<count, waiters, op, entry, came>>

SemNext ==
    \/ \E w \in Op : \/ AcquireFast(w) \/ AcquireWaits(w) \/ TryAcquire(w)
                     \/ ReleaseUnit(w) \/ RunHandler(w) \/ CancelWait(w)
    \/ DestroySemaphore

SemSpec == SemInit /\ [][SemNext]_semVars

-----------------------------------------------------------------------------
(* Properties *)

\* v had to wait before w had to.
CameFirst(v, w) == \E i, j \in DOMAIN came : i < j /\ came[i] = v /\ came[j] = w

\* async_semaphore.hpp:101, strict FIFO order: while an operation waits, neither one
\* that came after it and waits too nor a newcomer, in async_acquire or try_acquire,
\* comes by a unit, whatever was released and cancelled in between.
ServedInOrder ==
    [][\A v, w \in Op :
          op[v] = "waiting" /\ (op[w] = "idle" \/ (op[w] = "waiting" /\ CameFirst(v, w)))
              => op'[w] \notin {"posted", "holds"}]_semVars

Holders == {w \in Op : op[w] \in {"posted", "holds"}}
Charged == {w \in Holders : entry[w] /= "fast"}
Gifts   == {w \in Op : entry[w] = "fast" /\ op[w] = "over"}

\* A unit is with the count or with one operation, whatever release, cancellation
\* and the posted handlers come to: none is lost.  What async_acquire gave without
\* taking it from the count, the release adds to it.
NoUnitLost == Cardinality(Charged) + count = InitialCount + Cardinality(Gifts)

\* async_semaphore.hpp:106, a completion without an error is an acquisition: no
\* more operations hold a unit than there are units.
UnitsHeldOnce == Cardinality(Holders) <= InitialCount
=============================================================================
