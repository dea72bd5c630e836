------------------------------- MODULE Entities -------------------------------
(***************************************************************************)
(* entity_base, entity_handle, the registry of entity_service, and the web *)
(* page that summarises the entities.  An entity's handlers run on its own *)
(* executor; its handle is made, handed over and dropped on any thread.    *)
(*                                                                         *)
(* An executor has one thread, which runs its jobs in order; a dispatch    *)
(* from that thread runs at once, one from another is a job.  A handle is  *)
(* handed to another thread by a job.  An entity has one handle, and there *)
(* is one request for the page at a time.                                  *)
(***************************************************************************)
EXTENDS Naturals, Sequences, FiniteSets, TLC

CONSTANTS
    Entity,        \* the entities
    Executor, Web, \* the executors, and the one of the web server
    MaxPages       \* bound on the requests for the page

ASSUME EntityAssumption == Web \in Executor /\ MaxPages \in Nat

VARIABLES
    home,      \* exec_
    stage,     \* the handle: "none", "registered", "held", "moving", "dropped"
    owner,     \* the thread of the handle
    estate,    \* estate_
    handled,   \* the handlers that have run: handle_start, handle_stop
    registry,  \* impl_cache_
    work,      \* the jobs of each executor, <<what, entity, request>>
    walk,      \* enumerate: the weak pointers still to be looked at
    pinned,    \* the entity whose pointer enumerate has locked, if any
    summaries, \* the entities in the page that is being made
    page,      \* "idle", "walking", "writing"
    pages,     \* requests so far
    present,   \* entities held since the request came
    torn       \* did a summary come for a page that is no more?

person == <<stage, owner, estate, handled>>
web == <<walk, pinned, summaries, page, pages>>
entityVars == <<home, person, registry, work, web, present, torn>>

EntityInit ==
    /\ home \in [Entity -> Executor]
    /\ stage = [e \in Entity |-> "none"]
    /\ owner = [e \in Entity |-> Web]
    /\ estate = [e \in Entity |-> "not_started"]
    /\ handled = [e \in Entity |-> <<>>]
    /\ registry = {} /\ work = [x \in Executor |-> <<>>]
    /\ walk = {} /\ pinned = {} /\ summaries = {}
    /\ page = "idle" /\ pages = 0 /\ present = {} /\ torn = FALSE

-----------------------------------------------------------------------------
(* References, threads and jobs *)

\* Mutant of Strong: what was dispatched for a stop does not hold the entity.
StrongWithoutStop == {"start", "give", "summary"}

\* The jobs that hold a shared_ptr to their entity.  The last one has its address.
Strong == {"start", "stop", "give", "summary"}

\* Is there a shared_ptr to e?
Referenced(e) ==
    \/ stage[e] \in {"registered", "held"} \/ e \in pinned
    \/ \E x \in Executor : \E i \in 1..Len(work[x]) :
           work[x][i][2] = e /\ work[x][i][1] \in Strong

\* A thread constructs an entity, or enumerates, without running a job in between.
Free(x) ==
    /\ \A e \in Entity : ~(stage[e] = "registered" /\ owner[e] = x)
    /\ ~(x = Web /\ page = "walking")

Post(x, job) == work' = [work EXCEPT ![x] = Append(@, job)]

-----------------------------------------------------------------------------
(* Handles *)

\* Mutant of Construct: the registry is not told.
ConstructUnseen(e, x) ==
    /\ stage[e] = "none" /\ Free(x)
    /\ stage' = [stage EXCEPT ![e] = "registered"]
    /\ owner' = [owner EXCEPT ![e] = x]
    /\ UNCHANGED <<home, estate, handled, registry, work, web, present, torn>>

\* construct, on thread x, as far as notify_create ...
Construct(e, x) ==
    /\ stage[e] = "none" /\ Free(x)
    /\ stage' = [stage EXCEPT ![e] = "registered"]
    /\ owner' = [owner EXCEPT ![e] = x]
    /\ registry' = registry \cup {e}
    /\ UNCHANGED <<home, estate, handled, work, web, present, torn>>

\* ... and start, which dispatches handle_start.
StartEntity(e) ==
    /\ stage[e] = "registered"
    /\ stage' = [stage EXCEPT ![e] = "held"]
    /\ estate' = [estate EXCEPT ![e] = "started"]
    /\ IF owner[e] = home[e]
       THEN handled' = [handled EXCEPT ![e] = Append(@, "start")] /\ UNCHANGED work
       ELSE Post(home[e], <<"start", e, pages>>) /\ UNCHANGED handled
    /\ UNCHANGED <<home, owner, registry, web, present, torn>>

\* The handle is moved into a job for thread x.
HandOver(e, x) ==
    /\ stage[e] = "held" /\ x /= owner[e] /\ Free(owner[e])
    /\ stage' = [stage EXCEPT ![e] = "moving"]
    /\ Post(x, <<"give", e, pages>>)
    /\ UNCHANGED <<home, owner, estate, handled, registry, web, present, torn>>

\* entity_base::stop, on the entity's executor.
Stopped(e) ==
    /\ estate' = [estate EXCEPT ![e] = "stopped"]
    /\ handled' = [handled EXCEPT ![e] = Append(@, "stop")]

\* stop_check, when the handle is destroyed or assigned to: stop is dispatched.
DropHandle(e) ==
    /\ stage[e] = "held" /\ Free(owner[e])
    /\ stage' = [stage EXCEPT ![e] = "dropped"]
    /\ present' = present \ {e}
    /\ IF owner[e] = home[e] THEN Stopped(e) /\ UNCHANGED work
       ELSE Post(home[e], <<"stop", e, pages>>) /\ UNCHANGED <<estate, handled>>
    /\ UNCHANGED <<home, owner, registry, web, torn>>

\* Mutant of Deleted: the registry keeps its weak pointer.
DeletedKept(e) ==
    /\ e \in registry /\ ~Referenced(e)
    /\ UNCHANGED entityVars

\* The deleter, on whatever thread let go of e last.
Deleted(e) ==
    /\ e \in registry /\ ~Referenced(e)
    /\ registry' = registry \ {e}
    /\ UNCHANGED <<home, person, work, web, present, torn>>

-----------------------------------------------------------------------------
(* The page of entity_summary_app *)

\* The request: enumerate copies the set of weak pointers.
AskPage ==
    /\ page = "idle" /\ pages < MaxPages /\ Free(Web)
    /\ page' = "walking" /\ pages' = pages + 1
    /\ walk' = registry /\ summaries' = {}
    /\ present' = {e \in Entity : stage[e] \in {"held", "moving"}}
    /\ UNCHANGED <<home, person, registry, work, pinned, torn>>

\* enumerate locks the next pointer, and skips one that nobody refers to.
LockWeak(e) ==
    /\ page = "walking" /\ pinned = {} /\ e \in walk
    /\ walk' = walk \ {e}
    /\ pinned' = IF Referenced(e) THEN {e} ELSE {}
    /\ UNCHANGED <<home, person, registry, work, summaries, page, pages, present, torn>>

\* The enumerator: a summary is taken here, or asked for where the entity lives.
Visit(e) ==
    /\ pinned = {e} /\ pinned' = {}
    /\ IF home[e] = Web THEN summaries' = summaries \cup {e} /\ UNCHANGED work
       ELSE Post(home[e], <<"summary", e, pages>>) /\ UNCHANGED summaries
    /\ UNCHANGED <<home, person, registry, walk, page, pages, present, torn>>

\* `outstanding` is zero: nothing is waited for.
WritePage ==
    /\ page = "walking" /\ walk = {} /\ pinned = {}
    /\ page' = "writing"
    /\ UNCHANGED <<home, person, registry, work, walk, pinned, summaries, pages, present, torn>>

\* The page is written, or that fails: the app's frame goes.
PageDone ==
    /\ page = "writing" /\ page' = "idle"
    /\ UNCHANGED <<home, person, registry, work, walk, pinned, summaries, pages, present, torn>>

-----------------------------------------------------------------------------
(* Jobs *)

\* The next job of x.  A summary is sent back to the page, which has read its list
\* by then; to write to a frame that is gone is undefined.
RunWork(x) ==
    /\ work[x] /= <<>> /\ Free(x)
    /\ LET what == Head(work[x])[1]
           e == Head(work[x])[2]
           rest == [work EXCEPT ![x] = Tail(@)]
       IN  \/ /\ what = "start" /\ work' = rest
              /\ handled' = [handled EXCEPT ![e] = Append(@, "start")]
              /\ UNCHANGED <<stage, owner, estate, torn>>
           \/ /\ what = "stop" /\ work' = rest
              /\ Stopped(e) /\ UNCHANGED <<stage, owner, torn>>
           \/ /\ what = "give" /\ work' = rest
              /\ owner' = [owner EXCEPT ![e] = x]
              /\ stage' = [stage EXCEPT ![e] = "held"]
              /\ UNCHANGED <<estate, handled, torn>>
           \/ /\ what = "summary"
              /\ work' = [rest EXCEPT ![Web] = Append(@, <<"final", e, Head(work[x])[3]>>)]
              /\ UNCHANGED <<person, torn>>
           \/ /\ what = "final" /\ work' = rest
              /\ torn' = (torn \/ page = "idle" \/ Head(work[x])[3] /= pages)
              /\ UNCHANGED person
    /\ UNCHANGED <<home, registry, web, present>>

\* Nothing is said of what comes after undefined behaviour.
EntityNext ==
    /\ ~torn
    /\ \/ \E e \in Entity :
            \/ \E x \in Executor : Construct(e, x) \/ HandOver(e, x)
            \/ StartEntity(e) \/ DropHandle(e) \/ Deleted(e) \/ LockWeak(e) \/ Visit(e)
       \/ AskPage \/ WritePage \/ PageDone
       \/ \E x \in Executor : RunWork(x)

EntitySpec == EntityInit /\ [][EntityNext]_entityVars

-----------------------------------------------------------------------------
(* Properties *)

\* entity_base.cpp:54 and 71: an entity is started, then stopped, once each, on
\* whatever threads its handle is made, moved to and dropped; it is deleted, or
\* forgotten by the registry, only after both.
StartedThenStopped ==
    \A e \in Entity :
        /\ handled[e] \in {<<>>, <<"start">>, <<"start", "stop">>}
        /\ "stop" \in {handled[e][i] : i \in DOMAIN handled[e]} => stage[e] = "dropped"
        /\ stage[e] /= "none" /\ (e \notin registry \/ ~Referenced(e))
               => handled[e] = <<"start", "stop">>

\* entity_summary_app: the page has every entity of the web server's executor that
\* was there from the request to the page, and reads no other entity, which may be
\* at work on its own thread.
PageListsOwn ==
    /\ \A e \in summaries : home[e] = Web
    /\ page = "writing" => {e \in present : home[e] = Web} \subseteq summaries

\* Entities whose handles are dropped go, whoever else referred to them meanwhile.
Leaving == {e \in registry : stage[e] = "dropped"}
EntitiesEnd == Leaving /= {} ~> Leaving = {} \/ torn
=============================================================================
