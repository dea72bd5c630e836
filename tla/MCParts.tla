------------------------------- MODULE MCParts -------------------------------
(***************************************************************************)
(* The parts of the program that have little to do with each other, in one *)
(* state machine: one of them moves, chosen at the start, and the others   *)
(* stay as they begin.                                                     *)
(***************************************************************************)
EXTENDS DataLog, Semaphore, TextPool, MarketKeys, Table, EntityKey, Entities,
        Messages, Program

\* One within the smaller limit, and two that are not.
MCText == {<<1, 2>>, <<3, 4, 5, 6, 7>>, <<8, 9, 10, 11>>}

VARIABLE part    \* the part that moves

allVars == <<part, vars, semVars, poolVars, name, data, keyVars, entityVars,
             messagesVars, programVars>>

PartNames ==
    {"log", "semaphore", "pool", "names", "table", "keys", "entities", "messages",
     "program"}

\* Parts that stay need one initial state only.
PartsInit ==
    /\ part \in PartNames
    /\ Init /\ SemInit /\ PoolInit /\ NameInit /\ TableInit /\ KeyInit
    /\ EntityInit /\ MessagesInit /\ ProgramInit
    /\ part /= "log" => user = "other" /\ inside
    /\ IF part = "entities" THEN \E e \in Entity : home[e] = Web
       ELSE \A e \in Entity : home[e] = Web
    /\ IF part = "messages" THEN kind \in Range(wants)
       ELSE away = {} /\ wants = [u \in Watcher |-> kind]

Stays(p, v) == IF part = p THEN TRUE ELSE UNCHANGED v

\* Only part p moves.
Moves(p) ==
    /\ part = p /\ UNCHANGED part
    /\ Stays("log", vars) /\ Stays("semaphore", semVars) /\ Stays("pool", poolVars)
    /\ Stays("names", name) /\ Stays("table", data) /\ Stays("keys", keyVars)
    /\ Stays("entities", entityVars) /\ Stays("messages", messagesVars)
    /\ Stays("program", programVars)

PartsNext ==
    \/ part = "log" /\ Next /\ Moves("log")
    \/ part = "semaphore" /\ SemNext /\ Moves("semaphore")
    \/ part = "pool" /\ PoolNext /\ Moves("pool")
    \/ part = "names" /\ NameNext /\ Moves("names")
    \/ part = "table" /\ TableNext /\ Moves("table")
    \/ part = "keys" /\ KeyNext /\ Moves("keys")
    \/ part = "entities" /\ EntityNext /\ Moves("entities")
    \/ part = "messages" /\ MessagesNext /\ Moves("messages")
    \/ part = "program" /\ ProgramNext /\ Moves("program")

\* Executors run what is ready, and the deleter runs on the thread it is on.
LogFair ==
    /\ WF_allVars(part = "log" /\ Begin /\ Moves("log"))
    /\ WF_allVars(part = "log" /\ Resume /\ Moves("log"))
    /\ WF_allVars(part = "log" /\ (WriteDone \/ WriteFails) /\ Moves("log"))
    /\ WF_allVars(part = "log" /\ RunJob /\ Moves("log"))

EntitiesFair ==
    /\ WF_allVars(part = "entities" /\ ~torn /\ (\E e \in Entity : StartEntity(e)) /\ Moves("entities"))
    /\ WF_allVars(part = "entities" /\ ~torn /\ (\E e \in Entity : Deleted(e)) /\ Moves("entities"))
    /\ WF_allVars(part = "entities" /\ ~torn
                  /\ (WritePage \/ \E e \in Entity : LockWeak(e) \/ Visit(e))
                  /\ Moves("entities"))
    /\ \A x \in Executor :
           WF_allVars(part = "entities" /\ ~torn /\ RunWork(x) /\ Moves("entities"))

\* A key that was pressed, a coroutine that was stopped; and clients leave.
ProgramFair ==
    /\ WF_allVars(part = "program" /\ keys = "cancelled" /\ KeysEnd /\ Moves("program"))
    /\ WF_allVars(part = "program" /\ FrameEnds /\ Moves("program"))
    /\ WF_allVars(part = "program" /\ Noticed /\ Moves("program"))
    /\ WF_allVars(part = "program" /\ ConnectorEnds /\ Moves("program"))
    /\ WF_allVars(part = "program" /\ LogEnded /\ Moves("program"))
    /\ WF_allVars(part = "program" /\ serves = "stopped" /\ ServerEnded /\ Moves("program"))
    /\ WF_allVars(part = "program" /\ SessionEnds /\ Moves("program"))

PartsSpec ==
    /\ PartsInit /\ [][PartsNext]_allVars
    /\ LogFair /\ EntitiesFair /\ ProgramFair

=============================================================================
