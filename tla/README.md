# arby in TLA+

arby keeps order books of the Power Trade exchange: a connector holds a websocket to the venue, a
listener subscribes to a symbol over it and publishes snapshots of the book to consumers, and a web
server shows what the program's entities are doing. This directory holds TLA+ modules translated
from the C++ source, TLC configurations that check them on small instances, and TLAPS proofs of
what matters most for every value of the constants. `PROJECT.json` lists the components, the runs,
the mutants each property is shown to detect, the source lines behind each definition, the findings,
the hazards and the theorems.

To repeat the work: `tlasany M.tla` parses a module, `tlc -config X.cfg M` makes a run and
`tlapm M.tla` checks the proofs of a module.

## 1. The system

### Components, their state and their operations

| Component | State | Operations |
|---|---|---|
| `order_book` | two ladders of price levels (a depth and a list of orders each), a cache of iterators per side, two aggregates | `add`, `remove`, `execute`, `reset`, `operator=`, `operator==` |
| `tick_history` | ticks of one generation by sequence number, watermarks of outstanding snapshots | `add_tick`, `add_watermark`, `remove_watermark`, `reset` |
| `orderbook_snapshot_service` | the service's own book, a history, the generation, a stack of free snapshots | `process_tick`, `allocate_snapshot`, `deallocate_snapshot` |
| `connector` | `stopped_`, `connstate_`, `send_queue_`, the coroutines `run`, `send_loop`, `receive_loop`, the slot that interrupts them | `send`, `interrupt`, `stop`, `watch_connection_state`, `watch_messages` |
| `orderbook_listener` | the condition of the connection and of the book, the snapshot last published, its slots | `run`, `on_connection_state`, `on_command_response`, `on_tick`, `update`, `subscribe` |
| `http_server`, apps | acceptors, sessions with a timer, `again`; the apps and their patterns | `serve`, `session`, `shutdown`, `add_app` |
| entity layer | entities with `estate_`, their handles, a registry of weak pointers under a mutex | `entity_handle` construction, move and destruction, `start`, `stop`, `notify_create`, `notify_destroy`, `enumerate` |
| `entity_key` | maps shared between copies, a digest once locked; the cache of `entity_service::require` | `set`, `merge`, `lock`, comparison, `require` |
| `async_semaphore` | a count, a list of waiting operations | `async_acquire`, `try_acquire`, `release`, cancellation, destruction |
| `data_log`, `tick_logger` | a bounded channel, a writer coroutine, a file; the logger's slots | `send`, `stop`, `run`; `start`, destruction |
| message slots (`signal_map_`, `event_listener`, `cross_executor_connection`) | slots by type of message, connections owned by the users | `watch_messages`, `handle_message`, `disconnect` |
| `main` | the parts it makes, the keys | `check`, `monitor_keys` |
| utilities | a thread's pool of strings; cells of a table | `truncate`, moves and destruction of its views; `table::set`, printing |
| market keys | | `spot_key`, `to_string`, `native_symbol` |
| the rest | `fix_connector` (a stub), `trading` (unfinished), parsing, `connect_ssl`, logging | |

### How they interact

`main` runs one `io_context` on one thread and makes everything on its executor; a listener may be
given another (`orderbook_listener_impl.hpp:37`). The venue's messages reach the connector's
`receive_loop`, which emits a signal per message type. The listener's slots run there: a connection
state is *posted* to the listener's executor, a response or a tick is *dispatched*, which on a
shared executor means run inline. `on_tick` hands the tick to the snapshot service, which applies it
to its book, brings a recycled snapshot up to date by replaying the ticks it missed (or copies the
book into it) and returns it as a shared pointer; the deleter brings it back to the free stack, on
the listener's executor, when the last consumer lets go of it. Requests go the other way:
`connector::send` dispatches to the connector's executor, which queues the message and wakes
`send_loop`. The web server answers from the registry of the entities: an entity leaves it on
whatever thread lets go of the entity last. The end of the program is a chain of references: `check`'s
frame holds the server, the connector, the logger and the listener, the last three hold the connector,
a posted notice holds the listener, and `~connector` stops the connector.

### What is hard here

- *Suspension points.* Everything that looks sequential is a coroutine: `stop`, `interrupt` and
  `send` come at any `co_await` of `run`; a condition variable made of a timer forgets a `cancel`
  that finds no waiter; a loop that is cancelled throws at its next await and skips what follows.
- *Failure.* A link breaks, a write fails after it has gone out, or the peer is silent for ever;
  what is queued is carried over to the next connection, subscriptions included.
- *Staleness.* A state read before six awaits is handled after them; iterators kept in a cache
  refer to nodes that an assignment replaced; a recycled snapshot belongs to an older generation.
- *Bookkeeping.* A book reaches a state no single call makes: levels without orders, aggregates that
  drift, watermarks that are lost or never removed, a history trimmed too far.
- *Sharing.* Copies of a key share a map, views of texts share a thread's pool of strings, a slot
  outlives its owner until a job has disconnected it, an entity is locked by an enumeration while its
  handle is dropped elsewhere.
- *Shutdown.* A server with several acceptors and detached sessions is shut down at any await, and the
  program ends only if every coroutine is told to.

`PROJECT.json` lists each hazard at the line where it bites, with the properties that watch it.

## 2. The modules

`OrderBookOps` → `Venue` → `OrderBook` → `MCOrderBook`; `OrderBookOps` → `TickHistory`, and with
`Venue` → `SnapshotService`, which refines `SnapshotFeed`; `Connector` refines `Uplink`, which
`Listener` extends; `HttpServer` → `MCHttpServer`. `DataLog`, `Semaphore`, `TextPool`, `MarketKeys`,
`Table`, `EntityKey`, `Entities`, `Messages` and `Program` each stand alone and share a run through
`MCParts`. Each `*Proofs` module extends the one it is named after; `EntityProofs` is about both
`Entities` and `EntityKey`, `PartsProofs` about `DataLog`, `Messages`, `Semaphore`, `TextPool`, `Table`
and `MarketKeys`.

### OrderBookOps, Venue, OrderBook

`OrderBookOps` is `order_book` as a value. An order's key is `<<side, id>>`. The record's `level`
are the ladders with `aggregate_depth`, `order` the nodes of the level's lists, `cache` the iterator
caches (an entry is `live`, or `stale` when an assignment replaced what it points at), `agg` the two
aggregates; `fault` records undefined behaviour, after which nothing is claimed. `Add`, `Remove`,
`Execute`, `Load` (a snapshot: `reset`, then `add` of each order) and `Assign` are `add`, `remove`,
`execute`, the snapshot alternative of `replay_tick` and `operator=`. `Execute` does what the code
does: `iqty->qty -= tick.qty == 0` subtracts a truth value and then tests the order's quantity, so
an execution removes the order, leaves the depth of a level that stays, and charges `aggregate_bids_`
on both sides. The price used to erase an empty level is read through a cache entry just erased:
`PoisonFreed` says whether the build overwrites freed memory (the book faults) or leaves it (the
right level goes). The runs take the
latter, the theorems hold for both. `Load` is in closed form, and `LoadIsFoldOfAdds` checks it against the fold.

`Venue` is external: the exchange, as the recorded session in the tests shows it. Keys are unique,
an order filled whole is announced as deleted and then as executed, a partial fill as executed only,
a subscription is answered by a snapshot of the live orders. `OrderBook` composes the two: each step
is one tick, at the venue and in the book.

Left out: time stamps, the order within a level's list, printing, parsing.

### TickHistory, SnapshotService, SnapshotFeed

`TickHistory` has the four operations. The watermarks are a set although the code has a multiset:
`multiset::erase` by value takes every equal element, so the number of equal ones changes nothing.
`SnapshotService` is the service with the listener's `on_tick` and the consumers. `OnTick` is the
whole handler: the tick goes to the book and the history, a snapshot is allocated, replayed or
assigned to, marked and published, and the listener's previous snapshot is let go. `Take` and `Drop`
are consumers copying and dropping the listener's pointer, `Release` the last consumer of an earlier
snapshot, `Snapshot` the venue's answer to a subscription (it starts a generation), `Lose` and `Miss`
a lost connection and trading nobody hears of. `SnapshotFeed` is the promise to consumers: the current snapshot
is a copy of the feed's book, made when a tick changes it, and a snapshot somebody holds does not
change. `SnapshotFirst` says whether the venue's snapshot precedes its other ticks, which the tests
of the service do not do and the real venue does.

### Uplink, Connector

`Uplink` is what a user of the connector sees: up or down, and a first-in first-out queue which only
its head leaves. `Connector` has one action per stretch of code between two suspensions: `Begin`,
`Connected`, `ConnectFails`, `LoopsEnd` for `run` and `run_connection`; `SendLoop`, `WriteDone`,
`WriteFails` for `send_loop`; `ReadFails`, `ReceiveThrows` for `receive_loop`; the calls `Send`,
`Interrupt` and `Stop`; the network's `Deliver` and `Break`. `cut` is the cancellation that
`interrupt` or `stop` delivers to whatever `run` awaits. A link is open, broken, closed, or *silent*:
dead without anybody noticing, which the code, with no time limit and no keep-alive, cannot tell from
open. `ReceiveThrows` is the loop that was cancelled while it handled a message: it throws at its next
await, leaving `connstate_` up for `run_connection` to set. `Send` runs at once: the dispatch to the
connector's executor of a call from another one is not a separate step, since nothing distinguishes a
later call from a later dispatch. Messages are their numbers in the order of `send`.

### Listener

The book is abstracted to the version of the venue's book that it is a copy of; `OrderBook` and
`SnapshotService` say what becomes of the orders. `jobs` are the handlers waiting for the listener's
executor. With one executor a dispatch is inline and a network event comes after the jobs already
posted (`InOrder`); with two, `run()` connects its slots one at a time (`setup`), messages may fall
in between, and every handler is a job. `OnState`, `OnResponse` and `OnTick` are the three handlers,
`Shown` the condition that `update` publishes. The venue answers each subscription with a response
and then a snapshot, in that order, or rejects it; from the grant on, it sends ticks. A tick that does not follow the book's
version makes no book of the venue's.

### HttpServer

One call of `serve`, with `add_app` before it, as in `main`. `listen[e]` is the coroutine that
accepts on endpoint `e`: each iteration makes a new acceptor, so what had connected to the old one
and was not accepted is reset (`ResetAt`); `serve(first) && serve(next, last)` cancels the others
when one fails (`Cut`). An accept that had completed when the cancellation came still starts a
session (`last`). `conn[c]` is a client's connection and session. A request is the app that first
matches it (`summary`, `detail`, or `none` for 404) and whether it asks to keep the connection. `Timeout` covers
the timer being first and the wait for it after a read that failed. `detail` answers nothing and ends
the session, as `entity_detail_app` does. The resolver cannot be cancelled: a `serve` that resumes
after a shutdown throws.

### DataLog

`data_log` with its two kinds of user. `buffer` and `senders` are the channel: `DoSend` gives a line to
the waiting receiver or the buffer, and when the buffer is full the line waits in `async_send`;
`Receive` takes the head of the buffer and lets the longest-waiting send have its place. `writer`
is `run()` between its suspensions. The end of file is a message like the lines (`Eof`), so that it
comes after what was sent before. `tick_logger` is a user that hears messages through slots while
`watching`; its `Stop` is posted or run inline, and whoever then lets go of the impl last, the
executor or the thread that destroyed it, destroys the `data_log` with it. Any other user sends from
the log's executor (dispatch runs inline) or from one other thread (it is posted), not from both.
A write that fails leaves the lines that remain unwritten: what part of a line it wrote is left out.

### Messages

How the users hear what the connector receives. `slots` is `signal_map_`. A user on the connector's
executor connects and disconnects at once, possibly in another user's slot while a message is being
emitted; a user elsewhere posts the call and awaits it (`asked`, `connected`, `watching`), and its
`cross_executor_connection` posts the disconnection when it is destroyed. `ReadMessage`, `CallSlot`,
`EmissionDone`, `SlotThrows` are `receive_loop` with `handle_message`: the slots connected when the
emission began are called in order, one that was disconnected meanwhile is not, and one that throws
ends the emission and the connection.

### Entities, EntityKey

`Entities` has the handle (`stage`, with the thread that owns it), `start` and `stop` with their
dispatches, the registry, and the page of `entity_summary_app`. `Construct` and `StartEntity` are the
two steps of `entity_handle::construct`; `HandOver` moves a handle to another thread; `Deleted` is the
deleter, on whatever thread let go last, possibly between two steps of an enumeration (`LockWeak`,
`Visit`). A dispatch from the entity's own executor runs at once, another is a job, and a job holds the
entity (`Strong`). `WritePage` waits for nothing, as `outstanding` is always zero: a summary asked of
another executor arrives after the app has returned. From that write to a frame that is gone (`torn`)
on, nothing is claimed. `EntityKey` is `entity_key` with `require`: `impl` are the shared maps, `Own`
is `copy_check`. The digest is one hash that may collide.

### Semaphore

`async_semaphore` with its operations: `op` says where each is, `waiters` is the list, `Give` is
`release`. A handler is posted when the operation completes and runs later (`RunHandler`).
`AcquireFast` is the branch of `async_acquire` that leaves the count as it was. `DestroySemaphore`
completes the list's own node first: it ends in `fault` when an operation waits.

`came` is a history no action reads: the operations that had to wait, in the order in which
`async_acquire` was called. `ServedInOrder` is about that order, not about the list: while an operation
waits, neither one that came after it nor a newcomer comes by a unit.

### Program

`main`'s `check` over the parts reduced to who holds whom: `objects` are the parts that exist, and
`connects`, `logs`, `serves` and `sessions` the coroutines that keep the `io_context` running.
`FrameEnds` is the end of `check`, which lets the parts go in the reverse of their order; `Noticed` may
be what lets go of the listener, and so of the connector, last.

### TextPool, Table, MarketKeys

`TextPool` is `truncate`: objects that hold a string of a thread's pool, moved, assigned and destroyed in
any order. An object that another was made or assigned from counts as destroyed; it has no string, and
nobody asks for its text. The pool's own destructor, at the end of the thread, is left out.

`handle::operator=` links the string it has before it takes the other's, whichever that is: an object
assigned to itself (`AssignView(v, v)`) has its string in the pool and keeps it. The next text that is
cut takes that string, and the object shows the other's text. If the string is given back while it is
in the pool, `OnTop` is what `link` does with it then (its assertion at `truncate.cpp:53` fails in a
debug build if others are below it): what was below it is lost and the list closes to a ring, which
`unlink` opens, so the list is written with that string at both ends. `kept` is a history no action
reads: the strings such an assignment gave back and kept. `ShowsItsText` is about every object whose
string is not one of them, so it says that the damage goes no further than the string. The program
assigns no object to itself.

`Table` is `util::table` with texts reduced to their lengths, `Pad` in signed integers so that a length
below zero is seen. `MarketKeys` is about the conversions themselves, so its texts are sequences of
characters, typed one at a time: two letters in both cases, and the separators.

## 3. The runs

| Run | States | What it shows |
|---|---|---|
| `order_book` | 11 090 | The book stays internally consistent after any ticks, partial fills included (`Consistent`, `DepthsCover`); every order it holds is live at the venue with that price and quantity; a snapshot heals it, and only a partial fill takes it out of step (`StaysInStep`). |
| `order_book_mirror` | violation | Finding: a partial fill removes the order. |
| `order_book_bid_assert` | violation | Finding: `assert(aggregate_bids_ >= 0)` fails when a bid is cancelled after part of an offer was executed. |
| `snapshot_service` | 1 689 599 | Within a generation and across two, with missed trading and snapshots of the old generation released in the new one: the history holds every tick a recycled snapshot can ask for and none older (`HistoryExact`), the watermarks are exact, and the consumers' view implements `SnapshotFeed`. |
| `snapshot_indexes` | violation | Finding: the copy into a recycled snapshot leaves the old iterators in its caches. |
| `snapshot_generation_zero` | violation | Finding: a fresh snapshot passes for one that has replayed the first tick. |
| `connector` | 1 934 | `send_loop` never sleeps on work and `connstate_` is up only within a connection (`Consistent`); nothing is skipped, repeated or reordered on a link that holds; the connector implements `Uplink`, stops when told, reconnects, ends what is interrupted and drains its queue. |
| `listener` | 183 158 | On the connector's executor the condition shown is the connection's, a book shown as good is the venue's up to what is on the way, and the listener recovers; on one executor or two, a broken link stops a good book from being shown. |
| `listener_state` | violation | Finding: with an executor of its own, a listener may stay stale on a connection that is up. |
| `http_server` | 114 096 | Requests are answered once each and in order, endpoints listen and end together, every connection is served or reset, `shutdown` ends `serve`, and sessions end after their clients. |
| `parts` | 311 900 | Nine modules, one of which moves in each behaviour. `DataLog`: the file holds the first lines given to the log, in order, all of them when it ends without a failed write, and it ends after its user. `Semaphore`: no unit is lost, and while an operation waits none that came later has one. `TextPool`: an object shows its own text, unless its string is one that a self-assignment gave back and kept. `MarketKeys`, `Table`: see the modules. `EntityKey`: one entry per key, with the values and the digest it was entered with. `Entities`: started, then stopped, then deleted; the page lists the web server's entities; dropped entities go. `Messages`: who watches hears every message once and in order, but for the last of a connection; who is gone leaves no slot. `Program`: it ends after *q*. |
| `semaphore_units` | violation | Finding: two operations hold one unit. |

### Bounds

- *Order book:* two order ids on each of two sides, two prices, quantities up to 2: two orders at one
  level and at two levels on one side, a partial fill (it takes a quantity of 2), and a key used
  again after its order is gone. `MaxDepth` stops the drift that `execute` causes in depths and
  aggregates after it has been observed: with 4, a level may be off by two executions. The two
  violation runs need one order.
- *Snapshots:* one id on two sides is two orders. `MaxSeq = 4` ticks in the first generation, three in
  the second, and `MaxHeld = 2` held snapshots, with the current and the free ones, allow a snapshot to
  be overtaken by several ticks while another is recycled below it. Two generations are those a
  released snapshot can tell apart: its own and a later one. This is the longest run, under a minute.
- *Connector:* three messages: one on the wire, one being written, one queued; every number of
  connections, interrupts and losses. `MaxSends` is the only bound.
- *Listener:* two connections, three versions of the book, two queued notices: a subscription left
  over from a first connection is sent on the second, answered, and overtaken by a tick.
- *HTTP:* two endpoints and two clients: a failure beside a live acceptor, two connections to one
  acceptor. Two requests in all: one after another on a connection, or one on each.
- *Data log:* a channel of two and five lines: one being written, two buffered, two waiting, and the
  end of file behind them.
- *Semaphore:* three operations and one unit: one holds it, one waits behind another, and the unit is
  handed over while another comes; or two wait, in the order they came.
- *Texts:* two objects and three texts, a limit below the ellipsis and one above: a string given back
  by one object and taken by the other. Three strings at most: two are enough unless an assignment
  to itself loses one. *Tables:* two rows apart and three columns, one of them missing, in each
  row or in both. *Names:* texts of up to four of the eight characters.
- *Keys:* two variables and an entry that shares its map with one of them; two values. *Entities:*
  two, on two executors, and two requests for the page: one that overlaps the other's late summaries.
- *Messages:* two users of one type or of two, on either executor, and two messages: one before and one
  after a slot comes, goes or throws. *Program:* two sessions.

Parts that do not move in a behaviour of `parts` stay as they begin, with one initial state each: the
runs of the nine are disjoint, and `PartsSpec` is their sum.

`CHECK_DEADLOCK FALSE` is set where the system may stop: the bounded connections, generations and
messages run out, a stopped connector stays stopped, a server that was shut down with its sessions
over, or a program that has ended, has nothing left to do.

### Fairness

Safety and refinement are checked without depending on it. Liveness assumes:

- *Connector:* the executor runs a coroutine that is ready; an attempt is answered, refused or
  cancelled; reads and writes on a broken or closed socket, and those cancelled, end. Nothing is
  assumed of users, of an open link, or of a read on a silent one: `StopEnds` and `InterruptEnds`
  hold even there.
- *Listener:* the executors run what is ready, the connector writes while up and notices a broken
  link, what is on the wire arrives, and the venue answers a subscription. `Recovers` is stated for
  runs in which the connection stays from some point on and nothing is rejected.
- *HttpServer:* the executor runs what is ready, the resolver answers, the kernel completes an accept,
  the timer expires, and a write to a client that left fails. A write to a client that does not read
  may never end.
- *DataLog* (`LogFair`): the executor runs what is ready, and a write is done or fails.
- *Entities* (`EntitiesFair`): executors run their jobs, a construction and an enumeration go on, and
  the deleter runs on the thread that let go. Nothing is assumed of who holds a handle.
- *Program* (`ProgramFair`): what was cancelled or stopped ends, jobs run, and clients leave; no key is
  ever assumed to be pressed.

All are weak: each of these steps, once possible, stays possible until it or something that replaces
it happens.

## 4. The proofs

The theorems hold for every value of the constants that satisfies the assumptions in the modules. In
each case the invariant of interest is not inductive and is strengthened.

- `OrderBookOpsProofs`, `OrderBookProofs`. Lemmas first: what each operation does to the well-formed
  book, and to the quantity of the orders at a level (`Total`). `IInv` is well-formedness together
  with soundness. Depths that cover their orders cannot be shown alone: `remove` reaches the level
  through the cache, so the cache must index the ladders exactly; and the level it empties must have
  no other order. `BookConsistent`, `BookSound` and `DepthsNeverShort` follow. For `InStepKept`, a book
  whose orders are the venue's and whose depths are `Exact` is followed through `add` and `remove`
  (`OneMore`: what one order more adds to its level and its side); that the execution of an order
  filled whole finds nothing to do needs `Apart`: such an order is live no longer. For
  `SnapshotsAreAdds`, an exact book is shown to be the one `Load` makes of its orders, so that adding
  one order to what was loaded is loading one order more; the fold over the orders follows by induction
  on how many have been added.
- `SnapshotServiceProofs`, under `SnapshotFirst`. `IInv` adds to the history's properties that no two
  snapshots of the generation share a sequence (otherwise removing a watermark by value would take
  another's), that the listener holds the latest one, and that nothing was published before the
  first venue snapshot (generation 0 is the one whose fresh snapshots look recycled). Theorems:
  `HistoryKept`, `WatermarksCorrect`, and `FeedImplemented`, the refinement of `SnapshotFeed`. For the
  latter `FeedInv` adds `Faithful`: replaying from any snapshot's sequence to the last tick of the history
  makes of it a book that compares equal to the service's. It needs that operations on books that compare equal (`Visible`) give books that do, since
  a copied book's caches differ (the finding of `snapshot_indexes`), and that a name, a generation with
  a sequence, is never used twice. Without the assumption the finding of `snapshot_generation_zero`
  applies.
- `ConnectorProofs`. `Inv` ties the loops to the connection. `Chained` splits `NothingSkipped` into
  its sequences: the queue ends with the last message sent, the wire ends where the queue begins and
  what was delivered ends where the wire begins, so that each action moves one boundary. Theorems:
  `AlwaysConsistent`, `VenueGetsAll`, `NothingLost`, and `UplinkImplemented`, the refinement, step by
  step.
- `ListenerProofs`. `Informed` says that on one executor at most one notice waits and that it carries
  the connection's present state; when none waits the listener has recorded that state. It holds
  because a notice is posted and run before the next network event. `Carried` follows the book: until
  a connection's first snapshot it is not good, and from then on what is on the way follows it; before
  that snapshot is received, what is on the way follows whatever comes with the snapshot, which is why
  the invariant also speaks of version 0. Nothing is asked for before `run()` has begun, or a message
  could be lost for want of a slot. Theorems: `Typed`, `ConditionCurrent`, `GoodBookIsVenues`.
- `HttpServerProofs`. `Together` says that all endpoints accept or none does; `Progress` says for each
  stage of a session how many requests have been read and answered. Theorems: `Typed`,
  `EndpointsTogether`, `RequestsAnsweredInOrder`.
- `PartsProofs`, the parts that stand alone.
  - *DataLog:* the file, the line being written, the buffer, the waiting sends and the posted jobs
    are one row of numbers from 1 to the last line, with the end of file and the user's stop behind
    them; each action moves one boundary of the row. A full channel keeps it because the longest-waiting
    send takes the place that the receiver frees. Theorems: `FileHoldsPrefix`, `LogEndsComplete`.
  - *Messages:* a user has at most one call posted, and a slot, of its type and one only, from its
    connection until its disconnection has run (`CallsRight`, `SlotsRight`); the slots an emission has
    yet to call belong to users that have not heard the message (`HeardRight`), and a message due to a
    user has been heard, or the user is still to be called, or it was the last of its connection
    (`DueRight`). Theorems: `WatchersHear`, `SlotsAreFreed`.
  - *Semaphore:* the list has exactly the operations that wait, each once (`WaitersRight`), so a
    cancellation removes its own entry only. Counting needs finite sets of operations, which they are
    however many there may be, since only so many have begun. Theorem: `UnitsAreKept`. `QueueInv` ties
    the list to the history: it is in the order of `came`, through any cancellation in its middle, and
    the count is zero while it is not empty, so that the first of the list came before all others and a
    newcomer finds no unit. Theorem: the action property `FirstIsServed`.
  - *TextPool:* a string that was not kept by a self-assignment is in the pool once or with one object
    (`StringsRight`), so cutting a text overwrites nobody's; `ShownRight` says what each object's string
    holds. A string linked a second time is one of the kept ones, so the ring has no other twice
    (`LinkKeeps`). Theorem: `TextsAreShown`.
  - *Table:* a set of numbers below a bound has a largest one, so each width exists and no text is
    longer than its column's. Theorem: `TablesAlign`.
  - *MarketKeys:* `Reads` describes a text by the lower-case parts that are read from it; both what is
    printed and what is sent satisfy it for the parts they were made of. Theorem: `MarketsAreNamed`,
    for texts of any length; the bound in the run is only the run's.
- `EntityProofs`. `Queued` says which jobs are somewhere in the executors' queues, once each, given an
  entity's stage and the handlers that have run: a start is ahead of the stop and of a hand-over to the
  entity's own executor. `Staged` says which handlers have run at each stage, `Listed` what the page
  has still to look at. An entity can then be deleted only with both handlers behind it, because the
  jobs that remain hold it. Theorems: `AlwaysStartedThenStopped`, `AlwaysPageListsOwn`. For the keys,
  `KInv` says that the numbered maps are exactly those in use, so that a new one is nobody's (a
  counting argument, since the number is the first that is free): `AlwaysOneEntryPerKey`.

Model-checked only: all liveness (`StopEnds`, `Reconnects`, `InterruptEnds`, `QueueDrains`,
`LossIsShown`, `Recovers`, `NobodyWaits`, `ShutdownEnds`, `LeaversEnd`, `LogEnds`, `EntitiesEnd`,
`QuitEnds`), which the prover does not treat under fairness. Every other property of the passing runs
has a theorem. Three of them need an induction over data: over the ticks replayed, the orders loaded
and the members of a set of numbers. The library's induction rules take an operator the prover
cannot supply; here they are replaced by the fact that `<` on the naturals is well founded
(`NatLessThanWellFounded`), which gives every non-empty set of naturals a least member and needs no
operator. That a recursive function (`Replay`, the iteration inside `FoldSet`) exists is then shown by
giving a function that satisfies its equation.

## 5. Findings

1. `order_book.cpp:153` (and 169): a partial execution removes the whole order, so the book no longer
   represents the venue's until the next snapshot.
2. `order_book.cpp:176`: an executed offer is charged to the bids. Place a bid of 1 and an offer, and
   execute part of the offer: `aggregate_bids_` goes from 1 to 0. Cancel the bid: it is -1, and the
   assertion of `remove` at line 109 fails.
3. `order_book.hpp:108`: `operator=` neither clears nor overwrites the target's caches; iterators
   into the replaced ladders stay.
4. `orderbook_snapshot_service.cpp:70`: generation 0, sequence 0 of a fresh snapshot is mistaken for
   the first tick's when no venue snapshot came first, and the tick is not in the published book.
5. `orderbook_listener_impl.cpp:155`: the state read at the first await of `run()` is handled after
   the last and overwrites what was posted meanwhile, on an executor of the listener's own.
6. `basic_async_semaphore.hpp:43`: `async_acquire` completes at once when the count is above zero and
   leaves the count as it is, so that any number of operations hold one unit, and each adds one when it
   releases.

Further disagreements with the source are recorded as hazards. With two executors a snapshot can also
be missed while later ticks set the book good. A session that ends after a shutdown runs its epilog on
a server that no longer exists (`http_server.cpp:152`). The page does not wait for entities of other
executors, whose summaries are then written to a frame that is gone (`entity_summary_app.cpp:97`). An
object that shows a cut text and is assigned to itself gives its string back and keeps it
(`truncate.cpp:37`), though nothing in the program does that. The semaphore's destructor completes its
list's own node (`async_semaphore_base.hpp:31`), and `entity_key::lock` asserts what it is about to
make true (`entity_key.cpp:59`).

## 6. Not modelled

- *`trading/aggregate_book*`, `trading/entity*`*: unfinished; declarations, and an `enumerate` that
  nothing calls.
- *JSON parsing and printing of ticks*: their result is the ticks of `OrderBookOps`.
- *`connect_ssl`*, sockets, TLS, DNS: pure I/O, taken as an attempt or a read that ends or does not.
- *`fix_connector_impl`*: a stub whose handlers do nothing; it is an entity of `Entities` and a caller of
  `EntityKey`. `entity_service::locate` and `entity_interface_service` are read by nothing.
- *Logging, `monitor`, `json_truncate_op`, the assertions about threads*: no state the properties
  depend on.
- *Two requests for the page at a time, an entity with two handles*: nothing in the program has them.
- *Builds with assertions* of `entity_key::lock`, and a `require` that constructs an entity under its
  mutex: nothing calls them, and the first call would stop or block the program.

## 7. Plan

Done: the order book, the snapshot service over it, the connector, the listener over the connector,
the web server, the data log, the semaphore, keys, entities and their page, the messages' slots, the
end of the program, and the utilities with state; a theorem for every safety property, action property
and refinement the passing runs check.

Next:

1. `Program`: what its liveness rests on as a safety invariant (which coroutine is told to end by whom),
   checked and proved.
2. An abstract specification of the semaphore, a queue of operations and a bag of units, which the code
   would implement but for the finding of `semaphore_units`.
3. `Entities` with requests that overlap and the web server's sessions as their source, when the page
   waits for the entities it asks.
4. `trading/aggregate_book`, when it is written.
