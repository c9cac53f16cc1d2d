# TLA+ models of qorme-py

qorme is a Python SDK that runs inside an application: it observes the queries an
ORM sends, ships rows about them to a server, and applies the server's
predictions to later queries. Everything it does happens on the application's
threads, on one background thread per ingest queue, and on one event loop thread.
This directory models the parts of it where those threads meet, and the parts
where a long sequence of legal calls decides what a row says.

All source paths are relative to the repository. `PROJECT.json` gives, for every
definition, the lines it models.

## The system

| Component | State it keeps | Operations | Modelled in |
|---|---|---|---|
| Ingest queue `ingest/queue.py` | two bounded queues, a lock, a condition, `_running`, `_thread`, `_stop_event` | `enqueue`, `enqueue_after`, `close`; worker: `_loop`, `_flush_pqueue`, `_flush`, `Flusher.flush` | `IngestQueue`, `Delivery` |
| Ingest domain `ingest/ingest.py` | the lazily created queue | event handlers, `disable` | `Events` |
| ML store `ml/store.py` | `_state`, `_sse_task`, `_last_event_id`, models per category | `connected`, `close`, stream callbacks, `update_models` | `MLStore`, `CategoryModels` |
| HTTP client `client/client.py` | lazily built httpx client; per stream: retry count | `get`, `post`, `sse`, `close` | `HttpClient`, `MLStore` |
| Authentication `client/auth.py` | token and its expiry, a lock | `async_auth_flow` | `HttpClient` |
| Async worker `utils/async_worker.py` | event loop, thread, `_running` | `submit`, `close`, restart | `AsyncWorker` |
| Dependency container `deps.py` | lazily created resources | `close` in a fixed order | `HttpClient` (in part) |
| Tracking manager `manager.py` | the installed singleton | `install`, `uninstall` | `TrackingManager` |
| Domains, wrapper `domain.py`, `utils/wrapper.py` | enabled flag, wrapped members | `enable`, `disable`, `wrap`, `unwrap`, `clear` | `TrackingManager` |
| Event registry `events.py` | handlers per event | `register`, `unregister`, `fire` | `Events` |
| Context and ORM tracking, Celery `context/`, `orm/`, `contrib/celery` | context variables | enter and exit, signals | `Tracking` |
| Database tracking, result hash `db/` | per cursor: the uid of the last query, row factory | `execute`, fetches, enabling of hashes | `Cursor` |
| BitSet, LRU cache, traceback `utils/*.pyx` and the `.c` made of them | bits; an ordered dict; two shared caches | `set`, `clear`, `has`, `list`; `get`, `set`; `get_stack` | `BitSet`, `LRUCache`, `Traceback` |
| Django columns and queries `qorme_django/domains/` | models tracked, wrapped descriptors, three bit sets per query | tracking of a model, reads, report | `Columns` |
| Configuration, encoding, database integrations, ML domain, optimizers, requests, relations | see *Not modelled* | | |

### How they interact

Instrumented code fires events; handlers of the ingest domain turn them into
rows and call `enqueue`. The queue starts its worker on demand. The worker moves
due rows from the priority queue to the queue, takes a batch, encodes it and calls
`post`, which submits a coroutine to the event loop and does not wait for it. In
the other direction optimizers ask `MLStore.connected`; the first one starts an
event stream in the event loop, whose callbacks change the store's state and its
models while application threads read them. At the end `uninstall` stops the
domains, the queue is closed with its domain, and the container closes store,
client and event loop.

### What is hard, and what correct means

* **Ingest queue.** Callers, a worker that comes and goes, and `close` share an
  Event, a lock that is held over `_running.wait()` and `join()`, a condition with
  a timeout, and two queues with limits. Correct: one worker at a time; a stop
  meant for one worker never reaches the next; no lost wakeup; order within the
  queue is kept; an accepted row is neither lost nor sent twice, whatever happens
  between queue, priority queue and batch; `close` stops the worker; every call
  returns; what was accepted is sent at last.
* **ML store.** A lock-free claim of the right to connect, two threads that assign
  `_state`, a cancellation that arrives later. Correct: one stream; `connected`
  means that a stream is open; the dead state is final; a broken stream is repaired
  or declared dead; every event applied once and in order; the merged model equals
  what the server means, whatever it repeats.
* **Event loop, client and shutdown.** Restart of a loop that is stopping,
  submissions to it, cancellation, a token lock shared by requests. Correct: one
  loop thread; whoever finds the worker running finds an open loop; every request
  settles; one refresh serves all; `close` returns.
* **Manager, domains, wrapper, events.** Failures half way, disabling in another
  order than enabling, several threads, events that fire meanwhile. Correct: a
  domain is enabled wholly or not at all; after `uninstall` every member is the
  original one; no event reaches a disabled domain; no queue outlives its domain.
* **Tracking and cursors.** Interleaved contexts, generators that end late,
  statements outside any context, hashing switched in the middle of a result.
  Correct: every row, hash and template is attributed to the query that produced it,
  and exits restore what the matching enter found.
* **Bit sets, caches, columns.** Limits of the BitSet (64 positions) and of the
  caches; one list of columns that several threads fill. Correct: a column that was
  read is not reported as unused; a report can be decoded; caches stay bounded and
  evict the least recent.

## Modules

| Module | Models | Kind |
|---|---|---|
| `Delivery` | what the ingest queue promises | abstract specification |
| `IngestQueue` | `Queue` and the hand-over in `Flusher.flush` | specification |
| `MLStore` | connection state of `MLStore` and `Client._sse` | specification |
| `CategoryModels` | `CategoryModels.update_models` | specification |
| `AsyncWorker` | the event loop thread | component of `HttpClient` |
| `HttpClient` | requests, tokens and `Deps.close`; extends `AsyncWorker` | specification |
| `TrackingManager` | install and uninstall, domains, wrappers | component of `Events` |
| `Events` | the registry and the ingest domain; extends `TrackingManager` | specification |
| `Tracking` | contexts, ORM queries, Celery tasks, renders | specification |
| `Cursor` | a cursor and the hashing of its rows | specification |
| `BitSet`, `LRUCache` | the two data structures, as operators | operators |
| `Columns` | columns of Django models; uses `BitSet` | specification |
| `Traceback` | `get_stack` and its caches; uses `LRUCache` | specification |
| `MC*` | instances for TLC: values and symmetry | model checking |
| `IngestQueueProofs` | `IngestQueue`, and that it implements `Delivery` | theorems |
| `MLStoreProofs` | `MLStore` and `CategoryModels` | theorems |
| `HttpClientProofs` | `HttpClient` with `AsyncWorker` | theorems |
| `EventsProofs` | `Events` with `TrackingManager` | theorems |
| `TrackingProofs`, `CursorProofs`, `TracebackProofs` | the module of that name | theorems |
| `ColumnsProofs` | `Columns` and `BitSet` | theorems |

Operators called *variant for a mutation* are not part of a specification. Each is a
plausible mistake in the operator after it; `PROJECT.json` pairs it with the
property that finds it.

### IngestQueue

`pc[t]` is where an application thread is in `enqueue`, `enqueue_after` or `close`,
`wpc[w]` where a worker thread is in `_loop`. A step is one access to shared state:
one operation of a `queue.Queue`, of the lock, of an Event, or one read of
`_stop_event`, which `_should_stop` reads twice (`ReadStopEvent`, `ReadStopFlag`).
`_should_stop` is used in three places; `site[w]` says which one, and `Answer` goes on
from there. `running`, `stopEvent` and `thread` are the attributes; `stopEvent` is
`"none"`, `"clear"` or `"set"`.

* `_ensure_running`: `EnsureRunning` (test without the lock), `AcquireLock`,
  `AlreadyRunning` or `StartWorker` or `StartFails` (`Thread.start` raises), then
  `WaitRunning`/`WorkerStarted`. `Event.wait` tests the flag once and then sleeps until
  the next `set`, so a flag that was set and cleared before is missed.
* `close`: `BeginClose`, `AlreadyStopped` or `SignalStop`, `WakeWorker`, `Join`, `EndClose`.
* worker: `SetRunning`; the `while` and its two flushes; `ClearRunning`.
* `_flush_pqueue`: an entry is *taken* (`PqGet`) before its timestamp is looked at, and
  then moved (`PqMove`), put back (`PqPutBack`) or, when the place is taken, dropped with
  an exception (`PqOverflow`). `hand[w]` is the entry in between. An exception inside
  `_flush` is caught by `_loop`; one at the head of the loop ends the worker (`Raise`).
* `_flush` and `Flusher.flush`: `Drain`, `DrainDone`, `Send`, `SendFails`.
* `CondHeld`: between the predicate and the sleep the worker holds the condition, and
  `notify` needs it.

Rows are model values; encoding and compression are abstracted to success or failure.
`post` returns at once and its outcome is not used by the queue, so `posted` is what was
handed to the client. `time.time()` is `clock`; `queue.PriorityQueue` is a set of items
with `due`, and entries of equal time may come out in any order (the code breaks the tie
with the data).

### Delivery

A row is offered once. It joins the line, or waits for its time first, or is refused;
the line is handed over from its head, at most `BatchMaxSize` rows at a time before a
close; a row may be lost only as part of a batch that cannot be encoded, or by an
exception between `_pqueue` and `_queue`. `IngestQueue` implements it with

| `Delivery` | in `IngestQueue` |
|---|---|
| `offered` | `fresh` |
| `delayed`, `dueAt`, `time` | `pqueue` and the entry in a worker's hand; `due`; `clock` |
| `line` | the batch in flight, then `queue` |
| `out`, `dropped` | `posted`, `lost` |
| `closing` | `signalled`: some close has set a stop event |

so that taking a batch, moving an entry through the worker's hands, and everything about
threads are stuttering steps, and a batch leaves the line when it is handed over.

### MLStore

`state` says which dict `_state` refers to: the store's own or one of the three shared
ones. `claimed` is the set of dicts that hold a `"connecting"` key; that the shared dicts
can get one is what `_mark_connecting` gets wrong. `connected` reads `_state` in
`CallConnected`, in `CheckState` and in `Claim`; `Submit` and `StoreTask` are the two
halves of `_sse_task = client.sse(...)`. A task is a run of `_sse`: `tpc`, `retries`
(`num_retries`), `pos` (what the server sent last on its connection). `StreamEnds` covers
a clean end, a transport error and an event that raises; `Unwind` is the way out of the
`async with`, then `Retry` or `Exit`. `Cancel` raises `CancelledError` wherever the task
awaits; a task cancelled before its first step never reaches its `finally`. `applied` is
history.

The server is external: events are numbered, and a connection continues after the id in
`Last-Event-ID`. The httpx retry transport below a connection attempt is left out; an
attempt succeeds or fails.

### CategoryModels

One model, since models of a category do not influence each other. `changes[n][h]` is what
update `n` says of sample `h`: nothing, stable, unstable, or a repetition of an earlier
change; `confs[n]` its configuration. TLC starts from every such history. `handed[s]` is the
update that stream `s` has handed over last. `Deliver` is one `update_models`; `Resume` lets a
stream repeat updates. A sample is its timestamp and its `stable` flag; `target` never
influences the merge. Its specification is `ModelsSpec`, so that one module can extend this
one and `MLStore`.

### AsyncWorker and HttpClient

`AsyncWorker` has application threads, which `submit`, one closer, which calls `close`
once, and loop threads. `pc[t]` is where an actor is: `EnsureRunning` (first look at
`is_running`), `AcquireLock`, `AlreadyRunning` or `StartLoop` or `StartFails`, `LoopIsReady`
(`_running.wait`), then the `loop` property in two reads (`AssertLoop`, `ReturnLoop`) and
`Schedule`, `run_coroutine_threadsafe`. A loop is created by its thread, so `lpc[l]` is where
`_run` is: `LoopBegins`, `SetRunning`, the loop itself, `ClearRunning`, `CancelAllTasks`,
`Drained`, `LoopCloses`, `ForgetLoop`. asyncio is external: `inbox` holds scheduled
callbacks, `RunCallback` runs the next one, a task steps while its loop runs, and a
cancelled task ends at its next step. `startup_timeout` and `shutdown_timeout` are taken
not to elapse.

`HttpClient` adds what a task does: `StartRequest` (the lazily made httpx client),
`TakeToken`, `Refreshed`, `RequestFails`, `Answered`, `Cancelled` and `WrongLoop` (an
`asyncio.Lock` belongs to one loop), and `Deps.close`: `CloseClient`, `AwaitAClose`,
`UnsetClient`, then the worker's `close`.

### TrackingManager and Events

`call[t]` is where a thread is in `install` or `uninstall`: with which manager, which domain
of which list, at which member. A member is what its `__dict__` holds: `Absent` when it is
inherited, or the chain of wrappers on it. Wrapping and unwrapping read the `__dict__` in
one step (`WrapLook`, `ClearLook`) and write it in another (`WrapApply`, `ClearRestore`).
`records` is `Wrapper._wrapped` with its `owned` flag. `WrapFails` and `RegisterFails` roll
back as `enable` does.

`Events` adds application threads that fire: `FireBegin` remembers the number of handlers,
as the iterator over their set does, `FireNext` takes the next handler of the live set,
`FireRaises` is the `RuntimeError` of a set that changed; and the ingest handler, which
looks at `_queue`, creates a queue when there was none (`CreateQueue`), reads the attribute
again (`ReadQueue`) and enqueues. `CloseQueue` and `UnsetQueue` are `disable` of the ingest domain.

### Tracking

A strand is a thread or a task with its own context variables; `StartStrand` copies those
of another. `blocks[t]` is the strand's program, a stack: `with` statements (`EnterWith`,
`ExitWith`), Celery tasks (`PreRun`, which skips ignored ones, and `PostRun`, which ends the
current context if it is that of its task), renders of templates (`BeginRender`, `MarkRender`, `EndRender`,
`EndNested`, `RenderRaises`). `contexts[c].old` and `queries[q].old` are the values in the
tokens. A query ends when its generator does: `FinishQuery` in any order,
`FinishElsewhere` in another strand, where the token is refused.

### Cursor

`factory` counts the hashers around the application's row factory; `seen[d]` the rows that
the hasher at depth `d` has taken. A fetch takes some, no or all rows (`FetchSome`,
`FetchNone`, `FetchAll`, `FetchRaises`); the end of a fetch is a step of its own
(`FetchDone`), for `execute` ends a pending fetch before it runs its statement
(`BeginExecute`, `Execute`). `Switch` enables or disables the domain at any point between
two calls. A row is its statement and its number, so a hash is the set of its rows.

### BitSet and Columns

A value of a bit set is the set of the positions of its ones, so that `|` and `& ~` are
union and difference; `BitSetInt` is the integer. `1ULL << pos` with `pos` of the width or
more is undefined: `Shift` returns the set of the values that processors make of it, and so
`BitSetSet`, `BitSetClear` and `BitSetHas` return sets too. `BitSetList` takes out the lowest
bit again and again, as the code does with `__builtin_ctzll`. `SetAll`, what a loop that sets
one column after the other may end with, is written without the loop: a value made of one
outcome of `Shift` per column.

In `Columns` a thread claims a model (`Claim`: `add` to `_models`), resets its list
(`Reset`), and lists and wraps its columns one by one (`ListColumn`, `WrapColumn`,
`TrackRaises` for an unknown descriptor). A query that begins meanwhile does not wait.
`StartQuery` makes the rows, `Load` sets what is loaded, `Require` keys and the column of a
join, `ReadFresh` and `ReadAttached` are reads of the application before and after an
instance is attached to its query (`Attach`), `Report` ends the query. `Reinstall` makes new
lists while descriptors stay wrapped.

### LRUCache and Traceback

A cache is the sequence of its items, oldest first, as a Python dict keeps them. `Touch` is a
hit of `get`, `Put` is `set`, whose full cache loses its first item even when the key is
already there. `Traceback` walks the frames of a call (`BeginStack`, `GetBack`); a look-up and
the insertion after a miss are separate steps (`EntryHit`, `EntryMiss`, `FileHit`, `FileMiss`,
`SetFile`, `SetEntry`), between which Python code runs and threads may change.

## Runs

Every other run passes; the two findings are runs that must fail.

| Run | Instance | Shows |
|---|---|---|
| `queue_safety` | 2 callers, 2 workers, 2 items, queues of 2 and 1 places, `batch_min_size` 2, `batch_max_size` 1, delays 0 and 1, failing starts, encodings and joins that time out; 658 000 states | `SingleWorker`, `StopIsOwned`, `NoLostWakeup`, `OrderPreserved`, `Accounted`; `ImplementsDelivery`: every step is one of `Delivery` |
| `queue_liveness` | as above, 1 worker identity, `_pqueue` with room for all, no faults; 202 000 states | `CallReturns`, `CloseEndsRun`, `CloseStopsWorker`, `EventuallySettled` (rows are sent although `batch_min_size` is never reached again) |
| `queue_close_flush` | 1 caller, 2 items | **finding**: `CloseFlushes` fails |
| `ml_stream` | 1 caller, 2 tasks, `max_retries` 3, 3 events, failing submission, transport and events | `ResumesWhereItLeft`, `ConnectedMeansOpen`, `RepairedOrDead`, `CloseIsFinal`, `DeadOnlyLeftUnwinding` |
| `ml_double_start` | 2 callers | **finding**: `SingleStream` fails |
| `models_replay` | 3 updates, 2 samples, 2 configurations, every history of them, a stream that repeats | `MatchesServer` (once caught up, the merge is what the server means), `NeverOlder` |
| `shutdown` | 2 posting threads and a closer, 2 loops, 2 requests and `aclose`, 2 clients, 1 expiry; 88 000 states | `SingleLoop`, `RunningMeansLoop`, `RefreshedOncePerExpiry`, `SubmittedSettles`, `CloseReturns`, `WaitsAreAnswered` (nobody waits under the lock for a thread that will not answer), `OnlyLateAreStranded` (a loop that ends has lost nothing submitted before its stop) |
| `instrumentation` | 2 installing threads, 1 firing, 3 domains, 2 members (one inherited, one shared), 2 managers, 2 queues, failures of every step; 3.7 million states | `EnabledMeansInstalled`, `UninstallRestores`, `QueueEndsWithDomain`, `DisabledStaysQuiet` |
| `tracking` | 2 strands, 2 contexts, 2 queries, a tracked and an ignored task, 3 blocks; 3.3 million states | `CurrentIsInnermost`, `OrmQueriesNest`, `MarkedWhileRendering` |
| `cursor` | 3 statements of up to 2 rows, the domain switched twice; 746 000 states | `OneHashPerStatement`, `HashedUnderItsUid`, `FactoryRestored` |
| `columns` | 2 threads, a model of 2 columns and one that inherits from it with 4, a width of 3, one reinstall; 2.1 million states | `BitSetsAgree`, `ReportsWhatWasRead`, `Decodable`, `LoadedKeysAreRequired` |
| `traceback` | 2 threads, 3 files, 2 entries per stack, caches of 3 and 2; 1.1 million states | `StackIsChain`, `KeepsMostRecent` |

Some invariants are proved and are no properties of a run: each module's `TypeOK` (theorem
`Typed`), `CachesAreBounded` of the caches, `DisconnectedIsMended` of the ML store, whose liveness
`RepairedOrDead` a run does check, and `UnknownCostsOne` of the columns.

### Bounds

* *Queue.* Two callers and two worker identities allow an old and a new worker at once,
  which is what `SingleWorker` forbids, and a close that races a restart. Queues of one
  and two places make full and empty adjacent, so every comparison with a limit is decided
  both ways. `MaxClock` bounds time; delays of 0 and 1 give due and not due. Items bound
  the number of calls, and a run really stops when everything is posted and no worker
  runs, hence `CHECK_DEADLOCK FALSE`, with that reason in the file. `queue_liveness` has one
  worker identity, which may be started again, because symmetry is not used with liveness.
* *ML store.* Two tasks, because a claim starts at most one and one caller cannot get a
  second one before the first has ended; `max_retries` 3 reaches the immediate retry, a
  paused one and exhaustion. Threads stay one in `ml_stream` because with two
  `ml_double_start` already holds.
* *Models.* Three updates are the smallest number where add, remove and a third update that
  makes the model newer meet; two samples let a model lose one and keep one.
* *Shutdown.* Two loops: the one that stops and the one that a late submission starts. Two
  requests compete for one token; two httpx clients are the one closed and the one made
  after it.
* *Instrumentation.* Two managers, because an overlap has two sides; the domains share one
  member and have one each; `MaxInstalls` ends every behaviour.
* *Tracking.* Three blocks reach a context in a render in a context; a second strand starts
  with a copy of the first one's variables.
* *Cursor.* Three statements: one before the switch, one during it and one after.
* *Columns.* A width of 3 with a model of 4 columns puts one column beyond the width, where
  bits are shared; 64 changes nothing but the size of the numbers. `MaxIterating` and
  `MaxEarlyReads` keep one query iterated and one early read at a time. No column of this
  instance has an unknown descriptor: such a column ends a list, so that none would lie beyond the
  width. What one costs is proved (`UnknownIsContained`).
* *Traceback.* Chains longer than the caches, so that every call evicts; two threads for
  two misses of one key.

### Fairness

Queue: weak fairness of each caller within a call, of acquiring the lock (callers come and
go, none is starved when it is continuously free), of each worker, and of time. The threads
are preemptively scheduled, and `wait_for` has a timeout, which is why the worker itself is
fair while asleep. No fairness of *beginning* a call. ML store: weak fairness of callers and
of tasks, except for a task in an open stream, where only the server decides whether
something arrives; strong fairness of `Cancel`, because the event loop throws the
cancellation in at the task's next await and cannot be outrun by a task that awaits
repeatedly. HTTP client: weak fairness of each actor within its call, of the closer, of each
loop thread and of each task, whose request the server answers or a timeout ends. Requests
are finitely many, so weak fairness also gets everybody who waits for a lock his turn. The
other modules state no liveness.

## Proofs

Proved theorems hold for every value of the constants: any number of threads, workers,
tasks, loops, rows, requests, managers, domains, models and columns, every limit, chains of
any length, bit sets of any width, and every choice of calls and faults. They rest on the
assumptions that the modules name (`QueueAssumption`, `StoreAssumption`, `ModelsAssumption`,
`WorkerAssumption`, `ClientAssumption`, `ManagerAssumption`, `EventsAssumption`,
`TrackingAssumption`, `CursorAssumption`, `WidthAssumption`, `ColumnsAssumption`,
`TracebackAssumption`): bounds are naturals, sizes positive ones, and the "nothing" values are
no members of the sets they complete. `ManagerAssumption` adds that there are finitely many
domains, of which `Order` has each at most once; `ColumnsAssumption` that columns are numbers
from one and that a child model has at least the columns of its base.

| Theorem | Says |
|---|---|
| `IngestQueueProofs!Typed` | `Spec => []TypeOK`, with the bound of the main queue |
| `IngestQueueProofs!OneWorker` | `Spec => []SingleWorker` |
| `IngestQueueProofs!StopEventOwned` | `Spec => []StopIsOwned` |
| `IngestQueueProofs!CloseLeavesNoWorker` | if joins do not time out, `Spec => CloseStopsWorker` |
| `IngestQueueProofs!WakeupsArrive` | `Spec => []NoLostWakeup` |
| `IngestQueueProofs!Implements` | `Spec => ImplementsDelivery` |
| `IngestQueueProofs!Accounts` | `Spec => []Accounted` |
| `IngestQueueProofs!RowsInOrder` | `Spec => []OrderPreserved` |
| `MLStoreProofs!Typed` | `Spec => []TypeOK` |
| `MLStoreProofs!ConnectedIsOpen` | `Spec => []ConnectedMeansOpen`, for any number of callers |
| `MLStoreProofs!Mended` | `Spec => []DisconnectedIsMended`, for any number of callers and streams |
| `MLStoreProofs!OneStream` | one caller: `Spec => []SingleStream` |
| `MLStoreProofs!DeadIsLeftUnwinding` | one caller: `Spec => DeadOnlyLeftUnwinding` |
| `MLStoreProofs!Resumes` | one caller: `Spec => []ResumesWhereItLeft` |
| `MLStoreProofs!ModelsOnlyAdvance` | `ModelsSpec => NeverOlder`, for any number of streams |
| `MLStoreProofs!CaughtUp` | one stream: `ModelsSpec => []MatchesServer` |
| `HttpClientProofs!Typed` | `Spec => []TypeOK`; only a client is ever closed, never nothing |
| `HttpClientProofs!OneLoop` | `Spec => []SingleLoop` |
| `HttpClientProofs!RunningHasLoop` | `Spec => []RunningMeansLoop` |
| `HttpClientProofs!OneRefresh` | `Spec => []RefreshedOncePerExpiry` |
| `HttpClientProofs!LockHoldersAreAnswered` | `Spec => []WaitsAreAnswered` |
| `HttpClientProofs!NothingInTimeIsLost` | `Spec => []OnlyLateAreStranded` |
| `EventsProofs!Typed` | `Spec => []TypeOK` |
| `EventsProofs!WhollyInstalled` | `Spec => []EnabledMeansInstalled` |
| `EventsProofs!MembersRestored` | `Spec => []UninstallRestores` |
| `EventsProofs!QueuesEnd` | `Spec => []QueueEndsWithDomain` |
| `EventsProofs!QuietAfterDisable` | `Spec => DisabledStaysQuiet` |
| `TrackingProofs!Typed` | `Spec => []TypeOK` |
| `TrackingProofs!Innermosts` | `Spec => []CurrentIsInnermost` |
| `TrackingProofs!MarksFollowRenders` | `Spec => []MarkedWhileRendering` |
| `TrackingProofs!QueriesNest` | `Spec => []OrmQueriesNest` |
| `CursorProofs!Typed` | `Spec => []TypeOK`, with the bound of the hashers on a cursor |
| `CursorProofs!GivesFactoryBack` | `Spec => []FactoryRestored` |
| `CursorProofs!OneHash` | `Spec => []OneHashPerStatement` |
| `CursorProofs!HashesAttributed` | `Spec => []HashedUnderItsUid` |
| `ColumnsProofs!Typed` | `Spec => []TypeOK`, with the length of a list |
| `ColumnsProofs!ReadsReported` | `Spec => []ReportsWhatWasRead` |
| `ColumnsProofs!UnknownIsContained` | `Spec => []UnknownCostsOne` |
| `ColumnsProofs!ReportsDecodable` | `Spec => []Decodable` |
| `ColumnsProofs!KeysAreRequired` | `Spec => []LoadedKeysAreRequired` |
| `ColumnsProofs!OperationsAgree` | `Spec => []BitSetsAgree` |
| `TracebackProofs!Typed` | `Spec => []TypeOK` |
| `TracebackProofs!Bounded` | `Spec => []CachesAreBounded` |
| `TracebackProofs!StacksAreRight` | `Spec => []StackIsChain` |
| `TracebackProofs!MostRecentKept` | `Spec => []KeepsMostRecent` |

Every invariant that a passing run checks is among them, and every action property.

### The queue

*Types.* `TypeOK` is not inductive: `PqMove` appends `hand[w]`, which must be an item.
`HandOK` says so; `TypeInv` is both.

*Control.* `SingleWorker` says nothing about why a second start is impossible.
`ControlInv` adds: `_lock` is held exactly at the program points between its acquisition
and its release (`LockOK`); `_running` is set exactly while a worker is in its loop
(`RunOK`); a worker that has not reached its loop still has its starter waiting under the
lock (`NewOK`). So a caller that finds `_running` unset under the lock knows that no worker
exists at all. `StopIsOwned` follows from the same lock discipline. `ThreadOK` (without
join timeouts `_thread` is the living worker) gives `CloseLeavesNoWorker`: the action
property uses the invariant before and after `Join`.

*Wakeups.* `NoLostWakeup` speaks of sleeping workers only. `SleepOK` extends the claim back
to the worker that has seen the queue too short and holds the condition, and `CallOK`
separates callers in `close` from callers in `enqueue`. `CondHeld` is what makes
`WakeWorker` harmless: the stop event set before it is read by the worker after the
condition is released, or the worker is asleep and gets notified.

*Refinement.* `DataInv` is what a step of the worker relies on when it acts on what it
read before: that a flush of everything has a close behind it (`FlushOK`), that the time it
compares with has passed (`NowOK`), that the entry it holds is due or all entries have to go
(`TakenOK`), that a row not yet offered is nowhere (`FreshOK`), that a batch is within its
limit unless a close wants everything (`BatchOK`). With it each action is one of `Delivery`
or leaves the mapped variables alone. `BatchBound` and `NoEarlyDelivery` of a queue are
therefore guards of `Delivery` and need no property of their own.

*Accounting.* `AccountInv` writes the partition of `Accounted` out, pair by pair, and adds
what keeps it: the queue holds no item twice, and fresh items are not accepted ones.

*Order.* `OrderPreserved` compares places: two rows that are posted, in flight or queued
stand in the order in which they entered. Given `AccountInv` it is preserved: an entering row
is new and is last on both sides, batch and queue stay concatenated in the order of taking
(`DataInv` says that there is one batch), and leaving out a batch keeps the others' order.

### The ML store

`ConnectedMeansOpen` holds for any number of callers: only the task that opened a stream
sets the state and each way out of the stream changes it first. `DisconnectedIsMended` too: it is
what remains of `RepairedOrDead` without fairness, a stream that will act, and it is inductive
with the types, since a stream leaves the way back only by connecting or by declaring the store
dead, whatever a second stream does meanwhile. The other theorems about the store have the
hypothesis `OneCaller`, which `ml_double_start` shows to be needed. `StreamInv` says that
only the store's own dict is ever claimed, and that no task exists before it is (`ClaimOK`);
what the caller knows between its check and its submission (`CallerOK`); that one task is all
there ever is (`OneTask`); that a running task nobody has cancelled is the one the store, or
the caller about to store it, remembers (`KnownOK`), so that `close` cancels the right one;
and that in the dead state every running task has been cancelled (`DeadOK`). `ResumeInv` adds
that the position of a stream that connects or is open is the id the store remembers.

For the merge, `ModelInv` says that a model was left by the update of its timestamp and that
each of its samples is what some update up to that one says of it; `NeverOlder` follows for
any number of streams. `MatchesServer` has the hypothesis of one stream, which the code needs:
a removal leaves no timestamp behind. Its `CatchUpInv` describes a stream that may have gone
back: the model is in the state of update `Reached`; the samples there are what they are in
the server's state after that update; and a sample of that state that the model lacks will be
taken away by an update that the stream has handed over once before. When the stream has
caught up there is no such update, and the two are equal. The lemmas about `Reference` find
the latest change of a sample with a largest element of a set of numbers (`LeastOf`, from
`WFMin`).

### The event loop and the client

`ControlInv` of `AsyncWorker` has the shape of the queue's, with two differences. The loop
thread clears `_running` long before it has closed its loop, so that `_running` unset does
not mean that no loop thread exists; `StopOK` says that a thread on that way has the closer
in `join`, under the lock, and that nothing can have asked a fresh loop to stop. And
`loop` is read without the lock, twice; `RefOK` says what it reads. `InboxOK`, every
scheduled coroutine is in one inbox and there once, is what makes a task start once.
`AuthInv` for the tokens: the request that refreshes holds the token's lock and finds the
token expired (`HolderOK`), and a token is valid exactly when it was refreshed once more
than it has expired (`CountOK`), from which `RefreshedOncePerExpiry` follows. `StepMoves`
reduces the client's steps to those of the worker, so that the control proofs do not see
requests. `TargetOK` says that `aclose` is only ever submitted for a client: `Client.close`
reads `_httpx_client` before, once, and nobody else submits that coroutine.

`WaitsAreAnswered` is the safety half of `CloseReturns`: `NewOK`, `StopOK` and `LockOK` say why
a waiting starter's loop is not cleared under it and why the thread that `close` joins is the one
it has sent Stop to. `LossInv` gives `OnlyLateAreStranded`: in an inbox only late coroutines stand
behind Stop, and nothing else is left once Stop was taken out (`BehindStop`); a loop stops
because it has taken it out (`StoppedOK`); a scheduled coroutine is in the inbox of its loop
(`QueuedOK`); and the tasks that were there in time are all cancelled when the loop drains, and
gone when it winds up (`TasksOK`). The last part needs `RefOK` for `_close`, which cancels the tasks
of the loop that `_loop` refers to.

### Installing, firing and uninstalling

`ManageInv`: the lock belongs to the thread that installs (`LockOK`); a manager that is
being started or stopped is not the instance, and one thread is at it (`OwnerOK`); without an
overlap one thread works at a time (`SoloOK`); what a thread still has to do is a rest of
`Order`, and the domains in it are disabled when installing and the only ones enabled when
uninstalling (`EnabledOK`). `DisabledStaysQuiet` follows: what would enable Ingest again is an
install of the same manager, and a manager is started once.

`QueueInv`: queues of two managers are different, a manager that has not started Ingest has
none (`FreshOK`), and an open domain whose attribute is unset has made none, while a closed one
has no handler left inside it and has seen its only queue end (`EndOK`, unless a handler ran
late).

`WrapInv` holds while no install has overlapped with an uninstall. `DomOK`: a domain that no
thread is at has a record for each of its members, or none at all. `ChainInv`: a record's
wrapper is on its member, and is `owned` exactly for the first one on an inherited member
(`RecOK`); a wrapper without a record is being taken off or was left below one of a later
domain (`LayOK`); the wrappers on a member are in the order of managers and domains
(`SortOK`); an empty chain is the original member (`EntOK`); and a thread that has read a
member and not yet written it still sees what it read (`TopOK`). `EnabledMeansInstalled` needs the
order, since from it no wrapper is there twice; `UninstallRestores` needs what is left behind.

### Contexts, renders and queries

`ContextInv`: the variable of a strand holds the context of its innermost own block, and the
token of each context that of the next own block below it (`ChainOK`), so that leaving a
block uncovers the right one. For this a context must belong to one block of one strand and
remember that block's task (`OwnOK`), and an ignored task must never match one (`BlocksOK`).
`RenderInv`: a render stands in a block of its context (`NearOK`), a mark is there just when
some render has made it (`MarkOK`), and above it no other of the same context makes or takes
it (`OnceOK`). `QueryInv`: the tokens of a strand's running queries form an injective chain
from the current query to the one the strand came with (`NestOK`); a query that has not begun
is in no variable and no token (`KnownOK`).

### Cursors, caches and stacks

`FactoryInv`: with hashing on, a fetch has one hasher around the factory it saved, and without
a fetch there is none. `HashInv`: the uids hashed are those of executed statements, and the
one the cursor remembers is not among them, since `FetchDone` forgets what it uses.
`AttributionInv` for what a hash is about: the hasher of a fetch in progress has seen just the
rows delivered of the last statement (`HasherOK`), and a statement that still has its uid has
delivered nothing else (`UidOK`). This is where a switch in the middle of a fetch must be
excepted (`disturbed`). `DepthInv` counts the hashers that such switches leave: each one on
the cursor, but that of a fetch with hashing on, took a switch of its own.

`CacheInv`: no key twice, no cache beyond its size, and each item holds what would be computed
again for its key. That last part is why a hit may take the place of a computation and an
entry of another thread does no harm. `CallInv`: a stack is empty while the frames seen are
ignored, and is then the chain from its first kept frame to the last one seen (`StackFrom`).

`RecentInv`: until two threads have set the same key, a cache is the end of the list of the
keys used, of which no key is there twice. A key used again moves from the middle of the list
to its end; what the list without its earlier place looks like is the lemma `UsedAgain`.

### Columns and bit sets

`TrackInv` describes lists that several threads make: each column in a list has a wrapped
descriptor or one of an unknown class (`ListsDone`), the unknown one is the last, and nothing
beyond it is wrapped (`UnknownLast`), a list that was begun once is complete up to there
(`ListComplete`). A second thread that lists a model meets a first column that is done and
gives up there (`FirstDone`); so a query that began after its model was tracked loses no column to
it (`TrackedBefore`). `QueryInv` relates the bit sets of a query to the columns: bits of accessed
columns come from reads (`BitsRead`), those of loaded and required ones are in the list
(`BitsListed`), loaded keys are required (`KeysRequired`), and a column that was read has its bit
or is not loaded (`ReadOK`), also before its instance is attached. For unknown descriptors
`UnknownEnds` follows the lists from reset to reset: a column of an unknown class is the last of its
list; so what is loaded holds one such column at most (`UnknownOnce`), and with `ReadOK` for all
others `UnknownCostsOne` follows. Beyond the width bits are
those of `% Width` or none, which `BitsListed` allows for and `ReadOK` excepts.

`OperationsAgree` is about a recursion over the bits. The library's induction takes an operator
and cannot be used; `ValuesInduction` replaces it for sets of values, by a value of least
cardinality outside the set. Every value has one list in order (`EveryList`, `OneList`), hence
the equation of `BitSetList` has a solution (`ListEquation`), and the solution is that list
(`ListIs`).

Each invariant is proved in a lemma for the initial state and lemmas for the steps, one
step of proof per action.

### Only model-checked

All liveness is out of the prover's reach, as is `ENABLED`: `CallReturns`, `CloseEndsRun` and
`EventuallySettled` of the queue, `RepairedOrDead` and `CloseIsFinal` of the ML store,
`SubmittedSettles` and `CloseReturns` of the event loop. An induction over data must be turned into
an argument about a least or greatest element of a set, as for `MatchesServer` and `BitSetsAgree`.

## Findings

1. **Rows left behind by close** (`queue_close_flush`). The worker looks at the stop event at
   the head of its loop; when it is set between two flushes the loop ends without the final
   flush of everything that the tests describe.
2. **Double start** (`ml_double_start`). The second read of `self._state` in
   `_mark_connecting` may see a shared dict, whose `setdefault` another caller has not seen.

## Observations

What the models led to, with the property that names it as an exception where there is one.

*Queue.* `_running.wait()` (`queue.py:97`) has no timeout and is entered with `_lock` held:
a worker whose first `_flush_pqueue` raises `queue.Full` sets and clears `_running` before its
starter looks, and the starter waits for ever. `queue_liveness` gives `_pqueue` room for all
items for that reason. When the join of `close` times out, `close` forgets a stop event that
the worker may not have read, and nothing stops that worker any more; `CloseStopsWorker` is
stated for joins that do not time out.

*ML store.* The callbacks of a task that is being cancelled overwrite the dead state
(`store.py:91`), which is what `DeadOnlyLeftUnwinding` allows and nothing else. `close`
between the submission and the assignment of the task (`store.py:133`) leaves the stream
alone. When `sse` raises, the store stays connecting and no later call starts a stream. A
removal leaves no timestamp (`store.py:235`, comment at 205): with two streams an older
update brings the sample back; `MatchesServer` is about one stream.

*Event loop and client.* Requests that are pending when the container closes are cancelled,
the last batch among them. The assertion at `async_worker.py:63` fails for a thread that
found the worker running just before it stopped. A coroutine scheduled after the stop may
die with its loop while it holds a token's lock; `SubmittedSettles` names it. If
`shutdown_timeout` elapsed, the old thread would unset the loop of its successor
(`async_worker.py:120`).

*Manager and events.* Of two threads that uninstall, the second calls `stop` of `None`
(`manager.py:47-50`). Since `stop` runs outside the lock, an install may overlap with it and
lose wrappers (`overlapped` in `EnabledMeansInstalled`). Domains stop in the order they
started, so on a member that two wrap the first one's wrapper stays (`UninstallRestores`).
`fire` iterates over the live set and raises when it changes, although the docstring
(`events.py:74-75`) says that errors are logged. A handler that runs late creates a queue
again after `disable`, and two handlers that both find none create two
(`ingest.py:37`); `QueueEndsWithDomain` excepts both.

*Tracking.* When two generators of one thread end in the order they began, the current
query is one that has ended (`crossed` in `OrmQueriesNest`). A generator that is finished in
another thread or task raises `ValueError`. Two renders in a context that two tasks share may
end in a `KeyError` (`shared` in `MarkedWhileRendering`).

*Cursor.* The rows of a statement outside any context are hashed under the uid of a tracked
one before it if that was never fetched. Switching the domain, or the application's own row
factory, in the middle of a fetch leaves a hasher on the cursor. `fetchmany(0)` ends the
fetch early; a fetch past the end emits a hash without a uid.

*Columns.* A column with an unknown descriptor is appended to the list before the error
(`columns.py:128`), so it is reported as loaded and never as read, against the comment at
line 139; `UnknownCostsOne` says that this column is the only one. A second thread, a child model or a new installation restarts a list whose
descriptors stay wrapped, so the list may be shorter than the bits (`relisted`). A query that
begins while its model is tracked may miss columns or raise `KeyError` (`early`). Since
`ForeignKeyDeferredAttribute` is a subclass of `DeferredAttribute`, the branch at line 134 is
never taken. Beyond 64 columns bits are shared.

*Traceback.* The key of an entry lacks the function's name. Two threads that set the same key
evict one item more than needed (`doubled`). A cache of size 0 would delete a key that
`PyDict_Next` has not set.

## Not modelled

* ML domain and instances: hashing of features and arithmetic of predictions, no shared state.
* Database integrations, and the proxy of a connection: declarations of what is wrapped.
* Configuration and encoding helpers: pure, before or beside everything that runs.
* Django optimizers (arguments of Django calls), relations (several paths in one query) and
  requests (a context whose end Django signals, possibly in a copy of its variables).
* `Wrapper.wrap_temp` and the import hooks; the lazy creation of dependencies;
  `MLStore.register`: categories are registered before the stream starts.
* The outcome of a request beyond settled or not, its retries in the httpx transport and its
  log lines.
* Of `bitset.c`, `lru_cache.c` and `traceback.c` only the functions made from the
  repository's own `.pyx` sources are modelled, some four thousand of nearly forty thousand
  lines. The rest is the run time that Cython copies into every extension module, and
  `pythoncapi_compat.h` is a compatibility header of the same kind.

## Plan

1. Composition: one store whose stream drives the merge of its models, `HttpClient` with
   `Delivery` in the place of its posting threads, and the ML store's `close` in `Deps.close`;
   what is proved of the parts then holds of the whole by its refinement.
2. `Relations` and `Requests` on top of `Columns` and `Tracking`; `Optimizers`: which paths and
   columns a prediction adds or removes.
3. `Config`: precedence of the layers against their cached values.
