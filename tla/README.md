# Verification of smart-c-playground

smart-c-playground compiles and runs C programs for anonymous visitors of a web
page, and gives them a C language server. This directory holds TLA+ models of
its parts, the TLC runs that check them on small instances, and TLAPS proofs
that hold for every instance. `PROJECT.json` maps every definition to the lines it
models and lists the hazards with the properties that cover them.

## The system

| Part | Source | State | Operations |
| --- | --- | --- | --- |
| executor-api | `crates/executor-api/src` | `AppState`: sessions, queue, limits, workers, a `Notify` | HTTP creation, WebSocket session, worker stream, dispatcher, maintenance |
| executor-worker | `crates/executor-worker/src` | the active job of one connection, the compiler and PTY processes | receive assignment and commands, heartbeat, compile, run, kill, report |
| LSP server | `apps/lsp/src` | sessions, reservations, timers, clangd processes, open documents | create, authorise, attach, filter messages, clean up, shut down |
| web server | `apps/web/app`, `apps/web/lib/server` | rate-limit store, visitor cookie | create sessions at the two back ends on behalf of a visitor |
| web client | `apps/web/components`, `apps/web/lib/client` | current run, socket, editor connection, files | run, stop, handle events, reconnect |

An execution passes through most of them. The page asks the web server, which
applies its rate limits and asks executor-api for a session. The page opens a
WebSocket with the ticket, which reserves a place within the visitor's and the
address's limits. Once the socket is up the session joins the queue, and the
dispatcher gives it to an idle worker over that worker's gRPC stream. The worker
compiles and runs it, and reports phases, output and the exit.

An editor has a second path. The page asks for an LSP session, whose workspace
the LSP server writes to the disk. A WebSocket with the session's ticket starts
clangd, and every message then goes through a guard that keeps the open
documents and the workspace files in step.

## Modules

| Module | Content |
| --- | --- |
| `Queues` | the operations on sequences that the queue of executor-api and the list of files need |
| `ExecutorApi` | executor-api: one action per step between two locks |
| `ExecutorWorker` | a worker, its job's task and process, and the API's end of its stream |
| `SessionPool` | abstract: places that are taken, used and given back within limits |
| `LspSessions` | the LSP server's sessions, upgrade, deadlines, cleanup, probe, shutdown |
| `LspDocuments` | one connected LSP session: guard, message chain, files, header rebuilds |
| `RateLimit` | the rate limiter of the web server, as operators on its store |
| `ExecutionRoute` | the route that creates an execution, on top of `RateLimit` |
| `ExecutionClient` | runs of the page, composed with `ExecutionRoute` |
| `ProjectFiles` | the page's list of files and what the server accepts |
| `LspClient` | the page's LSP session and editor connection, composed with `ProjectFiles` |
| `MCExecutorApi`, `MCExecutorWorker`, `MCLspSessions`, `MCLspDocuments`, `MCExecutionClient`, `MCLspClient` | instances for TLC |
| `ExecutorApiProofs`, `ExecutorApiSafety`, `ExecutorApiLimits` | proofs about `ExecutorApi`: types; assignments and wake-ups; counters and limits |
| `ExecutorWorkerProofs`, `LspSessionsProofs`, `LspDocumentsProofs` | proofs about the modules they are named after |
| `ExecutionClientProofs`, `LspClientProofs` | the same, with `ExecutionRoute` and `RateLimit`, and with `ProjectFiles` |

Definitions that begin with a comment "Mutant of" are deliberate faults. No
specification uses them; each shows that a property can fail.

### ExecutorApi

`sessions`, `inner`, `queue`, `by_visitor`, `by_ip`, `pending_activations` and
`workers` are the fields of `AppState`, `SessionInner`, `LimitState` and
`WorkerHandle` under their own names. `outbox` and `closed` are the mpsc channel
towards a connection, `permit` is the permit stored in `dispatch_notify`, and
`expired` and `stale` say that a deadline has passed.

A task is an element of `Threads`: the WebSocket task of a session, the stream
task of a connection, the dispatcher, or the maintenance loop. `pc` says where it
is and `frame` holds its locals. `Call` enters an `async fn` and `Return` leaves
it, so `complete_session`, `unregister_worker`, `cancel_execution` and
`send_command` are written once and used by every task that awaits them. An
action is what the code does under one lock, or under locks it holds together.
Two neighbouring locks are merged only where no other task can tell: for example
the two locks of `release_limits`, since nobody else touches the reservation
flags of a finished session.

The worker side of the stream is unconstrained here: a connection may send any
phase, exit, output or heartbeat at any time, and may end at any time. Byte counts
are abstracted to within or over the limit, and the token bucket of the WebSocket
to allowed or not. `Inputs`, `ReportedPhases` and `ReportedReasons` select the
environment's inputs of an instance; they never remove behaviour of the server.

### ExecutorWorker

The real worker instead of the free one: `connect_once` with its select loop,
the heartbeat task, and the spawned task that runs `execute_assignment`. The
bounded channels between worker and API are sequences in which commands,
assignments, heartbeats and exits cross. The API's end is the part of
`ExecutorApi` that concerns one worker: `current_job`, `recently_completed_job`,
and the checks of `heartbeat` and `handle_worker_event`.

A cancel may overtake the dispatcher: `cancel_execution` saw no worker, the job was
dispatched meanwhile, and `complete_session` then ends it. `LateCancel` is its step
under the lock of the session and `LateCancelFrees` the one under the lock of the
workers' map. The worker hears nothing of it and goes on with the job; `abandoned`
(history) holds such jobs until the registration ends. Jobs need not arrive at the
worker one after the other any more, and a worker that reports an abandoned job to an
API that has given it another loses its connection.

Abstractions: `"stopped"` stands for timed_out, resource_limited and cancelled,
and `"exited"` also for sandbox_violation. Input and resize are one command.
Compiler and linker are one process. A panic ends a task as an error does. Error
events change no state and are left out, and so is the crash of the whole worker,
after which nothing of it is left to agree with.

### LspSessions and SessionPool

The LSP server is one JavaScript event loop: an action is what runs between two
awaits, or one callback. `session[s]` is the `ManagedSession` together with what
it owns: its three timers, its socket, its clangd, its workspace and how far its
cleanup is. `request[s]` says where the POST that creates it stands. A timer holds
the ticks left and fires at 0.

`SessionPool` is what `#reserve`, `#release` and the map of sessions promise
together: a place is taken within all limits before anything is made, passes to
the session without being free in between, and is given back once. `place` maps
a request and a record to a place, and `ImplementsPool` is the refinement.

Assumed: the `rm` of a cleanup succeeds. An error of spawn arrives as an event. A
session that is still being created when the shutdown begins is not awaited by
`shutdown`, so its workspace may remain; `ResourcesOwned` therefore speaks of the
awaited ones. A `writeFile` that still runs while another has failed is not
modelled beside the `rm` that follows.

### LspDocuments

`stage`, `documents`, `documentBytes` and `clientBytes` are the guard's fields.
`queue` is the promise chain `#messageQueue`: what was accepted and not handed on.
Its head may be writing its file (`writing`), a temporary file and then a rename.
`generation` and `timer` are those of the header rebuild. `files` and `clangd` are
what the disk holds and what clangd was told.

A text is identified with its size. What an incremental change makes of a text
(`applyDocumentChange`) is any text. The shape checks of parameters form one class
of refused messages, and the rate window is one of the reasons to refuse.
Messages still arrive after a violation and while the socket closes, as in the code:
the guard counts them and the chain takes them up.

### ExecutionRoute, RateLimit and ExecutionClient

`ExecutionRoute` is the handler of `POST /api/executions` between its two awaits,
for one browser: cookie, request limits, body, creation limits, internal service.
Every rule is charged even behind one that denies, as in `consumeRateLimits`. The
sweep of the store may happen at any operation, where the code counts to an
interval.

`ExecutionClient` is the page. A run is identified with its request, its
`AbortController` and its socket, which outlive the run: late answers and close
events meet a newer run. The code sets `binaryType` to `arraybuffer`, so the Blob
branch is not modelled, and `new WebSocket` does not throw. `current` and `writers`
are history: the latest run, and who wrote to the screen since it began. `execution`
is the service as its socket shows it: hello, the place in the queue, the worker's
phases in their order, one of the end phases when the session is completed, and the
exit behind it.

### ProjectFiles and LspClient

`ProjectFiles` holds the handlers that change the list of files, what a visit
begins with, and the server's rules. A file is its name. What localStorage holds
is arbitrary, except that a valid project was written by `saveProject`.

`LspClient` is the effect that asks for an LSP session with its retries, the
reconnects, the restart after a change of the files, and the connection of
`code-editor.tsx` with its transport. A React setter takes effect at the action
`Render`, so callbacks that come between a set and its render are explored.
`CodeEditor` is a dynamic import: until its chunk is there (`CodeEditorLoads`), a
session is shown without a connection. The setup of a connection may also throw, which
is reported as unavailable and leaves no connection either (`connect`). A change of the
files in such a state sets the pending restart and takes the session away; there is no
socket whose close would start the restart, and later changes find it pending. `stranded`
(history) marks exactly this, and `SessionHasFiles`, `RestartHasCause` and
`FilesReachServer` speak of the other states: `updateProjectStructure` counts on a
connection that it does not check for.
Contents of files, saving them, the label of the connection and Strict Mode's
double effects are left out.

## Runs

| Run | Instance | Shows |
| --- | --- | --- |
| `reconnect` | 2 sessions of one visitor, 1 worker, 2 connections, output within or over its limits, streams may end | types, exact reservations, generation safety |
| `limits` | 3 sessions of 2 visitors, 2 workers, every capacity 1 (address 2) | concurrency limits, the bound on what waits, one place per session |
| `commands` | 1 session, 1 worker, every input of browser, worker, clock and sweep but output, channel of capacity 1 | assignments agree, no lost wake-up, finished is final, an execution without socket is cancelled |
| `progress` | 2 sessions, 1 worker, 1 connection, streams may end | waiting work is dispatched, finished work released, lost work failed |
| `executor_worker` | 2 jobs on one worker, channels of 1, 2 and 1, a cancel at any time | both ends agree, every job is resolved, no process outlives its job |
| `lsp_sessions` | 2 sessions of one visitor, limits 2, 1 and 2, deadlines of 1, 2 and 3 ticks | limits and refinement, ownership, armed deadlines, bounded life, eventual removal |
| `lsp_documents` | a header and a source file, 2 texts, 2 versions, 6 messages | exact sizes, disk before clangd, synchrony, silence after a violation, rebuilds |
| `execution_client` | 2 runs, limits 2, 1 and 2, windows of 2 and 3 ticks, a store of 5 entries | late events write nothing, one socket, creation rate, a run ends on the page unless it stays queued |
| `lsp_client` | 2 sessions, 4 names in 2 spellings, 2 files, 2 attempts, 1 reconnect | accepted projects, current files, restarts with a cause, bounded requests, changed files reach the server |
| `queue_capacity` | 2 sessions, 1 worker | violation: the queue exceeds `queue_capacity` by one |
| `disconnect` | 1 session, 1 worker, channel of capacity 2 | violation: a closed socket's execution goes on |
| `execution_stop` | 1 run | violation: a stop before the socket opens does not stop |

Deadlock is checked in `executor_worker`. The other instances come to rest when
their finite sets of sessions, connections, runs or messages are used up, or when
a page is left or a process ends, and are run without that check.

Bounds. Two sessions are the least with which one can wait while another runs,
and three the least that overfill a queue of capacity 1. Two connections of one
worker are the least for generations. A channel of capacity 1 is full after one
message. Two LSP sessions of one visitor with a limit of one make the second wait
for the place of the first, and the three deadlines differ so that each can be the
one that fires. A ticket, an idle and an absolute deadline of 1, 2 and 3 ticks keep
the order of the configured ones. Two texts that do not fit together reach the
limit of `maxDocumentBytes`, and 6 messages suffice to open both documents and
change a header behind a rebuild. Two runs are the least with which one is
replaced. A store of 5 entries is smaller than the keys two visitors need. Two runs cannot exceed
twice the hourly limit, so that half of `CreationRate` rests on its proof. Two
names in two spellings are the least with which case matters. Symmetry is used
where members are interchangeable, and never with a liveness property.

The type invariants of `ExecutorWorker` and `LspClient` document their variables
and are not among the runs' properties.

### Fairness

- `ExecutorApi`: a task that can take a step eventually does. tokio polls a woken
  task, its mutexes are fair, and the maintenance interval keeps ticking. `SweepSpec`
  assumes only what the sweep needs. Nothing is assumed of browsers, workers,
  network or clock.
- `ExecutorWorker`: both ends read what arrives, a connection that is gone is
  noticed, the heartbeat interval ticks, and the deadlines of a job's task fire. A
  process need not end by itself, and no command need be sent.
- `LspSessions`: time passes, timers fire, file operations settle, and a process
  that was sent SIGKILL ends. Nothing is assumed of clients, or of a clangd that
  was sent SIGTERM.
- `LspDocuments`: the chain goes on and the rebuild timer fires. File operations
  may fail.
- `ExecutionClient`: the route answers, since its call has a timeout; a settled
  promise runs its continuation; and a socket ends that is not made, that the page
  closes, or whose execution is over, was stopped, or is with a worker, which has
  deadlines and is given up when it is silent. Nothing is assumed of an execution in
  the queue that is not stopped (`waits`): a session is queued whether or not there are
  workers, maintenance sweeps only sessions without a socket, and the page's pings keep
  the socket open. `RunEnds` excepts a run that waits like this for ever.
- `LspClient`: fetch settles, timers fire, React renders, and a closing handshake
  ends. A socket that is open need not close, one that connects need not open, and the chunk
  of the editor need not arrive.

### What the violations mean

`queue_capacity`: `try_dispatch_one` pops a job, finds no worker and pushes it back
to the front. While it holds the job, `consume_ticket` sees a shorter queue and
admits one more session, so 17 executions can wait where `docs/security.md` says
16. `QueueBound` shows that it is never more than one.

`disconnect`: `send_command` refuses a cancel when the worker's channel is full, and
`websocket_session` ignores the refusal on its way out. `docs/architecture.md`
says that a disconnected execution is aborted; here it runs to its own time
limit.

`execution_stop`: between the answer of the request and the first phase the service
reports, the page still shows `creating`, but the request can no longer be aborted.
`stop` takes the branch for a request, shows `cancelled` and leaves the socket alone.
The execution starts and the page shows `queued` again. The comment on `stop` says
that it stops the request in preparation or the job in progress.

A heartbeat, command or assignment that crosses an exit ends the connection of the
worker and may fail the next job. `JobResolved` shows that it is failed and not
stuck; the code's docs promise no more.

## Proofs

Every invariant and action property of the passing runs is also a theorem; what
stays with TLC is liveness. The constants are arbitrary within the named assumptions
of their modules: any finite sets of sessions, workers and documents, any positive
capacities, limits, windows and deadlines, any texts, versions, runs and file names.
Four assumptions are there for the proofs and hold in the code: the rate limits and
windows are positive and a minute is no longer than an hour (`RouteAssumption`), a
visitor's key is never the address's (`NoneAssumption`), the workspace of an LSP session
has finitely many documents (`LspUrisAssumption`), and a file has a name that is not
empty, as `isValidSourceFileName` demands (`NamesAssumption`).

**ExecutorApi.** `TypeCorrect` is inductive as it stands; it includes that a task has in
`frame` what its next step reads. `Assignments` and `OnePlace` rest on `AssignmentInv`,
which adds that `finished` and the steps of `complete_session` go together, that a
finished session has no assigned worker, that a session not yet enqueued is
nowhere, and that an absent worker has no job. Dispatch needs the first two to know
that a job in its hand is not assigned, and enqueue the third. `Final` follows step
by step from `AssignmentInv`, `Generations` from `TypeOK`. `Wakeups` rests on `WakeupInv`,
which extends `NoLostWakeup` to the moment when `try_dispatch_one` has decided to put a
job back, because a worker freed from then on must leave a permit.

`ExactLimits`, `LimitedConcurrency` and `BoundedQueue` rest on `LimitsInv`. Its part
`TicketInv` says that only a session whose ticket was consumed is anywhere, that it
holds its reservation until it is finished, and that a place in the queue is reserved
once. With it each step changes a counter by the number of sessions that enter or
leave the set it counts; the lemmas about cardinalities turn that into `LimitsExact`.
The limits on what runs follow because an assigned session still holds its
reservation, so `AssignmentInv` is needed as well.

**ExecutorWorker.** `StreamsAgree` rests on `StreamInv`. `JobsInv` says that a task begins
with the assignment of its job, which is in the channel at most once, and that a process
exists only while its task compiles or runs. `ConnectionInv` says what an end that is gone
has left. `UpInv` says that the events on their way are those of `Known` jobs (the one the
API waits for, and the abandoned ones), an exit the last of its job and sent after its
process is gone. `AgreementInv` then places the job the API waits for: on its way to the
worker, in work, its exit on its way, dropped by a full channel, or taken between the two
locks of a late cancel (`ExitTaken`). `StreamAgreement` speaks of the same by counting
messages. It is not inductive without the order of the events: once an exit is handled the
API waits for no job, and no event of that job may be left behind it.

**LspSessions.** `SessionsInv` has three parts. `RecordsInv` says, for one record and
the request that creates it, what a session owns in each state and which timer
will end it; lemmas about single records (`closeSession`, attachment, deadlines)
carry it through every action. `PendingInv` says that the counters of `#reserve` and
`#release` are the cardinalities of the creations under way. `ShutdownInv` says how far
awaited sessions are at each step of the shutdown. From it follow `TypeCorrect` (no
reservation is released twice), `ResourcesAlwaysOwned`, `DeadlineAlwaysArmed` and
`LifetimeAlwaysBounded`. `SessionsImplementPool` shows that every step is a step of
`SessionPool` or leaves `place` alone; the counters being exact is what makes the
guard of `#reserve` the guard of `Take`. `LimitsRespected` states the limits
themselves, which follow from the guard and `PendingInv`.

**LspDocuments.** `SessionInv` relates three moments of a document: what the guard
accepted, what waits in the chain, and what clangd was told. `SyncInv` says that the
last waiting message that sets a text, or a version, sets it to the guard's, and
that clangd agrees when none waits; a rebuild may run ahead with the guard's
version, and what waits behind it leads to that version again. `GenerationsInv` says
that generations in the chain increase and that none exceeds the current one.
`FilesFirst`, `ClangdInSync` and `RebuildsSeeHeaders` follow for chains of any length, and
`ViolationStops` from the actions alone.

`BytesAlwaysExact` needs what replacing one text does to the sum of all. That is an
induction over the set of documents, done with sets in place of predicates: a smallest
counterexample gives the induction (`SubsetInduction`), and the same argument gives the
recursive function behind `MapThenSumSet` its existence (`SumsExist`). `TypeCorrect` is not
inductive either, because a save of a closed document would leave clangd with a text
and no version. `SavesInv` adds that for every save in the chain the messages before it
leave its document open; it holds for an accepted save by `SyncInv`.

**ExecutionClient.** `PageInv` adds to `OneSocket` and `ActiveHasCause` that the references
belong to the latest run, that a request comes before its socket, that an aborted
request is not shown as active, and that a close is expected only of a socket whose
execution is over. `CurrentRunWrites`, `SocketReferenced` and `ActivePhaseCaused` hold for
any number of runs and any order of late events, and `TypeCorrect` for the page together
with the route and the limiter's store.

`CreationRateKept` rests on `RateInv`. For each of the two rules it says what its window
knows: an open one has counted all that passed since it began, the first of them at its
very beginning, and the window before it left fewer than the limit that still count;
with no open window fewer than the limit passed within its length. Hence less than
twice the limit, whatever the sweeps of a full store remove.

**LspClient.** `ProjectAlwaysAccepted` is shown for what a visit loads and for each change of
the list, with lemmas about names that are distinct up to case. `SessionAlwaysHasFiles`
is inductive with the types of the page. `RestartAlwaysHasCause` needs `EditorsInv`: the
session that is shown has a mounted editor or has made no connection, one that is not
shown yet has none, and an editor that was ever mounted has a socket. `RequestsAlwaysBounded` rests on a budget, `RequestsInv`: the requests made, those
the current run of the effect may still make, and those of the runs still to come (one
that is set, one that waits, one the timer will set, and the reconnects left) never
exceed the bound together.

Only model-checked is liveness, which rests on fairness and is out of the prover's
reach: `DispatchProgress`, `FinishedIsReleased`, `LostWorkerFailsJob`, `ExpiredIsCancelled`,
`JobResolved`, `ProcessesStop`, `EventuallyRemoved`, `HeaderUpdateRebuilt`, `RunEnds` and
`FilesReachServer`. No module declares a recursive operator. The theorems about induction
of the library take a predicate as a parameter, which the provers cannot instantiate;
where induction is needed it is done by a least counterexample, as above.

## Not modelled

- HMAC signatures, request validation, header parsing, metrics and configuration
  are pure functions or I/O. A request or a ticket is valid or not.
- `applyDocumentChange` and the shape checks of JSON-RPC parameters are pure
  functions of one message; the models take their outcomes.
- The route for LSP sessions is the handler of executions with other keys and
  limits. The health routes have no state.
- The clangd command line, nsjail backends, container and seccomp configuration
  and the operational script have no state machine.
- The terminal component and the pages only render.
- The `rm` of a cleanup beside a file that is still being written: what happens is
  the file system's.
