# A TLA+ model of goico

goico is a Go framework for the services of Jobico: HTTP, gRPC and headless
services with a common base, a broadcaster and a cache with an event stream, an
embedded key/value store, a WASM runtime and helpers around them. This directory
models the parts of it whose correctness depends on the order in which goroutines
run, or on what fails half-way, checks them with TLC on small instances, and proves
the main results with TLAPS for instances of every size.

## 1. Inventory

| Component | State | Operations | What makes it correct |
|---|---|---|---|
| `pkg/broadcaster` | map of listeners, channel `b.c` of capacity 1, context, worker goroutine, a started flag behind an RWMutex; per listener a channel and a barrier of its own | Start, Stop, Subscribe, Unsubscribe, IsSubscribed, IsStopped, Write (asynchronous), WriteSync; the worker's loop | never a send on, or a close of, a closed channel; Stop leaves nothing behind; order, no duplicates, no listener skipped but by its timeout; every call returns although consumers do not receive |
| `pkg/syncutil` OnceDisposable | two flags and two errors (atomic values), a mutex | Do, Dispose | each function at most once, never both at a time, errors and disposal visible to every later caller |
| `pkg/service/base.go` | status, start time, a context derived from the owner's | New, Stop, SetStartedNow, Stopped, Status; a goroutine that waits for the context | the context of the owner ends everything |
| `pkg/service/http` | server, base, optional sidecar | Serve, DoServe, the shutdown goroutine | a clean return means that all of it has ended; sidecars cannot harm; cancellation ends it |
| `pkg/service/process` | base, process function, HTTP sidecar on the same base | ServeWithDelay, DoServeWithDelay | Serve returns when function and sidecar ended; the function is run |
| `pkg/service/grpc` | server, health server, base, optional pprof sidecar on a second base | Serve, DoServe, Stop, the stopper, the health loop | NOT_SERVING before the server stops; the published status is the last outcome; Stop and cancellation end it |
| `pkg/service/grpc/cache`, `stream` | map, broadcaster, stream, client's broadcaster | AddOrUpdate, Update, Delete, Get, Events, ListenerForEvents, Recv, Close | no event is lost or doubled on a live stream; both ends of a stream end; no listener is left behind |
| `pkg/database` | one ordered Pebble store for all tables; an iterator per scan | Add, Update, Delete, Get, All | a table with a prefix of its own is a map nobody else touches; All returns exactly the table at one moment |
| `pkg/test` ServiceGroup | a channel per started service, a queue of errors | Start, WaitUntilStopped, WaitFor; goroutines of services and of waits | exactly the errors that happened are returned, nobody waits for ever, nothing is left behind |
| `pkg/collection` | slice or map behind a mutex | SyncQueue, SyncMap, Set | nothing is lost between two locked sections |
| `pkg/runtimes/wasm` | cache directory, guest, allocated blocks of its memory | NewRuntime, NewModule, Run, Close, log | every block is freed once, on the error paths too |
| `pkg/ioutil` | files and directories | LastLines; WriteToRandomFile, ReadOldestFile(s) | the last lines are the lines of the file; a directory serves as a queue; both while others write |
| `pkg/env` | variables of the process, `.env` files | Load | one order of precedence, whatever sets what |
| `service/conn.go` BufConn | map from addresses to in-memory listeners | Dial, Tranport, Listen, Close, CloseAll | a client and a server of the same address meet, in either order |
| obs, log, svcmeta, option, ref, convert, context, templatehelper, yamlutil, generated code | – | – | no behaviour of their own worth a model |

Components meet in three ways. A *context* passed to a constructor cancels
everything derived from it; the pprof sidecars derive from the owner's context and
not from that of the service they belong to. A *base* may be shared: the process
service and its sidecar write the same status and cancel the same context. And the
cache puts two *broadcasters* and a gRPC stream in a row. Tests put services together
through a *service group*, whose services meet at in-memory listeners and whose waits
leave their errors in the synchronised queue.

What is hard here: the RWMutex protocol of the broadcaster, where a read lock taken
by `Write` is released by the goroutine it starts; `select` with several ready cases;
`sync.Map.Range` during updates; unlocked loads before the lock in `OnceDisposable`;
status and cancellation written by several goroutines; a sidecar that fails at any
point; a scan while others write, over keys without separators; files that grow, appear
and vanish while they are read; deferred calls on the error paths of `Run`. `PROJECT.json` lists these hazards with their lines and with the properties
that catch them.

## 2. Plan

Done:

1. `StatusBarrier`, `Broadcaster`, `OrderedBroadcast` (abstract), with runs for
   safety, restart and liveness;
2. `OnceDisposable` and proofs of its safety properties;
3. `ServiceBase`, `HttpService`, and the compositions `HttpServer`, `ProcessService`,
   `GrpcService`;
4. `BroadcasterProofs`: the inductive invariant of the broadcaster and three theorems;
5. `Broadcast`, `EventStream`: the cache, the event stream and its client, composed
   around abstract broadcasters, so that what was shown of the broadcaster is used and not
   modelled again;
6. `TableKeys`, `Table` and `Tables` (abstract), with the refinement checked and the
   bounds of a scan proved;
7. `QueueSlice`, `SyncQueue`, `BufConn`, `ServiceGroup`: the test kit;
8. `LastLines`, `FileQueue`, `WasmModule`, `EnvLoad`: the helpers with an algorithm or a
   protocol of their own;
9. proofs: order, completeness, restart and refinement of the broadcaster; the safety
   invariants of the HTTP, process and gRPC services; the rows of tables and the
   refinement of `Tables`; the memory of the guest; the precedence of the environment; the
   invariants of `EventStream`; the action properties of `SyncQueue` and `ServiceGroup`; the
   directory as a queue.

Left: a proof that the operators of `Broadcast` are steps of `OrderedBroadcast`.

## 3. Modules and the code

**StatusBarrier.** `statusBarrier.go` and the RWMutex in it, as operators on a record.
The mutex prefers writers: `Entering` admits a reader unless a writer has announced
itself, and then it is queued in `waiting`; `EnteringStatusArea` is the announcement;
`InStatusArea` holds when the readers that were inside have left; `OutOfStatusArea`
admits the queued readers together. `HandOver` is the read lock that `Write` takes and
its goroutine releases.

**Broadcaster.** One action per stretch of code between two points where a goroutine
can block or be overtaken. A call is `Invoke…` (up to the lock), then the body. Stop is
`StopCancel`, `StopWait`, `StopListener` for each element of Range, `StopEnd`. The worker
is `WorkerDone` / `WorkerReceive` / `WorkerReceiveClosed` (its select), `WorkerVisit` and
`WorkerRangeEnd` (Range and the callback's check of the context), `WorkerCheck`,
`WorkerSend`, `WorkerTimeout` (`Listener.write`). Goroutines of Write are named by their
message. Channels are histories: `log` is everything ever sent on `b.c`, `taken` how much
of it the worker received, so that `Len(log) - taken` is the content of the buffer; the
same with `got` and `rd` for each listener, where messages are named by their index in
`log` and 0 is the zero value that a closed channel yields. `owed` and `reach` are what
sync.Map documents of Range: keys that stay in the map are visited, keys stored meanwhile
may be, no key twice. Send on or close of a closed channel sets `panicked`, after which
nothing happens. `made`, `since`, `dropped`, `starts` are history variables for the
properties.

**OrderedBroadcast.** What a client may rely on: messages are published in one order;
an open listener receives a subsequence of what was published, in that order, without
repetition; a closed one receives nothing; after the end nothing is published.

**OnceDisposable.** Every atomic load outside the mutex is a step. With the mutex held
the steps are the recheck, the call of `f` (returns nil, an error, or panics), the
evaluation of the result and then the deferred store and Unlock, in the order in which
Go runs them.

**ServiceBase, HttpService.** Bases and HTTP services as families: functions over `Bases`
and `Servers`, so that a composition can have several. `HttpService` has the goroutine in
Serve (`pc`) and the one that shuts down (`shutter`), joined by `errCh`. Requests are not
modelled. `HttpServer` is a service with its pprof sidecar on two bases, `ProcessService`
a process and a sidecar on one base, `GrpcService` a gRPC service with its stopper, health
loop and a pprof sidecar on a second base. The constructors are the initial states and the
wiring (`BaseOf`, `SidecarOf`); a constructor that returns an error leaves no service and
is not modelled. The gRPC server and its health server are libraries, modelled by what is
relied on: Serve returns after Stop, and Shutdown makes every later SetServingStatus void.

**Broadcast, EventStream.** `Broadcast` has the steps of `OrderedBroadcast` as operators on
a record, for the broadcaster of the cache and the one of every stream of the client.
`EventStream` follows an event: `Change` and `PublishEvent` (Cache), `DeliverEvent` (its
worker), `Handler…` (Events), `Recv…` (the goroutine of the client), `Forward` (the
goroutine of its Write). `ListenerForEvents`, `StartBroadcaster`, `OpenStream` and
`SubscribeClient` are one call of ListenerForEvents, whose reads and writes of
`c.broadcasterEvent` nothing synchronises; a word-sized pointer is read whole, so that they
interleave. `CloseStop` and `CloseConn` are Client.Close. Of gRPC: a stream delivers in
order and up to a window, then the status of the handler; a connection may break at any
moment, which each side learns on its own; an error of RecvMsg cancels the stream's context.

**TableKeys, Table, Tables.** Keys are sequences of bytes `0 .. MaxByte`; `Version`,
tenant, name and id follow each other without a separator, as in `encode`.
`keyUpperBound` is the loop of the code, whose increment wraps, and the empty sequence is
its `nil`. `Table` has one action per method that is one call of Pebble, and for All the
creation of the iterator, which sees the store as it is then, one action per turn of the
loop, and the end; any of them may fail. `Tables` is the promise: one map per table,
a listing is that of one moment between call and return, in the order of the ids. The
refinement is stated for the tables whose prefix is not nested in another's; for all
tables `ForeignRowsOnlyIfNested` says whose rows can be met.

**QueueSlice, SyncQueue.** `QueueSlice` is what the locked sections do to the slice.
Methods that lock once are one action, DequeueAll and Peek two, with the size read in the
first and used in the second.

**BufConn, ServiceGroup.** `BufConn` numbers listeners in the order in which they are made;
`closed` are those a server or CloseAll has closed, `listeners` is the map. CloseAll ranges
over the map without the mutex (`sweep` is what the range has still to visit): a write
meanwhile may end the program (`fatal`) or go unnoticed, an entry that is deleted is no longer
visited, and a new one may or may not be. `ServiceGroup` has the owner (`op`), one entry of `run` per goroutine that Start
starts, and one `waiter` per goroutine of WaitFor; the unbuffered channel is a rendezvous,
`ReceiveError`, followed by its `CloseChannel`. A service is whatever listens,
serves and ends, with or without an error, and may fail before it listens. The errors go
through the queue, of which `QueueSlice` is shared with `SyncQueue`.

**LastLines.** A file is a sequence of bytes, of six kinds: visible ASCII text, ASCII white
space, LF, CR, and bytes above 0x7F, of which 0x85 and 0xA0 are the codes of white space and
the others are not. A line is a sequence of characters, in UTF-8: `Utf8` is `string(b)` of the
code, which makes *one character of every byte*, so that a byte above 0x7F becomes two and
text that is not ASCII is altered. `Blank` and `removeCRLF` are `strings.TrimSpace`. `Stat`,
`Seek` and `Read` are the calls of the loop, between which another process may append
(`Write`). `Character` is one iteration of the backward scan of a block, with the code's
flags; `EndOfBlock` returns at the start of the file or places the next block (`Before`).
What the function promises is said without its loop: `Ends` are the places where lines end,
`Text` the characters of the whole file, `Kept` the lines that are not dropped, `LastKept` the
last of them.

**FileQueue.** `Create`, `Flush` and `Close` of the writers, `Consume` of the program that
removes files, `Tick` of the clock in whose seconds files are compared. The reader walks the
directory (`Walk`, or `WalkFails`), sorts, cuts (`Cut`), and reads the files one by one
(`ReadNext`). The comparison of the sort asks the disk for the Info of both files whenever it
is called, so that files change and vanish in the middle of it. Up to 12 elements `sort.Slice`
of the Go library is an insertion sort, and that is modelled as it is, with a step for each
Info: `InsertInfo` and `InsertCompare`, up to `InsertDone`. Beyond, it chooses pivots, whose
order is the library's business: every file is compared at least once, in any order
(`PivotInfo`), and the result is sorted by the times that were seen, or in any order when
the time of some file changed between two of its comparisons (`Steady`, `PivotDone`).
`SmallSlices` are the lengths up to which the sort is by insertion.

**WasmModule.** One action per call into the guest, in the order of `Run`, each with its
outcomes: it returns, it traps, it ends the guest, and the host panics because the function
is missing (`Panics`) or returns no value where one is taken (`NoResult`). `live` are the
blocks the guest has allocated, `lost` those that the host will not free: the guest's own, and
those whose write or free failed. The guest's malloc and free keep their promises; its main
function (`main`) may allocate and free anything, the blocks of the host included, and
point at anything for a string: at nothing, at a block of its own, at its parameter, at the
struct of the result, at a block that is free, or out of its memory. `astray` says that it
freed a block of the host in this Run or returned a string that was not its to give, `wild` that the
host has freed what was not allocated. The deferred calls are stages of their own. The creation of
runtime and module and both Close methods come with the errors they drop and with their
panics (`MustInstantiate`, a `ver` without a result, a missing `init`).

**EnvLoad.** The value of a variable is the source it comes from. What a file defines is
chosen when it is read, because a file may set the directory of the files after it.

`MCTestKit` (ServiceGroup, SyncQueue, LastLines) and `MCTools` (FileQueue, WasmModule,
EnvLoad) check modules that share no state: a behaviour picks one machine
at the start (`kit`, `tool`), and the others stay where they are.

## 4. Runs

| Run | Instance | Shows |
|---|---|---|
| broadcaster_safety | 2 callers of all methods, 2 messages, 2 listeners, 1 Start; symmetric; about 1.1 million states | `NobodyWaitsInACircle`, no panic, Stop quiesces, no skipped listener, refinement of OrderedBroadcast |
| broadcaster_liveness | an owner (Start, Stop, WriteSync) and a client (Subscribe, Unsubscribe, Write), 2 messages, 1 listener, 2 Starts | calls return, the worker ends, sent messages are taken; order and no zero value even after a restart, which delivers nothing |
| once | 3 goroutines, unbounded calls | `RunOnceAlone`, `NilIsTrue`, `DisposalIsFinal`: all promises of OnceDisposable; calls return |
| http | a service and its sidecar | clean return, harmless sidecar, cancellation ends it |
| process | a process and its sidecar | nothing left, status, `ProcessRunsAndEnds`: the function is run and Serve returns |
| grpc | health checks and sidecar | health before stop, published status, clean return, `ShutsDown`: Stop, cancellation and failure end it |
| event_stream | one stream, two changes, window 1 | nothing lost or doubled on a live stream, leaks only after a failed SendMsg, both ends end |
| event_client | two calls of ListenerForEvents and Close, no changes; symmetric | Close closes every listener unless calls overlapped |
| table | 3 tables, 2 of them nested, 2 ids, rows good and unreadable, bytes 0 .. 2, one reader | whose rows a table can meet; a table with its own prefix is a map, All returns one moment of it |
| testkit | 2 services, 3 calls of the owner, 3 goroutines of services; 2 goroutines on a queue of 3 items with sizes -2 .. 2; every file of up to 4 bytes of all kinds, and of up to 5 of text, LF and CR, in blocks of 2, growing up to size 4 by text and LF; about 1 million states | errors returned are those that happened, a listener fails only when it was closed, calls of the owner return, DequeueAll and Peek between their two locks; LastLines returns, and returns the last lines |
| tools | 3 writers, a remover and a reader of the 2 oldest files, sorts with and without pivots; 4 blocks of memory and 3 Runs; every choice of `.env` files for 2 variables; symmetric; about 740 thousand states | files that are ready come whole and in order, whatever happens beside the walk, the comparisons and the reads; guest memory; precedence |
| env_convention | the same variables and files | that `.env.local` overrides the local file of the environment (expected violation) |

*Bounds.* Two callers are enough for every pair of methods to race, also with the
worker and the goroutines of Write, which are extra. With capacity one, two messages
fill the buffer while the worker holds none or one. Two listeners are needed for a Range
that goes on after a timeout. `MaxStartCalls` is the only counter of the broadcaster with a bound;
everything else in it is finite because each message and each listener is used once. With one
Start the panic and the refinement are unconditional; with two the model shows why the
properties speak of restart. Three goroutines in `once` are one in the critical section
and two that lost different races. The instances of the services are the deployments
that the constructors build, with profiling enabled. In event_stream two events with
channel and window of one are enough to have one in every place with another behind it; one
stream suffices because streams share only the broadcaster, where listeners do not affect
each other but by delay, and the client's pointer, which is the subject of event_client.
One table has a prefix that ends in the greatest byte, so that its bound carries; the other
two are nested, and share a key. Three calls of the owner (`MaxCalls`) and three goroutines
(`MaxRuns` of the group) are a start, a second start at an address that was closed, and
a wait over both. Blocks of two bytes
cut a CRLF pair, and five bytes make three blocks, the last one shorter. A writer appends
text or LF (`Appended`) until the file has four bytes (`MaxSize`): this is also why the
growth ends, which `TailReturns` needs. Three files
with two to return leave one out, and one tick (`MaxTime`) separates older from newer; with
`SmallSlices` of 2 or 3 three files are sorted in both ways.
Three Runs (`MaxRuns` of the module) with four blocks allow a call after one that left
blocks behind. Two variables are enough for `EnvLoad`: one that Load itself reads
(`APP_ENV`) and one it does not.

*Deadlock* is checked in broadcaster_safety, once and table, where somebody can always
make another call. It is not in broadcaster_liveness, where a panic ends the program, in
the services and streams, whose life ends, and in the test kit and the tools, where the
number of calls is bounded or the work is done once.

*Symmetry* is used only in runs without liveness, and only of sets whose elements no
definition tells apart; in tools these are the file names, which are random in the code.

*Fairness.* Goroutines that can run do, timers fire, functions passed in return (the
process function once its context is cancelled), and a shutdown ends within its
timeout: weak fairness of each goroutine. Strong fairness is assumed where Go promises
more: `sync.Mutex` and the writer's side of `RWMutex` do not starve a waiter, and
`select` chooses uniformly among ready cases, so that it does not pass over a
cancelled context for ever. gRPC tells a server in the end that a stream is over. In the
service group the goroutines of the waits, with their timers, and the owner inside a call are
fair; that a service ends, becomes healthy or closes its channel is not assumed. LastLines is assumed to go on
reading, of its writer nothing is. Nothing is assumed of consumers, of owners of contexts, or
of callers that are not in a call.

Each property has a mutant in the module of the code it is about: an operator marked
`Mutant` that is the neighbouring definition with one plausible mistake.

### What the checks say about this code

* A broadcaster that is stopped and started again is dead: its context stays cancelled
  and `b.c` stays closed. Started once, it cannot panic; a `Write` or a `Stop` after a
  restart can.
* A `Do` that is overtaken by `Dispose` after its first check returns nil without having
  run anything (`NilMeansRanOrOvertaken` says that this is the only such case).
* A process whose sidecar is gone before the function begins keeps the status "started"
  after Serve returned (`StaleStatusOnlyIfOvertaken`).
* With profiling enabled `Stop` of a gRPC service does not make Serve return: it waits
  for the pprof sidecar, which only the parent context ends (`StopEnds`).
* The end of a stream is silent for a client: Recv ends, but the listeners that
  ListenerForEvents handed out stay open until Close.
* Two overlapping first calls of ListenerForEvents leave a broadcaster that the client no
  longer knows; Close does not stop it, and its listeners stay open
  (`OpenAfterCloseOnlyIfRaced`).
* A handler whose SendMsg fails does not unsubscribe: the cache keeps serving its listener,
  with a timeout for every event, until it is closed (`LeakOnlyAfterFailedSend`).
* An HTTP service whose listener fails returns without cancelling its base.
* The prefix of one table may be that of another plus the beginning of an id, as keys have no
  separators; All of the shorter one then returns rows of the other, or fails on them
  (`ForeignRowsOnlyIfNested`).
* CloseAll leaves the listeners it closes in the map, and a server closes its own: whoever
  listens at the address again ends at once, until Close removes the entry
  (`ListenFailsOnlyIfSpent`). CloseAll also ranges over the map without the mutex.
* Peek of the queue panics when another goroutine takes the elements between its two
  locks (`TwoLocksSafe`).
* LastLines makes a character of every byte: a file that is not ASCII comes back altered, each
  byte above 0x7F as two, and a line of such bytes can be taken for white space
  (`ReturnsLastLines` says what comes back).
* LastLines on a file that is empty at Stat and written to before Seek never returns
  (`TailReturns` names this one case). A last line without a newline is not returned unless
  it is the only one, and `skipEmpty` keeps a blank first line (`ReturnsLastLines`).
* ReadOldestFiles panics when a file is removed between the walk and a comparison of the sort,
  since the error of Info is dropped; a file is visible before its data is
  (`ReturnsOldestWhole`).
* With more than 12 files in the directory a file that is written to during the sort may
  put others in the wrong order, and so leave an older one out: the comparison asks the disk
  again. Up to 12 it does not, since the insertion sort moves one file at a time, and the time
  of a file that is written to only grows (`ReturnsOldestWhole`).
* A guest that returns its parameter, the struct of the result or a block it has freed as its
  string, or frees a block of the host, makes the host free what is not allocated. A guest
  without `malloc`, `free`, the main function or a memory is accepted and panics in Run, as does one
  whose `malloc` returns no value. A runtime whose cache cannot be made is nil without an
  error (`GuestMemoryKept`).

Only one result contradicts what the repository says of itself: Load names the convention
of dotenv, in which `.env.<environment>.local` wins over `.env.local`, and the code lets
`.env.local` win. Run *env_convention* shows it, and `PROJECT.json` lists it as a finding.
`FirstSourceWins` is the order that the code does have.

## 5. Proofs

`SyncProofs` proves the safety properties of run *once* (`RunOnceAlone`,
`NilIsTrue`, `DisposalIsFinal`, each a conjunction of properties that are theorems of their
own) for every set of goroutines. Its inductive invariant says who holds the mutex (a goroutine is in the
critical section exactly when it is the holder), how the counters `inits` and `finals`
follow from the flags and from the goroutine inside, that an error is stored before `done`
is, and what a caller on the unlocked path may have seen. The properties alone are
not inductive: at most one run follows only from the exclusion, and the errors only from
the order of the two stores.

`BroadcasterProofs` proves `TypeOK` (`TypeCorrect`), `NoPanicBeforeRestart` and `StopQuiesces` for any
number of callers, messages, listeners and Starts. The invariant `IInv` has these parts:

* `ArgInv`: which calls have a listener, and which a message, as argument;
* `BarrierInv`: the caller in the status area is the writer and the only one; past its
  check Stop has no readers beside it; accepted writes, and the second half of
  Unsubscribe, are readers, and the flag stays set while they are. So no write is pending
  when `close(b.c)` is reached, and none begins until the flag is cleared;
* `ChannelInv`: a broadcaster that is started although `b.c` is closed has been started
  twice, which is where the premise of `NoPanicBeforeRestart` comes from;
* `MadeInv`: a listener that is found in the map, by the worker or by Unsubscribe, came
  from a Subscribe, and no two Subscribes return the same one;
* `ListenerInv`: the flag of a listener says that its channel is open, and the worker in
  its select is a reader of an open one. So neither Stop nor Unsubscribe closes a channel
  twice or while the worker sends;
* `StopInv`, `OpenInv`: no worker and no listener in a stopped broadcaster; an open
  listener is in the map or in the hands of an Unsubscribe, which is a reader, so that Stop
  cannot overtake it between its two halves.

None of the three is inductive without the others: that a write does not hit a
closed channel needs the barrier, that the barrier excludes needs its readers to be exactly
those who entered, and that Stop leaves no listener open needs the Unsubscribe that has
already deleted one to be inside the barrier.

On top of `IInv`, a second part proves `InOrder`, `NoSkippedListener` and
`RestartDeliversNothing`, for any number of Starts, and a third one that a broadcaster
started at most once implements `OrderedBroadcast` (`MaxStartCalls <= 1` is a hypothesis of
that theorem, since a second Start lets messages be sent on a closed channel). They need:

* `DeliverInv`: the message in the worker's hands is the last it took, and no listener still to
  be visited has it: this is why Range delivers nothing twice. A closed `b.c` implies a
  cancelled context, with which nobody is visited;
* `MapInv`: a listener in the map is open and not in the hands of an Unsubscribe, so that one
  the worker has to visit and finds closed has left the map;
* `RestartInv`: with more than one start the context is cancelled, so that the worker of a
  restarted broadcaster visits nobody;
* `LogInv`: what has been sent is over for its caller, and a message is in one caller's
  hands, so that nothing is published twice;
* `StartsInv`: with one call of Start there is one start, so that a started broadcaster has an
  open channel.

Each step of the broadcaster is then a publication, a subscription, a delivery, an end or
a stutter of `OrderedBroadcast`.

A last part, `NeverLocksUp`, proves that no goroutines of the broadcaster wait for each
other (`NobodyWaitsInACircle`, which run broadcaster_safety checks), for any number of goroutines
and Starts. Unsubscribe waits
at the barrier of a listener while it holds that of the broadcaster, the worker waits at the
former, Stop waits for the worker with the latter in its hands, and everybody else waits
behind Stop. In every state with a call under way or a message in the worker's hands one
goroutine can take its next step (`CallerCanGo`, `SenderCanGo`, `WorkerCanGo`), and no
consumer, owner or new call is needed for that. The proof follows the waits to their end: a
reader waits behind a writer, a writer for the readers and the worker, the worker for an
Unsubscribe that has its listener's mutex, and that one for nobody. For this the invariants
must say who the readers, the waiting and the writer of every barrier are, and what they are
doing (`LockInv`, `ListenerLockInv`), that Stop waits for the worker only with a cancelled
context, that a Range in progress has a listener to visit or is over, and that WriteSync
waits for its own message (`TurnInv`). This is the part of `CallsReturn` that does not need
fairness. TLC has checked that the guards are those of the actions (each is equivalent to
ENABLED of the actions of its goroutine) for 2 callers, a message, a listener and 2 Starts.

The services: `HttpServerProofs` (a service with at most one sidecar, with bases of their own
or shared), `ProcessServiceProofs` and `GrpcServiceProofs` (any number of sidecars) prove
the type invariants and the safety invariants of the runs. What has to be added to
these is how far the second goroutine has come: `ShutterInv` (a service can have an answer
in `errCh` only from a shutdown that ended, and that begins only after cancellation),
`OrderInv` and `StatusInv` (the sidecar's last word on the status is "stopped", and only a
function that begins after it says something else), `HealthInv` and `LoopInv` (Shutdown
comes before Stop; the loop's own variable is what is published).

The three services further prove that cancellation is heard (`CancelIsHeard`, `EndIsHeard`):
whenever the context of a service is cancelled and Serve is under way, one of its goroutines
can take its next step, in whatever order they were started and cancelled. What Serve waits
for must be on its way: the shutdown goroutine is started before the server, `server.Serve`
returns once the shutdown has begun, and its answer stays in `errCh` until Serve reads it,
also when Shutdown is over before `server.Serve` returns (`AnswerKept`); the sidecar that is
waited for has been started (`SidecarStarted`); whoever serves gRPC has a stopper, and one
that has ended has stopped the server (`StopperInv`). The exceptions are in the statements:
Serve may wait for a sidecar whose own context nobody has cancelled (the sidecar of a gRPC
service after Stop, or one with a base of its own), and a process for its function, which is
expected to heed its context. These theorems are the part of `CancelEnds`, `ServeReturns`,
`ProcessRunsAndEnds` and `ShutsDown` that does not need fairness. TLC has checked on the
instances of the runs that the guards `ServeCanGo`, `ShutdownCanGo`, `ProcessCanGo`,
`GrpcCanGo` and `StopperCanGo` are those of the actions.

`TableProofs`: `ScanBoundsExact` says, for bytes of any width and prefixes of any length,
that the bounds of All admit exactly the keys that start with the prefix: the
carry of `keyUpperBound` stops at the last byte that does not wrap, and without one no
upper bound is needed. `RowsStayApart` proves `ForeignRowsOnlyIfNested` from an invariant
that every row in the store and in every iterator lies under a key of its table, and
`IsolatedUntouched` that a write to another table does not change what a table with its
own prefix holds. `ImplementsTables` proves the refinement of `Tables`. It needs that
`Less` is a total order of keys, that ids are in the order of their keys (so `encode` is
injective), and the invariant `ScanOK` of a scan: its snapshot is finite, the keys before
the iterator are less than those after it, and `data` has their rows, the n-th being that of
the key with n - 1 keys below it. Ranks stand in for the induction over the loop: a new key is
greater than all before it, which leaves their ranks alone. At the end the ranks
of the keys are those of the ids, by which `Listing` is defined.

`HelperProofs` proves four helpers. `GuestMemoryKept`, for any number of blocks and Runs and
any guest of the model: every allocated block that is not lost is one the call under way still
has to free (`Owned`), as long as the guest has not gone astray the blocks to be freed
are allocated and different (`DistinctBlocks`), and a host that has panicked with a guest in
its hands was missing something in it (`Incomplete`). `FirstSourceWins`, for any names
and any contents of the files: a variable always has the value of the first of the sources
read so far (`FromFirst`), and sources not read yet have defined nothing (`UnreadFiles`).

`ReturnsOldestWhole`, for any names, any n, any time and both ways of sorting: a name comes to
the directory once, and a file whose writer has flushed it is whole as long as it is there
(`Written`). The invariant of the insertion sort (`Inserting`) is not that a part is sorted,
which a write or a removal may undo at any time, but that *no ready file stands in front of
an older one* (`InPlace`), but for the file that is being moved: the time of a ready file
stays, and the times of others only grow, which puts nothing out of place. A comparison has
the time of a ready file, or an earlier one of another (`Comparing`). The sort with pivots
has seen of a ready file only its time (`Pivoting`). So the order of two ready files is right
after the sort (`Ordered`), and nothing changes it after. That every result of the latter
has all files needs that a sequence of `SetToSeqs` is onto the set, by counting, and that the
cut keeps the places before one it keeps.

`ReturnsLastLines`, for any file, any block size and any number of lines: the invariant
`TailInv` says where a block lies (`BlockInv`: it adjoins the bytes scanned before, and the
last one is as long as the rest of the file) and what the scan knows of the file behind a
place p (`ScanInv`): `firstCharacter` is set as long as there is no newline behind p,
`currLine` is the text from p to the first newline behind it, and `accLines` has the lines that both
begin and end behind p, the n-th of them being the one that has n lines up to it (`Listed`). The
blocks are gone from these statements, which is why they may cut a line or a CRLF anywhere. What a
sequence of steps has computed is so a statement about places, and ranks take the place of
the induction over the file. The invariant holds until the file is written to; of what is
returned after that the theorem, like the property, says nothing.

`NeverStuck` is the safety part of `TailReturns`: no block is sought before the start of the
file, though it may grow, and every step of the reader comes nearer to its end, by a block
further to the front, by the next call, or by a byte (`CursorInv`: a block begins and
ends within the file as long as it is now, and has bytes unless there were none at Stat). That
LastLines returns needs more than this and fairness: that the file stops growing. A writer that
adds a block for every block that is read keeps the start of the file as far away as it was;
with `MaxSize` the model has no such writer, and `TailReturns` says nothing of it. The file that
was empty at Stat is the exception in both.

`EventStreamProofs` proves `TypeOK`, `NothingLostInTransit`, `LeakOnlyAfterFailedSend` and
`OpenAfterCloseOnlyIfRaced` for any callers, changes and windows. Its invariant says, for
every stream (`StreamInv`): what each place of the handler means for its listener
(`HandlerAt`), the same of Recv (`RecvAt`); how the listener follows the log of the cache
(`ListenerAt`); that an event is at one place only, of the handler's hands, the network,
Recv's hands, its pending writes and the log of the client (`Places`), which is why nothing
is doubled although writes overtake each other; and that nothing is missing between these
places (`Complete`). For the client (`ClientInv`): what each step of ListenerForEvents has
made, that a listener stands in the broadcaster its call has read (`CallerListens`), that a
broadcaster that is over has no open listener (`OverHasNone`), and which one Close stopped.
`NothingLostInTransit` is far from inductive: that an event is not doubled needs that each change is
published once (`CacheLog`) and where its listener stands in the log (`ListenerAt`).

`SyncProofs` further proves the action properties of the test kit. `TwoLocksSafe`, for any
goroutines, elements and sizes: past the number of elements that a method has counted there is
none of those it has seen (`SeenInFront`), and the slice got shorter only by the others
(`ShorterIfRaced`). `ResultsTrue` and `ListenFailsOnlyIfSpent`, for any services, addresses,
numbers of calls and of runs: `ConnInv` (no two addresses share a listener, a closed one in the
map means that its address is spent) and `RunInv` (a run has the listener of its own address,
or one that the map no longer has), because of which a server that ends cannot close the
listener of another address; `ErrorsInv` (the errors of the call are those in the queue and
those about to be queued, and nobody queues any more between the two locks of DequeueAll) and
`WaitInv` (each service is waited for, has failed, or is at its end).

No assumption about the number of goroutines, calls or values is made. The assumptions on
constants are those of the modules: the constants of the broadcaster are disjoint
(`Disjoint`), services and bases are wired as the constructors do (`Wiring`,
`MainAssumption`, `ProcessWiring`, `GrpcWiring`), ids and prefixes are sequences of bytes
(`KeysAssumption`, `TableAssumption`), what stands for nothing is not a row
(`NoneAssumption` of `Table` and of `EventStream`, `EnvAssumption`), no name of a method stands for being in none
(`QueueAssumption`), there are finitely many services (`GroupAssumption`), the bounds and the
number of files asked for are natural numbers, a block of LastLines is not empty and the
numbers of lines asked for are integers (`LastLinesAssumption`).

Every safety invariant and action property of the passing runs, and both refinements, are
theorems. Only model-checked: the liveness properties (TLAPS 1.4.5 has no proof rules for fairness
within reach) and the absence of deadlock in the runs that check it (a matter of ENABLED).

## 6. Not modelled

Requests and streams inside the servers; telemetry, logging and file formats; time (timers
may fire at any moment, which includes every relation between timeouts); memory effects
below the Go memory model: all shared state in the modelled code is behind locks, channels
or atomics, except the client's `broadcasterEvent` (see EventStream) and the map that
CloseAll ranges over (see BufConn).

Of the components that are modelled in part: Open and Close of the database and the
marshaler (rows are readable or not); the log callback of a guest, which only reads its
memory, the contents of strings, what a free of something that is not allocated does to the guest's
heap, and deferred calls during a panic of the host; a directory that changes while WalkDir
lists it (its names are taken at one moment, and each file later at its own);
NetConn and the HTTP client, which only dial and configure; Touch, FileExists and
the listings of `ioutil`, single calls of package os; the getters of `env`; the contents of
the cache's map; Dispose of the gRPC service, which runs once after Serve.

Not modelled at all: SyncMap and Set (one library call per method), tickers and the atomic
value (for tests), observability and log (configuration of libraries), service
metadata, health clients and recovery (handlers without state, generated code), and the
stateless helpers. `PROJECT.json` lists the components left out and why.
