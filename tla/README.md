# Verification of all-cpp-websocket-client-server

TLA+ models of the network wrapper (`src/network-wrapper`) and of the sample
application that runs on it (`src/samples/basic-client-server`), TLC runs over
small instances of them, and TLAPS proofs of their safety for every value of the constants. `PROJECT.json`
lists the components, the runs, a mutant for every checked property, the source
lines of every definition, the hazards and the theorems.

    tlc -workers 2 -config session_one_thread.cfg MCWebSocketSession.tla
    tlapm WebSocketSession_proofs.tla

## 1. Inventory

### The program

A server program (`samples/.../server-side`) starts two servers: an
`HttpServer`, which serves the files of a page, and a `WebSocketServer`, which
runs a small chat application. A client, native (C++ threads) or in the browser
(wasm), connects to the second one. Everything on the server, and the native
client's networking, is asynchronous: Boost.Asio's `io_context` calls completion
handlers on the threads that sit in `run()`.

| component | state | operations | talks to |
|---|---|---|---|
| `TcpListener` | acceptor, pending accept | start, stop, `_doAccept`, `_onAccept` | calls the server's callback with each socket |
| `WebSocketServer`, `HttpServer` | io_context, threads, started flag | start, stop | listener; make a session or connection per socket |
| `WebSocketSession` | stream, `_isConnected`, send queue | run, write, disconnect, handlers of accept/read/write | three callbacks into the application |
| `SafeQueue`, `TestAndSetAtomicLock` | list, spin lock | emplaceBack, popFront, peekFront, empty | used by the session and the client |
| `WebSocketMainLogicServer` | players' vector, last id | `_onNewClient`, `_onNewMessage`, `_onLostClient` | session manager, `session->write` |
| session managers | list of sessions, shared mutex | add, remove, forEach | called by the application |
| `stdVectorNoReallocErase` | – | three erase functions | called by the two above |
| `HttpConnection` | socket, timer, request, response | read, process, write, timer | calls the file server |
| `HttpFileServer`, `FileManager`, gzip | file cache | answer a request | called by `HttpConnection` |
| native `WebSocketConnection` | io_context, `_isConnected`, buffers, spin lock | connect, disconnect, send, handlers, destructor | worker thread; four callbacks |
| `WorkerThread`, `ThreadSynchronizer` | mutex, two flags, one task | execute, isAvailable, shutdown, thread method | called by the native client |
| wasm `WebSocketConnection` | browser socket, `_isConnected` | connect, disconnect, send, events of every socket it made | four callbacks |
| client `Application`, `main` | `_isDone` | connect, its callbacks, `startApplication` | owns a client of either kind |
| loader page (`main.ts`, `Application.ts`, `Logger.ts`) | lines of the log, last progress | page load, config, script, module, progress | starts the wasm client, shows its output |
| `TraceLogger` | mutex | format and print a line | called everywhere, nothing depends on it |

### What is hard here

* **Handlers on several threads.** `WebSocketServer` takes a thread count and a
  `useStrands` flag. The strand is used with `net::post` only: completion
  handlers bound with `bind_front_handler` do not run on it. So `write()`,
  called by any session's callback, meets `_onWrite()` of the same session.
* **Decisions on stale values.** `write()` acts on a queue size after the lock
  is released; the client reads `_isConnected` before it takes its lock.
* **Calls that throw.** `disconnect()` calls the `close()` without an `error_code`: it waits for
  the peer's answer, and throws when the peer is gone. Nothing catches it on the way out of `run()`.
* **Two reports of one loss.** A session has one read and one write pending;
  both may fail, and each calls `onDisconnection`.
* **Wake-ups.** `waitUntilNotified()` lowers the flag when it starts to wait.
* **Work that keeps `run()` alive.** A worker runs `io_context::run()` before,
  or after, the operation it is to serve was queued.
* **Lifetimes.** Sessions, connections and the client live as long as a handler
  holds them; a closure in `write()` and the raw `userData` pointer do not.
* **Restart.** `io_context::stop()` is called in several places, `restart()` in
  none.
* **Old events.** In the browser every socket the client ever made calls the same
  object, which does not look at which socket it is.
* **Awaits.** Each await of the loader page may fail, and module output comes
  between two progress updates.

### What makes each component correct

* Session and client: one `async_write` at a time; messages leave in the order
  they were queued, once, and all of them unless the connection is lost; a
  queued message is never forgotten; the loss is reported and the destructor
  does not block.
* Worker thread: no missed notification, the newest task is kept, tasks run in
  order, the constructor and `shutdown()` return.
* Application: list, vector and announcements agree, as far as users are told of each other; a message is announced with
  its sender's id; the session to remove is found; nobody waits for ever for the
  mutex.
* Servers: `start()`/`stop()` return; accepting is serial and goes on.
* Http connection: always ended, by its answer or by its timer.
* File server: every answer is the file that was named, whole; otherwise 404.
* Wasm client: the flag tells whether there is an open socket; nothing is sent on a
  socket that still connects.
* Loader page: loading ends with a working client or with something that says why not;
  the log keeps its size and one progress line, and an update replaces no other line.

## 2. Modules

| module | models | extends / uses |
|---|---|---|
| `OrderedChannel` | abstract: an ordered, lossless-until-broken channel | implemented by the session and by the client |
| `WebSocketSession` | one session, its queue and strand, any number of threads | `OrderedChannel` |
| `WebSocketSession_proofs` | theorems about it | `WebSocketSession`, TLAPS |
| `TaskSlot` | abstract: one place for one task | implemented by the worker |
| `WorkerThread` | `WorkerThread` with its two `ThreadSynchronizer`s | `TaskSlot` |
| `WorkerThread_proofs` | theorems about it | `WorkerThread`, TLAPS |
| `NativeConnection` | the native client over its io_context | the slot of `TaskSlot`, `OrderedChannel` |
| `NoReallocErase` | the erase functions, as operators on sequences | |
| `MainLogicServer` | the chat application and its session manager | `NoReallocErase`; a session is its callbacks |
| `SocketServer` | start/stop of both servers, their listener and io_context | |
| `HttpConnection` | the exchanges of the http server with their timers | |
| `WasmConnection` | the wasm client and the client `Application`, over the sockets of a browser | |
| `WebPage` | the loader page and its log, composed with the client it starts | `WasmConnection` |
| `FileServer` | the cache of files, its construction with the compressor, and the answers | |
| `NativeConnection_proofs`, `MainLogicServer_proofs`, `SocketServer_proofs`, `HttpConnection_proofs`, `FileServer_proofs`, `WebPage_proofs` | theorems about these modules | the module, TLAPS |
| `MC*` | instances for TLC | |

The layers meet through what the lower one is shown to do.
`MainLogicServer` takes from `WebSocketSession` that a session calls
`onDisconnection` once for its reader and once for its writer at most
(`LossPerDirection`; the theorem `OneThreadLosses`), and `NativeConnection` uses the worker as the one-place
slot that `ImplementsSlot` proves it to be. `WebPage` extends `WasmConnection`: its
actions conjoin a step of the client with what that step writes to the page's log.

### How the models correspond to the code

**Sessions.** An action is one completion handler, up to the next point where
another thread can see or change what it uses. `write()` is split after
`emplaceBack` (place `post` or `doWrite`), `_onWrite()` after `popFront` (place
`popped`, then `CheckEmpty`). A message is its rank among the calls of
`emplaceBack`. `reading` is the accept/read chain, `inflight` the list of
`async_write` operations: a list, since nothing in the code forbids two. `HasOwner`
says that a `shared_ptr` to the session exists. `crashed` is set when the code
would do what C++ leaves undefined: `front()`/`pop_front()` of an empty list, or a
posted closure whose session is gone. `Disconnect` is a step of a callback or, at any
time, of a thread outside the io_context, as the tests call it. Its `close()` may throw: `terminated` is set and
nothing happens any more (a caller outside may catch it, and then the behaviour goes on).

**Worker.** The worker holds the task mutex from the moment it announces itself
until it waits, and while it runs a task, hence one variable `taskLocked`; a
user's critical section is one step. Both waits may wake without notification
(`Spurious`, `SetupSpurious`). The locking model is chosen in `Launch`: the code
has both, and its factory asks for `lockThreads`.

**Native client.** `Main` connects and finally drops the object; all users send; `Main` and
every callback may disconnect, and every callback may send unless it runs under the spin
lock (`locked`, which `_onWrite` holds across `onError`). `disconnect()` and the `connect()` that begins with one may set `terminated`, as for a session. `SendCheck` reads `_isConnected` without the lock, `SendPush` pushes under it.
`ops` are the pending operations that open the connection or read; `RunReturns`
fires when the io_context is stopped or has no work, and leaves it stopped. `Release` is the
end of a handler: with no other operation pending and no user left it runs the destructor
on the worker, and the behaviour ends there.

**Wasm client and page.** `ready` holds the `readyState` of every socket made, the oldest
first; the object can only name the newest (`wsSocket`), but each of them calls `_onOpen`, `_onMessage`,
`_onError` and `_onClose`. `send()` and `close()` do what the WebSocket API says they do in each
state. The page is one `stage` that each await moves on or ends in `failed`; the
log is the kinds of its lines, and the module may print and report progress while it loads.

**Application.** A callback is a sequence of steps: `TakeId` and `BumpId` are the
read and the write of `_lastPlayerId++`, `ForEachStart`/`ForEachWrite`/`ForEachEnd`
the loop under the shared mutex. `RemoveSession` sets `status` to `"exception"` when
the manager throws: nothing between it and the thread's function catches, so the
program ends there. Two threads in the unlocked vector at once may end
in `"undefined"` (`UseVector`). `playersData` names each player by the session it was made for, and `ReadableIds` is
what `userData->id` may be: the player's own id as long as the vector holds it, anything once it was
erased. `Init` chooses how many threads the server was given.

**Servers.** `start()` is `Start`, `Listen`, one `Launch` per thread; `stop()` is
`Close`, `StopContext`, `Join`. An `async_accept` result is queued in `completions` and
handled by some thread (`TakeAccept`, then `OnAccept` or `OnAcceptError`, then
`DoAccept`). The sessions are seen only as work that may occupy a thread.

**Http connections.** Each operation is `none`, `pending`, `ok`/`error` (its handler is
queued) or `done`. Expiry, cancellation and completion race; where asio
serialises two calls on one object the model takes both orders.

**Files.** `FileManager`'s constructor is `LoadFile`/`SkipEntry` for each entry of any small
disk, visited in any order, one `Deflate` per turn of the compressor's loop, and
`CacheFile`. What zlib packs a file to is a size; the 1024 bytes the buffer grows by are
scaled to `Chunk`. Afterwards the cache never changes, so an answer is one step. The
property compares answers with the disk, never with the cache.

## 3. Runs

Twelve runs: nine that pass and three that show a disagreement with what the
repository says of itself.

| run | instance | shows |
|---|---|---|
| `session_one_thread` | 1 thread, 4 messages (586 states) | the server's default: an ordered channel, one write at a time, nothing undefined, loss reported, also after a `disconnect()` that does not throw |
| `session_two_threads_strand` | 2 threads, strand, 3 messages (7,546) | what remains true with threads: no forgotten message, no blocking destructor |
| `worker` | 2 users, 6 tasks, both locking models (2,049) | the worker implements the slot, and nobody waits for ever |
| `app` | 1 thread and up to 3 sessions, or 2 threads and 2 sessions, 1 message, every failure (219,769) | list and vector agree; messages carry their sender's id; removal throws only for a loss reported too often; no deadlock; with one thread users know who of those that came after them is there |
| `client_sends` | 2 users, 2 attempts, 5 messages (4,430) | an ordered channel; silence after the end; no sender spins for ever; no open connection is destroyed |
| `server` | 2 threads, 2 clients, 3 starts, every failure (43,910) | calls return; the listener's handlers are serial; a first start keeps accepting |
| `http` | 2 threads, 2 connections (14,154) | every connection ends, with the timer or the answer |
| `files` | 2 entries, 4 paths in 2 directories, sizes 0 to 3, packed sizes 1 to 3 (54,174) | an answer is the whole file that was named, packed when smaller and wanted; the compressor stays in its buffer |
| `web_client` | 3 sockets, 1 message beside the pings, a log of 3 lines, 4 module messages (49,621) | the flag is honest and the pings go out unless connections overlap; loading ends with a ping or with a reason; the log stays tidy, and an update takes no other line from it |
| `session_overlap_strand` | 2 threads, strand, 3 messages | **violated**: two `async_write` at once |
| `app_handshake` | 1 thread, 2 sessions | **violated**: a failed handshake throws from `removeSession` |
| `client_first_connect` | 2 users, 1 attempt | **violated**: an attempt that is never answered |

`CHECK_DEADLOCK FALSE` is in every configuration: a peer may stay silent and a user
may stop calling, and the bounds end every behaviour.

**Bounds.** They are constants of the modules and named there as bounds.
Three or four messages let a queue be empty, hold the message in flight, and hold one
behind it, with another thread adding one more between the two halves of `_onWrite`.
Five messages let two users and two callbacks add theirs to one that is being sent.
Two threads suffice for every pairwise race of handlers; three sessions put a
session first, in the middle and last in the vector that swaps on erase; two
sessions on two threads give newcomers that overlap. `MaxLoad` bounds threads and
sessions together: the two cases meet in one run, three sessions on two threads do not.
Three sockets let the second be opened after the first one's end and the third over the
second's; a log of three lines is full before the loading is done. Six tasks let the newest
overwrite waiting ones while an older one runs. Three starts reach start, stop,
start and the `start()` that stops first. Thread symmetry is used in the safety-only
session runs: no definition there names a thread.

**Fairness.** A thread in a handler goes on (WF), callbacks return, and the queue of
an io_context and of a strand is first in, first out, so a ready handler is not
passed over for ever (SF where other handlers can disable it for a while). Writes
complete with success or failure because `_onRun` and the client's `on_connect` set Beast's timeouts. The
clock of the http timer runs. Nothing is assumed of users, nor of peers but one thing: a callback that is in the blocking `close()`
returns, because the peer answers or goes away. Nobody must connect, send, read or stop. The page's awaits are settled, and a browser's socket opens or
fails; an open one may stay open. `app` needs only WF: the broadcasts a writer
waits for are finitely many there. On a machine that never stops broadcasting,
`std::shared_mutex` does not promise that a writer gets in; that is outside the run.

### What goes wrong

The three violated runs:

* `session_overlap_strand`: `write()` posts `_doWrite` to the strand, `_onWrite` runs
  on any thread and starts a write itself. The queue is emptied between the pop and
  the unlocked `empty()`, a new `write()` finds size 1 and starts a write, then `empty()`
  is false and starts another. Without a strand the same happens.
* `app_handshake`: `_connectionError` calls `onDisconnection` also for a connection that
  never reached `onConnection`; `removeSession` throws on an io_context thread.
* `client_first_connect`: `execute()` hands `run()` to the worker before `async_resolve`
  has queued anything; a quick worker finds no work and returns.

Related behaviour that the models reach, and that has no run of its own:

* `disconnect()` of a session calls `close()` without an `error_code` (`WebSocketSession.cpp:60`). When the peer is
  gone, or the stream has failed and the report is still to come, it throws; out of `onMessage` or `onConnection` the
  exception passes `run()` (`WebSocketServer.cpp:72`), which nothing catches, and the program ends. The read that would
  have reported the loss never starts: `DisconnectIsReported` says that this is the only way for the report to
  be missing (`Disconnect` sets `terminated`).
* The native client does the same (`WebSocketConnection.cpp:242`), in `disconnect()`, in a `connect()` that begins with one, and
  without any race when `onError` calls `disconnect()`: `_failed` calls it before it clears `_isConnected`, on a stream that has just failed.
* A newcomer is told its id and nothing else (`WebSocketMainLogicServer.cpp:58-99`): it learns of users that
  come later, and is told when one leaves that it never heard of, but never who was there before it. `ViewMatches` says what
  the announcements do give: of the users that came after, who is there.
* A session whose read and write both fail is removed twice and `removeSession` throws
  (`RemovalThrowsTwiceLost`: with the failed handshake these are the only ways).
* With two threads two newcomers may be given one id, and of two newcomers that overlap
  (each broadcasts, then enters the list) the first in the list never hears of the other
  (`ViewMatches` holds with one thread). A session may be reported lost more than twice once its writes overlap
  (`LossPerDirection`, likewise); a write posted to the strand may run after its session
  was destroyed (`NothingUndefined`, likewise).
* `execute()` before the worker took the previous task replaces it (`TaskSlot` says so).
* A second `connect()` of the native client finds a stopped io_context: `run()` returns
  at once and the attempt is never answered.
* If users drop the native connection while a handler is pending, the handler holds the
  last reference and the destructor runs on the worker, which locks a mutex it holds
  and joins itself. `connect()` from a callback waits for that same mutex, and a send from
  `onError` after a failed write spins on a lock its own caller holds.
* With two threads the reader of a session whose writer was reported lost may still deliver
  a message: `userData` then points into a vector that no longer holds the player
  (`MessagesNameTheirSender` excepts exactly these sessions).
* Two wasm connections that overlap share one flag: the end of the old socket clears it although
  the new one is open, and the next `connect()` then leaves that one open; an old socket that
  opens late raises it, and the application's ping meets a socket that still connects, which
  throws in the browser. `FlagIsHonest` and `PingsGoOut` say what holds again after a `connect()`
  that found the others closed. `_isDone` is never lowered.
* The loader page skips a progress update when `lastProgressLevel <= percent`, the opposite of
  what it means: a download that advances is never shown; only a status of 0/0, whose
  percentage compares false with everything, or one that goes back gets a line.
* A server started after `stop()` launches threads whose `run()` returns at once; one
  failed accept ends the accept chain. `FirstLife` in `SocketServer` excludes both.
* With two threads an http exchange may end before `start()` begins to wait on the timer;
  the connection is then kept for the rest of the 60 seconds.
* `HttpServer`'s listener holds a callback that holds the server: a `shared_ptr` cycle.

## 4. Proofs

Every safety invariant that a passing run checks, and the safety properties of actions
(`MessagesNameTheirSender`, `NoCallbackWhenGone`, the second half of `LogIsTidy`), is a theorem of its specification, as are the
three refinements as far as they are safety. The theorems hold for every value of the constants
that satisfies the modules' assumptions: a bound is a natural number (some of them positive), a switch is a
Boolean, a session has a thread (`WebSocketSession`), the owner and `Main` are users
(`WorkerThread`, `NativeConnection`), progress is reported in natural numbers (`WebPage`). None of the bounds of section 3 is
assumed. They are about `Spec`, the specification without fairness; the runs that
also check liveness use `FairSpec`. Each inductive invariant was first checked by TLC on the
run's instance.

| module | holds for | theorems | inductive invariant |
|---|---|---|---|
| `WebSocketSession_proofs` | any threads, with and without the strand | `TypeCorrect`, `NeverStalls`, `DestructorIsQuiet` | `ControlInv` |
| | the same, while no two writes overlap | `OnlyOverlapReorders` | `Ordered`, `Sending` |
| | one thread | `OneThreadOneWrite`, `OneThreadDefined`, `OneThreadSendsInOrder`, `OneThreadLosses` | `OneThreadInv`, `LossInv` |
| `WorkerThread_proofs` | any users, both locking models | `TypeCorrect`, `NotificationsArrive`, `NewestTaskKept`, `AvailabilityIsTrue`, `TasksRunInOrder`, `ImplementsSlot` | `WorkerInv` |
| `MainLogicServer_proofs` | any threads, sessions, messages | `RosterIsOnline`, `RemovalOnlyThrowsTwiceLost`, `MessagesAreNamed` | `RosterInv` |
| | servers with one thread | `UsersKnowWhoCameAfter` | `ViewInv` |
| `NativeConnection_proofs` | any users, attempts, messages | `OneWrite`, `NeverStalls`, `DestructorIsQuiet`, `SilentWhenGone`, `SendsInOrder` | `ClientInv` |
| `SocketServer_proofs` | any threads, peers, starts | `AcceptsAreSerial` | `ServerInv` |
| `HttpConnection_proofs` | any threads, connections | `ReleasedEnded`, `TimerAlwaysGuards` | `ConnectionInv` |
| `FileServer_proofs` | any disk, sizes, `Chunk` | `DeflateStaysInBuffer`, `AnswersAreTheFiles` | `FilesInv` |
| `WebPage_proofs` | any sockets, messages, size of the log | `FlagTellsTheTruth`, `PingGoesOut`, `LogStaysTidy` | `PageInv` |

**Sessions.** `TypeCorrect` is inductive by itself. `NeverStalls` is
not: that a queued message has somebody about to send it depends on what the thread
in `popped` will find and on the strand's closures. `ControlInv` adds `Located` (a
place inside `write()` or `_onWrite()` occurs only in the handlers that have it) and
`ReadChain` (as long as no loss was reported, the accept/read chain is pending, posted,
or in a callback). `DestructorIsQuiet` follows from `ReadChain`: a session with no
owner has no read chain, so a loss was reported, and the flag was cleared with it.
Both hold for any number of threads, and with `disconnect()` from outside the io_context.
`Ordered` relates the queue to what was accepted and written: the queue is exactly the ranks from
`Len(written) + 1` to `accepted`; `Sending` says that the write in flight is its head. Every step keeps both unless it
starts a write beside another one, and is then an `Accept`, a `Deliver`, a `Break` or a stutter of
`OrderedChannel`: `OnlyOverlapReorders` is that refinement under the hypothesis `[]OneWriteAtATime`, which
`session_overlap_strand` shows several threads to break. So the overlap is the one
defect behind messages sent twice or out of order. With one thread (`SingleThreaded`) `OneThreadInv` adds `Exclusive`, that a write in
flight and a thread about to start one exclude each other; `OneThreadOneWrite` and `OneThreadDefined` follow,
`OneThreadOneWrite` discharges the hypothesis, and `OneThreadSendsInOrder` is the refinement without it.
`OneThreadLosses` needs that a loss ends a direction for good (`EndedForGood`): after a failed read
nothing starts another; after a failed write the queue is never empty again, so `write()` leaves
its message to an `_onWrite` that will not come. `LossesEnd` counts one loss for each direction that ended.

**Worker.** `WorkerInv` is `TypeOK` with `Phases` (where the mutex and the
flags are at each place of the two threads), `Progress` (the waiting task is the newest,
and newer than all that ran) and `Kept`. The flag rules in `Phases` are what makes
`NotificationsArrive` inductive: the flag is up while a task runs, and the wait that
lowers it starts under the mutex. `ImplementsSlot` is the refinement of `TaskSlot`.

**Application.** Between callbacks the list and the vector hold the connected users; while callbacks run each of
them may be anywhere in between. `RosterInv` says for each session which of the callbacks that are
running may still owe it an entry or a removal: `role` and `who` reduce a thread to the kind of its callback
and the session it is for, and `Parts(s)` relates them to the two vectors. Its conjuncts need
each other: `OneReader` (the reads of a session and what they lead to come one after the other), `Fresh`,
`LostOnce` (a session is lost once unless a write to it failed and its reads have ended too), `Listed`, `Kept`,
`Identified` and `Removable`. Each action changes `role` and `who` in a few ways (`Moves`), and
the vectors by `Append` and by the swap-and-pop erase, whose lemmas (`EraseContains`: what is left is what was there
less the value, still without duplicates, and the result tells whether the value was there) are about the model of `stdVectorNoReallocErase`.
`MessagesAreNamed` is an action property that follows from `RosterInv`: the user whose message is read
is not lost, so its `PlayerData` is still in the vector. `ViewInv` adds `InOrder` (sessions are
numbered as they come) and, for one thread, `View`: ids differ and grow
(`IdsOK`), a note names the user it is about (`NotesOK`), only lost users were said to have left
(`GoneOK`), and a listed user knows (`Known`) those of the list that came after it, and the one that is coming or going exactly when the
loop of `forEachSession` has or has not passed it (`Expected`, `ViewsOK`). The last is why `ViewMatches` is not inductive.

**Native client.** `ClientInv` combines `OneAttempt` (an unanswered attempt has exactly one
opening operation), `OneLife` (an answer means the io_context has run, so nothing serves a second attempt),
`OneConnection` (a connection that is gone does not come back, and nobody sends before there is
one), `Reading` (an open connection is read, or in the callback that follows a read or ends it), and for the
buffers `Exclusive` and `Ordered`, the same idea as for a session. `SilentWhenGone` follows from
`OneAttempt` and `OneConnection`; `SendsInOrder` is the refinement of `OrderedChannel`'s safety.

**Servers.** `SerialAccepts` alone is not inductive: `ServerInv` adds `OneAccept` (until the io_context is
stopped there is one accept, pending, completed or handled) and `CallerKnows` (`join` waits for threads of a
stopped context, and `start()` listens when no thread is left), which rules out that a second chain of accepts starts beside the first.

**Http connections.** `Located`, `OneEach`, `Sequenced` and `Timed` say for each connection where its threads may be,
that one starts it and one answers it, that read, write and shutdown follow each other, and what a timer that ended
means: the socket was closed, or answered and shut down.

**Files.** `FilesInv` relates the cache to the part of the disk that was visited (`CacheOK`: a target that is not
cached names only files still to come; a cached one holds what the disk says of a file it names) and
bounds the compressor: its loop ends only when everything is out, because `avail_out` is left over
only then (`DeflateNext`).

**Wasm client and page.** `OthersClosed` (after a `connect()` that found the older sockets closed they stay so) makes
`FlagIsHonest` and `PingsGoOut` inductive. A step of the page is a step of the client or leaves it alone
(`WasmSteps`) and adds lines to the log in one of a few ways (`LogSteps`); `PushedTidy` shows that the logger's push, with
its replaced progress line and its cut at `MaxLines`, keeps a tidy log tidy, and `PushedKeeps` which lines it leaves, from
which `LogSaidStays` gets the action half of `LogIsTidy`.

**Only model-checked.** Liveness, which under fairness is out of the prover's reach: `SendsEverything` and
`TakesWhatWaits` as far as they are liveness, `DisconnectIsReported`,
`ConstructorReturns`, `ShutdownReturns`, `HandlersReturn`, `SendsReturn`,
`CallsReturn`, `ClientsAreAccepted`, `ConnectionsEnd`, `PingsOrTells`. The three violated runs are counterexamples, and
have no theorem.

## 5. Not modelled

* Torn reads: `peekFront()` and `empty()` read the list without its lock, and two threads
  use one Beast stream. The models have the interleavings of whole accesses.
* `int32_t` wrap of the player ids.
* Of the native client: `connect()` from a callback, overlapping attempts, and sending from
  `onError` under the spin lock; what they lead to is said in section 3. An empty message, for which the
  buffer's constructor throws out of `sendBinary` before anything is queued.
* `stop()` from a server's own handler.
* The timed `waitUntilNotified`, which nothing calls.
* Of the wasm client: its destructor, which leaves the sockets' callbacks with a pointer to a
  dead object (the program never deletes its `Application`), and a failing
  `emscripten_websocket_new`, whose result is not looked at; the early return of `startApplication()` where there are no
  websockets (`main.cpp:64-67`), which the page has asked before it gets there. Of the page: `abort()`, which nothing
  calls; that the page has its text area, as `index.html` does.
* Of `FileManager`: the exceptions of its constructor (a base path that is no directory, a compressor that
  fails), which end the program before it serves anything; a base path that ends in a slash, and a path without any dot, for which
  `substr(npos)` throws: the program passes `./files`. An `Accept-Encoding` is seen only as holding
  "gzip" or not, as the code does. `HttpFileServer` without a `_customHandler`, which it calls unchecked:
  the program sets one.
* `TraceLogger`, and `update`, `render` and the endless loops of the two `main.cpp`: they keep no
  state that anything else reads. The tests were read as documentation.

## 6. Plan

Done, the most important behaviour first: session, worker, application, native client, servers, http
connections, files, wasm client and page, with calls from callbacks and from outside; then the theorems of section 4,
one component after the other. Every component that keeps state is modelled, and every safety property
that a run checks is proved. What may still be added:

1. who waits for whom, as invariants: the safety half of `HandlersReturn` (the threads that wait for the manager's
   mutex, and who holds it), of `SendsReturn` and of `ShutdownReturns`;
2. the worker inside `NativeConnection` as an instance of `TaskSlot`.
