# A TLA+ development of fc

fc is a C++ library whose programs run as cooperative *fibers* ("contexts") on a few OS threads of
class `fc::thread`. A call that waits is a fiber that suspends, a completion handler is a promise
another OS thread fulfils, a periodic job is a scheduled task. On this core stand mutexes, sockets,
RPC, HTTP and logging; beside it stand values, their encodings, and compression. This directory models
them as TLA+ modules, checks them with TLC on small instances and proves properties of the central
ones with TLAPS for instances of any size. Paths are relative to the repository.

## 1. The system

`PROJECT.json` lists every component with its sources and status, the source lines of each
definition, and the places that are hard to test ("hazards") with the properties that guard them.

| component | state | hard | correct if |
|---|---|---|---|
| task queue of `fc::thread` | lock-free stack, two heaps, condition variable | posters and the worker interleave at any memory access | no wakeup lost, tasks in posted order, each settled once |
| fiber scheduler, promises, tasks | ready, blocked and sleeping lists, waiter counts, flags | value, timeout, cancellation and quit race for a suspended fiber | every fiber in the lists its state calls for, no waiter forgotten, cancellations on target |
| `fc::mutex` | list of users with the owner last, recursion counter | hand-over to another thread | exclusion; the new owner is woken |
| spin locks, `shared_ptr` | a word, a counter | threads, deadlines; copies while the last reference goes | one owner; alive while referred to |
| `file_mutex` | reader count, lock of a file | processes and fibers | writers alone, nothing left locked |
| `rpc::state`, `json_connection` | awaited numbers, handler tasks, write mutex | replies out of order or twice, close and destruction meanwhile | own answer, once; frames whole |
| API dispatch | tables of methods and callbacks on both ends | numbers that outlive what they name | a proxy reaches its object |
| sockets, rate limiting | requests, buffers, token bucket | handlers on asio's thread, cancellation | buffers alive, rate kept, waiters told |
| websocket, HTTP, NTP | tasks, connections, request chain | destruction while tasks run | nothing outlives its object, waits end |
| streams, cin | buffers, ring, end of file | a stream below that fails; a reader thread | bytes in order, none lost |
| logging | loggers, appenders, rotation | reconfiguration, restarts | as configured; young lines kept |
| filesystem | names of temporary files, lock files | moves, copies, failing removal | one owner per name |
| exceptions | class, code, log | rethrow over promises and wire | class and history arrive |
| variant, optional, static_variant, objects | heap cell, placed object, shared vector | copies, constructors that throw | one owner; the tag tells the object |
| JSON, raw, UTF-8, encodings, numbers | – | inverse functions, limits, overflow | what is printed or packed is read back |
| addresses, URLs | – | texts of several forms | texts, packing and order agree |
| keys and ciphers, compression, bloom filter | small | round trips, streams cut anywhere | inverse functions; nothing lost or denied |

*Interaction.* `async()`, `schedule()`, a notification for another thread and the message of a
cancellation are tasks pushed on `task_in_queue`; only the poster that finds it empty signals. A
waiter counts itself at the promise and joins `blocked` (and `sleep_pqueue` with a timeout); whoever makes
the promise ready posts `notify()`. `cancel()` sets flags from any thread without the scheduler's lock.
`quit()` runs as a task and unwinds all fibers by exceptions. `mutex::unlock()` makes the oldest
waiter the owner and posts its wakeup. RPC, HTTP, websockets and rate limiting use tasks and
promises only.

## 2. Modules

    Mailbox   <- TaskQueue <- MCTaskQueue        what async() and schedule() promise
    Calls     <- RpcState, JsonConnection        what a call over a connection promises
    Dictionaries <- VariantStorage               what variant_object promises
    Fibers                                       its inbox is the FIFO TaskQueue implements
    FiberMutex <- MCFiberMutex <- MCSafety       MCSafety, MCCalls, MCServices: the other components
    FileMutex, CinBuffer, Websocket <- ServiceProofs      likewise ComponentProofs, FibersProofs, ...

The level of atomicity follows the code: `TaskQueue`, `SpinLock`, `Retainable` and `CinBuffer` step
at each memory access two OS threads can interleave at; `Fibers` and what runs on it step from one
suspension to the next; pure algorithms are functions.

* **TaskQueue**: `Async`, `Push`/`Retry`, `Notify` are the read of the head, each
  `compare_exchange_weak` and the signal of `async_task()`; `Move` drains and renumbers;
  `Lock`, `SkipWait`, `IdleGuard`, `Recheck`, `Wait`, `Resume` are the end of `process_tasks()`.
* **Fibers**: `stage` is the place of the running context in `process_tasks()` or
  `start_next_fiber()`, `at[c]` where a suspended one continues. What one library call changes
  several times (heaps, lists, promises) is a record, so that `SetException`, `Notified`, `MakeReady`
  compose as the calls do. `runq` is `ready_heap` and `task_pqueue`, which share
  `next_posted_num`. Other threads fulfil (`EnvSet`, `EnvNotify`) and cancel (`EnvCancel`, `EnvFlag`) in
  two steps each. `BreakUndefined` is a vector cleared while it is iterated over: the process goes on
  or ends.
* **FiberMutex**: `Lock`, `YieldToWait`, `Switch` are the stretches of `lock()`, `Release` the body of
  `unlock()`, `Unblock` and `Deliver` the wakeup.
* **RpcState**, **JsonConnection**: callers, the read loop, handlers as fibers, the peer and the stream.
  `raced` and `OneThread` in them and in **FileMutex** name the executions for which the code keeps its promise.
* **RateLimiting** (with the division of tokens), **Sockets**, **Websocket** (server and client),
  **HttpServer**, **NtpClient**, **CinBuffer**, **BufferedStreams**, **FileMutex**, **SpinLock**, **Retainable**,
  **LogRotation**, **Loggers**, **ApiConnection**, **Filesystem**, **Exceptions**: one action per operation or handler.
* **VariantStorage** (variant, optional, static_variant, variant_object), **BloomFilter**: values with
  storage.
* **Json** (validator and printer as machines, three parsers as functions), **Raw** (and
  conversions), **Encodings** (and UTF-8, smaz), **Numbers**, **Addresses** (and URLs, forms), **Cryptography**
  (keys over a small group; ciphers over small words), **Deflate** (match finders, Huffman tables, the zlib
  stream interface, its search compressor as a machine), **ZipArchive**.

A definition whose comment begins with *Fault* is a broken variant of the next one which no action
uses: the mistake that would violate a property.

## 3. Runs

The six passing runs check 40 properties, each a conjunction of what is said of one component; the
definition of each in its module names its parts.

| run | instance |
|---|---|
| `queue` | 2 posters, 2 tasks, an idle task, quit, 2 instants; also refinement of `Mailbox` and `EveryTaskSettles` |
| `fiber_core` | 2 tasks with 1 operation each, 2 promises of another thread, quit, 3 instants |
| `fiber_live` | cancellation by another thread in its two steps, under fairness |
| `calls` | MCCalls: connections and RPC (refinement of `Calls`, liveness), deflate and zlib, keys, ciphers, files and paths, loggers, addresses, URLs, HTTP |
| `services` | MCServices: rate limiting, its division, `file_mutex`, cin, websocket server and client; liveness |
| `safety` | MCSafety: mutex, NTP, log rotation, API tables, JSON, raw and conversions, UTF-8, numbers, encodings, variants, objects, spin locks, shared_ptr, bloom filter, streams, smaz, sockets, exceptions, zip |

`MCSafety`, `MCCalls` and `MCServices` hold components that have nothing to do with each other: the
first state chooses one ("subject"), the others rest. A pure algorithm is a component whose input is
chosen in the first state and looked at in one step, against a reference definition (the inverse, the
mathematical value).

Deadlock is not checked where a program may have nothing left to do: an idle worker waits, one that
has quit has ended, a pure algorithm stops.

The other six runs each find an execution against a sentence of the repository: `queue_quit` (a task
pushed last is not cancelled by `quit()`), `fiber_setonce` (a timeout replaces a value that was set),
`fiber_waitany` (`wait_any()` registers with no promise), `fiber_unwind` (`exec()` returns before all
fibers are unwound), `mutex_assert` (a cancelled new owner unlocks a mutex whose counter is 0), and
`copy_on_write` (MCSharing: a write to a variant_object goes through entries that copies share).
"findings" quotes them.

*Bounds.* Two posters suffice for every race on the stack: one reads a head that the other, or the
worker's exchange, changes; two tasks and an idle task reach the head that is taken and replaced. Three
instants hold a deadline that has just not passed and one that has. `Fuel` is the number of operations of a
task; contexts are reused, so their number bounds how many are suspended at once. `Wrap` = 4
stands for 2^32 of the recursion counter. Messages, chunks, names and words are few and small
(`FewEntries`, `MaxOfAll`, words of a few bits): each module names its bounds, chosen so that a
buffer fills, a counter wraps, a chunk is cut and a list has a middle. `CallersInTurn`, `PeerInTurn` and
`RpcInTurn` (MCCalls) let equal callers and messages begin in order; `CancelInTurn` and `FewMessages`
(MCSafety) bound who is cancelled and what is sent.

*Fairness.* Weak fairness of what a running thread does next (`WorkerStep`, `PostStep`, `SchedStep`, the
read loops, handlers that asio has queued), of the second halves of `_set_value()` and `cancel()`,
and of the clock: the operating system schedules runnable threads. Nobody has to post, reply,
fulfil or cancel; so liveness properties say what follows from something that has happened.
`FairSpec` (TaskQueue, Fibers), `MCFair` (calls) and `ServicesFair` list the actions.

## 4. Proofs

| module | what is proved of | inductive invariant |
|---|---|---|
| TaskQueueProofs | task queue: `TypeOK`, `NoLostWakeup`, `WaitCoversSchedule`, `OneHome`, `SettledOnce` | `IInv` |
| FibersProofs | scheduler: `FiberHasOneHome`, `WaiterIsNotified`, `WaitersCounted`, `CancelIsDelivered`, `CancelHitsItsTask`, `SleepNotEarly`, `NothingNewAfterQuit`, `TypeOK` | `FbInductive` |
| FiberMutexProofs | `fc::mutex`: `MutualExclusion`, `HandoverComing` | `IInv` over `Core` |
| ServiceProofs | `file_mutex`: `FileMutexExcludes`; the ring of cin: `InputIsIntact`; websocket server and client: `WebsocketIsGuarded` | `FmInductive`; `CinInductive`; `WsInductive` with `RequestsTyped`, `WcInductive` |
| RpcStateProofs, JsonConnectionProofs | own answers, settled once, whole frames, flushes, refinement of `Calls` | `RsInductive`; `JcCore`, `Framing` |
| ComponentProofs | sockets, exceptions, optional and static_variant, bloom filter, NTP, spin locks, `shared_ptr` | `SkInductive`, `ExInductive`, `IpInductive`, `BfInductive`, `NpInductive`, `SlInductive`, `RtInductive` |

They hold for every value of the constants that satisfies the named assumptions of the modules: finite
sets of contexts, tasks and fibers; positive widths; a bloom filter has a hash (`BfAssumption`); `Nothing`
is no place and there are finitely many pointers (`RtAssumption`); there is an asio thread (`WsAssumption`).

*TaskQueue.* A stack becomes non-empty only by a push that read a null head, which leaves its poster
before the signal; it signals with the mutex that the worker holds from its last look to its wait.

*Fibers.* The lists are reasoned about as sets. Steps that notify promises only move contexts from
`blocked` and the sleepers to the ready heap (`Released`), shown once for each operator on the record
(`SetReadyReleases`, `NotifiedReleases`, ...) and reused by every action. `FbInductive` conjoins
the types, `Control` (which kind of context is current at each stage), `Stored` (what a context's
promises and deadline are in each way to be suspended), `Homes` (who is in which list), `Notices`
(a ready promise's message is coming), `Flags` (a cancelled context's message is coming) and
`WaitersCounted`. None is inductive alone: a notification reaches all waiters only because the count is
exact, and the count is exact only if no fiber returns twice from its wait, which is what
`Homes` excludes. `FiberHasOneHome` is proved for `Prompt` clocks and `CancelHitsItsTask` for
cancellations by tasks of the thread itself; without these restrictions the code violates them (section 5).

*Mutexes.* `FiberMutex`: while nothing is cancelled the list holds exactly the users, its last is the
owner, and who is in a ready heap yielded or is the new owner. `FileMutex`: `ProcessesExclude` holds as
long as no last reader `raced` a new one in `unlock_shared()`.

*Connections.* A number is awaited exactly while its promise is unsettled; each step of the connection
is a step or a stutter of `Calls`. `rpc::state` implements it if it is used from one thread.

*Websockets.* A handler waits for the task it posts, so a connection has one task of a handler at most, and
what a message left to deliver is ahead of it in the queue (`Ordered`): nothing is delivered after
`closed()`. The connections that a handler posted for up to a place of the queue, and those with a delivery
behind it, all waited at one time (`CrowdIsSmall`): there are no more of them than asio threads. When the
destructor copies its list, a connection is on it, ended, away or in `Coming`; only those of `Coming`
can be left when it returns (`EndAgrees`). The client is in one of five phases by the state of
the peer (`WcPhases`); the close handler is the last to post, and the destructor waits for it unless `close()` threw.

*Sockets.* asio may use a buffer of a fiber only while the fiber waits, or if its cancellation has unwound it:
a request is late only for a fiber that is `unwound` and whose buffer the handler does not share.

*Only model-checked.* Liveness and ENABLED. What recursive functions compute over texts and trees, which
needs induction over data: `AlgorithmsAreRight`, `ValuesReturn`, and `ImplementsMailbox`, whose mapping sorts a
heap. And the invariants of `StreamsAreKept`, `WrittenIsKept`, `HoldersKeepTheirs`, `OwnersAreDistinct`,
`RatesAreShared`, `RepliesAreOwn` and `IsDictionary`, which have not been proved yet.

## 5. What the models show beside the properties

Places where the code is restricted, surprising, or at odds with a comment:

* *Threads.* A tick between the deadline check of a timed wait and the switch leaves a fiber in two lists
  (`thread_d.hpp:688`). `cancel()` by another thread may flag the next task of a context (`task.cpp:67`),
  and unblocks a mutex waiter before flagging it. `context.hpp:222` iterates over a vector that `notify()`
  clears. `spin_lock.hpp` says it yields; it does not. `shared_ptr::release()` fences before the decrement.
  `file_mutex.hpp:16-23` promises more than `unlock_shared()` keeps.
* *Values.* A blob variant's cell is never freed and shared by copies; `v = v.get_array()[0]` reads what
  `clear()` deleted; narrowing conversions wrap; a static_variant whose assignment throws keeps a tag
  without an object; `variant_object` writes through entries it shares with copies
  (`variant_object.cpp:160`), so `IsDictionary` takes such a write for one of every holder.
  `safe<unsigned>`: 0/max throws; bigint `/=` returns the old value; real128 divides through a bigint of
  64 bits (`real128.cpp:33`), so that a text with two digits behind the point is read as another number,
  against `real128_test.cpp:46` (`TextsSurvive` asks for one digit); texts of uint128 are not checked and a
  leading 0 is octal.
* *JSON.* `""` alone is eof in strict mode, strict accepts `[1:1]` and rejects `"1.5"`, relaxed rejects
  `{a:1}`; `\b`, `\f` and `\u00xx` are printed but read as letters; brackets in strings count for depth; an
  unterminated last value is dropped; duplicate keys are appended.
* *Raw.* signed_int survives only in half its width, against `varint.hpp:42` (`raw.hpp:195` adds 1 to what
  has the top bit set), and `RawRoundTrip` asks for no more; sets have no limit; the limit is not forwarded into variants; members restart the depth; a null variant leaves its
  target as it was.
* *Streams and logs.* `flush()` loses the chunk it had taken if the stream below throws; cin races on eof
  (`stdio_in.cpp:120`) and drops data; an exception ends rotation for good; `configure_logging()` swaps
  tables without locks and leaves them empty if it fails; a gelf packet number is one byte.
* *Network.* A second `readsome()` overwrites `_read_in_progress`; cancelling a fiber whose buffer is on its
  stack leaves asio writing there (`BufferIsAlive` says that no other buffer is); a server reopened for IPv6
  loses options. `websocket_client::connect()` may return null and TLS never emits `closed()`. A websocket
  that is being made when the server's destructor copies its list is not closed: it keeps the destructor
  waiting or outlives it; one that is closing already makes `close()` throw in a noexcept destructor, as it
  does with TLS in the client, while the plain client does not wait for its close handler then; a request
  task that its handler did not wait for may stay in progress for ever. NTP adds a request chain with each
  restart. Of a write that is too long the HTTP server sends the excess and not what there is room for, and
  after an empty first write it sends the head again (replies of handlers that do either are exempt from
  `ReplyIsOwn`). It ends its accept loop when `accept()` throws, and answers 500 to a cancellation. URLs
  take `@` anywhere for credentials and drop the query. Forwarded API proxies share handle 0; callbacks are
  never removed.
* *Compression, keys, files.* SYNC_FLUSH while output waits is not flushed and says OK; a failed in-place
  zip add leaves bytes behind the end record; the same name may be added twice. Texts of extended keys are
  read without their checksum; depth wraps at 256; base64 and base36 take bad characters. `temp_file`'s move
  assignment leaves two owners: the assignment to the emptied optional does not reset its source
  (`optional.hpp:164`), and `path(path&&)` hands boost an fc::path, which converts to an lvalue and is
  copied (`filesystem.cpp:79`); removal errors are eaten; a bloom filter's limits are applied after
  rounding.

## 6. Not modelled

Thread- and task-specific data, completion handlers, `try_lock` (it begins with `assert(false)`);
interprocess maps, signals, GNTP and SSH (each operation wraps one library call); time, reflection,
stack traces and strings; header parsing, what asio, websocketpp, OpenSSL and Boost do; hash functions and
long-number arithmetic (taken as injective functions and small groups). Reasons are in `PROJECT.json`.

## 7. Plan

Prove next, in this order: the owners of names in Filesystem, `ReplyIsOwn` of HttpServer, the rate
kept by RateLimiting, the owners in ApiConnection, and the refinement of `Dictionaries` by VariantStorage up to
the writes through shared entries.

## 8. How to run

    tlc -workers 2 -config Fibers_core.cfg Fibers        # likewise the other .cfg files, see PROJECT.json
    tlapm FibersProofs.tla                               # likewise the other *Proofs modules
