# Verification of TinyNetFramework

TLA+ specifications of the core of `sylar`, the fiber-based network framework of
this repository: what its threads, fibers, timers and I/O events do when they
interleave, what its byte arrays, configuration and loggers hold, and what its HTTP
client and server make of each other's messages. Checked by TLC on small instances; most
safety properties are also proved with TLAPS, for every value of the constants.

## The system

| Component | State | Operations | Interacts with |
|---|---|---|---|
| Fiber (`fiber.cc`) | `m_state`, a saved context, thread-local current fiber | `resume`, `yield`, `reset`, `MainFunc` | resumed by `Scheduler::run()` |
| Scheduler (`scheduler.cc`) | `m_tasks`, `m_activeThreadCount`, `m_idleThreadCount`, `m_stopping`, `m_threads`, the caller's root fiber | `start`, `schedule`, `stop`, `run` on every thread, `idle` | runs fibers; its `tickle`, `idle`, `stopping` are overridden by IOManager |
| TimerManager (`timer.cc`) | `m_timers`, `m_tickled`, `m_previousTime`; of a timer `m_next`, `m_ms`, `m_recurring`, `m_cb` | `addTimer`, `addConditionTimer`, `cancel`, `refresh`, `reset`, `getNextTimer`, `listExpiredCb` | base class of IOManager: `onTimerInsertedAtFront()` tickles a poller |
| IOManager (`iomanager.cc`) | `m_fdContexts` (events, read and write contexts), `m_pendingEventCount`, epoll, the tickle pipe | `addEvent`, `delEvent`, `cancelEvent`, `cancelAll`, `idle`, `tickle`, `stopping`, `contextResize` | schedules the waiters of events and the callbacks of timers |
| Hook (`hook.cc`) | a thread-local switch, a `timer_info` per call | `do_io`, `connect_with_timeout`, `sleep`, `close`, `fcntl`, `setsockopt` | `addEvent`, condition timers, `cancelEvent`; yields the calling fiber |
| FdManager (`fdmanager.cc`) | `m_datas`, an FdCtx per fd (socket, non-block flags, timeouts, closed) | `get`, `del`, `init` | looked up by every hooked call |
| Config (`config.h`, `config.cc`) | the registry of ConfigVars, a value, listeners and a read-write lock per variable | `Lookup`, `setValue`, `addListener`, `delListener`, `clearListener`, `LoadFromYaml`, the lexical casts | listeners reconfigure Log and others, under the read lock |
| Log (`log.cc`) | loggers with a level, a formatter and appenders | `log`, `addAppender`, `clearAppenders`, `setFormatter`, the configuration listener | Config |
| ByteArray (`bytearray.cc`) | a list of nodes, `m_cur`, `m_position`, `m_size`, `m_capacity`, the byte order | typed reads and writes, `setPosition`, `clear`, buffers, files | Stream |
| Stream (`stream.cc`, `streams/`) | the socket, what is left of a call | `readFixSize`, `writeFixSize`, `read`, `write`, `close` | ByteArray, Socket |
| TcpServer (`tcp_server.cc`), Socket | `m_isStop`, `m_socks`, an accept loop per listening socket | `bind`, `start`, `stop`, `startAccept` | an accept worker and an I/O worker (IOManager) |
| HTTP (`http/`) | the state of a parser and the message it fills; the pool's `m_conns` and `m_total`; the servlets | `getConnection`, `doRequest`, `ReleasePtr`, `recvResponse`; `recvRequest`, `handleClient`; `execute` and the callbacks | SocketStream, TcpServer, the vendored `http-parser` |

Thread and mutex wrappers, addresses, URIs and utilities complete the repository;
PROJECT.json lists each with its status.

### Hard behaviours and what correctness means

* **Fibers migrate between threads.** `yield()` publishes READY before the context
  is saved; a queued fiber may be taken by another thread. Correct: a fiber is on
  one thread at a time.
* **Stopping is a distributed decision** over a flag set without the mutex, a queue
  and counters updated outside it. Correct: no thread leaves while owed work is
  undone, and everyone leaves in the end.
* **Timers race their pollers**: cancel, refresh and reset against listings that read
  the clock before the lock, with a wall clock that can be set. Correct: a timer's
  life follows `TimerContract`; a sleeping pool is woken for a new front timer.
* **Edge-triggered events race cancellations**: a report is handled after it was
  taken, without a lock in between. Correct: no waiter is lost, woken twice or
  disarmed; the pending count, on which stopping rests, is exact.
* **Timeouts race completions and closes** in the hooked calls: a callback outlives its
  wait, or comes before it. Correct: a timeout ends its own call and no other.
* **Configuration changes race readers.** Listeners are called before the value is stored,
  under another lock, and take a logger apart while others log. Correct: unless calls
  overlap, the value, what listeners were told and the loggers agree; a record is lost
  only in a reload; every call returns.
* **Node lists have boundaries.** `m_cur`, `m_position`, `m_size` and `m_capacity` meet at
  the ends of nodes, and streams move any number of bytes. Correct: the list behaves as
  a plain sequence of bytes, and no byte is repeated or skipped.
* **TCP cuts messages anywhere**, answers come late, connections die in the pool. Correct: a
  servlet is given the request that was sent, `doRequest()` its own answer, a request
  fails only for a reason, and the pool counts its connections.
* **A server is stopped by a function that runs later.** Correct: its accept loops end.

## Modules

| Module | Models | Notes |
|---|---|---|
| `Scheduler` | `Scheduler` and the part of `Fiber` that a scheduling thread executes | one action per critical section or shared access of `run()`; `pc[t]` is the place of thread t in `run()`, `task[t]` its local task, `mainPc` the application's place in `start()`/`stop()` |
| `SchedulerProofs` | | theorems about `Scheduler` |
| `TimerContract` | abstract: what a timer's life may be | refined by `TimerManager` |
| `TimerManager` | `Timer`, `TimerManager`, and the sleeping side of `IOManager::idle()` | `ppc[p]` is the place of a poller; `atFront` the window between unlocking and `onTimerInsertedAtFront()` |
| `TimerProofs` | | theorems about `TimerManager` |
| `IOEvents` | FdContext, the event operations, the event loop of `idle()`, edge-triggered epoll | `batch[p]` is what `epoll_wait()` returned to poller p and is still unhandled |
| `IOEventsProofs` | | theorems about `IOEvents` |
| `NatLemmas` | | the least element of a set of naturals, for proofs by least counterexample; inductive sets, quotients, the digits of a number |
| `Hook` | the hooked calls and `FdManager`, composed with `IOEvents` (an INSTANCE whose actions are used as they are) | `pc[w]` is the place of a fiber in its call; a timer is "armed", "queued", or its callback is at "locked" or "set" |
| `HookProofs` | | theorems about `Hook` |
| `ByteStore` | abstract: a sequence of bytes with a position | refined by `ByteArray` |
| `ByteArray` | the node list, the encodings (fixed, zigzag and varint, strings), byte order | one action per operation; pure operators for encodings and for the operations that only look |
| `Stream` | `Stream` and `SocketStream` over a socket, composed with `ByteArray` | `call` is the fixed-size call that runs, `moved` the history of its bytes |
| `StreamProofs` | | theorems about `ByteArray` and `Stream`, the refinement of `ByteStore` among them |
| `LexicalCast` | the casts between YAML text and values, `LogLevel`, the log definitions | pure |
| `Config` | the registry, `setValue()` step by step, `LoadFromYaml()` | `pc`, `job` are a thread's place in a call; `readers` holds the read locks |
| `LogFormatter` | the scan of a pattern | pure |
| `Log` | loggers, the listener that reconfigures them, logging; composed with `Config` | the listener's calls are the steps of `job[t].plan` |
| `LogProofs` | | theorems about `LexicalCast`, `Config` and `Log` |
| `HttpParser` | `http_parser_execute()` and the callbacks that keep what it reports | pure: a record for a parser and its message, one operator per group of states |
| `HttpMessage` | what `dump()` writes, `init()` reads, and the servlet dispatch | pure |
| `TcpServer` | `bind()`, `start()`, `stop()`, the accept loops, listening sockets | |
| `Http` | the pool, requests with and without it, sessions; composed with `HttpMessage` and `TcpServer` | `conns` are the connections with both ends and what is on the way |
| `HttpProofs` | | theorems about the pool of `Http` and about whose response a request gets |
| `MCScheduler`, `MCTimerManager`, `MCIOEvents`, `MCHook`, `MCBytes`, `MCConfig`, `MCHttp` | | instances for TLC |

Variables keep the names of the members they model. What needs a word:

* **Scheduler.** A callback entry is modelled as a fiber entry: `run()` wraps it in a
  fresh fiber and both branches take the same steps. `owed` is a history variable:
  the fibers scheduled before `stop()`, or by such fibers. `failed` records a failed
  assertion of `fiber.cc`, or the resumption of a fiber that has no saved context
  because another thread is between `m_state = READY` and `swapcontext()`; both end
  the behaviour. `m_tasks.erase(it); it++` advances an invalid iterator; its value
  only feeds `tickle_me`, which is true already, so it has no step of its own.
* **TimerManager.** A timer is named by its address, a number, because the Comparator
  compares `lhs->m_next` with itself and so orders `m_timers` by address. The
  temporary `now_timer` of `listExpiredCb()` gets an arbitrary address. The clock
  advances, and where `SetBack` holds it is set back. A second `cancel()` of a timer
  would erase `end()`: undefined, so the application of the model cancels once.
* **IOEvents.** A waiter is a fiber or a callback; `task[w]` is "waiting" while an
  EventContext holds it. `ready` and `rdllist` are the kernel's: `rdllist` holds the
  fds with an unreported edge. An assertion, or a trigger on a reset context, sets
  `aborted` and ends the behaviour. Every fd has its FdContext: the growth of
  `m_fdContexts` is not modelled.
* **Hook.** Of a timer only its life is kept: it may be listed at any time after it is
  armed (`TimerManager` shows that it may even be listed early), and its callback is
  executed later in three steps, as the code reads `winfo`, writes `cancelled` and calls
  `cancelEvent()`. `owner` is the call whose `timer_info` the callback refers to, None
  once that call has returned and the weak_ptr has expired. `close()` takes its three
  steps one by one. `want` is a history variable: what the application has set on the
  present socket. Timer objects come from a small set and are used again when gone.

* **ByteArray.** A varint carries digits of base `K`, a byte is a digit of base `2K`;
  `FixBytes`, `VarBytes` and `Modulus` stand for the widths, so that shifts and sign
  changes wrap as they do in the code. A read that uses a node that is not there sets
  `fault` and ends the behaviour; memory that was not written is one of `Garbage`.
* **Stream.** The array may be used between any two calls of the stream (`ArrayOperation`),
  not while one runs: a fiber owns the array it passes.
* **Config and Log.** A section under a write lock or the registry's lock is one step;
  `setValue()` holds the read lock over several. `s_datas` is a function on the names that
  have been looked up, `m_loggers` one on the names of the loggers that
  exist; `job[t].cbs` is the set of listeners that a call has still to tell, taken in the
  order of their ids, as the map `m_cbs` is. A listener is a copy of the value, as
  `s_connect_timeout` in `hook.cc`; the listener of "logs" calls the methods of `Logger`
  one by one. `want` (what was asked for last, also when `setValue()` finds no difference and
  returns), `raced` (calls on one name have overlapped), `dropped` and `applied` (the
  definitions as the listener of "logs" has carried them out, name by name) are history.
  Elements of a container convert to themselves or fail, so `SavedLoads` is about entries,
  keys and fields, not about the text of a number. `Logger::log()` of a logger without
  appenders and that of the root are one step. A pattern that ends inside `%d` makes
  the scan read beyond it: what it finds there is arbitrary.
* **Http.** The wire is a sequence of tokens. Names, urls and values are words of two
  parts, so that a read can end before, in and after them; the parser's per-character
  header states become the texts they recognise. The kernel keeps what is written until
  it is read, and resets a connection that is closed with data unread or written to
  afterwards. The headers that a caller passes go through the loop of `doRequest()` and the
  filters of `dump()`. A response's body is written as it is, also when its servlet has
  announced chunks, and a servlet's own `connection` header is left out; chunked requests
  come from a foreign client (`ForeignDump`). While the server runs, servlets are added,
  deleted and made the default (`ChangeServlets`). `m_createTime` is 0, so that `Usable` and
  `Expired`, the tests of `getConnection()` (`>`) and of `ReleasePtr()` (`>=`), never find
  a connection too old: both are written out, and only the request limit and closed
  sockets end a connection. What `getConnection()` deletes and counts after its critical
  section is part of that section; nothing reads `m_total` in between. `SEND_CLOSE_BY_PEER`
  (a send that returns 0 for a request that is never empty) and `POOL_INVALID_CONNECTION`
  (a connection without a socket, which is never constructed) have no step. `accept()`
  fails only on a closed socket: on an open one `startAccept()` logs and tries again.
  `clean`, `final`, `got`, `cut` and `log` are history: they say which request
  a message is about and whether something has happened that may fail it.

## Runs

| Run | Checks | Shows |
|---|---|---|
| `scheduler` (pass) | `TypeOK`, `FiberOnOneThread`, `CountsExact`, `DrainedBeforeExit`, `NeverFails`, `StopReturns`, `AllTasksComplete` | with fibers that yield on their own thread, caller and pool thread never share a fiber, the counters are exact, stop() waits for what it owes, and everything ends |
| `scheduler_unpinned` (violation) | `FiberOnOneThread` | a fiber that reschedules itself on any thread is taken before it is switched out |
| `timers` (pass) | `TypeOK`, `ArmedHasCallback`, `SkipOnlyWhenAwake`, `ContractHolds` | the life of timers is as promised under every race with two pollers and clock steps |
| `timers_early` (violation) | `OnlyExpiredListed` | `listExpiredCb()` lists timers that are not due |
| `events` (pass) | `TypeOK`, `WaitersArmed`, `NoLostWakeup`, `PendingExact`, `HangUpWakes` | waiters stay armed, no edge is lost, the count is exact, a hang-up wakes all |
| `events_stale` (violation) | `NeverAborts` | a stale report makes `triggerEvent()` fail its assertion |
| `hook` (pass) | `TypeOK`, `TimeoutIsOwn`, `TimedWaitCovered`, `SettingsHold`, `HangUpReturns` | a timeout marks only the call that armed it, a timed wait has its timer unless it is marked already, settings do not survive their socket, a hang-up ends a call that `close()` has not stranded |
| `hook_timeout` (violation) | `TimedCallReturns` | a timeout that fires before `addEvent()` is lost and the call waits for ever |
| `bytes` (pass) | `TypeOK`, `CurFollowsPosition`, `FaultOnlyOnEmptyRead`, `RoundTrip`, `LookingIsExact`, `StreamExact`, `ImplementsByteStore` | the node list implements a sequence of bytes, what was written reads back across boundaries, streams move each byte once |
| `config` (pass) | `TypeOK`, `ListenersCurrent`, `SavedLoads`, `LoggersMirrorConfig`, `AppendersFormat`, `DroppedOnlyInReload`, `CallsReturn` | values, listeners and loggers agree unless calls overlap, what is saved can be loaded, appenders always have a formatter that works, calls return |
| `http` (pass) | `OwnResponse`, `ParsedUnlessCut`, `PoolExact`, `CleanRequestsSucceed`, `AcceptorsEnd` | a request gets its own whole answer, a servlet the request that was sent unless a read ended in a url or a header, the pool's count is exact, requests fail only for a reason, accept loops end |
| `http_split` (violation) | `ParsedAsSent` | a read that ends in a url, a header name or a value changes the request |

**Bounds.** Two scheduling threads and two fibers are the least with which one fiber
schedules another while a second thread decides to stop; one yield per fiber
(`MaxYields`) is enough for a fiber to be queued and held at once. Two timers give a
front and a back, two pollers a stale listing; `MaxNow` = 1 with delays 0 and 2 gives
timers that are due at once and timers that are not, and `RolloverMs` = 0 makes every
step back a rollover. Two fds, two waiters and two pollers give a report that a
cancellation or another poller has overtaken, and an event that is left when its twin
triggers. One socket number that is closed and opened again, a fiber that connects and
writes, one that sleeps and closes, and two timers give a callback that outlives its
call, its wait and its socket (reads differ from writes only in the event). The
`timers` run uses the symmetry of the pollers (it checks no liveness).
Nodes of two bytes and arrays of up to five give values that cross one and two
boundaries and end on them; two writes, two stream calls and three bytes from the peer
give short counts in each. Two threads with two and one calls overlap in every way two
calls can, next to a thread that logs; the two documents hold duplicate and broken
entries, and one `setValue()` changes a logger in its appenders only. In `http` one servlet
sets `connection` itself, one announces chunks that are never sent, and requests bring
their own `host` and `content-length`. A
behaviour is one of the scenarios of `MCHttp`, each with its own small counts of
requests, cuts and timeouts; the cases are told apart by what may happen (sharing, late
answers, closing, cutting, foreign requests, start and stop), and all of them at once
would exceed what TLC can explore. `MaxRequest` = 2 lets a connection be used again and
then wear out; two listening sockets give a `bind()` that fails after one that did not.
The largest passing runs are `bytes` (842,197 distinct states, two minutes with two
workers), `config` (222,804, two and a half) and `http` (189,576, under one).

`Scheduler` deadlocks nowhere. The other systems may stop: after an abort or a fault the
process is gone, and when the bounds are used up a program waits for its next call, so
their cfgs either stop at the abort or switch the deadlock check off.

**Fairness.** `Scheduler!FairSpec`: weak fairness of each thread's next step in `run()`
and of the steps of `stop()` once called; the operating system runs runnable threads
and `idle()` of the base class never blocks. The application's calls are not fair.
Nothing is assumed of a callback's length beyond that it ends. `IOEvents!FairSpec`:
weak fairness of each poller, which returns from its idle fiber and comes back while
the scheduler runs; again nothing of the application or the peer. `Hook!FairSpec`: weak
fairness of the fibers inside a call, of each timer and its callback, and of the
pollers: scheduled work is executed (`AllTasksComplete`) and time passes. Which calls
the application makes, and when, is not fair. `Log!Spec`: weak fairness of each thread
inside a call of `Config` (a lock that stays free is obtained); nobody has to call.
`Http!HttpSpec`: weak fairness of the accept worker only, for the loops of
`startAccept()` and the function of `stop()`, which a scheduler executes
(`AllTasksComplete`).

**Exceptions stated in the properties.** `NeverFails` allows one failure: `stop()`
called again with work queued after the pool is gone resumes a TERM root fiber.
`StopReturns` allows `Stranded`: a task pinned, after `stop()`, to a thread that has
already left keeps the other threads waiting. `AllTasksComplete` leaves out tasks
pinned to the caller thread, which runs only inside `stop()`. `HangUpReturns` leaves out
`Hook!Stranded`: a fiber that registers an fd between the `cancelAll()` and the
`close_f()` of a `close()` is never woken. `FaultOnlyOnEmptyRead` allows the null node that
a read of no bytes at the end of the capacity looks at. `LookingIsExact` says at every
position what the code does, right or wrong: `read()` at a position shows the bytes at that
offset of the node of `m_position`, and `writeToFile()` goes wrong exactly behind the start
of a node with less than a node left. `ListenersCurrent` and `LoggersMirrorConfig` except
overlapping calls. The first compares with `operator==`, which for "logs" ignores the
appenders; the second says that a logger has the appenders of the last definition
that `operator==` told from the one before it. `CleanRequestsSucceed` lists the reasons
for which a request may fail, a response without a length or with two and a connection that
was to be closed among them; `AcceptorsEnd` leaves out sockets that a failed `bind()`
took from `m_socks`, and a `start()` after the `stop()`. PROJECT.json notes with each hazard
which part of it a property leaves out.

## Findings

1. `scheduler_unpinned`: `scheduler.cc:184` skips a fiber that is executing, but
   `Fiber::yield()` sets READY before `swapcontext()`; the fiber of
   `tests/test_scheduler.cc` can be resumed while its context is on a stack.
   `PinnedFibersOnOneThread` proves that pinning removes this.
2. `timers_early`: the Comparator ignores `m_next` (`timer.cc:25-30`), so timers
   fire early, against `iomanager.cc:404` and `timer.h:68`.
3. `events_stale`: with both events on one fd, a report that went stale triggers an
   unregistered event (`iomanager.cc:443` against the comment at `:140`).
   `OneKindNeverAborts` proves that one kind of event per fd is safe.
4. `hook_timeout`: `do_io()` arms its timer before `addEvent()` and does not look at
   `cancelled` again before it yields, so a timeout that is served in between is lost,
   against the comment at `hook.cc:134`. `connect_with_timeout()` has the same window.

5. `http_split`: the callbacks are documented as called when the url, the name and the
   value are complete (`http_parser.cc:128`, `:159`, `:170`), but the parser reports what
   it has at the end of each read, and they keep the last fragment.
   `ParsedUnlessCut` shows that no other cut matters.

Met while modelling, without a run of their own: `iomanager.cc:391` truncates a 64-bit
timeout to int before capping it, so a delay of 2^31 ms or more can make
`epoll_wait()` wait without limit (`ToInt` models the conversion); `timer.cc:164`
says the clock is monotonic, `util.cc:99` reads `gettimeofday()`; `delEvent()` leaves
the bit of the event set (`iomanager.cc:250`), so a later `addEvent()` asserts and, on
an fd with both events, a second `delEvent()` counts down twice (the `events` run
deletes on an fd with one kind of event only; nothing in the repository calls it).
`read()` at a position starts in the node of `m_position` (`bytearray.cc:415`).
`writeToFile()` counts its first chunk from the start of a node.
`log.cc:637` compares the appenders of a definition with themselves: a change of
appenders alone is not even stored, and next to another change it is stored but not
applied, against `config.h:385`; the pattern `%%` of
`log.cc:445` is refused; a pattern that ends in `%d` is read beyond its end;
`config.h:331` allows the digit 9 in names, `Lookup()` does not. `m_createTime` of a
pooled connection is never set, so none expires, against `http_connection.h:235`;
`doRequest()` sends "connection: close" unless told otherwise (`http_connection.cc:396`)
and the connection goes back to the pool all the same; so does one whose send failed. An
answer with status 200 and no body has no length, and the client waits until it times
out; one whose servlet sets content-length has two, and is refused; one whose servlet
announces chunks has a body that is not chunked. Two requests in one
read become one. A `start()` between `stop()` and its function leaves a loop that spins on
a closed socket until the next `stop()`; a `bind()` that fails clears the sockets of
earlier calls (`tcp_server.cc:58`).

## Proofs

All theorems hold for every value of the constants that the named ASSUMEs allow.

* **`SchedulerProofs`** (`SchedulerAssumption`: finitely many threads, the null values
  are distinct). `IInv` is inductive: `TypeOK`, `TaskInv` (what a thread holds at
  each program point), `CountsExact`, `OnStackInv` (a fiber is on one stack),
  `RescheduledInv` (a fiber about to be switched out is queued or held elsewhere),
  `NotLostInv` (a scheduled fiber is queued, held or TERM) and `DrainInv` (once an idle
  fiber has ended, the owed work is TERM). `DrainedBeforeExit` alone is not
  inductive: that an empty queue and a zero counter mean "done" needs `NotLostInv`
  and exact counts, and `NotLostInv` needs `RescheduledInv` for the yield. Theorems:
  `TypeCorrect`, `Inductive`, `CountsAreExact`, `WorkIsDrained`. With `PinnedYield`:
  `PinnedFibersOnOneThread`, from `PinInv` (a fiber is queued at most once, and while held
  only for its holder), and `PinnedNeverFails`, from `ReadyInv` (a fiber that is queued,
  taken or being switched out is READY, or about to become so on the thread that queued it)
  and `JoinInv` (`stop()` has joined every thread before it can be called again).
* **`TimerProofs`** (`TimerAssumption`). `TimersKeepContract`: `TimerManager`
  implements `TimerContract`. `BornInv` (armed timers were constructed) and
  `RecurringInv` (the type of `m_recurring`) are what the step-by-step mapping needs:
  add maps to Arm, cancel to Cancel, a listing to Fire of its set, the rest stutters.
  `ArmedTimersHaveCallbacks` and `TickleSkippedOnlyWhenAwake` are inductive with the types
  of what they mention; `TimerTypeCorrect` needs `StartInv` (`m_next - m_ms` is a time the
  clock has shown), since `refresh()` and `reset()` compute from it.
* **`IOEventsProofs`** (`IOEventsAssumption`). `ArmedInv` strengthens `WaitersArmed`
  with types and with "epoll watches no more than is registered"; `NoEdgeIsLost` is
  inductive relative to it, because every path that drops a report leaves no waiter
  or has re-armed the fd with EPOLL_CTL_MOD, which lists it again when it is ready.
  `OneKindNeverAborts`, from `OneKindInv`: with one kind of event per fd and no
  `delEvent()` a report names only that kind, so what is triggered is registered.
  `PendingCountExact` and `IOEventsTypeCorrect`, from `CountInv`, where `delEvent()` is
  used on fds with one kind of event (`DeletesOneKind`): `delEvent()` leaves the bit of
  the event, so with two kinds it can be called twice and the count goes wrong. The
  application of the `events` run keeps to that.
* **`HookProofs`** (`HookAssumption`, `IOEventsAssumption`). `TimeoutsAreOwn` and
  `TimedWaitsCovered`, from `TimerInv` (the first is about the mark in `timer_info`, not
about which waiter `cancelEvent()` wakes): `OwnInv` says that a timer that has been listed
  has marked its call, if it is still there, as one that may time out; `CoverInv` that a
  call is covered by its timer from `addConditionTimer()` on, not only once it has
  yielded. `SettingsAreOwn`, from `SettingsInv` (one fiber at a time closes a socket, and
  the FdCtx is there until it has called `del()`).
  `HookTypeCorrect` adds `FdInv` and `IoInv`, the exact pending count of the composition.
* **`StreamProofs`** (`ByteArrayAssumption`; `InputAssumption`: what is written is a value
  of its C type, strings are shorter than their length field can say; `PowerAssumption`:
  the recurrence that defines `^`, which the provers do not know; `StreamAssumption`).
  `StreamInv` is `ByteInv` (the memory is whole nodes, position within
  size within capacity, `m_cur` follows the position, no fault but on an empty read),
  `CallInv` (what a fixed-size call has done and has left) and `MovedInv` (its history).
  Theorems: `ByteArrayTypeCorrect`, `CurAlwaysFollows`, `FaultsOnlyOnEmptyReads`,
  `StreamIsExact`, and `ByteStoreRefined`: each operation on the node list, a stream's
  included, is the step of `ByteStore` on the sequence of bytes that the nodes hold.
  `StreamNext` lets array operations and stream calls follow each other in any order.
  `LookingStaysExact`, from `StreamInv`, for every position, with the positions at which
  `writeToFile()` goes wrong as an equivalence: `FileInv` is the invariant of `writeToFile()`'s
  loop (what is written so far is the piece of memory up to `pos`, and `node` is the node
  of `pos` while something is left).
  `WrittenReadsBack` (`RoundTrip`), from `StreamInv` and `LastInv`: after a write the
  memory holds its encoding below `m_size`, which no operation that keeps `last` disturbs.
  That the encoding then reads back is arithmetic about digits: a number is the sum of its
  digits (`NatLemmas!DigitsOfNumber`), and swapping them twice changes nothing (`InOrderTwice`); a
  varint's loop stops at the digit without the continuation bit (`VarintReadsBack`);
  `DecodeZigzag` undoes `EncodeZigzag` within the modulus; a prefixed string is read by the
  length in front of it (`ReadStringBack`).
* **`LogProofs`** (`ConfigAssumption`, `ValueAssumption`: values that the program sets
  itself are such as a text can give, and texts are sequences; `LogAssumption`, whose last
  part, that the default pattern has no error, TLC computes).
  `ListenersStayCurrent`, from `ConfigInv`: the read locks are held by the threads that
  call listeners (`Locks`), a name that is not looked up is not asked for, and
  `Current(n)`: unless calls have overlapped one thread is past the comparison, it sets
  what is wanted (as far as `operator==` can tell), and the listeners it has passed have been told. `ListenersCurrent` alone
  says nothing of the states between the first listener and the store.
  `AppendersAlwaysFormat`, from `LoggersInv` (the shape of every logger, the root's always).
  `LoggersAlwaysMirror`, from `LogInv`, which is `ConfigInv`, `SavedInv`, `LoggersInv` and
  `MirrorInv`: `Planned` is the shape of what is left of a listener's plan, and `Mirrored`
  says that the loggers, once the rest of the plan is carried out, have the levels of the
  new definitions and the appenders of `applied`, whatever order those are walked in;
  without a plan, that they have them now. The property alone says nothing while a plan runs.
  `NeverDroppedOutsideReload`, from `LogInv` and `DroppedInv` (a record that waits is for
  a logger that exists). `LogTypes`, from `LogInv`.
  `SavedAlwaysLoads`, from `SavedInv` (variables, and what threads are about to set, hold
  values of their type; what they have left to load is part of a document) and two facts
  about the casts for every type: what a text converts to is a value (`CastIsValue`), and
  a value that is written reads back (`TextLoads`).
* **`HttpProofs`** (`HttpAssumption`; `MessageAssumption`: servlets and requests are
  records of words, with any headers, also such as contradict each other). `PoolIsExact`,
  from `PoolInv`: with the types, a connection that a fiber uses is one that has been taken
  (`Taken`).
  `ResponsesAreOwn` (`OwnResponse`), from `OwnInv`, in two parts. The first is about the
  parser alone: `At(p, m, id, j)` says what its fields hold once it has read `j` tokens of
  what `dump()` writes for the response `m` to request `id`, in the status line, in a
  header line, in an identity or a chunked body and at the end. `AtStep` takes it from one token
  to the next; `ExecuteAt` is the induction over a piece of any length, and rests on
  `Alike`: the callbacks between two reads change nothing of where the parser is, what it
  has learnt and how much of the body it has. `DumpTokens` says which token
  stands where, for any number of headers (a body has at most two bytes, in the model, as
  `Words` spells its length). The second is who waits for what: the requests
  whose first token is on a connection or in the server's parser (`Pending`) belong to the
  fiber that has the connection (`IdsOk`), and this fiber has a connection on which nothing
  is pending (`Quiet`), or its one request is (`Waiting`), or the rest of its answer from
  token `j` on is what is left to read (`Receiving`). A connection that is in `m_conns` is
  `Quiet`: that is what `close()` on a timeout is for, and where the property would
  fail without it. `OwnResponse` alone says nothing before the last token has been read.

The library's induction theorems cannot be used, since they take an operator as a
parameter. Where a proof needs induction (over the pieces of a file, the bytes of a
number, the entries of a document), the claim is made a set of naturals and
`NatLemmas!LeastNat` gives its least counterexample; that a recursive function exists is
shown the same way (`NatLemmas!InductiveSet` is the form that most of them use).

Model-checked only:

* the liveness properties `StopReturns`, `AllTasksComplete`, `HangUpWakes`,
  `HangUpReturns`, `CallsReturn`, `AcceptorsEnd`: fairness is outside the prover's reach;
* `ParsedUnlessCut` and `CleanRequestsSucceed` of `Http`. The first needs for requests what
  `At` says of responses and what the callbacks keep of every header besides; it holds for
  requests whose headers say how long they are and do not contradict each other. The second
  needs that no response is refused, where `ExecuteAt` allows an error at every token.

## Plan

1. Proofs: `At` for requests with the headers the callbacks have kept, as the way to
   `ParsedUnlessCut`; that a framed response is never refused, for `CleanRequestsSucceed`.
2. `FdTable`: `addEvent()`'s lookup and `contextResize()`; two threads that grow the
   table without looking again can shrink it (composed into `IOEvents`).
3. `IOManager`: `run()` with IOManager's `idle()`, the tickle pipe, `stopping()` over
   timers, pending events and queue.
4. `Hook`: `ioctl()`, zero timeouts and the state of a connection (what `connect()` may
   report when it is woken by a close).

## Not modelled

Addresses, URIs and utilities (parsing, data layout, system calls); the text of log
records and the files of appenders; parameters, cookies and websockets of HTTP; of
`http-parser` the characters of tokens (the states that read a url one by one become
one text, and `parse_url()` the question whether it begins with a slash; query and fragment are
dropped with them), the limit on the size of headers, HEAD and `F_SKIPBODY`, CONNECT and
its upgrade, pausing, and the end of input, which no caller passes on; pthread wrappers (a critical
section is an action, and only the read lock of a ConfigVar spans several); coroutine
stacks; the growth of `m_fdContexts` and of `FdManager`'s table; the batch form of
`schedule()`, which nothing calls; the statistics of fibers.
