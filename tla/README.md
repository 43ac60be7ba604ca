# Verification of the coroutine web server

TLA+ modules, TLC configurations and TLAPS proofs for `webserve/`: the coroutine
scheduler, the timers, the registration of I/O events over epoll and the idle loop
that ties the three together; the hooked system calls on top of them; the TCP
and HTTP server; the HTTP client with its connection pool; the three Ragel
parsers; and the byte buffer. Everything is translated from the C++ and Ragel
sources; `PROJECT.json` gives the source lines behind each definition, the runs,
one mutant for each checked property, the hazards the properties are aimed at, and
the findings.

Reading order: `TaskPool`, `Scheduler`, `TimerManager`, `FdEvents`, `IOManager`,
then `Hook`, `Server`, `HttpClient`, `Parsers` and `ByteArray`, each of which can be
read by itself; and the eight proof modules, each behind the module it is about.

## The system

An application creates an `IOManager`, which is a `Scheduler`, a `TimerManager`
and an epoll loop in one class. Its threads run fibers. A fiber that would
block in a hooked system call registers an event or a timer, yields, and is
handed to the scheduler again when epoll or the timer set says so. The TCP and
HTTP layers are callbacks and fibers on top of that.

| Component | State | Operations | Hard behaviour | Correct when |
|---|---|---|---|---|
| Scheduler, Fiber (`scheduler.*`, `fiber.*`) | queue `m_fibers`, thread counters, stop flags; per fiber `m_state`, `m_cb`, a context | `schedule`, `start`, `stop`, `run`, `idle`, `switchTo`; `swapIn`, `swapOut`, `YieldToReady`, `YieldToHold`, `reset`, `MainFunc` | `m_state` is written by the running thread and read by others without a lock; the decision on a fiber is made after its context is saved; stopping is derived from two counters and a queue | each callback runs once; one thread per stack; no assertion fails; `stop()` returns with everything done |
| Timers (`timer.*`) | a `std::set` ordered by `m_next`, `m_tickled`, `m_previouseTime`; per timer `m_next`, `m_ms`, `m_cb` | `addTimer`, `cancel`, `refresh`, `reset`, `getNextTimer`, `listExpiredCb` | the key of an element can change; the clock is read outside the lock and can be set back | an armed timer is in the set under its key; cancel is final; nothing fires twice, or earlier than by what the clock was set back; an earlier timer is announced |
| I/O events (`iomanager.*`) | `FdContext::events` and its `EventContext`s, epoll's interest, `m_pendingEventCount` | `addEvent`, `delEvent`, `cancelEvent`, `cancelAll`, `triggerEvent`, the event loop of `idle` | a batch from `epoll_wait` is handled later and one descriptor at a time; edge-triggered reports come once; `epoll_ctl` can fail | the count is exact; a waiting fiber is in one place; a ready one is resumed |
| Idle loop (`iomanager.*`, `scheduler.cc`) | thread counters, the tickle pipe | `tickle`, `stopping`, `idle`, `onTimerInsertedAtFront` | `stopping()` is three reads; `tickle()` depends on a counter that is raised late; the 64-bit timeout becomes an `int` | queued tasks and timers are run; no thread sleeps for ever; all threads exit |
| Hooks, FdManager (`hook.*`, `fd_manager.*`) | per call a timer and an event; per descriptor an `FdCtx` | `do_io`, `connect_with_timeout`, `socket`, `accept`, `close`, `setsockopt` | a time-out races the event; a descriptor is closed under its users and its number given out again; `addEvent` fails | a fiber that waits will be woken; a call with a time-out returns |
| TcpServer (`tcp_server.*`) | listening sockets, `m_isStop` | `bind`, `start`, `startAccept`, `stop` and its task | accept loops, `stop()` and a new `start()` run on different threads | one loop per socket; every loop ends after `stop()` |
| HTTP session, server, servlets (`http/http_session.cc`, `http_server.cc`, `servlet.cc`) | a connection's buffer; the table of servlets | `recvRequest`, `handleClient`, `addServlet`, `getMatchedServlet` ... | a request arrives in pieces; a session ends in several ways; precedence of names and patterns | each request is handled once, in order, with its own body; sessions end unless the client never reads |
| HTTP client (`http/http_connection.*`) | idle list, `m_total`, a connection's request count | `DoRequest`, `doRequest`, `getConnection`, `ReleasePtr`, `recvResponse` | list and count change apart; late answers; chunks cut into reads | every connection is in one place and counted; an answer reaches its own request |
| Parsers (`http/http11_parser.rl*`, `httpclient_parser.rl*`, `uri.rl*`) | machine state, marks, what is kept | `*_init`, `*_execute`, `*_is_finished`, `Uri::Create` | generated machines with actions merged by the generator; a message cut into reads | the machine is that of the grammar; every part is reported exactly |
| ByteArray (`bytearray.*`) | a list of blocks, `m_cur`, position, size, capacity | reads, writes, `setPosition`, `addCapacity`, buffers, files | arithmetic at block borders; `m_cur` null at the end | it behaves like a flat sequence |
| Config (`config.*`) | a variable, its listeners, the registry | `setValue`, `addListener`, `Lookup` | value and listeners under separate locks | not modelled |
| Thread, locks, sockets, addresses, log, HTTP messages, utilities | | | wrappers, formatting | not modelled |

How they meet: `IOManager::triggerEvent` and the expired timers call
`schedule`; `schedule` and a new first timer call `tickle`, a write to a pipe that
epoll watches; `Scheduler::run` enters `IOManager::idle` when it finds nothing to
take and leaves for good when `stopping()`, overridden by `IOManager`, held.
`m_state`, the counters and the pipe are the shared state; the queue, the timer
set and each `FdContext` have locks of their own, never held together. A hooked call
uses all three from inside a fiber; `TcpServer` runs its accept loops and
`handleClient` as tasks whose `accept`, `recv` and `send` are hooked calls;
`HttpSession` and `HttpConnection` drive the parsers with what `recv` gave.

## The modules

| Module | Models | Steps |
|---|---|---|
| `TaskPool` | what `schedule` and `stop` promise: each callback begins once and ends once, and `stop()` returns when nothing submitted is left | abstract |
| `Scheduler` | `scheduler.cc`, `fiber.cc` | one critical section, one atomic counter, or one access to `m_state` |
| `TimerManager` | `timer.cc` | one critical section of `m_mutex`; reading the clock is a step of its own |
| `FdEvents` | event registration in `iomanager.cc`, epoll with EPOLLET | one critical section of an `FdContext` |
| `IOManager` | `idle`, `tickle` and `stopping` in `iomanager.cc` with the part of `run` around them | one counter, one look at the queue, one system call |
| `Hook` | `hook.cc`, `fd_manager.cc` over what `FdEvents`, `TimerManager` and `Scheduler` offer | one system call, one critical section, one yield |
| `Server` | `tcp_server.cc`, `http_session.cc`, `http_server.cc`, `servlet.cc` | one call of the program, one test, one read, one task |
| `HttpClient` | `http_connection.cc` | one critical section, one change of `m_total`, one send, one read |
| `Ragel` | the operators of the Ragel language that the grammars use, by derivatives; the notation for generated machines | |
| `HttpGrammar`, `ClientGrammar`, `UriGrammar` | the grammars in the three `.rl` files | |
| `HttpMachine`, `ClientMachine`, `UriMachine` | the compiled machines in the three `.rl.cc` files, one definition for each stretch of the switch | |
| `Tokens` | a reference, written apart from both, for where each part of a message begins and ends | |
| `Parsers` | machine, actions, grammar and tokens on the same input | one character, one end of a read |
| `ByteArray` | `bytearray.cc` beside a flat sequence | one call |
| `SchedulerProofs`, `TimerProofs`, `FdProofs`, `IdleProofs`, `HookProofs`, `ClientProofs`, `ServerProofs`, `ByteArrayProofs` | theorems | |
| `MC...` | bounded sets and symmetry for TLC | |

A definition whose comment starts with "Mutant:" is not part of a
specification: it is the form a plausible bug would give the definition that
follows it, and `PROJECT.json` says which property finds it.

### Scheduler

`pc[t]` says where a thread is in `run()`: `fetch` (the locked scan),
`dispatch` (entry taken, active count raised), `exec` (on the fiber's stack),
`hold` (the wake-up is arranged, `YieldToHold` is next), `swapout` (READY, HOLD,
TERM or EXCEPT is stored, the context is not yet saved), `swapped` (back in
`run()`), `settle` (the active count is lowered, the entry is decided upon),
`empty`, `idling`, `idled`, `exited`. `ft`, `cb_fiber` and `idle_fiber` are the
locals of `run()`. The owner thread is a process of its own whose `stop()` takes
several steps (`owner`), and with `use_caller` it enters the pool as `Caller`
inside `stop()`.

Bodies of fibers do anything the interface allows: schedule more callbacks,
also pinned to a thread, yield ready, hold, switch threads, return or throw.
Before `YieldToHold` a body arranges wake-ups, as `addEvent` and `addTimer` do:
`waits` counts them. `WakeFrom` says how early one may come: "registered", as
soon as it is arranged, which is what the code allows; "saved", after
`swapcontext`; "settled", after `run()` is done with the fiber. Bounds:
`Tasks`, `Fibers`, `MaxReady`, `MaxHold`, `WaitsPerHold`.

Fibers are not deallocated in the model, a second `start()` after `stop()` is not
taken, and `Scheduler::idle` is the base class's (IOManager has the other).

### TimerManager

The set is a set of pairs `<<m_next, timer>>`, so that an element whose timer
has meanwhile got another `m_next` is one that `find` would miss. Timer addresses
are numbers, as `Timer::Comparator` compares them. `now` is the clock; `Tick`
advances it and `SetBack` sets it back, by less or by more than the hour
(`Slack`) that `detectClockRollover` allows. `Tick` assumes that no thread spends
an hour between reading the clock and getting the lock. `asked` (what the last
`getNextTimer` saw), `fired` and `lost` (by how much the clock was set back, in
all) record history for the properties. Bounds:
`MaxTime`, `MaxBack`, `Jumps`, `MaxFired`, `Periods`. `addConditionTimer` only wraps the
callback.

### FdEvents

A registration is `<<fd, event>>`. `waiting` counts the fibers that wait with it, at
most `MaxWaiters`: one may register on a descriptor that was closed, and its number
given out again, while another is still registered there, and then `addEvent`'s
assertion that nobody registers an event twice fails.
`m_threads` is the set of threads this IOManager has, any nonempty part of
`Threads`. Callers run on threads of the IOManager, so a step of theirs needs a
thread that is not in the event loop (`Called`). `interest`, `state` and `edge` are
epoll, as the code uses it: a report is due when something new arrives or the
interest is set on a descriptor that is ready. `Close` closes a descriptor under
its waiters, which makes later `epoll_ctl` calls fail. `failed` names the assertion
that has failed; after that (`aborted`) nothing happens any more.

### IOManager

A task is in the queue, in the timer set, registered, running or ended; a timer
is due or not, an event ready or not. `stopping()` is three steps (`timers`,
`events`, `queue`). `tickle()` is a step after the call that owes it (`owed`). The
pipe is an edge. `timeout` is the argument of `epoll_wait` after the cast: the
width of `int` is scaled to `IntMax` = 7 and `MAX_TIMEOUT` to 3, with a timer
between the two. Pool threads only (no `use_caller`), unpinned tasks; `stop()`
owes one tickle per thread.

### Hook

One descriptor number. `file` is what the system has behind it, counted from 1 so
that a call can outlive the file it was made on (`on`). `m_datas` is its `FdCtx`.
A fiber in `do_io` or `connect_with_timeout` goes through `try` (the system call),
`arm` (`addConditionTimer`), `add` (`addEvent`), `yield`, `held` and `woken`; `get`,
`del` and `close` are the steps of `socket`/`accept` and of `close`. A timer is set,
then due (its callback is in the list), then `late` (past the check of
`tinfo->cancelled`, before `cancelEvent`). What runs between two yields is limited by
the number of threads. Of epoll `reg` and `interest` are kept: a ready file is
reported as long as it is registered. `fcntl` and
`ioctl` (the user's own non-blocking mode) are not taken, and the sleeps, which
are `addTimer` and a yield, add nothing here. Bound: `MaxFiles`.

### Server

`loops` are the accept loops, each on its socket, at `test` (`m_isStop`), `accept`, `wait`
(registered, with nothing to accept) or `gone`; `closers` counts tasks of `stop()` that
have not run. Such a task wakes the loops (`cancelAll`) and closes the sockets. On a
worker with one thread (`oneThread`) no loop runs in between; with more they do
(`closing`), and one may register again and be left there. `overtaken` records
that `start()` came before an earlier `stop()` was done, `dropped` the sockets a
failed `bind` has taken out of `m_socks`. With several threads `m_socks` is also read by
`start()` and changed by `bind()` while the task runs, which is a data race; the model
takes these calls one after the other, and does not give the number of a closed
socket out again (that is `Hook`'s subject).

A connection is in `head`, `body`, `reply` or `send`
of `handleClient`. A request is two bytes of head and its body; bytes are named by
the request they belong to, so that a mix-up shows. A read takes any number of
the bytes there are, up to what is left of the buffer, or finds nothing yet and
waits with a timer (`waits`). From then on the time-out may fail it, also if bytes have
come meanwhile: `do_io` looks at `tinfo->cancelled` first. `late` are the clients to whom
that happened. `deaf` are clients that may never read a response; the send has no
time-out, and the session then stays in `send`. `cut` are the clients of
whom a head came in two reads (the parser then may lose the length, as `Parsers`
shows), `piped` those that sent a request before the response to the last. The
table of servlets has one path, patterns that match it and a log of changes
for reference. Bounds: `MaxCalls` on the calls of the program and of the clients
together, `Bodies`, `BuffSize`.

### HttpClient

Each request is a fiber: `lock` (the scan of `m_conns`), `sweep` (deletion of the
invalid ones, `m_total -= n`), `connect`, `send`, `receive`, `release`, `uncount`. The
peer answers in order, at any time, whole or cut off before the last byte, or
leaves. Bytes are named by request and by what they are for (`h` head, `s` size of a
chunk, `d` data, `e` its end of line). `recvResponse` is one step for each of its reads, of
any length up to what is left of the buffer, with what the code does before the
next one; `recv` holds its variables: what it reads next (`at`), the buffer and the
length that is left. A time-out may come at each read. Where the parser is given
something that is not what it expects, both outcomes (an error, or a header that
happens to parse) are possible.
`m_createTime` is 0, as in the code. Bounds: `MaxCalls`, `BuffSize`, `Forms`.

### Parsers

The input is any sequence of characters, one at a time, so that no length bounds
it: the state space is finite because machine, grammar and reference have finitely
many states between them. Characters are classes, split as far as the machines
and the grammars tell them apart. `Ragel` follows a grammar by partial
derivatives; `:>` and `:>>` keep the positions of their left side together, since entering
the right side ends it. The machines are tables of the `goto`s with their actions.
`Tokens` says, by a small automaton that knows nothing of either, which parts
begin and end at a character, and positions in the buffer are represented by the
parts that begin there; so `mark`, `field_start` and `query_start` are sets of
parts and a callback is exact when its mark is the start of its part and the part
ends here. `execute` ends a read and starts the next. `parser->uri_relaxed` is never
initialised and is either value.

### ByteArray

`cells` are the bytes of all blocks in a row, `cur` the number of `m_cur` or 0 for
null. New blocks hold anything. `flat` is what an array without blocks would hold.
`out` tells whether the last operation gave what it should, and whether it is one of
those known to go wrong. A byte is scaled to 3 bits, a 32-bit integer to `Width` = 3
with groups of `Group` = 2, so that integers take one or two bytes and the last group is
not full, as with 32 = 4 * 7 + 4. What is written (`Uints`, `Ints`, `Shorts`, `Buffers`) and
what new blocks hold (`Leftovers`) are constants: small sets for TLC, anything of the right
type for the proofs.

## The runs

Each run takes from a few seconds to two minutes and a half.

| Run | Instance | Shows |
|---|---|---|
| `scheduler_pool` | 2 workers, 2 callbacks, a ready yield, entries pinned by the owner | the scheduler implements `TaskPool`, every callback ends, `stop()` returns |
| `scheduler_hold` | 1 worker and the caller, 2 fibers that hold and yield, wake-ups when settled | one runner per fiber |
| `scheduler_one_thread` | `use_caller` and no pool, wake-ups as early as the code allows, twice per hold, and `switchTo` | with one thread no early wake-up does harm; counters are exact also for entries found ended |
| `scheduler_early_wake` | 2 workers, wake-ups as early as the code allows | violated: two threads on one fiber (below) |
| `timers` | 2 timers, 2 threads, a clock that advances and is set back | registered under its key, fires once, cancel is final, no wrap; never early by more than the clock was set back; until it is, an earlier timer is announced |
| `fd_threads` | 1 closable descriptor, up to 2 fibers on an event, 1 to 3 threads | the pending count is exact, a waiting fiber is in one place, a fiber whose event has happened is resumed, and with one thread no assertion fails but that of a second registration |
| `io_manager` | 2 threads, 2 tasks of any kind, `stop()` | counters exact; queued tasks and timers are run; all threads exit |
| `hook` | 2 fibers; 1 thread and a number given out twice, or 2 threads and one file | with one thread no fiber is stranded and every call with a time-out returns; with two only a close strands one; an assertion fails only when a call outlives its file |
| `server` | 1 client, deaf or not, bodies of 0 and 2 bytes, a buffer of 3, 2 patterns, 5 calls | loops, sockets, requests, dispatch; loops and sessions end |
| `http_client` | 2 fibers, 3 requests, a body and a chunked body, a buffer of 4 | the pool is exact, answers reach their requests, a connection is given back clean, for every split into reads |
| `parsers` | all three parsers, input of any length | machines, grammars and callbacks agree |
| `bytearray` | blocks of 1, 2 and 3 bytes, up to 4 bytes of content | contents and reads are those of a flat sequence; the crashes are the ones listed below |

Why the bounds suffice to reach the cases: two threads on one fiber, timer or
descriptor are what the races need; three threads for a stale batch while one
handles and another registers again; two holds let a fiber be resumed on a
second thread and hold again; two timers let one be earlier than another and
`Slack` = 2 lets a thread be late by one tick without being a rollover. A period of 1
and a clock that advances by 1 make timers due before the clock is set back, after it was
set back by 1, which is less than the hour, and by 3, which is more. Two fibers on a
number given out twice are one that waits through a close and one that opens
anew. Five calls are a bind, start, stop, start and one more, or a bind, start, connect and
two requests, either of which may be broken off, or a stop in place of one, or five changes of the table: `OneKindOfCalls` keeps the
changes of the table apart from the other calls, with which they share no state but
the bound. Three requests of two fibers let a connection be used
twice and another be opened meanwhile. Four bytes fill four, two and two blocks, with
a position inside, at the start and at the end of one. Symmetry is used on
callbacks, threads and fibers, never with liveness. Deadlock is checked except where
the system may come to rest: after all threads have exited, after an abort, or
with a bound used up.

### A disagreement with the comments

`scheduler_early_wake`: a wake-up between the store of HOLD (fiber.cc:216) and
`swapcontext` passes `run()`'s test for EXEC, and two threads are on one stack,
although the comment at scheduler.cc:200 says that a coroutine that is executing
is skipped.

### Behaviour worth knowing

Each property states under which condition it holds; the conditions name
behaviour of the code that a reader may not expect.

Scheduler and timers:

- A wake-up that waits for `swapcontext` but not for `run()` (`WakeFrom` = "saved") is
  not safe either: `run()` then stores HOLD (scheduler.cc:233) over the EXEC of the
  thread that has resumed the fiber.
- The active count is lowered before a READY fiber is queued again
  (scheduler.cc:226): for a moment `stopping()` holds, a worker may exit, and a callback
  that the fiber then pins to it keeps `stop()` waiting. In `scheduler_pool` only the
  owner pins.
- After the clock is set back by more than an hour every timer is taken for
  expired, those included that were added since.
- A first timer 2^31 ms or more ahead makes the argument of `epoll_wait` negative
  (iomanager.cc:385), and the wait has no end; `Remaining` in `io_manager` is below that.

I/O:

- With more than one thread `idle` may trigger an event of its batch that has been
  cancelled since, and `SYLAR_ASSERT(events & event)` fails (iomanager.cc:457, 83):
  `OneThreadOnlyRefuses` is about one thread.
- `tickle()` between a thread's look at the list and its `++m_idleThreadCount` writes
  nothing, so that a task may wait for the time-out of `epoll_wait`; `QueuedTasksEnd`
  holds because that time-out is bounded.
- `stopping()` reads its parts at different times (iomanager.cc:351): all threads may
  exit while a timer is left.
- `do_io` takes `addEvent`'s -1 for success (hook.cc:137), and `close` may pass between
  another thread's `addEvent` and its yield: the fiber then waits with nothing to wake
  it but its timer, which does not help if its callback has run before the
  event was registered. `NeverStranded`.
- A fiber woken by `close` tries again on the number, whatever that stands for by
  then: `AbortsOnlyAfterReuse`.
- Every try arms a new timer with the whole time-out; `CallReturns` does not say how
  soon.

Server:

- `start()` before the task of `stop()` has run leaves two loops on one socket or a loop
  that spins on a closed one: `LoopsSound`, `overtaken`.
- A `bind` that fails drops the sockets of all addresses; loops on them go on after
  `stop()`: `LoopsEnd`, `dropped`.
- On an accept worker with several threads a loop that `stop()`'s `cancelAll` has woken
  may register again before `close_f` (hook.cc:365), and waits for ever, since listening
  sockets have no time-out: `LoopsEnd`.
- A time-out fails a read even if the bytes have come by the time the fiber goes on
  (hook.cc:150), so that a request sent in full may be dropped: `NothingUnanswered`, `late`.
- Accepted sockets have no time-out for sending (tcp_server.cc:89). A client that does
  not read a long response keeps its session: `SessionsEnd`, `deaf`.
- What `recvRequest` has read of the next request is lost (`piped`).

Parsers and client:

- `execute` resets the marks, so that a part cut by the end of a read is reported
  from the start of the next one, and a header may be lost; a request with a lost
  Content-Length is handled without its body (`cut`). `ReportsExact` and `RequestsExact`
  except such parts.
- After a header without a value the line end may be taken for part of the value, and
  the response parser stops in a final state that `httpclient_parser_is_finished`,
  which tests for equality, does not count.
- The request grammar's `dec_octet` and its `6( h16 ":" )` are not those of RFC 3986 (the
  number is a character code in Ragel), nor is the `2` without quotes in `uri.rl`; the
  machines are faithful to the grammars as they are.
- `Uri::Create` throws `std::logic_error` on a scheme and authority with an empty port and
  an empty path, and stores the wrong user if there is a `:` in it: `UriExact`.
- The response parser accepts the header of a chunk as a response; a chunk header cut
  by a read is parsed as a new one: `AnswersOwn` and `ResponseUsedUp` except
  connections where that happened (`cut`).
- `m_createTime` is never set: `m_maxAliveTime` only matters if it exceeds the time
  since 1970, and `m_maxSize` is not used. A failed send gives a connection back to the pool.
- The body of a response is read and not stored: the code that did is a comment.

ByteArray (`CrashesExplained`, `ReadsExact`):

- `addCapacity` compares the rest of the division with the capacity that is left and may
  add one block too few: the write follows a null pointer.
- An empty string whose length ends the last block cannot be read.
- `read(buf, size, position)` starts in the block of `m_position`;
  `getReadBuffers(buffers, len, position)` bounds `len` by what follows `m_position`;
  `writeToFile` is right only from the start of a block.

### Fairness

`Scheduler`: weak fairness of each thread's steps and of the steps inside
`stop()`. The operating system runs every thread and a body that does not hold
comes to an end; the owner is free never to call anything, and no wake-up is
promised, which is why the liveness runs have `MaxHold` = 0. `IOManager`: weak
fairness of each thread, of the tickles it owes, and of time; the return of
`epoll_wait` by time-out is among the thread's steps because its argument is
bounded. Nothing says that a peer answers: an event may stay registered for
ever, and `ThreadsExit` says so. `FdEvents`: the threads go on calling
`epoll_wait`, handling and resuming.

`Hook`: weak fairness of the steps of a fiber that runs; strong fairness of resuming a
fiber in the list, of a timer's expiry and of its callback. With one thread each of
these is disabled whenever something else runs, so weak fairness would promise
nothing; the list is a queue that `run()` serves from its front, and `idle`, which
takes the expired timers, is entered whenever the list is empty. It is assumed
that the program leaves it empty now and then.

`Server`: weak fairness of both parts of `stop()`'s task, of each accept loop and of each
session, whose IOManagers run every task that can go on; a read ends with data,
with the client's close or with the time-out that `startAccept` sets on every client.
`sendResponse` is fair only for clients not in `deaf`: that the rest read what
they are sent is an assumption about them. Of the program and of the clients
otherwise no step is assumed to happen. The safety properties do suppose how clients
behave: `RequestsExact` and `NothingUnanswered` are about clients that wait for each
response before the next request (the others are in `piped`), the latter also about
clients in time for the time-out (not in `late`).

## What is proved

For all values of the constants that satisfy the named assumptions, with TLAPS.

`SchedulerProofs`:

- `TypeCorrect`, `CountersAreExact`: without further hypotheses. The inductive
  invariant `BaseInv` adds `StartOrder`: no thread of the pool has run before
  `start()`, nor the caller before `stop()`; otherwise the step that starts them
  could change the number of active threads. `TypeOK` has the counters in `Nat`,
  which needs their exactness: a decrement only happens at a counted place.
- `DisciplinedSingleRunner`, `DisciplinedNoAssertFailure`: under `Disciplined`,
  that is, wake-ups only when settled, at most one per hold, and no `switchTo`
  to a particular thread. `scheduler_early_wake` shows that the theorems fail
  without it; the code does not enforce it. Neither property is
  inductive. `Ownership` says that a fiber that is neither new nor ended has one
  owner: an entry of the queue, the locals of one thread, or one outstanding
  wake-up, and that `m_state` fits the place of the thread that owns it.
- `DisciplinedRunOnce`: under `Disciplined`, with holds and wake-ups, a callback only
  ever goes from new to queued to running to done. `Carried` says that a submitted
  callback is in one place: one entry of the queue, the local entry of one thread that
  has not entered a fiber yet, or one fiber that can still run. Every step then keeps
  all of them where they are (`Keeps`), submits some, begins one or ends one.
- `ImplementsTaskPool`: the refinement, under `Disciplined` and `SelfDriven` (no callback
  holds, and what callbacks submit is for any thread; the owner may pin, callbacks
  may yield to ready and submit during `stop()`). The mapping is the one of the run. What
  is hard is that `stop()` returns only when nothing is left, because `stopping()` is a
  test of a moment: a thread may see it true and leave while
  the state changes. `Ending` says that once an idle fiber has ended, only fibers submit,
  for any thread, and while there is an entry some thread will look at the queue again;
  `ReadyKept` that a fiber that has yielded is in the queue or in a thread's hands.
  A thread that leaves `run()` found the queue empty after its idle fiber ended
  (`NothingLeft`). Without `SelfDriven` the code does not promise this: `stop()` does not
  wait for fibers on hold, and an entry pinned to a thread that has left stays in the
  queue. With the constants of `scheduler_pool` and either `MaxHold = 1`, or
  `BodyPins = {any, w1}` and `MaxReady = 2`, TLC finds such a run.

`TimerProofs`:

- `TimerTypeCorrect`: with `m_ms <= m_next`, so `m_next - m_ms` does not wrap.
- `RegisteredAlways`, `OneShotAtMostOnce`, `CancelFinal`: for any clock. The
  invariant adds that a timer has its callback from construction, that it has
  not fired before it is shared, and that a one-shot timer with a callback has
  not fired (`MadeWithCallback`, `Lifecycle`).
- `NeverEarlyAlways`: a timer is handed out at most as early as the clock was set back,
  as long as that is no more than an hour in all. `Readings` is the invariant: no
  reading and no `m_previouseTime` is further ahead of the clock than it was set back, and
  no two of them are more than an hour apart, so that no pass takes what it sees for a
  rollover.
- `FrontAnnouncedAlways`: as long as the clock has not been set back. `Clock` relates what
  a thread has read, the clock of the last pass and every timer's distance; it excludes
  a rollover. That a nonempty set of times has a least element is used, too.

`FdProofs`:

- `FdTypeCorrect`, `PendingAlwaysExact`, `AlwaysInOnePlace`: for any finite set of
  descriptors and threads, closable or not. The inductive invariant `Kept` states
  the count and the places without the exception for an abort, which the
  properties make, since `triggerEvent` changes the three pieces of state alike also when its
  assertion fails.
- `OneThreadOnlyEverRefuses`: with one thread `triggerEvent` always finds its event and
  `addEvent` an empty context, also when numbers are reused and several fibers wait with
  one registration. The only assertion that can fail is the one that refuses a second
  registration, and `Hook` has when it does. Adds `Asked` (epoll is asked for nothing that is not
  registered, so that no report names more than that) and `Fresh` (with one thread,
  what has been reported and not handled is still registered: callers run only when the batch
  is done, and handling a descriptor leaves the others alone).

`IdleProofs`:

- `IdleCountsExact`: the invariant adds that no two threads run the same task (`RunsOne`) and
  that a reported event is registered and in the batch of one thread
  (`ReportedOnce`); otherwise `Finish` or `Triggered` could subtract what was subtracted before.

`HookProofs`:

- `YieldedNeverStranded`: with one thread, or as long as nothing is closed. That a fiber is
  registered when it has yielded is the outcome of the steps before it. `Owners` says
  whose a registration is; `Apart`, that no two calls on a file wait for the same event, as
  `addEvent` demands of its callers; `Waits` extends the property to the fiber that is about to
  yield. Where a close can happen, one thread is what protects: `Alone` says that at
  most one fiber or callback is between two of its steps, and that what it has found out on the
  way (the file is there, nothing is registered before it is closed) still holds.
  Before the first close `Unclosed` does the same for any number of threads.
- `AbortNeedsReuse`: if the event is registered when `addEvent` is called, the registration
  is another fiber's in the same call (`Owners`), so by `Apart` on another file.
- `HookTypeCorrect`.

`ClientProofs`:

- `PoolAlwaysExact`: `PoolInv` adds what a fiber has at each place (`Shape`) and that requests
  that have no connection yet do not share the name of one (`Apart`). `m_total` is changed apart from
  the list; `Counted` keeps the difference as the two sets of fibers the property names.
- `AlwaysAnswersOwn`, `ResponseAlwaysUsedUp`: neither says anything of a
  request under way. `Responses` does: on a connection where nothing was cut, nothing is
  to come while no one has it (`Clean`), and while `recvResponse` reads, its place, its
  buffer and the unread bytes together are the rest of one response, from some byte of one of the `Forms`
  on (`Reading`, `Inside`). A read, wherever it ends, and all that is parsed
  behind it before the next one, moves that byte on or comes to the response's last.
  This is for any set of well-formed responses, any buffer of two bytes or more and any
  number of chunks. A time-out or a failed read closes the connection, so that a
  late answer finds nobody.

`ServerProofs`:

- `LoopsAlwaysSound`: needs that the sockets in `m_socks` are open, and that unless
  `start()` has overtaken a `stop()`, a task of `stop()` runs, both its parts, while `m_isStop` is set.
- `RequestsAlwaysExact`, `NothingLeftUnanswered`: `Progress` says, for each place of a session
  (nothing read, a head cut, a body read in part, ready for the servlet, sending), which bytes of which
  request have been read and which are still to come. The clients in `piped` are
  exempt from the invariant too, since a request once lost is not made up for; those in
  `late` are not, as their session is over.
- `DispatchAlwaysExact`: `TableInv` says that the table has exactly the names whose last change is
  an `add`, with the servlet of that change, and the patterns in the order of their
  last changes; so the first that matches is the one that has been there longest.

`ByteArrayProofs`:

- `CurAlwaysAtPosition`, `ContentsAlwaysExact`, `ReadsAlwaysExact`, `CrashesAlwaysExplained`: for
  blocks of any size, bytes and integers of any value and `Width`, varint groups of any size
  below it. The inductive invariant `Inv` says that the last operation was right and that
  either the array is well placed (`Placed`: whole blocks, `position <= size <= capacity`,
  `m_cur` the block of the position) and holds `flat`, or it has crashed in a call that is known
  to. The contents are not inductive by themselves: a write is right only if `m_cur` is,
  and `m_cur` is right only if `addCapacity` has made room (`EnoughBlocks`), which
  fails exactly where `TooFew` says.
- `ReadsExact` and the files need induction: `ValueOfVarint` (decoding inverts encoding),
  `VarintLength` (at most `MaxBytes` bytes), `SavingExact` (`writeToFile`) and `LoadExact`
  (`readFromFile`), each about a recursive function. The induction is written out as the least
  counterexample (`LeastNumber`), which needs no operator as a parameter. `Zigzag` is for
  every value of the type, the smallest included.

`ByteArrayAssumption` has `Group < Width` (7 and 32 or 64) and lengths that fit into an integer.
`InputAssumption` says that what is written is of its type. `PowerAssumption` states that
`2^(n + 1) = 2 * 2^n`, a fact of arithmetic: the prover knows of powers only that they are
integers, and TLC evaluates it up to `2 * Width`.

The counters and cardinalities need that threads, tasks, timers, descriptors and fibers are
finitely many, which the `ASSUME`s say. `HttpClientAssumption` says what a response
looks like: a head, then a body of the length it tells, or chunks up to one of size 0.

Only model-checked:

- liveness, which needs fairness and `ENABLED`: `EveryTaskEnds`, `StopReturns`, `TimersFire`,
  `WakesUp`, `QueuedTasksEnd`, `ThreadsExit`, `CallReturns`, `LoopsEnd`, `SessionsEnd`;
- the parsers, whose grammars are recursive operators, which the prover does not take. Here
  TLC covers more than a small instance: the machines are fixed tables, and what it
  explores is all of their states together with those of the grammars and the tokens.

## Not modelled

- `IOManager::contextResize` and the growth of `FdManager`'s table: the modules take
  tables that are large enough.
- `fcntl`, `ioctl` and the sleeps of `hook.cc`.
- Of `http_parser.cc`, what its callbacks do with the parts they get: `m_error` for an
  unknown method or version, and the value of content-length. `execute`'s memmove is in
  `ReadHead` and `ParseHead`, where the bytes that were not used stay in the buffer.
- The limits of the connection pool are followed, but no property asks for them; the
  negative argument of `epoll_wait`, and a variable-length integer that never ends, are not
  reached by the inputs of `IOManager` and `ByteArray`.
- HTTP messages (data classes), `Config` (set up before the threads run), sockets and
  addresses (wrappers of system calls; what callers rely on is in their modules), threads
  and locks (taken as atomic steps), logging and utilities.
- `http/http11_parser.cc` and `http/httpclient_parser.cc`: older copies of the
  compiled machines that the build, which runs Ragel to make the `.rl.cc` files, does
  not use.
- Contexts and stacks are reduced to which thread executes on which fiber. Memory
  reclamation through `shared_ptr` is not modelled.

Worth adding next: a table that several threads grow.
