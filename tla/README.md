# muduo in TLA+

TLA+ modules for the muduo network library in `src/` (`src/base`, the threading and logging
library, and `src/net`, the reactor, TCP and the protocols on top of it), TLC configurations that
check them on small instances, and TLAPS proofs of what matters most.  `PROJECT.json` lists the
components, runs, theorems and hazards and maps every definition to the lines it models.

## The system and its parts

muduo is "one loop per thread".  An `EventLoop` belongs to the thread that created it; it polls
(`EPollPoller` or `PollPoller`) for the events of its `Channel`s, calls their handlers, and then
runs the functors other threads have queued with `queueInLoop()`, after waking it through an
eventfd.  `TimerQueue` is a channel on a timerfd.  `EventLoopThread` runs a loop in a new thread,
`EventLoopThreadPool` has several and deals them out.  A `TcpServer` accepts in its base loop
(`Acceptor`) and gives every `TcpConnection` one of the loops of the pool; closing a connection goes
from its loop to the base loop, which owns the map of connections, and back.  A `TcpClient` has a
`Connector` that connects and retries.  A connection reads into and writes from a `Buffer`.

On connections there are an HTTP server, which the `Inspector` uses to show the inside of a process,
a codec for protobuf messages, and RPC on top of the codec.  In `src/base`, `Thread` starts threads
with a `CountDownLatch`; `ThreadPool`, `BlockingQueue` and `BoundedBlockingQueue` pass work between
them.  A `Logger` puts a line together in a `LogStream`, `AsyncLogging` passes lines to a thread
that writes them, and `LogFile` keeps the files.  `Date` and `TimeZone` are calendar arithmetic.

| Part | Source | Module | Safety |
|---|---|---|---|
| EventLoop | `net/EventLoop.*` | `EventLoop`, implements `LoopExecutor` | proved |
| EventLoopThread | `net/EventLoopThread.*` | `EventLoopThread` | proved |
| EventLoopThreadPool | `net/EventLoopThreadPool.*` | `EventLoopThreadPool` | proved, in `TcpServer` |
| Channel, Poller, EPollPoller, PollPoller | `net/Channel.*`, `net/Poller.*`, `net/poller/*` | `Channel`, `EPollPoller`, `PollPoller`, `DefaultPoller`, implement `Poller` | proved |
| TimerQueue, Timer, TimerId | `net/Timer*` | `TimerQueue` | proved |
| Acceptor, TcpServer | `net/Acceptor.*`, `net/TcpServer.*` | `Acceptor`, `TcpServer` | proved |
| TcpConnection | `net/TcpConnection.*` | `TcpConnection` | proved for safe programs |
| Connector, TcpClient | `net/Connector.*`, `net/TcpClient.*` | `Connector`, `TcpClient` | proved for one `connect()` |
| Buffer, Endian | `net/Buffer.*`, `net/Endian.h` | `Buffer`, implements `ByteQueue` | proved |
| HTTP | `net/http/*` | `HttpServer` | |
| Inspector | `net/inspect/Inspector.*` | `Inspector` | proved |
| ProtobufCodecLite | `net/protobuf/ProtobufCodecLite.*` | `ProtobufCodecLite`, implements `MessageStream` | proved |
| RpcChannel, RpcServer | `net/protorpc/*` | `RpcChannel` | proved |
| BlockingQueue, BoundedBlockingQueue | `base/B*Queue.h` | `BlockingQueue` | proved |
| ThreadPool | `base/ThreadPool.*` | `ThreadPool` | proved |
| Thread | `base/Thread.*` | `Thread` | proved |
| CountDownLatch, MutexLock, Condition | `base/CountDownLatch.*`, `base/Mutex.h`, `base/Condition.*` | `CountDownLatch` | proved |
| AsyncLogging | `base/AsyncLogging.*` | `AsyncLogging` | |
| LogFile, AppendFile | `base/LogFile.*`, `base/FileUtil.*` | `LogFile` | |
| Logger, LogStream | `base/Logging.*`, `base/LogStream.*` | `Logger`, `Conversions` | |
| Date, TimeZone | `base/Date.*`, `base/TimeZone.*` | `Date`, implements `Gregorian`; `TimeZone` | |
| Socket wrappers, inspectors' commands, zlib, the rest of `base/` | | | left out, see the end |

## Modules and how they correspond to the code

In all modules a definition keeps the name of the function it models, a variable that of the member.
A step is a piece of code that no other thread can observe half done: what lies between taking and
releasing a mutex, between two system calls that others can see, or, for objects that only one loop
touches, one handler.  User callbacks are not modelled by what they compute: while one runs, the
actions of the calls it may make are enabled.

* **EventLoop.**  `pc` is where the loop thread is between two such pieces; `functors` is what
  remains of the batch that `doPendingFunctors()` has swapped out; `waking` has the threads that have
  decided to call `wakeup()` and have not written yet.  `ran` and `early` are history.  Calls on a
  destructed loop are undefined and not made.  **LoopExecutor** is what the loop promises: a FIFO
  queue whose functors are run once; the refinement mapping takes the queue to be
  `functors \o pendingFunctors_`.
* **EventLoopThread** extends EventLoop and takes its actions only where `threadFunc()` performs them.  Any
  user of the loop may `quit()` it; a destructor that comes too late for the loop meets NULL or a dead
  object, which ends in `owner = "crashed"` or in nothing.
* **Channel** has what a channel's owner may call and what both pollers share; **EPollPoller** and
  **PollPoller** add the kernel's set and the vector.  **Poller** is the abstract class as a
  specification: registered interest, and polls that report only registered channels.
  **DefaultPoller** has one or the other and is shown to implement Poller.
* **TimerQueue** has a clock, timer objects at addresses that are reused, the two sets, the timerfd, and
  calls by the loop and by other threads, whose functors it runs later.  A batch is what one
  `getExpired()` takes; the properties that speak of what was called speak of batches.
* **TcpConnection** follows one connection with its server, both loops, the peer and the users;
  `use` says what program this is (one of the constant `Uses`).  **Acceptor** and **TcpServer**, which
  extends EventLoopThreadPool too, have several connections with fewer states each; a loop there is a
  FIFO of functors, which is what EventLoop is proved to implement.  Functors bound to the bare `this` of a
  connection (`TcpConnection.cc:119, 144, 224, 318, 333`) count as references to it: whoever queued one is
  taken to hold the connection until it has run.
* **Connector** is extended by **TcpClient**, which adds the owner's calls and the connection.  Timers have no
  clock: each poll may find any of them expired, however short or long the loop was held up.  `overruled` is
  history: the last `stopInLoop()` that ended an attempt found `connect_` true again.
* **Buffer** has its operations as operators from buffer to buffer and an action for each;
  **ByteQueue** is what it promises.
* **HttpServer** is one connection of the server.  What the peer sends is a sequence of lines; a step is
  one call of `onMessage()`, which parses what has arrived, in whatever pieces.  The peer either waits for
  an answer before it sends more or does not.
* **ProtobufCodecLite** has frames whose parts have lengths, an amount of bytes that has arrived, and one
  step per turn of the loop in `onMessage()`.  **MessageStream** is what a codec promises: messages once and in
  order, up to the first that is refused.
* **RpcChannel** is both ends of a connection.  `CallMethod()` is three steps, as another thread sees
  them: the number, the entry in `outstandings_`, the message.  The two byte streams are message streams,
  which the codec is shown to implement.  A connection may go down at any time and be made again; a
  service may run its closure after that.  A message with an error leaves the caller's response object as it
  was, and its closure is not told the error.
* **Inspector** has the two tables, threads that call `add()` and `remove()`, and the request being
  served.  The mutex is a variable: the command runs while it is held.
* **CountDownLatch** goes down to the steps of `MutexLock` and `Condition`: the pthread mutex and `holder_`
  change in different steps.  **Thread** uses it through INSTANCE for the latch of `start()`.
* **ThreadPool**, **BlockingQueue** and **AsyncLogging** have one action per critical section; condition
  variables are sets of waiting threads, and a wait may end without cause.  Without threads, as before
  `start()`, `run()` of a pool runs the task itself.
* **LogFile** has a clock that may be set back, files by the second of their name, and a disk that
  may refuse a write.  **Logger** has the life of one line after the other: an item is its kind and length, the
  buffer has its real size.  **Conversions** has each function of `LogStream.cc` as an operator; what it returns
  is compared with the number it was given.
* **Date** is walked day by day along **Gregorian**, a calendar that counts.  **TimeZone** has the tables of
  zone files as they are after reading, and asks for times around every change; division truncates, as in C++,
  so that `toUtcTime()` has to correct it before 1970.

MCThreads, MCProtocols and MCValues hold several components side by side: a variable `uses` is chosen in the initial state
and says which one the program has; the others stay as they are.  The components do not
interact there.  Where they do interact, the composition is in the modules above: EventLoop in EventLoopThread,
the pool and the acceptor in TcpServer, CountDownLatch in Thread, Connector in TcpClient,
TcpConnection with server and both loops.

Each module has a type invariant; where it has no place of its own in a config it is the first conjunct of
the module's main invariant (`SetsAgree`, `OneAttempt`, `CallsMatch` and so on).

Definitions named `X_Something` before `X` are wrong versions of `X` that the properties are known to
reject.

## Runs

| Run | Module | What it shows | Bounds |
|---|---|---|---|
| `event_loop` | `MCEventLoop` | A loop alone, or that of an EventLoopThread.  No functor and no `quit()` waits for the poll timeout; functors run once, in order (refinement); the pointer `startLoop()` returns is good until somebody calls `quit()`; `startLoop()` and the destructor return, unless such a `quit()` came first | owner, another thread and the loop's own code, three functors, eventfd of two |
| `default_poller` | `MCDefaultPoller` | `index_`, the map and what the kernel is given agree; the pollers' assertions hold; both implement Poller | four channels, two for one descriptor, one for descriptor 0 |
| `timer_queue` | `TimerQueue` | The two sets agree, the timerfd is always set for what is left, cancelled timers stay cancelled, old ids cancel nobody else | two addresses, two timers, times to 4 |
| `tcp_connection` | `TcpConnection` | Closed and destroyed once and in order, the stream keeps its order, FIN after the data, a forced or peer's close is carried through | four programs (below), two messages of two bytes |
| `tcp_server` | `TcpServer` | Even distribution over the loops, removal finds its connection, the map is exact, no descriptor is lost, a client is served even without descriptors | zero to three threads, six clients, three descriptors |
| `tcp_client` | `TcpClient` | One attempt at a time, no leaked socket, the connector's assertions (but for the timer of a `stop()` that was overwritten), `stop()` is final, a client that wants a connection gets it | one `connect()`, three queued functors, delays 1, 2, 3 |
| `threads` | `MCThreads` | ThreadPool and the queues: once, in order, bounded, no lost wakeup, `stop()` returns.  AsyncLogging: no line lost or reordered except those dropped, which is announced; lines reach the disk.  CountDownLatch: `holder_` is right, `wait()` returns when and only when all have counted down.  Thread: the object may go when `start()` has returned | two producers, two workers, queue of two, three tasks or items each; ten lines, two per buffer, drop beyond three buffers |
| `protocols` | `MCProtocols` | RPC: each closure once, with the response to its own call, or none after an error; each call answered unless the connection is lost.  HTTP: answers in the order of the requests, closed when asked; who waits is answered.  Codec: implements MessageStream.  Inspector: no command runs once it has been removed | two callers, three calls, two connections; five lines; three frames; three `add()` |
| `values` | `MCValues` | Buffer implements ByteQueue, integers survive.  Log lines stay in their buffer and show their own time.  Numbers are shown exactly.  Files roll without losing or reordering a line, one file per name.  Date implements the calendar.  Local times read back | six bytes, bytes of two bits; real line size; numbers around every threshold; four lines, days of three seconds; 1900 to 2300; three zones, whole or cut short |
| `timer_add_race` | `TimerQueue` | **violated**: `addTimer()` reads a timer that the loop may have deleted | as `timer_queue` |
| `tcp_force_close_race` | `TcpConnection` | **violated**: `forceClose()` in another thread closes a connection twice | one program |
| `http_assertion` | `HttpServer` | **violated**: a refused request line is parsed again and meets the assertion in `setMethod()` | three lines |

Why the bounds are enough for what is asked: lost wakeups, overtaking and double removal need two
threads and two or three items; the wrap of `next_` needs more clients than loops (six and three);
the exchange of `idleFd_` needs more clients than descriptors, twice in a row (six and three);
address reuse needs a second timer at the address of the first; the bytes of a buffer must not fit, must fit
exactly and must fit after moving, which six bytes with two for `prepend()` allow.  `EventfdMax = 2`
stands for 2^64 - 2, so that the limit is met.  A buffer of AsyncLogging has the capacity 3 and holds two
lines, since `append()` wants `avail() > len`.  A response for the wrong call needs two calls on their way and
a closure left over from the connection before: three calls and two connections.  Two requests sent ahead need
four lines, a header a fifth.  A second file of the same day needs `rollSize_` to be passed twice, within one
second and across a day's end.  The calendar repeats after 400 years.

The four programs of `tcp_connection` are the largest that are safe (see Proofs): a connection with a loop of
its own, and one in the server's loop, whose user code sends, shuts down and forces the close, also after a
delay; one in the server's loop whose user code stops and starts reading and shuts down; and one whose server may
be destructed.  In all of them another thread sends.

Deadlock is not checked where the system may come to rest: a loop that is destructed, a stopped
pool or logger, a thread that has ended, a bounded number of clients, timers, calls or lines.

### Fairness

Threads that can run do run (weak fairness of the loop's own steps, of workers and of the logging
thread), and calls that have started finish.  `EventLoop` has no fairness for the poll timeout or for
I/O events: the point of the wakeup is not to depend on them.  Peers, clients and owners are not fair.
`AsyncLogging` relies on `waitForSeconds()` ending after `flushInterval_`; the code does, too.
`ConnectsInTheEnd` has its assumption on the server in the formula (`ServerAnswers`).
The latch has strong fairness for getting the mutex: a thread that waits for a mutex that is free again
and again gets it, as no more can be said of pthreads.  In RPC, both loops handle what has arrived and services
run their closures in the end, which is what the caller of a service relies on; that a connection stays up is
not assumed but excepted in the formula.  In HTTP, what has arrived is handled; that the peer sends the rest of
its request is not assumed.

## Proofs

Eight modules have theorems; they hold for every value of the constants that meets the named assumptions of
the modules (`ThreadsAssumption`, `PoolAssumption` and so on: numbers are natural, threads are different
threads).  Where a theorem has a hypothesis of its own it is in its statement and named below.  Each proof finds
an inductive invariant, shows that `Init` establishes it and that every action keeps it, and derives the property.
The bounds of the runs (`MaxSends`, `MaxTime`, `MaxClients`...) are constants like the others, so that a theorem
covers executions of any length.

**`EventLoopProofs`**, for any threads, functors and capacity of the eventfd: `TypeCorrect`, `WakeupsAreNotLost`
(`Spec => []NoLostWakeup`), `QuitReachesPoll`, `ImplementsExecutor` (`Spec => FifoExactlyOnce`, the refinement of
LoopExecutor), `ThreadUsesLoop` (the loop of an EventLoopThread behaves as EventLoop says) and
`PointerIsAlwaysGood`.  `NoLostWakeup` speaks of the loop in `poll()` and is not inductive.  `IInv` has
`WakeupPending` instead: at every place from which the loop can reach `poll()` without swapping the queue first
("idle", "while", "poll", and while functors run), a queued functor has a wakeup on its way.  At "handle" and
"io" it need not, because the swap comes first: this is why `handleRead()` may clear the eventfd.
`BatchDiscipline` (`callingPendingFunctors_` is true exactly while a batch runs) is what makes the test in
`queueInLoop()` right for the loop's own thread.  The refinement has two facts about sequences: the head of the
batch is the head of batch and queue together, and swapping leaves their concatenation alone.
`PointerIsAlwaysGood` rests on `ThreadInv`: `loop_` is set exactly between the two critical sections of `threadFunc()`, and the
second is reached only after a `quit()`.

**`PollerProofs`**, for any channels and any reuse of descriptors, with either poller: `ViewsAlwaysAgree` and
`PollersImplementPoller`.  `ChannelInv` is what the two have in common: a descriptor has one live channel, and
`addedToLoop_` tells exactly the channels of the map.  Every step of either is a `ChannelStep`, which keeps
`ChannelInv` and is a step of Poller.  `EPollInv` adds that `index_` says whether the kernel's set has the channel.
`PollInv` adds that `index_` leads to the channel's entry of `pollfds_`, that every entry has a channel and that
there are as many as channels in the map, which is what moving the last entry into the gap needs; and that
the descriptor can be read back from the negative number which `-fd-1` makes of it.

**`TimerQueueProofs`**, for any threads, timers, addresses and times: `SetsAlwaysAgree`, `TimerfdAlwaysArmed`,
`FiringIsAlwaysDisciplined` and `CancelIsAlwaysExact`.  `TimerInv` has six parts.  `TypesInv`; `TodoInv`: what is
left of the batch is the end of it; `PlacesInv`: a timer that exists is in the sets, in the batch or in a queued
`addTimerInLoop()`, in one of them and once; `CancelInv`: a cancelled timer is not in the sets, not about to be
added, and if it is in the batch it is in `cancelingTimers_`, so that `reset()` will not restart it; `ArmedInv`:
between batches the timerfd is set for each timer or for the next unit of time; `FiredInv`: a timer called in an
earlier batch is a repeating one whose expiration is an interval later.  `cancelInLoop()` and `insert()` keep
`PlacesInv` only because an address is not given to a new timer before the old one has left all three places.

**`TcpServerProofs`**: `AlwaysBalanced`, for any number of threads and calls, where `PoolInv` says that the loops
before `next_` have been given one more than the others and `DealingKeepsBalance` is the wrap; and
`ConnectionsAlwaysBalance`, for any clients and descriptors too.  For that, `DueOf` says for a connection at each
stage of its life which functor it waits for and in which loop, and `Matches` that the queues hold exactly these
functors, each once.  A functor that runs then finds its connection in the state for which it was queued, whatever the
other loops did meanwhile.  `DescriptorsInv` says what `idleFd_` is at each stage of `handleRead()`.

**`TcpConnectionProofs`**, for every set of safe programs, any number and length of messages and any
high-water mark: `AlwaysDownThenDestroyedOnce`, `ConnectionAssertionsAlwaysHold` and `StreamAlwaysInOrder`.  The
hypothesis is `\A u \in Uses : SafeProgram(u)`.  A safe program does what the code supports: another thread
only sends; the server is destructed only if its connections live in its loop and none is on its way down; reading
is stopped only where nothing forces the close and the loop that closes the connection also destroys it.  Each restriction
stands for a behaviour listed below ("Where the code and its documents part"), and TLC finds a violation without it; the first is the run
`tcp_force_close_race`.  `ConnInv` has five parts.  `Typed`: what a safe program can have queued; `Life`: before
`connectEstablished()` nothing else happens, while the connection is up it is in the map and nothing removes it, and
once it is down it is being removed, being destroyed or destroyed, and each of these says which functors wait in which
loop; `Pending`: an event that leads to `handleClose()` finds the connection up; `Interest`: the channel wants to
write exactly while `outputBuffer_` has bytes, and wants nothing once the connection is down; `Stream`: byte `i` of
the stream is number `i`, and `outputBuffer_` continues where the kernel's part ends.

**`TcpClientProofs`**, for any delays and bounds: `StopIsAlwaysFinal`; and, provided that `connect()` is called at
most once (`MaxConnects <= 1`), `OneAttemptAtATime` and `ConnectorAssertionsAlwaysHold`.  With a second `connect()`
both fail, as said below.  `AttemptInv` says that a retry timer, a
socket being connected, a call of the client, a connection and a queued start exclude each other; `ChannelInv`
relates `state_`, `channel_` and the queued `resetChannel()`; `DeadInv` says that a destructed client left its
connector stopped or idle.  `OrderInv` says why a retry timer finds no channel: `handleError()` and `handleWrite()` set
it in the handlers, and the batch that follows resets the channel before the next poll; only `stopInLoop()` sets one
while it queues the reset behind its own batch (`Late`), and then `overruled` is set.  `StopIsFinal` needs only `StopInv`: a client that still wants a
connection while its connector was told to stop has none to lose.

**`ThreadProofs`**.  `LatchIsAlwaysExact`, for any finite set of counting threads: `LatchInv` counts, `count_` is the number of
threads that have not been through `countDown()`; and it says that `mutex_` is a thread exactly while that is at a
place that owns it, which gives mutual exclusion and that nobody else writes `holder_`.
`ObjectAlwaysOutlivesUse`: the owner returns from `start()` after it has seen `count_` at zero with the mutex in
its hands; the child let the mutex go after it had made it zero, and that was the last it did with the object.
`TasksAlwaysTakenInOrder`, for any workers, or none, producers and queue size: what was accepted is what was taken followed by what
waits, and what was taken has run or is being run by a worker, so that `stop()`, which joins the workers, leaves
no task half done (`PoolInv`).  `ItemsAlwaysInOrder`, for either blocking queue: `BoundedFifo` is inductive.  These
two are the parts of `QueuesAreFifo` of the run `threads`.

**`ProtocolProofs`**.  `CallsAlwaysMatch`, for any callers and any number of calls and connections: `RpcInv` says
where a call can be: being numbered or stored by its caller, in the request stream, with a service, in the
response stream, at its closure, or done; that it is in no two of these; and that it is in `outstandings_` from
before its request is sent until its response is taken.  That the call is stored before it is sent is what the
proof needs of `CallMethod()`.  `RemovedIsAlwaysQuiet`, for any modules and commands: a command that runs has been
looked up under the mutex, and the mutex is held until it returns; `remove()` needs it.
`BufferIsByteQueue`, for any data, sizes and widths of integers (`BufferSpec => IsByteQueue`): `Good` is the picture at the head of
`Buffer.h`, the indices in order and inside the vector; a lemma for each operation says what it does to the bytes
between them, and `EnsureIs` covers `makeSpace()` in both its cases, the move and the resize.  `CodecStreamsMessages`, for any lengths of a frame's parts,
of which the length field is not empty (`CodecLengths`): `CodecInv` says that what was retrieved and
what has arrived are positions of the stream as it was sent; the theorem has the safety part of `ImplementsStream`.

Only model-checked, because the prover cannot do it: liveness (`LoopResponds`, `StartAndJoinReturn`,
`ClientsComeAndGo`, `ClosesAreCarriedOut`, `ConnectsInTheEnd`, `NoWakeupIsLost`, `LinesReachDisk`, `CallsAreAnswered`,
`WhoWaitsIsAnswered`, and that the codec does not wait for a later message), which needs fairness and ENABLED; and what
is an induction over data: `AnswersInOrder` of HttpServer (the expected answers are defined by recursion over the lines),
`LinesAccountedFor` of AsyncLogging (lines in buffers of buffers), `LinesAreRight`, `NumbersReadBack`, `TimesReadBack`,
`FilesAreRight` and `ImplementsCalendar`.

## Where the code and its documents part

Three disagreements have a run (the violations above):

* `addTimer()`, "Must be thread safe" (`TimerQueue.h:48`), reads `timer->sequence()` after it gave the timer away.
* `forceClose()` tests and sets `state_` without a lock, so `connectDestroyed()`, "should be called only
  once" (`TcpConnection.h:119`), is queued twice.
* `HttpRequest::setMethod()` asserts `method_ == kInvalid` (`HttpRequest.h:55`).  A request line that is refused
  for its target or its version has set the method and stays in the buffer; `shutdown()` closes only the writing
  side, and when more arrives the same line is parsed into the same request.

The models leave out, or the properties exempt, the following, where the code has limits of its own.
Each was met as a counterexample while the property was being stated.

* `quit()` before `loop()` has reset `quit_` is forgotten (`EventLoop.cc:120`); a destructor of
  EventLoopThread that comes so early waits for ever.  `StartAndJoinReturn` claims the join only from inside the loop.
* A user's `quit()` of the loop of an EventLoopThread makes `threadFunc()` clear `loop_` and destruct the loop.
  `~EventLoopThread` between its test and its call then calls NULL or a dead object, as the comment at
  `EventLoopThread.cc:32` says; if it comes later it returns without joining the thread.  If the loop's own code
  quits it before the owner has looked at `loop_` again, `startLoop()` waits for ever (`EventLoopThread.cc:48`).
  `PointerIsGood` and `StartAndJoinReturn` are stated up to such a `quit()`.
* Disabling a channel that has no events registers it with EPollPoller (`EPollPoller.cc:133`), although the
  comment at line 162 says that a channel without events is deleted; with PollPoller a later
  `remove()` fails its assertion (`PollPoller.cc:133`), which `~Acceptor` of a server that was never started does.
* A timer cancelled by an earlier callback of its own batch is still called once (`TimerQueue.cc:194`);
  `cancel()` in the loop's thread can overtake the queued `addTimerInLoop()` (`TimerQueue.cc:145`).
* After `stopRead()`, a forced close registers the idle channel again and a reset can enter
  `handleClose()` a second time (`TcpConnection.cc:438`); `startRead()` after the close does the same (`:321`).
* `shutdown()` in another thread tests and sets `state_` like `forceClose()`, and can set it back to
  `kDisconnecting` after the loop has closed the connection (`TcpConnection.cc:217`).
* `~TcpServer` removes the channel of a connection in `kDisconnecting`, which still reads (`TcpConnection.cc:360`);
  with connections in other loops, functors bound to the server may be queued (`TcpServer.cc:115`).  The
  destructor is therefore taken without pool threads, or when all connections are gone.
* `TcpServer::start()`, "Thread safe" (`TcpServer.h:78`), starts the pool, which asserts that it is in the base
  loop's thread; the model calls it there.
* `stop()` of a client between the test of `connect_` and `restart()` is overwritten (`TcpClient.cc:174`).  Its
  functor then ends the attempt of `restart()` but sets a timer for the next, and queues `resetChannel()`
  for a later batch; if the loop is held up until the timer is due, `startInLoop()` comes first and meets
  `assert(!channel_)` (`Connector.cc:140`).  `ConnectorAssertionsHold` exempts that timer by `overruled`.
* `connect()` of a client after a connection has closed without reconnection fails the assertion of
  `Connector.cc:54`; `stop()` and `connect()` queued during one attempt meet `assert(!channel_)` (`Connector.cc:140`).
* `~TcpClient` in the iteration that made the connection drops the connector with a functor queued
  (`TcpClient.cc:82`), and in another thread it races with `newConnection()` (`:98`).  It is taken in the loop,
  with nothing of the connector under way.
* The exchange of `idleFd_` assumes that no other thread opens a descriptor meanwhile (`Acceptor.cc:89`).
* One call of `onMessage()` handles one HTTP request; a second one that has arrived with it waits for more
  input (`HttpServer.cc:78`).  `WhoWaitsIsAnswered` speaks of peers that wait for each answer.
* A service that runs its closure after the connection is gone uses a channel that was deleted with it
  (`RpcServer.cc:57`).  The model then lets nothing happen or the server crash.
* A command that calls `add()` or `remove()` of its Inspector waits for the mutex its own request holds; the
  model's commands do not.
* The lines appended after the logging thread's last collection and before `stop()` returns are not written
  (`AsyncLogging.cc:81`); `LinesAccountedFor` counts them as held in the buffers.
* A zone file that is missing or cut short gives a TimeZone that calls itself valid (`TimeZone.cc:222`), with
  the tables read so far.
* After `setTimeZone()`, lines of the second already cached still show the old zone (`Logging.cc:150`);
  `LinesAreRight` excepts that second.

## Not modelled

* Socket, SocketsOps and InetAddress wrap system calls, whose results are inputs of the models; calls
  that end the process on failure are not made to fail.
* ProcessInspector, SystemInspector and PerformanceInspector are commands that read `/proc` and format what they
  find; Inspector runs them.  ProcessInfo reads the same files.
* ZlibStream and GzipFile wrap zlib.
* Atomic and CurrentThread are single instructions and thread-local variables; they are part of the steps that use
  them.
* ThreadLocal, Singleton, ThreadLocalSingleton, WeakCallback, Timestamp, Exception, StringPiece and the other small
  headers have no behaviour over several steps.
* Of the modelled parts: the destructor of TimerQueue, names of threads, `ReadSmallFile`, HTTP paths, queries
  and bodies, the text of dates and the byte layout of zone files.
