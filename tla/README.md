# Verification of coding-demo's event-driven network library

The repository is a collection of programs. The one with logic worth modelling
is `src/CPP/muduo` ("libcpp"): a C++11 library of about 5300 lines of its own in
which one thread per loop multiplexes file descriptors, timers and functors
queued by other threads, with TCP, KCP and HTTP on top and an asynchronous
logger beside it. Next to it stand an asynchronous logger in C, two hash tables,
an intrusive list and a Go logger. The rest is demos, benchmarks, changed copies
of other projects' examples, and vendored code.

Paths below are relative to `src/CPP/muduo/src` unless they begin with `src/`.

Contents: 1 inventory, 2 plan, 3 modules and how they correspond to the code,
4 runs and bounds, 5 fairness, 6 proofs, 7 disagreements found, 8 limits.

## 1. Inventory

### The reactor

| part | state | operations | interacts with |
|---|---|---|---|
| `EventLoop` (`reactor/EventLoop.cc`) | `looping_`, `quit_`, `doingPendingFunctors_`, `pendingFunctors_` under `mutex_`, the eventfd, `activeChannels_` | `loop`, `quit`, `runInLoop`, `queueInLoop`, `wakeup`, `doPendingFunctors` | every component calls it, from its own thread and from others |
| `Channel` (`reactor/Channel.*`) | `events_`, `revents_`, `index_` | `enable*`, `disable*`, `handleEvent` | `EventLoop::updateChannel` |
| `EPoller` (`reactor/EPoller.cc`) | `channels_` (written only), the kernel's interest list, `events_` | `updateChannel`, `removeChannel`, `poll` | the kernel, `Channel::index_` |
| `Poller` (`reactor/Poller.cc`) | `pollfds_`, `channels_` | the same over poll(2); compiled, used by nothing | |
| `EventLoopGroup` | `threads_`, `loops_`, `next_` | `start`, `getNextLoop` | one thread and one `EventLoop` per member |
| `TimerQueue`, `Timer` (`datetime/`) | `timers_`, `activeTimers_`, `cancelingTimers_`, `callingExpiredTimers_`, the timerfd | `addTimer`, `cancel`, `handleRead` | posts to its loop, calls user callbacks from its loop |
| `TimerWheel` (`datetime/`) | buckets, `currentTime_`, the overflow wheel, `delayQueue_` | `addTimer`, `cancel`, `handleRead` | the same; used by a benchmark only, `EventLoop` has a `TimerQueue` |

*Hard*: the wake-up rule of `queueInLoop()` and `quit()` against a loop thread
about to sleep; the swap of the functor vector while functors queue more;
`quit_` set before `loop()` resets it; callbacks that cancel their own timer or
another of the same batch; two clocks; a bucket of the wheel that fires early and
is filled again; raw `Channel` pointers in the kernel and
in `activeChannels_` while handlers and functors destroy channels; the three
values of `index_`.

*Correct when*: no functor and no quit is slept through, and a loop with nothing to
do sleeps; functors are called
once, in order; the two sets of timers agree, each timer has one owner, a
cancelled one does not come back, the timerfd is armed in time; the interest
list says what the channels say, and nothing points to a channel that is gone.

### TCP

| part | state | operations | interacts with |
|---|---|---|---|
| `Acceptor` | `listening_`, its channel | `listen`, `handleRead` | `TcpServer::newConnection` |
| `TcpServer` | `connections_`, `nextConnId_`, the group | `start`, `newConnection`, `removeConnection`, `removeConnectionInLoop` | the io loops' queues, and back |
| `TcpConnection` | `state_`, two buffers, channel, socket | `send`, `shutdown`, four handlers, `connectEstablished`, `connectDestroyed` | its owner's close callback, application callbacks |
| `Connector` | `connect_`, `state_`, `channel_`, `retryDelayMs_`, `timerId_` | `start`, `stop`, `restart`, `handleWrite`, `handleError`, `retry` | timers, functors, `TcpClient::newConnection` |
| `TcpClient` | `connection_` under `mutex_`, `retry_`, `connect_` | `connect`, `disconnect`, `stop`, `newConnection`, `removeConnection` | `Connector` |
| `Socket`, `InetAddress` | a descriptor, an address | wrappers of system calls | |
| `Buffer` (`io/`) | a vector, read and write index | `append`, `retrieve`, `makeSpace`, `readFd` | `TcpConnection` |

*Hard*: short writes; a callback that sends or shuts down in the middle of a
handler; `shutdown()` in another thread racing a close; a connection that is
held only by functors on their way between two loops; a retry timer racing
`stop()`; descriptors that are used again.

*Correct when*: bytes are neither lost, doubled nor moved; the channel waits to
write just as long as there is output; the stream ends after the last byte; a
connection is established, forgotten and taken down in this order, once, and
lives until then; every socket has one owner; as long as a connection is wanted
the chain of attempts does not end.

### Logging, KCP, HTTP, applications

| part | state | operations | hard |
|---|---|---|---|
| `AsyncLoggingDoubleBuffering` | `currentBuffer_`, `nextBuffer_`, `buffers_` under `mutex_`, `running_`, the thread's two spare buffers | `append`, `start`, `stop`, `threadFunc` | a notify without the mutex, buffers that change hands |
| `LogFile` | a `FILE*`, bytes written, the day, the last flush | `append`, `rollFile`, `flush` | short writes, rolling in the middle of a batch |
| `Logger` | a stack buffer, one global output function | `LOG_*` | formatting only |
| `kcp/ikcp.c` | a control block: two queues and two lists of segments, the acknowledgements to send, the peer's window, probe flags and timers | `ikcp_send`, `ikcp_recv`, `ikcp_input`, `ikcp_update`, `ikcp_flush` | datagrams lost, doubled, late; a window that closes; retransmissions that cross their acknowledgements |
| `KcpLayer`, `KcpServer`, `KcpClient` | a map of conversations, two eventfds, `ikcp` control blocks | `handleRead`, `receive`, `send`, `notifyData`, `notifyConnection`, handshake by conversation number | one eventfd that adds up the numbers of readable conversations |
| `HttpServer`, `HttpClient`, `HttpSession` | `sessions_`, the parser's state, `lastIsValue_`, `curField_`, `curValue_` | connection and message callbacks, parser callbacks | `sessions_` is shared by the io threads without a lock |
| `HimServer` (`src/CPP/muduo/app/him`) | `userSessionMap_` | `onBody` | sends on other sessions' connections, from whichever thread |
| `thread/*.h` | locks, a latch, a thread pool | | included by nothing, most do not compile |

*Correct when*: what a round of the logging thread takes reaches the file in order,
once, and none of it stays in stdio after the round; `stop()` returns; what KCP acknowledges is held by the peer, its
windows are kept although each end learns late of the other's, messages come
whole, once and in order, and all come as long as both ends are updated; the
number the application reads from an eventfd is that of a conversation.

Outside the library: `src/C/logging` (the double-buffering logger in C),
`src/C/hash/{cuckoohash,simplehash}`, `src/C/container/list.h`, tutorial programs
in `src/C/{net,process,netns,taptun,base}`, `src/C/iniparse` (vendored),
`src/C/dpdk` (changed DPDK examples, benchmarks of vendored parsers),
`src/Go/log/logger`, `src/CPP/src` (build demos, vendored JSON), scripts and image
files. `PROJECT.json` lists each with its status and reason.

### How the parts interact

Every object belongs to one loop and is touched in that loop's thread. What
crosses threads does so by `queueInLoop()`, with these exceptions, which are
where the hazards are: `quit_`, `state_` of a connection (`send()` and
`shutdown()` test it anywhere, `shutdown()` sets it), `connect_` of `Connector`,
the logger's buffers (under a mutex) and `running_`, and `HttpServer::sessions_`.
A handler never destroys a channel: destruction is left to functors, which run
after the last handler of a round. Assertions are live: no makefile of the
library defines `NDEBUG`.

## 2. Plan

Done so far, in the order of the plan:

1. `Executor`, `EventLoop`, `EventLoopProofs` - what every other part relies on.
   `Executor` is the abstract promise of `queueInLoop()`; `EventLoop` implements
   it (checked and proved), and the other modules use the promise: a sequence of
   functors, called in order, once, by the loop's thread.
2. `TimerQueue`, `TimerQueueProofs` - the timers of a loop.
3. `Connector` - attempts, retries, the client's life cycle.
4. `Buffer`, `TcpConnection` - one connection and its two buffers.
5. `LogFile`, `AsyncLogging` - the logger's two sides and the file behind them.
6. `EPoller` - channels, interest list and the lifetimes of channels, as the two
   users of 3 and 4 produce them.
7. `TcpServer` - connections between the base loop and the io loops, with
   `EventLoopGroup`.
8. `Ikcp`, `MessageStream`, `Kcp` - KCP's control block, the stream of messages it
   promises, and two control blocks over a network that fails.
9. `KcpLayer` - handshake, conversation numbers and notification above `Ikcp`.
10. `TimerWheel` - the hierarchical wheel and its delay queue.

Then the proofs, on the modules as they were:

11. `TcpConnectionProofs`: lemmas about `Buffer`'s operators for every size, and with
    them the five safety properties of `TcpConnection`.
12. `EPollerProofs`: the interest list and the lifetimes of channels.
13. `ConnectorProofs`, `TcpServerProofs`: owners, retries, assertions, references.
14. `AsyncLoggingProofs`: the swaps lose no line, on lemmas about `FlattenSeq` and `LogFile`.
15. `KcpProofs`: acknowledgements, windows, and the refinement of `MessageStream`. For
    it the loops of `Ikcp` (`Input`, `DatagramSize`, `Pack`, `Pushes`) are recursive
    functions, which a proof can reason about.

To come: what can be said of `KcpLayer` and `TimerWheel` besides that they disagree with
what is said of them - that no timer of the wheel runs early, that a conversation
without a second notification ends well - first as runs, then as theorems.

Left out for good reason, see section 8: HTTP, the copies in C, the demos. One run
per module is the aim, with a second one only where the code and what is said of
it disagree; small properties are given up for deeper ones.

## 3. Modules

A module's variables carry the code's names without the trailing underscore.
Each action is a handler, a functor, a call, or the part of one between two
places where application code runs. Operators introduced by "Seeded fault" are
used by no action: each is what a definition after it would be if the code had
a certain mistake, and serves to show that a property notices it.

**`EventLoop`.** The loop thread is a program counter `pc` over `loop()` and
`doPendingFunctors()`: `entering` (before `quit_ = false`), `while`, `poll`,
`dispatch`, `handler`, `drain`, `functor`. Application code - a handler, a functor,
or what the thread does outside `loop()` - is any sequence of `OwnQueue` and
`OwnQuit`. A foreign caller's `queueInLoop()` is `CallerQueue` (the push under
the mutex and the decision to wake) followed by `CallerWakeup` (the write to the
eventfd); `CallerQuit` likewise. `executed`, `pushed` and `early` are history.

**`Executor`.** Functors handed over wait in one sequence and are called from its
head. Under the mapping `waiting <- batch \o pending` the swap under the mutex is
invisible.

**`TimerQueue`.** `timers` and `activeTimers` are the two sets; `expired`, `toRun`,
`readAt` are `handleRead()`'s locals, which is split into `HandleRead` (read the
timerfd, take what has expired), `RunTimer` and `CallbackReturns` for each timer,
and `Reset` (reinsert, delete, re-arm). `OwnAddTimer` and `OwnCancel` run between
them. Expirations are wall-clock times; `mono` is what the timerfd counts,
`offset` their difference, which `SetClock` changes. A handle is the pair that
`addTimer()` returns: its sequence is 0 whatever the timer's is (see 7).

**`Connector`.** `channel`/`polled` are `channel_` and whether the poller watches
it, `open` the sockets of the process, `timers` the retry timers that are armed.
`Answer` is the kernel completing connect(2). `TcpClient` is the part that owns
`connection`: `newConnection()` is in `HandleWrite`, `removeConnection()` is
`ConnectionLost` and `Restart`, which are two steps because a `stop()` of another
thread fits between its test and `restart()`.

**`Buffer`.** Operators on a record of `cells` (`buffer_`) and two indices. `MakeSpace`
is the choice between `Resize` and `MoveToFront`; `ReadFd` splits what it reads between
the vector and the buffer on the stack. What nobody reads any more stays in the
cells, as it does in the vector, so that a wrong index would show old bytes.

**`TcpConnection`.** `inputBuffer` and `outputBuffer` are `Buffer`s, `wire` is what
write(2) has taken, `consumed` what message callbacks took; bytes are positions in
the stream. A message callback takes any part of the buffer, with `retrieve()` or
`retrieveAll()`; what else it does are the actions that may follow. `SendInLoop` is in the actions of its
callers. `handleWrite()` is split at the write-complete callback (`Flushed`),
`connectDestroyed()` at the connection callback (`RemoveChannel`). `shutdown()` in
another thread is three steps: test, set, queue. `OwnerRemoves` is the owner's
part of the removal.

**`AsyncLogging`.** A `unique_ptr` to a buffer is `NoBuffer` or a sequence of one
element, the buffer's lines. `append()` is one step (it holds the mutex);
`threadFunc()` is split at every statement where another thread gets a turn:
the test of `running_`, the start of the critical section, the end of the wait,
each buffer's writing, the refill. `output` is the log file of module `LogFile`.

**`LogFile`.** Operators on `files`, what each `File` object has passed to the kernel,
and `stdio`, what its buffer holds: stdio passes on as much as it likes, and
`AppendLines` gives every outcome of `append()` - a new file because this one is full
or the day is over, a flush because the interval is, or neither.

**`EPoller`.** `index` is `index_`, `interest` the kernel's list, `size` that of
`events_`. A channel belongs to a `Connector` or a `TcpConnection` (`role`), and the
actions are what these do to it in handlers (`Retry`, `HandOver`, `HandleClose`,
`EnableWriting`, ...) and functors (`ResetChannel`, `ConnectDestroyed`,
`RemoveChannel`); `Destroy` is the last reference. `Poll` takes what fits in the
array, chosen by the kernel.

**`TcpServer`.** Each loop is a queue of functors, which hold references (`held`
for those called in the current round). Reference counting is not an action:
`Alive` says that a reference exists, and a descriptor is in use as long as its
connection is alive. `MakeThread`, `SetPromise`, `GetLoop` and `EnterLoop` are the
two sides of `EventLoopGroup::start()`.

**`Ikcp`.** A control block is a record with `ikcp.c`'s field names. The lists that
the code keeps sorted by number (`snd_buf`, `rcv_buf`) are functions from sequence
numbers, which makes the code's searches and insertions a domain test; `probe` is
the set of the two flags; `probing` says that the probe timer runs. `Input` takes a
datagram segment by segment (`InputSegment`), `Flush` returns the control block and
the datagrams `Pack`ed within the mtu. The loops are recursive functions of the number
of turns. The caller says which timers have expired.

**`MessageStream`.** Messages that were sent are delivered whole, once, in order.

**`Kcp`.** Two control blocks and the datagrams between them. A step is one call:
`SendMessage`, `RecvMessage`, `Update` (any subset of the running timers may have
expired), `Receive`, or a `Fault` of the network: loss, duplication, or a datagram
that is overtaken by all others on their way. It implements `MessageStream` with
`sent` and `delivered` as they are.

**`KcpLayer`.** Each node has the map `connections`, the counters of the eventfds and
`curConv`, the number its application read last, and `length`, that of the last message
as its callback was told. `HandleRead` of the UDP socket is
`HandleSyn`, `HandleAck` or `HandleData` by the kind of the datagram; `HandleConnection`
and `HandleMessage` are the two eventfds. A map entry that `operator[]` makes has
no control block (`NoBlock`), and to use one is what ends the program.

**`TimerWheel`.** A bucket is a level and a number; `wheel` holds `currentTime_` of each
level there is, the expiration of each bucket, the delay queue and the time the
timerfd is set to. `AddTimer`, `Cancel` and `HandleRead` are whole, since callbacks
change nothing. `place` is where a timer is, with `Lost` for one that is allocated
and in no bucket.

## 4. Runs and bounds

| run | states | what is let happen | what it shows |
|---|---|---|---|
| `eventloop` | 140,763 | the loop thread, two foreign threads (one calls twice, in any mix of `queueInLoop` and `quit`), one application channel; no poll timeout | no functor and no quit is slept through (`NoMissedWakeup`, `NoMissedQuit`), functors run once in order (`ExactlyOnceInOrder`, `ImplementsExecutor`), all are run or the loop ends (`FunctorsRun`), `quit()` ends it (`QuitStopsLoop`), a loop with nothing left to do goes to sleep (`LoopComesToRest`) |
| `timerqueue` | 188,244 | two timers, one-shot or repeating, from both sides, cancelled at any point, the clock set once in either direction | the sets agree, one owner, armed in time, cancel is final, every timer runs |
| `timerqueue_cancel` | | the same | finding 1 |
| `connector` | 85,528 | three descriptors, `start` and `stop` twice each, errors at each stage, lost connections | sockets have one owner, the chain of retries does not break, with one `start()` no assertion fails, a wanted connection is made |
| `tcpconnection` | 239,506 | four bytes out in any portions, from callbacks and from another thread, short writes, two bytes in, buffers with room for one, `shutdown` from both sides, a peer that closes and resets | bytes in order in both directions, watching, FIN after the last byte, one life, shutdown completes, a close is reported |
| `asynclogging` | 86,932 | two threads with three lines each, buffers of two lines, files of two, `stop()` anywhere | lines in order through buffers, stdio and files, all that was swapped out is in a file when the thread ends (not what was appended after the last swap: section 7), `stop()` returns |
| `asynclogging_refill` | | the same | finding 2 |
| `epoller` | 139,971 | three channels on two descriptors, an array of one event | the interest list agrees with the channels whenever the loop polls and no epoll_ctl fails, no dangling pointer, every ready channel is served |
| `tcpserver` | 17,542 | no, one or two io loops, four clients, two descriptors | assertions across loops, no connection dies before it is taken down, clients are served |
| `kcp` | 65,267 | two messages of two segments through a window of three, one loss, duplicate or delay anywhere | what is acknowledged is held, windows and mtu are kept, `MessageStream` is implemented, every message is delivered |
| `kcplayer` | | one client, two messages each way | finding 3 |
| `timerwheel` | 162,928 | two one-shot timers, ticks of two units, wheels of two buckets, three levels | finding 4 |

Why the bounds are enough for what the runs ask:

- `MaxCalls = 2`, `Busy = {t1}` (`EventLoop`): the wake-up race needs one caller
  between push and write, another one pushing meanwhile, and one call that
  follows another; order per thread needs two calls of one thread. The proofs
  have no such bound.
- `MaxTimers = 2`, `MaxTime = 3`, `MaxSteps = 1`, `Intervals = {1}` (`TimerQueue`):
  two timers can be in one batch, in two batches, or one added by the other's
  callback; with three ticks a repeating one runs, is reinserted and runs again.
  The safety properties are proved without the bounds.
- `Fds` of three and `MaxCalls = 4` (`Connector`): one socket of the attempt, one of
  the connection, one of a former connection; start-stop-start-stop.
- `MaxBytes = 4` (`TcpConnection`): a message split by a short write, behind one that
  is buffered, with a third from the write-complete callback. With one cell before
  and one after the bytes, four bytes make the vector grow and then move to the
  front with a byte left in it; `MaxInput = 2` and `ExtraBuf = 1` split a read between
  vector and stack, and leave a byte in the kernel when both are full. Three bytes
  in and three out pass as well (234,930 states).
- `LargeBuffer = 3` with lines of size 1 holds two lines, since the code wants one
  unit left; with `MaxLines = 3` per thread all three buffers of a round are used
  and `append()` also allocates. `RollSize = 2`: a file is full in the middle of a
  batch, and a batch can need several files.
- `kInitEventListSize = 1` (`EPoller`): the array is full at once and grows, as it
  does with the real value after 16 ready descriptors. Two descriptors for three
  channels: one is closed and opened again while the old channel still waits to
  be deleted.
- `MaxConns = 4`, `Fds` of two (`TcpServer`): `getNextLoop()` wraps round twice, and
  two connections can be had only with a descriptor that was released.
- `RcvWnd = 3` with messages of two segments (`Kcp`): the window closes with a
  message and a half waiting to be taken and the rest on its way, so that probes
  and window updates are needed; messages of three are refused, as long as the window.
  `SndWnd = 2`: a segment overtakes another and is acknowledged first, which with
  `Resent = 1` starts a fast retransmission. `Mtu = 3`, a data segment having size 2
  and a header 1: acknowledgements and window commands share a datagram, two data
  segments do not. `MaxAcks = 1` lets no datagram in while an
  acknowledgement waits for a flush; a datagram that carries several makes
  several wait. One fault is enough for a loss of each kind of segment and for each
  reordering; two faults with `Mtu = 2` pass too (227,582 states, too long for a
  routine check), and so does `Mtu = 4` with one (113,914). The branch of a segment
  beyond the window cannot be reached with `SndWnd <= RcvWnd`, which `KcpLayer`'s
  values satisfy.
- `MaxMessages = 2` (`KcpLayer`): the sum of two numbers is the smallest number that
  is no conversation's.
- `MaxDelay = 3`, `LastAdd = 6`, `MaxTime = 16` (`TimerWheel`): time goes on well after
  the last timer could be due, and the lowest wheel has
  turned more than once while timers are added.

Deadlock is checked where the system cannot stop (`epoller`); in the other runs
callers run out of calls, connections end, or an assertion ends the program.

## 5. Fairness

Weak fairness is assumed of threads that can run: the statements of `loop()`,
functors and handlers, which are code of the loop thread and return; callers
inside `queueInLoop()` or `quit()`, between the push and the write. Nobody is
obliged to call anything, to connect, to send or to close. Where more is assumed:

- `EventLoop`: `poll()` comes back by itself only when it was given a timeout
  (`PollTimesOut`); the run has none, so that a missing wake-up shows.
  `LoopComesToRest` has its conditions in the formula: at some time no more bytes
  arrive and no signal interrupts `poll()` any more. That nobody calls any more is the
  bound on calls.
- `TimerQueue`: time passes (weak fairness of `Tick`), for `TimersRun`.
- `Connector`: connect(2) is answered, retry timers fire (module `TimerQueue`), and
  - for `Connects` only - the server accepts now and then: an attempt that is tried
  again and again is at some time connected. Without it a retry may fail for ever.
- `TcpConnection`: the peer reads, so that the socket becomes writable; the poller
  reports a channel that is ready (module `EPoller`, `Served`).
- `AsyncLogging`: the wait in `threadFunc()` ends; it is a timed wait.
- `Kcp`: the receiver takes its messages, datagrams that are neither lost nor
  delayed arrive, and `ikcp_update()` is called repeatedly (the comment above it asks
  for that), which finds each running timer expired at some time. The conditions
  are weak fairness with ENABLED written out, because TLC would evaluate a call of
  `Flush` for every primed variable of it. `KcpLayer` does not call `ikcp_update()`
  repeatedly (section 7), so the run speaks of the protocol, not of that user.
- `TimerWheel`: time passes and a timerfd that fired is read.
- `TcpServer`: strong fairness of accepting: the base loop polls again and again,
  each time with other channels to serve, and the array of events grows until the
  acceptor is among them (module `EPoller`, `Served`).

## 6. Proofs

Eight modules are checked by TLAPS, for every value of the constants that satisfies
the named assumptions of the modules:

| module | proved of every behaviour | left to TLC |
|---|---|---|
| `EventLoopProofs` | `TypeOK`, `NoMissedWakeup`, `NoMissedQuit`, `ExactlyOnceInOrder`, `ImplementsExecutor` | `FunctorsRun`, `QuitStopsLoop`, `LoopComesToRest` |
| `TimerQueueProofs` | `TypeOK`, `SetsAgree`, `OneOwner`, `CancelTakesEffect`, `ArmedInTime` | `TimersRun` |
| `TcpConnectionProofs` | `TypeOK`, `BytesInOrder`, `WatchesOutput`, `FinAfterFlush`, `LivesOnce` | `ShutdownCompletes`, `CloseIsReported` |
| `EPollerProofs` | `TypeOK`, `InterestAgrees`, `NoDanglingPointer` | `Served` |
| `ConnectorProofs` | `TypeOK`, `SocketsOwned`, `KeepsTrying`, `AssertionsHold` | `Connects` |
| `TcpServerProofs` | `TypeOK`, `AssertionsHold`, `TakenDownFirst` | `ClientsServed` |
| `AsyncLoggingProofs` | `TypeOK`, `LinesInOrder` | `StopReturns` |
| `KcpProofs` | `AckedIsHeld`, `WindowsKept`, `ImplementsStream` | `Delivered` |

Each module states its inductive invariant as `IInv` (a conjunction of named parts),
proves that `Init` implies it and that each action keeps it, with a lemma for every
action or group of actions, and derives the properties from it. Every `IInv` was an
invariant of the module's run before it was proved.

**`EventLoop`**, from `ThreadAssumption`, `ChannelAssumption`, `BoundAssumption`,
`PollAssumption`:

- `TypeCorrect`: `Spec => []TypeOK`, on which the others rest. No run checks it.
- `NoWakeupMissed`, `NoQuitMissed`, `CalledOnceInOrder`: the three safety properties.
- `LoopImplementsExecutor`: `Spec => Executor!Spec` under the mapping above.

`NoMissedWakeup` speaks of a loop asleep with an empty eventfd and says nothing of
the steps before. What is inductive is stronger: with an empty eventfd a functor
is unannounced or early wherever the loop is, except between `poll()` and the swap
(`AnnouncedBeforePoll`), and that rests on
`doingPendingFunctors_` being true exactly from the swap to the end of the round
(`DoingIsAccurate`). `IInv` joins these with `TypeOK`, `NoMissedQuit` and
`ExactlyOnceInOrder`. The refinement is by cases: a push maps to `Submit`, a call of
a functor to `CallNext`, every other step to a stutter, in particular the swap,
which moves `pending` to `batch` and leaves `batch \o pending`.

**`TimerQueue`**, from `BoundAssumption` and `IntervalAssumption`:

- `TypeCorrect`; `SetsAlwaysAgree`: `timers_` and `activeTimers_` agree, so the
  assertions of `insert()` and `cancelInLoop()` hold; `TimersHaveOneOwner`: no timer
  leaks, is deleted twice or is used after its deletion; `CancelIsFinal`: a timer
  cancelled by its own sequence is not scheduled again; `AlwaysArmedInTime`: the
  timerfd never misses the earliest timer, whatever the clock is set to.

The inductive invariant adds the shape of the batch (`BatchShape`: `expired` is empty
outside `handleRead()`), that timers in play were created and are posted once
(`Created`), and that a cancelled timer of the running batch is marked in
`cancelingTimers_` (`CancelMarked`), without which a repeating timer that cancels
itself would come back. `AlwaysArmedInTime` is a second induction on top of it.

**`TcpConnection`** and **`Buffer`**, from `BufferAssumption` and `BoundAssumption`:
`TypeCorrect`, `BytesStayInOrder`, `OutputIsWatched`, `FlushedBeforeFin`, `OneLife`.

The first lemmas are about the operators of `Buffer` and hold for buffers of any size
over any set of bytes: what is readable after `retrieve()` is the rest, after
`append()` and `readFd()` what was readable with the new bytes behind it, whether
`ensureWritableBytes()` moved the bytes to the front, made the vector grow, or did
nothing. `BytesInOrder` is then kept because a message either goes behind what is on
the wire, when nothing waits, or behind what waits (`MessageGoesLast`), and a write or
a `retrieve()` takes from the front (`FrontIsWritten`, `FrontIsRead`). The invariant
adds that nobody has the connection before `connectEstablished()` (`Established`), that
`handleClose()`, `removeConnection()` and `connectDestroyed()` each follow the one before
and happen once (`ClosedOnce`), and that a queued `sendInLoop()` has its byte
(`SendFits`). `LivesOnce` needs `ClosedOnce`: it speaks of the states at which handlers
find the connection, and says nothing of the functor on its way.

**`EPoller`**, from `ChannelAssumption`, `FdAssumption` and `SizeAssumption`: `TypeCorrect`,
`InterestKept`, `PointersHold`.

`InterestAgrees` alone is not inductive: whether an `epoll_ctl` fails depends on who has
the descriptor, and whether a registered channel waits for something when the loop
polls depends on which handlers and functors are under way. The invariant therefore
follows each owner: how far it is says what index and events its channel can have and
whether it still has its descriptor (`Objects`), the kernel's list is that of the
channels with `kAdded`, with their events (`Interest`), a reported channel has an owner
whose handlers may run (`Dispatching`), and a functor finds its owner where it left it
(`Queueing`). A descriptor that is closed and opened again is the case the proof turns
on: two owners never have the same open descriptor.

**`Connector`**, from `FdAssumption` and `BoundAssumption`: `TypeCorrect`, `OneOwner`,
`ChainGoesOn`, `NoAssertionFails`.

`KeepsTrying` alone is not inductive, since a `cancel()` that is still queued would break
the chain: `Chain` lets a retry timer count only if no `cancel()` for its sequence is
on its way, and adds that while anything mentions sequence 0 the counter has left it,
so that no second timer gets it. `OneChain` is about
the time before the second `start()`: whatever calls `startInLoop()` next finds no
channel, nothing connected and no second timer, which is why no assertion fails.

**`TcpServer`**, from `BoundAssumption` and `FdAssumption`: `TypeCorrect`,
`NoAssertionFails`, `DownBeforeGone`.

A connection's life is a relay of functors between two loops. `Stages` says of every
connection in every stage which functor is in the queue of which loop, `Queueing` the
reverse: a functor that is queued finds its connection in the stage it was queued
in, and is queued once. That the last reference goes after `connectDestroyed()` follows,
because until then one of the functors is in a queue.

**`AsyncLogging`** and **`LogFile`**, from `BoundAssumption` and `RollAssumption`:
`TypeCorrect`, `LinesKept`.

`NoneLost` says that the lines of the file, of the thread's buffers, of `append()`'s
full buffers and of its current one, one after the other, are those that `append()` took.
Each step moves the border between two of these: the swap, `AppendLines` of one buffer
(which passes any part on to the kernel and may close the file), the clearing.
What else is inductive is that between two rounds, and after the last one, neither
stdio nor the thread has lines (`BetweenRounds`, the second part of `LinesInOrder`), and that a null pointer, an empty buffer and a full one are all
that a pointer can be (`Typed`).
`LogFile`'s lemmas say that rolling and flushing change no content
(`RollFileKeeps`, `FlushKeeps`), and that a file exceeds its size by less than a
buffer (`Rolled`).

**`Ikcp`** and **`Kcp`**, from `WindowAssumption`, `SizeAssumption` and `BoundsAssumption`:
`NothingAckedIsLost`, `WindowsAreKept`, `StreamRefinement`.

The invariant names the stream `st` of all segments that the accepted messages were cut
into (`Flow`) and says what each end and every datagram know of it:

- at the sending end (`SendSide`): the segments without a number are those of the
  stream from `snd_nxt` on, those in `snd_buf` are the stream's at their number;
- at the receiving end (`ReceiveSide`): `rcv_queue` is the stretch of the stream that ends
  at `rcv_nxt`, `rcv_buf` has the stream's segments beyond it, inside the window;
- on their way (`Segs`): an acknowledgement is of a segment that its sender holds, `una`
  is a number below which it holds all, a data segment is the stream's at its number.
  These sets only grow as the ends go on (`PeerMoves`), which is why a datagram that
  is late, or comes twice, still tells the truth;
- `Covered`: what is below `snd_nxt` and in no `snd_buf` is held by the peer. This is
  `AckedIsHeld`, and inductive only with the facts about datagrams.

Each operator of `Ikcp` has a lemma that it keeps these facts, for any control block:
`InputSegmentKeeps` by the kind of the segment, `InputKeeps` by induction over the
datagram, `PackKeeps` and `PushesKeep` by induction over what goes out. The refinement
needs one more fact, that `FirstMessage` - up to the next segment with `frg` = 0 - is the
next accepted message, whole (`FirstMessageIs`): `rcv_queue` begins where a message begins,
because what was taken ends with a segment that has `frg` = 0. `SendMessage` of a message
that is not too long maps to the abstract `SendMessage`, `RecvMessage` to `DeliverNext`,
all else to a stutter. `ResendAssumption` is not needed: when something is sent again is
a matter of progress, not of safety.

The induction theorems of the library take an operator, which the provers cannot
instantiate. Where a proof needs induction - `FlattenSeq` in `AsyncLogging`, the loops in
`Ikcp` - it is over a set instead of a predicate: a set of numbers that has 0 and with n
also n + 1 contains all (`Induction`), because a set of numbers that is not empty has
a least element (`LeastElement`), which follows from the library's theorem that finite
sets have no infinite descent.

Not proved, only model-checked: every liveness property (the last column of the
table above), since fairness and ENABLED are out of the provers' reach, and what the runs of section 7 show
to be violated. `KcpLayer` and `TimerWheel` have no theorem.

## 7. Where code and words disagree

1. `datetime/TimerQueue.cc:59`: the handle that `addTimer()` returns carries sequence
   0, and `cancelInLoop()` looks up the pair: cancelling any timer but the first of
   the process has no effect. `Connector::stop()` says "stop retry" of such a call.
   (`timerqueue_cancel`)
2. `logging/AsyncLoggingDoubleBuffering.h:114` "refills" two new variables that hide
   the spare buffers: the second round moves a null pointer into `currentBuffer_`.
   (`asynclogging_refill`) Properties of `AsyncLogging` therefore hold "until a null
   pointer ends the program". A program gets to the end of the thread without one
   when `stop()` comes before the end of the second round, with nothing appended
   after that round's swap.
3. `kcp/KcpLayer.cc:184` writes the conversation's number to an eventfd, which adds up
   what is written: two notifications of conversation 1 are read as conversation 2,
   which has no control block, and `assert(kcp)` (`kcp/ikcp.c:365`) ends the program.
   (`kcplayer`)
4. `datetime/TimerWheel.cc:58-62` queues a bucket only if its expiration changes, and
   computes that from the bucket's number as if `currentTime_` were the start of a
   turn: a bucket that fired early gets the same expiration again, is not queued,
   and the timer put into it never runs. (`timerwheel`)

Two assertions that calls from the wrong place or at the wrong time fail have no
run of their own, because one call is enough. `net/Connector.cc:41` asserts
`state_ == kDisconnected`: `start()`, `stop()`, `start()` while the first attempt is
under way fails it, and `AssertionsHold` says that it takes a second `start()`.
`net/TcpConnection.cc:63` asserts the loop thread, and `send()` of a connection that is
up calls it from any thread: that is step `ForeignSend`.

Met on the way and not stated as findings, because nothing in the repository says
otherwise, or because any run shows it:

- `stop()` of the logger loses lines, with no null pointer involved:
  `threadFunc()` (`AsyncLoggingDoubleBuffering.h:93-122`) leaves its loop as soon as it
  finds `running_` false, without a last swap, and the `output.flush()` behind the loop
  only reaches what was swapped out. One line and a `stop()` before the first test of
  `running_` are enough; the line stays in `currentBuffer_` and no file has it. That
  every line reaches a file is therefore no property; `LinesInOrder` says what is
  true: the files have a prefix of the lines, which ends at the last swap, and the rest
  is in `buffers_` and `currentBuffer_`;
- `KcpServer::handleRead()` and `KcpClient::handleRead()` do not test what `receive()`
  returns: a notification for a datagram that completes no message (it came before the
  one it follows, or twice) has `ikcp_recv()` return -1, `datagram_.add(-1)` moves the
  end of the buffer before its beginning, and `onMessage()` is called with a length of
  -1 (`length` in module `KcpLayer`);
- a `quit()` between the promise of `EventLoopGroup::start()` and `loop()` is lost;
- a `stop()` between the two halves of `TcpClient::removeConnection()` is lost;
- `send()` after `shutdown()` leaves the channel writable for ever;
- destroying a server with io threads ends the program, since nobody joins them;
- `KcpLayer.cc:159` stores the peer's address under `nextConv_` and not under the
  number in the answer: every client but the first has it in another entry, and
  what it sends goes to the address of zeros;
- `KcpLayer.cc:203` passes microseconds where `ikcp_update()` takes milliseconds, and
  lines 205-206, the timer that would call it again, are commented out: nothing
  retransmits after the last `send()` or datagram;
- `LogFile` with `threadSafe = true` locks its mutex twice in one thread;
- a repeating timer of the wheel that is due again when it is reinserted is in no
  bucket (`TimerWheel.cc:164`), and cancelling it, or a timer that has run, uses an
  invalid list position;
- `UdpServer.cc:60` receives into what is left of its buffer and never makes space:
  a callback that does not take everything shortens the datagrams that follow.

## 8. Limits

- A connection's application keeps its reference until its calls are done
  (`TcpConnection`); functors bound to a raw `this` are otherwise dangling.
- `TcpClient::disconnect()` and the destructors of `Connector`, `TcpClient`,
  `TcpServer` and `EventLoop` are left out: they end objects that functors and timers
  still bind.
- `quit_` and `state_` are plain variables shared by threads. The reads sit between
  opaque calls, so that the build cannot keep them in registers; each read and each
  write is a step.
- In `EPoller` and `TcpServer` the handlers of a round and its functors may alternate
  in more ways than in the code, never in fewer.
- Errors other than those the actions name (no memory, a bad descriptor, signals)
  do not occur.
- `Ikcp`: sequence numbers do not wrap; round trip times, and with them the length
  of timeouts, are left to the choice of expired timers; congestion control is off,
  as `KcpLayer` sets it; stream mode and `ikcp_check()` are used by nobody.
- `KcpLayer`: the network delays and loses datagrams and does not double them.
- `LogFile`: lines have one length, the disk is never full.
- `TimerWheel`: callbacks neither add nor cancel timers; the list of buckets is
  sorted by pointers, taken to be in the order of allocation.

### Not modelled

- `HttpServer`, `HttpClient`, `HttpSession`: the parser is vendored; the map of sessions
  is a red-black tree that io threads change at the same time, which is undefined
  from the first two callbacks on; the assembly of header fields from parser
  callbacks is a loop over one string.
- `Poller`: no code constructs it.
- `thread/*.h`: nothing includes them and most do not compile.
- `UdpServer`, `UdpClient`, `Socket`, `InetAddress`, `Logger`: system calls and formatting
  without state in between.
- `src/C`: the logger is a variant of the one modelled; the hash tables and the list
  are sequential demos; the rest is single system calls, DPDK examples, and
  benchmarks of vendored parsers.
- `src/Go`, `src/CPP/src`, scripts and images: wrappers, snippets, vendored JSON.

`PROJECT.json` has the reason for each with its component.
