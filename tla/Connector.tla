----------------------------- MODULE Connector ------------------------------
(***************************************************************************)
(* net/Connector.{h,cc}: opens a connection, retries with a growing delay, *)
(* hands the connected socket to its owner.                                *)
(*                                                                         *)
(* Everything but the stores of start() and stop() runs in the loop        *)
(* thread; another thread's calls arrive through queueInLoop() (module     *)
(* Executor).  Callbacks of the socket's channel, of the retry timers and  *)
(* functors are the steps.  start() and stop() are called alternately, as  *)
(* TcpClient::connect() and stop() are meant to be.  The owner, TcpClient, *)
(* calls restart() when a connection is lost and nobody has stopped it; it *)
(* closes the old socket later.                                            *)
(*                                                                         *)
(* No makefile defines NDEBUG: an assertion that fails ends the program.   *)
(***************************************************************************)
EXTENDS Integers, Sequences, FiniteSets

CONSTANTS Fds,        \* bound: socket descriptors the process can have open
          MaxCalls    \* bound: calls of start() and stop()

NoFd == "none"
ASSUME FdAssumption == NoFd \notin Fds
ASSUME BoundAssumption == MaxCalls \in Nat

kInitRetryDelayMs == 500
kMaxRetryDelayMs == 30 * 1000

\* A timer's sequence matters only as far as being 0: TimerQueue finds no other.
TimerSequence == {"zero", "positive"}

VARIABLES
  connect,        \* connect_
  state,          \* state_
  channel,        \* the fd of *channel_, or NoFd
  polled,         \* the poller watches the channel
  answer,         \* what the network made of its socket
  retryDelayMs,   \* retryDelayMs_
  timerId,        \* the sequence of the timer timerId_ stands for
  timers,         \* retry timers scheduled, by sequence
  numCreated,     \* s_numCreated_ as far as being 0
  functors,       \* functors queued for the loop thread
  young,          \* the timer set since the last poll(), which cannot fire yet
  open,           \* open sockets
  retry,          \* the owner's retry_
  connection,     \* the socket of the owner's connection
  closing,        \* sockets of its former connections, not closed yet
  restarting,     \* the owner has decided to call restart()
  started,        \* the application's last call was start()
  calls,          \* its calls so far
  settled,        \* history: nobody is expected to try any further
  failed          \* the assertion that failed

socket == <<channel, polled, answer>>
retrying == <<retryDelayMs, timerId, timers, numCreated>>
queue == <<functors, young>>
owner == <<retry, connection, closing, restarting>>
application == <<started, calls>>
vars == <<connect, state, channel, polled, answer, retryDelayMs, timerId, timers,
          numCreated, functors, young, open, retry, connection, closing, restarting,
          started, calls, settled, failed>>

Init ==
  /\ connect = FALSE /\ state = "kDisconnected"
  /\ channel = NoFd /\ polled = FALSE /\ answer = "none"
  /\ retryDelayMs = kInitRetryDelayMs /\ timerId = "none"
  /\ timers = [s \in TimerSequence |-> 0] /\ numCreated \in TimerSequence
  /\ functors = << >> /\ young = "none" /\ open = {}
  /\ retry \in BOOLEAN
  /\ connection = NoFd /\ closing = {} /\ restarting = FALSE
  /\ started = FALSE /\ calls = 0 /\ settled = TRUE /\ failed = "none"

\* The program runs on; the loop thread is not inside removeConnection().
Running == failed = "none"
LoopThreadFree == Running /\ ~restarting

-----------------------------------------------------------------------------
(* The parts of an attempt *)

\* What startInLoop() finds, which its caller may have changed just before.
Found == [state |-> state, delay |-> retryDelayMs, timers |-> timers]

Leaves(found) ==
  /\ state' = found.state /\ retryDelayMs' = found.delay /\ timers' = found.timers
  /\ UNCHANGED <<timerId, numCreated>>

\* Seeded fault: no timer once the delay has reached its maximum.
RunAfterBelowMaximum(found) ==
  /\ timerId' = numCreated
  /\ timers' = IF found.delay < kMaxRetryDelayMs
               THEN [found.timers EXCEPT ![numCreated] = @ + 1] ELSE found.timers
  /\ numCreated' = "positive"

RunAfter(found) ==
  /\ timerId' = numCreated
  /\ timers' = [found.timers EXCEPT ![numCreated] = @ + 1]
  /\ numCreated' = "positive"

\* Seeded fault: no maximum.
UncappedDelay(delay) == 2 * delay

NextDelay(delay) == IF 2 * delay < kMaxRetryDelayMs THEN 2 * delay ELSE kMaxRetryDelayMs

\* retry(), but for closing the socket.
Retry(found) ==
  IF connect'
  THEN /\ state' = "kDisconnected"
       /\ RunAfter(found)
       /\ retryDelayMs' = NextDelay(found.delay)
  ELSE Leaves([found EXCEPT !.state = "kDisconnected"])

\* connecting(): the channel of the attempt before must be gone.
Connecting(s, found) ==
  /\ Leaves([found EXCEPT !.state = "kConnecting"])
  /\ open' = open \cup {s}
  /\ settled' = FALSE
  /\ IF channel = NoFd
     THEN channel' = s /\ polled' = TRUE /\ answer' = "none" /\ UNCHANGED failed
     ELSE failed' = "connecting" /\ UNCHANGED socket

\* connect(2) reports an error that another attempt may cure.
ConnectRetries(found) ==
  /\ Retry(found)
  /\ settled' = FALSE
  /\ UNCHANGED <<socket, open, failed>>

\* Any other error: the socket is closed, and that is all.
ConnectGivesUp(found) ==
  /\ Leaves(found)
  /\ settled' = TRUE
  /\ UNCHANGED <<socket, open, failed>>

StartInLoop(found) ==
  IF found.state = "kDisconnected" /\ connect'
  THEN \/ \E s \in Fds \ open : Connecting(s, found)
       \/ ConnectRetries(found)
       \/ ConnectGivesUp(found)
  ELSE /\ Leaves(found)
       /\ failed' = IF found.state = "kDisconnected" THEN failed ELSE "startInLoop"
       /\ UNCHANGED <<socket, open, settled>>

\* loop_->cancel(): addTimer() put sequence 0 into every handle.
Cancel(id) == timers' = IF id = "zero" THEN [timers EXCEPT !["zero"] = 0] ELSE timers

\* Seeded fault: the channel is never reset.
NeverReset == polled' = FALSE /\ answer' = "none" /\ UNCHANGED <<channel, functors>>

RemoveAndResetChannel ==
  /\ polled' = FALSE /\ answer' = "none"
  /\ functors' = Append(functors, <<"resetChannel", "none">>)
  /\ UNCHANGED channel

-----------------------------------------------------------------------------
(* start() and stop() *)

CallStart == /\ Running /\ ~started /\ calls < MaxCalls
             /\ started' = TRUE /\ calls' = calls + 1
             /\ connect' = TRUE

CallStop == /\ Running /\ started /\ calls < MaxCalls
            /\ started' = FALSE /\ calls' = calls + 1
            /\ connect' = FALSE

OwnStart ==
  /\ LoopThreadFree /\ CallStart
  /\ StartInLoop(Found)
  /\ UNCHANGED <<queue, owner>>

ForeignStart ==
  /\ CallStart
  /\ functors' = Append(functors, <<"startInLoop", "none">>)
  /\ settled' = FALSE
  /\ UNCHANGED <<state, socket, retrying, young, open, owner, failed>>

OwnStop ==
  /\ LoopThreadFree /\ CallStop
  /\ Cancel(timerId)
  /\ UNCHANGED <<state, socket, retryDelayMs, timerId, numCreated, queue, open,
                 owner, settled, failed>>

ForeignStop ==
  /\ CallStop
  /\ functors' = Append(functors, <<"cancel", timerId>>)
  /\ UNCHANGED <<state, socket, retrying, young, open, owner, settled, failed>>

-----------------------------------------------------------------------------
(* The loop thread *)

\* The oldest functor is op.
Take(op) == /\ LoopThreadFree /\ functors # << >> /\ Head(functors)[1] = op
            /\ functors' = Tail(functors)
            /\ UNCHANGED <<connect, owner, application>>

CallStartInLoop ==
  /\ Take("startInLoop")
  /\ StartInLoop(Found)
  /\ UNCHANGED young

CallCancel ==
  /\ Take("cancel")
  /\ Cancel(Head(functors)[2])
  /\ UNCHANGED <<state, socket, retryDelayMs, timerId, numCreated, young, open, settled, failed>>

ResetChannel ==
  /\ Take("resetChannel")
  /\ channel' = NoFd /\ young' = "none"
  /\ UNCHANGED <<state, polled, answer, retrying, open, settled, failed>>

\* A retry timer runs startInLoop().  One that a handler set in this round of the
\* loop is at least kInitRetryDelayMs away, after this round's functors.
TimerFires(sequence) ==
  /\ LoopThreadFree /\ timers[sequence] > (IF young = sequence THEN 1 ELSE 0)
  /\ UNCHANGED <<connect, queue, owner, application>>
  /\ StartInLoop([Found EXCEPT !.timers[sequence] = @ - 1])

\* Seeded fault: the socket of an attempt that was stopped is forgotten.
CloseUnlessStopped == open' = IF connect THEN open \ {channel} ELSE open

Close == open' = open \ {channel}

HandlerRetries == /\ RemoveAndResetChannel /\ Close /\ Retry(Found)
                  /\ young' = IF connect THEN timerId' ELSE young

\* The poller reports an error.  The same event is also a write event, but then
\* handleWrite() finds kDisconnected and does nothing.
HandleError ==
  /\ LoopThreadFree /\ answer = "failed"
  /\ UNCHANGED <<connect, owner, application, settled>>
  /\ IF state = "kConnecting"
     THEN HandlerRetries /\ UNCHANGED failed
     ELSE /\ failed' = "handleError"
          /\ UNCHANGED <<state, socket, retrying, queue, open>>

HandOver ==
  /\ connection' = channel
  /\ UNCHANGED <<open, retry, closing, restarting>>

\* The socket is writable: it is connected, to its peer or to itself, or has
\* failed after all.
HandleWrite ==
  /\ LoopThreadFree /\ answer = "connected"
  /\ UNCHANGED <<connect, application, settled>>
  /\ IF state = "kConnecting"
     THEN /\ \/ HandlerRetries /\ UNCHANGED owner
             \/ /\ RemoveAndResetChannel
                /\ Leaves([Found EXCEPT !.state = "kConnected"])
                /\ IF connect THEN HandOver ELSE Close /\ UNCHANGED owner
                /\ UNCHANGED young
          /\ UNCHANGED failed
     ELSE /\ failed' = IF state = "kDisconnected" THEN failed ELSE "handleWrite"
          /\ UNCHANGED <<state, socket, retrying, queue, open, owner>>

-----------------------------------------------------------------------------
(* The owner and the world *)

Queued(op) == \E i \in DOMAIN functors : functors[i][1] = op

\* TcpClient::removeConnection(), up to its test of retry_ && connect_.  It is
\* the connection's own channel that reports the loss, in a later round of the
\* loop than the one that made the connection.
ConnectionLost ==
  /\ LoopThreadFree /\ connection # NoFd /\ ~Queued("resetChannel")
  /\ connection' = NoFd
  /\ closing' = closing \cup {connection}
  /\ restarting' = (retry /\ started)
  /\ settled' = ~restarting'
  /\ UNCHANGED <<connect, state, socket, retrying, queue, open, retry, application,
                 failed>>

Restart ==
  /\ Running /\ restarting
  /\ restarting' = FALSE
  /\ connect' = TRUE
  /\ StartInLoop([Found EXCEPT !.state = "kDisconnected", !.delay = kInitRetryDelayMs])
  /\ UNCHANGED <<queue, retry, connection, closing, application>>

\* The last reference to a former connection goes.
CloseConnection(s) ==
  /\ LoopThreadFree /\ s \in closing
  /\ closing' = closing \ {s}
  /\ open' = open \ {s}
  /\ UNCHANGED <<connect, state, socket, retrying, queue, retry, connection,
                 restarting, application, settled, failed>>

Answer(a) ==
  /\ Running /\ polled /\ answer = "none"
  /\ answer' = a
  /\ UNCHANGED <<connect, state, channel, polled, retrying, queue, open, owner,
                 application, settled, failed>>

LoopStep == CallStartInLoop \/ CallCancel \/ ResetChannel \/ HandleError \/ HandleWrite
              \/ Restart

Next ==
  \/ OwnStart \/ ForeignStart \/ OwnStop \/ ForeignStop
  \/ LoopStep \/ ConnectionLost
  \/ \E s \in TimerSequence : TimerFires(s)
  \/ \E s \in Fds : CloseConnection(s)
  \/ \E a \in {"connected", "failed"} : Answer(a)

Spec == Init /\ [][Next]_vars

(***************************************************************************)
(* The loop thread is scheduled, timers fire, connections that are lost    *)
(* are closed and the kernel answers each connect(2).  The server accepts  *)
(* now and then: an attempt of a timer is answered again and again by      *)
(* "connected", and the handler finds no error.                            *)
(***************************************************************************)
FairSpec ==
  /\ Spec /\ WF_vars(LoopStep)
  /\ \A s \in TimerSequence : WF_vars(TimerFires(s))
  /\ \A s \in Fds : WF_vars(CloseConnection(s))
  /\ \A a \in {"connected", "failed"} : WF_vars(Answer(a))
  /\ SF_vars(\E s \in TimerSequence : TimerFires(s) /\ polled')
  /\ SF_vars(Answer("connected"))
  /\ SF_vars(HandleWrite /\ connection' # NoFd)

-----------------------------------------------------------------------------
(* Properties *)

Delay == {kInitRetryDelayMs * m : m \in {1, 2, 4, 8, 16, 32}} \cup {kMaxRetryDelayMs}

\* Type correctness; the retry delay is one of the doublings up to its maximum.
TypeOK ==
  /\ connect \in BOOLEAN /\ state \in {"kDisconnected", "kConnecting", "kConnected"}
  /\ channel \in Fds \cup {NoFd} /\ polled \in BOOLEAN
  /\ answer \in {"none", "connected", "failed"}
  /\ retryDelayMs \in Delay
  /\ timerId \in TimerSequence \cup {"none"}
  /\ timers \in [TimerSequence -> Nat] /\ numCreated \in TimerSequence
  /\ functors \in Seq({"startInLoop", "resetChannel", "cancel"}
                        \X (TimerSequence \cup {"none"}))
  /\ young \in TimerSequence \cup {"none"}
  /\ open \subseteq Fds /\ retry \in BOOLEAN
  /\ connection \in Fds \cup {NoFd} /\ closing \subseteq Fds
  /\ restarting \in BOOLEAN /\ started \in BOOLEAN /\ calls \in 0..MaxCalls
  /\ settled \in BOOLEAN
  /\ failed \in {"none", "startInLoop", "connecting", "handleError", "handleWrite"}

Polled == IF polled THEN {channel} ELSE {}
Connected == IF connection # NoFd THEN {connection} ELSE {}

\* Every open socket has exactly one owner - the attempt under way, the
\* connection or a former connection - whichever of the ways out an attempt
\* takes: none leaks, none is closed twice or handed over when closed.
SocketsOwned == Running =>
  /\ open = Polled \cup Connected \cup closing
  /\ Polled \cap Connected = {} /\ (Polled \cup Connected) \cap closing = {}

\* Somebody will call startInLoop(), or a handler of the attempt under way.
Underway == \/ polled \/ restarting
            \/ \E s \in TimerSequence : timers[s] > 0
            \/ Queued("startInLoop")

\* As long as a connection is wanted and there is none, an attempt or the next
\* one is on its way: no path through handlers, timers, start() and stop() ends
\* the chain of retries, except an error that connect() gives up on.
KeepsTrying == Running /\ connect /\ ~settled => Underway \/ connection # NoFd

\* No assertion of Connector.cc fails as long as start() has been called once, be
\* it with retries, lost connections, restart() and a stop(); a second start() may
\* find a state that line 41 does not expect.  The assertions of lines 167
\* and 175 never fail: whatever start() and stop() do, a handler is called only
\* for the channel of the attempt under way, and once.
AssertionsHold == /\ calls <= 2 => failed = "none"
                  /\ failed \notin {"handleError", "handleWrite"}

\* A wanted connection is made, if the server accepts now and then.
Connects == (connect /\ ~settled) ~> (connection # NoFd \/ ~connect \/ settled \/ ~Running)
=============================================================================
