------------------------------ MODULE EPoller -------------------------------
(***************************************************************************)
(* reactor/EPoller.{h,cc} and Channel.{h,cc}: the channels of one loop and *)
(* the kernel's interest list, which must say the same.  The kernel keeps  *)
(* raw Channel pointers; channels come and go while poll() has reported    *)
(* some of them and handlers of others are running.                        *)
(*                                                                         *)
(* The channels here are those of sockets, as the library uses them:       *)
(* Connector's, removed by its own handler and deleted by a functor, and   *)
(* TcpConnection's, closed by its own handler and destroyed by a functor.  *)
(* The application sends nothing on a connection it was told is down.      *)
(* channels_ is written and never read, so it is left out.                 *)
(***************************************************************************)
EXTENDS Integers, Sequences, FiniteSets

CONSTANTS Channels,            \* bound: Channel objects at a time
          Fds,                 \* bound: descriptors the process can have open
          kInitEventListSize

NoChannel == "none"
NoFd == "closed"

ASSUME ChannelAssumption == IsFiniteSet(Channels) /\ NoChannel \notin Channels
ASSUME FdAssumption == NoFd \notin Fds
ASSUME SizeAssumption == kInitEventListSize \in Nat \ {0}

Event == {"read", "write"}

VARIABLES
  fd,          \* the channels' fd_, or NoFd: no such object
  role,        \* what the channel is used for, and how far its owner is with it
  events,      \* events_
  index,       \* index_
  interest,    \* kernel: the channel and the events registered for a descriptor
  open,        \* kernel: open descriptors
  ready,       \* kernel: pairs of a descriptor and what could be done with it
  size,        \* events_.size()
  active,      \* activeChannels_ not dispatched yet
  current,     \* the channel whose handler, or whose owner's functor, is running
  phase,       \* the part of loop()
  functors,    \* functors queued for the loop
  left,        \* how many of them belong to this round
  failed       \* epoll_ctl(2) failed where that ends the program

registration == <<index, interest, failed>>
round == <<size, active, phase, left>>
vars == <<fd, role, events, index, interest, open, ready, size, active, current,
          phase, functors, left, failed>>

Nothing == [channel |-> NoChannel, events |-> {}]

Init ==
  /\ fd = [c \in Channels |-> NoFd] /\ role = [c \in Channels |-> "none"]
  /\ events = [c \in Channels |-> {}] /\ index = [c \in Channels |-> "kNew"]
  /\ interest = [f \in Fds |-> Nothing]
  /\ open = {} /\ ready = {}
  /\ size = kInitEventListSize
  /\ active = {} /\ current = NoChannel /\ phase = "functors"
  /\ functors = << >> /\ left = 0
  /\ failed = FALSE

Running == ~failed

-----------------------------------------------------------------------------
(* updateChannel() and removeChannel() *)

\* What the poller and the kernel know; f and ev are the channel's fd and events.
Registered == [index |-> index, interest |-> interest, failed |-> failed]

\* epoll_ctl(): adding what is there and changing what is not there are errors.
Add(p, c, f, ev) ==
  IF p.interest[f] = Nothing
  THEN [p EXCEPT !.interest[f] = [channel |-> c, events |-> ev]]
  ELSE [p EXCEPT !.failed = TRUE]

Mod(p, c, f, ev) ==
  IF p.interest[f] # Nothing
  THEN [p EXCEPT !.interest[f] = [channel |-> c, events |-> ev]]
  ELSE [p EXCEPT !.failed = TRUE]

Del(p, f) == [p EXCEPT !.interest[f] = Nothing]

Updated(p, c, f, ev) ==
  CASE p.index[c] # "kAdded" -> Add([p EXCEPT !.index[c] = "kAdded"], c, f, ev)
    [] p.index[c] = "kAdded" /\ ev = {} -> Del([p EXCEPT !.index[c] = "kDeleted"], f)
    [] OTHER -> Mod(p, c, f, ev)

\* Seeded fault: the kernel is not told.
RemovedQuietly(p, c, f) == [p EXCEPT !.index[c] = "kNew"]

Removed(p, c, f) ==
  LET q == [p EXCEPT !.index[c] = "kNew"]
  IN  IF p.index[c] = "kAdded" THEN Del(q, f) ELSE q

\* Closing a descriptor takes it off the interest list.
Closed(p, f) == Del(p, f)

Registers(p) == index' = p.index /\ interest' = p.interest /\ failed' = p.failed

\* Channel::update() after events_ became ev.
Update(c, ev) == /\ events' = [events EXCEPT ![c] = ev]
                 /\ Registers(Updated(Registered, c, fd[c], ev))

-----------------------------------------------------------------------------
(* Code of the loop thread: a handler, or a functor of another owner *)

LoopThread == Running /\ (current # NoChannel \/ phase = "functors")

\* Connector::connecting(), and TcpConnection::connectEstablished() for a socket
\* that was accepted.
Opens(c, f, use, ev) ==
  /\ LoopThread /\ role[c] = "none" /\ f \in Fds \ open
  /\ open' = open \cup {f}
  /\ fd' = [fd EXCEPT ![c] = f]
  /\ role' = [role EXCEPT ![c] = use]
  /\ events' = [events EXCEPT ![c] = ev]
  /\ Registers(Updated(Registered, c, f, ev))
  /\ UNCHANGED <<ready, round, current, functors>>

Connecting(c, f) == Opens(c, f, "connecting", {"write"})
ConnectEstablished(c, f) == Opens(c, f, "connected", {"read"})

\* Connector::removeAndResetChannel(): what the poller knows afterwards.
RemovedAndReset(c) == Removed(Updated(Registered, c, fd[c], {}), c, fd[c])

\* Seeded fault: channel_ is reset there and then, inside Channel::handleEvent().
RetryResetting(c) ==
  /\ Running /\ current = c /\ role[c] = "connecting"
  /\ Registers(Closed(RemovedAndReset(c), fd[c]))
  /\ events' = [events EXCEPT ![c] = {}]
  /\ fd' = [fd EXCEPT ![c] = NoFd] /\ role' = [role EXCEPT ![c] = "none"]
  /\ open' = open \ {fd[c]} /\ ready' = {r \in ready : r[1] # fd[c]}
  /\ UNCHANGED <<round, current, functors>>

\* ... followed by retry(), which closes the socket, as handleWrite() does when
\* no connection is wanted any more.
Retry(c) ==
  /\ Running /\ current = c /\ role[c] = "connecting"
  /\ Registers(Closed(RemovedAndReset(c), fd[c]))
  /\ events' = [events EXCEPT ![c] = {}]
  /\ role' = [role EXCEPT ![c] = "removed"]
  /\ open' = open \ {fd[c]} /\ ready' = {r \in ready : r[1] # fd[c]}
  /\ functors' = Append(functors, <<"resetChannel", c>>)
  /\ UNCHANGED <<fd, round, current>>

\* ... or by the owner's new connection, with another channel for the same socket.
HandOver(c, d) ==
  /\ Running /\ current = c /\ role[c] = "connecting" /\ role[d] = "none"
  /\ fd' = [fd EXCEPT ![d] = fd[c]]
  /\ Registers(Updated(RemovedAndReset(c), d, fd[c], {"read"}))
  /\ events' = [events EXCEPT ![c] = {}, ![d] = {"read"}]
  /\ role' = [role EXCEPT ![c] = "removed", ![d] = "connected"]
  /\ functors' = Append(functors, <<"resetChannel", c>>)
  /\ UNCHANGED <<open, ready, round, current>>

\* sendInLoop() could not write everything, from whatever handler or functor.
EnableWriting(c) ==
  /\ LoopThread /\ role[c] \in {"connected", "closed", "leaving"} /\ "write" \notin events[c]
  /\ Update(c, events[c] \cup {"write"})
  /\ UNCHANGED <<fd, role, open, ready, round, current, functors>>

\* handleWrite() has written everything.
DisableWriting(c) ==
  /\ Running /\ current = c /\ phase = "dispatch" /\ "write" \in events[c]
  /\ role[c] \in {"connected", "closed", "leaving"}
  /\ Update(c, events[c] \ {"write"})
  /\ UNCHANGED <<fd, role, open, ready, round, current, functors>>

\* TcpConnection::handleClose().
HandleClose(c) ==
  /\ Running /\ current = c /\ role[c] = "connected"
  /\ Update(c, {})
  /\ role' = [role EXCEPT ![c] = "closed"]
  /\ UNCHANGED <<fd, open, ready, round, current, functors>>

\* removeConnection(), in whichever threads it takes.
OwnerRemoves(c) ==
  /\ Running /\ role[c] = "closed"
  /\ role' = [role EXCEPT ![c] = "leaving"]
  /\ functors' = Append(functors, <<"connectDestroyed", c>>)
  /\ UNCHANGED <<fd, events, registration, open, ready, round, current>>

-----------------------------------------------------------------------------
(* loop() *)

\* The kernel reports what is registered and possible.
Reported == {c \in Channels : \E f \in Fds :
               /\ interest[f].channel = c
               /\ \E e \in interest[f].events : <<f, e>> \in ready}

\* Seeded faults: the array never grows; it is cut to what was reported.
StaysAsItIs(n) == size
CutTo(n) == n

Grown(n) == IF n = size THEN 2 * n ELSE size

\* poll(): the array takes some of the events, or all; without any it returns for
\* the eventfd's sake or the timerfd's.
Poll ==
  /\ Running /\ phase = "poll"
  /\ \E s \in SUBSET Reported :
       /\ \/ s = Reported /\ Cardinality(s) <= size
          \/ Cardinality(s) = size
       /\ active' = s
       /\ size' = Grown(Cardinality(s))
  /\ phase' = "dispatch"
  /\ UNCHANGED <<fd, role, events, registration, open, ready, current, functors, left>>

HandleEvent(c) ==
  /\ Running /\ phase = "dispatch" /\ current = NoChannel /\ c \in active
  /\ active' = active \ {c}
  /\ current' = c
  /\ UNCHANGED <<fd, role, events, registration, open, ready, size, phase, functors, left>>

\* The handler has taken what it could.
HandlerReturns ==
  /\ Running /\ phase = "dispatch" /\ current # NoChannel
  /\ current' = NoChannel
  /\ ready' \in {ready, {r \in ready : r[1] # fd[current]}}
  /\ UNCHANGED <<fd, role, events, registration, open, round, functors>>

DoPendingFunctors ==
  /\ Running /\ phase = "dispatch" /\ current = NoChannel /\ active = {}
  /\ phase' = "functors" /\ left' = Len(functors)
  /\ UNCHANGED <<fd, role, events, registration, open, ready, size, active, current, functors>>

\* The round's next functor is op.
Take(op, c) == /\ Running /\ phase = "functors" /\ current = NoChannel /\ left > 0
               /\ Head(functors) = <<op, c>>
               /\ functors' = Tail(functors) /\ left' = left - 1
               /\ UNCHANGED <<open, ready, size, active, phase>>

\* Connector::resetChannel(): the object is deleted.
ResetChannel(c) ==
  /\ Take("resetChannel", c)
  /\ fd' = [fd EXCEPT ![c] = NoFd] /\ role' = [role EXCEPT ![c] = "none"]
  /\ UNCHANGED <<events, registration, current>>

\* connectDestroyed() up to the callback ...
ConnectDestroyed(c) ==
  /\ Take("connectDestroyed", c)
  /\ Update(c, {})
  /\ role' = [role EXCEPT ![c] = "down"]
  /\ current' = c
  /\ UNCHANGED fd

\* ... and the rest.
RemoveChannel(c) ==
  /\ Running /\ phase = "functors" /\ current = c
  /\ Registers(Removed(Registered, c, fd[c]))
  /\ role' = [role EXCEPT ![c] = "gone"]
  /\ current' = NoChannel
  /\ UNCHANGED <<fd, events, open, ready, round, functors>>

\* The last reference to the connection goes, with the socket and the channel.
Destroy(c) ==
  /\ Running /\ role[c] = "gone"
  /\ fd' = [fd EXCEPT ![c] = NoFd] /\ role' = [role EXCEPT ![c] = "none"]
  /\ open' = open \ {fd[c]} /\ ready' = {r \in ready : r[1] # fd[c]}
  /\ Registers(Closed(Registered, fd[c]))
  /\ UNCHANGED <<events, round, current, functors>>

EndFunctors ==
  /\ Running /\ phase = "functors" /\ current = NoChannel /\ left = 0
  /\ phase' = "poll"
  /\ UNCHANGED <<fd, role, events, registration, open, ready, size, active, current,
                 functors, left>>

BecomeReady(f, e) ==
  /\ Running /\ f \in open /\ <<f, e>> \notin ready
  /\ ready' = ready \cup {<<f, e>>}
  /\ UNCHANGED <<fd, role, events, registration, open, round, current, functors>>

LoopStep ==
  \/ Poll \/ HandlerReturns \/ DoPendingFunctors \/ EndFunctors
  \/ \E c \in Channels : \/ HandleEvent(c) \/ ResetChannel(c)
                         \/ ConnectDestroyed(c) \/ RemoveChannel(c)

ApplicationStep ==
  \E c \in Channels :
    \/ \E f \in Fds : Connecting(c, f) \/ ConnectEstablished(c, f)
    \/ Retry(c) \/ \E d \in Channels : HandOver(c, d)
    \/ EnableWriting(c) \/ DisableWriting(c) \/ HandleClose(c)
    \/ OwnerRemoves(c) \/ Destroy(c)

Next == \/ LoopStep \/ ApplicationStep
        \/ \E f \in Fds, e \in Event : BecomeReady(f, e)

Spec == Init /\ [][Next]_vars

\* The loop thread is scheduled and handlers and functors return.
FairSpec == Spec /\ WF_vars(LoopStep)

-----------------------------------------------------------------------------
(* Properties *)

\* Type correctness; epoll_wait() refuses an empty array.
TypeOK ==
  /\ fd \in [Channels -> Fds \cup {NoFd}]
  /\ role \in [Channels -> {"none", "connecting", "removed", "connected", "closed",
                            "leaving", "down", "gone"}]
  /\ events \in [Channels -> SUBSET Event]
  /\ index \in [Channels -> {"kNew", "kAdded", "kDeleted"}]
  /\ interest \in [Fds -> [channel : Channels \cup {NoChannel}, events : SUBSET Event]]
  /\ open \subseteq Fds /\ ready \subseteq Fds \X Event
  /\ size \in Nat \ {0}
  /\ active \subseteq Channels /\ current \in Channels \cup {NoChannel}
  /\ phase \in {"poll", "dispatch", "functors"}
  /\ functors \in Seq({"resetChannel", "connectDestroyed"} \X Channels) /\ left \in Nat
  /\ failed \in BOOLEAN

\* The interest list says exactly what the channels say of themselves: an fd that
\* passes from a Connector's channel to a connection's, or is closed and opened
\* again, always stands for the channel that is in charge of it; no ADD finds its
\* descriptor registered and no MOD misses it, which LOG_SYSFATAL would end the
\* program for.  disableAllEvents() of a channel that has no events registers it
\* once more; by the time the loop polls, that is undone.
InterestAgrees ==
  /\ \A c \in Channels : \A f \in Fds :
       interest[f].channel = c <=> fd[c] = f /\ index[c] = "kAdded"
  /\ \A f \in Fds :
       interest[f].channel # NoChannel => interest[f].events = events[interest[f].channel]
  /\ ~failed
  /\ phase = "poll" => \A c \in Channels : index[c] = "kAdded" => events[c] # {}

\* The kernel, activeChannels_ and the functors point to Channel objects that exist.
NoDanglingPointer ==
  /\ \A f \in Fds : interest[f].channel # NoChannel => fd[interest[f].channel] # NoFd
  /\ \A c \in active \cup ({current} \ {NoChannel}) : fd[c] # NoFd
  /\ \A i \in DOMAIN functors : fd[functors[i][2]] # NoFd

\* However many descriptors are ready and whichever of them the kernel prefers, a
\* channel's handler is called in the end: the array grows.
Served == \A c \in Channels : (c \in Reported) ~> (current = c \/ c \notin Reported \/ failed)
=============================================================================
