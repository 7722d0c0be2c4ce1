----------------------------- MODULE TcpServer ------------------------------
(***************************************************************************)
(* net/TcpServer.{h,cc}, net/Acceptor.{h,cc}, reactor/EventLoopGroup.{h,cc}*)
(* The base loop accepts connections and hands each to the next io loop;   *)
(* an io loop sends a closed one back to the base loop, which forgets it   *)
(* and has the io loop take it down.                                       *)
(*                                                                         *)
(* Loop 0 is the base loop, loop i the i-th of loops_.  Each loop is a     *)
(* thread that calls handlers of channels and rounds of functors; functors *)
(* are called in order, once (module Executor), and each holds a reference *)
(* to its connection until the vector of its round is destroyed.  What a   *)
(* connection does between connectEstablished() and handleClose() is the   *)
(* subject of module TcpConnection; kConnected stands for kDisconnecting,  *)
(* too.  The application keeps no reference to a connection beyond its     *)
(* callbacks, and the server is not destroyed.                             *)
(***************************************************************************)
EXTENDS Integers, Sequences, FiniteSets, Functions

CONSTANTS MaxThreads,   \* bound: io threads
          Fds,          \* bound: descriptors the process can have open
          MaxConns      \* bound: clients that connect

ASSUME BoundAssumption == MaxThreads \in Nat /\ MaxConns \in Nat
ASSUME FdAssumption == IsFiniteSet(Fds)

Base == 0
Loops == 0..MaxThreads
IoLoops == 1..MaxThreads

\* A connection is named by nextConnId_, from 1.
Conns == 1..MaxConns
NoFd == "none"

VARIABLES
  numThreads,   \* numThreads_
  thread,       \* the io threads, from their creation to their loop()
  loops,        \* loops_.size()
  listening,    \* listening_
  clients,      \* clients that have connected, accepted or not
  next,         \* next_
  nextConnId,   \* nextConnId_
  connections,  \* connections_
  fd, home,     \* the socket and the loop each connection was made for
  state,        \* state_ of each connection
  watched,      \* the connections whose channels have events
  eof,          \* the connections whose peers have closed
  functors,     \* functors queued for each loop
  held,         \* the connections that functors called in this round refer to
  failed        \* the assertion that failed

group == <<numThreads, thread, loops, listening>>
made == <<next, nextConnId, fd, home>>
rest == <<clients, made, connections, state, watched, eof, functors, held, failed>>
vars == <<group, rest>>

Init ==
  /\ numThreads \in 0..MaxThreads
  /\ thread = [i \in IoLoops |-> "none"] /\ loops = 0 /\ listening = FALSE
  /\ clients = 0
  /\ next = 0 /\ nextConnId = 1 /\ connections = {}
  /\ fd = [c \in Conns |-> NoFd] /\ home = [c \in Conns |-> Base]
  /\ state = [c \in Conns |-> "kConnecting"]
  /\ watched = {} /\ eof = {}
  /\ functors = [l \in Loops |-> << >>] /\ held = [l \in Loops |-> {}]
  /\ failed = "none"

Running == failed = "none"
Fail(where) == failed' = where

Accepted == 1..(nextConnId - 1)

\* Some shared_ptr to the connection exists; when the last one goes, so do the
\* channel and the socket.
Alive(c) == \/ c \in connections
            \/ \E l \in Loops : c \in held[l] \/ c \in {f[2] : f \in Range(functors[l])}

OpenFds == {fd[c] : c \in {d \in Accepted : Alive(d)}}

-----------------------------------------------------------------------------
(* start() *)

\* EventLoopGroup::start() makes one thread after the other and waits for the
\* pointer to each one's loop ...
MakeThread(i) ==
  /\ i <= numThreads /\ loops = i - 1 /\ thread[i] = "none"
  /\ thread' = [thread EXCEPT ![i] = "made"]
  /\ UNCHANGED <<numThreads, loops, listening, rest>>

SetPromise(i) ==
  /\ thread[i] = "made"
  /\ thread' = [thread EXCEPT ![i] = "promised"]
  /\ UNCHANGED <<numThreads, loops, listening, rest>>

GetLoop ==
  /\ loops < numThreads /\ thread[loops + 1] \in {"promised", "looping"}
  /\ loops' = loops + 1
  /\ UNCHANGED <<numThreads, thread, listening, rest>>

\* ... which enters loop() when it likes.
EnterLoop(i) ==
  /\ Running /\ thread[i] = "promised"
  /\ thread' = [thread EXCEPT ![i] = "looping"]
  /\ UNCHANGED <<numThreads, loops, listening, rest>>

Listen ==
  /\ loops = numThreads /\ ~listening
  /\ listening' = TRUE
  /\ UNCHANGED <<numThreads, thread, loops, rest>>

Looping(l) == Running /\ IF l = Base THEN listening ELSE thread[l] = "looping"

\* The thread polls: the vector of the last round is gone.
Polling(l) == Looping(l) /\ held[l] = {}

-----------------------------------------------------------------------------
(* New connections *)

\* Seeded fault: the index is compared before it is incremented.
AdvancedLate(n) == IF n >= loops THEN 0 ELSE n + 1

Advanced(n) == IF n + 1 >= loops THEN 0 ELSE n + 1

\* getNextLoop()
NextLoop == IF loops = 0 THEN Base ELSE next + 1

\* Seeded fault: the events stay.
LeaveEvents(c) == UNCHANGED watched

DisableAllEvents(c) == watched' = watched \ {c}

\* connectEstablished()
Establish(c) ==
  /\ IF state[c] = "kConnecting" THEN UNCHANGED failed ELSE Fail("connectEstablished")
  /\ state' = [state EXCEPT ![c] = "kConnected"]
  /\ watched' = watched \cup {c}

\* Seeded fault: connections_ is not told.
Forget(c) == UNCHANGED connections

Remember(c) == connections' = connections \cup {c}

\* Acceptor::handleRead() and newConnection().  Without a descriptor accept()
\* fails, the client stays where it is and the channel readable.
NewConnection(f) ==
  LET c == nextConnId
      l == NextLoop
  IN
  /\ Polling(Base) /\ c <= clients /\ f \in Fds \ OpenFds
  /\ nextConnId' = c + 1
  /\ next' = IF loops = 0 THEN next ELSE Advanced(next)
  /\ fd' = [fd EXCEPT ![c] = f] /\ home' = [home EXCEPT ![c] = l]
  /\ Remember(c)
  /\ IF l = Base
     THEN Establish(c) /\ UNCHANGED functors
     ELSE /\ functors' = [functors EXCEPT ![l] = Append(@, <<"connectEstablished", c>>)]
          /\ UNCHANGED <<state, watched, failed>>
  /\ UNCHANGED <<group, clients, eof, held>>

-----------------------------------------------------------------------------
(* Functors and closes *)

\* Loop l calls its next functor, op for c.
Take(l, op, c) ==
  /\ Looping(l) /\ functors[l] # << >> /\ Head(functors[l]) = <<op, c>>
  /\ held' = [held EXCEPT ![l] = @ \cup {c}]
  /\ UNCHANGED <<group, clients, made, eof>>

Rest(l) == [functors EXCEPT ![l] = Tail(@)]

ConnectEstablished(l, c) ==
  /\ Take(l, "connectEstablished", c)
  /\ functors' = Rest(l)
  /\ Establish(c)
  /\ UNCHANGED connections

\* Seeded fault: the entry stays in connections_.
RemoveOnlyFromLoop(c, q) ==
  /\ UNCHANGED <<connections, failed>>
  /\ functors' = [q EXCEPT ![home[c]] = Append(@, <<"connectDestroyed", c>>)]

\* removeConnectionInLoop(), with q the functors queued.
Remove(c, q) ==
  /\ IF c \in connections THEN UNCHANGED failed ELSE Fail("removeConnectionInLoop")
  /\ connections' = connections \ {c}
  /\ functors' = [q EXCEPT ![home[c]] = Append(@, <<"connectDestroyed", c>>)]

\* handleRead() finds the end of the stream: handleClose() and removeConnection().
HandleClose(l, c) ==
  /\ Polling(l) /\ c \in watched \cap eof /\ home[c] = l
  /\ DisableAllEvents(c)
  /\ IF l = Base
     THEN Remove(c, functors)
     ELSE /\ functors' = [functors EXCEPT ![Base] = Append(@, <<"removeConnection", c>>)]
          /\ UNCHANGED <<connections, failed>>
  /\ UNCHANGED <<group, clients, made, state, eof, held>>

RemoveConnectionInLoop(c) ==
  /\ Take(Base, "removeConnection", c)
  /\ Remove(c, Rest(Base))
  /\ UNCHANGED <<state, watched>>

ConnectDestroyed(l, c) ==
  /\ Take(l, "connectDestroyed", c)
  /\ functors' = Rest(l)
  /\ IF state[c] = "kConnected" THEN UNCHANGED failed ELSE Fail("connectDestroyed")
  /\ state' = [state EXCEPT ![c] = "kDisconnected"]
  /\ DisableAllEvents(c)
  /\ UNCHANGED connections

\* The round's vector of functors is destroyed.
EndFunctors(l) ==
  /\ Looping(l) /\ held[l] # {}
  /\ held' = [held EXCEPT ![l] = {}]
  /\ UNCHANGED <<group, clients, made, connections, state, watched, eof, functors, failed>>

-----------------------------------------------------------------------------
(* Clients *)

ClientConnects ==
  /\ listening /\ clients < MaxConns
  /\ clients' = clients + 1
  /\ UNCHANGED <<group, made, connections, state, watched, eof, functors, held, failed>>

PeerCloses(c) ==
  /\ c <= clients /\ c \notin eof
  /\ eof' = eof \cup {c}
  /\ UNCHANGED <<group, clients, made, connections, state, watched, functors, held, failed>>

Start == \/ GetLoop \/ Listen
         \/ \E i \in IoLoops : MakeThread(i) \/ SetPromise(i) \/ EnterLoop(i)

Accept == \E f \in Fds : NewConnection(f)

\* What the thread of loop l does, but for accepting.
LoopStep(l) ==
  \/ EndFunctors(l)
  \/ \E c \in Conns : \/ ConnectEstablished(l, c) \/ ConnectDestroyed(l, c)
                      \/ HandleClose(l, c)
                      \/ l = Base /\ RemoveConnectionInLoop(c)

Next == \/ Start \/ Accept \/ ClientConnects
        \/ \E l \in Loops : LoopStep(l)
        \/ \E c \in Conns : PeerCloses(c)

Spec == Init /\ [][Next]_vars

(***************************************************************************)
(* start() is called, the threads are scheduled, a round of functors ends, *)
(* and the poller does not pass over the acceptor for ever (module         *)
(* EPoller).  No client has to connect, or to close.                       *)
(***************************************************************************)
FairSpec ==
  /\ Spec /\ WF_vars(Start) /\ SF_vars(Accept)
  /\ \A l \in Loops : WF_vars(LoopStep(l))

-----------------------------------------------------------------------------
(* Properties *)

\* Type correctness; next_ is an index of loops_ whenever getNextLoop() uses it.
TypeOK ==
  /\ numThreads \in 0..MaxThreads /\ loops \in 0..numThreads /\ listening \in BOOLEAN
  /\ thread \in [IoLoops -> {"none", "made", "promised", "looping"}]
  /\ clients \in 0..MaxConns /\ nextConnId \in 1..(clients + 1)
  /\ next \in Nat /\ (loops > 0 => next < loops)
  /\ connections \subseteq Accepted /\ watched \subseteq Accepted /\ eof \subseteq Conns
  /\ fd \in [Conns -> Fds \cup {NoFd}] /\ home \in [Conns -> Loops]
  /\ state \in [Conns -> {"kConnecting", "kConnected", "kDisconnected"}]
  /\ functors \in [Loops -> Seq({"connectEstablished", "removeConnection",
                                 "connectDestroyed"} \X Conns)]
  /\ held \in [Loops -> SUBSET Conns]
  /\ failed \in {"none", "connectEstablished", "removeConnectionInLoop",
                 "connectDestroyed"}

\* The assertions of connectEstablished(), removeConnectionInLoop() and
\* connectDestroyed(): over the functors of two loops every connection is
\* established, forgotten and taken down in this order, once.
AssertionsHold == failed = "none"

\* A connection's last reference goes after it was taken down: the poller of its
\* loop never has a channel that is destroyed, and the application is told of the
\* end of every connection.
TakenDownFirst == \A c \in Accepted :
  Alive(c) \/ (state[c] = "kDisconnected" /\ c \notin watched)

FdsInUse == {fd[c] : c \in Accepted \ eof}

\* A client that waits is served unless those that stay keep all the descriptors:
\* none is lost between a client that left and the next one, and an io loop that
\* had connections before it entered loop() takes them up.
ClientsServed == \A c \in Conns :
  []<>(c <= clients => state[c] # "kConnecting" \/ FdsInUse = Fds \/ ~Running)
=============================================================================
