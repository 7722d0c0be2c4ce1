--------------------------- MODULE ConnectorProofs ---------------------------
(***************************************************************************)
(* Proofs about Connector: sockets have one owner, the chain of retries    *)
(* goes on and no assertion fails, for any number of descriptors and calls.*)
(***************************************************************************)
EXTENDS Connector, SequenceTheorems, TLAPS

-----------------------------------------------------------------------------
(* Queues of functors *)

\* op is among the queued functors q; it is there at most once.
In(q, op) == \E i \in DOMAIN q : q[i] = op
Once(q, op) == \A i, j \in DOMAIN q : q[i] = op /\ q[j] = op => i = j

\* queueInLoop(): the functor is in the queue, and the others as they were.
LEMMA QueuedLast ==
  ASSUME NEW T, NEW q \in Seq(T), NEW e \in T, NEW op
  PROVE  /\ Append(q, e) \in Seq(T)
         /\ In(Append(q, e), op) <=> In(q, op) \/ e = op
         /\ Once(q, op) /\ (e # op \/ ~In(q, op)) => Once(Append(q, e), op)
<1> DEFINE r == Append(q, e)
<1>1. /\ r \in Seq(T) /\ Len(q) \in Nat /\ DOMAIN q = 1..Len(q)
      /\ DOMAIN r = 1..(Len(q) + 1)
      /\ \A i \in 1..Len(q) : r[i] = q[i]
      /\ r[Len(q) + 1] = e
  BY AppendProperties, LenProperties
<1> HIDE DEF r
<1>2. In(r, op) <=> In(q, op) \/ e = op
  <2>1. ASSUME In(r, op) PROVE In(q, op) \/ e = op
    BY <1>1, <2>1 DEF In
  <2>2. ASSUME In(q, op) PROVE In(r, op)
    BY <1>1, <2>2 DEF In
  <2>3. ASSUME e = op PROVE In(r, op)
    <3>1. Len(q) + 1 \in DOMAIN r
      BY <1>1
    <3> QED
      BY <1>1, <2>3, <3>1 DEF In
  <2> QED
    BY <2>1, <2>2, <2>3
<1>3. ASSUME Once(q, op), e # op \/ ~In(q, op) PROVE Once(r, op)
  <2> SUFFICES ASSUME NEW i \in DOMAIN r, NEW j \in DOMAIN r, r[i] = op, r[j] = op
               PROVE  i = j
    BY DEF Once
  <2>1. CASE e # op
    BY <1>1, <1>3, <2>1 DEF Once
  <2>2. CASE ~In(q, op)
    BY <1>1, <2>2 DEF In
  <2> QED
    BY <1>3, <2>1, <2>2
<1> QED
  BY <1>1, <1>2, <1>3 DEF r

\* doPendingFunctors(): the first functor is taken, and the others as they were.
LEMMA TakenFirst ==
  ASSUME NEW T, NEW q \in Seq(T), q # << >>, NEW op
  PROVE  /\ Tail(q) \in Seq(T) /\ Head(q) \in T /\ In(q, Head(q))
         /\ In(Tail(q), op) => In(q, op)
         /\ In(q, op) => In(Tail(q), op) \/ Head(q) = op
         /\ Once(q, op) => Once(Tail(q), op)
         /\ Once(q, op) /\ Head(q) = op => ~In(Tail(q), op)
<1> DEFINE r == Tail(q)
<1>1. /\ r \in Seq(T) /\ Len(q) \in Nat \ {0} /\ DOMAIN q = 1..Len(q)
      /\ DOMAIN r = 1..(Len(q) - 1)
      /\ \A i \in 1..(Len(q) - 1) : r[i] = q[i + 1]
      /\ Head(q) = q[1] /\ Head(q) \in T
  BY HeadTailProperties, LenProperties, EmptySeq
<1> HIDE DEF r
<1>2. \A i \in DOMAIN r : i + 1 \in DOMAIN q /\ i + 1 # 1 /\ r[i] = q[i + 1]
  BY <1>1
<1>3. 1 \in DOMAIN q /\ In(q, Head(q))
  BY <1>1 DEF In
<1>4. In(r, op) => In(q, op)
  BY <1>2 DEF In
<1>5. ASSUME In(q, op) PROVE In(r, op) \/ Head(q) = op
  <2>1. PICK i \in DOMAIN q : q[i] = op
    BY <1>5 DEF In
  <2>2. CASE i = 1
    BY <1>1, <2>1, <2>2
  <2>3. CASE i # 1
    <3>1. i - 1 \in DOMAIN r /\ (i - 1) + 1 = i
      BY <1>1, <2>3
    <3> QED
      BY <1>2, <2>1, <3>1 DEF In
  <2> QED
    BY <2>2, <2>3
<1>6. ASSUME Once(q, op) PROVE Once(r, op)
  <2> SUFFICES ASSUME NEW i \in DOMAIN r, NEW j \in DOMAIN r, r[i] = op, r[j] = op
               PROVE  i = j
    BY DEF Once
  <2>1. i + 1 = j + 1
    BY <1>2, <1>6 DEF Once
  <2>2. i \in Int /\ j \in Int
    BY <1>1
  <2> QED
    BY <2>1, <2>2
<1>7. ASSUME Once(q, op), Head(q) = op PROVE ~In(r, op)
  BY <1>1, <1>2, <1>3, <1>7 DEF Once, In
<1> QED
  BY <1>1, <1>3, <1>4, <1>5, <1>6, <1>7 DEF r
-----------------------------------------------------------------------------
(* The inductive invariant *)

Starts == <<"startInLoop", "none">>
Resets == <<"resetChannel", "none">>
Cancels(id) == <<"cancel", id>>

\* What start(), stop() and removeAndResetChannel() queue.
Functor == {Starts, Resets} \cup {Cancels(id) : id \in TimerSequence \cup {"none"}}

\* The handlers are called for the channel of the attempt under way; once the
\* attempt is over, resetChannel() is queued, once, until the channel is gone.
Attempt ==
  /\ answer # "none" => polled
  /\ polled => channel # NoFd /\ state = "kConnecting"
  /\ In(functors, Resets) <=> channel # NoFd /\ ~polled
  /\ Once(functors, Resets)
  /\ failed \notin {"handleError", "handleWrite"}

\* A socket has one owner.  That of a connection stays kConnected until the owner
\* restarts.
Owned ==
  /\ connection # NoFd => state = "kConnected" /\ ~restarting
  /\ restarting => state = "kConnected" /\ channel = NoFd
  /\ SocketsOwned

\* Whoever goes on with the chain of retries does so after the functors that are
\* queued: a cancel() of the timer with sequence 0 may still be one of them.
Chain ==
  /\ \/ timerId = "zero" \/ timers["zero"] > 0 \/ In(functors, Cancels("zero"))
     => numCreated = "positive"
  /\ Running /\ connect /\ ~settled =>
       \/ polled \/ restarting \/ connection # NoFd \/ In(functors, Starts)
       \/ timers["positive"] > 0
       \/ timers["zero"] > 0 /\ ~In(functors, Cancels("zero"))

NoTimer == timers["zero"] = 0 /\ timers["positive"] = 0

\* Up to the second start() there is one chain: what calls startInLoop() next, if
\* anything does, comes when nothing is connected and the channel is gone.
OneChain ==
  calls <= 2 =>
    /\ failed = "none"
    /\ started <=> calls = 1
    /\ calls = 0 => functors = << >> /\ channel = NoFd /\ state = "kDisconnected" /\ NoTimer
    /\ In(functors, Starts) => state = "kDisconnected" /\ channel = NoFd /\ NoTimer
    /\ Once(functors, Starts)
    /\ ~NoTimer => state = "kDisconnected"
    /\ timers["zero"] + timers["positive"] <= 1
    /\ channel # NoFd => \A s \in TimerSequence : timers[s] > 0 => young = s

Typed == TypeOK /\ functors \in Seq(Functor)

IInv == Typed /\ Attempt /\ Owned /\ Chain /\ OneChain

-----------------------------------------------------------------------------
(* The parts of an attempt *)

\* The doublings end at the maximum.
LEMMA NextDelayIsDelay ==
  ASSUME NEW d \in Delay
  PROVE  NextDelay(d) \in Delay
<1>1. Delay = {500, 1000, 2000, 4000, 8000, 16000, 30000}
  BY DEF Delay, kInitRetryDelayMs, kMaxRetryDelayMs
<1> QED
  BY <1>1 DEF NextDelay, kMaxRetryDelayMs

\* Sockets and the marker for none of them.
LEMMA NoSocket ==
  /\ NoFd \notin Fds
  /\ "zero" \in TimerSequence /\ "positive" \in TimerSequence /\ "zero" # "positive"
  /\ \A s \in TimerSequence : s = "zero" \/ s = "positive"
BY FdAssumption DEF FdAssumption, TimerSequence

\* The functors are told apart by what they call.
LEMMA FunctorsDiffer ==
  /\ Starts \in Functor /\ Resets \in Functor /\ Starts # Resets
  /\ \A id \in TimerSequence \cup {"none"} :
       Cancels(id) \in Functor /\ Cancels(id) # Starts /\ Cancels(id) # Resets
  /\ \A e \in Functor : e[1] = "startInLoop" <=> e = Starts
  /\ \A e \in Functor : e[1] = "resetChannel" <=> e = Resets
  /\ \A e \in Functor : e[1] = "cancel" =>
       e = Cancels(e[2]) /\ e[2] \in TimerSequence \cup {"none"}
BY DEF Starts, Resets, Cancels, Functor

\* TypeOK knows the functors by their parts.
LEMMA FunctorsTyped ==
  ASSUME NEW q \in Seq(Functor)
  PROVE  q \in Seq({"startInLoop", "resetChannel", "cancel"} \X (TimerSequence \cup {"none"}))
<1> DEFINE T == {"startInLoop", "resetChannel", "cancel"} \X (TimerSequence \cup {"none"})
<1>1. Functor \subseteq T
  BY DEF Functor, Starts, Resets, Cancels
<1> HIDE DEF T
<1>2. Len(q) \in Nat /\ DOMAIN q = 1..Len(q) /\ \A i \in 1..Len(q) : q[i] \in T
  BY <1>1, LenProperties
<1>3. q = [i \in 1..Len(q) |-> q[i]]
  BY <1>2
<1>4. q \in [1..Len(q) -> T]
  BY <1>2, <1>3
<1>5. q \in Seq(T)
  BY <1>2, <1>4, SeqDef
<1> QED
  BY <1>5 DEF T

\* What every call of startInLoop() finds: its caller's own changes are in found and
\* in the primed variables the call leaves alone.
Caller(found) ==
  /\ found \in [state : {"kDisconnected", "kConnecting", "kConnected"},
                delay : Delay, timers : [TimerSequence -> Nat]]
  /\ found.state = state \/ restarting
  /\ \A s \in TimerSequence : found.timers[s] <= timers[s]
  /\ connect' \in BOOLEAN /\ started' \in BOOLEAN
  /\ calls' \in 0..MaxCalls /\ calls <= calls'
  /\ functors' \in Seq(Functor)
  /\ \A op \in Functor : /\ In(functors', op) => In(functors, op)
                         /\ Once(functors, op) => Once(functors', op)
  /\ In(functors, Resets) => In(functors', Resets)
  /\ restarting' = FALSE /\ UNCHANGED <<young, retry, connection, closing>>
  /\ calls' <= 2 => /\ started' <=> calls' = 1
                    /\ calls' # 0 /\ found.state = "kDisconnected" /\ channel = NoFd
                    /\ found.timers["zero"] = 0 /\ found.timers["positive"] = 0
                    /\ ~In(functors', Starts)

\* startInLoop() has four ends.
LEMMA StartEnds ==
  ASSUME NEW found, StartInLoop(found)
  PROVE  \/ /\ found.state = "kDisconnected" /\ connect'
            /\ \E s \in Fds \ open : Connecting(s, found)
         \/ found.state = "kDisconnected" /\ connect' /\ ConnectRetries(found)
         \/ found.state = "kDisconnected" /\ connect' /\ ConnectGivesUp(found)
         \/ /\ found.state # "kDisconnected" \/ ~connect'
            /\ Leaves(found)
            /\ failed' = IF found.state = "kDisconnected" THEN failed ELSE "startInLoop"
            /\ UNCHANGED <<socket, open, settled>>
BY DEF StartInLoop

\* connecting() keeps the invariant.
LEMMA ConnectingStep ==
  ASSUME IInv, Running, NEW found, Caller(found), found.state = "kDisconnected",
         NEW s \in Fds \ open, Connecting(s, found)
  PROVE  IInv'
<1>1. /\ state' = "kConnecting" /\ retryDelayMs' = found.delay /\ timers' = found.timers
      /\ UNCHANGED <<timerId, numCreated>> /\ open' = open \cup {s} /\ settled' = FALSE
      /\ \/ /\ channel = NoFd /\ channel' = s /\ polled' = TRUE /\ answer' = "none"
            /\ failed' = failed
         \/ channel # NoFd /\ failed' = "connecting" /\ UNCHANGED <<channel, polled, answer>>
  BY DEF Connecting, Leaves, socket
<1>2. connection = NoFd /\ ~polled /\ failed = "none"
  BY NoSocket DEF IInv, Owned, Attempt, Caller, Running
<1>3. Typed'
  <2>1. functors' \in Seq({"startInLoop", "resetChannel", "cancel"}
                            \X (TimerSequence \cup {"none"}))
    BY FunctorsTyped DEF Caller
  <2>2. found.delay \in Delay /\ found.timers \in [TimerSequence -> Nat]
    BY DEF Caller
  <2> QED
    BY <1>1, <1>2, <2>1, <2>2 DEF IInv, Typed, TypeOK, Caller
<1>4. Attempt'
  BY <1>1, <1>2, FunctorsDiffer, NoSocket DEF IInv, Attempt, Caller
<1>5. Owned'
  <2>1. /\ connection' = NoFd /\ restarting' = FALSE /\ closing' = closing
        /\ open = closing /\ Running
    BY <1>2 DEF Caller, IInv, Owned, SocketsOwned, Running, Polled, Connected
  <2>2. CASE channel = NoFd
    BY <1>1, <2>1, <2>2 DEF Owned, SocketsOwned, Running, Polled, Connected
  <2>3. CASE channel # NoFd
    BY <1>1, <2>1, <2>3 DEF Owned, SocketsOwned, Running
  <2> QED
    BY <2>2, <2>3
<1>6. Chain'
  <2>1. \/ timerId' = "zero" \/ timers'["zero"] > 0 \/ In(functors', Cancels("zero"))
        => numCreated' = "positive"
    BY <1>1, FunctorsDiffer, NoSocket DEF IInv, Chain, Caller, Typed, TypeOK
  <2> QED
    BY <1>1, <2>1 DEF Chain, Running
<1>7. OneChain'
  <2> SUFFICES ASSUME calls' <= 2 PROVE OneChain'
    BY DEF OneChain
  <2>1. /\ started' <=> calls' = 1
        /\ calls' # 0 /\ channel = NoFd /\ ~In(functors', Starts)
        /\ found.timers["zero"] = 0 /\ found.timers["positive"] = 0
    BY DEF Caller
  <2>2. calls \in Nat /\ calls' \in Nat /\ calls <= calls' /\ calls <= 2
    BY BoundAssumption DEF Caller, IInv, Typed, TypeOK, BoundAssumption
  <2>3. Once(functors', Starts)
    BY <2>2, FunctorsDiffer DEF IInv, OneChain, Caller
  <2> QED
    BY <1>1, <1>2, <2>1, <2>2, <2>3, NoSocket DEF OneChain, NoTimer
<1> QED
  BY <1>3, <1>4, <1>5, <1>6, <1>7 DEF IInv

\* An attempt that fails at once and is retried keeps the invariant.
LEMMA ConnectRetriesStep ==
  ASSUME IInv, Running, NEW found, Caller(found), found.state = "kDisconnected",
         connect', ConnectRetries(found)
  PROVE  IInv'
<1>1. /\ state' = "kDisconnected" /\ timerId' = numCreated /\ numCreated' = "positive"
      /\ timers' = [found.timers EXCEPT ![numCreated] = @ + 1]
      /\ retryDelayMs' = NextDelay(found.delay) /\ settled' = FALSE
      /\ UNCHANGED <<channel, polled, answer, open, failed>>
  BY DEF ConnectRetries, Retry, RunAfter, socket
<1>2. connection = NoFd /\ ~polled /\ failed = "none"
  BY NoSocket DEF IInv, Owned, Attempt, Caller, Running
<1>n. /\ numCreated \in TimerSequence /\ found.timers \in [TimerSequence -> Nat]
      /\ timers \in [TimerSequence -> Nat]
  BY DEF IInv, Typed, TypeOK, Caller
<1>t. /\ timers' \in [TimerSequence -> Nat]
      /\ timers'[numCreated] = found.timers[numCreated] + 1
      /\ \A s \in TimerSequence : s # numCreated => timers'[s] = found.timers[s]
  BY <1>1, <1>n
<1>3. Typed'
  <2>1. functors' \in Seq({"startInLoop", "resetChannel", "cancel"}
                            \X (TimerSequence \cup {"none"}))
    BY FunctorsTyped DEF Caller
  <2>2. retryDelayMs' \in Delay
    BY <1>1, NextDelayIsDelay DEF Caller
  <2>3. timerId' \in TimerSequence \cup {"none"} /\ numCreated' \in TimerSequence
    BY <1>1, <1>n, NoSocket
  <2> QED
    BY <1>1, <1>2, <1>t, <2>1, <2>2, <2>3 DEF IInv, Typed, TypeOK, Caller
<1>4. Attempt'
  BY <1>1, <1>2, FunctorsDiffer, NoSocket DEF IInv, Attempt, Caller
<1>5. Owned'
  BY <1>1, <1>2 DEF IInv, Owned, SocketsOwned, Running, Polled, Connected, Caller
<1>6. Chain'
  <2>1. timers["zero"] > 0 \/ In(functors, Cancels("zero")) => numCreated = "positive"
    BY DEF IInv, Chain
  <2>2. In(functors', Cancels("zero")) => In(functors, Cancels("zero"))
    BY FunctorsDiffer, NoSocket DEF Caller
  <2>3. \/ timers'["positive"] > 0
        \/ timers'["zero"] > 0 /\ ~In(functors', Cancels("zero"))
    <3>1. CASE numCreated = "positive"
      <4>1. found.timers["positive"] \in Nat
        BY <1>n, NoSocket
      <4>2. timers'["positive"] = found.timers["positive"] + 1
        BY <1>t, <3>1
      <4>3. timers'["positive"] > 0
        BY <4>1, <4>2
      <4> QED
        BY <4>3
    <3>2. CASE numCreated = "zero"
      BY <1>n, <1>t, <2>1, <2>2, <3>2, NoSocket
    <3> QED
      BY <1>n, <3>1, <3>2, NoSocket
  <2> QED
    BY <1>1, <2>3 DEF Chain
<1>7. OneChain'
  <2> SUFFICES ASSUME calls' <= 2 PROVE OneChain'
    BY DEF OneChain
  <2>1. /\ started' <=> calls' = 1
        /\ calls' # 0 /\ channel = NoFd /\ ~In(functors', Starts)
        /\ found.timers["zero"] = 0 /\ found.timers["positive"] = 0
    BY DEF Caller
  <2>2. calls \in Nat /\ calls' \in Nat /\ calls <= calls' /\ calls <= 2
    BY BoundAssumption DEF Caller, IInv, Typed, TypeOK, BoundAssumption
  <2>3. Once(functors', Starts)
    BY <2>2, FunctorsDiffer DEF IInv, OneChain, Caller
  <2>4. timers'["zero"] + timers'["positive"] <= 1
    BY <1>n, <1>t, <2>1, NoSocket
  <2> QED
    BY <1>1, <1>2, <2>1, <2>2, <2>3, <2>4 DEF OneChain, NoTimer
<1> QED
  BY <1>3, <1>4, <1>5, <1>6, <1>7 DEF IInv

\* connect(2) that gives up, and startInLoop() that does not connect or finds a state
\* it does not expect, keep the invariant.
LEMMA NotStartedStep ==
  ASSUME IInv, Running, NEW found, Caller(found), Leaves(found),
         UNCHANGED <<channel, polled, answer, open>>,
         \/ found.state = "kDisconnected" /\ failed' = failed
            /\ (settled' = TRUE \/ ~connect')
         \/ found.state # "kDisconnected" /\ failed' = "startInLoop",
         settled' \in BOOLEAN
  PROVE  IInv'
<1>1. /\ state' = found.state /\ retryDelayMs' = found.delay /\ timers' = found.timers
      /\ UNCHANGED <<timerId, numCreated>>
  BY DEF Leaves
<1>2. /\ polled => found.state = state /\ ~restarting
      /\ connection # NoFd => found.state = state
      /\ failed = "none"
  BY DEF IInv, Owned, Attempt, Caller, Running
<1>3. Typed'
  <2>1. functors' \in Seq({"startInLoop", "resetChannel", "cancel"}
                            \X (TimerSequence \cup {"none"}))
    BY FunctorsTyped DEF Caller
  <2>2. /\ found.delay \in Delay /\ found.timers \in [TimerSequence -> Nat]
        /\ found.state \in {"kDisconnected", "kConnecting", "kConnected"}
    BY DEF Caller
  <2> QED
    BY <1>1, <1>2, <2>1, <2>2 DEF IInv, Typed, TypeOK, Caller
<1>4. Attempt'
  BY <1>1, <1>2, FunctorsDiffer, NoSocket DEF IInv, Attempt, Caller
<1>5. Owned'
  BY <1>1, <1>2 DEF IInv, Owned, SocketsOwned, Running, Polled, Connected, Caller
<1>6. Chain'
  <2>1. \/ timerId' = "zero" \/ timers'["zero"] > 0 \/ In(functors', Cancels("zero"))
        => numCreated' = "positive"
    BY <1>1, FunctorsDiffer, NoSocket DEF IInv, Chain, Caller, Typed, TypeOK
  <2> QED
    BY <2>1 DEF Chain, Running
<1>7. OneChain'
  <2> SUFFICES ASSUME calls' <= 2 PROVE OneChain'
    BY DEF OneChain
  <2>1. /\ started' <=> calls' = 1
        /\ calls' # 0 /\ channel = NoFd /\ ~In(functors', Starts)
        /\ found.timers["zero"] = 0 /\ found.timers["positive"] = 0
        /\ found.state = "kDisconnected"
    BY DEF Caller
  <2>2. calls \in Nat /\ calls' \in Nat /\ calls <= calls' /\ calls <= 2
    BY BoundAssumption DEF Caller, IInv, Typed, TypeOK, BoundAssumption
  <2>3. Once(functors', Starts)
    BY <2>2, FunctorsDiffer DEF IInv, OneChain, Caller
  <2> QED
    BY <1>1, <1>2, <2>1, <2>2, <2>3, NoSocket DEF OneChain, NoTimer
<1> QED
  BY <1>3, <1>4, <1>5, <1>6, <1>7 DEF IInv

\* startInLoop() keeps the invariant, whoever calls it.
LEMMA StartInLoopStep ==
  ASSUME IInv, Running, NEW found, Caller(found), StartInLoop(found)
  PROVE  IInv'
<1>1. settled \in BOOLEAN
  BY DEF IInv, Typed, TypeOK
<1>2. CASE found.state = "kDisconnected" /\ connect'
           /\ \E s \in Fds \ open : Connecting(s, found)
  BY <1>2, ConnectingStep
<1>3. CASE found.state = "kDisconnected" /\ connect' /\ ConnectRetries(found)
  BY <1>3, ConnectRetriesStep
<1>4. CASE found.state = "kDisconnected" /\ connect' /\ ConnectGivesUp(found)
  BY <1>4, NotStartedStep DEF ConnectGivesUp, socket
<1>5. CASE /\ found.state # "kDisconnected" \/ ~connect'
           /\ Leaves(found)
           /\ failed' = IF found.state = "kDisconnected" THEN failed ELSE "startInLoop"
           /\ UNCHANGED <<socket, open, settled>>
  BY <1>1, <1>5, NotStartedStep DEF socket
<1> QED
  BY <1>2, <1>3, <1>4, <1>5, StartEnds

-----------------------------------------------------------------------------
(* The callers of startInLoop() *)

\* What the calls of startInLoop() find while the state is as it was.
LEMMA FoundTyped ==
  ASSUME IInv
  PROVE  /\ Found \in [state : {"kDisconnected", "kConnecting", "kConnected"},
                       delay : Delay, timers : [TimerSequence -> Nat]]
         /\ Found.state = state /\ Found.timers = timers
         /\ connect \in BOOLEAN /\ started \in BOOLEAN
         /\ calls \in 0..MaxCalls /\ MaxCalls \in Nat
         /\ functors \in Seq(Functor) /\ timers \in [TimerSequence -> Nat]
         /\ \A op \in Functor : /\ In(functors, op) => In(functors, op)
                                /\ Once(functors, op) => Once(functors, op)
BY BoundAssumption DEF IInv, Typed, TypeOK, Found, BoundAssumption

\* start() in the loop thread.
LEMMA OwnStartStep ==
  ASSUME IInv, OwnStart
  PROVE  IInv'
<1>1. /\ Running /\ ~restarting /\ ~started /\ calls < MaxCalls
      /\ started' = TRUE /\ calls' = calls + 1 /\ connect' = TRUE
      /\ StartInLoop(Found)
      /\ UNCHANGED <<functors, young, retry, connection, closing, restarting>>
  BY DEF OwnStart, LoopThreadFree, CallStart, queue, owner
<1>2. ASSUME calls' <= 2
      PROVE  /\ started' <=> calls' = 1
             /\ calls' # 0 /\ Found.state = "kDisconnected" /\ channel = NoFd
             /\ Found.timers["zero"] = 0 /\ Found.timers["positive"] = 0
             /\ ~In(functors', Starts)
  <2>1. calls = 0
    BY <1>1, <1>2, FoundTyped DEF IInv, OneChain
  <2>2. functors = << >> /\ channel = NoFd /\ state = "kDisconnected" /\ NoTimer
    BY <2>1 DEF IInv, OneChain
  <2>3. ~In(functors, Starts)
    BY <2>2 DEF In
  <2> QED
    BY <1>1, <2>1, <2>2, <2>3, FoundTyped DEF NoTimer
<1>3. \A s \in TimerSequence : Found.timers[s] <= timers[s]
  BY FoundTyped
<1>4. Caller(Found)
  BY <1>1, <1>2, <1>3, FoundTyped DEF Caller
<1> QED
  BY <1>1, <1>4, StartInLoopStep

\* The oldest functor is taken.
LEMMA OldestTaken ==
  ASSUME IInv, NEW op, Take(op)
  PROVE  /\ Running /\ ~restarting /\ functors' = Tail(functors)
         /\ UNCHANGED <<connect, retry, connection, closing, restarting, started, calls>>
         /\ functors # << >> /\ Head(functors) \in Functor /\ Head(functors)[1] = op
         /\ In(functors, Head(functors))
         /\ functors' \in Seq(Functor)
         /\ \A e \in Functor :
              /\ In(functors', e) => In(functors, e)
              /\ In(functors, e) => In(functors', e) \/ Head(functors) = e
              /\ Once(functors, e) => Once(functors', e)
              /\ Once(functors, e) /\ Head(functors) = e => ~In(functors', e)
<1>1. /\ Running /\ ~restarting /\ functors' = Tail(functors)
      /\ UNCHANGED <<connect, retry, connection, closing, restarting, started, calls>>
      /\ functors # << >> /\ Head(functors)[1] = op
  BY DEF Take, LoopThreadFree, owner, application
<1>2. functors \in Seq(Functor)
  BY DEF IInv, Typed
<1>3. ASSUME NEW e
      PROVE  /\ Tail(functors) \in Seq(Functor) /\ Head(functors) \in Functor
             /\ In(functors, Head(functors))
             /\ In(Tail(functors), e) => In(functors, e)
             /\ In(functors, e) => In(Tail(functors), e) \/ Head(functors) = e
             /\ Once(functors, e) => Once(Tail(functors), e)
             /\ Once(functors, e) /\ Head(functors) = e => ~In(Tail(functors), e)
  BY <1>1, <1>2, TakenFirst
<1> QED
  BY <1>1, <1>3

\* start() from another thread, in the loop thread.
LEMMA CallStartInLoopStep ==
  ASSUME IInv, CallStartInLoop
  PROVE  IInv'
<1> DEFINE e == Head(functors)
<1>1. Take("startInLoop") /\ StartInLoop(Found) /\ UNCHANGED young
  BY DEF CallStartInLoop
<1>2. /\ Running /\ ~restarting
      /\ UNCHANGED <<connect, retry, connection, closing, restarting, started, calls>>
      /\ e = Starts /\ In(functors, Starts)
      /\ functors' \in Seq(Functor)
      /\ \A op \in Functor :
           /\ In(functors', op) => In(functors, op)
           /\ In(functors, op) => In(functors', op) \/ e = op
           /\ Once(functors, op) => Once(functors', op)
           /\ Once(functors, op) /\ e = op => ~In(functors', op)
  BY <1>1, OldestTaken, FunctorsDiffer
<1> HIDE DEF e
<1>3. ASSUME calls' <= 2
      PROVE  /\ started' <=> calls' = 1
             /\ calls' # 0 /\ Found.state = "kDisconnected" /\ channel = NoFd
             /\ Found.timers["zero"] = 0 /\ Found.timers["positive"] = 0
             /\ ~In(functors', Starts)
  <2>1. /\ started <=> calls = 1
        /\ calls = 0 => functors = << >>
        /\ state = "kDisconnected" /\ channel = NoFd /\ NoTimer /\ Once(functors, Starts)
    BY <1>2, <1>3 DEF IInv, OneChain
  <2>2. calls # 0
    BY <1>2, <2>1 DEF In
  <2> QED
    BY <1>2, <2>1, <2>2, FoundTyped, FunctorsDiffer DEF NoTimer
<1>4. \A s \in TimerSequence : Found.timers[s] <= timers[s]
  BY FoundTyped
<1>5. In(functors, Resets) => In(functors', Resets)
  BY <1>2, FunctorsDiffer
<1>6. Caller(Found)
  BY <1>1, <1>2, <1>3, <1>4, <1>5, FoundTyped DEF Caller
<1> QED
  BY <1>1, <1>2, <1>6, StartInLoopStep

\* A retry timer.
LEMMA TimerFiresStep ==
  ASSUME IInv, NEW s \in TimerSequence, TimerFires(s)
  PROVE  IInv'
<1> DEFINE found == [Found EXCEPT !.timers[s] = @ - 1]
<1>1. /\ Running /\ ~restarting
      /\ timers[s] > (IF young = s THEN 1 ELSE 0)
      /\ UNCHANGED <<connect, functors, young, retry, connection, closing, restarting,
                     started, calls>>
      /\ StartInLoop(found)
  BY DEF TimerFires, LoopThreadFree, queue, owner, application
<1>2. timers \in [TimerSequence -> Nat]
  BY FoundTyped
<1>3. /\ found \in [state : {"kDisconnected", "kConnecting", "kConnected"},
                    delay : Delay, timers : [TimerSequence -> Nat]]
      /\ found.state = state
      /\ found.timers = [timers EXCEPT ![s] = @ - 1]
  BY <1>1, <1>2, FoundTyped DEF Found
<1> HIDE DEF found
<1>4. /\ found.timers[s] = timers[s] - 1
      /\ \A r \in TimerSequence : r # s => found.timers[r] = timers[r]
  BY <1>2, <1>3
<1>5. \A r \in TimerSequence : found.timers[r] <= timers[r]
  BY <1>2, <1>4
<1>6. ASSUME calls' <= 2
      PROVE  /\ started' <=> calls' = 1
             /\ calls' # 0 /\ found.state = "kDisconnected" /\ channel = NoFd
             /\ found.timers["zero"] = 0 /\ found.timers["positive"] = 0
             /\ ~In(functors', Starts)
  <2>0. calls <= 2
    BY <1>1, <1>6
  <2>1. timers["zero"] \in Nat /\ timers["positive"] \in Nat /\ timers[s] > 0
    BY <1>1, <1>2, NoSocket
  <2>2. ~NoTimer
    BY <2>1, NoSocket DEF NoTimer
  <2>3. /\ started <=> calls = 1
        /\ calls # 0 /\ ~In(functors, Starts) /\ state = "kDisconnected"
        /\ timers["zero"] + timers["positive"] <= 1
        /\ channel # NoFd => young = s
    BY <2>0, <2>1, <2>2 DEF IInv, OneChain
  <2>4. timers[s] = 1 /\ \A r \in TimerSequence : r # s => timers[r] = 0
    BY <2>1, <2>3, NoSocket
  <2>5. \A r \in TimerSequence : found.timers[r] = 0
    BY <1>4, <2>4
  <2> QED
    BY <1>1, <1>3, <2>3, <2>4, <2>5, NoSocket
<1>7. Caller(found)
  BY <1>1, <1>3, <1>5, <1>6, FoundTyped DEF Caller
<1> QED
  BY <1>1, <1>7, StartInLoopStep

\* TcpClient restarts its Connector.
LEMMA RestartStep ==
  ASSUME IInv, Restart
  PROVE  IInv'
<1> DEFINE found == [Found EXCEPT !.state = "kDisconnected", !.delay = kInitRetryDelayMs]
<1>1. /\ Running /\ restarting /\ restarting' = FALSE /\ connect' = TRUE
      /\ UNCHANGED <<functors, young, retry, connection, closing, started, calls>>
      /\ StartInLoop(found)
  BY DEF Restart, queue, application
<1>2. kInitRetryDelayMs \in Delay
  BY DEF Delay, kInitRetryDelayMs, kMaxRetryDelayMs
<1>3. /\ found \in [state : {"kDisconnected", "kConnecting", "kConnected"},
                    delay : Delay, timers : [TimerSequence -> Nat]]
      /\ found.state = "kDisconnected" /\ found.timers = timers
  BY <1>2, FoundTyped DEF Found
<1> HIDE DEF found
<1>4. \A s \in TimerSequence : found.timers[s] <= timers[s]
  BY <1>3, FoundTyped
<1>5. ASSUME calls' <= 2
      PROVE  /\ started' <=> calls' = 1
             /\ calls' # 0 /\ found.state = "kDisconnected" /\ channel = NoFd
             /\ found.timers["zero"] = 0 /\ found.timers["positive"] = 0
             /\ ~In(functors', Starts)
  <2>1. state = "kConnected" /\ channel = NoFd
    BY <1>1 DEF IInv, Owned
  <2>2. calls <= 2
    BY <1>1, <1>5
  <2> QED
    BY <1>1, <1>3, <2>1, <2>2 DEF IInv, OneChain, NoTimer
<1>6. Caller(found)
  BY <1>1, <1>3, <1>4, <1>5, FoundTyped DEF Caller
<1> QED
  BY <1>1, <1>6, StartInLoopStep

-----------------------------------------------------------------------------
(* start() and stop(), apart from startInLoop() *)

\* A functor is queued behind the others.
LEMMA QueuedBehind ==
  ASSUME IInv, NEW e \in Functor, functors' = Append(functors, e)
  PROVE  /\ functors' \in Seq(Functor)
         /\ functors' \in Seq({"startInLoop", "resetChannel", "cancel"}
                                \X (TimerSequence \cup {"none"}))
         /\ \A op \in Functor :
              /\ In(functors', op) <=> In(functors, op) \/ e = op
              /\ Once(functors, op) /\ (e # op \/ ~In(functors, op)) => Once(functors', op)
<1>1. functors \in Seq(Functor)
  BY DEF IInv, Typed
<1>2. ASSUME NEW op
      PROVE  /\ Append(functors, e) \in Seq(Functor)
             /\ In(Append(functors, e), op) <=> In(functors, op) \/ e = op
             /\ Once(functors, op) /\ (e # op \/ ~In(functors, op))
                  => Once(Append(functors, e), op)
  BY <1>1, QueuedLast
<1>3. functors' \in Seq(Functor)
  BY <1>2
<1> QED
  BY <1>2, <1>3, FunctorsTyped

\* start() from another thread.
LEMMA ForeignStartStep ==
  ASSUME IInv, ForeignStart
  PROVE  IInv'
<1>1. /\ Running /\ ~started /\ calls < MaxCalls
      /\ started' = TRUE /\ calls' = calls + 1 /\ connect' = TRUE
      /\ functors' = Append(functors, Starts) /\ settled' = FALSE
      /\ UNCHANGED <<state, channel, polled, answer, retryDelayMs, timerId, timers, numCreated,
                     young, open, retry, connection, closing, restarting, failed>>
  BY DEF ForeignStart, CallStart, socket, retrying, owner, Starts
<1>2. /\ functors' \in Seq(Functor)
      /\ functors' \in Seq({"startInLoop", "resetChannel", "cancel"}
                             \X (TimerSequence \cup {"none"}))
      /\ \A op \in Functor :
           /\ In(functors', op) <=> In(functors, op) \/ Starts = op
           /\ Once(functors, op) /\ (Starts # op \/ ~In(functors, op)) => Once(functors', op)
  BY <1>1, QueuedBehind, FunctorsDiffer
<1>3. calls \in Nat /\ calls' \in 0..MaxCalls
  BY <1>1, BoundAssumption DEF IInv, Typed, TypeOK, BoundAssumption
<1>4. Typed'
  <2>1. connect' \in BOOLEAN /\ started' \in BOOLEAN /\ settled' \in BOOLEAN
    BY <1>1 DEF IInv, Typed, TypeOK
  <2> QED
    BY <1>1, <1>2, <1>3, <2>1 DEF IInv, Typed, TypeOK
<1>5. Attempt'
  BY <1>1, <1>2, FunctorsDiffer DEF IInv, Attempt
<1>6. Owned'
  BY <1>1 DEF IInv, Owned, SocketsOwned, Running, Polled, Connected
<1>7. Chain'
  BY <1>1, <1>2, FunctorsDiffer, NoSocket DEF IInv, Chain
<1>8. OneChain'
  <2> SUFFICES ASSUME calls' <= 2 PROVE OneChain'
    BY DEF OneChain
  <2>1. calls = 0
    BY <1>1, <1>3 DEF IInv, OneChain
  <2>2. functors = << >> /\ channel = NoFd /\ state = "kDisconnected" /\ NoTimer /\ failed = "none"
    BY <2>1 DEF IInv, OneChain
  <2>3. ~In(functors, Starts) /\ Once(functors, Starts)
    BY <2>2 DEF In, Once
  <2>4. timers \in [TimerSequence -> Nat] /\ timers["zero"] + timers["positive"] <= 1
    BY <2>2 DEF IInv, Typed, TypeOK, NoTimer
  <2> QED
    BY <1>1, <1>2, <2>1, <2>2, <2>3, <2>4, FunctorsDiffer DEF OneChain, NoTimer
<1> QED
  BY <1>4, <1>5, <1>6, <1>7, <1>8 DEF IInv

\* cancel() takes the timer with sequence 0 away, or nothing.
LEMMA CancelTakesZero ==
  ASSUME IInv, NEW id, Cancel(id)
  PROVE  /\ timers' \in [TimerSequence -> Nat]
         /\ timers'["positive"] = timers["positive"]
         /\ timers'["zero"] <= timers["zero"] /\ timers'["zero"] \in Nat
         /\ timers'["positive"] \in Nat
         /\ timers["zero"] \in Nat
         /\ id # "zero" => timers'["zero"] = timers["zero"]
         /\ NoTimer => NoTimer'
<1>1. timers \in [TimerSequence -> Nat]
  BY DEF IInv, Typed, TypeOK
<1>2. CASE id = "zero"
  BY <1>1, <1>2, NoSocket DEF Cancel, NoTimer
<1>3. CASE id # "zero"
  BY <1>1, <1>3, NoSocket DEF Cancel, NoTimer
<1> QED
  BY <1>2, <1>3

\* stop() in the loop thread.
LEMMA OwnStopStep ==
  ASSUME IInv, OwnStop
  PROVE  IInv'
<1>1. /\ Running /\ started /\ calls < MaxCalls
      /\ started' = FALSE /\ calls' = calls + 1 /\ connect' = FALSE
      /\ Cancel(timerId)
      /\ UNCHANGED <<state, channel, polled, answer, retryDelayMs, timerId, numCreated,
                     functors, young, open, retry, connection, closing, restarting, settled,
                     failed>>
  BY DEF OwnStop, CallStop, socket, queue, owner
<1>2. /\ timers' \in [TimerSequence -> Nat]
      /\ timers'["positive"] = timers["positive"]
      /\ timers'["zero"] <= timers["zero"] /\ timers'["zero"] \in Nat
      /\ timers["zero"] \in Nat /\ timers'["positive"] \in Nat
      /\ NoTimer => NoTimer'
  BY <1>1, CancelTakesZero
<1>3. calls \in Nat /\ calls' \in 0..MaxCalls
  BY <1>1, BoundAssumption DEF IInv, Typed, TypeOK, BoundAssumption
<1>4. Typed'
  <2>1. connect' \in BOOLEAN /\ started' \in BOOLEAN /\ settled' \in BOOLEAN
    BY <1>1 DEF IInv, Typed, TypeOK
  <2> QED
    BY <1>1, <1>2, <1>3, <2>1 DEF IInv, Typed, TypeOK
<1>5. Attempt'
  BY <1>1 DEF IInv, Attempt
<1>6. Owned'
  BY <1>1 DEF IInv, Owned, SocketsOwned, Running, Polled, Connected
<1>7. Chain'
  BY <1>1, <1>2 DEF IInv, Chain
<1>8. OneChain'
  <2> SUFFICES ASSUME calls' <= 2 PROVE OneChain'
    BY DEF OneChain
  <2>1. calls = 1
    BY <1>1, <1>3 DEF IInv, OneChain
  <2>2. \A s \in TimerSequence : timers'[s] > 0 => timers[s] > 0
    BY <1>2, NoSocket
  <2>3. timers'["zero"] + timers'["positive"] <= 1
    BY <1>2, <2>1 DEF IInv, OneChain
  <2> QED
    BY <1>1, <1>2, <2>1, <2>2, <2>3 DEF IInv, OneChain
<1> QED
  BY <1>4, <1>5, <1>6, <1>7, <1>8 DEF IInv

\* stop() from another thread.
LEMMA ForeignStopStep ==
  ASSUME IInv, ForeignStop
  PROVE  IInv'
<1>1. /\ Running /\ started /\ calls < MaxCalls
      /\ started' = FALSE /\ calls' = calls + 1 /\ connect' = FALSE
      /\ functors' = Append(functors, Cancels(timerId))
      /\ timerId \in TimerSequence \cup {"none"}
      /\ UNCHANGED <<state, channel, polled, answer, retryDelayMs, timerId, timers, numCreated,
                     young, open, retry, connection, closing, restarting, settled, failed>>
  BY DEF ForeignStop, CallStop, socket, retrying, owner, Cancels, IInv, Typed, TypeOK
<1>2. /\ functors' \in Seq(Functor)
      /\ functors' \in Seq({"startInLoop", "resetChannel", "cancel"}
                             \X (TimerSequence \cup {"none"}))
      /\ \A op \in Functor :
           /\ In(functors', op) <=> In(functors, op) \/ Cancels(timerId) = op
           /\ Once(functors, op) /\ (Cancels(timerId) # op \/ ~In(functors, op))
                => Once(functors', op)
  BY <1>1, QueuedBehind, FunctorsDiffer
<1>3. calls \in Nat /\ calls' \in 0..MaxCalls
  BY <1>1, BoundAssumption DEF IInv, Typed, TypeOK, BoundAssumption
<1>4. Typed'
  <2>1. connect' \in BOOLEAN /\ started' \in BOOLEAN /\ settled' \in BOOLEAN
    BY <1>1 DEF IInv, Typed, TypeOK
  <2> QED
    BY <1>1, <1>2, <1>3, <2>1 DEF IInv, Typed, TypeOK
<1>5. Attempt'
  BY <1>1, <1>2, FunctorsDiffer DEF IInv, Attempt
<1>6. Owned'
  BY <1>1 DEF IInv, Owned, SocketsOwned, Running, Polled, Connected
<1>7. Chain'
  <2>1. In(functors', Cancels("zero")) => In(functors, Cancels("zero")) \/ timerId = "zero"
    BY <1>1, <1>2, FunctorsDiffer, NoSocket DEF Cancels
  <2> QED
    BY <1>1, <2>1 DEF IInv, Chain
<1>8. OneChain'
  <2> SUFFICES ASSUME calls' <= 2 PROVE OneChain'
    BY DEF OneChain
  <2>1. calls = 1
    BY <1>1, <1>3 DEF IInv, OneChain
  <2>2. /\ In(functors', Starts) <=> In(functors, Starts)
        /\ Once(functors, Starts) => Once(functors', Starts)
    BY <1>1, <1>2, FunctorsDiffer
  <2> QED
    BY <1>1, <2>1, <2>2 DEF IInv, OneChain, NoTimer
<1> QED
  BY <1>4, <1>5, <1>6, <1>7, <1>8 DEF IInv

-----------------------------------------------------------------------------
(* The other steps of the loop thread *)

\* cancel() from another thread, in the loop thread.
LEMMA CallCancelStep ==
  ASSUME IInv, CallCancel
  PROVE  IInv'
<1> DEFINE e == Head(functors)
<1>1. /\ Take("cancel") /\ Cancel(e[2])
      /\ UNCHANGED <<state, channel, polled, answer, retryDelayMs, timerId, numCreated, young,
                     open, settled, failed>>
  BY DEF CallCancel, socket
<1>2. /\ UNCHANGED <<connect, retry, connection, closing, restarting, started, calls>>
      /\ functors # << >> /\ In(functors, e) /\ e = Cancels(e[2])
      /\ functors' \in Seq(Functor)
      /\ \A op \in Functor :
           /\ In(functors', op) => In(functors, op)
           /\ In(functors, op) => In(functors', op) \/ e = op
           /\ Once(functors, op) => Once(functors', op)
      /\ e # Starts /\ e # Resets
  BY <1>1, OldestTaken, FunctorsDiffer
<1>3. /\ timers' \in [TimerSequence -> Nat]
      /\ timers'["positive"] = timers["positive"]
      /\ timers'["zero"] <= timers["zero"] /\ timers'["zero"] \in Nat
      /\ timers["zero"] \in Nat /\ timers'["positive"] \in Nat
      /\ e[2] # "zero" => timers'["zero"] = timers["zero"]
      /\ NoTimer => NoTimer'
  BY <1>1, CancelTakesZero
<1> HIDE DEF e
<1>4. Typed'
  BY <1>1, <1>2, <1>3, FunctorsTyped DEF IInv, Typed, TypeOK
<1>5. Attempt'
  BY <1>1, <1>2, FunctorsDiffer DEF IInv, Attempt
<1>6. Owned'
  BY <1>1, <1>2 DEF IInv, Owned, SocketsOwned, Running, Polled, Connected
<1>7. Chain'
  <2>1. /\ In(functors', Cancels("zero")) => In(functors, Cancels("zero"))
        /\ In(functors, Starts) => In(functors', Starts)
    BY <1>2, FunctorsDiffer, NoSocket
  <2>2. timers["zero"] > 0 /\ ~In(functors, Cancels("zero")) => timers'["zero"] > 0
    <3>1. ~In(functors, Cancels("zero")) => e[2] # "zero"
      BY <1>2
    <3> QED
      BY <1>3, <3>1
  <2>3. timers'["zero"] > 0 => timers["zero"] > 0
    BY <1>3
  <2> QED
    BY <1>1, <1>2, <1>3, <2>1, <2>2, <2>3 DEF IInv, Chain, Running
<1>8. OneChain'
  <2> SUFFICES ASSUME calls' <= 2 PROVE OneChain'
    BY DEF OneChain
  <2>1. calls <= 2
    BY <1>2
  <2>2. \A s \in TimerSequence : timers'[s] > 0 => timers[s] > 0
    BY <1>3, NoSocket
  <2>3. timers'["zero"] + timers'["positive"] <= 1
    BY <1>3, <2>1 DEF IInv, OneChain
  <2>4. /\ In(functors', Starts) => In(functors, Starts)
        /\ Once(functors, Starts) => Once(functors', Starts)
    BY <1>2, FunctorsDiffer
  <2>5. calls # 0
    BY <1>2, <2>1 DEF IInv, OneChain
  <2> QED
    BY <1>1, <1>2, <1>3, <2>1, <2>2, <2>3, <2>4, <2>5 DEF IInv, OneChain
<1> QED
  BY <1>4, <1>5, <1>6, <1>7, <1>8 DEF IInv

\* resetChannel() finds the channel of the attempt that is over.
LEMMA ResetChannelStep ==
  ASSUME IInv, ResetChannel
  PROVE  IInv'
<1>1. /\ Take("resetChannel") /\ channel' = NoFd /\ young' = "none"
      /\ UNCHANGED <<state, polled, answer, retryDelayMs, timerId, timers, numCreated, open,
                     settled, failed>>
  BY DEF ResetChannel, retrying
<1>2. /\ UNCHANGED <<connect, retry, connection, closing, restarting, started, calls>>
      /\ functors # << >> /\ In(functors, Resets)
      /\ functors' \in Seq(Functor)
      /\ \A op \in Functor :
           /\ In(functors', op) => In(functors, op)
           /\ In(functors, op) => In(functors', op) \/ Resets = op
           /\ Once(functors, op) => Once(functors', op)
      /\ Once(functors, Resets) => ~In(functors', Resets)
  <2>1. Head(functors) = Resets
    BY <1>1, OldestTaken, FunctorsDiffer
  <2> QED
    BY <1>1, <2>1, OldestTaken, FunctorsDiffer
<1>3. channel # NoFd /\ ~polled /\ answer = "none" /\ ~In(functors', Resets)
  BY <1>2 DEF IInv, Attempt
<1>4. Typed'
  BY <1>1, <1>2, FunctorsTyped DEF IInv, Typed, TypeOK
<1>5. Attempt'
  BY <1>1, <1>2, <1>3, FunctorsDiffer DEF IInv, Attempt
<1>6. Owned'
  BY <1>1, <1>2, <1>3 DEF IInv, Owned, SocketsOwned, Running, Polled, Connected
<1>7. Chain'
  <2>1. /\ In(functors', Cancels("zero")) => In(functors, Cancels("zero"))
        /\ In(functors, Starts) => In(functors', Starts)
    BY <1>2, FunctorsDiffer, NoSocket
  <2> QED
    BY <1>1, <1>2, <2>1 DEF IInv, Chain, Running
<1>8. OneChain'
  <2>1. /\ In(functors', Starts) => In(functors, Starts)
        /\ Once(functors, Starts) => Once(functors', Starts)
    BY <1>2, FunctorsDiffer
  <2> QED
    BY <1>1, <1>2, <1>3, <2>1 DEF IInv, OneChain, NoTimer
<1> QED
  BY <1>4, <1>5, <1>6, <1>7, <1>8 DEF IInv

\* A handler is called for the attempt under way, and finds it kConnecting.
LEMMA HandlerFinds ==
  ASSUME IInv, answer # "none"
  PROVE  /\ polled /\ channel \in Fds /\ state = "kConnecting"
         /\ connection = NoFd /\ ~restarting /\ ~In(functors, Resets)
         /\ calls <= 2 => NoTimer /\ ~In(functors, Starts) /\ calls # 0
<1>1. polled /\ channel # NoFd /\ state = "kConnecting"
  BY DEF IInv, Attempt
<1> QED
  BY <1>1 DEF IInv, Attempt, Owned, OneChain, Typed, TypeOK

\* removeAndResetChannel() and the close of the socket, whatever comes of the state,
\* the timers and the connection.
LEMMA HandlerQueues ==
  ASSUME IInv, answer # "none", RemoveAndResetChannel
  PROVE  /\ polled' = FALSE /\ answer' = "none" /\ channel' = channel
         /\ functors' \in Seq(Functor)
         /\ functors' \in Seq({"startInLoop", "resetChannel", "cancel"}
                                \X (TimerSequence \cup {"none"}))
         /\ \A op \in Functor :
              /\ In(functors', op) <=> In(functors, op) \/ Resets = op
              /\ Once(functors, op) => Once(functors', op)
         /\ In(functors', Starts) <=> In(functors, Starts)
         /\ In(functors', Cancels("zero")) <=> In(functors, Cancels("zero"))
         /\ In(functors', Resets)
         /\ functors' # << >>
<1>1. /\ polled' = FALSE /\ answer' = "none" /\ channel' = channel
      /\ functors' = Append(functors, Resets)
  BY DEF RemoveAndResetChannel, Resets
<1>2. /\ functors' \in Seq(Functor)
      /\ functors' \in Seq({"startInLoop", "resetChannel", "cancel"}
                             \X (TimerSequence \cup {"none"}))
      /\ \A op \in Functor :
           /\ In(functors', op) <=> In(functors, op) \/ Resets = op
           /\ Once(functors, op) /\ (Resets # op \/ ~In(functors, op)) => Once(functors', op)
  BY <1>1, QueuedBehind, FunctorsDiffer
<1>3. ~In(functors, Resets)
  BY HandlerFinds
<1>4. In(functors', Resets)
  BY <1>2, FunctorsDiffer
<1>5. functors' # << >>
  BY <1>4 DEF In
<1> QED
  BY <1>1, <1>2, <1>3, <1>4, <1>5, FunctorsDiffer, NoSocket

\* A handler whose attempt has failed retries, or not.
LEMMA HandlerRetriesStep ==
  ASSUME IInv, Running, answer # "none", HandlerRetries,
         UNCHANGED <<connect, retry, connection, closing, restarting, started, calls, settled,
                     failed>>
  PROVE  IInv'
<1>1. /\ RemoveAndResetChannel /\ open' = open \ {channel}
      /\ state' = "kDisconnected"
      /\ \/ /\ connect /\ timerId' = numCreated /\ numCreated' = "positive"
            /\ timers' = [timers EXCEPT ![numCreated] = @ + 1]
            /\ retryDelayMs' = NextDelay(retryDelayMs) /\ young' = numCreated
         \/ ~connect /\ UNCHANGED <<retryDelayMs, timerId, timers, numCreated, young>>
  BY DEF HandlerRetries, Close, Retry, Leaves, Found, RunAfter
<1>2. /\ polled' = FALSE /\ answer' = "none" /\ channel' = channel
      /\ functors' \in Seq(Functor)
      /\ functors' \in Seq({"startInLoop", "resetChannel", "cancel"}
                             \X (TimerSequence \cup {"none"}))
      /\ \A op \in Functor : Once(functors, op) => Once(functors', op)
      /\ In(functors', Starts) <=> In(functors, Starts)
      /\ In(functors', Cancels("zero")) <=> In(functors, Cancels("zero"))
      /\ In(functors', Resets)
      /\ functors' # << >>
  BY <1>1, HandlerQueues
<1>3. /\ polled /\ channel \in Fds /\ state = "kConnecting" /\ channel # NoFd
      /\ connection = NoFd /\ ~restarting /\ ~In(functors, Resets)
      /\ calls <= 2 => NoTimer /\ ~In(functors, Starts) /\ calls # 0
  BY HandlerFinds, NoSocket
<1>4. /\ timers \in [TimerSequence -> Nat] /\ numCreated \in TimerSequence
      /\ retryDelayMs \in Delay
  BY DEF IInv, Typed, TypeOK
<1>5. /\ timers' \in [TimerSequence -> Nat] /\ numCreated' \in TimerSequence
      /\ timerId' \in TimerSequence \cup {"none"} /\ young' \in TimerSequence \cup {"none"}
      /\ retryDelayMs' \in Delay
  BY <1>1, <1>4, NextDelayIsDelay, NoSocket DEF IInv, Typed, TypeOK
<1>6. Typed'
  BY <1>1, <1>2, <1>5 DEF IInv, Typed, TypeOK
<1>7. Attempt'
  BY <1>1, <1>2, <1>3, FunctorsDiffer DEF IInv, Attempt
<1>8. Owned'
  BY <1>1, <1>2, <1>3 DEF IInv, Owned, SocketsOwned, Running, Polled, Connected
<1>9. Chain'
  <2>1. timers["zero"] > 0 \/ In(functors, Cancels("zero")) => numCreated = "positive"
    BY DEF IInv, Chain
  <2>2. CASE connect /\ numCreated = "positive"
    <3>1. timers'["positive"] = timers["positive"] + 1 /\ timers["positive"] \in Nat
      BY <1>1, <1>4, <2>2, NoSocket
    <3>2. timers'["positive"] > 0
      BY <3>1
    <3> QED
      BY <1>1, <2>2, <3>2 DEF Chain
  <2>3. CASE connect /\ numCreated = "zero"
    <3>1. timers'["zero"] = timers["zero"] + 1 /\ timers["zero"] \in Nat
      BY <1>1, <1>4, <2>3, NoSocket
    <3>2. timers'["zero"] > 0 /\ ~In(functors', Cancels("zero"))
      BY <1>2, <2>1, <2>3, <3>1
    <3> QED
      BY <1>1, <2>3, <3>2 DEF Chain
  <2>4. CASE ~connect
    BY <1>1, <1>2, <2>4 DEF IInv, Chain
  <2> QED
    BY <1>4, <2>2, <2>3, <2>4, NoSocket
<1>10. OneChain'
  <2> SUFFICES ASSUME calls' <= 2 PROVE OneChain'
    BY DEF OneChain
  <2>1. calls <= 2 /\ timers["zero"] = 0 /\ timers["positive"] = 0
        /\ ~In(functors', Starts) /\ calls # 0
    BY <1>2, <1>3 DEF NoTimer
  <2>2. /\ timers'["zero"] + timers'["positive"] <= 1
        /\ \A s \in TimerSequence : timers'[s] > 0 => young' = s
    <3>1. CASE connect
      <4>1. /\ young' = numCreated /\ timers'[numCreated] = 1
            /\ \A s \in TimerSequence : s # numCreated => timers'[s] = 0
        BY <1>1, <1>4, <2>1, <3>1, NoSocket
      <4> QED
        BY <1>4, <4>1, NoSocket
    <3>2. CASE ~connect
      BY <1>1, <2>1, <3>2, NoSocket
    <3> QED
      BY <3>1, <3>2
  <2>3. Once(functors', Starts)
    BY <1>2, <2>1, FunctorsDiffer DEF IInv, OneChain
  <2>4. failed = "none" /\ (started <=> calls = 1)
    BY <2>1 DEF IInv, OneChain
  <2> QED
    BY <1>1, <2>1, <2>2, <2>3, <2>4 DEF OneChain
<1> QED
  BY <1>6, <1>7, <1>8, <1>9, <1>10 DEF IInv

\* A handler whose socket is connected hands it over, or closes it.
LEMMA ConnectedStep ==
  ASSUME IInv, Running, answer # "none", RemoveAndResetChannel, state' = "kConnected",
         \/ connect /\ connection' = channel /\ open' = open
         \/ ~connect /\ connection' = connection /\ open' = open \ {channel},
         UNCHANGED <<retryDelayMs, timerId, timers, numCreated, young, connect, retry, closing,
                     restarting, started, calls, settled, failed>>
  PROVE  IInv'
<1>1. /\ polled' = FALSE /\ answer' = "none" /\ channel' = channel
      /\ functors' \in Seq(Functor)
      /\ functors' \in Seq({"startInLoop", "resetChannel", "cancel"}
                             \X (TimerSequence \cup {"none"}))
      /\ \A op \in Functor : Once(functors, op) => Once(functors', op)
      /\ In(functors', Starts) <=> In(functors, Starts)
      /\ In(functors', Cancels("zero")) <=> In(functors, Cancels("zero"))
      /\ In(functors', Resets)
      /\ functors' # << >>
  BY HandlerQueues
<1>2. /\ polled /\ channel \in Fds /\ state = "kConnecting" /\ channel # NoFd
      /\ connection = NoFd /\ ~restarting /\ ~In(functors, Resets)
      /\ calls <= 2 => NoTimer /\ ~In(functors, Starts) /\ calls # 0
  BY HandlerFinds, NoSocket
<1>3. Typed'
  <2>1. connection' \in Fds \cup {NoFd} /\ open' \subseteq Fds
    BY <1>2 DEF IInv, Typed, TypeOK
  <2> QED
    BY <1>1, <2>1, ZenonT(40) DEF IInv, Typed, TypeOK
<1>4. Attempt'
  BY <1>1, <1>2, FunctorsDiffer DEF IInv, Attempt
<1>5. Owned'
  <2>1. open = {channel} \cup closing /\ channel \notin closing
    BY <1>2 DEF IInv, Owned, SocketsOwned, Running, Polled, Connected
  <2>2. CASE connect
    BY <1>1, <1>2, <2>1, <2>2 DEF Owned, SocketsOwned, Polled, Connected
  <2>3. CASE ~connect
    BY <1>1, <1>2, <2>1, <2>3 DEF Owned, SocketsOwned, Polled, Connected
  <2> QED
    BY <2>2, <2>3
<1>6. Chain'
  BY <1>1, <1>2 DEF IInv, Chain
<1>7. OneChain'
  BY <1>1, <1>2, FunctorsDiffer, NoSocket DEF IInv, OneChain, NoTimer, Typed, TypeOK
<1> QED
  BY <1>3, <1>4, <1>5, <1>6, <1>7 DEF IInv

\* The handlers of the attempt's channel.
LEMMA HandlersStep ==
  ASSUME IInv, HandleError \/ HandleWrite
  PROVE  IInv'
<1>1. CASE HandleError
  <2>1. Running /\ answer # "none" /\ state = "kConnecting"
    BY <1>1, HandlerFinds DEF HandleError, LoopThreadFree
  <2> QED
    BY <1>1, <2>1, HandlerRetriesStep DEF HandleError, owner, application
<1>2. CASE HandleWrite
  <2>1. Running /\ answer # "none" /\ state = "kConnecting"
    BY <1>2, HandlerFinds DEF HandleWrite, LoopThreadFree
  <2>2. UNCHANGED <<connect, started, calls, settled, failed>>
    BY <1>2, <2>1 DEF HandleWrite, application
  <2>3. CASE HandlerRetries /\ UNCHANGED owner
    BY <2>1, <2>2, <2>3, HandlerRetriesStep DEF owner
  <2>4. CASE /\ RemoveAndResetChannel
             /\ Leaves([Found EXCEPT !.state = "kConnected"])
             /\ IF connect THEN HandOver ELSE Close /\ UNCHANGED owner
             /\ UNCHANGED young
    <3>1. /\ state' = "kConnected"
          /\ UNCHANGED <<retryDelayMs, timerId, timers, numCreated, young>>
      BY <2>4 DEF Leaves, Found
    <3>2. /\ \/ connect /\ connection' = channel /\ open' = open
             \/ ~connect /\ connection' = connection /\ open' = open \ {channel}
          /\ UNCHANGED <<retry, closing, restarting>>
      BY <2>4 DEF HandOver, Close, owner
    <3> QED
      BY <2>1, <2>2, <2>4, <3>1, <3>2, ConnectedStep
  <2> QED
    BY <1>2, <2>1, <2>3, <2>4 DEF HandleWrite
<1> QED
  BY <1>1, <1>2

-----------------------------------------------------------------------------
(* The owner and the world *)

\* A connection is lost after resetChannel() has been called for its attempt.
LEMMA ConnectionLostStep ==
  ASSUME IInv, ConnectionLost
  PROVE  IInv'
<1>1. /\ Running /\ connection # NoFd /\ ~Queued("resetChannel")
      /\ connection' = NoFd /\ closing' = closing \cup {connection}
      /\ restarting' = (retry /\ started) /\ settled' = ~restarting'
      /\ UNCHANGED <<connect, state, channel, polled, answer, retryDelayMs, timerId, timers,
                     numCreated, functors, young, open, retry, started, calls, failed>>
  BY Zenon DEF ConnectionLost, LoopThreadFree, socket, retrying, queue, application
<1>2. state = "kConnected" /\ ~polled
  BY <1>1 DEF IInv, Owned, Attempt
<1>3. channel = NoFd
  BY <1>1, <1>2 DEF IInv, Attempt, Queued, In, Resets
<1>4. Typed'
  <2>1. /\ connection' \in Fds \cup {NoFd} /\ closing' \subseteq Fds
        /\ restarting' \in BOOLEAN /\ settled' \in BOOLEAN
    BY <1>1 DEF IInv, Typed, TypeOK
  <2> QED
    BY <1>1, <2>1 DEF IInv, Typed, TypeOK
<1>5. Attempt'
  BY <1>1 DEF IInv, Attempt
<1>6. Owned'
  <2>1. SocketsOwned'
    BY <1>1, <1>2 DEF IInv, Owned, SocketsOwned, Running, Polled, Connected
  <2> QED
    BY <1>1, <1>2, <1>3, <2>1 DEF Owned
<1>7. Chain'
  BY <1>1 DEF IInv, Chain
<1>8. OneChain'
  BY <1>1 DEF IInv, OneChain, NoTimer
<1> QED
  BY <1>4, <1>5, <1>6, <1>7, <1>8 DEF IInv

\* A former connection's socket is closed; the network answers an attempt.
LEMMA WorldStep ==
  ASSUME IInv, \/ \E s \in Fds : CloseConnection(s)
               \/ \E a \in {"connected", "failed"} : Answer(a)
               \/ UNCHANGED vars
  PROVE  IInv'
<1>1. /\ UNCHANGED <<connect, state, channel, polled, retryDelayMs, timerId, timers, numCreated,
                     functors, young, retry, connection, restarting, started, calls, settled,
                     failed>>
      /\ \/ \E s \in closing : /\ closing' = closing \ {s} /\ open' = open \ {s}
                               /\ answer' = answer
         \/ \E a \in {"connected", "failed"} : /\ polled /\ answer' = a
                                               /\ UNCHANGED <<open, closing>>
         \/ UNCHANGED <<open, closing, answer>>
  BY DEF CloseConnection, Answer, socket, retrying, queue, owner, application, vars
<1>2. Typed'
  <2>1. /\ closing' \subseteq Fds /\ open' \subseteq Fds
        /\ answer' \in {"none", "connected", "failed"}
    BY <1>1 DEF IInv, Typed, TypeOK
  <2> QED
    BY <1>1, <2>1 DEF IInv, Typed, TypeOK
<1>3. Attempt'
  BY <1>1 DEF IInv, Attempt
<1>4. Owned'
  BY <1>1 DEF IInv, Owned, SocketsOwned, Running, Polled, Connected
<1>5. Chain' /\ OneChain'
  BY <1>1 DEF IInv, Chain, OneChain, NoTimer, Running
<1> QED
  BY <1>2, <1>3, <1>4, <1>5 DEF IInv

\* Every step keeps the invariant.
LEMMA InvariantStep ==
  IInv /\ [Next]_vars => IInv'
<1> SUFFICES ASSUME IInv, [Next]_vars PROVE IInv'
  OBVIOUS
<1>1. CASE OwnStart \/ ForeignStart \/ OwnStop \/ ForeignStop
  BY <1>1, OwnStartStep, ForeignStartStep, OwnStopStep, ForeignStopStep
<1>2. CASE LoopStep
  BY <1>2, CallStartInLoopStep, CallCancelStep, ResetChannelStep, HandlersStep, RestartStep
     DEF LoopStep
<1>3. CASE ConnectionLost
  BY <1>3, ConnectionLostStep
<1>4. CASE \E s \in TimerSequence : TimerFires(s)
  BY <1>4, TimerFiresStep
<1>5. CASE \/ \E s \in Fds : CloseConnection(s)
           \/ \E a \in {"connected", "failed"} : Answer(a)
           \/ UNCHANGED vars
  BY <1>5, WorldStep
<1> QED
  BY <1>1, <1>2, <1>3, <1>4, <1>5 DEF Next

\* A Connector that has not been started satisfies the invariant.
LEMMA InvariantInit ==
  Init => IInv
<1> SUFFICES ASSUME Init PROVE IInv
  OBVIOUS
<1>1. /\ \A op : ~In(functors, op) /\ Once(functors, op)
      /\ functors \in Seq(Functor)
      /\ functors \in Seq({"startInLoop", "resetChannel", "cancel"}
                             \X (TimerSequence \cup {"none"}))
  BY DEF Init, In, Once
<1>2. Typed
  <2>1. retryDelayMs \in Delay
    BY DEF Init, Delay, kInitRetryDelayMs, kMaxRetryDelayMs
  <2>2. calls \in 0..MaxCalls
    BY BoundAssumption DEF Init, BoundAssumption
  <2> QED
    BY <1>1, <2>1, <2>2 DEF Init, Typed, TypeOK
<1>3. Attempt
  BY <1>1 DEF Init, Attempt
<1>4. Owned
  BY DEF Init, Owned, SocketsOwned, Polled, Connected
<1>5. timers["zero"] = 0 /\ timers["positive"] = 0
  BY NoSocket DEF Init
<1>6. Chain /\ OneChain
  BY <1>1, <1>5 DEF Init, Chain, OneChain, NoTimer
<1> QED
  BY <1>2, <1>3, <1>4, <1>6 DEF IInv

-----------------------------------------------------------------------------
(* Theorems *)

\* The invariant holds in every state of every behaviour.
THEOREM Invariance == Spec => []IInv
<1> QED
  BY InvariantInit, InvariantStep, PTL DEF Spec

\* Connector's variables keep their types; retryDelayMs_ is one of the doublings from
\* kInitRetryDelayMs up to kMaxRetryDelayMs.
THEOREM TypeCorrect == Spec => []TypeOK
<1>1. IInv => TypeOK
  BY DEF IInv, Typed
<1> QED
  BY <1>1, Invariance, PTL

\* Every open socket has exactly one owner, whichever of connecting(), retry(),
\* handleWrite() and TcpClient::newConnection() it goes through.
THEOREM OneOwner == Spec => []SocketsOwned
<1>1. IInv => SocketsOwned
  BY DEF IInv, Owned
<1> QED
  BY <1>1, Invariance, PTL

\* No path through startInLoop(), retry(), the handlers, restart(), start() and stop()
\* ends the chain of retries while a connection is wanted.
THEOREM ChainGoesOn == Spec => []KeepsTrying
<1>1. IInv => KeepsTrying
  <2>1. ASSUME In(functors, Starts) PROVE Queued("startInLoop")
    BY <2>1 DEF In, Queued, Starts
  <2> QED
    BY <2>1, NoSocket DEF IInv, Chain, KeepsTrying, Underway
<1> QED
  BY <1>1, Invariance, PTL

\* With one start() no assertion of Connector.cc fails; those of handleWrite() and
\* handleError() never do.
THEOREM NoAssertionFails == Spec => []AssertionsHold
<1>1. IInv => AssertionsHold
  BY DEF IInv, Attempt, OneChain, AssertionsHold
<1> QED
  BY <1>1, Invariance, PTL

=============================================================================
