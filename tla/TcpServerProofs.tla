--------------------------- MODULE TcpServerProofs ---------------------------
(***************************************************************************)
(* Proofs about TcpServer: the functors of several loops establish, forget *)
(* and take down each connection in this order and once, for any number of *)
(* io threads, descriptors and clients.                                    *)
(***************************************************************************)
EXTENDS TcpServer, SequenceTheorems, TLAPS

-----------------------------------------------------------------------------
(* Queues of functors *)

\* op is among the queued functors q; it is there at most once.
In(q, op) == \E i \in DOMAIN q : q[i] = op
Once(q, op) == \A i, j \in DOMAIN q : q[i] = op /\ q[j] = op => i = j

\* queueInLoop(): the functor is in the queue, and the others as they were.
LEMMA QueuedLast ==
  ASSUME NEW T, NEW q \in Seq(T), NEW e \in T, NEW op
  PROVE  /\ Append(q, e) \in Seq(T)
         /\ In(Append(q, e), op) <=> In(q, op) \/ e = op
         /\ Once(q, op) /\ (e # op \/ ~In(q, op)) => Once(Append(q, e), op)
<1> DEFINE r == Append(q, e)
<1>1. /\ r \in Seq(T) /\ Len(q) \in Nat /\ DOMAIN q = 1..Len(q)
      /\ DOMAIN r = 1..(Len(q) + 1)
      /\ \A i \in 1..Len(q) : r[i] = q[i]
      /\ r[Len(q) + 1] = e
  BY AppendProperties, LenProperties
<1> HIDE DEF r
<1>2. In(r, op) <=> In(q, op) \/ e = op
  <2>1. ASSUME In(r, op) PROVE In(q, op) \/ e = op
    BY <1>1, <2>1 DEF In
  <2>2. ASSUME In(q, op) PROVE In(r, op)
    BY <1>1, <2>2 DEF In
  <2>3. ASSUME e = op PROVE In(r, op)
    <3>1. Len(q) + 1 \in DOMAIN r
      BY <1>1
    <3> QED
      BY <1>1, <2>3, <3>1 DEF In
  <2> QED
    BY <2>1, <2>2, <2>3
<1>3. ASSUME Once(q, op), e # op \/ ~In(q, op) PROVE Once(r, op)
  <2> SUFFICES ASSUME NEW i \in DOMAIN r, NEW j \in DOMAIN r, r[i] = op, r[j] = op
               PROVE  i = j
    BY DEF Once
  <2>1. CASE e # op
    BY <1>1, <1>3, <2>1 DEF Once
  <2>2. CASE ~In(q, op)
    BY <1>1, <2>2 DEF In
  <2> QED
    BY <1>3, <2>1, <2>2
<1> QED
  BY <1>1, <1>2, <1>3 DEF r

\* doPendingFunctors(): the first functor is taken, and the others as they were.
LEMMA TakenFirst ==
  ASSUME NEW T, NEW q \in Seq(T), q # << >>, NEW op
  PROVE  /\ Tail(q) \in Seq(T) /\ Head(q) \in T /\ In(q, Head(q))
         /\ In(Tail(q), op) => In(q, op)
         /\ In(q, op) => In(Tail(q), op) \/ Head(q) = op
         /\ Once(q, op) => Once(Tail(q), op)
         /\ Once(q, op) /\ Head(q) = op => ~In(Tail(q), op)
<1> DEFINE r == Tail(q)
<1>1. /\ r \in Seq(T) /\ Len(q) \in Nat \ {0} /\ DOMAIN q = 1..Len(q)
      /\ DOMAIN r = 1..(Len(q) - 1)
      /\ \A i \in 1..(Len(q) - 1) : r[i] = q[i + 1]
      /\ Head(q) = q[1] /\ Head(q) \in T
  BY HeadTailProperties, LenProperties, EmptySeq
<1> HIDE DEF r
<1>2. \A i \in DOMAIN r : i + 1 \in DOMAIN q /\ i + 1 # 1 /\ r[i] = q[i + 1]
  BY <1>1
<1>3. 1 \in DOMAIN q /\ In(q, Head(q))
  BY <1>1 DEF In
<1>4. In(r, op) => In(q, op)
  BY <1>2 DEF In
<1>5. ASSUME In(q, op) PROVE In(r, op) \/ Head(q) = op
  <2>1. PICK i \in DOMAIN q : q[i] = op
    BY <1>5 DEF In
  <2>2. CASE i = 1
    BY <1>1, <2>1, <2>2
  <2>3. CASE i # 1
    <3>1. i - 1 \in DOMAIN r /\ (i - 1) + 1 = i
      BY <1>1, <2>3
    <3> QED
      BY <1>2, <2>1, <3>1 DEF In
  <2> QED
    BY <2>2, <2>3
<1>6. ASSUME Once(q, op) PROVE Once(r, op)
  <2> SUFFICES ASSUME NEW i \in DOMAIN r, NEW j \in DOMAIN r, r[i] = op, r[j] = op
               PROVE  i = j
    BY DEF Once
  <2>1. i + 1 = j + 1
    BY <1>2, <1>6 DEF Once
  <2>2. i \in Int /\ j \in Int
    BY <1>1
  <2> QED
    BY <2>1, <2>2
<1>7. ASSUME Once(q, op), Head(q) = op PROVE ~In(r, op)
  BY <1>1, <1>2, <1>3, <1>7 DEF Once, In
<1> QED
  BY <1>1, <1>3, <1>4, <1>5, <1>6, <1>7 DEF r
-----------------------------------------------------------------------------
(* The inductive invariant *)

Establishes(c) == <<"connectEstablished", c>>
Removes(c) == <<"removeConnection", c>>
Destroys(c) == <<"connectDestroyed", c>>

Functor == {"connectEstablished", "removeConnection", "connectDestroyed"} \X Conns

\* One queue of functors for each loop.
Queues == [Loops -> Seq(Functor)]

\* A connection waits to be established, is served, waits to be forgotten, waits to
\* be taken down, or is down; while it waits, the functor that goes on with it is in
\* the queue of the loop whose turn it is.
Stages ==
  \A c \in Conns :
    /\ c \notin Accepted => state[c] = "kConnecting"
    /\ c \in Accepted /\ state[c] = "kConnecting" =>
         c \in connections /\ c \notin watched /\ In(functors[home[c]], Establishes(c))
    /\ c \in watched => state[c] = "kConnected" /\ c \in connections
    /\ state[c] = "kConnected" /\ c \in connections /\ c \notin watched =>
         In(functors[Base], Removes(c))
    /\ state[c] = "kConnected" /\ c \notin connections =>
         In(functors[home[c]], Destroys(c))
    /\ state[c] = "kDisconnected" => c \notin connections /\ c \notin watched

\* A functor that is queued finds its connection waiting for it, and comes once.
Queueing ==
  \A l \in Loops : \A c \in Conns :
    /\ In(functors[l], Establishes(c)) =>
         c \in Accepted /\ l = home[c] /\ state[c] = "kConnecting"
    /\ In(functors[l], Removes(c)) =>
         /\ c \in Accepted /\ l = Base /\ state[c] = "kConnected"
         /\ c \in connections /\ c \notin watched
    /\ In(functors[l], Destroys(c)) =>
         /\ c \in Accepted /\ l = home[c] /\ state[c] = "kConnected"
         /\ c \notin connections /\ c \notin watched
    /\ Once(functors[l], Establishes(c))
    /\ Once(functors[l], Removes(c))
    /\ Once(functors[l], Destroys(c))

IInv == TypeOK /\ (loops = 0 => next = 0) /\ AssertionsHold /\ Stages /\ Queueing

-----------------------------------------------------------------------------
(* The queues of the loops *)

\* The functors are told apart by what they call and for which connection.
LEMMA FunctorsDiffer ==
  ASSUME NEW c \in Conns, NEW d \in Conns
  PROVE  /\ Establishes(c) \in Functor /\ Removes(c) \in Functor /\ Destroys(c) \in Functor
         /\ Establishes(c) # Removes(d) /\ Removes(c) # Destroys(d)
         /\ Establishes(c) # Destroys(d)
         /\ Establishes(c) = Establishes(d) => c = d
         /\ Removes(c) = Removes(d) => c = d
         /\ Destroys(c) = Destroys(d) => c = d
BY DEF Establishes, Removes, Destroys, Functor

\* The queues after loop l was given e, and after it took its first functor.
Put(q, l, e) == [q EXCEPT ![l] = Append(@, e)]
Taken(q, l) == [q EXCEPT ![l] = Tail(@)]

\* A functor is queued for loop l.
LEMMA QueuePut ==
  ASSUME NEW q \in Queues, NEW l \in Loops, NEW e \in Functor,
         NEW r, r = Put(q, l, e)
  PROVE  /\ r \in Queues
         /\ \A m \in Loops : \A op \in Functor :
              /\ In(r[m], op) <=> In(q[m], op) \/ (m = l /\ op = e)
              /\ Once(q[m], op) /\ (m # l \/ op # e \/ ~In(q[m], op)) => Once(r[m], op)
<1>1. q[l] \in Seq(Functor)
  BY DEF Queues
<1>2. ASSUME NEW op
      PROVE  /\ Append(q[l], e) \in Seq(Functor)
             /\ In(Append(q[l], e), op) <=> In(q[l], op) \/ e = op
             /\ Once(q[l], op) /\ (e # op \/ ~In(q[l], op)) => Once(Append(q[l], e), op)
  BY <1>1, QueuedLast
<1>3. /\ Append(q[l], e) \in Seq(Functor)
      /\ r[l] = Append(q[l], e) /\ \A m \in Loops : m # l => r[m] = q[m]
  BY <1>2 DEF Put, Queues
<1>4. r \in Queues
  BY <1>3 DEF Put, Queues
<1> QED
  BY <1>2, <1>3, <1>4

\* Loop l takes its first functor.
LEMMA QueueTaken ==
  ASSUME NEW q \in Queues, NEW l \in Loops, q[l] # << >>,
         NEW e \in Functor, Head(q[l]) = e,
         NEW r, r = Taken(q, l)
  PROVE  /\ r \in Queues /\ In(q[l], e)
         /\ \A m \in Loops : \A op \in Functor :
              /\ In(r[m], op) => In(q[m], op)
              /\ In(q[m], op) => In(r[m], op) \/ (m = l /\ op = e)
              /\ Once(q[m], op) => Once(r[m], op)
         /\ Once(q[l], e) => ~In(r[l], e)
<1>1. q[l] \in Seq(Functor)
  BY DEF Queues
<1>2. ASSUME NEW op
      PROVE  /\ Tail(q[l]) \in Seq(Functor) /\ In(q[l], e)
             /\ In(Tail(q[l]), op) => In(q[l], op)
             /\ In(q[l], op) => In(Tail(q[l]), op) \/ e = op
             /\ Once(q[l], op) => Once(Tail(q[l]), op)
             /\ Once(q[l], op) /\ e = op => ~In(Tail(q[l]), op)
  BY <1>1, TakenFirst
<1>3. /\ Tail(q[l]) \in Seq(Functor)
      /\ r[l] = Tail(q[l]) /\ \A m \in Loops : m # l => r[m] = q[m]
  BY <1>2 DEF Taken, Queues
<1>4. r \in Queues
  BY <1>3 DEF Taken, Queues
<1> QED
  BY <1>2, <1>3, <1>4

\* The types that the steps on connections use, spelt out.
LEMMA Types ==
  ASSUME IInv
  PROVE  /\ functors \in Queues /\ home \in [Conns -> Loops]
         /\ state \in [Conns -> {"kConnecting", "kConnected", "kDisconnected"}]
         /\ connections \subseteq Accepted /\ watched \subseteq Accepted
         /\ nextConnId \in Nat /\ clients \in Nat /\ MaxConns \in Nat /\ MaxThreads \in Nat
         /\ 1 <= nextConnId /\ nextConnId <= clients + 1 /\ clients <= MaxConns
         /\ \A c : c \in Conns <=> c \in Nat /\ 1 <= c /\ c <= MaxConns
         /\ \A c : c \in Accepted <=> c \in Nat /\ 1 <= c /\ c < nextConnId
         /\ Accepted \subseteq Conns
         /\ Base \in Loops /\ failed = "none"
         /\ held \in [Loops -> SUBSET Conns]
<1>1. /\ MaxConns \in Nat /\ MaxThreads \in Nat
      /\ clients \in 0..MaxConns /\ nextConnId \in 1..(clients + 1)
      /\ functors \in Queues /\ home \in [Conns -> Loops]
      /\ state \in [Conns -> {"kConnecting", "kConnected", "kDisconnected"}]
      /\ connections \subseteq Accepted /\ watched \subseteq Accepted
      /\ held \in [Loops -> SUBSET Conns] /\ failed = "none"
  BY BoundAssumption DEF IInv, TypeOK, AssertionsHold, BoundAssumption, Functor, Queues
<1>2. /\ nextConnId \in Nat /\ clients \in Nat
      /\ 1 <= nextConnId /\ nextConnId <= clients + 1 /\ clients <= MaxConns
  BY <1>1
<1>3. /\ \A c : c \in Conns <=> c \in Nat /\ 1 <= c /\ c <= MaxConns
      /\ \A c : c \in Accepted <=> c \in Nat /\ 1 <= c /\ c < nextConnId
      /\ Base \in Loops
  BY <1>1, <1>2 DEF Conns, Accepted, Base, Loops
<1>4. Accepted \subseteq Conns
  BY <1>1, <1>2, <1>3
<1> QED
  BY <1>1, <1>2, <1>3, <1>4

-----------------------------------------------------------------------------
(* start(), clients and rounds *)

\* start() and its threads.
LEMMA StartStep ==
  ASSUME IInv, Start
  PROVE  IInv'
<1>1. /\ UNCHANGED <<numThreads, clients, next, nextConnId, fd, home, connections, state,
                     watched, eof, functors, held, failed>>
      /\ \/ loops' = loops \/ (loops' = loops + 1 /\ loops < numThreads)
      /\ listening' \in BOOLEAN
      /\ \/ thread' = thread
         \/ \E i \in IoLoops, s \in {"made", "promised", "looping"} :
              thread' = [thread EXCEPT ![i] = s]
  BY DEF Start, MakeThread, SetPromise, GetLoop, EnterLoop, Listen, rest, made, IInv, TypeOK
<1>2. /\ numThreads \in 0..MaxThreads /\ MaxThreads \in Nat /\ loops \in 0..numThreads
      /\ next \in Nat /\ (loops > 0 => next < loops) /\ (loops = 0 => next = 0)
      /\ thread \in [IoLoops -> {"none", "made", "promised", "looping"}]
  BY BoundAssumption DEF IInv, TypeOK, BoundAssumption
<1>3. loops' \in 0..numThreads' /\ (loops' > 0 => next' < loops') /\ (loops' = 0 => next' = 0)
  BY <1>1, <1>2
<1>4. thread' \in [IoLoops -> {"none", "made", "promised", "looping"}]
  BY <1>1, <1>2
<1>5. TypeOK'
  BY <1>1, <1>3, <1>4 DEF IInv, TypeOK, Accepted
<1> QED
  BY <1>1, <1>3, <1>5 DEF IInv, AssertionsHold, Stages, Queueing, Accepted

\* A round ends, a client connects or closes.
LEMMA WorldStep ==
  ASSUME IInv, \/ \E l \in Loops : EndFunctors(l)
               \/ ClientConnects
               \/ \E c \in Conns : PeerCloses(c)
               \/ UNCHANGED vars
  PROVE  IInv'
<1>1. /\ UNCHANGED <<numThreads, thread, loops, listening, next, nextConnId, fd, home,
                     connections, state, watched, functors, failed>>
      /\ clients' = clients \/ (clients' = clients + 1 /\ clients < MaxConns)
      /\ eof' = eof \/ \E c \in Conns : eof' = eof \cup {c}
      /\ held' = held \/ \E l \in Loops : held' = [held EXCEPT ![l] = {}]
  BY DEF EndFunctors, ClientConnects, PeerCloses, vars, group, rest, made
<1>2. clients' \in 0..MaxConns /\ nextConnId' \in 1..(clients' + 1)
  BY <1>1, Types
<1>3. TypeOK'
  BY <1>1, <1>2 DEF IInv, TypeOK, Accepted
<1> QED
  BY <1>1, <1>3 DEF IInv, AssertionsHold, Stages, Queueing, Accepted

-----------------------------------------------------------------------------
(* New connections *)

\* getNextLoop() stays inside loops_.
LEMMA NextLoopIsLoop ==
  ASSUME IInv
  PROVE  /\ NextLoop \in Loops
         /\ loops = 0 => next = 0
         /\ loops > 0 => Advanced(next) \in Nat /\ Advanced(next) < loops
<1>1. /\ numThreads \in 0..MaxThreads /\ MaxThreads \in Nat /\ loops \in 0..numThreads
      /\ next \in Nat /\ (loops > 0 => next < loops) /\ (loops = 0 => next = 0)
  BY BoundAssumption DEF IInv, TypeOK, BoundAssumption
<1> QED
  BY <1>1 DEF NextLoop, Advanced, Loops, Base

\* A client is accepted.
LEMMA NewConnectionStep ==
  ASSUME IInv, NEW f \in Fds, NewConnection(f)
  PROVE  IInv'
<1> DEFINE c == nextConnId
           l == NextLoop
<1>1. /\ c <= clients /\ nextConnId' = c + 1
      /\ next' = IF loops = 0 THEN next ELSE Advanced(next)
      /\ fd' = [fd EXCEPT ![c] = f] /\ home' = [home EXCEPT ![c] = l]
      /\ connections' = connections \cup {c}
      /\ UNCHANGED <<numThreads, thread, loops, listening, clients, eof, held>>
      /\ \/ /\ l = Base /\ Establish(c) /\ UNCHANGED functors
         \/ /\ functors' = [functors EXCEPT ![l] = Append(@, Establishes(c))]
            /\ UNCHANGED <<state, watched, failed>>
  BY DEF NewConnection, Remember, group, Establishes
<1>2. /\ l \in Loops
      /\ loops = 0 => next = 0
      /\ loops > 0 => Advanced(next) \in Nat /\ Advanced(next) < loops
  BY NextLoopIsLoop
<1>3. /\ c \in Conns /\ c \notin Accepted
      /\ Accepted' = Accepted \cup {c}
      /\ nextConnId' \in 1..(clients' + 1)
  <2>1. /\ nextConnId \in Nat /\ 1 <= nextConnId /\ clients \in Nat /\ clients <= MaxConns
        /\ MaxConns \in Nat
    BY Types
  <2> QED
    BY <1>1, <2>1 DEF Conns, Accepted
<1> HIDE DEF c, l
<1>4. /\ c \notin connections /\ c \notin watched /\ state[c] = "kConnecting" /\ failed = "none"
      /\ state \in [Conns -> {"kConnecting", "kConnected", "kDisconnected"}]
      /\ functors \in Queues /\ home \in [Conns -> Loops]
      /\ Accepted \subseteq Conns /\ connections \subseteq Accepted /\ watched \subseteq Accepted
  BY <1>3, Types DEF IInv, Stages
<1>5. \A m \in Loops : /\ ~In(functors[m], Establishes(c)) /\ ~In(functors[m], Removes(c))
                       /\ ~In(functors[m], Destroys(c))
  BY <1>3 DEF IInv, Queueing
<1>h. /\ home' \in [Conns -> Loops] /\ home'[c] = l
      /\ \A d \in Conns : d # c => home'[d] = home[d]
      /\ fd' \in [Conns -> Fds \cup {NoFd}]
  BY <1>1, <1>2, <1>3, <1>4 DEF IInv, TypeOK
<1>n. next' \in Nat /\ (loops' > 0 => next' < loops') /\ (loops' = 0 => next' = 0)
  BY <1>1, <1>2 DEF IInv, TypeOK
<1>6. CASE l = Base /\ Establish(c) /\ UNCHANGED functors
  <2>1. /\ failed' = "none" /\ watched' = watched \cup {c}
        /\ state' = [state EXCEPT ![c] = "kConnected"]
    BY <1>4, <1>6 DEF Establish, Fail
  <2>2. /\ state' \in [Conns -> {"kConnecting", "kConnected", "kDisconnected"}]
        /\ state'[c] = "kConnected" /\ \A d \in Conns : d # c => state'[d] = state[d]
    BY <1>3, <1>4, <2>1
  <2>3. TypeOK'
    BY <1>1, <1>3, <1>6, <1>h, <1>n, <2>1, <2>2 DEF IInv, TypeOK
  <2>4. Stages'
    <3> SUFFICES ASSUME NEW d \in Conns
                 PROVE  (/\ d \notin Accepted => state[d] = "kConnecting"
                         /\ d \in Accepted /\ state[d] = "kConnecting" =>
                              /\ d \in connections /\ d \notin watched
                              /\ In(functors[home[d]], Establishes(d))
                         /\ d \in watched => state[d] = "kConnected" /\ d \in connections
                         /\ state[d] = "kConnected" /\ d \in connections /\ d \notin watched =>
                              In(functors[Base], Removes(d))
                         /\ state[d] = "kConnected" /\ d \notin connections =>
                              In(functors[home[d]], Destroys(d))
                         /\ state[d] = "kDisconnected" =>
                              d \notin connections /\ d \notin watched)'
      BY DEF Stages
    <3>1. CASE d = c
      BY <1>1, <1>3, <2>1, <2>2, <3>1
    <3>2. CASE d # c
      BY <1>1, <1>3, <1>6, <1>h, <2>1, <2>2, <3>2 DEF IInv, Stages
    <3> QED
      BY <3>1, <3>2
  <2>5. Queueing'
    <3> SUFFICES ASSUME NEW m \in Loops, NEW d \in Conns
                 PROVE  (/\ In(functors[m], Establishes(d)) =>
                              d \in Accepted /\ m = home[d] /\ state[d] = "kConnecting"
                         /\ In(functors[m], Removes(d)) =>
                              /\ d \in Accepted /\ m = Base /\ state[d] = "kConnected"
                              /\ d \in connections /\ d \notin watched
                         /\ In(functors[m], Destroys(d)) =>
                              /\ d \in Accepted /\ m = home[d] /\ state[d] = "kConnected"
                              /\ d \notin connections /\ d \notin watched
                         /\ Once(functors[m], Establishes(d))
                         /\ Once(functors[m], Removes(d))
                         /\ Once(functors[m], Destroys(d)))'
      BY DEF Queueing
    <3>1. CASE d = c
      BY <1>5, <1>6, <3>1 DEF IInv, Queueing
    <3>2. CASE d # c
      BY <1>1, <1>3, <1>6, <1>h, <2>1, <2>2, <3>2 DEF IInv, Queueing
    <3> QED
      BY <3>1, <3>2
  <2> QED
    BY <1>n, <2>1, <2>3, <2>4, <2>5 DEF IInv, AssertionsHold
<1>7. CASE /\ functors' = [functors EXCEPT ![l] = Append(@, Establishes(c))]
           /\ UNCHANGED <<state, watched, failed>>
  <2>1. Establishes(c) \in Functor
    BY <1>3, FunctorsDiffer
  <2>2. /\ functors' \in Queues
        /\ \A m \in Loops : \A op \in Functor :
             /\ In(functors'[m], op) <=> In(functors[m], op) \/ (m = l /\ op = Establishes(c))
             /\ Once(functors[m], op) /\ (m # l \/ op # Establishes(c) \/ ~In(functors[m], op))
                  => Once(functors'[m], op)
    <3>1. functors' = Put(functors, l, Establishes(c))
      BY <1>7 DEF Put
    <3> QED
      BY <1>2, <1>4, <2>1, <3>1, QueuePut
  <2>3. TypeOK'
    BY <1>1, <1>3, <1>7, <1>h, <1>n, <2>2 DEF IInv, TypeOK, Functor, Queues
  <2>4. \A m \in Loops : \A d \in Conns :
          /\ In(functors'[m], Establishes(d)) <=>
               In(functors[m], Establishes(d)) \/ (m = l /\ d = c)
          /\ In(functors'[m], Removes(d)) <=> In(functors[m], Removes(d))
          /\ In(functors'[m], Destroys(d)) <=> In(functors[m], Destroys(d))
          /\ Once(functors'[m], Establishes(d))
          /\ Once(functors'[m], Removes(d))
          /\ Once(functors'[m], Destroys(d))
    BY <1>3, <1>5, <2>2, FunctorsDiffer DEF IInv, Queueing
  <2>5. Stages'
    BY <1>1, <1>2, <1>3, <1>4, <1>7, <1>h, <2>4, Types DEF IInv, Stages
  <2>6. Queueing'
    BY <1>1, <1>3, <1>4, <1>7, <1>h, <2>4 DEF IInv, Queueing
  <2> QED
    BY <1>4, <1>7, <1>n, <2>3, <2>5, <2>6 DEF IInv, AssertionsHold
<1> QED
  BY <1>1, <1>6, <1>7

-----------------------------------------------------------------------------
(* Functors and closes *)

\* Loop l takes a functor; the others stay as they were.
LEMMA TakesFirst ==
  ASSUME IInv, NEW l \in Loops, NEW c \in Conns,
         NEW op \in {"connectEstablished", "removeConnection", "connectDestroyed"},
         Take(l, op, c), NEW e, e = <<op, c>>
  PROVE  /\ e \in Functor /\ In(functors[l], e)
         /\ Rest(l) = Taken(functors, l)
         /\ Rest(l) \in Queues
         /\ \A m \in Loops : \A g \in Functor :
              /\ In(Rest(l)[m], g) => In(functors[m], g)
              /\ In(functors[m], g) => In(Rest(l)[m], g) \/ (m = l /\ g = e)
              /\ Once(functors[m], g) => Once(Rest(l)[m], g)
         /\ Once(functors[l], e) => ~In(Rest(l)[l], e)
         /\ held' \in [Loops -> SUBSET Conns]
         /\ UNCHANGED <<numThreads, thread, loops, listening, clients, next, nextConnId, fd,
                        home, eof>>
<1>1. /\ functors[l] # << >> /\ Head(functors[l]) = e /\ e \in Functor
      /\ held' = [held EXCEPT ![l] = @ \cup {c}]
      /\ UNCHANGED <<numThreads, thread, loops, listening, clients, next, nextConnId, fd,
                     home, eof>>
  BY DEF Take, group, made, Functor
<1>2. Rest(l) = Taken(functors, l)
  BY DEF Rest, Taken
<1>3. functors \in Queues /\ held \in [Loops -> SUBSET Conns]
  BY Types
<1>4. held' \in [Loops -> SUBSET Conns]
  BY <1>1, <1>3
<1>5. PICK r : r = Taken(functors, l)
  OBVIOUS
<1>6. /\ r \in Queues /\ In(functors[l], e)
      /\ \A m \in Loops : \A g \in Functor :
           /\ In(r[m], g) => In(functors[m], g)
           /\ In(functors[m], g) => In(r[m], g) \/ (m = l /\ g = e)
           /\ Once(functors[m], g) => Once(r[m], g)
      /\ Once(functors[l], e) => ~In(r[l], e)
  BY <1>1, <1>3, <1>5, QueueTaken
<1> QED
  BY <1>1, <1>2, <1>4, <1>5, <1>6

\* connectEstablished() as a functor.
LEMMA ConnectEstablishedStep ==
  ASSUME IInv, NEW l \in Loops, NEW c \in Conns, ConnectEstablished(l, c)
  PROVE  IInv'
<1>1. /\ Take(l, "connectEstablished", c) /\ functors' = Rest(l)
      /\ Establish(c) /\ connections' = connections
  BY DEF ConnectEstablished
<1>2. /\ In(functors[l], Establishes(c))
      /\ functors' \in Queues
      /\ \A m \in Loops : \A g \in Functor :
           /\ In(functors'[m], g) => In(functors[m], g)
           /\ In(functors[m], g) => In(functors'[m], g) \/ (m = l /\ g = Establishes(c))
           /\ Once(functors[m], g) => Once(functors'[m], g)
      /\ Once(functors[l], Establishes(c)) => ~In(functors'[l], Establishes(c))
      /\ held' \in [Loops -> SUBSET Conns]
      /\ UNCHANGED <<numThreads, thread, loops, listening, clients, next, nextConnId, fd,
                     home, eof>>
  BY <1>1, TakesFirst DEF Establishes
<1>3. /\ c \in Accepted /\ l = home[c] /\ state[c] = "kConnecting"
      /\ Once(functors[l], Establishes(c)) /\ c \in connections /\ c \notin watched
  BY <1>2 DEF IInv, Queueing, Stages
<1>4. /\ failed' = failed /\ watched' = watched \cup {c}
      /\ state' \in [Conns -> {"kConnecting", "kConnected", "kDisconnected"}]
      /\ state'[c] = "kConnected" /\ \A d \in Conns : d # c => state'[d] = state[d]
  BY <1>1, <1>3, Types DEF Establish
<1>5. /\ Accepted' = Accepted /\ connections' = connections /\ c \in Accepted
  BY <1>1, <1>2, <1>3 DEF Accepted
<1>6. TypeOK' /\ (loops' = 0 => next' = 0) /\ AssertionsHold'
  BY <1>1, <1>2, <1>4, <1>5 DEF IInv, TypeOK, AssertionsHold, Functor, Queues
<1>7. \A m \in Loops : \A d \in Conns :
        /\ In(functors'[m], Establishes(d)) <=>
             In(functors[m], Establishes(d)) /\ ~(m = l /\ d = c)
        /\ In(functors'[m], Removes(d)) <=> In(functors[m], Removes(d))
        /\ In(functors'[m], Destroys(d)) <=> In(functors[m], Destroys(d))
        /\ Once(functors'[m], Establishes(d))
        /\ Once(functors'[m], Removes(d))
        /\ Once(functors'[m], Destroys(d))
  BY <1>2, <1>3, FunctorsDiffer DEF IInv, Queueing
<1>8. Stages'
  BY <1>2, <1>3, <1>4, <1>5, <1>7, Types DEF IInv, Stages
<1>9. Queueing'
  BY <1>2, <1>3, <1>4, <1>5, <1>7 DEF IInv, Queueing
<1> QED
  BY <1>6, <1>8, <1>9 DEF IInv

\* connectDestroyed().
LEMMA ConnectDestroyedStep ==
  ASSUME IInv, NEW l \in Loops, NEW c \in Conns, ConnectDestroyed(l, c)
  PROVE  IInv'
<1>1. /\ Take(l, "connectDestroyed", c) /\ functors' = Rest(l)
      /\ state' = [state EXCEPT ![c] = "kDisconnected"]
      /\ watched' = watched \ {c} /\ connections' = connections
      /\ state[c] = "kConnected" => failed' = failed
  BY DEF ConnectDestroyed, DisableAllEvents
<1>2. /\ In(functors[l], Destroys(c))
      /\ functors' \in Queues
      /\ \A m \in Loops : \A g \in Functor :
           /\ In(functors'[m], g) => In(functors[m], g)
           /\ In(functors[m], g) => In(functors'[m], g) \/ (m = l /\ g = Destroys(c))
           /\ Once(functors[m], g) => Once(functors'[m], g)
      /\ Once(functors[l], Destroys(c)) => ~In(functors'[l], Destroys(c))
      /\ held' \in [Loops -> SUBSET Conns]
      /\ UNCHANGED <<numThreads, thread, loops, listening, clients, next, nextConnId, fd,
                     home, eof>>
  BY <1>1, TakesFirst DEF Destroys
<1>3. /\ c \in Accepted /\ l = home[c] /\ state[c] = "kConnected"
      /\ Once(functors[l], Destroys(c)) /\ c \notin connections /\ c \notin watched
  BY <1>2 DEF IInv, Queueing, Stages
<1>4. /\ failed' = failed
      /\ state' \in [Conns -> {"kConnecting", "kConnected", "kDisconnected"}]
      /\ state'[c] = "kDisconnected" /\ \A d \in Conns : d # c => state'[d] = state[d]
  BY <1>1, <1>3, Types
<1>5. /\ Accepted' = Accepted /\ connections' = connections /\ c \in Accepted
  BY <1>1, <1>2, <1>3 DEF Accepted
<1>6. TypeOK' /\ (loops' = 0 => next' = 0) /\ AssertionsHold'
  BY <1>1, <1>2, <1>4, <1>5 DEF IInv, TypeOK, AssertionsHold, Functor, Queues
<1>7. \A m \in Loops : \A d \in Conns :
        /\ In(functors'[m], Establishes(d)) <=> In(functors[m], Establishes(d))
        /\ In(functors'[m], Removes(d)) <=> In(functors[m], Removes(d))
        /\ In(functors'[m], Destroys(d)) <=>
             In(functors[m], Destroys(d)) /\ ~(m = l /\ d = c)
        /\ Once(functors'[m], Establishes(d))
        /\ Once(functors'[m], Removes(d))
        /\ Once(functors'[m], Destroys(d))
  BY <1>2, <1>3, FunctorsDiffer DEF IInv, Queueing
<1>8. Stages'
  BY <1>1, <1>2, <1>3, <1>4, <1>5, <1>7, Types DEF IInv, Stages
<1>9. Queueing'
  BY <1>1, <1>2, <1>3, <1>4, <1>5, <1>7 DEF IInv, Queueing
<1> QED
  BY <1>6, <1>8, <1>9 DEF IInv

\* removeConnectionInLoop(), the connection's close or its functor before it.
LEMMA RemoveStep ==
  ASSUME IInv, NEW c \in Conns, c \in connections, state[c] = "kConnected",
         NEW q \in Queues, Remove(c, q),
         \A m \in Loops : \A d \in Conns :
           /\ In(q[m], Establishes(d)) <=> In(functors[m], Establishes(d))
           /\ In(q[m], Removes(d)) <=> In(functors[m], Removes(d)) /\ ~(m = Base /\ d = c)
           /\ In(q[m], Destroys(d)) <=> In(functors[m], Destroys(d))
           /\ Once(q[m], Establishes(d)) /\ Once(q[m], Removes(d)) /\ Once(q[m], Destroys(d)),
         watched' = watched \ {c}, held' \in [Loops -> SUBSET Conns],
         UNCHANGED <<numThreads, thread, loops, listening, clients, next, nextConnId, fd, home,
                     eof, state>>
  PROVE  IInv'
<1>1. /\ failed' = failed /\ connections' = connections \ {c}
      /\ functors' = Put(q, home[c], Destroys(c))
  BY DEF Remove, Put, Destroys
<1>2. /\ c \in Accepted /\ home[c] \in Loops /\ Destroys(c) \in Functor
      /\ Accepted' = Accepted
  BY Types, FunctorsDiffer DEF Accepted
<1>3. /\ functors' \in Queues
      /\ \A m \in Loops : \A op \in Functor :
           /\ In(functors'[m], op) <=> In(q[m], op) \/ (m = home[c] /\ op = Destroys(c))
           /\ Once(q[m], op) /\ (m # home[c] \/ op # Destroys(c) \/ ~In(q[m], op))
                => Once(functors'[m], op)
  BY <1>1, <1>2, QueuePut
<1>4. \A m \in Loops : ~In(functors[m], Destroys(c)) /\ ~In(functors[m], Establishes(c))
  BY DEF IInv, Queueing
<1>5. TypeOK' /\ (loops' = 0 => next' = 0) /\ AssertionsHold'
  BY <1>1, <1>2, <1>3 DEF IInv, TypeOK, AssertionsHold, Functor, Queues
<1>6. \A m \in Loops : \A d \in Conns :
        /\ In(functors'[m], Establishes(d)) <=> In(functors[m], Establishes(d))
        /\ In(functors'[m], Removes(d)) <=>
             In(functors[m], Removes(d)) /\ ~(m = Base /\ d = c)
        /\ In(functors'[m], Destroys(d)) <=>
             In(functors[m], Destroys(d)) \/ (m = home[c] /\ d = c)
        /\ Once(functors'[m], Establishes(d))
        /\ Once(functors'[m], Removes(d))
        /\ Once(functors'[m], Destroys(d))
  BY <1>3, <1>4, FunctorsDiffer
<1>7. Stages'
  BY <1>1, <1>2, <1>4, <1>6, Types DEF IInv, Stages
<1>8. Queueing'
  BY <1>1, <1>2, <1>4, <1>6, Types DEF IInv, Queueing
<1> QED
  BY <1>5, <1>7, <1>8 DEF IInv

\* handleClose().
LEMMA HandleCloseStep ==
  ASSUME IInv, NEW l \in Loops, NEW c \in Conns, HandleClose(l, c)
  PROVE  IInv'
<1>1. /\ c \in watched /\ home[c] = l /\ watched' = watched \ {c}
      /\ IF l = Base
         THEN Remove(c, functors)
         ELSE /\ functors' = Put(functors, Base, Removes(c))
              /\ UNCHANGED <<connections, failed>>
      /\ UNCHANGED <<numThreads, thread, loops, listening, clients, next, nextConnId, fd, home,
                     state, eof, held>>
  BY DEF HandleClose, DisableAllEvents, group, made, Put, Removes
<1>2. /\ c \in Accepted /\ c \in connections /\ state[c] = "kConnected"
      /\ \A m \in Loops : /\ ~In(functors[m], Establishes(c)) /\ ~In(functors[m], Removes(c))
                          /\ ~In(functors[m], Destroys(c))
  BY <1>1, Types DEF IInv, Stages, Queueing
<1>3. functors \in Queues /\ held' \in [Loops -> SUBSET Conns] /\ Base \in Loops
  BY <1>1, Types
<1>4. CASE l = Base
  <2>1. \A m \in Loops : \A d \in Conns :
          /\ In(functors[m], Removes(d)) <=> In(functors[m], Removes(d)) /\ ~(m = Base /\ d = c)
          /\ Once(functors[m], Establishes(d)) /\ Once(functors[m], Removes(d))
          /\ Once(functors[m], Destroys(d))
    BY <1>2 DEF IInv, Queueing
  <2>2. Remove(c, functors)
    BY <1>1, <1>4
  <2> QED
    BY <1>1, <1>2, <1>3, <2>1, <2>2, RemoveStep
<1>5. CASE l # Base
  <2>1. functors' = Put(functors, Base, Removes(c)) /\ Removes(c) \in Functor
    BY <1>1, <1>5, FunctorsDiffer
  <2>2. /\ functors' \in Queues
        /\ \A m \in Loops : \A op \in Functor :
             /\ In(functors'[m], op) <=> In(functors[m], op) \/ (m = Base /\ op = Removes(c))
             /\ Once(functors[m], op) /\ (m # Base \/ op # Removes(c) \/ ~In(functors[m], op))
                  => Once(functors'[m], op)
    BY <1>3, <2>1, QueuePut
  <2>3. Accepted' = Accepted
    BY <1>1 DEF Accepted
  <2>4. TypeOK' /\ (loops' = 0 => next' = 0) /\ AssertionsHold'
    BY <1>1, <1>5, <2>2, <2>3 DEF IInv, TypeOK, AssertionsHold, Functor, Queues
  <2>5. \A m \in Loops : \A d \in Conns :
          /\ In(functors'[m], Establishes(d)) <=> In(functors[m], Establishes(d))
          /\ In(functors'[m], Removes(d)) <=>
               In(functors[m], Removes(d)) \/ (m = Base /\ d = c)
          /\ In(functors'[m], Destroys(d)) <=> In(functors[m], Destroys(d))
          /\ Once(functors'[m], Establishes(d))
          /\ Once(functors'[m], Removes(d))
          /\ Once(functors'[m], Destroys(d))
    BY <1>2, <1>3, <2>2, FunctorsDiffer DEF IInv, Queueing
  <2>6. Stages'
    BY <1>1, <1>2, <1>5, <2>3, <2>5, Types DEF IInv, Stages
  <2>7. Queueing'
    BY <1>1, <1>2, <1>5, <2>3, <2>5, Types DEF IInv, Queueing
  <2> QED
    BY <2>4, <2>6, <2>7 DEF IInv
<1> QED
  BY <1>4, <1>5

\* removeConnectionInLoop() as a functor.
LEMMA RemoveConnectionInLoopStep ==
  ASSUME IInv, NEW c \in Conns, RemoveConnectionInLoop(c)
  PROVE  IInv'
<1>1. /\ Take(Base, "removeConnection", c) /\ Remove(c, Rest(Base))
      /\ UNCHANGED <<state, watched>>
  BY DEF RemoveConnectionInLoop
<1>2. Base \in Loops
  BY Types
<1>3. /\ In(functors[Base], Removes(c))
      /\ Rest(Base) \in Queues
      /\ \A m \in Loops : \A g \in Functor :
           /\ In(Rest(Base)[m], g) => In(functors[m], g)
           /\ In(functors[m], g) => In(Rest(Base)[m], g) \/ (m = Base /\ g = Removes(c))
           /\ Once(functors[m], g) => Once(Rest(Base)[m], g)
      /\ Once(functors[Base], Removes(c)) => ~In(Rest(Base)[Base], Removes(c))
      /\ held' \in [Loops -> SUBSET Conns]
      /\ UNCHANGED <<numThreads, thread, loops, listening, clients, next, nextConnId, fd,
                     home, eof>>
  BY <1>1, <1>2, TakesFirst DEF Removes
<1>4. /\ c \in connections /\ state[c] = "kConnected" /\ c \notin watched
      /\ Once(functors[Base], Removes(c))
  BY <1>2, <1>3 DEF IInv, Queueing
<1>5. \A m \in Loops : \A d \in Conns :
        /\ In(Rest(Base)[m], Establishes(d)) <=> In(functors[m], Establishes(d))
        /\ In(Rest(Base)[m], Removes(d)) <=>
             In(functors[m], Removes(d)) /\ ~(m = Base /\ d = c)
        /\ In(Rest(Base)[m], Destroys(d)) <=> In(functors[m], Destroys(d))
        /\ Once(Rest(Base)[m], Establishes(d)) /\ Once(Rest(Base)[m], Removes(d))
        /\ Once(Rest(Base)[m], Destroys(d))
  BY <1>3, <1>4, FunctorsDiffer DEF IInv, Queueing
<1>6. watched' = watched \ {c}
  BY <1>1, <1>4
<1> QED
  BY <1>1, <1>3, <1>4, <1>5, <1>6, RemoveStep

-----------------------------------------------------------------------------
(* Theorems *)

\* Every step keeps the invariant.
LEMMA InvariantStep ==
  IInv /\ [Next]_vars => IInv'
<1> SUFFICES ASSUME IInv, [Next]_vars PROVE IInv'
  OBVIOUS
<1>1. CASE Start
  BY <1>1, StartStep
<1>2. CASE Accept
  BY <1>2, NewConnectionStep DEF Accept
<1>3. ASSUME NEW l \in Loops, LoopStep(l) PROVE IInv'
  BY <1>3, WorldStep, ConnectEstablishedStep, ConnectDestroyedStep, HandleCloseStep,
     RemoveConnectionInLoopStep DEF LoopStep
<1>4. CASE ClientConnects \/ (\E c \in Conns : PeerCloses(c)) \/ UNCHANGED vars
  BY <1>4, WorldStep
<1> QED
  BY <1>1, <1>2, <1>3, <1>4 DEF Next

\* A server that has not been started satisfies the invariant.
LEMMA InvariantInit ==
  Init => IInv
<1> SUFFICES ASSUME Init PROVE IInv
  OBVIOUS
<1>1. /\ MaxThreads \in Nat /\ MaxConns \in Nat /\ Base \in Loops
      /\ Accepted = {}
  BY BoundAssumption DEF Init, BoundAssumption, Base, Loops, Accepted
<1>2. \A l \in Loops : \A op : ~In(functors[l], op) /\ Once(functors[l], op)
  BY DEF Init, In, Once
<1>3. TypeOK
  <2>1. functors \in Queues
    <3>1. << >> \in Seq(Functor)
      OBVIOUS
    <3> QED
      BY <3>1 DEF Init, Queues
  <2>2. /\ numThreads \in 0..MaxThreads /\ loops \in 0..numThreads
        /\ clients \in 0..MaxConns /\ nextConnId \in 1..(clients + 1)
        /\ next \in Nat /\ (loops > 0 => next < loops)
    BY <1>1 DEF Init
  <2>3. /\ thread \in [IoLoops -> {"none", "made", "promised", "looping"}]
        /\ fd \in [Conns -> Fds \cup {NoFd}] /\ home \in [Conns -> Loops]
        /\ state \in [Conns -> {"kConnecting", "kConnected", "kDisconnected"}]
        /\ held \in [Loops -> SUBSET Conns]
    BY <1>1 DEF Init
  <2> QED
    BY <2>1, <2>2, <2>3 DEF Init, TypeOK, Functor, Queues
<1>4. Stages
  BY <1>1 DEF Init, Stages
<1>5. Queueing
  BY <1>2 DEF Queueing
<1> QED
  BY <1>3, <1>4, <1>5 DEF Init, IInv, AssertionsHold

\* The invariant holds in every state of every behaviour.
THEOREM Invariance == Spec => []IInv
<1> QED
  BY InvariantInit, InvariantStep, PTL DEF Spec

\* TcpServer's variables keep their types; next_ is an index of loops_ whenever
\* getNextLoop() uses it.
THEOREM TypeCorrect == Spec => []TypeOK
<1>1. IInv => TypeOK
  BY DEF IInv
<1> QED
  BY <1>1, Invariance, PTL

\* The assertions of connectEstablished(), removeConnectionInLoop() and
\* connectDestroyed() never fail.
THEOREM NoAssertionFails == Spec => []AssertionsHold
<1>1. IInv => AssertionsHold
  BY DEF IInv
<1> QED
  BY <1>1, Invariance, PTL

\* The last reference to a connection goes after connectDestroyed().
THEOREM DownBeforeGone == Spec => []TakenDownFirst
<1>1. IInv => TakenDownFirst
  <2> SUFFICES ASSUME IInv, NEW c \in Accepted, ~Alive(c)
               PROVE  state[c] = "kDisconnected" /\ c \notin watched
    BY DEF TakenDownFirst
  <2>1. c \in Conns /\ home[c] \in Loops
    BY Types
  <2>2. c \notin connections /\ \A l \in Loops : ~In(functors[l], Destroys(c))
    BY <2>1 DEF Alive, In, Destroys, Range
  <2> QED
    BY <2>1, <2>2, Types DEF IInv, Stages
<1> QED
  BY <1>1, Invariance, PTL

=============================================================================
