---------------------------- MODULE EPollerProofs ----------------------------
(***************************************************************************)
(* Proofs about EPoller: the channels and the kernel's interest list agree, *)
(* for any number of channels and descriptors.                             *)
(***************************************************************************)
EXTENDS EPoller, SequenceTheorems, TLAPS

-----------------------------------------------------------------------------
(* The inductive invariant *)

\* An owner in one of these has the descriptor its channel stands for.
InCharge == {"connecting", "connected", "closed", "leaving", "down", "gone"}

\* An owner in one of these may have a handler of its channel running or reported.
Handled == {"connecting", "removed", "connected", "closed", "leaving"}

\* Who owns what: a descriptor that is open belongs to one owner, and how far that
\* owner is says what the channel's index_ and events_ can be.
Objects ==
  /\ \A c \in Channels : role[c] # "none" => fd[c] \in Fds
  /\ \A c \in Channels : role[c] \in InCharge => fd[c] \in open
  /\ \A c, d \in Channels :
       role[c] \in InCharge /\ role[d] \in InCharge /\ fd[c] = fd[d] => c = d
  /\ \A c \in Channels : index[c] = "kAdded" => role[c] \in InCharge \ {"gone"}
  /\ \A c \in Channels :
       role[c] = "connecting" => index[c] = "kAdded" /\ events[c] # {}
  /\ \A c \in Channels : role[c] = "connected" => "read" \in events[c]
  /\ \A c \in Channels :
       role[c] \in {"connected", "closed", "leaving"} =>
         (index[c] = "kAdded" <=> events[c] # {})

\* The interest list is that of the channels that are kAdded.
Interest ==
  /\ \A c \in Channels : \A f \in Fds :
       interest[f].channel = c <=> fd[c] = f /\ index[c] = "kAdded"
  /\ \A f \in Fds :
       interest[f].channel # NoChannel => interest[f].events = events[interest[f].channel]
  /\ \A f \in Fds : interest[f].channel = NoChannel => interest[f].events = {}
  /\ ~failed

\* Channels are reported and handled by one part of loop(), and taken down by another.
Dispatching ==
  /\ \A c \in active : phase = "dispatch" /\ role[c] \in Handled
  /\ current # NoChannel => \/ phase = "dispatch" /\ role[current] \in Handled
                            \/ phase = "functors" /\ role[current] = "down"
  /\ \A c \in Channels : role[c] = "down" => current = c /\ phase = "functors"

\* A functor that is queued finds its owner waiting for it, and comes once.
Queueing ==
  /\ left <= Len(functors)
  /\ \A i \in DOMAIN functors :
       role[functors[i][2]] = IF functors[i][1] = "resetChannel" THEN "removed" ELSE "leaving"
  /\ \A i, j \in DOMAIN functors : functors[i] = functors[j] => i = j

IInv == TypeOK /\ Objects /\ Interest /\ Dispatching /\ Queueing

-----------------------------------------------------------------------------
(* The interest list *)

\* A descriptor for which no channel is kAdded is not registered.
LEMMA NotRegistered ==
  ASSUME TypeOK, Interest, NEW f \in Fds,
         \A c \in Channels : ~(fd[c] = f /\ index[c] = "kAdded")
  PROVE  interest[f] = Nothing
<1>1. interest[f] \in [channel : Channels \cup {NoChannel}, events : SUBSET Event]
  BY DEF TypeOK
<1>2. interest[f].channel = NoChannel
  BY <1>1 DEF Interest
<1>3. interest[f].events = {}
  BY <1>2 DEF Interest
<1> QED
  BY <1>1, <1>2, <1>3 DEF Nothing

\* updateChannel() of a channel that is not kAdded: EPOLL_CTL_ADD.
LEMMA UpdatedAdds ==
  ASSUME TypeOK, NEW c \in Channels, NEW f \in Fds, NEW ev \in SUBSET Event,
         index[c] # "kAdded", interest[f] = Nothing, Registers(Updated(Registered, c, f, ev))
  PROVE  /\ index' = [index EXCEPT ![c] = "kAdded"]
         /\ interest' = [interest EXCEPT ![f] = [channel |-> c, events |-> ev]]
         /\ failed' = failed
<1> DEFINE p == Registered
           q == [p EXCEPT !.index[c] = "kAdded"]
           r == Add(q, c, f, ev)
<1>1. p.index = index /\ p.interest = interest /\ p.failed = failed
  BY DEF Registered
<1>2. /\ q.index = [index EXCEPT ![c] = "kAdded"] /\ q.interest = interest
      /\ q.failed = failed
  BY DEF Registered
<1>3. Updated(p, c, f, ev) = r
  BY <1>1 DEF Updated
<1>4. r = [q EXCEPT !.interest[f] = [channel |-> c, events |-> ev]]
  BY <1>2 DEF Add
<1>5. /\ r.index = q.index /\ r.failed = q.failed
      /\ r.interest = [interest EXCEPT ![f] = [channel |-> c, events |-> ev]]
  BY <1>4 DEF Registered
<1> HIDE DEF r, q
<1> QED
  BY <1>2, <1>3, <1>5 DEF Registers

\* ... of one that is kAdded and has no events any more: EPOLL_CTL_DEL.
LEMMA UpdatedDeletes ==
  ASSUME TypeOK, NEW c \in Channels, NEW f \in Fds, NEW ev \in SUBSET Event,
         index[c] = "kAdded", ev = {}, Registers(Updated(Registered, c, f, ev))
  PROVE  /\ index' = [index EXCEPT ![c] = "kDeleted"]
         /\ interest' = [interest EXCEPT ![f] = Nothing]
         /\ failed' = failed
<1> DEFINE p == Registered
           r == Del([p EXCEPT !.index[c] = "kDeleted"], f)
<1>1. p.index[c] = "kAdded"
  BY DEF Registered
<1>2. Updated(p, c, f, ev) = r
  BY <1>1 DEF Updated
<1>3. /\ r.index = [index EXCEPT ![c] = "kDeleted"] /\ r.failed = failed
      /\ r.interest = [interest EXCEPT ![f] = Nothing]
  BY DEF Registered, Del
<1> HIDE DEF r
<1> QED
  BY <1>2, <1>3 DEF Registers

\* ... and of one that is kAdded and has events: EPOLL_CTL_MOD.
LEMMA UpdatedModifies ==
  ASSUME TypeOK, NEW c \in Channels, NEW f \in Fds, NEW ev \in SUBSET Event,
         index[c] = "kAdded", ev # {}, interest[f] # Nothing,
         Registers(Updated(Registered, c, f, ev))
  PROVE  /\ index' = index
         /\ interest' = [interest EXCEPT ![f] = [channel |-> c, events |-> ev]]
         /\ failed' = failed
<1> DEFINE p == Registered
           r == Mod(p, c, f, ev)
<1>1. p.index[c] = "kAdded" /\ p.interest[f] # Nothing
  BY DEF Registered
<1>2. Updated(p, c, f, ev) = r
  BY <1>1 DEF Updated
<1>3. /\ r.index = index /\ r.failed = failed
      /\ r.interest = [interest EXCEPT ![f] = [channel |-> c, events |-> ev]]
  BY <1>1 DEF Registered, Mod
<1> HIDE DEF r
<1> QED
  BY <1>2, <1>3 DEF Registers

\* removeChannel(): what was registered is not, and the channel is as good as new.
LEMMA RemovedDeletes ==
  ASSUME TypeOK, Interest, NEW c \in Channels, fd[c] \in Fds,
         Registers(Removed(Registered, c, fd[c]))
  PROVE  /\ index' = [index EXCEPT ![c] = "kNew"]
         /\ interest' = IF index[c] = "kAdded" THEN [interest EXCEPT ![fd[c]] = Nothing]
                                               ELSE interest
         /\ failed' = failed
<1> DEFINE p == Registered
           q == [p EXCEPT !.index[c] = "kNew"]
<1>1. p.index = index /\ p.interest = interest /\ p.failed = failed
  BY DEF Registered
<1>2. /\ q.index = [index EXCEPT ![c] = "kNew"] /\ q.interest = interest
      /\ q.failed = failed
  BY DEF Registered
<1>3. /\ Del(q, fd[c]).index = [index EXCEPT ![c] = "kNew"] /\ Del(q, fd[c]).failed = failed
      /\ Del(q, fd[c]).interest = [interest EXCEPT ![fd[c]] = Nothing]
  BY DEF Registered, Del
<1>4. Removed(p, c, fd[c]) = IF index[c] = "kAdded" THEN Del(q, fd[c]) ELSE q
  BY <1>1 DEF Removed
<1> HIDE DEF q
<1> QED
  BY <1>2, <1>3, <1>4 DEF Registers

\* disableAllEvents() and removeChannel(), as removeAndResetChannel() calls them.
LEMMA RemovedAndResetDeletes ==
  ASSUME TypeOK, NEW c \in Channels, fd[c] \in Fds, index[c] = "kAdded"
  PROVE  RemovedAndReset(c) =
           [index |-> [index EXCEPT ![c] = "kNew"],
            interest |-> [interest EXCEPT ![fd[c]] = Nothing], failed |-> failed]
<1> DEFINE p == Registered
           f == fd[c]
           q == [index |-> [index EXCEPT ![c] = "kDeleted"],
                 interest |-> [interest EXCEPT ![f] = Nothing], failed |-> failed]
<1>1. p.index[c] = "kAdded"
  BY DEF Registered
<1>2. Updated(p, c, f, {}) = q
  <2>1. Updated(p, c, f, {}) = Del([p EXCEPT !.index[c] = "kDeleted"], f)
    BY <1>1 DEF Updated
  <2> QED
    BY <2>1 DEF Del, Registered
<1>3. q.index[c] = "kDeleted"
  BY DEF TypeOK
<1>4. Removed(q, c, f) = [q EXCEPT !.index[c] = "kNew"]
  BY <1>3 DEF Removed
<1>5. [q EXCEPT !.index[c] = "kNew"] =
        [index |-> [index EXCEPT ![c] = "kNew"],
         interest |-> [interest EXCEPT ![f] = Nothing], failed |-> failed]
  BY DEF TypeOK
<1> QED
  BY <1>2, <1>4, <1>5 DEF RemovedAndReset

\* Channel::update() of a channel whose owner has its descriptor: no epoll_ctl()
\* fails, and the interest list goes on saying what the channels say.
LEMMA UpdateKeepsInterest ==
  ASSUME TypeOK, Objects, Interest, NEW c \in Channels, role[c] \in InCharge,
         NEW ev \in SUBSET Event, Update(c, ev), UNCHANGED fd
  PROVE  /\ Interest' /\ failed' = failed
         /\ events' = [events EXCEPT ![c] = ev]
         /\ index' \in [Channels -> {"kNew", "kAdded", "kDeleted"}]
         /\ interest' \in [Fds -> [channel : Channels \cup {NoChannel}, events : SUBSET Event]]
         /\ \A d \in Channels \ {c} : index'[d] = index[d]
         /\ index'[c] = IF index[c] = "kAdded" /\ ev = {} THEN "kDeleted" ELSE "kAdded"
<1> DEFINE f == fd[c]
<1>1. /\ f \in Fds /\ fd \in [Channels -> Fds \cup {NoFd}]
      /\ index \in [Channels -> {"kNew", "kAdded", "kDeleted"}]
      /\ interest \in [Fds -> [channel : Channels \cup {NoChannel}, events : SUBSET Event]]
      /\ events \in [Channels -> SUBSET Event]
      /\ NoChannel \notin Channels
  BY ChannelAssumption DEF TypeOK, Objects, InCharge, ChannelAssumption
<1>2. /\ Registers(Updated(Registered, c, f, ev))
      /\ events' = [events EXCEPT ![c] = ev]
  BY DEF Update
<1>3. \A d \in Channels : fd[d] = f /\ index[d] = "kAdded" => d = c
  BY DEF Objects
<1>i. /\ \A d \in Channels : \A g \in Fds :
           interest[g].channel = d <=> fd[d] = g /\ index[d] = "kAdded"
      /\ \A g \in Fds :
           interest[g].channel # NoChannel => interest[g].events = events[interest[g].channel]
      /\ \A g \in Fds : interest[g].channel = NoChannel => interest[g].events = {}
      /\ ~failed
  BY DEF Interest
<1>4. CASE index[c] # "kAdded" \/ ev # {}
  <2>1. /\ index' = [index EXCEPT ![c] = "kAdded"]
        /\ interest' = [interest EXCEPT ![f] = [channel |-> c, events |-> ev]]
        /\ failed' = failed
    <3>1. CASE index[c] # "kAdded"
      <4>1. interest[f] = Nothing
        BY <1>1, <1>3, <3>1, NotRegistered
      <4> QED
        BY <1>1, <1>2, <3>1, <4>1, UpdatedAdds
    <3>2. CASE index[c] = "kAdded"
      <4>1. interest[f] # Nothing
        BY <1>1, <1>i, <3>2 DEF Nothing
      <4>2. index' = index /\ failed' = failed
            /\ interest' = [interest EXCEPT ![f] = [channel |-> c, events |-> ev]]
        BY <1>1, <1>2, <1>4, <3>2, <4>1, UpdatedModifies
      <4> QED
        BY <1>1, <3>2, <4>2
    <3> QED
      BY <3>1, <3>2
  <2>2. /\ index'[c] = "kAdded" /\ \A d \in Channels \ {c} : index'[d] = index[d]
        /\ index' \in [Channels -> {"kNew", "kAdded", "kDeleted"}]
    BY <1>1, <2>1
  <2>3. /\ interest'[f] = [channel |-> c, events |-> ev]
        /\ \A g \in Fds \ {f} : interest'[g] = interest[g]
        /\ interest' \in [Fds -> [channel : Channels \cup {NoChannel}, events : SUBSET Event]]
    BY <1>1, <2>1
  <2>4. events'[c] = ev /\ \A d \in Channels \ {c} : events'[d] = events[d]
    BY <1>1, <1>2
  <2>5. \A d \in Channels : \A g \in Fds :
          interest'[g].channel = d <=> fd[d] = g /\ index'[d] = "kAdded"
    <3> SUFFICES ASSUME NEW d \in Channels, NEW g \in Fds
                 PROVE  interest'[g].channel = d <=> fd[d] = g /\ index'[d] = "kAdded"
      OBVIOUS
    <3>1. CASE g = f
      BY <1>3, <2>2, <2>3, <3>1
    <3>2. CASE g # f
      <4>1. interest'[g] = interest[g]
        BY <2>3, <3>2
      <4>2. CASE d = c
        BY <1>i, <3>2, <4>1, <4>2
      <4>3. CASE d # c
        BY <1>i, <2>2, <4>1, <4>3
      <4> QED
        BY <4>2, <4>3
    <3> QED
      BY <3>1, <3>2
  <2>6. \A g \in Fds : /\ interest'[g].channel # NoChannel
                          => interest'[g].events = events'[interest'[g].channel]
                       /\ interest'[g].channel = NoChannel => interest'[g].events = {}
    <3> SUFFICES ASSUME NEW g \in Fds
                 PROVE  /\ interest'[g].channel # NoChannel
                           => interest'[g].events = events'[interest'[g].channel]
                        /\ interest'[g].channel = NoChannel => interest'[g].events = {}
      OBVIOUS
    <3>1. CASE g = f
      BY <1>1, <2>3, <2>4, <3>1
    <3>2. CASE g # f
      <4>1. interest'[g] = interest[g] /\ interest[g].channel # c
        BY <1>i, <2>3, <3>2
      <4>2. interest[g].channel \in Channels \cup {NoChannel}
        BY <1>1
      <4> QED
        BY <1>i, <2>4, <4>1, <4>2
    <3> QED
      BY <3>1, <3>2
  <2> QED
    BY <1>2, <1>4, <1>i, <2>1, <2>2, <2>3, <2>5, <2>6 DEF Interest
<1>5. CASE index[c] = "kAdded" /\ ev = {}
  <2>1. /\ index' = [index EXCEPT ![c] = "kDeleted"]
        /\ interest' = [interest EXCEPT ![f] = Nothing]
        /\ failed' = failed
    BY <1>1, <1>2, <1>5, UpdatedDeletes
  <2>2. /\ index'[c] = "kDeleted" /\ \A d \in Channels \ {c} : index'[d] = index[d]
        /\ index' \in [Channels -> {"kNew", "kAdded", "kDeleted"}]
    BY <1>1, <2>1
  <2>3. /\ interest'[f].channel = NoChannel /\ interest'[f].events = {}
        /\ \A g \in Fds \ {f} : interest'[g] = interest[g]
        /\ interest' \in [Fds -> [channel : Channels \cup {NoChannel}, events : SUBSET Event]]
    BY <1>1, <2>1 DEF Nothing
  <2>4. \A d \in Channels \ {c} : events'[d] = events[d]
    BY <1>1, <1>2
  <2>5. \A d \in Channels : \A g \in Fds :
          interest'[g].channel = d <=> fd[d] = g /\ index'[d] = "kAdded"
    <3> SUFFICES ASSUME NEW d \in Channels, NEW g \in Fds
                 PROVE  interest'[g].channel = d <=> fd[d] = g /\ index'[d] = "kAdded"
      OBVIOUS
    <3>1. CASE g = f
      BY <1>1, <1>3, <2>2, <2>3, <3>1
    <3>2. CASE g # f
      <4>1. interest'[g] = interest[g]
        BY <2>3, <3>2
      <4>2. CASE d = c
        BY <1>i, <3>2, <4>1, <4>2
      <4>3. CASE d # c
        BY <1>i, <2>2, <4>1, <4>3
      <4> QED
        BY <4>2, <4>3
    <3> QED
      BY <3>1, <3>2
  <2>6. \A g \in Fds : /\ interest'[g].channel # NoChannel
                          => interest'[g].events = events'[interest'[g].channel]
                       /\ interest'[g].channel = NoChannel => interest'[g].events = {}
    <3> SUFFICES ASSUME NEW g \in Fds, g # f
                 PROVE  /\ interest'[g].channel # NoChannel
                           => interest'[g].events = events'[interest'[g].channel]
                        /\ interest'[g].channel = NoChannel => interest'[g].events = {}
      BY <2>3
    <3>1. interest'[g] = interest[g] /\ interest[g].channel # c
      BY <1>i, <2>3
    <3>2. interest[g].channel \in Channels \cup {NoChannel}
      BY <1>1
    <3> QED
      BY <1>i, <2>4, <3>1, <3>2
  <2> QED
    BY <1>2, <1>5, <1>i, <2>1, <2>2, <2>3, <2>5, <2>6 DEF Interest
<1> QED
  BY <1>4, <1>5

-----------------------------------------------------------------------------
(* Functors *)

\* Whoever is not waiting for a functor may change as he likes.
LEMMA QueueKept ==
  ASSUME TypeOK, Queueing, UNCHANGED functors, left' <= Len(functors),
         \A c \in Channels : role[c] \in {"removed", "leaving"} => role'[c] = role[c]
  PROVE  Queueing'
<1>1. \A i \in DOMAIN functors : functors[i][2] \in Channels
  BY DEF TypeOK
<1> QED
  BY <1>1 DEF Queueing

\* queueInLoop() by an owner that waits for nothing yet.
LEMMA QueueAppended ==
  ASSUME TypeOK, Queueing, UNCHANGED left, NEW c \in Channels,
         NEW op \in {"resetChannel", "connectDestroyed"},
         role[c] \notin {"removed", "leaving"},
         functors' = Append(functors, <<op, c>>),
         role' = [role EXCEPT ![c] = IF op = "resetChannel" THEN "removed" ELSE "leaving"]
           \/ \E d \in Channels \ {c} :
                /\ role[d] \notin {"removed", "leaving"}
                /\ role' = [role EXCEPT ![c] = IF op = "resetChannel" THEN "removed"
                                               ELSE "leaving", ![d] = "connected"]
  PROVE  /\ Queueing'
         /\ functors' \in Seq({"resetChannel", "connectDestroyed"} \X Channels)
<1> DEFINE P == {"resetChannel", "connectDestroyed"} \X Channels
           n == Len(functors)
<1>1. /\ functors \in Seq(P) /\ n \in Nat /\ DOMAIN functors = 1..n
      /\ role \in [Channels -> {"none", "connecting", "removed", "connected", "closed",
                                "leaving", "down", "gone"}]
      /\ left \in Nat /\ left <= n
  BY LenProperties DEF TypeOK, Queueing
<1>2. \A i \in 1..n : functors[i] \in P
  BY <1>1, ElementOfSeq
<1>3. \A i \in 1..n : functors[i][2] # c /\ role'[functors[i][2]] = role[functors[i][2]]
  <2> SUFFICES ASSUME NEW i \in 1..n
               PROVE  functors[i][2] # c /\ role'[functors[i][2]] = role[functors[i][2]]
    OBVIOUS
  <2>1. functors[i][2] \in Channels /\ role[functors[i][2]] \in {"removed", "leaving"}
    BY <1>1, <1>2 DEF Queueing
  <2> QED
    BY <1>1, <2>1
<1>4. role'[c] = IF op = "resetChannel" THEN "removed" ELSE "leaving"
  BY <1>1
<1>5. /\ functors' \in Seq(P) /\ Len(functors') = n + 1 /\ DOMAIN functors' = 1..(n + 1)
      /\ \A i \in 1..n : functors'[i] = functors[i]
      /\ functors'[n + 1] = <<op, c>>
  <2>1. <<op, c>> \in P
    OBVIOUS
  <2>2. /\ Append(functors, <<op, c>>) \in Seq(P) /\ Len(Append(functors, <<op, c>>)) = n + 1
        /\ \A i \in 1..n : Append(functors, <<op, c>>)[i] = functors[i]
        /\ Append(functors, <<op, c>>)[n + 1] = <<op, c>>
    BY <1>1, <2>1, AppendProperties
  <2> QED
    BY <2>2, LenProperties
<1> HIDE DEF n, P
<1>6. \A i \in 1..(n + 1) : i \in 1..n \/ i = n + 1
  BY <1>1
<1>7. \A i \in DOMAIN functors' :
        role'[functors'[i][2]] =
          IF functors'[i][1] = "resetChannel" THEN "removed" ELSE "leaving"
  <2> SUFFICES ASSUME NEW i \in 1..(n + 1)
               PROVE  role'[functors'[i][2]] =
                        IF functors'[i][1] = "resetChannel" THEN "removed" ELSE "leaving"
    BY <1>5
  <2>1. CASE i = n + 1
    BY <1>4, <1>5, <2>1
  <2>2. CASE i \in 1..n
    BY <1>1, <1>3, <1>5, <2>2 DEF Queueing
  <2> QED
    BY <1>6, <2>1, <2>2
<1>8. \A i, j \in DOMAIN functors' : functors'[i] = functors'[j] => i = j
  <2> SUFFICES ASSUME NEW i \in 1..(n + 1), NEW j \in 1..(n + 1), functors'[i] = functors'[j]
               PROVE  i = j
    BY <1>5
  <2>1. ASSUME NEW k \in 1..n PROVE functors'[k] # <<op, c>>
    <3>1. functors'[k] = functors[k] /\ functors[k][2] # c
      BY <1>3, <1>5
    <3>2. <<op, c>>[2] = c
      OBVIOUS
    <3> QED
      BY <3>1, <3>2, Zenon
  <2>2. CASE i \in 1..n /\ j \in 1..n
    BY <1>1, <1>5, <2>2 DEF Queueing
  <2> QED
    BY <1>5, <1>6, <2>1, <2>2
<1>9. left' <= Len(functors')
  BY <1>1, <1>5
<1> QED
  BY <1>5, <1>7, <1>8, <1>9 DEF Queueing, P

\* doPendingFunctors() takes the functor that an owner waits for.
LEMMA QueueTaken ==
  ASSUME TypeOK, Queueing, NEW c \in Channels,
         NEW op \in {"resetChannel", "connectDestroyed"}, NEW new \in {"none", "down"},
         Take(op, c), role' = [role EXCEPT ![c] = new]
  PROVE  /\ Queueing' /\ left' \in Nat
         /\ functors' \in Seq({"resetChannel", "connectDestroyed"} \X Channels)
         /\ role[c] = IF op = "resetChannel" THEN "removed" ELSE "leaving"
<1> DEFINE P == {"resetChannel", "connectDestroyed"} \X Channels
           n == Len(functors)
<1>1. /\ functors \in Seq(P) /\ n \in Nat /\ DOMAIN functors = 1..n
      /\ role \in [Channels -> {"none", "connecting", "removed", "connected", "closed",
                                "leaving", "down", "gone"}]
      /\ left \in Nat /\ left <= n /\ left > 0 /\ left' = left - 1
      /\ functors' = Tail(functors) /\ Head(functors) = <<op, c>>
  BY LenProperties DEF TypeOK, Queueing, Take
<1>2. functors # << >> /\ n > 0
  BY <1>1, EmptySeq
<1>3. /\ functors' \in Seq(P) /\ Len(functors') = n - 1 /\ DOMAIN functors' = 1..(n - 1)
      /\ \A i \in 1..(n - 1) : functors'[i] = functors[i + 1]
      /\ functors[1] = <<op, c>>
  <2>1. /\ Tail(functors) \in Seq(P) /\ Len(Tail(functors)) = n - 1
        /\ \A i \in 1..(n - 1) : Tail(functors)[i] = functors[i + 1]
        /\ Head(functors) = functors[1]
    BY <1>1, <1>2, HeadTailProperties
  <2> QED
    BY <1>1, <2>1, LenProperties
<1>4. \A i \in 1..n : functors[i] \in P
  BY <1>1, ElementOfSeq
<1> HIDE DEF n, P
<1>5. \A i \in 1..(n - 1) : i + 1 \in 1..n /\ i + 1 # 1
  BY <1>1
<1>6. 1 \in 1..n
  BY <1>1, <1>2
<1>7. role[c] = IF op = "resetChannel" THEN "removed" ELSE "leaving"
  BY <1>1, <1>3, <1>6 DEF Queueing
<1>8. \A i \in 1..(n - 1) : functors[i + 1][2] \in Channels \ {c}
  <2> SUFFICES ASSUME NEW i \in 1..(n - 1) PROVE functors[i + 1][2] \in Channels \ {c}
    OBVIOUS
  <2>1. i + 1 \in 1..n /\ i + 1 # 1
    BY <1>5
  <2>2. PICK o \in {"resetChannel", "connectDestroyed"}, d \in Channels :
          functors[i + 1] = <<o, d>>
    BY <1>4, <2>1 DEF P
  <2>3. ASSUME d = c PROVE FALSE
    <3>1. role[c] = IF o = "resetChannel" THEN "removed" ELSE "leaving"
      BY <1>1, <2>1, <2>2, <2>3 DEF Queueing
    <3>2. o = op
      BY <1>7, <3>1
    <3>3. functors[i + 1] = functors[1]
      BY <1>3, <2>2, <2>3, <3>2
    <3> QED
      BY <1>1, <1>6, <2>1, <3>3 DEF Queueing
  <2> QED
    BY <2>2, <2>3
<1>9. \A i \in 1..(n - 1) :
        role'[functors'[i][2]] =
          IF functors'[i][1] = "resetChannel" THEN "removed" ELSE "leaving"
  BY <1>1, <1>3, <1>5, <1>8, SMTT(30) DEF Queueing
<1>10. \A i, j \in 1..(n - 1) : functors'[i] = functors'[j] => i = j
  <2> SUFFICES ASSUME NEW i \in 1..(n - 1), NEW j \in 1..(n - 1), functors'[i] = functors'[j]
               PROVE  i = j
    OBVIOUS
  <2>1. i + 1 = j + 1
    BY <1>1, <1>3, <1>5 DEF Queueing
  <2>2. i \in Int /\ j \in Int
    BY <1>1
  <2> QED
    BY <2>1, <2>2
<1>11. left' <= Len(functors') /\ left' \in Nat
  BY <1>1, <1>3
<1> QED
  BY <1>3, <1>7, <1>9, <1>10, <1>11 DEF Queueing, P

-----------------------------------------------------------------------------
(* Every step keeps the invariant *)

Roles == {"none", "connecting", "removed", "connected", "closed", "leaving", "down", "gone"}

\* A channel changes its events, and its owner goes on or not.
LEMMA UpdateKeepsObjects ==
  ASSUME IInv, NEW c \in Channels, NEW ev \in SUBSET Event, NEW new \in InCharge \ {"gone"},
         role[c] \in {"connected", "closed", "leaving"}, Update(c, ev),
         UNCHANGED <<fd, open>>, role' = [role EXCEPT ![c] = new],
         new \in {role[c], "closed", "down"},
         new = "connected" => "read" \in ev,
         ev = {} => index[c] = "kAdded" \/ new = "down"
  PROVE  /\ Interest' /\ Objects' /\ failed' = failed
         /\ role' \in [Channels -> Roles] /\ events' \in [Channels -> SUBSET Event]
         /\ index' \in [Channels -> {"kNew", "kAdded", "kDeleted"}]
         /\ interest' \in [Fds -> [channel : Channels \cup {NoChannel}, events : SUBSET Event]]
<1>1. /\ TypeOK /\ Objects /\ Interest
      /\ role \in [Channels -> Roles] /\ events \in [Channels -> SUBSET Event]
  BY DEF IInv, TypeOK, Roles
<1>2. role[c] \in InCharge
  BY DEF InCharge
<1>3. /\ Interest' /\ failed' = failed
      /\ events' = [events EXCEPT ![c] = ev]
      /\ index' \in [Channels -> {"kNew", "kAdded", "kDeleted"}]
      /\ interest' \in [Fds -> [channel : Channels \cup {NoChannel}, events : SUBSET Event]]
      /\ \A d \in Channels \ {c} : index'[d] = index[d]
      /\ index'[c] = IF index[c] = "kAdded" /\ ev = {} THEN "kDeleted" ELSE "kAdded"
  BY <1>1, <1>2, UpdateKeepsInterest
<1>4. /\ events'[c] = ev /\ \A d \in Channels \ {c} : events'[d] = events[d]
      /\ events' \in [Channels -> SUBSET Event]
  BY <1>1, <1>3
<1>5. /\ role'[c] = new /\ \A d \in Channels \ {c} : role'[d] = role[d]
      /\ role' \in [Channels -> Roles]
  BY <1>1 DEF InCharge, Roles
<1>6. \A d \in Channels : role'[d] \in InCharge => role[d] \in InCharge
  BY <1>2, <1>5
<1>7. /\ \A d \in Channels : role'[d] # "none" => fd[d] \in Fds
      /\ \A d \in Channels : role'[d] \in InCharge => fd[d] \in open
      /\ \A d, e \in Channels :
           role'[d] \in InCharge /\ role'[e] \in InCharge /\ fd[d] = fd[e] => d = e
  BY <1>1, <1>5, <1>6 DEF Objects
<1>8. /\ \A d \in Channels : index'[d] = "kAdded" => role'[d] \in InCharge \ {"gone"}
      /\ \A d \in Channels :
           role'[d] = "connecting" => index'[d] = "kAdded" /\ events'[d] # {}
      /\ \A d \in Channels : role'[d] = "connected" => "read" \in events'[d]
  BY <1>1, <1>3, <1>4, <1>5 DEF Objects
<1>9. \A d \in Channels :
        role'[d] \in {"connected", "closed", "leaving"} =>
          (index'[d] = "kAdded" <=> events'[d] # {})
  BY <1>1, <1>3, <1>4, <1>5 DEF Objects
<1> QED
  BY <1>3, <1>4, <1>5, <1>7, <1>8, <1>9 DEF Objects

\* enableWriting(), disableWriting() and handleClose().
LEMMA EventsStep ==
  ASSUME IInv, NEW c \in Channels,
         EnableWriting(c) \/ DisableWriting(c) \/ HandleClose(c)
  PROVE  IInv'
<1>1. /\ TypeOK /\ Objects /\ Interest /\ Dispatching /\ Queueing
      /\ role \in [Channels -> Roles] /\ events \in [Channels -> SUBSET Event]
  BY DEF IInv, TypeOK, Roles
<1>2. UNCHANGED <<fd, open, ready, size, active, phase, left, current, functors>>
  BY DEF EnableWriting, DisableWriting, HandleClose, round
<1>3. PICK ev \in SUBSET Event, new \in {"connected", "closed", "leaving"} :
        /\ Update(c, ev) /\ role' = [role EXCEPT ![c] = new]
        /\ role[c] \in {"connected", "closed", "leaving"}
        /\ new \in {role[c], "closed"}
        /\ new = "connected" => "read" \in ev
        /\ ev = {} => index[c] = "kAdded"
        /\ role[c] = "leaving" => new = "leaving"
  <2>1. CASE EnableWriting(c)
    <3>1. events[c] \cup {"write"} \in SUBSET Event /\ events[c] \cup {"write"} # {}
      BY <1>1 DEF Event
    <3>2. /\ Update(c, events[c] \cup {"write"}) /\ role' = [role EXCEPT ![c] = role[c]]
          /\ role[c] \in {"connected", "closed", "leaving"}
      BY <1>1, <2>1 DEF EnableWriting
    <3> QED
      BY <1>1, <3>1, <3>2 DEF Objects
  <2>2. CASE DisableWriting(c)
    <3>1. events[c] \ {"write"} \in SUBSET Event /\ events[c] # {}
      BY <1>1, <2>2 DEF DisableWriting
    <3>2. /\ Update(c, events[c] \ {"write"}) /\ role' = [role EXCEPT ![c] = role[c]]
          /\ role[c] \in {"connected", "closed", "leaving"}
      BY <1>1, <2>2 DEF DisableWriting
    <3>3. index[c] = "kAdded"
      BY <1>1, <3>1, <3>2 DEF Objects
    <3>4. role[c] = "connected" => "read" \in events[c] \ {"write"}
      BY <1>1 DEF Objects
    <3> QED
      BY <3>1, <3>2, <3>3, <3>4
  <2>3. CASE HandleClose(c)
    <3>1. index[c] = "kAdded"
      BY <1>1, <2>3 DEF HandleClose, Objects
    <3>2. {} \in SUBSET Event
      OBVIOUS
    <3> QED
      BY <2>3, <3>1, <3>2 DEF HandleClose
  <2> QED
    BY <2>1, <2>2, <2>3
<1>4. /\ Interest' /\ Objects' /\ failed' = failed
      /\ role' \in [Channels -> Roles] /\ events' \in [Channels -> SUBSET Event]
      /\ index' \in [Channels -> {"kNew", "kAdded", "kDeleted"}]
      /\ interest' \in [Fds -> [channel : Channels \cup {NoChannel}, events : SUBSET Event]]
  <2>1. new \in InCharge \ {"gone"} /\ UNCHANGED <<fd, open>>
    BY <1>2 DEF InCharge
  <2> QED
    BY <1>3, <2>1, UpdateKeepsObjects
<1>5. TypeOK'
  BY <1>1, <1>2, <1>4 DEF TypeOK, Roles
<1>6. /\ role'[c] \in Handled \ {"connecting", "removed"} /\ role[c] \in Handled
      /\ \A d \in Channels \ {c} : role'[d] = role[d]
  BY <1>1, <1>3 DEF Handled
<1>7. Dispatching'
  <2>1. /\ active \subseteq Channels /\ current \in Channels \cup {NoChannel}
    BY <1>1 DEF TypeOK
  <2>2. role[c] # "down" /\ role'[c] # "down"
    BY <1>3, <1>6 DEF Handled
  <2>3. \A d \in active : phase = "dispatch" /\ role'[d] \in Handled
    BY <1>1, <1>6, <2>1 DEF Dispatching
  <2>4. current # NoChannel => \/ phase = "dispatch" /\ role'[current] \in Handled
                               \/ phase = "functors" /\ role'[current] = "down"
    BY <1>1, <1>6, <2>1, <2>2 DEF Dispatching
  <2>5. \A d \in Channels : role'[d] = "down" => current = d /\ phase = "functors"
    BY <1>1, <1>6, <2>2 DEF Dispatching
  <2> QED
    BY <1>2, <2>3, <2>4, <2>5 DEF Dispatching
<1>8. Queueing'
  <2>1. \A d \in Channels : role[d] \in {"removed", "leaving"} => role'[d] = role[d]
    BY <1>1, <1>3, <1>6
  <2>2. left' <= Len(functors)
    BY <1>1, <1>2 DEF Queueing
  <2> QED
    BY <1>1, <1>2, <2>1, <2>2, QueueKept
<1> QED
  BY <1>4, <1>5, <1>7, <1>8 DEF IInv

\* The descriptor of an owner is taken off the interest list, where it may or may
\* not have been, and the owner may give it up.
LEMMA TakenOffKeepsInterest ==
  ASSUME TypeOK, Objects, Interest, NEW c \in Channels, role[c] \in InCharge,
         index' \in [Channels -> {"kNew", "kAdded", "kDeleted"}], index'[c] # "kAdded",
         interest' = [interest EXCEPT ![fd[c]] = Nothing], failed' = failed,
         \A d \in Channels \ {c} :
           index'[d] = index[d] /\ events'[d] = events[d] /\ fd'[d] = fd[d]
  PROVE  /\ Interest'
         /\ interest' \in [Fds -> [channel : Channels \cup {NoChannel}, events : SUBSET Event]]
<1> DEFINE f == fd[c]
<1>1. /\ f \in Fds
      /\ interest \in [Fds -> [channel : Channels \cup {NoChannel}, events : SUBSET Event]]
      /\ NoChannel \notin Channels
  BY ChannelAssumption DEF TypeOK, Objects, InCharge, ChannelAssumption
<1>2. /\ \A d \in Channels : \A g \in Fds :
           interest[g].channel = d <=> fd[d] = g /\ index[d] = "kAdded"
      /\ \A g \in Fds :
           interest[g].channel # NoChannel => interest[g].events = events[interest[g].channel]
      /\ \A g \in Fds : interest[g].channel = NoChannel => interest[g].events = {}
      /\ ~failed
  BY DEF Interest
<1>3. \A d \in Channels : fd[d] = f /\ index[d] = "kAdded" => d = c
  BY DEF Objects
<1>4. /\ interest'[f].channel = NoChannel /\ interest'[f].events = {}
      /\ \A g \in Fds \ {f} : interest'[g] = interest[g]
      /\ interest' \in [Fds -> [channel : Channels \cup {NoChannel}, events : SUBSET Event]]
  BY <1>1 DEF Nothing
<1>5. \A g \in Fds \ {f} : interest[g].channel # c
  BY <1>2
<1>6. ASSUME NEW d \in Channels, NEW g \in Fds
      PROVE  interest'[g].channel = d <=> fd'[d] = g /\ index'[d] = "kAdded"
  <2>1. CASE g = f
    BY <1>1, <1>3, <1>4, <2>1
  <2>2. CASE g # f
    <3>1. CASE d = c
      BY <1>4, <1>5, <2>2, <3>1
    <3>2. CASE d # c
      BY <1>2, <1>4, <2>2, <3>2
    <3> QED
      BY <3>1, <3>2
  <2> QED
    BY <2>1, <2>2
<1>7. ASSUME NEW g \in Fds \ {f}
      PROVE  /\ interest'[g].channel # NoChannel
                => interest'[g].events = events'[interest'[g].channel]
             /\ interest'[g].channel = NoChannel => interest'[g].events = {}
  <2>1. interest'[g] = interest[g] /\ interest[g].channel \in (Channels \ {c}) \cup {NoChannel}
    BY <1>1, <1>4, <1>5
  <2> QED
    BY <1>2, <2>1
<1>8. \A g \in Fds : /\ interest'[g].channel # NoChannel
                        => interest'[g].events = events'[interest'[g].channel]
                     /\ interest'[g].channel = NoChannel => interest'[g].events = {}
  BY <1>4, <1>7
<1> QED
  BY <1>2, <1>4, <1>6, <1>8 DEF Interest

\* A channel comes to stand for a descriptor that no other channel is registered
\* for any more.
LEMMA PutOnKeepsInterest ==
  ASSUME TypeOK, Interest, NEW c \in Channels, NEW f \in Fds, NEW ev \in SUBSET Event,
         index[c] # "kAdded", index'[c] = "kAdded", fd'[c] = f, events'[c] = ev,
         interest' = [interest EXCEPT ![f] = [channel |-> c, events |-> ev]],
         failed' = failed,
         \A d \in Channels \ {c} :
           /\ index'[d] = "kAdded" <=> index[d] = "kAdded" /\ fd[d] # f
           /\ index'[d] = "kAdded" => events'[d] = events[d]
           /\ fd'[d] = fd[d]
  PROVE  /\ Interest'
         /\ interest' \in [Fds -> [channel : Channels \cup {NoChannel}, events : SUBSET Event]]
<1>1. /\ interest \in [Fds -> [channel : Channels \cup {NoChannel}, events : SUBSET Event]]
      /\ NoChannel \notin Channels
  BY ChannelAssumption DEF TypeOK, ChannelAssumption
<1>2. /\ \A d \in Channels : \A g \in Fds :
           interest[g].channel = d <=> fd[d] = g /\ index[d] = "kAdded"
      /\ \A g \in Fds :
           interest[g].channel # NoChannel => interest[g].events = events[interest[g].channel]
      /\ \A g \in Fds : interest[g].channel = NoChannel => interest[g].events = {}
      /\ ~failed
  BY DEF Interest
<1>4. /\ interest'[f].channel = c /\ interest'[f].events = ev
      /\ \A g \in Fds \ {f} : interest'[g] = interest[g]
      /\ interest' \in [Fds -> [channel : Channels \cup {NoChannel}, events : SUBSET Event]]
  BY <1>1
<1>5. \A g \in Fds : interest[g].channel # c
  BY <1>2
<1>6. ASSUME NEW d \in Channels, NEW g \in Fds
      PROVE  interest'[g].channel = d <=> fd'[d] = g /\ index'[d] = "kAdded"
  <2>1. CASE g = f
    BY <1>4, <2>1
  <2>2. CASE g # f
    <3>1. CASE d = c
      BY <1>4, <1>5, <2>2, <3>1
    <3>2. CASE d # c
      BY <1>2, <1>4, <2>2, <3>2
    <3> QED
      BY <3>1, <3>2
  <2> QED
    BY <2>1, <2>2
<1>7. ASSUME NEW g \in Fds \ {f}
      PROVE  /\ interest'[g].channel # NoChannel
                => interest'[g].events = events'[interest'[g].channel]
             /\ interest'[g].channel = NoChannel => interest'[g].events = {}
  <2>1. interest'[g] = interest[g] /\ interest[g].channel \in (Channels \ {c}) \cup {NoChannel}
    BY <1>1, <1>4, <1>5
  <2>2. CASE interest[g].channel = NoChannel
    BY <1>2, <2>1, <2>2
  <2>3. CASE interest[g].channel # NoChannel
    <3> DEFINE d == interest[g].channel
    <3>1. d \in Channels \ {c} /\ fd[d] = g /\ index[d] = "kAdded"
      BY <1>2, <2>1, <2>3
    <3>2. index'[d] = "kAdded" /\ events'[d] = events[d]
      BY <3>1
    <3> QED
      BY <1>2, <2>1, <2>3, <3>2
  <2> QED
    BY <2>2, <2>3
<1>8. \A g \in Fds : /\ interest'[g].channel # NoChannel
                        => interest'[g].events = events'[interest'[g].channel]
                     /\ interest'[g].channel = NoChannel => interest'[g].events = {}
  BY <1>1, <1>4, <1>7
<1> QED
  BY <1>2, <1>4, <1>6, <1>8 DEF Interest

\* A step that neither ends a handler nor takes an owner down or back.
LEMMA DispatchKept ==
  ASSUME TypeOK, Dispatching, UNCHANGED <<active, phase, current>>,
         \A d \in Channels : /\ role[d] \in Handled => role'[d] \in Handled
                             /\ role'[d] = "down" <=> role[d] = "down"
  PROVE  Dispatching'
<1>1. active \subseteq Channels /\ current \in Channels \cup {NoChannel}
  BY DEF TypeOK
<1> QED
  BY <1>1 DEF Dispatching

\* connecting() and connectEstablished().
LEMMA OpensStep ==
  ASSUME IInv, NEW c \in Channels, NEW f \in Fds, NEW use \in {"connecting", "connected"},
         NEW ev \in {{"read"}, {"write"}}, use = "connected" => ev = {"read"},
         Opens(c, f, use, ev)
  PROVE  IInv'
<1>1. /\ TypeOK /\ Objects /\ Interest /\ Dispatching /\ Queueing
      /\ role \in [Channels -> Roles] /\ events \in [Channels -> SUBSET Event]
      /\ index \in [Channels -> {"kNew", "kAdded", "kDeleted"}]
      /\ fd \in [Channels -> Fds \cup {NoFd}]
      /\ ev \in SUBSET Event
  BY DEF IInv, TypeOK, Roles, Event
<1>2. /\ role[c] = "none" /\ f \notin open
      /\ open' = open \cup {f}
      /\ fd' = [fd EXCEPT ![c] = f]
      /\ role' = [role EXCEPT ![c] = use]
      /\ events' = [events EXCEPT ![c] = ev]
      /\ Registers(Updated(Registered, c, f, ev))
      /\ UNCHANGED <<ready, size, active, phase, left, current, functors>>
  BY DEF Opens, round
<1>3. /\ index[c] # "kAdded"
      /\ \A d \in Channels : index[d] = "kAdded" => fd[d] # f
  BY <1>1, <1>2 DEF Objects, InCharge
<1>4. interest[f] = Nothing
  BY <1>1, <1>3, NotRegistered
<1>5. /\ index' = [index EXCEPT ![c] = "kAdded"]
      /\ interest' = [interest EXCEPT ![f] = [channel |-> c, events |-> ev]]
      /\ failed' = failed
  BY <1>1, <1>2, <1>3, <1>4, UpdatedAdds
<1>6. /\ index'[c] = "kAdded" /\ fd'[c] = f /\ events'[c] = ev /\ role'[c] = use
      /\ \A d \in Channels \ {c} : /\ index'[d] = index[d] /\ fd'[d] = fd[d]
                                   /\ events'[d] = events[d] /\ role'[d] = role[d]
      /\ index' \in [Channels -> {"kNew", "kAdded", "kDeleted"}]
      /\ fd' \in [Channels -> Fds \cup {NoFd}]
      /\ events' \in [Channels -> SUBSET Event] /\ role' \in [Channels -> Roles]
  BY <1>1, <1>2, <1>5 DEF Roles
<1>7. /\ Interest'
      /\ interest' \in [Fds -> [channel : Channels \cup {NoChannel}, events : SUBSET Event]]
  BY <1>1, <1>3, <1>5, <1>6, PutOnKeepsInterest, ZenonT(40)
<1>8. TypeOK'
  BY <1>1, <1>2, <1>5, <1>6, <1>7 DEF TypeOK, Roles
<1>9. Objects'
  <2>1. /\ \A d \in Channels : role'[d] # "none" => fd'[d] \in Fds
        /\ \A d \in Channels : role'[d] \in InCharge => fd'[d] \in open'
        /\ \A d, e \in Channels :
             role'[d] \in InCharge /\ role'[e] \in InCharge /\ fd'[d] = fd'[e] => d = e
    BY <1>1, <1>2, <1>6 DEF Objects
  <2>2. /\ \A d \in Channels : index'[d] = "kAdded" => role'[d] \in InCharge \ {"gone"}
        /\ \A d \in Channels :
             role'[d] = "connecting" => index'[d] = "kAdded" /\ events'[d] # {}
        /\ \A d \in Channels : role'[d] = "connected" => "read" \in events'[d]
        /\ \A d \in Channels :
             role'[d] \in {"connected", "closed", "leaving"} =>
               (index'[d] = "kAdded" <=> events'[d] # {})
    BY <1>1, <1>6 DEF Objects, InCharge
  <2> QED
    BY <2>1, <2>2 DEF Objects
<1>10. Dispatching'
  BY <1>1, <1>2, <1>6, DispatchKept DEF Handled
<1>11. Queueing'
  BY <1>1, <1>2, <1>6, QueueKept DEF Queueing
<1> QED
  BY <1>7, <1>8, <1>9, <1>10, <1>11 DEF IInv

\* Connector's handlers, when there will be no connection over this socket.
LEMMA RetryStep ==
  ASSUME IInv, NEW c \in Channels, Retry(c)
  PROVE  IInv'
<1> DEFINE f == fd[c]
<1>1. /\ TypeOK /\ Objects /\ Interest /\ Dispatching /\ Queueing
      /\ role \in [Channels -> Roles] /\ events \in [Channels -> SUBSET Event]
      /\ index \in [Channels -> {"kNew", "kAdded", "kDeleted"}]
      /\ fd \in [Channels -> Fds \cup {NoFd}] /\ open \subseteq Fds /\ ready \subseteq Fds \X Event
  BY DEF IInv, TypeOK, Roles
<1>2. /\ role[c] = "connecting"
      /\ Registers(Closed(RemovedAndReset(c), f))
      /\ events' = [events EXCEPT ![c] = {}]
      /\ role' = [role EXCEPT ![c] = "removed"]
      /\ open' = open \ {f} /\ ready' \subseteq ready
      /\ functors' = Append(functors, <<"resetChannel", c>>)
      /\ UNCHANGED <<fd, size, active, phase, left, current>>
  BY DEF Retry, round
<1>3. role[c] \in InCharge /\ f \in Fds /\ index[c] = "kAdded"
  BY <1>1, <1>2 DEF Objects, InCharge
<1>4. /\ index' = [index EXCEPT ![c] = "kNew"]
      /\ interest' = [interest EXCEPT ![f] = Nothing]
      /\ failed' = failed
  <2> DEFINE p == [index |-> [index EXCEPT ![c] = "kNew"],
                   interest |-> [interest EXCEPT ![f] = Nothing], failed |-> failed]
  <2>1. RemovedAndReset(c) = p
    BY <1>1, <1>3, RemovedAndResetDeletes
  <2>2. /\ Closed(p, f).index = p.index /\ Closed(p, f).failed = p.failed
        /\ Closed(p, f).interest = [interest EXCEPT ![f] = Nothing]
    BY <1>1, <1>3 DEF Closed, Del, TypeOK
  <2> QED
    BY <1>2, <2>1, <2>2 DEF Registers
<1>5. /\ index'[c] = "kNew" /\ events'[c] = {} /\ role'[c] = "removed"
      /\ \A d \in Channels \ {c} : /\ index'[d] = index[d] /\ fd'[d] = fd[d]
                                   /\ events'[d] = events[d] /\ role'[d] = role[d]
      /\ index' \in [Channels -> {"kNew", "kAdded", "kDeleted"}]
      /\ events' \in [Channels -> SUBSET Event] /\ role' \in [Channels -> Roles]
  BY <1>1, <1>2, <1>4 DEF Roles
<1>6. /\ Interest'
      /\ interest' \in [Fds -> [channel : Channels \cup {NoChannel}, events : SUBSET Event]]
  BY <1>1, <1>3, <1>4, <1>5, TakenOffKeepsInterest
<1>7. /\ Queueing'
      /\ functors' \in Seq({"resetChannel", "connectDestroyed"} \X Channels)
  BY <1>1, <1>2, QueueAppended
<1>8. TypeOK'
  BY <1>1, <1>2, <1>4, <1>5, <1>6, <1>7 DEF TypeOK, Roles
<1>9. Objects'
  <2>1. /\ \A d \in Channels : role'[d] # "none" => fd'[d] \in Fds
        /\ \A d \in Channels : role'[d] \in InCharge => fd'[d] \in open'
        /\ \A d, e \in Channels :
             role'[d] \in InCharge /\ role'[e] \in InCharge /\ fd'[d] = fd'[e] => d = e
    BY <1>1, <1>2, <1>3, <1>5 DEF Objects, InCharge
  <2>2. /\ \A d \in Channels : index'[d] = "kAdded" => role'[d] \in InCharge \ {"gone"}
        /\ \A d \in Channels :
             role'[d] = "connecting" => index'[d] = "kAdded" /\ events'[d] # {}
        /\ \A d \in Channels : role'[d] = "connected" => "read" \in events'[d]
        /\ \A d \in Channels :
             role'[d] \in {"connected", "closed", "leaving"} =>
               (index'[d] = "kAdded" <=> events'[d] # {})
    BY <1>1, <1>5 DEF Objects, InCharge
  <2> QED
    BY <2>1, <2>2 DEF Objects
<1>10. Dispatching'
  BY <1>1, <1>2, <1>5, DispatchKept DEF Handled
<1> QED
  BY <1>6, <1>7, <1>8, <1>9, <1>10 DEF IInv

\* Connector::handleWrite(), when the owner makes a connection of the socket.
LEMMA HandOverStep ==
  ASSUME IInv, NEW c \in Channels, NEW d \in Channels, HandOver(c, d)
  PROVE  IInv'
<1> DEFINE f == fd[c]
           ev == {"read"}
<1>1. /\ TypeOK /\ Objects /\ Interest /\ Dispatching /\ Queueing
      /\ role \in [Channels -> Roles] /\ events \in [Channels -> SUBSET Event]
      /\ index \in [Channels -> {"kNew", "kAdded", "kDeleted"}]
      /\ interest \in [Fds -> [channel : Channels \cup {NoChannel}, events : SUBSET Event]]
      /\ fd \in [Channels -> Fds \cup {NoFd}] /\ ev \in SUBSET Event
  BY DEF IInv, TypeOK, Roles, Event
<1>2. /\ role[c] = "connecting" /\ role[d] = "none"
      /\ fd' = [fd EXCEPT ![d] = f]
      /\ Registers(Updated(RemovedAndReset(c), d, f, ev))
      /\ events' = [events EXCEPT ![c] = {}, ![d] = ev]
      /\ role' = [role EXCEPT ![c] = "removed", ![d] = "connected"]
      /\ functors' = Append(functors, <<"resetChannel", c>>)
      /\ UNCHANGED <<open, ready, size, active, phase, left, current>>
  BY DEF HandOver, round
<1>3. /\ f \in Fds /\ f \in open /\ index[c] = "kAdded" /\ c # d /\ index[d] # "kAdded"
      /\ \A e \in Channels : index[e] = "kAdded" /\ fd[e] = f => e = c
      /\ \A e \in Channels : role[e] \in InCharge /\ fd[e] = f => e = c
  BY <1>1, <1>2 DEF Objects, InCharge
<1>4. /\ index' = [index EXCEPT ![c] = "kNew", ![d] = "kAdded"]
      /\ interest' = [interest EXCEPT ![f] = [channel |-> d, events |-> ev]]
      /\ failed' = failed
  <2> DEFINE q == [index |-> [index EXCEPT ![c] = "kNew"],
                   interest |-> [interest EXCEPT ![f] = Nothing], failed |-> failed]
             r == [q EXCEPT !.index[d] = "kAdded"]
             s == [r EXCEPT !.interest[f] = [channel |-> d, events |-> ev]]
  <2>1. RemovedAndReset(c) = q
    BY <1>1, <1>3, RemovedAndResetDeletes
  <2>2. q.index[d] # "kAdded"
    BY <1>1, <1>3
  <2>3. Updated(q, d, f, ev) = Add(r, d, f, ev)
    BY <2>2 DEF Updated
  <2>4. /\ r.index = [index EXCEPT ![c] = "kNew", ![d] = "kAdded"]
        /\ r.interest = [interest EXCEPT ![f] = Nothing] /\ r.failed = failed
    OBVIOUS
  <2>5. r.interest[f] = Nothing
    BY <1>1, <1>3, <2>4
  <2>6. Add(r, d, f, ev) = s
    BY <2>5 DEF Add
  <2>7. /\ s.index = [index EXCEPT ![c] = "kNew", ![d] = "kAdded"]
        /\ s.interest = [interest EXCEPT ![f] = [channel |-> d, events |-> ev]]
        /\ s.failed = failed
    BY <1>1, <1>3
  <2> HIDE DEF q, r, s
  <2> QED
    BY <1>2, <2>1, <2>3, <2>6, <2>7 DEF Registers
<1>5. /\ index'[c] = "kNew" /\ events'[c] = {} /\ role'[c] = "removed" /\ fd'[c] = f
      /\ index'[d] = "kAdded" /\ events'[d] = ev /\ role'[d] = "connected" /\ fd'[d] = f
      /\ \A e \in Channels \ {c, d} : /\ index'[e] = index[e] /\ fd'[e] = fd[e]
                                      /\ events'[e] = events[e] /\ role'[e] = role[e]
      /\ index' \in [Channels -> {"kNew", "kAdded", "kDeleted"}]
      /\ fd' \in [Channels -> Fds \cup {NoFd}]
      /\ events' \in [Channels -> SUBSET Event] /\ role' \in [Channels -> Roles]
  BY <1>1, <1>2, <1>3, <1>4 DEF Roles
<1>6. /\ Interest'
      /\ interest' \in [Fds -> [channel : Channels \cup {NoChannel}, events : SUBSET Event]]
  <2>1. \A e \in Channels \ {d} :
          /\ index'[e] = "kAdded" <=> index[e] = "kAdded" /\ fd[e] # f
          /\ index'[e] = "kAdded" => events'[e] = events[e]
          /\ fd'[e] = fd[e]
    BY <1>3, <1>5
  <2>2. /\ f \in Fds /\ ev \in SUBSET Event /\ index[d] # "kAdded" /\ index'[d] = "kAdded"
        /\ fd'[d] = f /\ events'[d] = ev /\ failed' = failed
        /\ interest' = [interest EXCEPT ![f] = [channel |-> d, events |-> ev]]
    BY <1>1, <1>3, <1>4, <1>5
  <2> HIDE DEF f, ev
  <2> QED
    BY <1>1, <2>1, <2>2, PutOnKeepsInterest
<1>7. /\ Queueing'
      /\ functors' \in Seq({"resetChannel", "connectDestroyed"} \X Channels)
  BY <1>1, <1>2, <1>3, QueueAppended
<1>8. TypeOK'
  BY <1>1, <1>2, <1>4, <1>5, <1>6, <1>7 DEF TypeOK, Roles
<1>9. Objects'
  <2>1. /\ \A e \in Channels : role'[e] # "none" => fd'[e] \in Fds
        /\ \A e \in Channels : role'[e] \in InCharge => fd'[e] \in open'
    BY <1>1, <1>2, <1>3, <1>5 DEF Objects, InCharge
  <2>2. \A a, b \in Channels :
          role'[a] \in InCharge /\ role'[b] \in InCharge /\ fd'[a] = fd'[b] => a = b
    <3> SUFFICES ASSUME NEW a \in Channels, NEW b \in Channels,
                        role'[a] \in InCharge, role'[b] \in InCharge, fd'[a] = fd'[b]
                 PROVE  a = b
      OBVIOUS
    <3>1. a # c /\ b # c
      BY <1>5 DEF InCharge
    <3>2. \A e \in Channels \ {c, d} : role'[e] \in InCharge => fd'[e] # f
      BY <1>3, <1>5
    <3>3. CASE a = d \/ b = d
      BY <1>5, <3>1, <3>2, <3>3
    <3>4. CASE a # d /\ b # d
      BY <1>1, <1>5, <3>1, <3>4 DEF Objects
    <3> QED
      BY <3>3, <3>4
  <2>3. /\ \A e \in Channels : index'[e] = "kAdded" => role'[e] \in InCharge \ {"gone"}
        /\ \A e \in Channels :
             role'[e] = "connecting" => index'[e] = "kAdded" /\ events'[e] # {}
        /\ \A e \in Channels : role'[e] = "connected" => "read" \in events'[e]
        /\ \A e \in Channels :
             role'[e] \in {"connected", "closed", "leaving"} =>
               (index'[e] = "kAdded" <=> events'[e] # {})
    BY <1>1, <1>5, ZenonT(40) DEF Objects, InCharge
  <2> QED
    BY <2>1, <2>2, <2>3 DEF Objects
<1>10. Dispatching'
  <2>1. \A e \in Channels : /\ role[e] \in Handled => role'[e] \in Handled
                            /\ role'[e] = "down" <=> role[e] = "down"
    BY <1>2, <1>5 DEF Handled
  <2> QED
    BY <1>1, <1>2, <2>1, DispatchKept
<1> QED
  BY <1>6, <1>7, <1>8, <1>9, <1>10 DEF IInv

\* removeConnection().
LEMMA OwnerRemovesStep ==
  ASSUME IInv, NEW c \in Channels, OwnerRemoves(c)
  PROVE  IInv'
<1>1. /\ TypeOK /\ Objects /\ Interest /\ Dispatching /\ Queueing
      /\ role \in [Channels -> Roles]
  BY DEF IInv, TypeOK, Roles
<1>2. /\ role[c] = "closed"
      /\ role' = [role EXCEPT ![c] = "leaving"]
      /\ functors' = Append(functors, <<"connectDestroyed", c>>)
      /\ UNCHANGED <<fd, events, index, interest, failed, open, ready, size, active, phase,
                     left, current>>
  BY DEF OwnerRemoves, round, registration
<1>3. /\ role'[c] = "leaving" /\ \A d \in Channels \ {c} : role'[d] = role[d]
      /\ role' \in [Channels -> Roles]
  BY <1>1, <1>2 DEF Roles
<1>4. /\ Queueing'
      /\ functors' \in Seq({"resetChannel", "connectDestroyed"} \X Channels)
  BY <1>1, <1>2, QueueAppended
<1>5. TypeOK'
  BY <1>1, <1>2, <1>3, <1>4 DEF TypeOK, Roles
<1>6. Interest'
  BY <1>1, <1>2 DEF Interest
<1>7. Objects'
  BY <1>1, <1>2, <1>3 DEF Objects, InCharge
<1>8. Dispatching'
  BY <1>1, <1>2, <1>3, DispatchKept DEF Handled
<1> QED
  BY <1>4, <1>5, <1>6, <1>7, <1>8 DEF IInv

\* connectDestroyed() up to the callback.
LEMMA ConnectDestroyedStep ==
  ASSUME IInv, NEW c \in Channels, ConnectDestroyed(c)
  PROVE  IInv'
<1>1. /\ TypeOK /\ Objects /\ Interest /\ Dispatching /\ Queueing
      /\ role \in [Channels -> Roles]
      /\ NoChannel \notin Channels /\ active \subseteq Channels
  BY ChannelAssumption DEF IInv, TypeOK, Roles, ChannelAssumption
<1>2. /\ Take("connectDestroyed", c) /\ Update(c, {})
      /\ role' = [role EXCEPT ![c] = "down"]
      /\ phase = "functors" /\ current = NoChannel /\ current' = c
      /\ UNCHANGED <<fd, open, ready, size, active, phase>>
  BY DEF ConnectDestroyed, Take
<1>3. /\ Queueing' /\ left' \in Nat /\ role[c] = "leaving"
      /\ functors' \in Seq({"resetChannel", "connectDestroyed"} \X Channels)
  BY <1>1, <1>2, QueueTaken
<1>4. /\ Interest' /\ Objects' /\ failed' = failed
      /\ role' \in [Channels -> Roles] /\ events' \in [Channels -> SUBSET Event]
      /\ index' \in [Channels -> {"kNew", "kAdded", "kDeleted"}]
      /\ interest' \in [Fds -> [channel : Channels \cup {NoChannel}, events : SUBSET Event]]
  <2>1. PICK ev \in SUBSET Event, new \in InCharge \ {"gone"} : ev = {} /\ new = "down"
    BY DEF InCharge
  <2>2. Update(c, ev) /\ role' = [role EXCEPT ![c] = new] /\ UNCHANGED <<fd, open>>
    BY <1>2, <2>1
  <2>3. /\ role[c] \in {"connected", "closed", "leaving"}
        /\ new \in {role[c], "closed", "down"}
        /\ new = "connected" => "read" \in ev
        /\ ev = {} => index[c] = "kAdded" \/ new = "down"
    BY <1>3, <2>1
  <2> QED
    BY <2>2, <2>3, UpdateKeepsObjects
<1>5. TypeOK'
  BY <1>1, <1>2, <1>3, <1>4 DEF TypeOK, Roles
<1>6. Dispatching'
  <2>1. active = {} /\ \A d \in Channels : role[d] # "down"
    BY <1>1, <1>2 DEF Dispatching
  <2>2. role'[c] = "down" /\ \A d \in Channels \ {c} : role'[d] = role[d]
    BY <1>1, <1>2
  <2> QED
    BY <1>2, <2>1, <2>2 DEF Dispatching
<1> QED
  BY <1>3, <1>4, <1>5, <1>6 DEF IInv

\* The rest of it.
LEMMA RemoveChannelStep ==
  ASSUME IInv, NEW c \in Channels, RemoveChannel(c)
  PROVE  IInv'
<1> DEFINE f == fd[c]
<1>1. /\ TypeOK /\ Objects /\ Interest /\ Dispatching /\ Queueing
      /\ role \in [Channels -> Roles]
      /\ index \in [Channels -> {"kNew", "kAdded", "kDeleted"}]
      /\ interest \in [Fds -> [channel : Channels \cup {NoChannel}, events : SUBSET Event]]
      /\ NoChannel \notin Channels /\ active \subseteq Channels
  BY ChannelAssumption DEF IInv, TypeOK, Roles, ChannelAssumption
<1>2. /\ phase = "functors" /\ current = c /\ current' = NoChannel
      /\ Registers(Removed(Registered, c, f))
      /\ role' = [role EXCEPT ![c] = "gone"]
      /\ UNCHANGED <<fd, events, open, ready, size, active, phase, left, functors>>
  BY DEF RemoveChannel, round
<1>3. role[c] = "down" /\ role[c] \in InCharge /\ f \in Fds
  BY <1>1, <1>2 DEF Dispatching, InCharge, Objects
<1>4. /\ index' = [index EXCEPT ![c] = "kNew"]
      /\ interest' = [interest EXCEPT ![f] = Nothing]
      /\ failed' = failed
  <2>1. /\ index' = [index EXCEPT ![c] = "kNew"] /\ failed' = failed
        /\ interest' = IF index[c] = "kAdded" THEN [interest EXCEPT ![f] = Nothing]
                                              ELSE interest
    BY <1>1, <1>2, <1>3, RemovedDeletes
  <2>2. CASE index[c] # "kAdded"
    <3>1. \A d \in Channels : ~(fd[d] = f /\ index[d] = "kAdded")
      BY <1>1, <1>3, <2>2 DEF Objects
    <3>2. interest[f] = Nothing
      BY <1>1, <1>3, <3>1, NotRegistered
    <3> QED
      BY <1>1, <2>1, <2>2, <3>2
  <2> QED
    BY <2>1, <2>2
<1>5. /\ index'[c] = "kNew" /\ role'[c] = "gone"
      /\ \A d \in Channels \ {c} : index'[d] = index[d] /\ role'[d] = role[d]
      /\ index' \in [Channels -> {"kNew", "kAdded", "kDeleted"}]
      /\ role' \in [Channels -> Roles]
  BY <1>1, <1>2, <1>4 DEF Roles
<1>6. /\ Interest'
      /\ interest' \in [Fds -> [channel : Channels \cup {NoChannel}, events : SUBSET Event]]
  BY <1>1, <1>2, <1>3, <1>4, <1>5, TakenOffKeepsInterest
<1>7. TypeOK'
  BY <1>1, <1>2, <1>4, <1>5, <1>6 DEF TypeOK, Roles
<1>8. Objects'
  <2>1. /\ \A d \in Channels : role'[d] # "none" => fd[d] \in Fds
        /\ \A d \in Channels : role'[d] \in InCharge => fd[d] \in open
        /\ \A d, e \in Channels :
             role'[d] \in InCharge /\ role'[e] \in InCharge /\ fd[d] = fd[e] => d = e
    BY <1>1, <1>3, <1>5 DEF Objects
  <2>2. /\ \A d \in Channels : index'[d] = "kAdded" => role'[d] \in InCharge \ {"gone"}
        /\ \A d \in Channels :
             role'[d] = "connecting" => index'[d] = "kAdded" /\ events[d] # {}
        /\ \A d \in Channels : role'[d] = "connected" => "read" \in events[d]
        /\ \A d \in Channels :
             role'[d] \in {"connected", "closed", "leaving"} =>
               (index'[d] = "kAdded" <=> events[d] # {})
    BY <1>1, <1>5 DEF Objects
  <2> QED
    BY <1>2, <2>1, <2>2 DEF Objects
<1>9. Dispatching'
  BY <1>1, <1>2, <1>5 DEF Dispatching
<1>10. Queueing'
  BY <1>1, <1>2, <1>3, <1>5, QueueKept DEF Queueing
<1> QED
  BY <1>6, <1>7, <1>8, <1>9, <1>10 DEF IInv

\* The connection's last reference goes.
LEMMA DestroyStep ==
  ASSUME IInv, NEW c \in Channels, Destroy(c)
  PROVE  IInv'
<1> DEFINE f == fd[c]
<1>1. /\ TypeOK /\ Objects /\ Interest /\ Dispatching /\ Queueing
      /\ role \in [Channels -> Roles] /\ fd \in [Channels -> Fds \cup {NoFd}]
      /\ index \in [Channels -> {"kNew", "kAdded", "kDeleted"}]
      /\ open \subseteq Fds /\ ready \subseteq Fds \X Event
  BY DEF IInv, TypeOK, Roles
<1>2. /\ role[c] = "gone"
      /\ fd' = [fd EXCEPT ![c] = NoFd] /\ role' = [role EXCEPT ![c] = "none"]
      /\ open' = open \ {f} /\ ready' \subseteq ready
      /\ Registers(Closed(Registered, f))
      /\ UNCHANGED <<events, size, active, phase, left, current, functors>>
  BY DEF Destroy, round
<1>3. role[c] \in InCharge /\ f \in Fds /\ index[c] # "kAdded"
  BY <1>1, <1>2 DEF InCharge, Objects
<1>4. index' = index /\ interest' = [interest EXCEPT ![f] = Nothing] /\ failed' = failed
  BY <1>2 DEF Registers, Closed, Del, Registered
<1>5. /\ role'[c] = "none"
      /\ \A d \in Channels \ {c} : fd'[d] = fd[d] /\ role'[d] = role[d]
      /\ fd' \in [Channels -> Fds \cup {NoFd}] /\ role' \in [Channels -> Roles]
  BY <1>1, <1>2 DEF Roles
<1>6. /\ Interest'
      /\ interest' \in [Fds -> [channel : Channels \cup {NoChannel}, events : SUBSET Event]]
  BY <1>1, <1>2, <1>3, <1>4, <1>5, TakenOffKeepsInterest
<1>7. TypeOK'
  BY <1>1, <1>2, <1>4, <1>5, <1>6 DEF TypeOK, Roles
<1>8. Objects'
  <2>1. /\ \A d \in Channels : role'[d] # "none" => fd'[d] \in Fds
        /\ \A d \in Channels : role'[d] \in InCharge => fd'[d] \in open'
        /\ \A d, e \in Channels :
             role'[d] \in InCharge /\ role'[e] \in InCharge /\ fd'[d] = fd'[e] => d = e
    BY <1>1, <1>2, <1>3, <1>5 DEF Objects, InCharge
  <2>2. /\ \A d \in Channels : index[d] = "kAdded" => role'[d] \in InCharge \ {"gone"}
        /\ \A d \in Channels :
             role'[d] = "connecting" => index[d] = "kAdded" /\ events[d] # {}
        /\ \A d \in Channels : role'[d] = "connected" => "read" \in events[d]
        /\ \A d \in Channels :
             role'[d] \in {"connected", "closed", "leaving"} =>
               (index[d] = "kAdded" <=> events[d] # {})
    BY <1>1, <1>3, <1>5 DEF Objects
  <2> QED
    BY <1>2, <1>4, <2>1, <2>2 DEF Objects
<1>9. Dispatching'
  BY <1>1, <1>2, <1>5, DispatchKept DEF Handled
<1>10. Queueing'
  BY <1>1, <1>2, <1>5, QueueKept DEF Queueing
<1> QED
  BY <1>6, <1>7, <1>8, <1>9, <1>10 DEF IInv

\* resetChannel(): the object goes.
LEMMA ResetChannelStep ==
  ASSUME IInv, NEW c \in Channels, ResetChannel(c)
  PROVE  IInv'
<1>1. /\ TypeOK /\ Objects /\ Interest /\ Dispatching /\ Queueing
      /\ role \in [Channels -> Roles] /\ fd \in [Channels -> Fds \cup {NoFd}]
      /\ NoFd \notin Fds /\ NoChannel \notin Channels
  BY FdAssumption, ChannelAssumption
     DEF IInv, TypeOK, Roles, FdAssumption, ChannelAssumption
<1>2. /\ Take("resetChannel", c)
      /\ fd' = [fd EXCEPT ![c] = NoFd] /\ role' = [role EXCEPT ![c] = "none"]
      /\ phase = "functors" /\ current = NoChannel
      /\ UNCHANGED <<events, index, interest, failed, open, ready, size, active, phase, current>>
  BY DEF ResetChannel, Take, registration
<1>3. /\ Queueing' /\ left' \in Nat /\ role[c] = "removed"
      /\ functors' \in Seq({"resetChannel", "connectDestroyed"} \X Channels)
  BY <1>1, <1>2, QueueTaken
<1>4. index[c] # "kAdded"
  BY <1>1, <1>3 DEF Objects, InCharge
<1>5. /\ role'[c] = "none"
      /\ \A d \in Channels \ {c} : fd'[d] = fd[d] /\ role'[d] = role[d]
      /\ fd' \in [Channels -> Fds \cup {NoFd}] /\ role' \in [Channels -> Roles]
  BY <1>1, <1>2 DEF Roles
<1>6. TypeOK'
  BY <1>1, <1>2, <1>3, <1>5 DEF TypeOK, Roles
<1>7. Interest'
  BY <1>1, <1>2, <1>4, <1>5 DEF Interest
<1>8. Objects'
  BY <1>1, <1>2, <1>4, <1>5 DEF Objects, InCharge
<1>9. Dispatching'
  <2>1. active = {}
    BY <1>1, <1>2 DEF Dispatching
  <2> QED
    BY <1>1, <1>2, <1>5, <2>1 DEF Dispatching
<1> QED
  BY <1>3, <1>6, <1>7, <1>8, <1>9 DEF IInv

\* loop() and the kernel: the channels are left as they are.
LEMMA LoopPartsStep ==
  ASSUME IInv,
         \/ Poll \/ HandlerReturns \/ DoPendingFunctors \/ EndFunctors
         \/ \E c \in Channels : HandleEvent(c)
         \/ \E f \in Fds, e \in Event : BecomeReady(f, e)
  PROVE  IInv'
<1>1. /\ TypeOK /\ Objects /\ Interest /\ Dispatching /\ Queueing
      /\ NoChannel \notin Channels /\ Len(functors) \in Nat
      /\ open \subseteq Fds /\ ready \subseteq Fds \X Event
      /\ active \subseteq Channels /\ current \in Channels \cup {NoChannel}
      /\ size \in Nat \ {0} /\ left \in Nat
  BY ChannelAssumption, LenProperties DEF IInv, TypeOK, ChannelAssumption
<1>2. UNCHANGED <<fd, role, events, index, interest, failed, open, functors>>
  BY DEF Poll, HandlerReturns, DoPendingFunctors, EndFunctors, HandleEvent, BecomeReady,
         registration, round
<1>3. Interest' /\ Objects'
  BY <1>1, <1>2 DEF Interest, Objects
<1>4. /\ size' \in Nat \ {0} /\ ready' \subseteq Fds \X Event
      /\ left' \in Nat /\ left' <= Len(functors)
  <2>1. size' \in {size, 2 * size}
    BY DEF Poll, HandlerReturns, DoPendingFunctors, EndFunctors, HandleEvent, BecomeReady,
           round, Grown
  <2>2. ready' \subseteq Fds \X Event
    <3>1. CASE \E f \in Fds, e \in Event : BecomeReady(f, e)
      BY <1>1, <3>1 DEF BecomeReady
    <3>2. CASE HandlerReturns
      BY <1>1, <3>2 DEF HandlerReturns
    <3>3. CASE \/ Poll \/ DoPendingFunctors \/ EndFunctors
               \/ \E c \in Channels : HandleEvent(c)
      BY <1>1, <3>3 DEF Poll, DoPendingFunctors, EndFunctors, HandleEvent
    <3> QED
      BY <3>1, <3>2, <3>3
  <2>3. left' \in {left, Len(functors)}
    BY DEF Poll, HandlerReturns, DoPendingFunctors, EndFunctors, HandleEvent, BecomeReady,
           round
  <2> QED
    BY <1>1, <2>1, <2>2, <2>3 DEF Queueing
<1>5. Queueing'
  BY <1>1, <1>2, <1>4, QueueKept
<1>6. /\ Dispatching' /\ active' \subseteq Channels /\ current' \in Channels \cup {NoChannel}
      /\ phase' \in {"poll", "dispatch", "functors"}
  <2>1. CASE Poll
    <3>1. PICK s \in SUBSET Reported : active' = s
      BY <2>1 DEF Poll
    <3>2. /\ phase = "poll" /\ phase' = "dispatch" /\ current' = current
      BY <2>1 DEF Poll
    <3>3. current = NoChannel /\ \A c \in Channels : role[c] # "down"
      BY <1>1, <3>2 DEF Dispatching
    <3>4. \A c \in s : c \in Channels /\ index[c] = "kAdded"
      BY <1>1, <3>1 DEF Reported, Interest
    <3>5. \A c \in s : role[c] \in Handled
      BY <1>1, <3>3, <3>4 DEF Objects, InCharge, Handled
    <3> QED
      BY <1>2, <3>1, <3>2, <3>3, <3>4, <3>5 DEF Dispatching
  <2>2. CASE \E c \in Channels : HandleEvent(c)
    <3>1. PICK c \in Channels : HandleEvent(c)
      BY <2>2
    <3>2. /\ phase = "dispatch" /\ phase' = phase /\ c \in active
          /\ active' = active \ {c} /\ current' = c
      BY <3>1 DEF HandleEvent
    <3> QED
      BY <1>1, <1>2, <3>2 DEF Dispatching
  <2>3. CASE HandlerReturns \/ EndFunctors \/ DoPendingFunctors
    <3>1. /\ current' = NoChannel /\ active' = active
          /\ phase = "dispatch" => current # NoChannel \/ active = {}
          /\ phase' \in {"poll", "functors"} => active = {} /\ current = NoChannel
          /\ phase' \in {"poll", "dispatch", "functors"}
          /\ phase' = "dispatch" <=> HandlerReturns
          /\ HandlerReturns => phase = "dispatch"
      BY <1>1, <2>3 DEF HandlerReturns, EndFunctors, DoPendingFunctors, round, Dispatching
    <3>2. \A c \in Channels : role[c] # "down"
      BY <1>1, <2>3 DEF Dispatching, HandlerReturns, EndFunctors, DoPendingFunctors
    <3>3. \A c \in active : role[c] \in Handled /\ phase' = "dispatch"
      BY <1>1, <3>1 DEF Dispatching
    <3> QED
      BY <1>1, <1>2, <3>1, <3>2, <3>3 DEF Dispatching
  <2>4. CASE \E f \in Fds, e \in Event : BecomeReady(f, e)
    <3>1. UNCHANGED <<active, phase, current>>
      BY <2>4 DEF BecomeReady, round
    <3> QED
      BY <1>1, <1>2, <3>1 DEF Dispatching, TypeOK
  <2> QED
    BY <2>1, <2>2, <2>3, <2>4
<1>7. TypeOK'
  BY <1>1, <1>2, <1>4, <1>6 DEF TypeOK
<1> QED
  BY <1>3, <1>5, <1>6, <1>7 DEF IInv

\* Every step keeps the invariant.
LEMMA InvariantStep ==
  IInv /\ [Next]_vars => IInv'
<1> SUFFICES ASSUME IInv, [Next]_vars PROVE IInv'
  OBVIOUS
<1>1. CASE UNCHANGED vars
  BY <1>1 DEF vars, IInv, TypeOK, Objects, Interest, Dispatching, Queueing
<1>2. CASE LoopStep
  BY <1>2, LoopPartsStep, ResetChannelStep, ConnectDestroyedStep, RemoveChannelStep
     DEF LoopStep
<1>3. CASE ApplicationStep
  <2>1. PICK c \in Channels :
          \/ \E f \in Fds : Connecting(c, f) \/ ConnectEstablished(c, f)
          \/ Retry(c) \/ \E d \in Channels : HandOver(c, d)
          \/ EnableWriting(c) \/ DisableWriting(c) \/ HandleClose(c)
          \/ OwnerRemoves(c) \/ Destroy(c)
    BY <1>3 DEF ApplicationStep
  <2>2. ASSUME NEW f \in Fds, Connecting(c, f) \/ ConnectEstablished(c, f) PROVE IInv'
    <3>1. PICK use \in {"connecting", "connected"}, ev \in {{"read"}, {"write"}} :
            Opens(c, f, use, ev) /\ (use = "connected" => ev = {"read"})
      BY <2>2 DEF Connecting, ConnectEstablished
    <3> QED
      BY <3>1, OpensStep
  <2> QED
    BY <2>1, <2>2, RetryStep, HandOverStep, EventsStep, OwnerRemovesStep, DestroyStep
<1>4. CASE \E f \in Fds, e \in Event : BecomeReady(f, e)
  BY <1>4, LoopPartsStep
<1> QED
  BY <1>1, <1>2, <1>3, <1>4 DEF Next

\* A loop without channels satisfies the invariant.
LEMMA InvariantInit ==
  Init => IInv
<1> SUFFICES ASSUME Init PROVE IInv
  OBVIOUS
<1>1. NoChannel \notin Channels /\ kInitEventListSize \in Nat \ {0}
  BY ChannelAssumption, SizeAssumption DEF ChannelAssumption, SizeAssumption
<1>2. TypeOK
  <2>1. /\ Nothing \in [channel : Channels \cup {NoChannel}, events : SUBSET Event]
        /\ << >> \in Seq({"resetChannel", "connectDestroyed"} \X Channels)
    BY DEF Nothing
  <2>2. /\ fd \in [Channels -> Fds \cup {NoFd}] /\ events \in [Channels -> SUBSET Event]
        /\ interest \in [Fds -> [channel : Channels \cup {NoChannel}, events : SUBSET Event]]
    BY <2>1 DEF Init
  <2> QED
    BY <1>1, <2>1, <2>2 DEF Init, TypeOK
<1>3. Objects
  BY DEF Init, Objects, InCharge
<1>4. Interest
  BY <1>1 DEF Init, Interest, Nothing
<1>5. Dispatching /\ Queueing
  BY DEF Init, Dispatching, Queueing
<1> QED
  BY <1>2, <1>3, <1>4, <1>5 DEF IInv

\* The invariant holds in every state of every behaviour.
THEOREM Invariance == Spec => []IInv
<1> QED
  BY InvariantInit, InvariantStep, PTL DEF Spec

\* The poller's variables keep their types; the array for epoll_wait() never gets
\* empty.
THEOREM TypeCorrect == Spec => []TypeOK
<1>1. IInv => TypeOK
  BY DEF IInv
<1> QED
  BY <1>1, Invariance, PTL

\* EPoller's and Channel's idea of the interest list is the kernel's: no
\* epoll_ctl(2) fails, and what polls has events, however owners come, hand their
\* descriptors over, close them and go.
THEOREM InterestKept == Spec => []InterestAgrees
<1>1. IInv => InterestAgrees
  <2> SUFFICES ASSUME IInv PROVE InterestAgrees
    OBVIOUS
  <2>1. Interest /\ Objects /\ Dispatching /\ events \in [Channels -> SUBSET Event]
    BY DEF IInv, TypeOK
  <2>2. ASSUME phase = "poll", NEW c \in Channels, index[c] = "kAdded" PROVE events[c] # {}
    <3>1. role[c] \in InCharge \ {"gone"} /\ role[c] # "down"
      BY <2>1, <2>2 DEF Objects, Dispatching
    <3> QED
      BY <2>1, <2>2, <3>1 DEF Objects, InCharge
  <2> QED
    BY <2>1, <2>2 DEF InterestAgrees, Interest
<1> QED
  BY <1>1, Invariance, PTL

\* The raw pointers in epoll_data, activeChannels_, handleEvent() and the bound
\* functors are to objects that have not been deleted.
THEOREM PointersHold == Spec => []NoDanglingPointer
<1>1. IInv => NoDanglingPointer
  <2> SUFFICES ASSUME IInv PROVE NoDanglingPointer
    OBVIOUS
  <2>1. /\ Interest /\ Objects /\ Dispatching /\ Queueing
        /\ interest \in [Fds -> [channel : Channels \cup {NoChannel}, events : SUBSET Event]]
        /\ active \subseteq Channels /\ current \in Channels \cup {NoChannel}
        /\ NoFd \notin Fds
        /\ functors \in Seq({"resetChannel", "connectDestroyed"} \X Channels)
    BY FdAssumption DEF IInv, TypeOK, FdAssumption
  <2>2. \A c \in Channels : role[c] # "none" => fd[c] # NoFd
    BY <2>1 DEF Objects
  <2>3. \A f \in Fds : interest[f].channel # NoChannel => fd[interest[f].channel] # NoFd
    <3> SUFFICES ASSUME NEW f \in Fds, interest[f].channel # NoChannel
                 PROVE  fd[interest[f].channel] # NoFd
      OBVIOUS
    <3>1. interest[f].channel \in Channels
      BY <2>1
    <3> QED
      BY <2>1, <3>1 DEF Interest
  <2>4. \A c \in active \cup ({current} \ {NoChannel}) : fd[c] # NoFd
    BY <2>1, <2>2 DEF Dispatching, Handled
  <2>5. \A i \in DOMAIN functors : fd[functors[i][2]] # NoFd
    <3> SUFFICES ASSUME NEW i \in DOMAIN functors PROVE fd[functors[i][2]] # NoFd
      OBVIOUS
    <3>1. functors[i][2] \in Channels
      BY <2>1
    <3>2. role[functors[i][2]] \in {"removed", "leaving"}
      BY <2>1 DEF Queueing
    <3> QED
      BY <2>2, <3>1, <3>2
  <2> QED
    BY <2>3, <2>4, <2>5 DEF NoDanglingPointer
<1> QED
  BY <1>1, Invariance, PTL

=============================================================================
