----------------------------- MODULE TimerWheel -----------------------------
(***************************************************************************)
(* datetime/TimerWheel.cc: timers wait in the buckets of a hierarchy of    *)
(* wheels, a delay queue holds the buckets with timers, and a timerfd is   *)
(* armed for the front of that queue.  One loop thread does it all;        *)
(* callbacks neither add nor cancel timers.                                *)
(*                                                                         *)
(* Time is a number of units; level 1 has ticks of Tick units, a tick of   *)
(* the next level is a turn of the one below.  A bucket is <<level, id>>.  *)
(* std::list::sort() compares the pointers to the buckets, taken to be in  *)
(* the order in which the buckets were allocated; as the queue is sorted   *)
(* after every insertion it is a set here, whose front is its least one.   *)
(***************************************************************************)
EXTENDS Integers, Sequences, FiniteSetsExt

CONSTANTS
  Timer,
  Tick,         \* the base tick, at least 1
  WheelSize,    \* buckets in a wheel, at least 2
  Intervals,    \* the intervals of the timers; 0: runs once
  MaxDelay,     \* bound: a timer is set for at most so much after now
  MaxLevel,     \* bound: how high MaxDelay can reach
  LastAdd,      \* bound: no timer is added after that time
  MaxTime       \* bound: when time stops

VARIABLES
  now,     \* the clock
  wheel,   \* the TimerWheel: see Init
  timer,   \* timer[t]: its expiration_ and its intervalSeconds_
  place,   \* place[t]: the bucket of timer t, or what became of it
  ran,     \* the timers that ran at least once
  failed   \* cancelInLoop() went through a TimerPos that is not there

vars == <<now, wheel, timer, place, ran, failed>>

Bucket == (1..MaxLevel) \X (0..(WheelSize - 1))
NotArmed == 0
Invalid == 0                     \* TimeStamp::invalid()
NotAdded == <<"not added">>
Deleted == <<"deleted">>
Lost == <<"in no bucket">>       \* allocated, and nothing will run it

\* The tick and the interval of a wheel of level l.
TickOf(l) == Tick * WheelSize^(l - 1)
TurnOf(l) == Tick * WheelSize^l

Init ==
  /\ now \in 1..TurnOf(1)
  /\ wheel = [currentTime |-> <<now>>,   \* currentTime_ of each level there is
              expirationTime |-> [b \in Bucket |-> Invalid],
              delayQueue |-> {},
              timerfd |-> NotArmed]      \* when it fires
  /\ timer = [t \in Timer |-> [expiration |-> Invalid, interval |-> 0]]
  /\ place = [t \in Timer |-> NotAdded]
  /\ ran = {}
  /\ failed = FALSE

-----------------------------------------------------------------------------
Before(b, c) == b[1] < c[1] \/ (b[1] = c[1] /\ b[2] < c[2])

Front(queue) == CHOOSE b \in queue : \A c \in queue : c = b \/ Before(b, c)

\* updateDelayQueue(): the front's expiration is compared after that of b was
\* set; when b was and stays the front the timerfd is not set again.
UpdateDelayQueue(w, b) ==
  LET queue == w.delayQueue \cup {b}
      newExpiration == w.expirationTime[Front(queue)]
      isSame == /\ w.delayQueue # {}
                /\ w.expirationTime[Front(w.delayQueue)] = newExpiration
  IN [w EXCEPT !.delayQueue = queue,
               !.timerfd = IF isSame THEN @ ELSE newExpiration]

\* The level that takes an expiration; a level that does not exist yet starts
\* with the time of the highest one.
Reached(w, l) ==
  [w EXCEPT !.currentTime =
     [k \in 1..Max({l, Len(@)}) |-> IF k <= Len(@) THEN @[k] ELSE @[Len(@)]]]

LevelFor(w, e) ==
  Min({l \in 1..MaxLevel : e < Reached(w, l).currentTime[l] + TurnOf(l)})

\* insert() returns true: the expiration is in the current tick.
Expired(w, e) == e < w.currentTime[1] + Tick

BucketFor(w, e) ==
  LET l == LevelFor(w, e) IN <<l, (e \div TickOf(l)) % WheelSize>>

\* insert() when it returns false: the bucket expires so many ticks after
\* currentTime_ as its number says.
Insert(w, e) ==
  LET b == BucketFor(w, e)
      v == Reached(w, b[1])
      expires == v.currentTime[b[1]] + b[2] * TickOf(b[1])
  IN IF v.expirationTime[b] = expires THEN v
     ELSE UpdateDelayQueue([v EXCEPT !.expirationTime[b] = expires], b)

-----------------------------------------------------------------------------
\* addTimer(), called in the loop thread, for the first time or again with a
\* new timer: a timer that is due runs at once, and if it repeats it is inserted
\* again, whatever insert() says then.
AddTimer(t, e, i) ==
  LET again == now + i
      first == IF Expired(wheel, e) THEN again ELSE e
  IN /\ ~failed /\ now <= LastAdd
     /\ place[t] = NotAdded
     /\ timer' = [timer EXCEPT ![t] = [expiration |-> first, interval |-> i]]
     /\ ran' = IF Expired(wheel, e) THEN ran \cup {t} ELSE ran
     /\ IF Expired(wheel, e) /\ i = 0
        THEN place' = [place EXCEPT ![t] = Deleted] /\ UNCHANGED wheel
        ELSE IF Expired(wheel, first)
        THEN place' = [place EXCEPT ![t] = Lost] /\ UNCHANGED wheel
        ELSE /\ place' = [place EXCEPT ![t] = BucketFor(wheel, first)]
             /\ wheel' = Insert(wheel, first)
     /\ UNCHANGED <<now, failed>>

\* cancelInLoop(): a timer that ran and was deleted, or that is in no bucket,
\* has no TimerPos or a stale one.
Cancel(t) ==
  /\ ~failed
  /\ place[t] # NotAdded
  /\ IF place[t] \in Bucket
     THEN place' = [place EXCEPT ![t] = Deleted] /\ UNCHANGED failed
     ELSE failed' = TRUE /\ UNCHANGED place
  /\ UNCHANGED <<now, wheel, timer, ran>>

\* getExpired(): buckets from the front while they have expired.
ExpiredBuckets ==
  {b \in wheel.delayQueue :
     \A c \in wheel.delayQueue :
       c = b \/ Before(c, b) => wheel.expirationTime[c] < now}

\* advanceClock(), level after level.
AdvancedClock(times) ==
  LET time[l \in DOMAIN times] ==
        LET lower == IF l = 1 THEN now ELSE time[l - 1]
        IN IF lower >= times[l] + TickOf(l)
           THEN lower - (lower % TickOf(l)) ELSE times[l]
  IN time

\* The last two statements of handleRead().
Rearmed(w) ==
  IF w.delayQueue = {} THEN w
  ELSE [w EXCEPT !.timerfd = w.expirationTime[Front(w.delayQueue)]]

\* handleRead(): the timers of the expired buckets run; those that repeat are
\* inserted again, if insert() does not find them due again.
HandleRead ==
  /\ ~failed
  /\ wheel.timerfd # NotArmed /\ now >= wheel.timerfd
  /\ LET buckets == ExpiredBuckets
         timers == {t \in Timer : place[t] \in buckets}
         again == {t \in timers : timer[t].interval > 0}
         w == [wheel EXCEPT !.timerfd = NotArmed,
                            !.delayQueue = @ \ buckets,
                            !.currentTime = AdvancedClock(@)]
         next(t) == now + timer[t].interval
         inserted == {t \in again : ~Expired(w, next(t))}
     IN /\ ran' = ran \cup timers
        /\ timer' = [t \in Timer |->
             IF t \in again THEN [timer[t] EXCEPT !.expiration = next(t)]
             ELSE timer[t]]
        /\ place' = [t \in Timer |->
             IF t \notin timers THEN place[t]
             ELSE IF t \notin again THEN Deleted
             ELSE IF t \notin inserted THEN Lost
             ELSE BucketFor(w, next(t))]
        /\ wheel' = Rearmed(FoldSet(LAMBDA t, v : Insert(v, next(t)), w, inserted))
  /\ UNCHANGED <<now, failed>>

TimePasses ==
  /\ ~failed /\ now < MaxTime
  /\ now' = now + 1
  /\ UNCHANGED <<wheel, timer, place, ran, failed>>

Next ==
  \/ \E t \in Timer :
       \/ \E e \in now..(now + MaxDelay), i \in Intervals : AddTimer(t, e, i)
       \/ Cancel(t)
  \/ HandleRead
  \/ TimePasses

Spec == Init /\ [][Next]_vars

FairSpec == Spec /\ WF_vars(HandleRead) /\ WF_vars(TimePasses)

-----------------------------------------------------------------------------
\* "Add a timer to run 'cb' at 'when'": a timer that was put into a bucket and is
\* not cancelled runs some time.
TimersRun ==
  \A t \in Timer :
    place[t] \in Bucket ~> (t \in ran \/ place[t] = Deleted \/ failed)
=============================================================================
