----------------------------- MODULE TimerQueue -----------------------------
(***************************************************************************)
(* datetime/TimerQueue.{h,cc} and Timer.{h,cc}: timers kept in a set       *)
(* ordered by expiration, with one timerfd armed for the earliest.         *)
(*                                                                         *)
(* TimerQueue works in its loop's thread.  addTimer() and cancel() from    *)
(* another thread reach it through queueInLoop(), whose promise - functors *)
(* are called in order, once, between handlers - is `inbox' here (module   *)
(* Executor, which EventLoop is shown to implement).  handleRead() runs    *)
(* user callbacks, which call addTimer() and cancel() themselves, so it is *)
(* split into its parts.                                                   *)
(*                                                                         *)
(* Expirations are read off the wall clock, the timerfd counts on          *)
(* CLOCK_MONOTONIC: somebody may set the first while the second ticks on.  *)
(* A tick stands for the 100us that howMuchTimeFromNow() grants at least.  *)
(***************************************************************************)
EXTENDS Integers, Sequences, FiniteSets

CONSTANTS MaxTimers,     \* bound: timers created
          MaxTime,       \* bound: timers are created, and time passes, up to here
          MaxSteps,      \* bound: times somebody sets the wall clock
          Intervals      \* the intervals given to runEvery()

ASSUME BoundAssumption == MaxTimers \in Nat /\ MaxTime \in Nat /\ MaxSteps \in Nat
ASSUME IntervalAssumption == Intervals \subseteq Nat \ {0}

\* A timer is named by its sequence number: s_numCreated_++, from 0.
Timer == 0..(MaxTimers - 1)
Disarmed == -1

VARIABLES
  mono, offset, steps,   \* CLOCK_MONOTONIC; wall clock minus it; settings so far
  created,               \* s_numCreated_
  expiration, interval,  \* the Timer objects
  alive,                 \* the Timer objects not deleted
  timers,                \* timers_: pairs <<expiration, timer>>
  activeTimers,          \* activeTimers_: pairs <<timer, sequence>>
  cancelingTimers,       \* cancelingTimers_
  calling,               \* callingExpiredTimers_
  expired,               \* handleRead()'s local vector
  toRun,                 \* the part of it still to be run
  inCallback,            \* a callback is running
  readAt,                \* handleRead()'s local now
  armed,                 \* when the timerfd expires, or Disarmed
  inbox,                 \* functors other threads queued for the loop thread
  asked,                 \* timers on which cancel() has been called
  cancelled              \* history: cancelInLoop() was told to cancel these in time

clock == <<mono, offset, steps>>
objects == <<created, expiration, interval>>
reading == <<calling, expired, toRun, inCallback, readAt>>
vars == <<mono, offset, steps, created, expiration, interval, alive, timers,
          activeTimers, cancelingTimers, calling, expired, toRun, inCallback,
          readAt, armed, inbox, asked, cancelled>>

wall == mono + offset
MaxOf(a, b) == IF a < b THEN b ELSE a

Scheduled == {e[2] : e \in timers}

\* Seeded fault: the key made of the current time.
EntryNow(t) == <<wall, t>>

Entry(t) == <<expiration[t], t>>
ActiveTimer(t) == <<t, t>>

\* addTimer() returns TimerId(timer), whose sequence defaults to 0.
Handle(t) == <<t, 0>>

\* Application code runs in the loop thread: a callback, or a handler or functor
\* while no handleRead() is under way.
InUserCode == inCallback \/ ~calling

Init ==
  /\ mono = 1 /\ offset = 0 /\ steps = 0 /\ created = 0
  /\ expiration = [t \in Timer |-> 0] /\ interval = [t \in Timer |-> 0]
  /\ alive = {} /\ timers = {} /\ activeTimers = {} /\ cancelingTimers = {}
  /\ calling = FALSE /\ expired = {} /\ toRun = {} /\ inCallback = FALSE
  /\ readAt = 0 /\ armed = Disarmed /\ inbox = << >>
  /\ asked = {} /\ cancelled = {}

-----------------------------------------------------------------------------
(* addTimer *)

\* resetTimerfd(): the wait is at least one tick.
Rearm(when) == armed' = mono + MaxOf(1, when - wall)

\* Seeded fault: a later timer never re-arms.
IsFirst(when) == timers = {}

\* insert() finds that the timer becomes the earliest.
IsEarliest(when) == \A e \in timers : when < e[1]

\* Seeded fault: ++s_numCreated_ for s_numCreated_++.
NewTimerPreIncrement(when, itv) ==
  /\ created < MaxTimers /\ mono <= MaxTime
  /\ created' = created + 1
  /\ expiration' = [expiration EXCEPT ![created] = when]
  /\ interval' = [interval EXCEPT ![created] = itv]
  /\ alive' = alive \cup {created + 1}

\* new Timer(cb, when, itv)
NewTimer(when, itv) ==
  /\ created < MaxTimers /\ mono <= MaxTime
  /\ created' = created + 1
  /\ expiration' = [expiration EXCEPT ![created] = when]
  /\ interval' = [interval EXCEPT ![created] = itv]
  /\ alive' = alive \cup {created}

\* insert() and the re-arming in addTimerInLoop().
AddTimerInLoop(t, when) ==
  /\ timers' = timers \cup {<<when, t>>}
  /\ activeTimers' = activeTimers \cup {ActiveTimer(t)}
  /\ IF IsEarliest(when) THEN Rearm(when) ELSE UNCHANGED armed

\* runAt() takes any time, runEvery() starts one interval from now.
Schedules == {<<when, 0>> : when \in 1..MaxTime}
               \cup {<<wall + itv, itv>> : itv \in Intervals}

OwnAddTimer ==
  /\ InUserCode
  /\ \E s \in Schedules : NewTimer(s[1], s[2]) /\ AddTimerInLoop(created, s[1])
  /\ UNCHANGED <<clock, cancelingTimers, reading, inbox, asked, cancelled>>

ForeignAddTimer ==
  /\ \E s \in Schedules : NewTimer(s[1], s[2])
  /\ inbox' = Append(inbox, <<"add", created>>)
  /\ UNCHANGED <<clock, timers, activeTimers, cancelingTimers, reading, armed,
                 asked, cancelled>>

-----------------------------------------------------------------------------
(* cancel *)

\* The application holds the handle and uses it once.
Asking(t) == t < created /\ t \notin asked /\ asked' = asked \cup {t}

\* Seeded fault: a timer of the running batch is deleted under it.
FoundInBatch(t) == Handle(t) \in activeTimers \/ t \in expired

Found(t) == Handle(t) \in activeTimers

CancelInLoop(t) ==
  /\ cancelled' = IF t \in Scheduled \cup expired THEN cancelled \cup {t} ELSE cancelled
  /\ IF Found(t)
     THEN /\ timers' = timers \ {Entry(t)}
          /\ alive' = alive \ {t}
          /\ activeTimers' = activeTimers \ {Handle(t)}
          /\ UNCHANGED cancelingTimers
     ELSE /\ cancelingTimers' = IF calling THEN cancelingTimers \cup {Handle(t)}
                                           ELSE cancelingTimers
          /\ UNCHANGED <<timers, alive, activeTimers>>

OwnCancel(t) ==
  /\ InUserCode
  /\ Asking(t) /\ CancelInLoop(t)
  /\ UNCHANGED <<clock, objects, reading, armed, inbox>>

ForeignCancel(t) ==
  /\ Asking(t)
  /\ inbox' = Append(inbox, <<"cancel", t>>)
  /\ UNCHANGED <<clock, objects, alive, timers, activeTimers, cancelingTimers,
                 reading, armed, cancelled>>

\* The loop thread calls the oldest functor.
CallFunctor ==
  /\ ~calling /\ inbox # << >>
  /\ inbox' = Tail(inbox)
  /\ LET t == Head(inbox)[2] IN
       IF Head(inbox)[1] = "add"
       THEN AddTimerInLoop(t, expiration[t])
            /\ UNCHANGED <<alive, cancelingTimers, cancelled>>
       ELSE CancelInLoop(t) /\ UNCHANGED armed
  /\ UNCHANGED <<clock, objects, reading, asked>>

-----------------------------------------------------------------------------
(* handleRead *)

TimerfdReadable == armed # Disarmed /\ armed <= mono

Due == {e \in timers : e[1] <= wall}

\* readTimerfd() and getExpired().
HandleRead ==
  /\ ~calling /\ TimerfdReadable
  /\ armed' = Disarmed
  /\ readAt' = wall
  /\ timers' = timers \ Due
  /\ activeTimers' = activeTimers \ {ActiveTimer(e[2]) : e \in Due}
  /\ expired' = {e[2] : e \in Due}
  /\ toRun' = expired'
  /\ calling' = TRUE
  /\ cancelingTimers' = {}
  /\ UNCHANGED <<clock, objects, alive, inCallback, inbox, asked, cancelled>>

\* The vector is sorted by expiration, then by address.
RunTimer(t) ==
  /\ calling /\ ~inCallback
  /\ t \in toRun
  /\ \A u \in toRun : expiration[t] <= expiration[u]
  /\ toRun' = toRun \ {t}
  /\ inCallback' = TRUE
  /\ UNCHANGED <<clock, objects, alive, timers, activeTimers, cancelingTimers,
                 calling, expired, readAt, armed, inbox, asked, cancelled>>

CallbackReturns ==
  /\ inCallback
  /\ inCallback' = FALSE
  /\ UNCHANGED <<clock, objects, alive, timers, activeTimers, cancelingTimers,
                 calling, expired, toRun, readAt, armed, inbox, asked, cancelled>>

\* Seeded fault: a callback's cancel() forgotten.
RepeatingAlways == {t \in expired : interval[t] > 0}

\* The expired timers that run again.
Repeating == {t \in expired : interval[t] > 0 /\ ActiveTimer(t) \notin cancelingTimers}

\* Seeded fault: the end of reset() is lost.
RearmNever == UNCHANGED armed

\* The end of reset().
RearmForEarliest ==
  IF timers' = {} THEN UNCHANGED armed
  ELSE \E e \in timers' : (\A f \in timers' : e[1] <= f[1]) /\ Rearm(e[1])

\* reset(): restart() and insert() what repeats, delete the rest, re-arm for the
\* earliest.
Reset ==
  /\ calling /\ ~inCallback /\ toRun = {}
  /\ calling' = FALSE
  /\ expired' = {}
  /\ expiration' = [t \in Timer |-> IF t \in Repeating THEN readAt + interval[t]
                                                       ELSE expiration[t]]
  /\ timers' = timers \cup {<<readAt + interval[t], t>> : t \in Repeating}
  /\ activeTimers' = activeTimers \cup {ActiveTimer(t) : t \in Repeating}
  /\ alive' = alive \ (expired \ Repeating)
  /\ RearmForEarliest
  /\ UNCHANGED <<clock, created, interval, cancelingTimers, toRun, inCallback,
                 readAt, inbox, asked, cancelled>>

-----------------------------------------------------------------------------
(* Time *)

LoopAsleep == ~calling /\ inbox = << >> /\ ~TimerfdReadable

\* Bound: beyond MaxTime the clock only runs out the wait of an armed timerfd,
\* which the settings of the wall clock can prolong.
Horizon == IF LoopAsleep /\ armed # Disarmed THEN MaxTime + 2 * MaxSteps + 1 ELSE MaxTime

Tick ==
  /\ mono < Horizon
  /\ mono' = mono + 1
  /\ UNCHANGED <<offset, steps, objects, alive, timers, activeTimers,
                 cancelingTimers, reading, armed, inbox, asked, cancelled>>

\* settimeofday() or ntpd, by a tick at a time.
SetClock ==
  /\ steps < MaxSteps
  /\ steps' = steps + 1
  /\ offset' \in {offset - 1, offset + 1}
  /\ mono + offset' >= 1
  /\ UNCHANGED <<mono, objects, alive, timers, activeTimers, cancelingTimers,
                 reading, armed, inbox, asked, cancelled>>

LoopStep == CallFunctor \/ HandleRead \/ CallbackReturns \/ Reset
              \/ \E t \in Timer : RunTimer(t)

Next ==
  \/ OwnAddTimer \/ ForeignAddTimer
  \/ \E t \in Timer : OwnCancel(t) \/ ForeignCancel(t)
  \/ LoopStep \/ Tick \/ SetClock

Spec == Init /\ [][Next]_vars

(***************************************************************************)
(* Time passes, the loop thread is scheduled, poll() reports a readable    *)
(* timerfd, callbacks return.                                              *)
(***************************************************************************)
FairSpec == Spec /\ WF_vars(Tick) /\ WF_vars(LoopStep)

-----------------------------------------------------------------------------
(* Properties *)

\* Type correctness; a batch is a set of timers that are still to be deleted or kept.
TypeOK ==
  /\ mono \in Nat /\ offset \in Int /\ steps \in Nat
  /\ created \in 0..MaxTimers
  /\ expiration \in [Timer -> Int] /\ interval \in [Timer -> Nat]
  /\ alive \subseteq Timer
  /\ timers \subseteq Int \X Timer
  /\ activeTimers \subseteq Timer \X Timer
  /\ cancelingTimers \subseteq Timer \X Nat
  /\ calling \in BOOLEAN /\ inCallback \in BOOLEAN
  /\ expired \subseteq Timer /\ toRun \subseteq expired
  /\ readAt \in Int /\ armed \in Int
  /\ inbox \in Seq({"add", "cancel"} \X Timer)
  /\ asked \subseteq Timer /\ cancelled \subseteq Timer

\* timers_ and activeTimers_ hold the same timers, under the expiration and the
\* sequence the Timer objects have now.  The assertions of cancelInLoop() (equal
\* sizes, erase() finds one) and of insert() follow.
SetsAgree == /\ activeTimers = {ActiveTimer(t) : t \in Scheduled}
             /\ \A e \in timers : e[1] = expiration[e[2]]

Posted == {inbox[i][2] : i \in {j \in DOMAIN inbox : inbox[j][1] = "add"}}

\* Every Timer object has exactly one owner - the queue, the batch handleRead()
\* is running, or a functor on its way to the loop - so none leaks, none is
\* deleted twice and none is run after its deletion, whatever a callback cancels.
OneOwner == /\ alive = Scheduled \cup expired \cup Posted
            /\ Scheduled \cap expired = {}
            /\ (Scheduled \cup expired) \cap Posted = {}

\* While the loop may go to sleep the timerfd is armed for every timer of the
\* queue: it expires at its time or, if that has passed, with the next tick, and
\* later only by as much as the wall clock was moved.
ArmedInTime == ~calling => \A e \in timers :
  armed # Disarmed /\ armed <= MaxOf(e[1] + steps, mono + 1)

\* cancelInLoop() of a timer that is scheduled or in the running batch, through
\* a handle with the timer's own sequence: the timer is not scheduled again, even
\* if it repeats and cancels itself.
CancelTakesEffect == \A t \in cancelled : Handle(t) = ActiveTimer(t) => t \notin Scheduled

\* Connector::stop() says "stop retry" of its loop_->cancel(timerId_): whatever
\* timer the handle was returned for, it does not stay scheduled.
CancelStopsTimer == cancelled \cap Scheduled = {}

Outstanding(t, when) == t \in alive /\ expiration[t] = when

\* A timer is run or cancelled once its time has come: its expiration does not
\* stay outstanding, though the wall clock is set meanwhile.
TimersRun == \A t \in Timer, when \in 1..MaxTime :
  Outstanding(t, when) ~> ~Outstanding(t, when)
=============================================================================
