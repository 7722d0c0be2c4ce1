----------------------------- MODULE EventLoop ------------------------------
(***************************************************************************)
(* reactor/EventLoop.{h,cc}: one thread runs loop(); any thread may call   *)
(* queueInLoop(), runInLoop() and quit().  Functors cross over in          *)
(* pendingFunctors_ (guarded by mutex_); an eventfd gets the loop thread   *)
(* out of poll().                                                          *)
(*                                                                         *)
(* The loop thread is a program counter over the statements of loop() and  *)
(* doPendingFunctors().  Application code - a channel's handler, a functor *)
(* or what the loop thread does outside loop() - is any sequence of calls  *)
(* into the loop; runInLoop() on the loop thread is a plain call of the    *)
(* callback, so it adds nothing to that.  A foreign caller is between the  *)
(* unlock of mutex_ and the write to the eventfd when it is in "wakeup".   *)
(*                                                                         *)
(* quit_ is a plain bool written by one thread and read by another.  The   *)
(* read sits between opaque calls (epoll_wait, functors) and the write is  *)
(* followed by a system call, so the build reloads and publishes it.       *)
(***************************************************************************)
EXTENDS Integers, Sequences, FiniteSets

CONSTANTS LoopThread,   \* the thread that constructed the loop
          Callers,      \* every other thread that holds a pointer to it
          Channels,     \* the application's channels, without wakeupChannel_
          MaxCalls,     \* bound: calls of queueInLoop() and quit() per thread
          Busy,         \* bound: the threads that make more than one of them
          PollTimesOut  \* pollMs_ >= 0: poll() gives up by itself

WakeupChannel == "wakeupChannel_"
Threads == Callers \cup {LoopThread}

\* The k-th call a thread makes, when it is queueInLoop(), queues functor <<t, k>>.
Functor == Threads \X (1..MaxCalls)

ASSUME ThreadAssumption == LoopThread \notin Callers
ASSUME ChannelAssumption == WakeupChannel \notin Channels
ASSUME BoundAssumption == MaxCalls \in Nat /\ Busy \subseteq Threads
ASSUME PollAssumption == PollTimesOut \in BOOLEAN

VARIABLES
  pc,            \* where the loop thread is
  quit,          \* quit_
  doing,         \* doingPendingFunctors_
  pending,       \* pendingFunctors_
  batch,         \* the local vector of doPendingFunctors(), from the next one on
  eventfd,       \* the counter behind wakeupFd_
  ready,         \* application channels whose fd is ready
  active,        \* activeChannels_ not dispatched yet
  callerPc,      \* where each foreign thread is
  calls,         \* calls made so far, per thread
  executed,      \* history: functors called, in order
  pushed,        \* history: functors pushed, in order
  early          \* history: pushed by the loop thread outside loop()

loopVars == <<pc, quit, doing, batch, active>>
history == <<executed, pushed, early>>
vars == <<pc, quit, doing, pending, batch, eventfd, ready, active,
          callerPc, calls, executed, pushed, early>>

\* looping_ is true from the first statement of loop() to its last.
looping == pc # "outside"

\* Application code of the loop thread is running.
InUserCode == pc \in {"outside", "handler", "functor"}

Init ==
  /\ pc = "outside" /\ quit = FALSE /\ doing = FALSE
  /\ pending = << >> /\ batch = << >> /\ eventfd = 0
  /\ ready = {} /\ active = {}
  /\ callerPc = [t \in Callers |-> "user"]
  /\ calls = [t \in Threads |-> 0]
  /\ executed = << >> /\ pushed = << >> /\ early = {}

-----------------------------------------------------------------------------
(* Calls made by any thread *)

\* The t-th thread's next call.
Calling(t) == /\ calls[t] < MaxCalls /\ (t \in Busy \/ calls[t] = 0)
              /\ calls' = [calls EXCEPT ![t] = @ + 1]

NextFunctor(t) == <<t, calls[t] + 1>>

\* Seeded fault: the vector used as a stack.
PushFront(t) == /\ pending' = <<NextFunctor(t)>> \o pending
                /\ pushed' = Append(pushed, NextFunctor(t))

Push(t) == /\ pending' = Append(pending, NextFunctor(t))
           /\ pushed' = Append(pushed, NextFunctor(t))

\* Seeded fault: nobody writes.
WakeupDropped == UNCHANGED eventfd

\* wakeup(): the eventfd adds what is written to it.
Wakeup == eventfd' = eventfd + 1

\* queueInLoop(), and runInLoop() which is the same off the loop thread: the
\* push, up to the unlock.
CallerQueue(t) ==
  /\ callerPc[t] = "user"
  /\ Calling(t) /\ Push(t)
  /\ callerPc' = [callerPc EXCEPT ![t] = "wakeup"]
  /\ UNCHANGED <<loopVars, eventfd, ready, executed, early>>

\* quit() up to the store.
CallerQuit(t) ==
  /\ callerPc[t] = "user"
  /\ Calling(t)
  /\ quit' = TRUE
  /\ callerPc' = [callerPc EXCEPT ![t] = "wakeup"]
  /\ UNCHANGED <<pc, doing, batch, active, pending, eventfd, ready, history>>

CallerWakeup(t) ==
  /\ callerPc[t] = "wakeup"
  /\ Wakeup
  /\ callerPc' = [callerPc EXCEPT ![t] = "user"]
  /\ UNCHANGED <<loopVars, pending, ready, calls, history>>

\* Seeded fault: "not the loop thread" taken for the whole condition.
OwnWakeupNever == UNCHANGED eventfd

\* On the loop thread the eventfd is written only while the functors are called.
OwnWakeup == IF doing THEN Wakeup ELSE UNCHANGED eventfd

\* queueInLoop() on the loop thread.  Only this thread reads the eventfd, so the
\* push and the write are one step.
OwnQueue ==
  /\ InUserCode
  /\ Calling(LoopThread) /\ Push(LoopThread)
  /\ OwnWakeup
  /\ early' = IF looping THEN early ELSE early \cup {NextFunctor(LoopThread)}
  /\ UNCHANGED <<loopVars, ready, callerPc, executed>>

OwnQuit ==
  /\ InUserCode
  /\ Calling(LoopThread)
  /\ quit' = TRUE
  /\ UNCHANGED <<pc, doing, batch, active, pending, eventfd, ready, callerPc, history>>

-----------------------------------------------------------------------------
(* loop() *)

EnterLoop ==
  /\ pc = "outside"
  /\ pc' = "entering"
  /\ UNCHANGED <<quit, doing, batch, active, pending, eventfd, ready, callerPc, calls, history>>

\* quit_ = false, after looping_ = true: a quit() that came earlier is forgotten.
ResetQuit ==
  /\ pc = "entering"
  /\ quit' = FALSE
  /\ pc' = "while"
  /\ UNCHANGED <<doing, batch, active, pending, eventfd, ready, callerPc, calls, history>>

TestQuit ==
  /\ pc = "while"
  /\ pc' = IF quit THEN "outside" ELSE "poll"
  /\ UNCHANGED <<quit, doing, batch, active, pending, eventfd, ready, callerPc, calls, history>>

ReadyChannels == ready \cup (IF eventfd > 0 THEN {WakeupChannel} ELSE {})

\* epoll_wait() reports some of the ready fds: its array may be too short for
\* all of them.  With nothing ready it returns after pollMs_ or, at any time,
\* with EINTR; both leave activeChannels_ empty.
PollReturns ==
  /\ pc = "poll"
  /\ active' \in SUBSET ReadyChannels \ {{}}
  /\ pc' = "dispatch"
  /\ UNCHANGED <<quit, doing, batch, pending, eventfd, ready, callerPc, calls, history>>

PollReturnsNothing ==
  /\ pc = "poll"
  /\ active' = {}
  /\ pc' = "dispatch"
  /\ UNCHANGED <<quit, doing, batch, pending, eventfd, ready, callerPc, calls, history>>

\* Seeded fault: a handler that returns without reading.
HandleWakeupUnread ==
  /\ pc = "dispatch"
  /\ WakeupChannel \in active
  /\ active' = active \ {WakeupChannel}
  /\ UNCHANGED <<pc, quit, doing, batch, pending, eventfd, ready, callerPc, calls, history>>

\* handleWakeup(): reading the eventfd sets it back to 0.
HandleWakeup ==
  /\ pc = "dispatch"
  /\ WakeupChannel \in active
  /\ eventfd' = 0
  /\ active' = active \ {WakeupChannel}
  /\ UNCHANGED <<pc, quit, doing, batch, pending, ready, callerPc, calls, history>>

\* channel->handleEvent(): the handler takes what the fd has to offer.
HandleEvent(c) ==
  /\ pc = "dispatch"
  /\ c \in active
  /\ active' = active \ {c}
  /\ ready' = ready \ {c}
  /\ pc' = "handler"
  /\ UNCHANGED <<quit, doing, batch, pending, eventfd, callerPc, calls, history>>

HandlerReturns ==
  /\ pc = "handler"
  /\ pc' = "dispatch"
  /\ UNCHANGED <<quit, doing, batch, active, pending, eventfd, ready, callerPc, calls, history>>

\* Seeded fault: a copy for the swap.
CopyPending == batch' = pending /\ UNCHANGED pending

TakePending == batch' = pending /\ pending' = << >>

\* doPendingFunctors() up to the unlock.
SwapFunctors ==
  /\ pc = "dispatch" /\ active = {}
  /\ doing' = TRUE
  /\ TakePending
  /\ pc' = "drain"
  /\ UNCHANGED <<quit, active, eventfd, ready, callerPc, calls, history>>

CallFunctor ==
  /\ pc = "drain" /\ batch # << >>
  /\ executed' = Append(executed, Head(batch))
  /\ batch' = Tail(batch)
  /\ pc' = "functor"
  /\ UNCHANGED <<quit, doing, active, pending, eventfd, ready, callerPc, calls, pushed, early>>

FunctorReturns ==
  /\ pc = "functor"
  /\ pc' = "drain"
  /\ UNCHANGED <<quit, doing, batch, active, pending, eventfd, ready, callerPc, calls, history>>

EndDrain ==
  /\ pc = "drain" /\ batch = << >>
  /\ doing' = FALSE
  /\ pc' = "while"
  /\ UNCHANGED <<quit, batch, active, pending, eventfd, ready, callerPc, calls, history>>

-----------------------------------------------------------------------------
\* The world: bytes arrive for a channel.
BecomeReady(c) ==
  /\ c \notin ready
  /\ ready' = ready \cup {c}
  /\ UNCHANGED <<loopVars, pending, eventfd, callerPc, calls, history>>

CallerStep(t) == CallerQueue(t) \/ CallerQuit(t) \/ CallerWakeup(t)
OwnCall == OwnQueue \/ OwnQuit

\* The statements of loop() that the thread executes as soon as it is scheduled.
LoopStep ==
  \/ ResetQuit \/ TestQuit \/ PollReturns \/ HandleWakeup
  \/ \E c \in Channels : HandleEvent(c)
  \/ HandlerReturns \/ SwapFunctors \/ CallFunctor \/ FunctorReturns \/ EndDrain

Next ==
  \/ EnterLoop \/ LoopStep \/ PollReturnsNothing \/ OwnCall
  \/ \E t \in Callers : CallerStep(t)
  \/ \E c \in Channels : BecomeReady(c)

Spec == Init /\ [][Next]_vars

(***************************************************************************)
(* The loop thread and a caller inside queueInLoop() or quit() are         *)
(* scheduled, handlers and functors return, and poll() times out when it   *)
(* has been given a timeout.  Nobody has to call anything, call loop(), or *)
(* send a byte.                                                            *)
(***************************************************************************)
Fairness ==
  /\ WF_vars(LoopStep)
  /\ PollTimesOut => WF_vars(PollReturnsNothing)
  /\ \A t \in Callers : WF_vars(CallerWakeup(t))

FairSpec == Spec /\ Fairness

-----------------------------------------------------------------------------
(* Properties *)

\* Type correctness, on which the proofs rest.
TypeOK ==
  /\ pc \in {"outside", "entering", "while", "poll", "dispatch", "handler",
             "drain", "functor"}
  /\ quit \in BOOLEAN /\ doing \in BOOLEAN
  /\ pending \in Seq(Functor) /\ batch \in Seq(Functor)
  /\ eventfd \in Nat
  /\ ready \subseteq Channels
  /\ active \subseteq Channels \cup {WakeupChannel}
  /\ callerPc \in [Callers -> {"user", "wakeup"}]
  /\ calls \in [Threads -> 0..MaxCalls]
  /\ executed \in Seq(Functor) /\ pushed \in Seq(Functor)
  /\ early \subseteq Functor

\* The caller of queueInLoop(f) has pushed f and not yet written the eventfd.
Unannounced(f) == /\ f[1] \in Callers
                  /\ callerPc[f[1]] = "wakeup"
                  /\ f[2] = calls[f[1]]

Announced == \A i \in DOMAIN pending :
               Unannounced(pending[i]) \/ pending[i] \in early

\* queueInLoop()'s wake-up rule is right: a loop thread asleep in poll() with
\* nothing in the eventfd has no functor to run, except one whose caller is
\* about to write the eventfd, and those the loop thread queued outside loop(),
\* for which nobody writes it.
NoMissedWakeup == pc = "poll" /\ eventfd = 0 => Announced

\* quit()'s wake-up rule is right: a loop thread asleep with nothing in the
\* eventfd has not been told to quit, unless the teller is about to write it.
NoMissedQuit == pc = "poll" /\ eventfd = 0 /\ quit
                  => \E t \in Callers : callerPc[t] = "wakeup"

\* The swap under mutex_ neither loses, repeats nor reorders a functor, whatever
\* is queued while the batch is being called.
ExactlyOnceInOrder == executed \o batch \o pending = pushed

\* The loop and its queue implement the executor its callers count on.
Queue == INSTANCE Executor WITH waiting <- batch \o pending
ImplementsExecutor == Queue!Spec

Waiting(f) == \E i \in DOMAIN (batch \o pending) : (batch \o pending)[i] = f
Ran(f) == \E i \in DOMAIN executed : executed[i] = f

\* A queued functor is called unless loop() returns first.  The ones the loop
\* thread queues outside loop() depend on the poll timeout for that.
FunctorsRun ==
  \A f \in Functor :
    (Waiting(f) /\ (f \in early => PollTimesOut)) ~> (Ran(f) \/ ~looping)

\* A quit() that finds the loop past "quit_ = false" makes loop() return, from
\* whichever thread it comes and wherever the loop thread is.
QuitStopsLoop == (quit /\ pc \notin {"outside", "entering"}) ~> ~looping

\* Nothing is left to do and the thread is asleep, or loop() has returned.
AtRest == (pc = "poll" /\ eventfd = 0) \/ ~looping

\* When no more bytes arrive, nobody calls and no signal interrupts poll(), the loop
\* thread sleeps in the end: every wake-up is used up, also one that comes after
\* its functor has run and one that the loop thread writes for itself, so that the
\* level-triggered eventfd does not keep loop() spinning.
LoopComesToRest ==
  <>[](ready = {}) /\ <>[][~PollReturnsNothing]_vars => <>[]AtRest
=============================================================================
