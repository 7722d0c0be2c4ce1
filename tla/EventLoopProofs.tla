-------------------------- MODULE EventLoopProofs ---------------------------
(***************************************************************************)
(* Proofs about EventLoop, for any set of callers and channels and any     *)
(* number of calls.                                                        *)
(***************************************************************************)
EXTENDS EventLoop, SequenceTheorems, TLAPS

-----------------------------------------------------------------------------
(* Sequences *)

\* Appending to the last part of a concatenation appends to the whole: a push
\* on pendingFunctors_ comes after everything handed over before it.
LEMMA AppendToRight ==
  ASSUME NEW S, NEW s \in Seq(S), NEW t \in Seq(S), NEW e \in S
  PROVE  s \o Append(t, e) = Append(s \o t, e)
<1>1. /\ s \o t \in Seq(S)
      /\ <<e>> \in Seq(S)
  BY ConcatProperties
<1>2. s \o (t \o <<e>>) = (s \o t) \o <<e>>
  BY <1>1, ConcatAssociative
<1> QED
  BY <1>1, <1>2, AppendIsConcat

\* Moving the head of the second part to the end of the first changes nothing:
\* calling the batch's first functor keeps the order of all of them.
LEMMA MoveHead ==
  ASSUME NEW S, NEW s \in Seq(S), NEW t \in Seq(S), t # << >>
  PROVE  Append(s, Head(t)) \o Tail(t) = s \o t
<1>1. /\ Head(t) \in S
      /\ Tail(t) \in Seq(S)
      /\ <<Head(t)>> \in Seq(S)
  BY HeadTailProperties
<1>2. <<Head(t)>> \o Tail(t) = t
  OBVIOUS
<1>3. (s \o <<Head(t)>>) \o Tail(t) = s \o (<<Head(t)>> \o Tail(t))
  BY <1>1, ConcatAssociative
<1> QED
  BY <1>1, <1>2, <1>3, AppendIsConcat

-----------------------------------------------------------------------------
(* Types *)

\* The constructor leaves every variable with its type.
LEMMA TypeInit == Init => TypeOK
<1>1. << >> \in Seq(Functor) /\ 0 \in 0..MaxCalls /\ 0 \in Nat
  BY BoundAssumption DEF BoundAssumption
<1> QED
  BY <1>1 DEF Init, TypeOK

\* Every step of the loop thread, a caller or the world keeps the types.
LEMMA TypeStep == TypeOK /\ [Next]_vars => TypeOK'
<1> SUFFICES ASSUME TypeOK, [Next]_vars
             PROVE  TypeOK'
  OBVIOUS
<1> USE DEF TypeOK, loopVars, history
<1>q. ASSUME NEW t \in Threads, Calling(t)
      PROVE  /\ calls' \in [Threads -> 0..MaxCalls]
             /\ NextFunctor(t) \in Functor
             /\ Push(t) => pending' \in Seq(Functor) /\ pushed' \in Seq(Functor)
  <2>1. calls[t] + 1 \in 1..MaxCalls /\ calls' \in [Threads -> 0..MaxCalls]
    BY <1>q, BoundAssumption DEF BoundAssumption, Calling
  <2>2. NextFunctor(t) \in Functor
    BY <2>1 DEF NextFunctor, Functor
  <2>3. ASSUME NEW s \in Seq(Functor)
        PROVE  Append(s, NextFunctor(t)) \in Seq(Functor)
    BY <2>2, AppendProperties
  <2> QED
    BY <2>1, <2>2, <2>3 DEF Push
<1>t. Callers \subseteq Threads /\ LoopThread \in Threads
  BY DEF Threads
<1>1. CASE EnterLoop
  BY <1>1 DEF EnterLoop
<1>2. CASE ResetQuit
  BY <1>2 DEF ResetQuit
<1>3. CASE TestQuit
  BY <1>3 DEF TestQuit
<1>4. CASE PollReturns
  BY <1>4 DEF PollReturns, ReadyChannels
<1>5. CASE PollReturnsNothing
  BY <1>5 DEF PollReturnsNothing
<1>6. CASE HandleWakeup
  BY <1>6 DEF HandleWakeup
<1>7. ASSUME NEW c \in Channels, HandleEvent(c)
      PROVE  TypeOK'
  BY <1>7 DEF HandleEvent
<1>8. CASE HandlerReturns
  BY <1>8 DEF HandlerReturns
<1>9. CASE SwapFunctors
  BY <1>9 DEF SwapFunctors, TakePending
<1>10. CASE CallFunctor
  <2>1. /\ Head(batch) \in Functor
        /\ Tail(batch) \in Seq(Functor)
    BY <1>10, HeadTailProperties DEF CallFunctor
  <2> QED
    BY <1>10, <2>1, AppendProperties DEF CallFunctor
<1>11. CASE FunctorReturns
  BY <1>11 DEF FunctorReturns
<1>12. CASE EndDrain
  BY <1>12 DEF EndDrain
<1>13. CASE OwnQueue
  BY <1>13, <1>q, <1>t DEF OwnQueue, OwnWakeup, Wakeup
<1>14. CASE OwnQuit
  BY <1>14, <1>q, <1>t DEF OwnQuit
<1>15. ASSUME NEW t \in Callers, CallerQueue(t)
       PROVE  TypeOK'
  BY <1>15, <1>q, <1>t DEF CallerQueue
<1>16. ASSUME NEW t \in Callers, CallerQuit(t)
       PROVE  TypeOK'
  BY <1>16, <1>q, <1>t DEF CallerQuit
<1>17. ASSUME NEW t \in Callers, CallerWakeup(t)
       PROVE  TypeOK'
  BY <1>17 DEF CallerWakeup, Wakeup
<1>18. ASSUME NEW c \in Channels, BecomeReady(c)
       PROVE  TypeOK'
  BY <1>18 DEF BecomeReady
<1>19. CASE UNCHANGED vars
  BY <1>19 DEF vars
<1> QED
  BY <1>1, <1>2, <1>3, <1>4, <1>5, <1>6, <1>7, <1>8, <1>9, <1>10, <1>11,
     <1>12, <1>13, <1>14, <1>15, <1>16, <1>17, <1>18, <1>19
     DEF Next, LoopStep, OwnCall, CallerStep

\* Every variable of the loop keeps its type, which the other proofs use: no run
\* checks it for EventLoop.
THEOREM TypeCorrect == Spec => []TypeOK
  BY TypeInit, TypeStep, PTL DEF Spec

-----------------------------------------------------------------------------
(* The wake-up rule and the order of functors *)

\* doingPendingFunctors_ tells exactly when doPendingFunctors() is running, and
\* its local vector is empty otherwise.
DoingIsAccurate == /\ doing <=> pc \in {"drain", "functor"}
                   /\ ~doing => batch = << >>

\* NoMissedWakeup, for every place from which poll() is reached without passing
\* through doPendingFunctors()'s swap.
AnnouncedBeforePoll == pc \notin {"dispatch", "handler"} /\ eventfd = 0 => Announced

IInv == /\ TypeOK
        /\ DoingIsAccurate
        /\ AnnouncedBeforePoll
        /\ NoMissedQuit
        /\ ExactlyOnceInOrder

\* A push from thread t keeps the other functors announced: an unannounced one
\* of t's would have t in the middle of another call.
LEMMA PushKeepsAnnounced ==
  ASSUME TypeOK, NEW t \in Callers, CallerQueue(t), Announced
  PROVE  Announced'
<1>1. NextFunctor(t) \in Functor
  BY BoundAssumption
     DEF BoundAssumption, TypeOK, CallerQueue, Calling, NextFunctor, Functor, Threads
<1>5. ASSUME NEW f, f = NextFunctor(t)
      PROVE  Unannounced(f)'
  BY <1>5 DEF TypeOK, CallerQueue, Calling, NextFunctor, Threads, Unannounced
<1>2. ASSUME NEW f, Unannounced(f)
      PROVE  Unannounced(f)'
  BY <1>2 DEF Unannounced, CallerQueue, Calling, TypeOK, Threads
<1>3. /\ pending' = Append(pending, NextFunctor(t))
      /\ early' = early
  BY DEF CallerQueue, Push
<1>4. ASSUME NEW i \in DOMAIN pending'
      PROVE  pending'[i] = NextFunctor(t) \/ (i \in DOMAIN pending /\ pending'[i] = pending[i])
  BY <1>1, <1>3, <1>4 DEF TypeOK
<1> QED
  BY <1>2, <1>3, <1>4, <1>5 DEF Announced

\* A push by any thread keeps the history equal to what is called plus what waits.
LEMMA PushKeepsOrder ==
  ASSUME TypeOK, ExactlyOnceInOrder, NEW t \in Threads, Calling(t), Push(t),
         UNCHANGED <<executed, batch>>
  PROVE  ExactlyOnceInOrder'
<1>1. NextFunctor(t) \in Functor
  BY BoundAssumption DEF BoundAssumption, TypeOK, Calling, NextFunctor, Functor
<1>2. executed \o batch \in Seq(Functor)
  BY ConcatProperties DEF TypeOK
<1>3. (executed \o batch) \o Append(pending, NextFunctor(t))
        = Append((executed \o batch) \o pending, NextFunctor(t))
  BY <1>1, <1>2, AppendToRight DEF TypeOK
<1> QED
  BY <1>3 DEF ExactlyOnceInOrder, Push

\* The strengthened invariant: every step of loop() and of every caller keeps it.
THEOREM Inductive == Spec => []IInv
<1>1. Init => IInv
  <2> SUFFICES ASSUME Init PROVE IInv
    OBVIOUS
  <2>1. TypeOK
    BY TypeInit
  <2>2. << >> \o << >> \o << >> = << >>
    OBVIOUS
  <2> QED
    BY <2>1, <2>2 DEF Init, IInv, DoingIsAccurate, AnnouncedBeforePoll, Announced,
                      NoMissedQuit, ExactlyOnceInOrder
<1>2. IInv /\ [Next]_vars => IInv'
  <2> SUFFICES ASSUME IInv, [Next]_vars PROVE IInv'
    OBVIOUS
  <2>0. TypeOK /\ TypeOK'
    BY TypeStep DEF IInv
  <2>p. DoingIsAccurate /\ AnnouncedBeforePoll /\ NoMissedQuit /\ ExactlyOnceInOrder
    BY DEF IInv
  <2>t. Callers \subseteq Threads /\ LoopThread \in Threads
    BY DEF Threads
  <2> USE <2>0, <2>p
  <2> DEFINE Rest == DoingIsAccurate /\ AnnouncedBeforePoll /\ NoMissedQuit
                       /\ ExactlyOnceInOrder
  <2>s. SUFFICES Rest'
    BY DEF IInv
  \* Steps that leave every queue, the history and the callers alone.
  <2>1. ASSUME pc' # "poll" \/ ~quit',
               pc' \in {"drain", "functor"} <=> pc \in {"drain", "functor"},
               pc \in {"dispatch", "handler"} => pc' \in {"dispatch", "handler"},
               UNCHANGED <<doing, batch, pending, eventfd, callerPc, calls, history>>
        PROVE  Rest'
    <3>1. Announced' <=> Announced
      BY <2>1 DEF Announced, Unannounced, history
    <3> QED
      BY <2>1, <3>1 DEF DoingIsAccurate, AnnouncedBeforePoll, NoMissedQuit,
                        ExactlyOnceInOrder, history
  <2>2. CASE EnterLoop
    BY <2>1, <2>2 DEF EnterLoop, history
  <2>3. CASE ResetQuit
    BY <2>1, <2>3 DEF ResetQuit, history
  <2>4. CASE TestQuit
    BY <2>1, <2>4 DEF TestQuit, history
  <2>5. CASE PollReturns
    BY <2>1, <2>5 DEF PollReturns, history
  <2>6. CASE PollReturnsNothing
    BY <2>1, <2>6 DEF PollReturnsNothing, history
  <2>7. CASE HandleWakeup
    BY <2>7 DEF HandleWakeup, DoingIsAccurate, AnnouncedBeforePoll, NoMissedQuit,
                ExactlyOnceInOrder, history
  <2>8. ASSUME NEW c \in Channels, HandleEvent(c)
        PROVE  Rest'
    BY <2>1, <2>8 DEF HandleEvent, history
  <2>9. CASE HandlerReturns
    BY <2>1, <2>9 DEF HandlerReturns, history
  <2>10. CASE SwapFunctors
    <3>1. batch = << >> /\ pending' = << >> /\ batch' = pending
      BY <2>10 DEF SwapFunctors, TakePending, DoingIsAccurate
    <3>2. executed \o << >> \o pending = executed \o pending \o << >>
      BY ConcatEmptySeq, ConcatProperties DEF TypeOK
    <3>3. ExactlyOnceInOrder'
      BY <2>10, <3>1, <3>2 DEF SwapFunctors, TakePending, ExactlyOnceInOrder, history
    <3>4. Announced'
      BY <3>1 DEF Announced
    <3> QED
      BY <2>10, <3>3, <3>4 DEF SwapFunctors, TakePending, DoingIsAccurate, AnnouncedBeforePoll,
                               NoMissedQuit
  <2>11. CASE CallFunctor
    <3>1. Append(executed, Head(batch)) \o Tail(batch) = executed \o batch
      BY <2>11, MoveHead DEF CallFunctor, TypeOK
    <3>2. ExactlyOnceInOrder'
      BY <2>11, <3>1 DEF CallFunctor, ExactlyOnceInOrder
    <3>3. Announced' <=> Announced
      BY <2>11 DEF CallFunctor, Announced, Unannounced
    <3> QED
      BY <2>11, <3>2, <3>3 DEF CallFunctor, DoingIsAccurate, AnnouncedBeforePoll,
                               NoMissedQuit
  <2>12. CASE FunctorReturns
    BY <2>1, <2>12 DEF FunctorReturns, history
  <2>13. CASE EndDrain
    <3>1. Announced' <=> Announced
      BY <2>13 DEF EndDrain, Announced, Unannounced, history
    <3> QED
      BY <2>13, <3>1 DEF EndDrain, DoingIsAccurate, AnnouncedBeforePoll, NoMissedQuit,
                         ExactlyOnceInOrder, history
  <2>14. CASE OwnQueue
    <3>1. ExactlyOnceInOrder'
      BY <2>14, <2>t, PushKeepsOrder DEF OwnQueue, loopVars
    <3>2. eventfd' = 0 /\ eventfd = 0 => ~doing
      BY <2>14 DEF OwnQueue, OwnWakeup, Wakeup
    <3>3. eventfd' = 0 => eventfd = 0
      BY <2>14 DEF OwnQueue, OwnWakeup, Wakeup, TypeOK
    <3>4. pc' = pc /\ doing' = doing /\ batch' = batch /\ quit' = quit
      BY <2>14 DEF OwnQueue, loopVars
    <3>5. AnnouncedBeforePoll'
      <4> SUFFICES ASSUME pc \notin {"dispatch", "handler"}, eventfd' = 0
                   PROVE  Announced'
        BY <3>4 DEF AnnouncedBeforePoll
      <4>1. pc = "outside" /\ Announced
        BY <2>14, <3>2, <3>3 DEF OwnQueue, InUserCode, DoingIsAccurate, AnnouncedBeforePoll
      <4>2. NextFunctor(LoopThread) \in early' /\ early \subseteq early'
        BY <2>14, <4>1 DEF OwnQueue, looping
      <4>3. ASSUME NEW f, Unannounced(f)
            PROVE  Unannounced(f)'
        BY <2>14, <4>3, ThreadAssumption
           DEF ThreadAssumption, Unannounced, OwnQueue, Calling, TypeOK, Threads
      <4>4. ASSUME NEW i \in DOMAIN pending'
            PROVE  \/ pending'[i] = NextFunctor(LoopThread)
                   \/ i \in DOMAIN pending /\ pending'[i] = pending[i]
        BY <2>14, <4>4 DEF OwnQueue, Push, TypeOK
      <4> QED
        BY <4>1, <4>2, <4>3, <4>4 DEF Announced
    <3>6. DoingIsAccurate' /\ NoMissedQuit'
      BY <2>14, <3>4 DEF DoingIsAccurate, NoMissedQuit, OwnQueue, InUserCode
    <3> QED
      BY <3>1, <3>5, <3>6
  <2>15. CASE OwnQuit
    <3>1. ASSUME NEW f, Unannounced(f)
          PROVE  Unannounced(f)'
      BY <2>15, <3>1, ThreadAssumption
         DEF ThreadAssumption, Unannounced, OwnQuit, Calling, TypeOK, Threads
    <3>2. Announced => Announced'
      BY <2>15, <3>1 DEF Announced, OwnQuit, history
    <3> QED
      BY <2>15, <3>2 DEF OwnQuit, InUserCode, DoingIsAccurate, AnnouncedBeforePoll,
                         NoMissedQuit, ExactlyOnceInOrder, history
  <2>16. ASSUME NEW t \in Callers, CallerQueue(t)
         PROVE  Rest'
    <3>1. ExactlyOnceInOrder'
      BY <2>16, <2>t, PushKeepsOrder DEF CallerQueue, loopVars
    <3>2. AnnouncedBeforePoll'
      BY <2>16, PushKeepsAnnounced DEF CallerQueue, loopVars, AnnouncedBeforePoll
    <3>3. callerPc'[t] = "wakeup"
      BY <2>16 DEF CallerQueue, TypeOK
    <3>4. DoingIsAccurate' /\ NoMissedQuit'
      BY <2>16, <3>3 DEF CallerQueue, loopVars, DoingIsAccurate, NoMissedQuit
    <3> QED
      BY <3>1, <3>2, <3>4
  <2>17. ASSUME NEW t \in Callers, CallerQuit(t)
         PROVE  Rest'
    <3>1. callerPc'[t] = "wakeup"
      BY <2>17 DEF CallerQuit, TypeOK
    <3>2. ASSUME NEW f, Unannounced(f)
          PROVE  Unannounced(f)'
      BY <2>17, <3>2 DEF CallerQuit, Unannounced, Calling, TypeOK, Threads
    <3>3. Announced => Announced'
      BY <2>17, <3>2 DEF CallerQuit, Announced, history
    <3> QED
      BY <2>17, <3>1, <3>3 DEF CallerQuit, DoingIsAccurate, AnnouncedBeforePoll,
                               NoMissedQuit, ExactlyOnceInOrder, history
  <2>18. ASSUME NEW t \in Callers, CallerWakeup(t)
         PROVE  Rest'
    BY <2>18 DEF CallerWakeup, Wakeup, loopVars, history, TypeOK, DoingIsAccurate,
                 AnnouncedBeforePoll, NoMissedQuit, ExactlyOnceInOrder
  <2>19. ASSUME NEW c \in Channels, BecomeReady(c)
         PROVE  Rest'
    <3>1. Announced' <=> Announced
      BY <2>19 DEF BecomeReady, Announced, Unannounced, history
    <3> QED
      BY <2>19, <3>1 DEF BecomeReady, loopVars, history, DoingIsAccurate,
                         AnnouncedBeforePoll, NoMissedQuit, ExactlyOnceInOrder
  <2>20. CASE UNCHANGED vars
    <3>1. Announced' <=> Announced
      BY <2>20 DEF vars, Announced, Unannounced
    <3> QED
      BY <2>20, <3>1 DEF vars, DoingIsAccurate, AnnouncedBeforePoll, NoMissedQuit,
                         ExactlyOnceInOrder
  <2> HIDE DEF Rest
  <2> QED
    BY <2>2, <2>3, <2>4, <2>5, <2>6, <2>7, <2>8, <2>9, <2>10, <2>11, <2>12,
       <2>13, <2>14, <2>15, <2>16, <2>17, <2>18, <2>19, <2>20
       DEF Next, LoopStep, OwnCall, CallerStep
<1> QED
  BY <1>1, <1>2, PTL DEF Spec

\* A loop thread asleep in poll() has no announced functor waiting: the rule
\* "write the eventfd unless this is the loop thread and it is not calling
\* functors" misses no wake-up, for any number of callers.
THEOREM NoWakeupMissed == Spec => []NoMissedWakeup
<1>1. IInv => NoMissedWakeup
  BY DEF IInv, AnnouncedBeforePoll, NoMissedWakeup
<1> QED
  BY <1>1, Inductive, PTL

\* Nor has it been told to quit.
THEOREM NoQuitMissed == Spec => []NoMissedQuit
<1>1. IInv => NoMissedQuit
  BY DEF IInv
<1> QED
  BY <1>1, Inductive, PTL

\* Functors are called in the order of the pushes, each once.
THEOREM CalledOnceInOrder == Spec => []ExactlyOnceInOrder
<1>1. IInv => ExactlyOnceInOrder
  BY DEF IInv
<1> QED
  BY <1>1, Inductive, PTL

-----------------------------------------------------------------------------
\* loop() and queueInLoop() implement the executor: a push is a hand-over, a call
\* of the batch's next functor is a call of the oldest one waiting, and every
\* other step - the swap among them - is invisible.
THEOREM LoopImplementsExecutor == Spec => ImplementsExecutor
<1>1. Init => Queue!Init
  <2>1. << >> \o << >> = << >>
    OBVIOUS
  <2> QED
    BY <2>1 DEF Init, Queue!Init
<1>2. IInv /\ [Next]_vars => [Queue!Next]_(Queue!vars)
  <2> SUFFICES ASSUME IInv, [Next]_vars
               PROVE  Queue!Submit \/ Queue!CallNext \/ UNCHANGED <<batch \o pending, executed>>
    BY DEF Queue!Next, Queue!vars
  <2>0. TypeOK /\ DoingIsAccurate
    BY DEF IInv
  <2>s. ASSUME NEW t \in Threads, Calling(t), Push(t), UNCHANGED <<batch, executed>>
        PROVE  Queue!Submit
    <3>1. NextFunctor(t) \in Functor
      BY <2>0, <2>s, BoundAssumption
         DEF BoundAssumption, TypeOK, Calling, NextFunctor, Functor
    <3>2. batch \o Append(pending, NextFunctor(t)) = Append(batch \o pending, NextFunctor(t))
      BY <2>0, <3>1, AppendToRight DEF TypeOK
    <3> QED
      BY <2>s, <3>1, <3>2 DEF Push, Queue!Submit
  <2>1. CASE OwnQueue
    BY <2>1, <2>s DEF OwnQueue, loopVars, Threads
  <2>2. ASSUME NEW t \in Callers, CallerQueue(t)
        PROVE  Queue!Submit
    BY <2>2, <2>s DEF CallerQueue, loopVars, Threads
  <2>3. CASE CallFunctor
    <3>1. /\ batch \o pending # << >>
          /\ Head(batch \o pending) = Head(batch)
          /\ Tail(batch \o pending) = Tail(batch) \o pending
      <4>1. batch = <<Head(batch)>> \o Tail(batch)
        BY <2>0, <2>3 DEF TypeOK, CallFunctor
      <4>2. /\ Head(batch) \in Functor /\ Tail(batch) \in Seq(Functor)
            /\ <<Head(batch)>> \in Seq(Functor)
        BY <2>0, <2>3, HeadTailProperties DEF TypeOK, CallFunctor
      <4>3. Tail(batch) \o pending \in Seq(Functor)
        BY <2>0, <4>2, ConcatProperties DEF TypeOK
      <4>4. batch \o pending = <<Head(batch)>> \o (Tail(batch) \o pending)
        BY <2>0, <4>1, <4>2, ConcatAssociative DEF TypeOK
      <4> QED
        BY <4>2, <4>3, <4>4
    <3> QED
      BY <2>3, <3>1 DEF CallFunctor, Queue!CallNext
  <2>4. CASE SwapFunctors
    <3>1. << >> \o pending = pending \o << >>
      BY <2>0, ConcatEmptySeq DEF TypeOK
    <3> QED
      BY <2>0, <2>4, <3>1 DEF SwapFunctors, TakePending, DoingIsAccurate, history
  <2>5. CASE UNCHANGED <<batch, pending, executed>>
    BY <2>5
  <2> QED
    BY <2>1, <2>2, <2>3, <2>4, <2>5
       DEF Next, LoopStep, OwnCall, CallerStep, EnterLoop, ResetQuit, TestQuit,
           PollReturns, PollReturnsNothing, HandleWakeup, HandleEvent, HandlerReturns,
           FunctorReturns, EndDrain, OwnQuit, CallerQuit, CallerWakeup, BecomeReady,
           loopVars, history, vars
<1> QED
  BY <1>1, <1>2, Inductive, PTL DEF Spec, ImplementsExecutor, Queue!Spec
=============================================================================
