------------------------- MODULE TimerQueueProofs ---------------------------
(***************************************************************************)
(* Proofs about TimerQueue, for any number of timers, any intervals and    *)
(* any settings of the wall clock.                                         *)
(***************************************************************************)
EXTENDS TimerQueue, SequenceTheorems, TLAPS

-----------------------------------------------------------------------------
(* Types *)

\* The constructor leaves every variable with its type.
LEMMA TypeInit == Init => TypeOK
<1>1. << >> \in Seq({"add", "cancel"} \X Timer) /\ 0 \in 0..MaxTimers
  BY BoundAssumption DEF BoundAssumption
<1>2. [t \in Timer |-> 0] \in [Timer -> Int] /\ [t \in Timer |-> 0] \in [Timer -> Nat]
  OBVIOUS
<1>3. -1 \in Int /\ 0 \in Int /\ 0 \in Nat /\ 1 \in Nat
  OBVIOUS
<1> QED
  BY <1>1, <1>2, <1>3 DEF Init, TypeOK, Disarmed

\* Every operation keeps the types.
LEMMA TypeStep == TypeOK /\ [Next]_vars => TypeOK'
<1> SUFFICES ASSUME TypeOK, [Next]_vars PROVE TypeOK'
  OBVIOUS
<1> USE DEF TypeOK, clock, objects, reading
<1>n. ASSUME NEW s \in Schedules, NewTimer(s[1], s[2])
      PROVE  /\ created \in Timer /\ created' \in 0..MaxTimers
             /\ s[1] \in Int /\ s[2] \in Nat
             /\ expiration' \in [Timer -> Int] /\ interval' \in [Timer -> Nat]
             /\ alive' \subseteq Timer
  <2>1. s[1] \in Int /\ s[2] \in Nat
    BY IntervalAssumption, BoundAssumption
       DEF IntervalAssumption, BoundAssumption, Schedules, wall
  <2>2. created \in Timer /\ created' \in 0..MaxTimers
    BY <1>n, BoundAssumption DEF NewTimer, Timer, BoundAssumption
  <2> QED
    BY <1>n, <2>1, <2>2 DEF NewTimer
<1>r. ASSUME NEW when \in Int, Rearm(when)
      PROVE  armed' \in Int
  BY <1>r DEF Rearm, MaxOf, wall
<1>a. ASSUME NEW t \in Timer, NEW when \in Int, AddTimerInLoop(t, when)
      PROVE  /\ timers' \subseteq Int \X Timer
             /\ activeTimers' \subseteq Timer \X Timer
             /\ armed' \in Int
  BY <1>a, <1>r DEF AddTimerInLoop, ActiveTimer
<1>c. ASSUME NEW t \in Timer, CancelInLoop(t)
      PROVE  /\ timers' \subseteq Int \X Timer
             /\ activeTimers' \subseteq Timer \X Timer
             /\ cancelingTimers' \subseteq Timer \X Nat
             /\ alive' \subseteq Timer
             /\ cancelled' \subseteq Timer
  BY <1>c DEF CancelInLoop, Handle
<1>i. ASSUME NEW op \in {"add", "cancel"}, NEW t \in Timer
      PROVE  Append(inbox, <<op, t>>) \in Seq({"add", "cancel"} \X Timer)
  BY AppendProperties
<1>1. CASE OwnAddTimer
  <2>1. PICK s \in Schedules : NewTimer(s[1], s[2]) /\ AddTimerInLoop(created, s[1])
    BY <1>1 DEF OwnAddTimer
  <2>2. created \in Timer /\ s[1] \in Int
    BY <1>n, <2>1
  <2>3. armed' \in Int /\ timers' \subseteq Int \X Timer /\ activeTimers' \subseteq Timer \X Timer
    BY <1>a, <2>1, <2>2
  <2> QED
    BY <1>1, <1>n, <2>1, <2>3 DEF OwnAddTimer
<1>2. CASE ForeignAddTimer
  <2>1. PICK s \in Schedules : NewTimer(s[1], s[2])
    BY <1>2 DEF ForeignAddTimer
  <2>2. created \in Timer
    BY <1>n, <2>1
  <2> QED
    BY <1>2, <1>n, <1>i, <2>1, <2>2 DEF ForeignAddTimer
<1>3. ASSUME NEW t \in Timer, OwnCancel(t)
      PROVE  TypeOK'
  BY <1>3, <1>c DEF OwnCancel, Asking
<1>4. ASSUME NEW t \in Timer, ForeignCancel(t)
      PROVE  TypeOK'
  BY <1>4, <1>i DEF ForeignCancel, Asking
<1>5. CASE CallFunctor
  <2>1. /\ Head(inbox) \in {"add", "cancel"} \X Timer
        /\ Tail(inbox) \in Seq({"add", "cancel"} \X Timer)
    BY <1>5, HeadTailProperties DEF CallFunctor
  <2>2. Head(inbox)[2] \in Timer /\ expiration[Head(inbox)[2]] \in Int
    BY <2>1
  <2>3. CASE Head(inbox)[1] = "add"
    BY <1>5, <1>a, <2>1, <2>2, <2>3 DEF CallFunctor
  <2>4. CASE Head(inbox)[1] # "add"
    BY <1>5, <1>c, <2>1, <2>2, <2>4 DEF CallFunctor
  <2> QED
    BY <2>3, <2>4
<1>6. CASE HandleRead
  BY <1>6 DEF HandleRead, Due, ActiveTimer, wall, Disarmed
<1>7. ASSUME NEW t \in Timer, RunTimer(t)
      PROVE  TypeOK'
  BY <1>7 DEF RunTimer
<1>8. CASE CallbackReturns
  BY <1>8 DEF CallbackReturns
<1>9. CASE Reset
  <2>1. timers' \subseteq Int \X Timer
    BY <1>9 DEF Reset, Repeating
  <2>2. armed' \in Int
    BY <1>9, <1>r, <2>1 DEF Reset, RearmForEarliest
  <2>3. expiration' \in [Timer -> Int]
    BY <1>9 DEF Reset
  <2>4. activeTimers' \subseteq Timer \X Timer
    <3>1. Repeating \subseteq Timer
      BY DEF Repeating
    <3> QED
      BY <1>9, <3>1 DEF Reset, ActiveTimer
  <2>5. alive' \subseteq Timer
    BY <1>9 DEF Reset
  <2> QED
    BY <1>9, <2>1, <2>2, <2>3, <2>4, <2>5 DEF Reset
<1>10. CASE Tick
  BY <1>10 DEF Tick
<1>11. CASE SetClock
  BY <1>11 DEF SetClock
<1>12. CASE UNCHANGED vars
  BY <1>12 DEF vars
<1> QED
  BY <1>1, <1>2, <1>3, <1>4, <1>5, <1>6, <1>7, <1>8, <1>9, <1>10, <1>11, <1>12
     DEF Next, LoopStep

\* Every variable of the timer queue keeps its type.
THEOREM TypeCorrect == Spec => []TypeOK
  BY TypeInit, TypeStep, PTL DEF Spec

-----------------------------------------------------------------------------
(* Functors on their way to the loop *)

Op == {"add", "cancel"} \X Timer
AddsIn(s) == {s[i][2] : i \in {j \in DOMAIN s : s[j][1] = "add"}}
DistinctAdds(s) == \A i, j \in DOMAIN s :
  s[i][1] = "add" /\ s[j][1] = "add" /\ s[i][2] = s[j][2] => i = j

\* queueInLoop() adds to the timers on their way what it carries.
LEMMA AppendAdds ==
  ASSUME NEW s \in Seq(Op), NEW f \in Op
  PROVE  /\ f[1] = "add" => AddsIn(Append(s, f)) = AddsIn(s) \cup {f[2]}
         /\ f[1] # "add" => AddsIn(Append(s, f)) = AddsIn(s)
         /\ DistinctAdds(s) /\ (f[1] = "add" => f[2] \notin AddsIn(s))
              => DistinctAdds(Append(s, f))
<1> DEFINE u == Append(s, f)
<1>1. /\ DOMAIN u = DOMAIN s \cup {Len(s) + 1}
      /\ Len(s) + 1 \notin DOMAIN s
      /\ \A i \in DOMAIN s : u[i] = s[i]
      /\ u[Len(s) + 1] = f
  BY AppendProperties, LenProperties
<1> HIDE DEF u
<1>2. f[1] = "add" => AddsIn(u) = AddsIn(s) \cup {f[2]}
  BY <1>1 DEF AddsIn
<1>3. f[1] # "add" => AddsIn(u) = AddsIn(s)
  BY <1>1 DEF AddsIn
<1>4. DistinctAdds(s) /\ (f[1] = "add" => f[2] \notin AddsIn(s)) => DistinctAdds(u)
  BY <1>1 DEF AddsIn, DistinctAdds
<1> QED
  BY <1>2, <1>3, <1>4 DEF u

\* Calling the oldest functor takes what it carries out of the ones on their way.
LEMMA TailAdds ==
  ASSUME NEW s \in Seq(Op), s # << >>, DistinctAdds(s)
  PROVE  /\ Head(s)[1] = "add" => /\ Head(s)[2] \in AddsIn(s)
                                 /\ AddsIn(Tail(s)) = AddsIn(s) \ {Head(s)[2]}
         /\ Head(s)[1] # "add" => AddsIn(Tail(s)) = AddsIn(s)
         /\ DistinctAdds(Tail(s))
<1> DEFINE u == Tail(s)
<1>1. /\ Len(s) \in Nat \ {0} /\ DOMAIN s = 1..Len(s) /\ Head(s) = s[1]
      /\ u \in Seq(Op) /\ Len(u) = Len(s) - 1
      /\ DOMAIN u = 1..(Len(s) - 1)
      /\ \A i \in DOMAIN u : u[i] = s[i + 1]
  BY HeadTailProperties, LenProperties, EmptySeq
<1> HIDE DEF u
<1>2. \A i \in DOMAIN s : i = 1 \/ (i - 1 \in DOMAIN u /\ s[i] = u[i - 1])
  BY <1>1
<1>3. \A i \in DOMAIN u : i + 1 \in DOMAIN s /\ i + 1 # 1
  BY <1>1
<1>4. 1 \in DOMAIN s
  BY <1>1
<1>5. DistinctAdds(u)
  <2> SUFFICES ASSUME NEW i \in DOMAIN u, NEW j \in DOMAIN u,
                      u[i][1] = "add", u[j][1] = "add", u[i][2] = u[j][2]
               PROVE  i = j
    BY DEF DistinctAdds
  <2>1. i + 1 = j + 1
    BY <1>1, <1>3 DEF DistinctAdds
  <2> QED
    BY <2>1, <1>1
<1>6. AddsIn(u) \subseteq AddsIn(s)
  BY <1>1, <1>3 DEF AddsIn
<1>7. ASSUME NEW a \in AddsIn(s), a \notin AddsIn(u)
      PROVE  s[1][1] = "add" /\ a = s[1][2]
  BY <1>2, <1>7 DEF AddsIn
<1>8. s[1][1] = "add" => s[1][2] \in AddsIn(s) /\ s[1][2] \notin AddsIn(u)
  <2> SUFFICES ASSUME s[1][1] = "add", s[1][2] \in AddsIn(u) PROVE FALSE
    BY <1>4 DEF AddsIn
  <2>1. PICK i \in DOMAIN u : u[i][1] = "add" /\ u[i][2] = s[1][2]
    BY DEF AddsIn
  <2>2. s[i + 1][1] = "add" /\ s[i + 1][2] = s[1][2] /\ i + 1 \in DOMAIN s
    BY <2>1, <1>1, <1>3
  <2> QED
    BY <2>2, <1>3, <1>4 DEF DistinctAdds
<1> QED
  BY <1>1, <1>5, <1>6, <1>7, <1>8 DEF u

-----------------------------------------------------------------------------
(* Ownership of the Timer objects *)

BatchShape == /\ ~calling => expired = {}
              /\ inCallback => calling

\* The timers in play were created, and each is posted at most once.
Created == /\ \A t \in alive \cup cancelled : t < created
           /\ DistinctAdds(inbox)

\* A cancelled timer is not on its way to the loop; if the handle was good, it is
\* out of the queue, and marked if it is in the running batch.
CancelMarked ==
  \A t \in cancelled :
    /\ t \notin Posted
    /\ Handle(t) = ActiveTimer(t) =>
         t \notin Scheduled /\ (t \in expired => Handle(t) \in cancelingTimers)

IInv == TypeOK /\ BatchShape /\ Created /\ SetsAgree /\ OneOwner /\ CancelMarked

\* insert(): the timer joins both sets.
LEMMA AddEffect ==
  ASSUME TypeOK, SetsAgree, NEW t \in Timer, NEW when \in Int,
         AddTimerInLoop(t, when), expiration'[t] = when,
         \A u \in Scheduled : expiration'[u] = expiration[u]
  PROVE  Scheduled' = Scheduled \cup {t} /\ SetsAgree'
<1>1. Scheduled' = Scheduled \cup {t}
  <2>1. timers' = timers \cup {<<when, t>>}
    BY DEF AddTimerInLoop
  <2>2. Scheduled' \subseteq Scheduled \cup {t}
    BY <2>1 DEF Scheduled
  <2>3. t \in Scheduled'
    <3>1. <<when, t>> \in timers' /\ <<when, t>>[2] = t
      BY <2>1
    <3> QED
      BY <3>1 DEF Scheduled
  <2>4. Scheduled \subseteq Scheduled'
    BY <2>1 DEF Scheduled
  <2> QED
    BY <2>2, <2>3, <2>4
<1>2. \A e \in timers : e[2] \in Scheduled
  BY DEF Scheduled
<1>3. \A e \in timers' : e[1] = expiration'[e[2]]
  BY <1>2 DEF AddTimerInLoop, SetsAgree
<1>4. activeTimers' = {ActiveTimer(u) : u \in Scheduled'}
  BY <1>1 DEF AddTimerInLoop, SetsAgree
<1> QED
  BY <1>1, <1>3, <1>4 DEF SetsAgree

\* cancelInLoop(): the timer leaves both sets and is deleted, or nothing moves.
LEMMA CancelEffect ==
  ASSUME TypeOK, SetsAgree, NEW t \in Timer, CancelInLoop(t), expiration' = expiration
  PROVE  /\ SetsAgree'
         /\ Found(t) <=> (t \in Scheduled /\ Handle(t) = ActiveTimer(t))
         /\ Found(t) => /\ Scheduled' = Scheduled \ {t}
                        /\ alive' = alive \ {t}
         /\ ~Found(t) => UNCHANGED <<timers, activeTimers, alive>> /\ Scheduled' = Scheduled
<1>1. Found(t) <=> (t \in Scheduled /\ Handle(t) = ActiveTimer(t))
  BY DEF Found, SetsAgree, Handle, ActiveTimer
<1>2. CASE ~Found(t)
  BY <1>1, <1>2 DEF CancelInLoop, SetsAgree, Scheduled
<1>3. CASE Found(t)
  <2>1. \A e \in timers : e = <<e[1], e[2]>> /\ e[1] = expiration[e[2]]
    BY DEF TypeOK, SetsAgree
  <2>2. \A e \in timers : e[2] = t <=> e = Entry(t)
    BY <2>1 DEF Entry
  <2>3. Scheduled' = Scheduled \ {t}
    BY <1>3, <2>2 DEF CancelInLoop, Scheduled
  <2>4. activeTimers' = {ActiveTimer(u) : u \in Scheduled'}
    BY <1>1, <1>3, <2>3 DEF CancelInLoop, SetsAgree, ActiveTimer
  <2>5. \A e \in timers' : e[1] = expiration'[e[2]]
    BY <1>3 DEF CancelInLoop, SetsAgree
  <2> QED
    BY <1>1, <1>3, <2>3, <2>4, <2>5 DEF SetsAgree, CancelInLoop
<1> QED
  BY <1>2, <1>3

\* getExpired(): the due timers leave both sets for the batch.
LEMMA HandleReadEffect ==
  ASSUME TypeOK, SetsAgree, HandleRead
  PROVE  /\ SetsAgree'
         /\ expired' \subseteq Scheduled
         /\ Scheduled' = Scheduled \ expired'
<1>1. \A e, f \in timers : e[2] = f[2] => e = f
  BY DEF TypeOK, SetsAgree
<1>2. expired' \subseteq Scheduled
  BY DEF HandleRead, Due, Scheduled
<1>3. \A e \in timers : e[2] \in expired' <=> e \in Due
  BY <1>1 DEF HandleRead, Due
<1>4. Scheduled' = Scheduled \ expired'
  BY <1>3 DEF HandleRead, Scheduled
<1>5. activeTimers' = activeTimers \ {ActiveTimer(t) : t \in expired'}
  BY DEF HandleRead
<1>6. activeTimers' = {ActiveTimer(t) : t \in Scheduled'}
  BY <1>4, <1>5 DEF SetsAgree, ActiveTimer
<1>7. \A e \in timers' : e[1] = expiration'[e[2]]
  BY DEF HandleRead, SetsAgree, objects
<1> QED
  BY <1>2, <1>4, <1>6, <1>7 DEF SetsAgree

\* reset(): what repeats goes back into both sets, the rest of the batch is deleted.
LEMMA ResetEffect ==
  ASSUME TypeOK, SetsAgree, Scheduled \cap expired = {}, Reset
  PROVE  /\ SetsAgree'
         /\ Scheduled' = Scheduled \cup Repeating
         /\ Repeating \subseteq expired
<1>1. Repeating \subseteq expired /\ Repeating \subseteq Timer
  BY DEF Repeating, TypeOK
<1>2. Scheduled' = Scheduled \cup Repeating
  <2>1. timers' = timers \cup {<<readAt + interval[t], t>> : t \in Repeating}
    BY DEF Reset
  <2>2. ASSUME NEW t \in Repeating
        PROVE  t \in Scheduled'
    <3>1. <<readAt + interval[t], t>> \in timers' /\ <<readAt + interval[t], t>>[2] = t
      BY <2>1, <2>2
    <3> QED
      BY <3>1 DEF Scheduled
  <2>3. Scheduled \subseteq Scheduled'
    BY <2>1 DEF Scheduled
  <2>4. Scheduled' \subseteq Scheduled \cup Repeating
    BY <2>1 DEF Scheduled
  <2> QED
    BY <2>2, <2>3, <2>4
<1>3. activeTimers' = {ActiveTimer(t) : t \in Scheduled'}
  <2>1. activeTimers' = activeTimers \cup {ActiveTimer(t) : t \in Repeating}
    BY DEF Reset
  <2> QED
    BY <1>2, <2>1 DEF SetsAgree
<1>4. ASSUME NEW e \in timers'
      PROVE  e[1] = expiration'[e[2]]
  <2>1. CASE e \in timers
    <3>1. e[2] \in Timer /\ e[2] \in Scheduled
      BY <2>1 DEF TypeOK, Scheduled
    <3>2. e[2] \notin Repeating
      BY <1>1, <3>1
    <3> QED
      BY <2>1, <3>1, <3>2 DEF Reset, SetsAgree
  <2>2. CASE e \notin timers
    <3>1. PICK t \in Repeating : e = <<readAt + interval[t], t>>
      BY <2>2, <1>4 DEF Reset
    <3> QED
      BY <1>1, <3>1 DEF Reset
  <2> QED
    BY <2>1, <2>2
<1> QED
  BY <1>1, <1>2, <1>3, <1>4 DEF SetsAgree

\* Every step keeps the ownership of the Timer objects and the marks of cancel().
LEMMA IInvStep == IInv /\ [Next]_vars => IInv'
<1> SUFFICES ASSUME IInv, [Next]_vars PROVE IInv'
  OBVIOUS
<1>0. TypeOK /\ TypeOK'
  BY TypeStep DEF IInv
<1>p. BatchShape /\ Created /\ SetsAgree /\ OneOwner /\ CancelMarked
  BY DEF IInv
<1> DEFINE Rest == BatchShape /\ Created /\ SetsAgree /\ OneOwner /\ CancelMarked
<1>s. SUFFICES Rest'
  BY <1>0 DEF IInv
<1>t. /\ Posted = AddsIn(inbox) /\ Posted' = AddsIn(inbox')
      /\ inbox \in Seq(Op)
      /\ Scheduled \subseteq Timer /\ Posted \subseteq Timer
      /\ Posted \subseteq alive /\ Scheduled \subseteq alive /\ expired \subseteq alive
  BY <1>0, <1>p DEF Posted, AddsIn, Op, TypeOK, Scheduled, OneOwner
<1>i. created \in Int /\ \A t \in alive \cup cancelled : t \in Int
  BY <1>0 DEF TypeOK, Timer
\* A new timer is nobody's yet.
<1>n. ASSUME NEW s \in Schedules, NewTimer(s[1], s[2])
      PROVE  /\ created \in Timer /\ s[1] \in Int
             /\ created \notin alive /\ created \notin cancelled
             /\ alive' = alive \cup {created} /\ created' = created + 1
             /\ expiration'[created] = s[1]
             /\ \A u \in Timer \ {created} : expiration'[u] = expiration[u]
  <2>1. created \in Timer
    BY <1>0, <1>n, BoundAssumption DEF TypeOK, NewTimer, Timer, BoundAssumption
  <2>2. s[1] \in Int
    BY <1>0, IntervalAssumption, BoundAssumption
       DEF TypeOK, IntervalAssumption, BoundAssumption, Schedules, wall
  <2>3. created \notin alive /\ created \notin cancelled
    BY <1>0, <1>p DEF Created, TypeOK
  <2> QED
    BY <1>0, <1>n, <2>1, <2>2, <2>3 DEF NewTimer, TypeOK
<1>1. CASE OwnAddTimer
  <2>1. PICK s \in Schedules : NewTimer(s[1], s[2]) /\ AddTimerInLoop(created, s[1])
    BY <1>1 DEF OwnAddTimer
  <2>2. created \notin Scheduled /\ created \notin expired /\ created \notin Posted
    BY <1>n, <1>t, <2>1
  <2>3. UNCHANGED <<inbox, calling, expired, inCallback, cancelled, cancelingTimers>>
    BY <1>1 DEF OwnAddTimer, reading
  <2>4. Scheduled' = Scheduled \cup {created} /\ SetsAgree'
    BY <1>0, <1>n, <1>p, <1>t, <2>1, <2>2, AddEffect
  <2>5. OneOwner'
    BY <1>n, <1>p, <1>t, <2>1, <2>2, <2>3, <2>4 DEF OneOwner
  <2>6. Created'
    <3>1. created < created + 1 /\ \A t \in alive \cup cancelled : t < created + 1
      BY <1>i, <1>p DEF Created
    <3>2. inbox' = inbox /\ cancelled' = cancelled
      BY <2>3
    <3> QED
      BY <1>n, <1>p, <2>1, <3>1, <3>2 DEF Created
  <2>7. CancelMarked'
    BY <1>n, <1>p, <1>t, <2>1, <2>3, <2>4 DEF CancelMarked, Handle, ActiveTimer
  <2> QED
    BY <1>p, <2>3, <2>4, <2>5, <2>6, <2>7 DEF BatchShape
<1>2. CASE ForeignAddTimer
  <2>1. PICK s \in Schedules : NewTimer(s[1], s[2])
    BY <1>2 DEF ForeignAddTimer
  <2>2. created \notin Scheduled /\ created \notin expired /\ created \notin Posted
    BY <1>n, <1>t, <2>1
  <2>3. /\ UNCHANGED <<timers, activeTimers, calling, expired, inCallback, cancelled,
                       cancelingTimers>>
        /\ Scheduled' = Scheduled
    BY <1>2 DEF ForeignAddTimer, reading, Scheduled
  <2>4. /\ inbox' = Append(inbox, <<"add", created>>)
        /\ <<"add", created>> \in Op
    BY <1>2, <1>n, <2>1 DEF ForeignAddTimer, Op
  <2>5. Posted' = Posted \cup {created} /\ DistinctAdds(inbox')
    BY <1>p, <1>t, <2>2, <2>4, AppendAdds DEF Created
  <2>6. SetsAgree'
    <3>1. \A e \in timers : e[2] \in Timer \ {created}
      BY <1>0, <2>2 DEF TypeOK, Scheduled
    <3> QED
      BY <1>n, <1>p, <2>1, <2>3, <3>1 DEF SetsAgree
  <2>7. OneOwner'
    BY <1>n, <1>p, <2>1, <2>2, <2>3, <2>5 DEF OneOwner
  <2>8. Created'
    <3>1. created < created + 1 /\ \A t \in alive \cup cancelled : t < created + 1
      BY <1>i, <1>p DEF Created
    <3> QED
      BY <1>n, <2>1, <2>3, <2>5, <3>1 DEF Created
  <2>9. CancelMarked'
    BY <1>n, <1>p, <2>1, <2>3, <2>5 DEF CancelMarked, Handle, ActiveTimer
  <2> QED
    BY <1>p, <2>3, <2>6, <2>7, <2>8, <2>9 DEF BatchShape
\* cancelInLoop(), from either of its callers.
<1>c. ASSUME NEW t \in Timer, CancelInLoop(t), Posted' = Posted, DistinctAdds(inbox'),
             UNCHANGED <<objects, reading>>
      PROVE  Rest'
  <2>1. /\ SetsAgree'
        /\ Found(t) <=> (t \in Scheduled /\ Handle(t) = ActiveTimer(t))
        /\ Found(t) => Scheduled' = Scheduled \ {t} /\ alive' = alive \ {t}
        /\ ~Found(t) => Scheduled' = Scheduled /\ alive' = alive
    BY <1>0, <1>p, <1>c, CancelEffect DEF objects
  <2>2. OneOwner'
    BY <1>p, <1>c, <2>1 DEF OneOwner, reading
  <2>3. cancelled' \subseteq cancelled \cup {t}
        /\ (t \in cancelled' => t \in cancelled \/ t \in Scheduled \/ t \in expired)
    BY <1>c DEF CancelInLoop
  <2>4. Created'
    BY <1>p, <1>c, <1>t, <2>1, <2>3 DEF Created, objects
  <2>5. cancelingTimers \subseteq cancelingTimers'
        /\ (~Found(t) /\ calling => Handle(t) \in cancelingTimers')
    BY <1>c DEF CancelInLoop, Found
  <2>6. ASSUME NEW u \in cancelled'
        PROVE  /\ u \notin Posted'
               /\ Handle(u) = ActiveTimer(u) =>
                    u \notin Scheduled' /\ (u \in expired' => Handle(u) \in cancelingTimers')
    <3>1. CASE u \in cancelled
      BY <1>p, <1>c, <2>1, <2>5, <3>1 DEF CancelMarked, reading
    <3>2. CASE u \notin cancelled
      <4>1. u = t /\ (t \in Scheduled \/ t \in expired)
        BY <2>3, <2>6, <3>2
      <4>2. u \notin Posted'
        BY <1>p, <1>c, <4>1 DEF OneOwner
      <4>3. t \in expired => calling
        BY <1>p DEF BatchShape
      <4> QED
        BY <1>p, <1>c, <2>1, <2>5, <4>1, <4>2, <4>3 DEF OneOwner, reading
    <3> QED
      BY <3>1, <3>2
  <2>7. CancelMarked'
    BY <2>6 DEF CancelMarked, Handle, ActiveTimer
  <2> QED
    BY <1>p, <1>c, <2>1, <2>2, <2>4, <2>7 DEF BatchShape, reading
<1>3. ASSUME NEW t \in Timer, OwnCancel(t)
      PROVE  Rest'
  <2>1. Posted' = Posted /\ DistinctAdds(inbox')
    BY <1>3, <1>p, <1>t DEF OwnCancel, Created
  <2> QED
    BY <1>3, <1>c, <2>1 DEF OwnCancel
<1>4. ASSUME NEW t \in Timer, ForeignCancel(t)
      PROVE  Rest'
  <2>1. inbox' = Append(inbox, <<"cancel", t>>) /\ <<"cancel", t>> \in Op
    BY <1>4 DEF ForeignCancel, Op
  <2>2. Posted' = Posted /\ DistinctAdds(inbox')
    BY <1>p, <1>t, <2>1, AppendAdds DEF Created
  <2>3. UNCHANGED <<objects, alive, timers, activeTimers, cancelingTimers, reading, cancelled>>
    BY <1>4 DEF ForeignCancel
  <2> QED
    BY <1>p, <2>2, <2>3
       DEF BatchShape, Created, SetsAgree, OneOwner, CancelMarked, Scheduled, objects,
           reading, Handle, ActiveTimer
<1>5. CASE CallFunctor
  <2> DEFINE t == Head(inbox)[2]
  <2>a. /\ inbox # << >> /\ inbox' = Tail(inbox) /\ ~calling
        /\ UNCHANGED <<objects, reading>>
    BY <1>5 DEF CallFunctor
  <2>b. Head(inbox) \in Op
    BY <1>t, <2>a, HeadTailProperties
  <2>c. t \in Timer /\ expiration[t] \in Int
    BY <1>0, <2>b DEF Op, TypeOK
  <2>1. /\ inbox # << >> /\ inbox' = Tail(inbox) /\ ~calling
        /\ UNCHANGED <<objects, reading>>
        /\ Head(inbox) \in Op /\ t \in Timer /\ expiration[t] \in Int
    BY <2>a, <2>b, <2>c
  <2>2. DistinctAdds(inbox')
    BY <1>p, <1>t, <2>1, TailAdds DEF Created
  <2>3. CASE Head(inbox)[1] = "add"
    <3>1. t \in Posted /\ Posted' = Posted \ {t}
      BY <1>p, <1>t, <2>1, <2>3, TailAdds DEF Created
    <3>2. t \notin Scheduled /\ t \notin expired /\ t \in alive
      BY <1>p, <3>1 DEF OneOwner
    <3>3. AddTimerInLoop(t, expiration[t]) /\ UNCHANGED <<alive, cancelingTimers, cancelled>>
      BY <1>5, <2>3 DEF CallFunctor
    <3>4. Scheduled' = Scheduled \cup {t} /\ SetsAgree'
      <4>1. expiration' = expiration
        BY <2>1 DEF objects
      <4> QED
        BY <1>0, <1>p, <2>1, <3>3, <4>1, AddEffect
    <3>5. OneOwner'
      BY <1>p, <2>1, <3>1, <3>2, <3>3, <3>4 DEF OneOwner, reading
    <3>6. CancelMarked'
      BY <1>p, <2>1, <3>1, <3>3, <3>4 DEF CancelMarked, reading, Handle, ActiveTimer
    <3> QED
      BY <1>p, <2>1, <2>2, <3>3, <3>4, <3>5, <3>6 DEF BatchShape, Created, objects, reading
  <2>4. CASE Head(inbox)[1] # "add"
    <3>1. Posted' = Posted
      BY <1>p, <1>t, <2>1, <2>4, TailAdds DEF Created
    <3>2. CancelInLoop(t)
      BY <1>5, <2>4 DEF CallFunctor
    <3> QED
      BY <1>c, <2>1, <2>2, <3>1, <3>2
  <2> QED
    BY <2>3, <2>4
<1>6. CASE HandleRead
  <2>1. SetsAgree' /\ expired' \subseteq Scheduled /\ Scheduled' = Scheduled \ expired'
    BY <1>0, <1>6, <1>p, HandleReadEffect
  <2>2. UNCHANGED <<objects, alive, inbox, cancelled, inCallback>> /\ Posted' = Posted
    BY <1>6, <1>t DEF HandleRead
  <2>3. expired = {} /\ calling'
    BY <1>6, <1>p DEF HandleRead, BatchShape
  <2>4. OneOwner'
    BY <1>p, <2>1, <2>2, <2>3 DEF OneOwner
  <2>5. CancelMarked'
    BY <1>p, <2>1, <2>2 DEF CancelMarked, Handle, ActiveTimer
  <2> QED
    BY <1>p, <2>1, <2>2, <2>3, <2>4, <2>5 DEF BatchShape, Created, objects
<1>7. CASE Reset
  <2>1. SetsAgree' /\ Scheduled' = Scheduled \cup Repeating /\ Repeating \subseteq expired
    BY <1>0, <1>7, <1>p, ResetEffect DEF OneOwner
  <2>2. /\ alive' = alive \ (expired \ Repeating) /\ expired' = {} /\ ~calling' /\ ~inCallback'
        /\ UNCHANGED <<inbox, cancelled, created, cancelingTimers>> /\ Posted' = Posted
    BY <1>0, <1>7, <1>t DEF Reset, TypeOK
  <2>3. OneOwner'
    BY <1>p, <2>1, <2>2 DEF OneOwner
  <2>4. \A t \in cancelled : Handle(t) = ActiveTimer(t) => t \notin Repeating
    BY <1>p, <2>1 DEF CancelMarked, Repeating
  <2>5. CancelMarked'
    BY <1>p, <2>1, <2>2, <2>4 DEF CancelMarked, Handle, ActiveTimer
  <2> QED
    BY <1>p, <2>1, <2>2, <2>3, <2>5 DEF BatchShape, Created
<1>8. ASSUME UNCHANGED <<objects, alive, timers, activeTimers, cancelingTimers, calling,
                         expired, inbox, cancelled>>,
             inCallback' => calling
      PROVE  Rest'
  BY <1>8, <1>p
     DEF BatchShape, Created, SetsAgree, OneOwner, CancelMarked, Scheduled, Posted,
         objects, Handle, ActiveTimer
<1>9. ASSUME NEW t \in Timer, RunTimer(t)
      PROVE  Rest'
  BY <1>8, <1>9 DEF RunTimer
<1>10. CASE CallbackReturns
  BY <1>8, <1>10 DEF CallbackReturns
<1>11. CASE Tick
  BY <1>8, <1>11, <1>p DEF Tick, reading, BatchShape
<1>12. CASE SetClock
  BY <1>8, <1>12, <1>p DEF SetClock, reading, BatchShape
<1>13. CASE UNCHANGED vars
  BY <1>8, <1>13, <1>p DEF vars, objects, BatchShape
<1> HIDE DEF Rest
<1> QED
  BY <1>1, <1>2, <1>3, <1>4, <1>5, <1>6, <1>7, <1>9, <1>10, <1>11, <1>12, <1>13
     DEF Next, LoopStep

\* The strengthened invariant holds throughout.
THEOREM Inductive == Spec => []IInv
<1>1. Init => IInv
  <2> SUFFICES ASSUME Init PROVE IInv
    OBVIOUS
  <2>1. DOMAIN inbox = {}
    BY DEF Init
  <2> QED
    BY <2>1, TypeInit DEF Init, IInv, BatchShape, Created, DistinctAdds, SetsAgree,
       OneOwner, CancelMarked, Scheduled, Posted
<1> QED
  BY <1>1, IInvStep, PTL DEF Spec

\* timers_ and activeTimers_ never disagree: the assertions of cancelInLoop() and
\* insert() hold in every run.
THEOREM SetsAlwaysAgree == Spec => []SetsAgree
<1>1. IInv => SetsAgree
  BY DEF IInv
<1> QED
  BY <1>1, Inductive, PTL

\* No Timer object leaks, is deleted twice, or is used after its deletion.
THEOREM TimersHaveOneOwner == Spec => []OneOwner
<1>1. IInv => OneOwner
  BY DEF IInv
<1> QED
  BY <1>1, Inductive, PTL

\* cancel() through a handle with the right sequence is final, even from the
\* callback of the timer itself.
THEOREM CancelIsFinal == Spec => []CancelTakesEffect
<1>1. IInv => CancelTakesEffect
  BY DEF IInv, CancelMarked, CancelTakesEffect
<1> QED
  BY <1>1, Inductive, PTL

-----------------------------------------------------------------------------
(* The timerfd *)

\* The wall clock is off by no more ticks than it was moved.
OffsetBounded == -steps <= offset /\ offset <= steps

InTime(when) == armed # Disarmed /\ armed <= MaxOf(when + steps, mono + 1)

\* resetTimerfd() arms in time for the expiration it is given, and for later ones.
LEMMA RearmInTime ==
  ASSUME TypeOK, OffsetBounded, NEW when \in Int, NEW later \in Int, when <= later,
         Rearm(when), UNCHANGED clock
  PROVE  InTime(later)'
<1>1. /\ mono \in Nat /\ offset \in Int /\ steps \in Nat
      /\ mono' = mono /\ steps' = steps
      /\ -steps <= offset
  BY DEF TypeOK, clock, OffsetBounded
<1>2. armed' = mono + MaxOf(1, when - (mono + offset))
  BY DEF Rearm, wall
<1>3. armed' # -1 /\ armed' <= MaxOf(later + steps, mono + 1)
  BY <1>1, <1>2 DEF MaxOf
<1> QED
  BY <1>1, <1>3 DEF InTime, Disarmed

\* insert() re-arms when it has to.
LEMMA AddInTime ==
  ASSUME TypeOK, OffsetBounded, ArmedInTime, NEW t, NEW when \in Int,
         AddTimerInLoop(t, when), UNCHANGED <<clock, calling>>
  PROVE  ArmedInTime'
<1> SUFFICES ASSUME ~calling, NEW e \in timers' PROVE InTime(e[1])'
  BY DEF ArmedInTime, InTime
<1>1. e \in timers \/ e = <<when, t>>
  BY DEF AddTimerInLoop
<1>2. \A f \in timers : f[1] \in Int /\ InTime(f[1])
  BY DEF TypeOK, ArmedInTime, InTime
<1>3. CASE IsEarliest(when)
  <2>1. Rearm(when)
    BY <1>3 DEF AddTimerInLoop
  <2>2. e[1] \in Int /\ when <= e[1]
    BY <1>1, <1>2, <1>3 DEF IsEarliest
  <2> QED
    BY <2>1, <2>2, RearmInTime
<1>4. CASE ~IsEarliest(when)
  <2>1. armed' = armed /\ mono' = mono /\ steps' = steps
    BY <1>4 DEF AddTimerInLoop, clock
  <2>2. PICK f \in timers : f[1] <= when
    BY <1>2, <1>4 DEF IsEarliest
  <2>3. CASE e \in timers
    BY <1>2, <2>1, <2>3 DEF InTime
  <2>4. CASE e = <<when, t>>
    BY <1>2, <2>1, <2>2, <2>4 DEF InTime, MaxOf, TypeOK
  <2> QED
    BY <1>1, <2>3, <2>4
<1> QED
  BY <1>3, <1>4

\* No step lets the loop sleep past a timer, or the clock drift unnoticed.
LEMMA ArmedStep ==
  TypeOK /\ OffsetBounded /\ ArmedInTime /\ [Next]_vars
    => OffsetBounded' /\ ArmedInTime'
<1> SUFFICES ASSUME TypeOK, OffsetBounded, ArmedInTime, [Next]_vars
             PROVE  OffsetBounded' /\ ArmedInTime'
  OBVIOUS
\* Steps that arm nothing and add nothing to the queue.
<1>q. ASSUME UNCHANGED <<clock, armed, calling>>, timers' \subseteq timers
      PROVE  OffsetBounded' /\ ArmedInTime'
  BY <1>q DEF OffsetBounded, ArmedInTime, MaxOf, clock
<1>c. ASSUME UNCHANGED clock
      PROVE  OffsetBounded'
  BY <1>c DEF OffsetBounded, clock
<1>s. ASSUME NEW s \in Schedules
      PROVE  s[1] \in Int
  BY IntervalAssumption, BoundAssumption
     DEF TypeOK, IntervalAssumption, BoundAssumption, Schedules, wall
<1>1. CASE OwnAddTimer
  BY <1>1, <1>c, <1>s, AddInTime DEF OwnAddTimer, reading
<1>2. CASE ForeignAddTimer
  BY <1>2, <1>q DEF ForeignAddTimer, reading
<1>3. ASSUME NEW t \in Timer, OwnCancel(t)
      PROVE  OffsetBounded' /\ ArmedInTime'
  BY <1>3, <1>q DEF OwnCancel, CancelInLoop, reading
<1>4. ASSUME NEW t \in Timer, ForeignCancel(t)
      PROVE  OffsetBounded' /\ ArmedInTime'
  BY <1>4, <1>q DEF ForeignCancel, reading
<1>5. CASE CallFunctor
  <2>1. CASE Head(inbox)[1] = "add"
    <3>1. Head(inbox)[2] \in Timer
      <4>1. Head(inbox) \in {"add", "cancel"} \X Timer
        BY <1>5, HeadTailProperties DEF CallFunctor, TypeOK
      <4> QED
        BY <4>1
    <3>2. expiration[Head(inbox)[2]] \in Int
      BY <3>1 DEF TypeOK
    <3> QED
      BY <1>5, <1>c, <2>1, <3>2, AddInTime DEF CallFunctor, reading
  <2>2. CASE Head(inbox)[1] # "add"
    BY <1>5, <1>q, <2>2 DEF CallFunctor, CancelInLoop, reading
  <2> QED
    BY <2>1, <2>2
<1>6. CASE HandleRead
  BY <1>6, <1>c DEF HandleRead, ArmedInTime
<1>7. CASE Reset
  <2>1. ASSUME NEW e \in timers'
        PROVE  InTime(e[1])'
    <3>1. PICK f \in timers' : (\A g \in timers' : f[1] <= g[1]) /\ Rearm(f[1])
      BY <1>7, <2>1 DEF Reset, RearmForEarliest
    <3>2. \A g \in timers' : g[1] \in Int
      BY TypeStep DEF TypeOK
    <3> QED
      BY <1>7, <3>1, <3>2, RearmInTime DEF Reset
  <2> QED
    BY <1>7, <1>c, <2>1 DEF Reset, ArmedInTime, InTime
<1>8. ASSUME NEW t \in Timer, RunTimer(t)
      PROVE  OffsetBounded' /\ ArmedInTime'
  BY <1>8, <1>q DEF RunTimer
<1>9. CASE CallbackReturns
  BY <1>9, <1>q DEF CallbackReturns
<1>10. CASE Tick
  <2>1. /\ mono' = mono + 1 /\ UNCHANGED <<offset, steps, timers, calling, armed>>
    BY <1>10 DEF Tick, reading
  <2> QED
    BY <2>1 DEF OffsetBounded, ArmedInTime, MaxOf, TypeOK
<1>11. CASE SetClock
  <2>1. /\ steps' = steps + 1 /\ offset' \in {offset - 1, offset + 1}
        /\ UNCHANGED <<mono, timers, calling, armed>>
    BY <1>11 DEF SetClock, reading
  <2>2. OffsetBounded'
    BY <2>1 DEF OffsetBounded, TypeOK
  <2>3. ArmedInTime'
    BY <2>1 DEF ArmedInTime, MaxOf, TypeOK
  <2> QED
    BY <2>2, <2>3
<1>12. CASE UNCHANGED vars
  BY <1>12, <1>q DEF vars, clock
<1> QED
  BY <1>1, <1>2, <1>3, <1>4, <1>5, <1>6, <1>7, <1>8, <1>9, <1>10, <1>11, <1>12
     DEF Next, LoopStep

\* The timerfd is armed for every timer of the queue whenever the loop may sleep:
\* a timer is late by at most the ticks the wall clock was moved.
THEOREM AlwaysArmedInTime == Spec => []ArmedInTime
<1>1. Init => OffsetBounded /\ ArmedInTime
  BY DEF Init, OffsetBounded, ArmedInTime
<1> QED
  BY <1>1, TypeCorrect, ArmedStep, PTL DEF Spec
=============================================================================
