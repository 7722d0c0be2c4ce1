------------------------------ MODULE Executor ------------------------------
(***************************************************************************)
(* What queueInLoop() promises to a caller: functors handed to a loop are  *)
(* called one at a time, in the order of the hand-overs, each exactly      *)
(* once.  The threads, the mutex, the eventfd and the batches of the real  *)
(* loop are invisible here.                                                *)
(***************************************************************************)
EXTENDS Sequences

CONSTANT Functor

VARIABLES waiting,   \* handed over, not called yet
          executed   \* called, oldest first

vars == <<waiting, executed>>

Init == /\ waiting = << >>
        /\ executed = << >>

Submit == \E f \in Functor : /\ waiting' = Append(waiting, f)
                             /\ UNCHANGED executed

CallNext == /\ waiting # << >>
            /\ executed' = Append(executed, Head(waiting))
            /\ waiting' = Tail(waiting)

Next == Submit \/ CallNext

Spec == Init /\ [][Next]_vars
=============================================================================
