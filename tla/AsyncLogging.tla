---------------------------- MODULE AsyncLogging ----------------------------
(***************************************************************************)
(* logging/AsyncLoggingDoubleBuffering.h: threads append lines to a        *)
(* buffer, one thread carries full buffers, and every flushInterval_ the   *)
(* current one, to the log file (module LogFile).  mutex_ guards the three *)
(* members that hold buffers; what is done under it is one step, but for   *)
(* cond_'s wait.                                                           *)
(*                                                                         *)
(* A unique_ptr is NoBuffer when it is null, and otherwise <<lines>> where *)
(* lines is the content of its buffer.  Every line takes one unit of the   *)
(* buffer's size.                                                          *)
(***************************************************************************)
EXTENDS LogFile, FiniteSets

CONSTANTS Producers,      \* threads that log
          LargeBuffer,    \* kLargeBuffer
          MaxLines        \* bound: lines appended by each

ASSUME BoundAssumption == LargeBuffer \in Nat /\ LargeBuffer > 1 /\ MaxLines \in Nat

NoBuffer == << >>
EmptyBuffer == << << >> >>

Line == Producers \X (1..MaxLines)

VARIABLES
  running,          \* running_
  pc,               \* where threadFunc() is
  currentBuffer,    \* currentBuffer_
  nextBuffer,       \* nextBuffer_
  buffers,          \* buffers_
  newBuffer1,       \* threadFunc()'s locals of these names, of its first lines
  newBuffer2,
  buffersToWrite,   \* the part of it still to be written
  output,           \* threadFunc()'s LogFile
  stopping,         \* stop(): "no", before the notify, and waiting for the thread
  count,            \* lines appended so far, by each thread
  appended,         \* history: lines appended, in order
  failed            \* a null pointer was dereferenced

shared == <<currentBuffer, nextBuffer, buffers>>
locals == <<newBuffer1, newBuffer2, buffersToWrite>>
vars == <<running, pc, currentBuffer, nextBuffer, buffers, newBuffer1, newBuffer2,
          buffersToWrite, output, stopping, count, appended, failed>>

\* start() has returned: threadFunc() is at its beginning.
Init ==
  /\ running = TRUE /\ pc = "while"
  /\ currentBuffer = EmptyBuffer /\ nextBuffer = EmptyBuffer /\ buffers = << >>
  /\ newBuffer1 = EmptyBuffer /\ newBuffer2 = EmptyBuffer /\ buffersToWrite = << >>
  /\ output = Opened /\ stopping = "no"
  /\ count = [p \in Producers |-> 0] /\ appended = << >>
  /\ failed = FALSE

-----------------------------------------------------------------------------
(* append() *)

\* Seeded fault: a line that fills the buffer to its last byte is taken.
HasRoom == LargeBuffer - Len(currentBuffer[1]) >= 1

\* avail() > len
Fits == LargeBuffer - Len(currentBuffer[1]) > 1

\* cond_.notify_one(): only threadFunc() waits.
Notify == pc' = IF pc = "waiting" THEN "awake" ELSE pc

\* A full buffer is handed over; the line goes into the next, or into a new one.
HandOver(line) == /\ buffers' = Append(buffers, currentBuffer)
                  /\ nextBuffer' = NoBuffer
                  /\ currentBuffer' = << (IF nextBuffer # NoBuffer THEN nextBuffer[1] ELSE << >>)
                                         \o <<line>> >>
                  /\ Notify

AppendLine(p) ==
  /\ ~failed /\ count[p] < MaxLines
  /\ count' = [count EXCEPT ![p] = @ + 1]
  /\ LET line == <<p, count'[p]>> IN
       IF currentBuffer = NoBuffer
       THEN failed' = TRUE /\ UNCHANGED <<shared, pc, appended>>
       ELSE /\ IF Fits
               THEN currentBuffer' = << Append(currentBuffer[1], line) >>
                    /\ UNCHANGED <<buffers, nextBuffer, pc>>
               ELSE HandOver(line)
            /\ appended' = Append(appended, line)
            /\ UNCHANGED failed
  /\ UNCHANGED <<running, locals, output, stopping>>

-----------------------------------------------------------------------------
(* stop() *)

Stop == /\ ~failed /\ stopping = "no"
        /\ running' = FALSE
        /\ stopping' = "set"
        /\ UNCHANGED <<pc, shared, locals, output, count, appended, failed>>

StopNotifies == /\ ~failed /\ stopping = "set"
                /\ Notify
                /\ stopping' = "joining"
                /\ UNCHANGED <<running, shared, locals, output, count, appended, failed>>

-----------------------------------------------------------------------------
(* threadFunc() *)

TestRunning ==
  /\ ~failed /\ pc = "while"
  /\ IF running THEN pc' = "critical" /\ UNCHANGED output
                ELSE pc' = "done" /\ output' = Flush(output)
  /\ UNCHANGED <<running, shared, locals, stopping, count, appended, failed>>

\* Seeded fault: the current buffer is written before the full ones.
CurrentFirst == <<currentBuffer>> \o buffers

\* The full buffers and then the current one, which may be null.
Collected == Append(buffers, currentBuffer)

\* Under mutex_: the buffers change their owners.
Swap ==
  /\ buffersToWrite' = Collected
  /\ buffers' = << >>
  /\ currentBuffer' = newBuffer1 /\ newBuffer1' = NoBuffer
  /\ IF nextBuffer = NoBuffer THEN nextBuffer' = newBuffer2 /\ newBuffer2' = NoBuffer
                              ELSE UNCHANGED <<nextBuffer, newBuffer2>>
  /\ pc' = "writing"

\* Taking mutex_, and going on or waiting for cond_.
EnterCritical ==
  /\ ~failed /\ pc = "critical"
  /\ IF buffers = << >> THEN pc' = "waiting" /\ UNCHANGED <<shared, locals>> ELSE Swap
  /\ UNCHANGED <<running, output, stopping, count, appended, failed>>

\* Seeded fault: wait() for wait_for().
Notified == pc = "awake"

\* wait_for() returns when notified, and after flushInterval_.
WaitReturns == pc \in {"waiting", "awake"}

LeaveCritical ==
  /\ ~failed /\ WaitReturns
  /\ Swap
  /\ UNCHANGED <<running, output, stopping, count, appended, failed>>

WriteBuffer ==
  /\ ~failed /\ pc = "writing" /\ buffersToWrite # << >>
  /\ IF Head(buffersToWrite) = NoBuffer
     THEN failed' = TRUE /\ UNCHANGED <<output, buffersToWrite>>
     ELSE /\ output' \in AppendLines(output, Head(buffersToWrite)[1])
          /\ buffersToWrite' = Tail(buffersToWrite)
          /\ UNCHANGED failed
  /\ UNCHANGED <<running, pc, shared, newBuffer1, newBuffer2, stopping, count, appended>>

\* The two buffers made here are other variables, which end with the round.
Refill ==
  /\ ~failed /\ pc = "writing" /\ buffersToWrite = << >>
  /\ pc' = "while"
  /\ output' = Flush(output)
  /\ UNCHANGED <<running, shared, locals, stopping, count, appended, failed>>

ThreadStep == TestRunning \/ EnterCritical \/ LeaveCritical \/ WriteBuffer \/ Refill

Next == (\E p \in Producers : AppendLine(p)) \/ Stop \/ StopNotifies \/ ThreadStep

Spec == Init /\ [][Next]_vars

\* threadFunc()'s thread is scheduled, its wait ends, and stop() goes on.
FairSpec == Spec /\ WF_vars(ThreadStep) /\ WF_vars(StopNotifies)

-----------------------------------------------------------------------------
(* Properties *)

\* A null pointer, or one to a buffer that is never filled to its last byte.
IsBuffer(p) == p = NoBuffer \/ (Len(p) = 1 /\ Len(p[1]) < LargeBuffer)

\* Type correctness; a line fits in the buffer append() puts it into, so that
\* FixedBuffer::append() drops none, and no file outgrows rollSize_ by more than
\* one buffer.
TypeOK ==
  /\ running \in BOOLEAN /\ failed \in BOOLEAN
  /\ pc \in {"while", "critical", "waiting", "awake", "writing", "done"}
  /\ IsBuffer(currentBuffer)
  /\ {nextBuffer, newBuffer1, newBuffer2} \subseteq {NoBuffer, EmptyBuffer}
  /\ \A p \in ToSet(buffers) \cup ToSet(buffersToWrite) : IsBuffer(p)
  /\ \A i \in DOMAIN output.files : Len(output.files[i]) < RollSize + LargeBuffer
  /\ stopping \in {"no", "set", "joining"}
  /\ count \in [Producers -> 0..MaxLines]

\* Until a null pointer ends the program every line append() took is in one of
\* the files, in a buffer that threadFunc() took to write, or in buffers_ and
\* currentBuffer_, once, in the order of the calls, however the swaps of
\* threadFunc(), the hand-overs of append() and the changes of the file alternate.
\*
\* When a round is over all that its swap took has left both the thread's buffers
\* and stdio, so that a crash takes no line of an earlier round.  The same holds
\* when the thread has ended, and no more than that: its loop ends without a last
\* swap, and what is in buffers_ and currentBuffer_ when it does, or is appended
\* later, never reaches a file.  stop() loses just the lines that the last swap did
\* not take, which are all of them when it comes before the first round.
LinesInOrder ==
  /\ Content(output) \o FlattenSeq(FlattenSeq(buffersToWrite))
       \o FlattenSeq(FlattenSeq(buffers)) \o FlattenSeq(currentBuffer) = appended
  /\ pc # "writing" => buffersToWrite = << >> /\ output.stdio = << >>

\* stop() returns: its join ends though its notify, which does not take mutex_,
\* may come after the test of running_ and before the wait.
StopReturns == (stopping = "joining") ~> (pc = "done" \/ failed)

\* "refill newBuffer": a round finds the two spare buffers the round before made,
\* so that neither append() nor the next round meets a null buffer.
BuffersRefilled == pc = "critical" => newBuffer1 # NoBuffer
=============================================================================
