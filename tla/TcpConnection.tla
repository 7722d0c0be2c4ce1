--------------------------- MODULE TcpConnection ----------------------------
(***************************************************************************)
(* net/TcpConnection.{h,cc}: one connection, from the moment its owner     *)
(* (TcpServer or TcpClient) has made it until its channel is removed.      *)
(*                                                                         *)
(* A step is a handler of the channel, a functor or a call that            *)
(* application code makes in the loop thread: in a callback, or anywhere   *)
(* else.  Where a callback is not the last thing its caller does, the      *)
(* caller is split around it.  Another thread may call send() and          *)
(* shutdown(); state_ is a plain variable, which shutdown() tests and then *)
(* sets.  Functors it queues are called in order, once (module Executor).  *)
(*                                                                         *)
(* A byte is its place in the stream that sendInLoop() was given, or that  *)
(* the peer sent.  The buffers are those of module Buffer.  The            *)
(* application keeps its reference to the connection: functors that bind   *)
(* `this' find the object alive.                                           *)
(***************************************************************************)
EXTENDS Buffer, FiniteSets

CONSTANTS MaxBytes,   \* bound: bytes the application sends
          MaxInput    \* bound: bytes the peer sends

ASSUME BoundAssumption == MaxBytes \in Nat /\ MaxInput \in Nat

VARIABLES
  state,           \* state_
  reading,         \* channel_'s events_ has kReadEvent
  writing,         \* ... and kWriteEvent
  polled,          \* the poller watches the channel
  inputBuffer,     \* inputBuffer_
  outputBuffer,    \* outputBuffer_
  wire,            \* bytes the kernel took
  accepted,        \* number of bytes given to sendInLoop()
  fin,             \* shutdown(SHUT_WR) was called
  input,           \* bytes of the peer that the kernel holds
  consumed,        \* those that message callbacks took from inputBuffer_
  arrivals,        \* number of bytes that arrived
  eof,             \* the peer has closed its side
  reset,           \* the connection is broken: writes fail
  pc,              \* the callback the loop thread is in, in the middle of a handler
  functors,        \* functors queued for the loop thread
  removal,         \* how far the owner is with removing the connection
  callerPc,        \* the other thread, inside shutdown()
  ups, downs,      \* history: connectionCallback_ called, while connected() and not
  finAt,           \* history: accepted when shutdown(SHUT_WR) was called
  closed,          \* history: handleClose() was called
  failed           \* the assertion that failed

channel == <<reading, writing, polled>>
output == <<outputBuffer, wire, accepted>>
peer == <<input, inputBuffer, consumed, arrivals, eof, reset>>
close == <<removal, closed>>
vars == <<state, reading, writing, polled, outputBuffer, wire, accepted, fin,
          input, inputBuffer, consumed, arrivals, eof, reset, pc, functors, removal, callerPc, ups,
          downs, finAt, closed, failed>>

Init ==
  /\ state = "kConnecting"
  /\ reading = FALSE /\ writing = FALSE /\ polled = FALSE
  /\ outputBuffer = NewBuffer /\ wire = << >> /\ accepted = 0
  /\ fin = FALSE /\ finAt = 0
  /\ input = << >> /\ inputBuffer = NewBuffer /\ consumed = << >> /\ arrivals = 0 /\ eof = FALSE /\ reset = FALSE
  /\ pc = "idle" /\ functors = <<"connectEstablished">>
  /\ removal = "none" /\ callerPc = "user"
  /\ ups = 0 /\ downs = 0 /\ closed = FALSE /\ failed = "none"

Running == failed = "none"
InUserCode == Running /\ ups > 0      \* nobody else is given the connection
AtRest == Running /\ pc = "idle"      \* the loop thread can start something new

\* Seeded fault: only kWriteEvent counts.
UpdateWriteEvent == polled' = writing'

\* Channel::update(): the poller watches what has events.
Update == polled' = (reading' \/ writing')

Fail(where) == failed' = where

-----------------------------------------------------------------------------
(* send() *)

\* Seeded fault: a byte is skipped.
MessageAfterNext(n) == [i \in 1..n |-> accepted + i + 1]

\* The bytes that sendInLoop() is given next.
Message(n) == [i \in 1..n |-> accepted + i]

\* write(2) takes some of the bytes, perhaps none; a broken connection takes none.
Takes(n) == IF fin \/ reset THEN {0} ELSE 0..n

EnableWriting == writing' = TRUE /\ UNCHANGED reading /\ Update

\* Seeded fault: the buffer left by a close is not looked at.
NotWriting == ~writing

NothingBuffered == ~writing /\ ReadableBytes(outputBuffer) = 0

SendInLoop(n) ==
  /\ accepted' = accepted + n
  /\ \E k \in IF NothingBuffered THEN Takes(n) ELSE {0} :
       /\ wire' = wire \o SubSeq(Message(n), 1, k)
       /\ outputBuffer' = AppendBytes(outputBuffer, SubSeq(Message(n), k + 1, n))
       /\ IF k < n /\ ~writing THEN EnableWriting ELSE UNCHANGED channel

Queued(op) == \E i \in DOMAIN functors : functors[i] = op

\* In the loop thread send() comes down to sendInLoop() in every state; the
\* writeCompleteCallback_ it may call is application code, like what follows.
OwnSend(n) ==
  /\ InUserCode
  /\ accepted + n + (IF Queued("sendInLoop") THEN 1 ELSE 0) <= MaxBytes
  /\ SendInLoop(n)
  /\ UNCHANGED <<state, fin, peer, pc, functors, close, callerPc, ups, downs, finAt, failed>>

\* Another thread's send() of a byte calls sendInLoop() itself while the
\* connection is up, and that asserts that it is in the loop thread.
ForeignSend ==
  /\ InUserCode /\ callerPc \in {"user", "done"}
  /\ accepted < MaxBytes /\ ~Queued("sendInLoop")
  /\ IF state = "kConnected"
     THEN Fail("sendInLoop") /\ UNCHANGED functors
     ELSE functors' = Append(functors, "sendInLoop") /\ UNCHANGED failed
  /\ UNCHANGED <<state, channel, output, fin, peer, pc, close, callerPc, ups, downs, finAt>>

CallSendInLoop ==
  /\ AtRest /\ functors # << >> /\ Head(functors) = "sendInLoop"
  /\ functors' = Tail(functors)
  /\ SendInLoop(1)
  /\ UNCHANGED <<state, fin, peer, pc, close, callerPc, ups, downs, finAt, failed>>

-----------------------------------------------------------------------------
(* shutdown() *)

\* Seeded fault: the output buffer is not waited for.
ShutdownAtOnce == fin' = TRUE /\ finAt' = IF fin THEN finAt ELSE accepted

ShutdownInLoop ==
  IF writing THEN UNCHANGED <<fin, finAt>>
             ELSE fin' = TRUE /\ finAt' = IF fin THEN finAt ELSE accepted

OwnShutdown ==
  /\ InUserCode /\ state = "kConnected"
  /\ state' = "kDisconnecting"
  /\ ShutdownInLoop
  /\ UNCHANGED <<channel, output, peer, pc, functors, close, callerPc, ups, downs, failed>>

ForeignShutdownTests ==
  /\ InUserCode /\ callerPc = "user" /\ state = "kConnected"
  /\ callerPc' = "tested"
  /\ UNCHANGED <<state, channel, output, fin, peer, pc, functors, close, ups, downs,
                 finAt, failed>>

ForeignShutdownSets ==
  /\ Running /\ callerPc = "tested"
  /\ callerPc' = "set"
  /\ state' = "kDisconnecting"
  /\ UNCHANGED <<channel, output, fin, peer, pc, functors, close, ups, downs, finAt, failed>>

ForeignShutdownQueues ==
  /\ Running /\ callerPc = "set"
  /\ callerPc' = "done"
  /\ functors' = Append(functors, "shutdownInLoop")
  /\ UNCHANGED <<state, channel, output, fin, peer, pc, close, ups, downs, finAt, failed>>

CallShutdownInLoop ==
  /\ AtRest /\ functors # << >> /\ Head(functors) = "shutdownInLoop"
  /\ functors' = Tail(functors)
  /\ ShutdownInLoop
  /\ UNCHANGED <<state, channel, output, peer, pc, close, callerPc, ups, downs, failed>>

-----------------------------------------------------------------------------
(* The owner's functors *)

ConnectEstablished ==
  /\ AtRest /\ functors # << >> /\ Head(functors) = "connectEstablished"
  /\ functors' = Tail(functors)
  /\ IF state = "kConnecting"
     THEN /\ state' = "kConnected"
          /\ reading' = TRUE /\ UNCHANGED writing /\ Update
          /\ ups' = ups + 1 /\ UNCHANGED failed
     ELSE Fail("connectEstablished") /\ UNCHANGED <<state, channel, ups>>
  /\ UNCHANGED <<output, fin, peer, pc, close, callerPc, downs, finAt>>

\* connectDestroyed() up to the callback, and the rest.
ConnectDestroyed ==
  /\ AtRest /\ functors # << >> /\ Head(functors) = "connectDestroyed"
  /\ functors' = Tail(functors)
  /\ IF state \in {"kConnected", "kDisconnecting"}
     THEN /\ state' = "kDisconnected"
          /\ reading' = FALSE /\ writing' = FALSE /\ Update
          /\ downs' = downs + 1
          /\ pc' = "down" /\ UNCHANGED failed
     ELSE Fail("connectDestroyed") /\ UNCHANGED <<state, channel, downs, pc>>
  /\ UNCHANGED <<output, fin, peer, close, callerPc, ups, finAt>>

RemoveChannel ==
  /\ Running /\ pc = "down"
  /\ pc' = "idle"
  /\ polled' = FALSE
  /\ UNCHANGED <<state, reading, writing, output, fin, peer, functors, close, callerPc,
                 ups, downs, finAt, failed>>

-----------------------------------------------------------------------------
(* Handlers *)

\* Seeded fault: the channel goes on watching the closed connection.
KeepReading == UNCHANGED channel

DisableAllEvents == reading' = FALSE /\ writing' = FALSE /\ Update

HandleClose ==
  /\ closed' = TRUE
  /\ IF state \in {"kConnected", "kDisconnecting"}
     THEN DisableAllEvents /\ removal' = "asked" /\ UNCHANGED failed
     ELSE Fail("handleClose") /\ UNCHANGED <<channel, removal>>

\* messageCallback_ takes as many of the bytes in the buffer as it likes.
MessageCallback(buffer) ==
  \/ \E k \in 0..ReadableBytes(buffer) :
       /\ consumed' = consumed \o SubSeq(Readable(buffer), 1, k)
       /\ inputBuffer' = Retrieve(buffer, k)
  \/ /\ consumed' = consumed \o Readable(buffer)
     /\ inputBuffer' = RetrieveAll(buffer)

\* The channel is readable: bytes, the end of the stream or an error.  The
\* error is only logged; a read after it finds the end.
HandleRead ==
  /\ AtRest /\ polled /\ reading /\ (input # << >> \/ eof)
  /\ IF input = << >> THEN HandleClose /\ UNCHANGED <<input, inputBuffer, consumed>>
     ELSE LET n == ReadSize(inputBuffer, Len(input))
          IN /\ MessageCallback(ReadFd(inputBuffer, SubSeq(input, 1, n)))
             /\ input' = SubSeq(input, n + 1, Len(input))
             /\ UNCHANGED <<channel, close, failed>>
  /\ UNCHANGED <<state, output, fin, arrivals, eof, reset, pc, functors, callerPc, ups,
                 downs, finAt>>

\* Seeded fault: disableWriting() forgotten.
KeepWriting == UNCHANGED channel

DisableWriting == writing' = FALSE /\ UNCHANGED reading /\ Update

\* handleWrite() up to writeCompleteCallback_.
HandleWrite ==
  /\ AtRest /\ polled /\ writing
  /\ \E k \in Takes(ReadableBytes(outputBuffer)) \ {0} :
       /\ wire' = wire \o SubSeq(Readable(outputBuffer), 1, k)
       /\ outputBuffer' = Retrieve(outputBuffer, k)
       /\ IF k = ReadableBytes(outputBuffer) THEN DisableWriting /\ pc' = "flushed"
                                   ELSE UNCHANGED <<channel, pc>>
  /\ UNCHANGED <<state, accepted, fin, peer, functors, close, callerPc, ups, downs,
                 finAt, failed>>

\* Seeded fault: a shutdown() that had to wait is forgotten.
NeverDisconnecting == FALSE

Disconnecting == state = "kDisconnecting"

\* ... and the rest of it.
Flushed ==
  /\ Running /\ pc = "flushed"
  /\ pc' = "idle"
  /\ IF Disconnecting THEN ShutdownInLoop ELSE UNCHANGED <<fin, finAt>>
  /\ UNCHANGED <<state, channel, output, peer, functors, close, callerPc, ups, downs, failed>>

-----------------------------------------------------------------------------
(* The owner and the peer *)

\* removeConnection(), in whichever threads it takes.
OwnerRemoves ==
  /\ Running /\ removal = "asked"
  /\ removal' = "queued"
  /\ functors' = Append(functors, "connectDestroyed")
  /\ UNCHANGED <<state, channel, output, fin, peer, pc, callerPc, ups, downs, finAt,
                 closed, failed>>

PeerSends ==
  /\ Running /\ arrivals < MaxInput /\ ~eof /\ ~reset
  /\ arrivals' = arrivals + 1
  /\ input' = Append(input, arrivals')
  /\ UNCHANGED <<state, channel, output, fin, inputBuffer, consumed, eof, reset, pc, functors, close, callerPc,
                 ups, downs, finAt, failed>>

PeerCloses ==
  /\ Running /\ ~eof
  /\ eof' = TRUE
  /\ reset' \in {reset, TRUE}
  /\ UNCHANGED <<state, channel, output, fin, input, inputBuffer, consumed, arrivals, pc,
                 functors, close, callerPc, ups, downs, finAt, failed>>

LoopStep ==
  \/ CallSendInLoop \/ CallShutdownInLoop \/ ConnectEstablished \/ ConnectDestroyed
  \/ RemoveChannel \/ Flushed

Next ==
  \/ \E n \in 1..MaxBytes : OwnSend(n)
  \/ ForeignSend \/ OwnShutdown
  \/ ForeignShutdownTests \/ ForeignShutdownSets \/ ForeignShutdownQueues
  \/ LoopStep \/ HandleRead \/ HandleWrite
  \/ OwnerRemoves \/ PeerSends \/ PeerCloses

Spec == Init /\ [][Next]_vars

(***************************************************************************)
(* The loop thread, the owner's thread and a caller inside shutdown() are  *)
(* scheduled, callbacks return, the poller reports a readable or writable  *)
(* channel, and the peer reads what it is sent, so that the channel does   *)
(* become writable.  The peer need not send or close.                      *)
(***************************************************************************)
FairSpec ==
  /\ Spec /\ WF_vars(LoopStep) /\ WF_vars(HandleRead) /\ WF_vars(HandleWrite)
  /\ WF_vars(OwnerRemoves)
  /\ WF_vars(ForeignShutdownSets) /\ WF_vars(ForeignShutdownQueues)

-----------------------------------------------------------------------------
(* Properties *)

\* Type correctness; the connection is never beyond the bytes the application gave.
TypeOK ==
  /\ state \in {"kConnecting", "kConnected", "kDisconnecting", "kDisconnected"}
  /\ reading \in BOOLEAN /\ writing \in BOOLEAN /\ polled \in BOOLEAN
  /\ IsBuffer(inputBuffer) /\ IsBuffer(outputBuffer) /\ wire \in Seq(1..MaxBytes)
  /\ accepted \in 0..MaxBytes
  /\ fin \in BOOLEAN /\ finAt \in Nat
  /\ input \in Seq(1..MaxInput) /\ consumed \in Seq(1..MaxInput) /\ arrivals \in 0..MaxInput
  /\ eof \in BOOLEAN /\ reset \in BOOLEAN
  /\ pc \in {"idle", "down", "flushed"}
  /\ functors \in Seq({"connectEstablished", "connectDestroyed", "sendInLoop",
                       "shutdownInLoop"})
  /\ removal \in {"none", "asked", "queued"}
  /\ callerPc \in {"user", "tested", "set", "done"}
  /\ ups \in Nat /\ downs \in Nat /\ closed \in BOOLEAN
  /\ failed \in {"none", "sendInLoop", "connectEstablished", "connectDestroyed",
                 "handleClose"}

\* Every byte given to sendInLoop() is on the wire or in the buffer, in order,
\* once - also when write(2) takes a part, when a callback sends in the middle of
\* handleWrite(), and around a close.  Every byte of the peer was taken by a
\* message callback, or is in the buffer or the kernel, in order, once, however
\* readFd() had to split it and whatever the callbacks left in the buffer.
BytesInOrder ==
  /\ wire \o Readable(outputBuffer) = [i \in 1..accepted |-> i]
  /\ consumed \o Readable(inputBuffer) \o input = [i \in 1..arrivals |-> i]

\* Until the connection is closed the channel waits to write just as long as
\* there is something to write: no byte is stuck, no event fires for nothing.
WatchesOutput == ups > 0 /\ ~closed => (writing <=> ReadableBytes(outputBuffer) > 0)

\* shutdown() gives the peer every byte first, whether it finds the buffer empty
\* or handleWrite() empties it, unless the connection is closed.
FinAfterFlush == fin /\ ~closed => Len(wire) >= finAt

\* The assertions of connectEstablished(), handleClose() and connectDestroyed()
\* hold: the connection is taken through its states once, though shutdown() in
\* another thread writes state_, too.  The application learns of it in pairs.
LivesOnce == /\ failed \notin {"connectEstablished", "handleClose", "connectDestroyed"}
             /\ downs <= ups /\ ups <= 1
             /\ downs = 1 => closed

\* A shutdown() ends the stream, unless the connection breaks or is closed.
ShutdownCompletes == (state = "kDisconnecting") ~> (fin \/ reset \/ closed \/ ~Running)

\* A peer's close is noticed and the application told, once it is connected.
CloseIsReported == (eof /\ ups > 0) ~> (downs > 0 \/ ~Running)
=============================================================================
