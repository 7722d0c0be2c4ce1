------------------------------- MODULE Buffer -------------------------------
(***************************************************************************)
(* class Buffer (io/Buffer.{h,cc}): a queue of bytes in a vector, between  *)
(* two indices, with room before and after them.  A module without         *)
(* variables: the buffers are their connection's.                          *)
(***************************************************************************)
EXTENDS Integers, Sequences

CONSTANTS
  kCheapPrepend,   \* what stays free before the bytes
  kInitialSize,    \* the room after them in a new buffer
  ExtraBuf         \* the size of readFd()'s buffer on the stack

ASSUME BufferAssumption ==
  kCheapPrepend \in Nat /\ kInitialSize \in Nat /\ ExtraBuf \in Nat \ {0}

\* A cell nobody has written to.
Unused == 0

Cells(n) == [i \in 1..n |-> Unused]

\* Buffer()
NewBuffer ==
  [cells |-> Cells(kCheapPrepend + kInitialSize),
   reader |-> kCheapPrepend, writer |-> kCheapPrepend]

ReadableBytes(b) == b.writer - b.reader
WritableBytes(b) == Len(b.cells) - b.writer
PrependableBytes(b) == b.reader

\* The bytes in the buffer.
Readable(b) == SubSeq(b.cells, b.reader + 1, b.writer)

\* retrieve(), with at most ReadableBytes(b)
Retrieve(b, len) == [b EXCEPT !.reader = @ + len]

\* retrieveAll()
RetrieveAll(b) == [b EXCEPT !.reader = kCheapPrepend, !.writer = kCheapPrepend]

\* buffer_.resize(writerIndex_ + len)
Resize(b, len) ==
  [b EXCEPT !.cells = @ \o Cells(b.writer + len - Len(@))]

\* The bytes move to the front; what they leave stays as it was.
MoveToFront(b) ==
  [cells |-> [i \in DOMAIN b.cells |->
                IF i - kCheapPrepend \in 1..ReadableBytes(b)
                THEN b.cells[i - kCheapPrepend + b.reader] ELSE b.cells[i]],
   reader |-> kCheapPrepend,
   writer |-> kCheapPrepend + ReadableBytes(b)]

\* makeSpace()
MakeSpace(b, len) ==
  IF WritableBytes(b) + PrependableBytes(b) < len + kCheapPrepend
  THEN Resize(b, len) ELSE MoveToFront(b)

\* ensureWritableBytes()
EnsureWritableBytes(b, len) ==
  IF WritableBytes(b) < len THEN MakeSpace(b, len) ELSE b

\* Bytes are copied to the room behind writerIndex_, then hasWritten().
Write(b, bytes) ==
  [b EXCEPT !.cells = [i \in DOMAIN @ |->
                         IF i - b.writer \in DOMAIN bytes
                         THEN bytes[i - b.writer] ELSE @[i]],
            !.writer = @ + Len(bytes)]

\* append()
AppendBytes(b, bytes) == Write(EnsureWritableBytes(b, Len(bytes)), bytes)

\* How much of n bytes readv(2) takes: what fits behind writerIndex_ and in the
\* buffer on the stack.
ReadSize(b, n) == LET room == WritableBytes(b) + ExtraBuf
                  IN IF n < room THEN n ELSE room

\* Seeded fault: the bytes on the stack are appended where the others begin.
ReadFdOverwriting(b, bytes) ==
  LET writable == WritableBytes(b)
  IN IF Len(bytes) <= writable THEN Write(b, bytes)
     ELSE AppendBytes(b, SubSeq(bytes, writable + 1, Len(bytes)))

\* readFd() of so many bytes.
ReadFd(b, bytes) ==
  LET writable == WritableBytes(b)
  IN IF Len(bytes) <= writable THEN Write(b, bytes)
     ELSE AppendBytes(Write(b, SubSeq(bytes, 1, writable)),
                      SubSeq(bytes, writable + 1, Len(bytes)))

\* The constructor's and the other assertions keep the indices in this order.
IsBuffer(b) ==
  /\ kCheapPrepend <= b.reader /\ b.reader <= b.writer
  /\ b.writer <= Len(b.cells)
=============================================================================
