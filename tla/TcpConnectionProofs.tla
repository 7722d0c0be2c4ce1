------------------------ MODULE TcpConnectionProofs -------------------------
(***************************************************************************)
(* Proofs about Buffer and TcpConnection, for buffers of any initial size, *)
(* messages of any length and any number of bytes in both directions.      *)
(***************************************************************************)
EXTENDS TcpConnection, SequenceTheorems, TLAPS

-----------------------------------------------------------------------------
(* Buffer *)

\* A buffer whose bytes are elements of S, in cells that may also be unused.
BufferOf(S) ==
  {b \in [cells : Seq(S \cup {Unused}), reader : Nat, writer : Nat] :
     IsBuffer(b) /\ Readable(b) \in Seq(S)}

\* Two indices into the cells of a buffer say how much there is to read, and
\* what: the basis of the lemmas about single operations.
LEMMA ReadableFacts ==
  ASSUME NEW S, NEW b \in [cells : Seq(S \cup {Unused}), reader : Nat, writer : Nat],
         IsBuffer(b)
  PROVE  /\ ReadableBytes(b) \in Nat /\ WritableBytes(b) \in Nat
         /\ Len(b.cells) \in Nat /\ DOMAIN b.cells = 1..Len(b.cells)
         /\ Readable(b) \in Seq(S \cup {Unused})
         /\ Len(Readable(b)) = ReadableBytes(b)
         /\ \A i \in 1..ReadableBytes(b) : Readable(b)[i] = b.cells[b.reader + i]
<1>1. /\ b.reader \in Nat /\ b.writer \in Nat /\ Len(b.cells) \in Nat
      /\ b.reader <= b.writer /\ b.writer <= Len(b.cells)
      /\ b.cells \in Seq(S \cup {Unused})
  BY LenProperties DEF IsBuffer
<1>2. \A i \in (b.reader + 1)..b.writer : b.cells[i] \in S \cup {Unused}
  BY <1>1, ElementOfSeq
<1>3. DOMAIN b.cells = 1..Len(b.cells)
  BY <1>1, LenProperties
<1>4. /\ Readable(b) \in Seq(S \cup {Unused})
      /\ Len(Readable(b)) = IF b.reader + 1 <= b.writer
                            THEN b.writer - (b.reader + 1) + 1 ELSE 0
      /\ \A i \in 1..(b.writer - (b.reader + 1) + 1) :
           Readable(b)[i] = b.cells[(b.reader + 1) + i - 1]
  <2> HIDE DEF Readable
  <2>1. b.reader + 1 \in Int /\ b.writer \in Int
    BY <1>1
  <2> QED
    BY <1>2, <2>1, SubSeqProperties DEF Readable
<1> QED
  BY <1>1, <1>3, <1>4 DEF ReadableBytes, WritableBytes

\* Buffer(): nothing to read.
LEMMA NewBufferIsEmpty ==
  ASSUME NEW S
  PROVE  /\ NewBuffer \in BufferOf(S)
         /\ Readable(NewBuffer) = << >> /\ ReadableBytes(NewBuffer) = 0
<1> DEFINE n == kCheapPrepend + kInitialSize
<1>1. kCheapPrepend \in Nat /\ n \in Nat /\ kCheapPrepend <= n
  BY BufferAssumption DEF BufferAssumption
<1>2. Cells(n) \in Seq(S \cup {Unused}) /\ Len(Cells(n)) = n
  BY <1>1 DEF Cells
<1>3. /\ NewBuffer \in [cells : Seq(S \cup {Unused}), reader : Nat, writer : Nat]
      /\ IsBuffer(NewBuffer) /\ ReadableBytes(NewBuffer) = 0
  BY <1>1, <1>2 DEF NewBuffer, IsBuffer, ReadableBytes
<1>4. Readable(NewBuffer) = << >>
  BY <1>1, SubSeqEmpty DEF NewBuffer, Readable
<1> QED
  BY <1>3, <1>4, EmptySeq DEF BufferOf

\* retrieve(): what was taken was the front of what there was to read.
LEMMA RetrieveTakesFront ==
  ASSUME NEW S, NEW b \in BufferOf(S), NEW k \in 0..ReadableBytes(b)
  PROVE  /\ Retrieve(b, k) \in BufferOf(S)
         /\ SubSeq(Readable(b), 1, k) \in Seq(S)
         /\ Len(SubSeq(Readable(b), 1, k)) = k
         /\ ReadableBytes(Retrieve(b, k)) = ReadableBytes(b) - k
         /\ SubSeq(Readable(b), 1, k) \o Readable(Retrieve(b, k)) = Readable(b)
<1> DEFINE c == Retrieve(b, k)
           front == SubSeq(Readable(b), 1, k)
           r == Readable(b)
<1>1. /\ b \in [cells : Seq(S \cup {Unused}), reader : Nat, writer : Nat]
      /\ IsBuffer(b) /\ r \in Seq(S)
  BY DEF BufferOf
<1>2. /\ ReadableBytes(b) \in Nat /\ Len(r) = ReadableBytes(b)
      /\ \A i \in 1..ReadableBytes(b) : r[i] = b.cells[b.reader + i]
  BY <1>1, ReadableFacts
<1>3. /\ c.cells = b.cells /\ c.reader = b.reader + k /\ c.writer = b.writer
      /\ c \in [cells : Seq(S \cup {Unused}), reader : Nat, writer : Nat]
  BY <1>1, <1>2 DEF Retrieve
<1> HIDE DEF c, front, r
<1>4. IsBuffer(c) /\ ReadableBytes(c) = ReadableBytes(b) - k
  <2>1. /\ b.reader \in Nat /\ b.writer \in Nat /\ Len(b.cells) \in Nat
        /\ kCheapPrepend \in Nat /\ k \in Nat /\ k <= b.writer - b.reader
    BY <1>1, <1>2, LenProperties, BufferAssumption DEF BufferAssumption, ReadableBytes
  <2> QED
    BY <1>1, <1>3, <2>1 DEF IsBuffer, ReadableBytes
<1>5. /\ Len(Readable(c)) = ReadableBytes(b) - k
      /\ \A i \in 1..(ReadableBytes(b) - k) : Readable(c)[i] = b.cells[b.reader + k + i]
      /\ Readable(c) \in Seq(S \cup {Unused})
  BY <1>3, <1>4, ReadableFacts
<1>6. front \in Seq(S) /\ Len(front) = k /\ \A i \in 1..k : front[i] = r[i]
  <2>1. \A i \in 1..k : r[i] \in S
    BY <1>1, <1>2, ElementOfSeq
  <2>2. k \in Int /\ 1 \in Int /\ k \in Nat
    BY <1>2
  <2> QED
    BY <2>1, <2>2, SubSeqProperties DEF front, r
<1>7. Readable(c) \in Seq(S)
  <2>1. \A i \in 1..Len(Readable(c)) : Readable(c)[i] \in S
    <3> SUFFICES ASSUME NEW i \in 1..Len(Readable(c)) PROVE Readable(c)[i] \in S
      OBVIOUS
    <3>1. k + i \in 1..Len(r) /\ Readable(c)[i] = r[k + i]
      BY <1>1, <1>2, <1>5
    <3> QED
      BY <1>1, <3>1, ElementOfSeq
  <2> QED
    BY <1>5, <2>1
<1>8. front \o Readable(c) = r
  <2>1. /\ front \o Readable(c) \in Seq(S)
        /\ Len(front \o Readable(c)) = Len(front) + Len(Readable(c))
        /\ \A i \in 1..(Len(front) + Len(Readable(c))) :
             (front \o Readable(c))[i] =
               IF i <= Len(front) THEN front[i] ELSE Readable(c)[i - Len(front)]
    BY <1>6, <1>7, ConcatProperties
  <2>2. Len(front) + Len(Readable(c)) = Len(r) /\ k \in Nat /\ Len(r) \in Nat
    BY <1>2, <1>5, <1>6
  <2>3. ASSUME NEW i \in 1..Len(r)
        PROVE  (front \o Readable(c))[i] = r[i]
    <3>1. CASE i <= k
      BY <1>6, <2>1, <2>2, <3>1
    <3>2. CASE i > k
      <4>1. i - k \in 1..(ReadableBytes(b) - k) /\ b.reader \in Nat
        BY <1>1, <1>2, <2>2, <3>2
      <4>2. (front \o Readable(c))[i] = Readable(c)[i - k]
        BY <1>6, <2>1, <2>2, <3>2
      <4>3. b.reader + k + (i - k) = b.reader + i
        BY <2>2, <4>1
      <4> QED
        BY <1>2, <1>5, <4>1, <4>2, <4>3
    <3> QED
      BY <2>2, <3>1, <3>2
  <2> QED
    BY <1>1, <2>1, <2>2, <2>3, SeqEqual
<1> QED
  BY <1>3, <1>4, <1>6, <1>7, <1>8 DEF BufferOf, c, front, r

\* retrieveAll(): nothing is left to read.
LEMMA RetrieveAllEmpties ==
  ASSUME NEW S, NEW b \in BufferOf(S)
  PROVE  /\ RetrieveAll(b) \in BufferOf(S)
         /\ Readable(RetrieveAll(b)) = << >> /\ ReadableBytes(RetrieveAll(b)) = 0
<1>1. /\ b \in [cells : Seq(S \cup {Unused}), reader : Nat, writer : Nat]
      /\ IsBuffer(b) /\ kCheapPrepend \in Nat /\ Len(b.cells) \in Nat
  BY BufferAssumption, LenProperties DEF BufferOf, BufferAssumption
<1>2. /\ RetrieveAll(b).cells = b.cells
      /\ RetrieveAll(b).reader = kCheapPrepend /\ RetrieveAll(b).writer = kCheapPrepend
      /\ RetrieveAll(b) \in [cells : Seq(S \cup {Unused}), reader : Nat, writer : Nat]
  BY <1>1 DEF RetrieveAll
<1>e. IsBuffer(RetrieveAll(b)) /\ ReadableBytes(RetrieveAll(b)) = 0
  BY <1>1, <1>2 DEF IsBuffer, ReadableBytes
<1>3. Readable(RetrieveAll(b)) = << >>
  BY <1>1, SubSeqEmpty DEF RetrieveAll, Readable
<1> QED
  BY <1>2, <1>e, <1>3, EmptySeq DEF BufferOf

\* The vector grows, or the bytes move to the front: what there is to read stays,
\* and there is room for len more.
LEMMA EnsureKeepsReadable ==
  ASSUME NEW S, NEW b \in BufferOf(S), NEW len \in Nat
  PROVE  /\ EnsureWritableBytes(b, len) \in BufferOf(S)
         /\ Readable(EnsureWritableBytes(b, len)) = Readable(b)
         /\ len <= WritableBytes(EnsureWritableBytes(b, len))
<1> DEFINE T == S \cup {Unused}
<1> DEFINE Raw == [cells : Seq(T), reader : Nat, writer : Nat]
<1>1. /\ b \in Raw /\ IsBuffer(b) /\ Readable(b) \in Seq(S)
      /\ b.cells \in Seq(T) /\ b.reader \in Nat /\ b.writer \in Nat
      /\ kCheapPrepend \in Nat
  BY BufferAssumption DEF BufferOf, BufferAssumption
<1>2. /\ ReadableBytes(b) \in Nat /\ WritableBytes(b) \in Nat /\ Len(b.cells) \in Nat
      /\ DOMAIN b.cells = 1..Len(b.cells)
      /\ Readable(b) \in Seq(T) /\ Len(Readable(b)) = ReadableBytes(b)
      /\ \A i \in 1..ReadableBytes(b) : Readable(b)[i] = b.cells[b.reader + i]
  BY <1>1, ReadableFacts
<1>3. /\ kCheapPrepend <= b.reader /\ b.reader <= b.writer /\ b.writer <= Len(b.cells)
  BY <1>1 DEF IsBuffer
<1> HIDE DEF Raw, T
<1>s. \* the same readable cells elsewhere are the same bytes
      ASSUME NEW c \in Raw, IsBuffer(c), ReadableBytes(c) = ReadableBytes(b),
             \A i \in 1..ReadableBytes(b) : c.cells[c.reader + i] = b.cells[b.reader + i]
      PROVE  Readable(c) = Readable(b) /\ c \in BufferOf(S)
  <2>1. /\ Readable(c) \in Seq(T) /\ Len(Readable(c)) = ReadableBytes(b)
        /\ \A i \in 1..ReadableBytes(b) : Readable(c)[i] = c.cells[c.reader + i]
    BY <1>s, ReadableFacts DEF Raw, T
  <2>2. Readable(c) = Readable(b)
    BY <1>2, <1>s, <2>1, SeqEqual
  <2> QED
    BY <1>1, <1>s, <2>2 DEF BufferOf, Raw, T
<1>4. CASE len <= WritableBytes(b)
  <2>1. EnsureWritableBytes(b, len) = b
    BY <1>2, <1>4 DEF EnsureWritableBytes
  <2> QED
    BY <1>4, <2>1
<1>5. CASE /\ WritableBytes(b) < len
           /\ WritableBytes(b) + PrependableBytes(b) < len + kCheapPrepend
  <2> DEFINE n == b.writer + len - Len(b.cells)
             c == Resize(b, len)
  <2>1. n \in Nat
    BY <1>1, <1>2, <1>5 DEF WritableBytes
  <2>n. n = b.writer + len - Len(b.cells)
    OBVIOUS
  <2>c. c = [b EXCEPT !.cells = @ \o Cells(n)]
    BY DEF Resize
  <2> HIDE DEF n
  <2>2. Cells(n) \in Seq(T) /\ Len(Cells(n)) = n
    BY <2>1 DEF Cells, T
  <2>3. /\ c.cells = b.cells \o Cells(n) /\ c.reader = b.reader /\ c.writer = b.writer
    BY <1>1, <2>c DEF Raw
  <2>4. /\ c.cells \in Seq(T) /\ Len(c.cells) = b.writer + len
        /\ \A i \in 1..Len(b.cells) : c.cells[i] = b.cells[i]
    <3>1. /\ b.cells \o Cells(n) \in Seq(T)
          /\ Len(b.cells \o Cells(n)) = Len(b.cells) + Len(Cells(n))
          /\ \A i \in 1..(Len(b.cells) + Len(Cells(n))) :
               (b.cells \o Cells(n))[i] =
                 IF i <= Len(b.cells) THEN b.cells[i] ELSE Cells(n)[i - Len(b.cells)]
      BY <1>1, <2>2, ConcatProperties
    <3>2. Len(b.cells) + Len(Cells(n)) = b.writer + len
      BY <1>1, <1>2, <2>2, <2>n
    <3> HIDE DEF c
    <3> QED
      BY <1>2, <2>1, <2>2, <2>3, <3>1, <3>2
  <2>5. c \in Raw
    BY <1>1, <2>c, <2>3, <2>4 DEF Raw
  <2> HIDE DEF c
  <2>6. IsBuffer(c) /\ ReadableBytes(c) = ReadableBytes(b) /\ WritableBytes(c) = len
    BY <1>1, <1>3, <2>3, <2>4 DEF IsBuffer, ReadableBytes, WritableBytes
  <2>7. \A i \in 1..ReadableBytes(b) : c.cells[c.reader + i] = b.cells[b.reader + i]
    <3>1. \A i \in 1..ReadableBytes(b) : b.reader + i \in 1..Len(b.cells)
      BY <1>1, <1>2, <1>3 DEF ReadableBytes
    <3> QED
      BY <2>3, <2>4, <3>1
  <2>8. EnsureWritableBytes(b, len) = c
    BY <1>5 DEF EnsureWritableBytes, MakeSpace, c
  <2> QED
    BY <1>s, <2>5, <2>6, <2>7, <2>8
<1>6. CASE /\ WritableBytes(b) < len
           /\ ~(WritableBytes(b) + PrependableBytes(b) < len + kCheapPrepend)
  <2> DEFINE m == ReadableBytes(b)
             e(i) == IF i - kCheapPrepend \in 1..m
                     THEN b.cells[i - kCheapPrepend + b.reader] ELSE b.cells[i]
             c == MoveToFront(b)
  <2>1. /\ c.cells = [i \in 1..Len(b.cells) |-> e(i)]
        /\ c.reader = kCheapPrepend /\ c.writer = kCheapPrepend + m
    BY <1>2 DEF MoveToFront
  <2>2. \A i \in 1..Len(b.cells) : e(i) \in T
    <3> SUFFICES ASSUME NEW i \in 1..Len(b.cells) PROVE e(i) \in T
      OBVIOUS
    <3>1. CASE i - kCheapPrepend \in 1..m
      <4>1. i - kCheapPrepend + b.reader \in 1..Len(b.cells)
        BY <1>1, <1>2, <1>3, <3>1, SMTT(30) DEF ReadableBytes
      <4> QED
        BY <1>1, <3>1, <4>1, ElementOfSeq
    <3>2. CASE i - kCheapPrepend \notin 1..m
      BY <1>1, <3>2, ElementOfSeq
    <3> QED
      BY <3>1, <3>2
  <2>3. c.cells \in Seq(T) /\ Len(c.cells) = Len(b.cells)
    BY <1>2, <2>1, <2>2, LenProperties
  <2>4. \A i \in 1..m : c.cells[kCheapPrepend + i] = b.cells[b.reader + i]
    <3> SUFFICES ASSUME NEW i \in 1..m
                 PROVE  c.cells[kCheapPrepend + i] = b.cells[b.reader + i]
      OBVIOUS
    <3>1. /\ kCheapPrepend + i \in 1..Len(b.cells)
          /\ (kCheapPrepend + i) - kCheapPrepend = i
          /\ i + b.reader = b.reader + i
      BY <1>1, <1>2, <1>3 DEF ReadableBytes
    <3> HIDE DEF c
    <3> QED
      BY <2>1, <3>1
  <2>5. c \in Raw
    BY <1>1, <1>2, <2>1, <2>3 DEF MoveToFront, Raw
  <2> HIDE DEF c, m
  <2>6. /\ IsBuffer(c) /\ ReadableBytes(c) = ReadableBytes(b)
        /\ WritableBytes(c) = WritableBytes(b) + b.reader - kCheapPrepend
    <3>1. m = b.writer - b.reader /\ m \in Nat /\ ReadableBytes(b) = m
      BY <1>1, <1>2 DEF ReadableBytes, m
    <3>2. c.reader = kCheapPrepend /\ c.writer = kCheapPrepend + m /\ Len(c.cells) = Len(b.cells)
      BY <2>1, <2>3
    <3>3. /\ b.reader \in Nat /\ b.writer \in Nat /\ kCheapPrepend \in Nat
          /\ Len(b.cells) \in Nat
          /\ kCheapPrepend <= b.reader /\ b.reader <= b.writer /\ b.writer <= Len(b.cells)
      BY <1>1, <1>2, <1>3
    <3>4. IsBuffer(c)
      BY <3>1, <3>2, <3>3 DEF IsBuffer
    <3>5. ReadableBytes(c) = ReadableBytes(b)
      BY <3>1, <3>2, <3>3 DEF ReadableBytes
    <3>6. WritableBytes(c) = WritableBytes(b) + b.reader - kCheapPrepend
      <4>1. WritableBytes(c) = Len(b.cells) - (kCheapPrepend + m)
        BY <3>2 DEF WritableBytes
      <4>2. WritableBytes(b) = Len(b.cells) - b.writer
        BY DEF WritableBytes
      <4> QED
        BY <3>1, <3>3, <4>1, <4>2, SMTT(30)
    <3> QED
      BY <3>4, <3>5, <3>6
  <2>7. len <= WritableBytes(c)
    BY <1>1, <1>2, <1>6, <2>6 DEF PrependableBytes
  <2>8. EnsureWritableBytes(b, len) = c
    BY <1>6 DEF EnsureWritableBytes, MakeSpace, c
  <2> QED
    BY <1>s, <2>1, <2>4, <2>5, <2>6, <2>7, <2>8 DEF m
<1> QED
  BY <1>1, <1>2, <1>4, <1>5, <1>6 DEF PrependableBytes

\* Bytes for which there is room come to stand behind those there are.
LEMMA WriteAddsBehind ==
  ASSUME NEW S, NEW b \in BufferOf(S), NEW bytes \in Seq(S),
         Len(bytes) <= WritableBytes(b)
  PROVE  /\ Write(b, bytes) \in BufferOf(S)
         /\ Readable(Write(b, bytes)) = Readable(b) \o bytes
         /\ WritableBytes(Write(b, bytes)) = WritableBytes(b) - Len(bytes)
<1> DEFINE T == S \cup {Unused}
<1> DEFINE Raw == [cells : Seq(T), reader : Nat, writer : Nat]
           n == Len(bytes)
           c == Write(b, bytes)
<1>1. /\ b \in Raw /\ IsBuffer(b) /\ Readable(b) \in Seq(S)
      /\ b.cells \in Seq(T) /\ b.reader \in Nat /\ b.writer \in Nat
  BY DEF BufferOf
<1>2. /\ ReadableBytes(b) \in Nat /\ WritableBytes(b) \in Nat /\ Len(b.cells) \in Nat
      /\ DOMAIN b.cells = 1..Len(b.cells) /\ Len(Readable(b)) = ReadableBytes(b)
      /\ \A i \in 1..ReadableBytes(b) : Readable(b)[i] = b.cells[b.reader + i]
  BY <1>1, ReadableFacts
<1>3. /\ kCheapPrepend <= b.reader /\ b.reader <= b.writer /\ b.writer <= Len(b.cells)
      /\ kCheapPrepend \in Nat
  BY <1>1, BufferAssumption DEF IsBuffer, BufferAssumption
<1>4. n \in Nat /\ DOMAIN bytes = 1..n /\ n <= Len(b.cells) - b.writer
  BY LenProperties DEF WritableBytes
<1>5. c.cells = [i \in 1..Len(b.cells) |->
                   IF i - b.writer \in DOMAIN bytes THEN bytes[i - b.writer] ELSE b.cells[i]]
  BY <1>1, <1>2 DEF Write
<1>r. c.reader = b.reader /\ c.writer = b.writer + n
  BY <1>1 DEF Write
<1>6. \A i \in 1..Len(b.cells) :
        (IF i - b.writer \in DOMAIN bytes THEN bytes[i - b.writer] ELSE b.cells[i]) \in T
  BY <1>1, <1>4, ElementOfSeq
<1>7. c.cells \in Seq(T) /\ Len(c.cells) = Len(b.cells)
  BY <1>2, <1>5, <1>6
<1>8. c \in Raw
  <2> DEFINE w == [b EXCEPT !.cells = c.cells]
  <2>1. c = [w EXCEPT !.writer = c.writer]
    BY <1>1 DEF Write
  <2>2. c.writer \in Nat
    BY <1>1, <1>4, <1>r
  <2> HIDE DEF c
  <2>3. w \in Raw
    BY <1>1, <1>7
  <2> HIDE DEF w
  <2> QED
    BY <2>1, <2>2, <2>3
<1> HIDE DEF c, Raw, T
<1>9. /\ IsBuffer(c) /\ ReadableBytes(c) = ReadableBytes(b) + n
      /\ WritableBytes(c) = WritableBytes(b) - n
  <2> HIDE DEF n
  <2>1. n \in Nat /\ n <= Len(b.cells) - b.writer
    BY <1>4
  <2>2. IsBuffer(c)
    BY <1>1, <1>2, <1>3, <1>7, <1>r, <2>1 DEF IsBuffer
  <2>3. ReadableBytes(c) = ReadableBytes(b) + n
    BY <1>1, <1>r, <2>1 DEF ReadableBytes
  <2>4. WritableBytes(c) = WritableBytes(b) - n
    BY <1>1, <1>2, <1>7, <1>r, <2>1 DEF WritableBytes
  <2> QED
    BY <2>2, <2>3, <2>4
<1>10. /\ Readable(c) \in Seq(T) /\ Len(Readable(c)) = ReadableBytes(b) + n
       /\ \A i \in 1..(ReadableBytes(b) + n) : Readable(c)[i] = c.cells[b.reader + i]
  BY <1>8, <1>9, <1>r, ReadableFacts, ZenonT(40) DEF Raw, T
<1>11. /\ Readable(b) \o bytes \in Seq(S)
       /\ Len(Readable(b) \o bytes) = ReadableBytes(b) + n
       /\ \A i \in 1..(ReadableBytes(b) + n) :
            (Readable(b) \o bytes)[i] =
              IF i <= ReadableBytes(b) THEN Readable(b)[i] ELSE bytes[i - ReadableBytes(b)]
  <2>1. /\ Readable(b) \o bytes \in Seq(S)
        /\ Len(Readable(b) \o bytes) = Len(Readable(b)) + Len(bytes)
        /\ \A i \in 1..(Len(Readable(b)) + Len(bytes)) :
             (Readable(b) \o bytes)[i] =
               IF i <= Len(Readable(b)) THEN Readable(b)[i]
               ELSE bytes[i - Len(Readable(b))]
    BY <1>1, ConcatProperties
  <2> QED
    BY <1>2, <2>1
<1>12. ASSUME NEW i \in 1..(ReadableBytes(b) + n)
       PROVE  Readable(c)[i] = (Readable(b) \o bytes)[i]
  <2>1. /\ b.reader + i \in 1..Len(b.cells)
        /\ b.writer = b.reader + ReadableBytes(b)
    BY <1>1, <1>2, <1>3, <1>4, SMTT(30) DEF ReadableBytes
  <2>2. Readable(c)[i] = IF (b.reader + i) - b.writer \in DOMAIN bytes
                         THEN bytes[(b.reader + i) - b.writer]
                         ELSE b.cells[b.reader + i]
    <3>1. Readable(c)[i] = c.cells[b.reader + i]
      BY <1>10
    <3> QED
      BY <1>5, <2>1, <3>1
  <2>3. CASE i <= ReadableBytes(b)
    <3>1. (b.reader + i) - b.writer \notin 1..n /\ i \in 1..ReadableBytes(b)
      BY <1>1, <1>2, <1>4, <2>1, <2>3, SMTT(30)
    <3>2. (b.reader + i) - b.writer \notin DOMAIN bytes
      BY <1>4, <3>1, Zenon
    <3> QED
      BY <1>2, <1>11, <2>2, <2>3, <3>1, <3>2
  <2>4. CASE i > ReadableBytes(b)
    <3>1. (b.reader + i) - b.writer = i - ReadableBytes(b) /\ i - ReadableBytes(b) \in 1..n
      BY <1>1, <1>2, <1>4, <2>1, <2>4, SMTT(30)
    <3>2. (b.reader + i) - b.writer \in DOMAIN bytes
      BY <1>4, <3>1, Zenon
    <3>3. ~(i <= ReadableBytes(b))
      BY <1>2, <1>4, <2>4
    <3> QED
      BY <1>11, <2>2, <3>1, <3>2, <3>3
  <2> QED
    BY <1>2, <1>4, <2>3, <2>4
<1>13. Readable(c) = Readable(b) \o bytes
  <2>1. Readable(b) \o bytes \in Seq(T)
    BY <1>11, SeqMonotonic DEF T
  <2> QED
    BY <1>10, <1>11, <1>12, <2>1, SeqEqual
<1> QED
  BY <1>8, <1>9, <1>11, <1>13 DEF BufferOf, c, Raw, T

\* append(): the bytes come behind those there are, whichever way space is made.
LEMMA AppendAddsBehind ==
  ASSUME NEW S, NEW b \in BufferOf(S), NEW bytes \in Seq(S)
  PROVE  /\ AppendBytes(b, bytes) \in BufferOf(S)
         /\ Readable(AppendBytes(b, bytes)) = Readable(b) \o bytes
<1> DEFINE c == EnsureWritableBytes(b, Len(bytes))
<1>1. Len(bytes) \in Nat
  BY LenProperties
<1>2. c \in BufferOf(S) /\ Readable(c) = Readable(b) /\ Len(bytes) <= WritableBytes(c)
  BY <1>1, EnsureKeepsReadable
<1> HIDE DEF c
<1>3. Write(c, bytes) \in BufferOf(S) /\ Readable(Write(c, bytes)) = Readable(c) \o bytes
  BY <1>2, WriteAddsBehind
<1> QED
  BY <1>2, <1>3 DEF AppendBytes, c

\* A sequence is what a call took of it, followed by the rest.
LEMMA TakenAndRest ==
  ASSUME NEW S, NEW s \in Seq(S), NEW k \in 0..Len(s)
  PROVE  /\ SubSeq(s, 1, k) \in Seq(S) /\ Len(SubSeq(s, 1, k)) = k
         /\ SubSeq(s, k + 1, Len(s)) \in Seq(S)
         /\ Len(SubSeq(s, k + 1, Len(s))) = Len(s) - k
         /\ SubSeq(s, 1, k) \o SubSeq(s, k + 1, Len(s)) = s
<1>1. /\ k \in Nat /\ Len(s) \in Nat /\ k <= Len(s)
      /\ \A i \in 1..Len(s) : s[i] \in S
  BY LenProperties, ElementOfSeq
<1>2. /\ SubSeq(s, 1, k) \in Seq(S)
      /\ Len(SubSeq(s, 1, k)) = IF 1 <= k THEN k - 1 + 1 ELSE 0
  BY <1>1, SubSeqProperties
<1>3. /\ SubSeq(s, k + 1, Len(s)) \in Seq(S)
      /\ Len(SubSeq(s, k + 1, Len(s))) =
           IF k + 1 <= Len(s) THEN Len(s) - (k + 1) + 1 ELSE 0
  <2>1. /\ k + 1 \in Int /\ Len(s) \in Int
        /\ \A i \in (k + 1)..Len(s) : s[i] \in S
    BY <1>1
  <2> QED
    BY <2>1, SubSeqProperties
<1>4. SubSeq(s, 1, k) \o SubSeq(s, k + 1, Len(s)) = s
  <2>1. /\ 1 \in 1..(Len(s) + 1) /\ k \in (1 - 1)..Len(s) /\ Len(s) \in k..Len(s)
    BY <1>1
  <2>2. SubSeq(s, 1, k) \o SubSeq(s, k + 1, Len(s)) = SubSeq(s, 1, Len(s))
    BY <2>1, ConcatAdjacentSubSeq
  <2> QED
    BY <2>2, SubSeqFull
<1>5. Len(SubSeq(s, 1, k)) = k
  BY <1>1, <1>2
<1>6. Len(SubSeq(s, k + 1, Len(s))) = Len(s) - k
  BY <1>1, <1>3
<1> QED
  BY <1>2, <1>3, <1>4, <1>5, <1>6

\* readFd(): what was read comes behind what there is, however it was split
\* between the vector and the stack.
LEMMA ReadFdAddsBehind ==
  ASSUME NEW S, NEW b \in BufferOf(S), NEW bytes \in Seq(S)
  PROVE  /\ ReadFd(b, bytes) \in BufferOf(S)
         /\ Readable(ReadFd(b, bytes)) = Readable(b) \o bytes
<1> DEFINE w == WritableBytes(b)
           front == SubSeq(bytes, 1, w)
           back == SubSeq(bytes, w + 1, Len(bytes))
<1>1. /\ w \in Nat /\ Readable(b) \in Seq(S) /\ Len(bytes) \in Nat
  BY ReadableFacts, LenProperties DEF BufferOf
<1>2. CASE Len(bytes) <= w
  BY <1>2, WriteAddsBehind DEF ReadFd
<1>3. CASE ~(Len(bytes) <= w)
  <2>1. w \in 0..Len(bytes)
    BY <1>1, <1>3
  <2>2. /\ front \in Seq(S) /\ Len(front) = w /\ back \in Seq(S)
        /\ front \o back = bytes
    BY <2>1, TakenAndRest
  <2> HIDE DEF front, back
  <2> DEFINE c == Write(b, front)
  <2>3. c \in BufferOf(S) /\ Readable(c) = Readable(b) \o front
    BY <1>1, <2>2, WriteAddsBehind
  <2>4. /\ AppendBytes(c, back) \in BufferOf(S)
        /\ Readable(AppendBytes(c, back)) = (Readable(b) \o front) \o back
    BY <2>2, <2>3, AppendAddsBehind
  <2>5. (Readable(b) \o front) \o back = Readable(b) \o bytes
    <3>1. Readable(b) \in Seq(S) /\ front \in Seq(S) /\ back \in Seq(S)
      BY <1>1, <2>2
    <3>2. (Readable(b) \o front) \o back = Readable(b) \o (front \o back)
      BY <3>1, ConcatAssociative, SMTT(30)
    <3> QED
      BY <2>2, <3>2
  <2>6. ReadFd(b, bytes) = AppendBytes(c, back)
    BY <1>3 DEF ReadFd, front, back
  <2> QED
    BY <2>4, <2>5, <2>6
<1> QED
  BY <1>2, <1>3

\* What the bytes of a buffer are, where only the buffer as a whole matters.
LEMMA BufferFacts ==
  ASSUME NEW S, NEW b \in BufferOf(S)
  PROVE  /\ IsBuffer(b) /\ Readable(b) \in Seq(S)
         /\ ReadableBytes(b) \in Nat /\ ReadableBytes(b) = Len(Readable(b))
         /\ WritableBytes(b) \in Nat
BY ReadableFacts DEF BufferOf

\* The bytes of a stream so far.
Stream(n) == [i \in 1..n |-> i]

\* The next bytes of a stream stand behind those before.
LEMMA StreamGoesOn ==
  ASSUME NEW a \in Nat, NEW n \in Nat
  PROVE  /\ Stream(a) \in Seq(Nat) /\ Len(Stream(a)) = a
         /\ Stream(a) \o [i \in 1..n |-> a + i] = Stream(a + n)
<1> DEFINE m == [i \in 1..n |-> a + i]
           s == Stream(a)
           t == Stream(a + n)
<1>1. /\ s \in Seq(Nat) /\ Len(s) = a /\ \A i \in 1..a : s[i] = i
      /\ m \in Seq(Nat) /\ Len(m) = n /\ \A i \in 1..n : m[i] = a + i
      /\ t \in Seq(Nat) /\ Len(t) = a + n /\ \A i \in 1..(a + n) : t[i] = i
  BY DEF Stream
<1> HIDE DEF m, s, t
<1>2. /\ s \o m \in Seq(Nat) /\ Len(s \o m) = Len(s) + Len(m)
      /\ \A i \in 1..(Len(s) + Len(m)) :
           (s \o m)[i] = IF i <= Len(s) THEN s[i] ELSE m[i - Len(s)]
  BY <1>1, ConcatProperties
<1>3. ASSUME NEW i \in 1..(a + n) PROVE (s \o m)[i] = t[i]
  <2>1. CASE i <= a
    BY <1>1, <1>2, <2>1
  <2>2. CASE i > a
    <3>1. i - a \in 1..n /\ a + (i - a) = i /\ ~(i <= a)
      BY <2>2
    <3>2. m[i - a] = i
      BY <1>1, <3>1
    <3>3. (s \o m)[i] = m[i - a]
      BY <1>1, <1>2, <3>1
    <3> QED
      BY <1>1, <3>2, <3>3
  <2>3. i <= a \/ i > a
    OBVIOUS
  <2> QED
    BY <2>1, <2>2, <2>3, Zenon
<1>4. s \o m = t
  BY <1>1, <1>2, <1>3, SeqEqual
<1> QED
  BY <1>1, <1>4 DEF m, s, t

-----------------------------------------------------------------------------
(* Queues of functors *)

\* op is among the queued functors q; it is there at most once.
In(q, op) == \E i \in DOMAIN q : q[i] = op
Once(q, op) == \A i, j \in DOMAIN q : q[i] = op /\ q[j] = op => i = j

\* queueInLoop(): the functor is in the queue, and the others as they were.
LEMMA QueuedLast ==
  ASSUME NEW T, NEW q \in Seq(T), NEW e \in T, NEW op
  PROVE  /\ Append(q, e) \in Seq(T)
         /\ In(Append(q, e), op) <=> In(q, op) \/ e = op
         /\ Once(q, op) /\ (e # op \/ ~In(q, op)) => Once(Append(q, e), op)
<1> DEFINE r == Append(q, e)
<1>1. /\ r \in Seq(T) /\ Len(q) \in Nat /\ DOMAIN q = 1..Len(q)
      /\ DOMAIN r = 1..(Len(q) + 1)
      /\ \A i \in 1..Len(q) : r[i] = q[i]
      /\ r[Len(q) + 1] = e
  BY AppendProperties, LenProperties
<1> HIDE DEF r
<1>2. In(r, op) <=> In(q, op) \/ e = op
  <2>1. ASSUME In(r, op) PROVE In(q, op) \/ e = op
    BY <1>1, <2>1 DEF In
  <2>2. ASSUME In(q, op) PROVE In(r, op)
    BY <1>1, <2>2 DEF In
  <2>3. ASSUME e = op PROVE In(r, op)
    <3>1. Len(q) + 1 \in DOMAIN r
      BY <1>1
    <3> QED
      BY <1>1, <2>3, <3>1 DEF In
  <2> QED
    BY <2>1, <2>2, <2>3
<1>3. ASSUME Once(q, op), e # op \/ ~In(q, op) PROVE Once(r, op)
  <2> SUFFICES ASSUME NEW i \in DOMAIN r, NEW j \in DOMAIN r, r[i] = op, r[j] = op
               PROVE  i = j
    BY DEF Once
  <2>1. CASE e # op
    BY <1>1, <1>3, <2>1 DEF Once
  <2>2. CASE ~In(q, op)
    BY <1>1, <2>2 DEF In
  <2> QED
    BY <1>3, <2>1, <2>2
<1> QED
  BY <1>1, <1>2, <1>3 DEF r

\* doPendingFunctors(): the first functor is taken, and the others as they were.
LEMMA TakenFirst ==
  ASSUME NEW T, NEW q \in Seq(T), q # << >>, NEW op
  PROVE  /\ Tail(q) \in Seq(T) /\ Head(q) \in T /\ In(q, Head(q))
         /\ In(Tail(q), op) => In(q, op)
         /\ In(q, op) => In(Tail(q), op) \/ Head(q) = op
         /\ Once(q, op) => Once(Tail(q), op)
         /\ Once(q, op) /\ Head(q) = op => ~In(Tail(q), op)
<1> DEFINE r == Tail(q)
<1>1. /\ r \in Seq(T) /\ Len(q) \in Nat \ {0} /\ DOMAIN q = 1..Len(q)
      /\ DOMAIN r = 1..(Len(q) - 1)
      /\ \A i \in 1..(Len(q) - 1) : r[i] = q[i + 1]
      /\ Head(q) = q[1] /\ Head(q) \in T
  BY HeadTailProperties, LenProperties, EmptySeq
<1> HIDE DEF r
<1>2. \A i \in DOMAIN r : i + 1 \in DOMAIN q /\ i + 1 # 1 /\ r[i] = q[i + 1]
  BY <1>1
<1>3. 1 \in DOMAIN q /\ In(q, Head(q))
  BY <1>1 DEF In
<1>4. In(r, op) => In(q, op)
  BY <1>2 DEF In
<1>5. ASSUME In(q, op) PROVE In(r, op) \/ Head(q) = op
  <2>1. PICK i \in DOMAIN q : q[i] = op
    BY <1>5 DEF In
  <2>2. CASE i = 1
    BY <1>1, <2>1, <2>2
  <2>3. CASE i # 1
    <3>1. i - 1 \in DOMAIN r /\ (i - 1) + 1 = i
      BY <1>1, <2>3
    <3> QED
      BY <1>2, <2>1, <3>1 DEF In
  <2> QED
    BY <2>2, <2>3
<1>6. ASSUME Once(q, op) PROVE Once(r, op)
  <2> SUFFICES ASSUME NEW i \in DOMAIN r, NEW j \in DOMAIN r, r[i] = op, r[j] = op
               PROVE  i = j
    BY DEF Once
  <2>1. i + 1 = j + 1
    BY <1>2, <1>6 DEF Once
  <2>2. i \in Int /\ j \in Int
    BY <1>1
  <2> QED
    BY <2>1, <2>2
<1>7. ASSUME Once(q, op), Head(q) = op PROVE ~In(r, op)
  BY <1>1, <1>2, <1>3, <1>7 DEF Once, In
<1> QED
  BY <1>1, <1>3, <1>4, <1>5, <1>6, <1>7 DEF r

-----------------------------------------------------------------------------
(* The inductive invariant *)

\* The types, and the buffers with them.
Typed ==
  /\ TypeOK
  /\ inputBuffer \in BufferOf(1..MaxInput) /\ outputBuffer \in BufferOf(1..MaxBytes)

\* Before connectEstablished() nobody else has the connection; afterwards the
\* functor is used up.
Established ==
  /\ ups \in {0, 1}
  /\ ups = 0 => /\ state = "kConnecting" /\ functors = <<"connectEstablished">>
                /\ pc = "idle" /\ removal = "none" /\ callerPc = "user"
                /\ downs = 0 /\ ~closed /\ ~reading /\ ~writing /\ ~fin
                /\ accepted = 0 /\ ReadableBytes(outputBuffer) = 0
  /\ ups = 1 => state # "kConnecting" /\ ~In(functors, "connectEstablished")

\* handleClose(), removeConnection() and connectDestroyed() follow each other,
\* each once: no second end of the stream is read, the owner is asked once and
\* queues one functor, and only that functor makes the connection kDisconnected.
ClosedOnce ==
  /\ closed => ~reading
  /\ closed <=> removal # "none"
  /\ Once(functors, "connectDestroyed")
  /\ In(functors, "connectDestroyed") => removal = "queued" /\ downs = 0
  /\ downs \in {0, 1}
  /\ downs = 1 => removal = "queued"
  /\ state = "kDisconnected" => downs = 1
  /\ failed \in {"none", "sendInLoop"}

\* A queued byte is one of the MaxBytes.
SendFits ==
  /\ Once(functors, "sendInLoop")
  /\ In(functors, "sendInLoop") => accepted + 1 <= MaxBytes

IInv ==
  /\ Typed /\ Established /\ ClosedOnce /\ SendFits
  /\ BytesInOrder /\ WatchesOutput /\ FinAfterFlush

-----------------------------------------------------------------------------
(* What the calls do to the bytes *)

\* sendInLoop(): the message comes behind the bytes given before, part of it on
\* the wire and the rest in the buffer, or all of it in the buffer.
LEMMA MessageGoesLast ==
  ASSUME Typed, BytesInOrder, NEW n \in Nat, accepted + n <= MaxBytes, SendInLoop(n)
  PROVE  /\ accepted' = accepted + n /\ accepted' \in 0..MaxBytes
         /\ wire' \in Seq(1..MaxBytes) /\ outputBuffer' \in BufferOf(1..MaxBytes)
         /\ wire' \o Readable(outputBuffer') = Stream(accepted')
         /\ Len(wire') >= Len(wire)
         /\ reading' = reading /\ writing' \in BOOLEAN /\ polled' \in BOOLEAN
         /\ (writing <=> ReadableBytes(outputBuffer) > 0)
            => (writing' <=> ReadableBytes(outputBuffer') > 0)
<1> DEFINE S == 1..MaxBytes
           m == Message(n)
           old == Readable(outputBuffer)
<1>1. /\ wire \in Seq(S) /\ accepted \in Nat /\ outputBuffer \in BufferOf(S)
      /\ wire \o old = Stream(accepted)
      /\ reading \in BOOLEAN /\ writing \in BOOLEAN /\ polled \in BOOLEAN
      /\ MaxBytes \in Nat /\ Len(wire) \in Nat
  BY BoundAssumption, LenProperties
     DEF Typed, TypeOK, BytesInOrder, Stream, BoundAssumption
<1>2. m \in Seq(S) /\ Len(m) = n
  <2>1. \A i \in 1..n : accepted + i \in S
    BY <1>1
  <2> QED
    BY <2>1 DEF Message
<1>3. accepted' = accepted + n /\ accepted' \in 0..MaxBytes
  BY <1>1 DEF SendInLoop
<1>4. PICK k \in IF NothingBuffered THEN Takes(n) ELSE {0} :
        /\ wire' = wire \o SubSeq(m, 1, k)
        /\ outputBuffer' = AppendBytes(outputBuffer, SubSeq(m, k + 1, n))
        /\ IF k < n /\ ~writing THEN EnableWriting ELSE UNCHANGED channel
  BY DEF SendInLoop
<1>5. k \in 0..n /\ (k = 0 \/ NothingBuffered)
  BY <1>4 DEF Takes
<1> DEFINE front == SubSeq(m, 1, k)
           back == SubSeq(m, k + 1, n)
<1>6. /\ front \in Seq(S) /\ Len(front) = k /\ back \in Seq(S) /\ Len(back) = n - k
      /\ front \o back = m
  BY <1>2, <1>5, TakenAndRest, ZenonT(40)
<1>m. m = [i \in 1..n |-> accepted + i]
  BY DEF Message
<1> HIDE DEF front, back, m, S
<1>7. /\ old \in Seq(S) /\ ReadableBytes(outputBuffer) = Len(old)
      /\ Len(old) \in Nat
  BY <1>1, BufferFacts
<1>8. /\ outputBuffer' \in BufferOf(S)
      /\ Readable(outputBuffer') = old \o back
  BY <1>1, <1>4, <1>6, AppendAddsBehind DEF front, back
<1>9. /\ ReadableBytes(outputBuffer') = Len(old) + (n - k)
  <2>1. Len(old \o back) = Len(old) + Len(back)
    BY <1>6, <1>7, ConcatProperties
  <2>2. ReadableBytes(outputBuffer') = Len(Readable(outputBuffer'))
    BY <1>8, BufferFacts
  <2> QED
    BY <1>6, <1>8, <2>1, <2>2
<1>10. wire' \in Seq(S) /\ Len(wire') = Len(wire) + k
  <2>1. wire \o front \in Seq(S) /\ Len(wire \o front) = Len(wire) + Len(front)
    BY <1>1, <1>6, ConcatProperties
  <2> QED
    BY <1>4, <1>6, <2>1 DEF front
<1>11. wire' \o Readable(outputBuffer') = (wire \o old) \o m
  <2>1. CASE k = 0
    <3>1. front = << >>
      BY <1>6, <2>1, EmptySeq
    <3>2. wire \o front = wire /\ front \o back = back
      BY <1>1, <1>6, <3>1, ConcatEmptySeq
    <3>3. wire \o (old \o back) = (wire \o old) \o back
      <4>1. wire \in Seq(S) /\ old \in Seq(S) /\ back \in Seq(S)
        BY <1>1, <1>6, <1>7
      <4> QED
        BY <4>1, ConcatAssociative, SMTT(30)
    <3> QED
      BY <1>4, <1>6, <1>8, <3>2, <3>3 DEF front
  <2>2. CASE NothingBuffered
    <3>1. old = << >>
      BY <1>7, <2>2, EmptySeq DEF NothingBuffered
    <3>2. old \o back = back /\ wire \o old = wire
      BY <1>1, <1>6, <3>1, ConcatEmptySeq
    <3>3. (wire \o front) \o back = wire \o (front \o back)
      <4>1. wire \in Seq(S) /\ front \in Seq(S) /\ back \in Seq(S)
        BY <1>1, <1>6
      <4> QED
        BY <4>1, ConcatAssociative
    <3> QED
      BY <1>4, <1>6, <1>8, <3>2, <3>3 DEF front
  <2> QED
    BY <1>5, <2>1, <2>2
<1>12. wire' \o Readable(outputBuffer') = Stream(accepted')
  BY <1>1, <1>3, <1>11, <1>m, StreamGoesOn
<1>13. /\ reading' = reading /\ writing' \in BOOLEAN /\ polled' \in BOOLEAN
       /\ writing' <=> writing \/ k < n
  BY <1>1, <1>4 DEF EnableWriting, Update, channel
<1>14. ASSUME writing <=> ReadableBytes(outputBuffer) > 0
       PROVE  writing' <=> ReadableBytes(outputBuffer') > 0
  BY <1>5, <1>7, <1>9, <1>13, <1>14
<1>15. Len(wire') >= Len(wire)
  BY <1>1, <1>5, <1>10
<1> QED
  BY <1>3, <1>8, <1>10, <1>12, <1>13, <1>14, <1>15 DEF S

\* handleWrite(): what write(2) took moves from the buffer to the wire.
LEMMA FrontIsWritten ==
  ASSUME Typed, BytesInOrder, HandleWrite
  PROVE  /\ wire' \in Seq(1..MaxBytes) /\ outputBuffer' \in BufferOf(1..MaxBytes)
         /\ wire' \o Readable(outputBuffer') = wire \o Readable(outputBuffer)
         /\ Len(wire') >= Len(wire)
         /\ reading' = reading /\ writing' \in BOOLEAN /\ polled' \in BOOLEAN
         /\ writing' <=> ReadableBytes(outputBuffer') > 0
         /\ pc' \in {pc, "flushed"}
<1> DEFINE S == 1..MaxBytes
           old == Readable(outputBuffer)
<1>1. /\ wire \in Seq(S) /\ outputBuffer \in BufferOf(S)
      /\ reading \in BOOLEAN /\ writing /\ polled \in BOOLEAN /\ Len(wire) \in Nat
  BY LenProperties DEF Typed, TypeOK, HandleWrite
<1>2. PICK k \in Takes(ReadableBytes(outputBuffer)) \ {0} :
        /\ wire' = wire \o SubSeq(old, 1, k)
        /\ outputBuffer' = Retrieve(outputBuffer, k)
        /\ IF k = ReadableBytes(outputBuffer) THEN DisableWriting /\ pc' = "flushed"
                                    ELSE UNCHANGED <<channel, pc>>
  BY DEF HandleWrite
<1> DEFINE front == SubSeq(old, 1, k)
<1>3. ReadableBytes(outputBuffer) \in Nat /\ k \in 0..ReadableBytes(outputBuffer)
  BY <1>1, BufferFacts DEF Takes
<1>4. /\ outputBuffer' \in BufferOf(S)
      /\ front \in Seq(S) /\ Len(front) = k
      /\ ReadableBytes(outputBuffer') = ReadableBytes(outputBuffer) - k
      /\ front \o Readable(outputBuffer') = old
  BY <1>1, <1>2, <1>3, RetrieveTakesFront
<1>5. Readable(outputBuffer') \in Seq(S)
  BY <1>4, BufferFacts
<1> HIDE DEF front, old, S
<1>6. wire' \in Seq(S) /\ Len(wire') >= Len(wire)
  <2>1. wire \o front \in Seq(S) /\ Len(wire \o front) = Len(wire) + Len(front)
    BY <1>1, <1>4, ConcatProperties
  <2> QED
    BY <1>1, <1>2, <1>3, <1>4, <2>1 DEF front
<1>7. wire' \o Readable(outputBuffer') = wire \o old
  <2>1. (wire \o front) \o Readable(outputBuffer') = wire \o (front \o Readable(outputBuffer'))
    <3>1. wire \in Seq(S) /\ front \in Seq(S) /\ Readable(outputBuffer') \in Seq(S)
      BY <1>1, <1>4, <1>5
    <3> QED
      BY <3>1, ConcatAssociative
  <2> QED
    BY <1>2, <1>4, <2>1 DEF front
<1>8. /\ reading' = reading /\ writing' \in BOOLEAN /\ polled' \in BOOLEAN
      /\ pc' \in {pc, "flushed"}
      /\ writing' <=> k # ReadableBytes(outputBuffer)
  BY <1>1, <1>2 DEF DisableWriting, Update, channel
<1>9. writing' <=> ReadableBytes(outputBuffer') > 0
  BY <1>3, <1>4, <1>8
<1> QED
  BY <1>4, <1>6, <1>7, <1>8, <1>9 DEF S, old

\* handleRead(): what readv(2) took from the kernel comes behind what is in the
\* buffer, and from the front of that the callback takes what it likes.
LEMMA FrontIsRead ==
  ASSUME Typed, BytesInOrder, HandleRead
  PROVE  /\ input' \in Seq(1..MaxInput) /\ consumed' \in Seq(1..MaxInput)
         /\ inputBuffer' \in BufferOf(1..MaxInput)
         /\ consumed' \o Readable(inputBuffer') \o input'
              = consumed \o Readable(inputBuffer) \o input
<1> DEFINE S == 1..MaxInput
           old == Readable(inputBuffer)
<1>1. /\ input \in Seq(S) /\ consumed \in Seq(S) /\ inputBuffer \in BufferOf(S)
      /\ Len(input) \in Nat
  BY LenProperties DEF Typed, TypeOK
<1>2. /\ old \in Seq(S) /\ WritableBytes(inputBuffer) \in Nat
  BY <1>1, BufferFacts
<1>3. CASE input = << >>
  BY <1>1, <1>3 DEF HandleRead
<1>4. CASE input # << >>
  <2> DEFINE n == ReadSize(inputBuffer, Len(input))
             front == SubSeq(input, 1, n)
             b == ReadFd(inputBuffer, front)
  <2>1. /\ MessageCallback(b)
        /\ input' = SubSeq(input, n + 1, Len(input))
    BY <1>4 DEF HandleRead
  <2>2. n \in 0..Len(input)
    BY <1>1, <1>2, BufferAssumption DEF ReadSize, BufferAssumption
  <2> HIDE DEF n, b, front
  <2>3. front \in Seq(S) /\ input' \in Seq(S) /\ front \o input' = input
    BY <1>1, <2>1, <2>2, TakenAndRest DEF front
  <2>4. b \in BufferOf(S) /\ Readable(b) = old \o front
    BY <1>1, <2>3, ReadFdAddsBehind DEF b
  <2>5. PICK taken \in Seq(S) :
          /\ consumed' = consumed \o taken
          /\ inputBuffer' \in BufferOf(S)
          /\ taken \o Readable(inputBuffer') = Readable(b)
    <3>1. CASE \E k \in 0..ReadableBytes(b) :
                 /\ consumed' = consumed \o SubSeq(Readable(b), 1, k)
                 /\ inputBuffer' = Retrieve(b, k)
      BY <2>4, <3>1, RetrieveTakesFront
    <3>2. CASE /\ consumed' = consumed \o Readable(b)
               /\ inputBuffer' = RetrieveAll(b)
      <4>1. /\ Readable(b) \in Seq(S) /\ inputBuffer' \in BufferOf(S)
            /\ Readable(inputBuffer') = << >>
        BY <2>4, <3>2, BufferFacts, RetrieveAllEmpties
      <4>2. Readable(b) \o << >> = Readable(b)
        BY <4>1, ConcatEmptySeq
      <4> QED
        BY <3>2, <4>1, <4>2
    <3> QED
      BY <2>1, <3>1, <3>2 DEF MessageCallback
  <2> DEFINE rest == Readable(inputBuffer')
  <2>6. rest \in Seq(S) /\ taken \in Seq(S) /\ taken \o rest = old \o front
    BY <2>4, <2>5, BufferFacts
  <2>7. consumed' \in Seq(S)
    BY <1>1, <2>5, ConcatProperties
  <2> HIDE DEF rest, old, S
  <2>8. (consumed \o taken) \o rest = consumed \o (old \o front)
    <3>1. consumed \in Seq(S) /\ taken \in Seq(S) /\ rest \in Seq(S)
      BY <1>1, <2>6
    <3>2. (consumed \o taken) \o rest = consumed \o (taken \o rest)
      BY <3>1, ConcatAssociative
    <3> QED
      BY <2>6, <3>2
  <2>9. (consumed \o (old \o front)) \o input' = (consumed \o old) \o (front \o input')
    <3>1. consumed \in Seq(S) /\ old \in Seq(S) /\ front \in Seq(S)
      BY <1>1, <1>2, <2>3
    <3>2. (consumed \o old) \o front = consumed \o (old \o front)
      BY <3>1, ConcatAssociative
    <3>3. consumed \o old \in Seq(S)
      BY <3>1, ConcatProperties
    <3>4. ((consumed \o old) \o front) \o input' = (consumed \o old) \o (front \o input')
      <4> DEFINE before == consumed \o old
                 later == input'
      <4>1. before \in Seq(S) /\ front \in Seq(S) /\ later \in Seq(S)
        BY <2>3, <3>3
      <4> HIDE DEF before, later
      <4>2. (before \o front) \o later = before \o (front \o later)
        BY <4>1, ConcatAssociative
      <4> QED
        BY <4>2 DEF before, later
    <3> QED
      BY <3>2, <3>4
  <2> QED
    BY <2>3, <2>5, <2>7, <2>8, <2>9 DEF S, old, rest
<1> QED
  BY <1>3, <1>4

-----------------------------------------------------------------------------
(* Every step keeps the invariant *)

\* Every step takes the peer's bytes along.
LEMMA InputStep ==
  ASSUME IInv, [Next]_vars
  PROVE  /\ input' \in Seq(1..MaxInput) /\ consumed' \in Seq(1..MaxInput)
         /\ inputBuffer' \in BufferOf(1..MaxInput) /\ arrivals' \in 0..MaxInput
         /\ consumed' \o Readable(inputBuffer') \o input' = Stream(arrivals')
<1> DEFINE S == 1..MaxInput
           before == consumed \o Readable(inputBuffer)
<1>1. /\ input \in Seq(S) /\ consumed \in Seq(S) /\ inputBuffer \in BufferOf(S)
      /\ arrivals \in Nat /\ arrivals <= MaxInput /\ MaxInput \in Nat
      /\ before \o input = Stream(arrivals)
  BY BoundAssumption
     DEF IInv, Typed, TypeOK, BytesInOrder, Stream, BoundAssumption
<1>2. CASE UNCHANGED <<input, consumed, inputBuffer, arrivals>>
  BY <1>1, <1>2
<1>3. CASE HandleRead
  <2>1. arrivals' = arrivals
    BY <1>3 DEF HandleRead
  <2> QED
    BY <1>1, <1>3, <2>1, FrontIsRead DEF IInv
<1>4. CASE PeerSends
  <2>1. /\ arrivals' = arrivals + 1 /\ arrivals' \in 0..MaxInput /\ arrivals' \in S
        /\ input' = Append(input, arrivals')
        /\ UNCHANGED <<inputBuffer, consumed>>
    BY <1>1, <1>4 DEF PeerSends
  <2>2. /\ input' = input \o <<arrivals'>> /\ input' \in Seq(S) /\ <<arrivals'>> \in Seq(S)
    BY <1>1, <2>1, AppendIsConcat, AppendProperties
  <2>3. before \in Seq(S)
    BY <1>1, BufferFacts, ConcatProperties
  <2> HIDE DEF before, S
  <2>4. before \o input' = Stream(arrivals) \o <<arrivals'>>
    <3> DEFINE last == <<arrivals'>>
    <3>1. before \in Seq(S) /\ input \in Seq(S) /\ last \in Seq(S)
      BY <1>1, <2>2, <2>3
    <3> HIDE DEF last
    <3>2. (before \o input) \o last = before \o (input \o last)
      BY <3>1, ConcatAssociative
    <3> QED
      BY <1>1, <2>2, <3>2 DEF last
  <2>5. <<arrivals'>> = [i \in 1..1 |-> arrivals + i]
    BY <2>1
  <2>6. Stream(arrivals) \o <<arrivals'>> = Stream(arrivals')
    BY <1>1, <2>1, <2>5, StreamGoesOn
  <2> QED
    BY <2>1, <2>2, <2>4, <2>6, <1>1 DEF before, S
<1>5. ASSUME Next, ~HandleRead, ~PeerSends
      PROVE  UNCHANGED <<input, consumed, inputBuffer, arrivals>>
  BY <1>5
     DEF Next, LoopStep, OwnSend, ForeignSend, CallSendInLoop, OwnShutdown,
         ForeignShutdownTests, ForeignShutdownSets, ForeignShutdownQueues,
         CallShutdownInLoop, ConnectEstablished, ConnectDestroyed, RemoveChannel,
         HandleWrite, Flushed, OwnerRemoves, PeerCloses, peer
<1>6. CASE UNCHANGED vars
  BY <1>2, <1>6 DEF vars
<1> QED
  BY <1>2, <1>3, <1>4, <1>5, <1>6

\* Every step keeps the bytes given to sendInLoop() in order; what is on the wire
\* stays there.
LEMMA OutputStep ==
  ASSUME IInv, [Next]_vars
  PROVE  /\ wire' \in Seq(1..MaxBytes) /\ outputBuffer' \in BufferOf(1..MaxBytes)
         /\ accepted' \in 0..MaxBytes /\ Len(wire') >= Len(wire)
         /\ wire' \o Readable(outputBuffer') = Stream(accepted')
<1>1. /\ wire \in Seq(1..MaxBytes) /\ outputBuffer \in BufferOf(1..MaxBytes)
      /\ accepted \in 0..MaxBytes /\ accepted \in Nat
      /\ wire \o Readable(outputBuffer) = Stream(accepted)
      /\ MaxBytes \in Nat /\ Len(wire) \in Nat
  BY BoundAssumption, LenProperties
     DEF IInv, Typed, TypeOK, BytesInOrder, Stream, BoundAssumption
<1>2. CASE UNCHANGED <<wire, outputBuffer, accepted>>
  BY <1>1, <1>2
<1>3. ASSUME NEW n \in 1..MaxBytes, OwnSend(n)
      PROVE  accepted + n <= MaxBytes /\ SendInLoop(n)
  BY <1>1, <1>3 DEF OwnSend
<1>4. ASSUME CallSendInLoop PROVE accepted + 1 <= MaxBytes /\ SendInLoop(1)
  <2>1. functors \in Seq({"connectEstablished", "connectDestroyed", "sendInLoop",
                          "shutdownInLoop"})
    BY DEF IInv, Typed, TypeOK
  <2>2. In(functors, "sendInLoop")
    BY <1>4, <2>1, TakenFirst DEF CallSendInLoop
  <2> QED
    BY <1>4, <2>2 DEF IInv, SendFits, CallSendInLoop
<1>5. CASE \E n \in 1..MaxBytes : OwnSend(n)
  BY <1>1, <1>3, <1>5, MessageGoesLast DEF IInv
<1>6. CASE CallSendInLoop
  BY <1>1, <1>4, <1>6, MessageGoesLast DEF IInv
<1>7. CASE HandleWrite
  <2>1. accepted' = accepted
    BY <1>7 DEF HandleWrite
  <2> QED
    BY <1>1, <1>7, <2>1, FrontIsWritten DEF IInv
<1>8. ASSUME Next, ~(\E n \in 1..MaxBytes : OwnSend(n)), ~CallSendInLoop, ~HandleWrite
      PROVE  UNCHANGED <<wire, outputBuffer, accepted>>
  BY <1>8
     DEF Next, LoopStep, ForeignSend, OwnShutdown, ForeignShutdownTests,
         ForeignShutdownSets, ForeignShutdownQueues, CallShutdownInLoop,
         ConnectEstablished, ConnectDestroyed, RemoveChannel, HandleRead, Flushed,
         OwnerRemoves, PeerSends, PeerCloses, output
<1>9. CASE UNCHANGED vars
  BY <1>2, <1>9 DEF vars
<1> QED
  BY <1>2, <1>5, <1>6, <1>7, <1>8, <1>9

\* Before connectEstablished() only the peer can do something.
LEMMA OnlyThePeer ==
  ASSUME IInv, ups = 0, Next
  PROVE  ConnectEstablished \/ PeerSends \/ PeerCloses
<1>1. /\ ~InUserCode /\ functors = <<"connectEstablished">> /\ pc = "idle"
      /\ removal = "none" /\ callerPc = "user" /\ ~reading /\ ~writing
  BY DEF IInv, Established, InUserCode
<1>2. Head(functors) = "connectEstablished"
  BY <1>1
<1> QED
  BY <1>1, <1>2
     DEF Next, LoopStep, OwnSend, ForeignSend, CallSendInLoop, OwnShutdown,
         ForeignShutdownTests, ForeignShutdownSets, ForeignShutdownQueues,
         CallShutdownInLoop, ConnectDestroyed, RemoveChannel, HandleRead, HandleWrite,
         Flushed, OwnerRemoves

\* Every step takes the connection one way through its states.
LEMMA LifeStep ==
  ASSUME IInv, [Next]_vars
  PROVE  Established' /\ ClosedOnce' /\ SendFits'
<1> DEFINE F == {"connectEstablished", "connectDestroyed", "sendInLoop", "shutdownInLoop"}
<1>1. /\ Established /\ ClosedOnce /\ SendFits /\ functors \in Seq(F)
      /\ accepted \in 0..MaxBytes /\ MaxBytes \in Nat
      /\ writing \in BOOLEAN /\ reading \in BOOLEAN /\ closed \in BOOLEAN
      /\ state \in {"kConnecting", "kConnected", "kDisconnecting", "kDisconnected"}
  BY BoundAssumption DEF IInv, Typed, TypeOK, BoundAssumption
<1> HIDE DEF F
<1>t. ASSUME functors # << >>, NEW op
      PROVE  /\ In(functors, Head(functors)) /\ Head(functors) \in F
             /\ In(Tail(functors), op) => In(functors, op)
             /\ Once(functors, op) => Once(Tail(functors), op)
             /\ Once(functors, op) /\ Head(functors) = op => ~In(Tail(functors), op)
  BY <1>1, <1>t, TakenFirst
<1>a. ASSUME NEW e \in F, NEW op
      PROVE  /\ In(Append(functors, e), op) => In(functors, op) \/ e = op
             /\ Once(functors, op) /\ (e # op \/ ~In(functors, op))
                => Once(Append(functors, e), op)
  BY <1>1, <1>a, QueuedLast
<1>F. /\ "connectDestroyed" \in F /\ "sendInLoop" \in F /\ "shutdownInLoop" \in F
  BY DEF F
<1>2. CASE UNCHANGED <<state, reading, writing, outputBuffer, accepted, fin, pc,
                       functors, removal, callerPc, ups, downs, closed, failed>>
  BY <1>1, <1>2 DEF Established, ClosedOnce, SendFits, In, Once
<1>3. CASE UNCHANGED vars \/ PeerSends \/ PeerCloses
  BY <1>2, <1>3 DEF vars, PeerSends, PeerCloses, channel, output, close
<1>4. CASE ConnectEstablished
  <2>1. In(functors, "connectEstablished")
    BY <1>4, <1>t DEF ConnectEstablished
  <2>2. ups = 0
    BY <1>1, <2>1 DEF Established
  <2>3. /\ functors' = << >> /\ state' = "kConnected" /\ ups' = 1
        /\ writing' = writing /\ accepted' = accepted
        /\ UNCHANGED <<removal, closed, downs, failed>>
    BY <1>1, <1>4, <2>2 DEF ConnectEstablished, Established, output, close
  <2>4. \A op : ~In(functors', op) /\ Once(functors', op)
    BY <2>3 DEF In, Once
  <2>5. ~closed /\ removal = "none" /\ downs = 0 /\ failed \in {"none", "sendInLoop"}
    BY <1>1, <2>2 DEF Established, ClosedOnce
  <2> QED
    BY <2>3, <2>4, <2>5 DEF Established, ClosedOnce, SendFits
<1>5. ASSUME Next, ups = 0 PROVE ConnectEstablished \/ PeerSends \/ PeerCloses
  BY <1>5, OnlyThePeer
<1>u. ups # 0 => ups = 1 /\ state # "kConnecting" /\ ~In(functors, "connectEstablished")
  BY <1>1 DEF Established
<1> SUFFICES ASSUME Next, ups = 1, ~ConnectEstablished
             PROVE  Established' /\ ClosedOnce' /\ SendFits'
  BY <1>3, <1>4, <1>5, <1>u
<1>6. ASSUME NEW n \in 1..MaxBytes, OwnSend(n)
      PROVE  Established' /\ ClosedOnce' /\ SendFits'
  <2>1. /\ UNCHANGED <<state, fin, pc, functors, removal, closed, callerPc, ups, downs, failed>>
        /\ reading' = reading /\ accepted' = accepted + n
        /\ accepted + n + (IF Queued("sendInLoop") THEN 1 ELSE 0) <= MaxBytes
    BY <1>6 DEF OwnSend, SendInLoop, EnableWriting, channel, close
  <2>2. Established' /\ ClosedOnce'
    BY <1>1, <1>u, <2>1 DEF Established, ClosedOnce, In, Once
  <2>3. In(functors, "sendInLoop") => accepted' + 1 <= MaxBytes
    BY <1>1, <2>1 DEF In, Queued
  <2> QED
    BY <1>1, <2>1, <2>2, <2>3 DEF SendFits, In, Once
<1>7. CASE ForeignSend
  <2>1. /\ UNCHANGED <<state, reading, accepted, pc, removal, closed, callerPc, ups, downs>>
        /\ accepted + 1 <= MaxBytes /\ ~In(functors, "sendInLoop")
        /\ \/ functors' = functors /\ failed' = "sendInLoop"
           \/ functors' = Append(functors, "sendInLoop") /\ UNCHANGED failed
    BY <1>1, <1>7 DEF ForeignSend, channel, output, close, Fail, In, Queued
  <2>2. \A op \in F \ {"sendInLoop"} :
          /\ In(functors', op) => In(functors, op)
          /\ Once(functors, op) => Once(functors', op)
    BY <1>F, <1>a, <2>1
  <2>3. Once(functors', "sendInLoop")
    BY <1>1, <1>F, <1>a, <2>1 DEF SendFits
  <2> QED
    BY <1>1, <1>u, <2>1, <2>2, <2>3 DEF Established, ClosedOnce, SendFits, F
<1>8. CASE CallSendInLoop
  <2>1. /\ UNCHANGED <<state, reading, pc, removal, closed, callerPc, ups, downs, failed>>
        /\ functors # << >> /\ Head(functors) = "sendInLoop" /\ functors' = Tail(functors)
    BY <1>8 DEF CallSendInLoop, SendInLoop, EnableWriting, channel, close
  <2>2. \A op : /\ In(functors', op) => In(functors, op)
                /\ Once(functors, op) => Once(functors', op)
    BY <1>t, <2>1
  <2>3. ~In(functors', "sendInLoop")
    BY <1>1, <1>t, <2>1 DEF SendFits
  <2> QED
    BY <1>1, <1>u, <2>1, <2>2, <2>3 DEF Established, ClosedOnce, SendFits
<1>9. CASE OwnShutdown \/ ForeignShutdownTests \/ ForeignShutdownSets
  <2>1. /\ UNCHANGED <<reading, functors, accepted, removal, closed, ups, downs, failed>>
        /\ state' \in {state, "kDisconnecting"}
    BY <1>9 DEF OwnShutdown, ForeignShutdownTests, ForeignShutdownSets, channel, output, close
  <2> QED
    BY <1>1, <1>u, <2>1 DEF Established, ClosedOnce, SendFits, In, Once
<1>10. CASE ForeignShutdownQueues
  <2>1. /\ UNCHANGED <<state, reading, accepted, removal, closed, ups, downs, failed>>
        /\ functors' = Append(functors, "shutdownInLoop")
    BY <1>10 DEF ForeignShutdownQueues, channel, output, close
  <2>2. \A op \in F \ {"shutdownInLoop"} :
          /\ In(functors', op) => In(functors, op)
          /\ Once(functors, op) => Once(functors', op)
    BY <1>F, <1>a, <2>1
  <2> QED
    BY <1>1, <1>u, <2>1, <2>2 DEF Established, ClosedOnce, SendFits, F
<1>11. CASE CallShutdownInLoop
  <2>1. /\ UNCHANGED <<state, reading, accepted, removal, closed, ups, downs, failed>>
        /\ functors # << >> /\ functors' = Tail(functors)
    BY <1>11 DEF CallShutdownInLoop, channel, output, close
  <2>2. \A op : /\ In(functors', op) => In(functors, op)
                /\ Once(functors, op) => Once(functors', op)
    BY <1>t, <2>1
  <2> QED
    BY <1>1, <1>u, <2>1, <2>2 DEF Established, ClosedOnce, SendFits
<1>12. CASE ConnectDestroyed
  <2>1. /\ functors # << >> /\ Head(functors) = "connectDestroyed"
        /\ functors' = Tail(functors)
        /\ UNCHANGED <<accepted, removal, closed, ups>>
    BY <1>12 DEF ConnectDestroyed, output, close
  <2>2. \A op : /\ In(functors', op) => In(functors, op)
                /\ Once(functors, op) => Once(functors', op)
    BY <1>t, <2>1
  <2>3. ~In(functors', "connectDestroyed") /\ In(functors, "connectDestroyed")
    BY <1>1, <1>t, <2>1 DEF ClosedOnce
  <2>4. removal = "queued" /\ downs = 0 /\ state \in {"kConnected", "kDisconnecting"}
    BY <1>1, <1>u, <2>3 DEF ClosedOnce
  <2>5. state' = "kDisconnected" /\ downs' = 1 /\ ~reading' /\ failed' = failed
    BY <1>12, <2>4 DEF ConnectDestroyed
  <2> QED
    BY <1>1, <1>u, <2>1, <2>2, <2>3, <2>4, <2>5 DEF Established, ClosedOnce, SendFits
<1>13. CASE RemoveChannel \/ Flushed \/ HandleWrite
  <2>1. UNCHANGED <<state, reading, functors, accepted, removal, closed, ups, downs, failed>>
    BY <1>13 DEF RemoveChannel, Flushed, HandleWrite, DisableWriting, channel, output, close
  <2> QED
    BY <1>1, <1>u, <2>1 DEF Established, ClosedOnce, SendFits, In, Once
<1>14. CASE HandleRead
  <2>1. /\ UNCHANGED <<state, functors, accepted, ups, downs>>
        /\ reading
    BY <1>14 DEF HandleRead, output
  <2>2. /\ removal = "none" /\ downs = 0 /\ state \in {"kConnected", "kDisconnecting"}
        /\ ~In(functors, "connectDestroyed")
    BY <1>1, <1>u, <2>1 DEF ClosedOnce
  <2>3. /\ failed' = failed
        /\ \/ UNCHANGED <<reading, removal, closed>>
           \/ ~reading' /\ removal' = "asked" /\ closed'
    BY <1>14, <2>2 DEF HandleRead, HandleClose, DisableAllEvents, channel, close
  <2>4. Established' /\ SendFits'
    BY <1>1, <1>u, <2>1 DEF Established, SendFits, In, Once
  <2>5. /\ Once(functors', "connectDestroyed") /\ ~In(functors', "connectDestroyed")
        /\ downs' = 0 /\ state' # "kDisconnected" /\ failed' \in {"none", "sendInLoop"}
    BY <1>1, <2>1, <2>2, <2>3 DEF ClosedOnce
  <2>6. (closed' => ~reading') /\ (closed' <=> removal' # "none")
    BY <1>1, <2>3 DEF ClosedOnce
  <2> QED
    BY <2>4, <2>5, <2>6 DEF ClosedOnce
<1>15. CASE OwnerRemoves
  <2>1. /\ UNCHANGED <<state, reading, accepted, closed, ups, downs, failed>>
        /\ removal = "asked" /\ removal' = "queued"
        /\ functors' = Append(functors, "connectDestroyed")
    BY <1>15 DEF OwnerRemoves, channel, output
  <2>2. ~In(functors, "connectDestroyed") /\ downs = 0
    BY <1>1, <2>1 DEF ClosedOnce
  <2>3. \A op \in F \ {"connectDestroyed"} :
          /\ In(functors', op) => In(functors, op)
          /\ Once(functors, op) => Once(functors', op)
    BY <1>F, <1>a, <2>1
  <2>4. Once(functors', "connectDestroyed")
    BY <1>1, <1>F, <1>a, <2>1, <2>2 DEF ClosedOnce
  <2> QED
    BY <1>1, <1>u, <2>1, <2>2, <2>3, <2>4 DEF Established, ClosedOnce, SendFits, F
<1> QED
  BY <1>3, <1>6, <1>7, <1>8, <1>9, <1>10, <1>11, <1>12, <1>13, <1>14, <1>15
     DEF Next, LoopStep

\* A connection that is closed stays closed.
LEMMA StaysClosed ==
  ASSUME IInv, [Next]_vars, closed
  PROVE  closed'
BY DEF IInv, ClosedOnce, Next, LoopStep, OwnSend, ForeignSend, CallSendInLoop, OwnShutdown,
       ForeignShutdownTests, ForeignShutdownSets, ForeignShutdownQueues,
       CallShutdownInLoop, ConnectEstablished, ConnectDestroyed, RemoveChannel, HandleRead,
       HandleWrite, Flushed, OwnerRemoves, PeerSends, PeerCloses, close, vars

\* The channel goes on watching what it has to write, and nothing else, until
\* the connection is closed.
LEMMA WatchStep ==
  ASSUME IInv, [Next]_vars
  PROVE  WatchesOutput'
<1> SUFFICES ASSUME ups' > 0, ~closed'
             PROVE  writing' <=> ReadableBytes(outputBuffer') > 0
  BY DEF WatchesOutput
<1>1. /\ ~closed /\ Typed /\ BytesInOrder /\ WatchesOutput /\ Established /\ ClosedOnce
      /\ accepted \in Nat /\ functors \in Seq({"connectEstablished", "connectDestroyed",
                                               "sendInLoop", "shutdownInLoop"})
  BY StaysClosed DEF IInv, Typed, TypeOK
<1>2. writing <=> ReadableBytes(outputBuffer) > 0
  BY <1>1 DEF WatchesOutput, Established
<1>3. CASE UNCHANGED <<writing, outputBuffer>>
  BY <1>2, <1>3
<1>4. ASSUME NEW n \in Nat, accepted + n <= MaxBytes, SendInLoop(n)
      PROVE  writing' <=> ReadableBytes(outputBuffer') > 0
  BY <1>1, <1>2, <1>4, MessageGoesLast
<1>5. CASE \E n \in 1..MaxBytes : OwnSend(n)
  <2>1. PICK n \in 1..MaxBytes : OwnSend(n)
    BY <1>5
  <2>2. n \in Nat /\ MaxBytes \in Nat /\ SendInLoop(n)
    BY <2>1, BoundAssumption DEF OwnSend, BoundAssumption
  <2>3. accepted + n <= MaxBytes
    BY <1>1, <2>1, <2>2 DEF OwnSend
  <2> QED
    BY <1>4, <2>2, <2>3
<1>6. CASE CallSendInLoop
  <2>1. In(functors, "sendInLoop")
    BY <1>1, <1>6, TakenFirst DEF CallSendInLoop
  <2> QED
    BY <1>4, <1>6, <2>1 DEF CallSendInLoop, IInv, SendFits
<1>7. CASE HandleWrite
  BY <1>1, <1>7, FrontIsWritten
<1>8. CASE HandleRead
  BY <1>3, <1>8 DEF HandleRead, HandleClose, channel, output
<1>9. CASE ConnectDestroyed
  <2>1. In(functors, "connectDestroyed")
    BY <1>1, <1>9, TakenFirst DEF ConnectDestroyed
  <2> QED
    BY <1>1, <2>1 DEF ClosedOnce
<1>10. CASE UNCHANGED vars
  BY <1>3, <1>10 DEF vars
<1>11. ASSUME Next, ~(\E n \in 1..MaxBytes : OwnSend(n)), ~CallSendInLoop, ~HandleWrite,
              ~HandleRead, ~ConnectDestroyed
       PROVE  UNCHANGED <<writing, outputBuffer>>
  BY <1>11
     DEF Next, LoopStep, ForeignSend, OwnShutdown, ForeignShutdownTests,
         ForeignShutdownSets, ForeignShutdownQueues, CallShutdownInLoop,
         ConnectEstablished, RemoveChannel, Flushed, OwnerRemoves, PeerSends, PeerCloses,
         output, channel
<1> QED
  BY <1>3, <1>5, <1>6, <1>7, <1>8, <1>9, <1>10, <1>11

\* What was given before shutdown(SHUT_WR) is on the wire.
LEMMA FinStep ==
  ASSUME IInv, [Next]_vars
  PROVE  FinAfterFlush'
<1> SUFFICES ASSUME fin', ~closed'
             PROVE  Len(wire') >= finAt'
  BY DEF FinAfterFlush
<1>1. /\ ~closed /\ BytesInOrder /\ WatchesOutput /\ Established /\ FinAfterFlush
      /\ wire \in Seq(1..MaxBytes) /\ outputBuffer \in BufferOf(1..MaxBytes)
      /\ accepted \in Nat /\ finAt \in Nat /\ Len(wire) \in Nat
  BY StaysClosed, LenProperties DEF IInv, Typed, TypeOK
<1>2. Len(wire') \in Nat /\ Len(wire') >= Len(wire)
  BY OutputStep, LenProperties
<1>3. CASE UNCHANGED <<fin, finAt>>
  BY <1>1, <1>2, <1>3 DEF FinAfterFlush
<1>4. ASSUME Next, ShutdownInLoop, ~UNCHANGED <<fin, finAt>>, UNCHANGED wire, ups = 1
      PROVE  Len(wire') >= finAt'
  <2>1. ~writing /\ finAt' = IF fin THEN finAt ELSE accepted
    BY <1>4 DEF ShutdownInLoop
  <2>2. ReadableBytes(outputBuffer) = 0
    BY <1>1, <1>4, <2>1, BufferFacts DEF WatchesOutput
  <2>3. Readable(outputBuffer) = << >>
    BY <1>1, <2>2, BufferFacts, EmptySeq
  <2>4. wire = Stream(accepted)
    BY <1>1, <2>3, ConcatEmptySeq DEF BytesInOrder, Stream
  <2>5. Len(wire) = accepted
    BY <1>1, <2>4, StreamGoesOn
  <2> QED
    BY <1>1, <1>4, <2>1, <2>5 DEF FinAfterFlush
<1>5. ASSUME Next, OwnShutdown \/ CallShutdownInLoop \/ Flushed
      PROVE  ups = 1 /\ UNCHANGED wire /\ (ShutdownInLoop \/ UNCHANGED <<fin, finAt>>)
  <2>1. ups = 1
    <3>1. ASSUME ups = 0 PROVE FALSE
      <4>1. /\ ~InUserCode /\ functors = <<"connectEstablished">> /\ pc = "idle"
        BY <1>1, <3>1 DEF Established, InUserCode
      <4>2. Head(functors) = "connectEstablished"
        BY <4>1
      <4> QED
        BY <1>5, <4>1, <4>2 DEF OwnShutdown, CallShutdownInLoop, Flushed
    <3> QED
      BY <1>1, <3>1 DEF Established
  <2> QED
    BY <1>5, <2>1 DEF OwnShutdown, CallShutdownInLoop, Flushed, output
<1>6. ASSUME Next, ~OwnShutdown, ~CallShutdownInLoop, ~Flushed
      PROVE  UNCHANGED <<fin, finAt>>
  BY <1>6
     DEF Next, LoopStep, OwnSend, ForeignSend, CallSendInLoop,
         ForeignShutdownTests, ForeignShutdownSets, ForeignShutdownQueues,
         ConnectEstablished, ConnectDestroyed, RemoveChannel, HandleRead, HandleWrite,
         OwnerRemoves, PeerSends, PeerCloses
<1>7. CASE UNCHANGED vars
  BY <1>3, <1>7 DEF vars
<1> QED
  BY <1>3, <1>4, <1>5, <1>6, <1>7

\* Every step keeps the types.
LEMMA TypedStep ==
  ASSUME IInv, [Next]_vars
  PROVE  Typed'
<1> DEFINE F == {"connectEstablished", "connectDestroyed", "sendInLoop", "shutdownInLoop"}
<1>1. TypeOK /\ Established /\ ClosedOnce
  BY DEF IInv, Typed
<1>2. /\ input' \in Seq(1..MaxInput) /\ consumed' \in Seq(1..MaxInput)
      /\ inputBuffer' \in BufferOf(1..MaxInput) /\ arrivals' \in 0..MaxInput
      /\ wire' \in Seq(1..MaxBytes) /\ outputBuffer' \in BufferOf(1..MaxBytes)
      /\ accepted' \in 0..MaxBytes
      /\ IsBuffer(inputBuffer') /\ IsBuffer(outputBuffer')
  BY InputStep, OutputStep, BufferFacts
<1>3. /\ ups' \in Nat /\ downs' \in Nat
      /\ failed' \in {"none", "sendInLoop", "connectEstablished", "connectDestroyed",
                      "handleClose"}
  BY LifeStep DEF Established, ClosedOnce
<1>4. functors' \in Seq(F)
  <2>1. functors \in Seq(F)
    BY <1>1 DEF TypeOK
  <2>2. /\ functors # << >> => Tail(functors) \in Seq(F)
        /\ Append(functors, "sendInLoop") \in Seq(F)
        /\ Append(functors, "shutdownInLoop") \in Seq(F)
        /\ Append(functors, "connectDestroyed") \in Seq(F)
    BY <2>1, TakenFirst, QueuedLast
  <2> HIDE DEF F
  <2> QED
    BY <2>1, <2>2
       DEF Next, LoopStep, OwnSend, ForeignSend, CallSendInLoop, OwnShutdown,
           ForeignShutdownTests, ForeignShutdownSets, ForeignShutdownQueues,
           CallShutdownInLoop, ConnectEstablished, ConnectDestroyed, RemoveChannel,
           HandleRead, HandleWrite, Flushed, OwnerRemoves, PeerSends, PeerCloses, vars
<1>5. /\ state' \in {"kConnecting", "kConnected", "kDisconnecting", "kDisconnected"}
      /\ pc' \in {"idle", "down", "flushed"}
      /\ removal' \in {"none", "asked", "queued"}
      /\ callerPc' \in {"user", "tested", "set", "done"}
  BY <1>1, ZenonT(40)
     DEF TypeOK, Next, LoopStep, OwnSend, ForeignSend, CallSendInLoop, OwnShutdown,
         ForeignShutdownTests, ForeignShutdownSets, ForeignShutdownQueues,
         CallShutdownInLoop, ConnectEstablished, ConnectDestroyed, RemoveChannel,
         HandleRead, HandleClose, HandleWrite, Flushed, OwnerRemoves, PeerSends, PeerCloses,
         close, vars
<1>a. accepted \in Nat /\ finAt \in Nat
  BY <1>1 DEF TypeOK
<1>6. finAt' \in Nat
  BY <1>a
     DEF Next, LoopStep, OwnSend, ForeignSend, CallSendInLoop, OwnShutdown,
         ForeignShutdownTests, ForeignShutdownSets, ForeignShutdownQueues,
         CallShutdownInLoop, ConnectEstablished, ConnectDestroyed, RemoveChannel,
         HandleRead, HandleWrite, Flushed, OwnerRemoves, PeerSends, PeerCloses,
         ShutdownInLoop, vars
<1>7. fin' \in BOOLEAN /\ eof' \in BOOLEAN /\ reset' \in BOOLEAN /\ closed' \in BOOLEAN
  BY <1>1
     DEF TypeOK, Next, LoopStep, OwnSend, ForeignSend, CallSendInLoop, OwnShutdown,
         ForeignShutdownTests, ForeignShutdownSets, ForeignShutdownQueues,
         CallShutdownInLoop, ConnectEstablished, ConnectDestroyed, RemoveChannel,
         HandleRead, HandleClose, HandleWrite, Flushed, OwnerRemoves, PeerSends, PeerCloses,
         ShutdownInLoop, close, peer, vars
<1>8. reading' \in BOOLEAN /\ writing' \in BOOLEAN /\ polled' \in BOOLEAN
  BY <1>1
     DEF TypeOK, Next, LoopStep, OwnSend, ForeignSend, CallSendInLoop, OwnShutdown,
         ForeignShutdownTests, ForeignShutdownSets, ForeignShutdownQueues,
         CallShutdownInLoop, ConnectEstablished, ConnectDestroyed, RemoveChannel,
         HandleRead, HandleClose, HandleWrite, Flushed, OwnerRemoves, PeerSends, PeerCloses,
         SendInLoop, EnableWriting, DisableWriting, DisableAllEvents, Update, channel, vars
<1> QED
  BY <1>2, <1>3, <1>4, <1>5, <1>6, <1>7, <1>8 DEF Typed, TypeOK

\* Every step keeps the invariant.
LEMMA InvariantStep ==
  IInv /\ [Next]_vars => IInv'
<1> SUFFICES ASSUME IInv, [Next]_vars PROVE IInv'
  OBVIOUS
<1>1. BytesInOrder'
  BY InputStep, OutputStep DEF BytesInOrder, Stream
<1> QED
  BY <1>1, TypedStep, LifeStep, WatchStep, FinStep DEF IInv

\* A new connection satisfies the invariant.
LEMMA InvariantInit ==
  Init => IInv
<1> SUFFICES ASSUME Init PROVE IInv
  OBVIOUS
<1>1. /\ NewBuffer \in BufferOf(1..MaxInput) /\ NewBuffer \in BufferOf(1..MaxBytes)
      /\ Readable(NewBuffer) = << >> /\ ReadableBytes(NewBuffer) = 0 /\ IsBuffer(NewBuffer)
  BY NewBufferIsEmpty, BufferFacts
<1>2. MaxBytes \in Nat /\ MaxInput \in Nat
  BY BoundAssumption DEF BoundAssumption
<1>3. /\ << >> \in Seq(1..MaxBytes) /\ << >> \in Seq(1..MaxInput)
      /\ <<"connectEstablished">> \in Seq({"connectEstablished", "connectDestroyed",
                                           "sendInLoop", "shutdownInLoop"})
  OBVIOUS
<1>4. Typed
  <2>1. 0 \in 0..MaxBytes /\ 0 \in 0..MaxInput
    BY <1>2
  <2>2. TypeOK
    BY <1>1, <1>3, <2>1 DEF Init, TypeOK
  <2> QED
    BY <1>1, <2>2 DEF Init, Typed
<1>5. << >> \o << >> = << >> /\ << >> = [i \in 1..0 |-> i]
  OBVIOUS
<1>6. BytesInOrder
  BY <1>1, <1>5 DEF Init, BytesInOrder
<1>7. Established /\ WatchesOutput /\ FinAfterFlush
  BY <1>1 DEF Init, Established, WatchesOutput, FinAfterFlush
<1>8. ClosedOnce /\ SendFits
  BY DEF Init, ClosedOnce, SendFits, In, Once
<1> QED
  BY <1>4, <1>6, <1>7, <1>8 DEF IInv

\* The invariant holds in every state of every behaviour.
THEOREM Invariance == Spec => []IInv
<1> QED
  BY InvariantInit, InvariantStep, PTL DEF Spec

\* The connection's variables keep their types, and its buffers their indices in
\* order, whatever the application sends and the peer does.
THEOREM TypeCorrect == Spec => []TypeOK
<1>1. IInv => TypeOK
  BY DEF IInv, Typed
<1> QED
  BY <1>1, Invariance, PTL

\* No byte of either direction is lost, repeated or moved, by send(), handleWrite(),
\* handleRead(), readFd() or the callbacks between them.
THEOREM BytesStayInOrder == Spec => []BytesInOrder
<1>1. IInv => BytesInOrder
  BY DEF IInv
<1> QED
  BY <1>1, Invariance, PTL

\* Until the connection is closed the channel has kWriteEvent just as long as
\* outputBuffer_ has bytes.
THEOREM OutputIsWatched == Spec => []WatchesOutput
<1>1. IInv => WatchesOutput
  BY DEF IInv
<1> QED
  BY <1>1, Invariance, PTL

\* shutdownInLoop() does not overtake the bytes in outputBuffer_.
THEOREM FlushedBeforeFin == Spec => []FinAfterFlush
<1>1. IInv => FinAfterFlush
  BY DEF IInv
<1> QED
  BY <1>1, Invariance, PTL

\* connectEstablished(), handleClose() and connectDestroyed() find state_ as they
\* assert it, each runs once, and connectionCallback_ is called in pairs.
THEOREM OneLife == Spec => []LivesOnce
<1>1. IInv => LivesOnce
  <2> SUFFICES ASSUME IInv PROVE LivesOnce
    OBVIOUS
  <2>1. /\ ups \in {0, 1} /\ downs \in {0, 1}
        /\ ups = 0 => downs = 0
    BY DEF IInv, Established, ClosedOnce
  <2>2. /\ downs = 1 => closed
        /\ failed \in {"none", "sendInLoop"}
    BY DEF IInv, ClosedOnce
  <2> QED
    BY <2>1, <2>2 DEF LivesOnce
<1> QED
  BY <1>1, Invariance, PTL

=============================================================================
