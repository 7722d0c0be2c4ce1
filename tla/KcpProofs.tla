------------------------------ MODULE KcpProofs ------------------------------
(***************************************************************************)
(* Proofs about Kcp: what is acknowledged is held, the windows are kept    *)
(* and messages come whole, once and in order, for any windows, any mtu,   *)
(* any messages and any number of datagrams lost, doubled and delayed.     *)
(***************************************************************************)
EXTENDS Kcp, SequenceTheorems, FiniteSetTheorems, TLAPS

-----------------------------------------------------------------------------
(* Numbers *)

\* Every set of numbers has a least one: the intervals that end at its elements are
\* finite sets, and there is no infinite descent among those.
LEMMA LeastElement ==
  ASSUME NEW T, T \subseteq Nat, T # {}
  PROVE  \E m \in T : \A k \in T : ~(k < m)
<1> DEFINE R == StrictSubsetOrdering(Nat)
           F == FiniteSubsetsOf(Nat)
           U == {0..n : n \in T}
<1>1. IsWellFoundedOn(R, F)
  BY FS_StrictSubsetOrderingWellFounded
<1>2. U \subseteq F /\ U # {}
  <2>1. ASSUME NEW n \in T PROVE 0..n \in F
    <3>1. n \in Int /\ 0 \in Int /\ 0..n \subseteq Nat
      OBVIOUS
    <3>2. IsFiniteSet(0..n)
      BY <3>1, FS_Interval
    <3> QED
      BY <3>1, <3>2 DEF FiniteSubsetsOf
  <2> QED
    BY <2>1
<1> HIDE DEF R, F, U
<1>3. PICK u \in U : \A v \in U : ~(<<v, u>> \in R)
  BY <1>1, <1>2, WFMin
<1>4. PICK m \in T : u = 0..m
  BY DEF U
<1>5. ASSUME NEW k \in T, k < m PROVE FALSE
  <2>1. 0..k \in U
    BY DEF U
  <2>2. k \in Nat /\ m \in Nat
    OBVIOUS
  <2>3. /\ 0..k \subseteq 0..m /\ m \in 0..m /\ m \notin 0..k
        /\ 0..k \subseteq Nat /\ 0..m \subseteq Nat
    BY <1>5, <2>2
  <2>4. <<0..k, 0..m>> \in R
    BY <2>3 DEF R, StrictSubsetOrdering
  <2> QED
    BY <1>3, <1>4, <2>1, <2>4
<1> QED
  BY <1>5

\* A set with 0 and the successors of its numbers has them all.
LEMMA Induction ==
  ASSUME NEW S, 0 \in S, \A n \in Nat : n \in S => n + 1 \in S
  PROVE  Nat \subseteq S
<1> SUFFICES ASSUME ~(Nat \subseteq S) PROVE FALSE
  OBVIOUS
<1> DEFINE T == Nat \ S
<1>1. T \subseteq Nat /\ T # {}
  OBVIOUS
<1> HIDE DEF T
<1>2. PICK m \in T : \A k \in T : ~(k < m)
  BY <1>1, LeastElement
<1>3. m # 0 /\ m \in Nat /\ m \notin S
  BY <1>1 DEF T
<1>4. m - 1 \in Nat /\ m - 1 < m /\ m = (m - 1) + 1
  BY <1>3
<1>5. m - 1 \in S
  BY <1>2, <1>4 DEF T
<1> QED
  BY <1>3, <1>4, <1>5

\* Max(S), where S has an element and a bound, and Min(S).
LEMMA MaxIs ==
  ASSUME NEW S, S \subseteq Nat, S # {}, NEW n \in Nat, \A x \in S : x <= n
  PROVE  Max(S) \in S /\ \A x \in S : x <= Max(S)
<1> DEFINE T == {n - x : x \in S}
<1>1. T \subseteq Nat /\ T # {}
  <2>1. \A x \in S : n - x \in Nat
    OBVIOUS
  <2> QED
    BY <2>1
<1> HIDE DEF T
<1>2. PICK m \in T : \A k \in T : ~(k < m)
  BY <1>1, LeastElement
<1>3. PICK y \in S : m = n - y
  BY DEF T
<1>4. ASSUME NEW x \in S PROVE y >= x
  <2>1. n - x \in T
    BY DEF T
  <2>2. ~(n - x < n - y)
    BY <1>2, <1>3, <2>1
  <2>3. x \in Nat /\ y \in Nat
    OBVIOUS
  <2> QED
    BY <2>2, <2>3
<1>5. Max(S) \in S /\ \A x \in S : Max(S) >= x
  BY <1>4 DEF Max
<1>6. Max(S) \in Nat
  BY <1>5
<1> QED
  BY <1>5, <1>6

\* The least of them.
LEMMA MinIs ==
  ASSUME NEW S, S \subseteq Nat, S # {}
  PROVE  Min(S) \in S /\ \A x \in S : Min(S) <= x
<1>1. PICK m \in S : \A k \in S : ~(k < m)
  BY LeastElement
<1>2. \A k \in S : m <= k
  BY <1>1
<1> QED
  BY <1>2 DEF Min

\* Of two numbers.
LEMMA OfTwo ==
  ASSUME NEW a \in Int, NEW b \in Int
  PROVE  /\ Max({a, b}) = IF a >= b THEN a ELSE b
         /\ Min({a, b}) = IF a <= b THEN a ELSE b
<1>1. Max({a, b}) \in {a, b} /\ \A x \in {a, b} : Max({a, b}) >= x
  <2>1. \E y \in {a, b} : \A x \in {a, b} : y >= x
    OBVIOUS
  <2> QED
    BY <2>1 DEF Max
<1>2. Min({a, b}) \in {a, b} /\ \A x \in {a, b} : Min({a, b}) <= x
  <2>1. \E y \in {a, b} : \A x \in {a, b} : y <= x
    OBVIOUS
  <2> QED
    BY <2>1 DEF Min
<1>3. PICK m, n : m = Max({a, b}) /\ n = Min({a, b})
  OBVIOUS
<1>4. m \in {a, b} /\ m >= a /\ m >= b /\ n \in {a, b} /\ n <= a /\ n <= b
  BY <1>1, <1>2, <1>3
<1>5. m = (IF a >= b THEN a ELSE b) /\ n = (IF a <= b THEN a ELSE b)
  BY <1>4
<1> QED
  BY <1>3, <1>5

-----------------------------------------------------------------------------
(* Loops over a sequence *)

\* f is the states of a loop that begins with b and has the body h, after up to n
\* elements of s.
IsLoop(f, b, h, s, n) ==
  f[0] = b /\ \A i \in 1..n : f[i] = h[<<f[i - 1], s[i]>>]

\* A loop whose body leads from X to X has such states.
LEMMA LoopExists ==
  ASSUME NEW X, NEW T, NEW h \in [X \X T -> X], NEW b \in X, NEW s \in Seq(T)
  PROVE  \E f \in [0..Len(s) -> X] : IsLoop(f, b, h, s, Len(s))
<1>1. Len(s) \in Nat /\ \A i \in 1..Len(s) : s[i] \in T
  BY LenProperties
<1> DEFINE N == {n \in Nat : n <= Len(s) => \E f \in [0..n -> X] : IsLoop(f, b, h, s, n)}
<1>2. 0 \in N
  <2>1. /\ [i \in 0..0 |-> b] \in [0..0 -> X]
        /\ IsLoop([i \in 0..0 |-> b], b, h, s, 0)
    BY DEF IsLoop
  <2> QED
    BY <2>1
<1>3. ASSUME NEW n \in Nat, n \in N PROVE n + 1 \in N
  <2>1. CASE n + 1 <= Len(s)
    <3>1. \E f \in [0..n -> X] : IsLoop(f, b, h, s, n)
      BY <1>1, <1>3, <2>1
    <3>2. PICK f \in [0..n -> X] : IsLoop(f, b, h, s, n)
      BY <3>1
    <3>3. n + 1 \in 1..Len(s)
      BY <1>1, <2>1
    <3>4. s[n + 1] \in T /\ f[n] \in X
      BY <1>1, <3>3
    <3>5. <<f[n], s[n + 1]>> \in X \X T
      BY <3>4
    <3>6. PICK x \in X : x = h[<<f[n], s[n + 1]>>]
      BY <3>5
    <3> DEFINE g == [i \in 0..(n + 1) |-> IF i = n + 1 THEN x ELSE f[i]]
    <3>7. /\ g \in [0..(n + 1) -> X]
          /\ \A i \in 0..n : g[i] = f[i]
          /\ g[n + 1] = x
      <4>1. \A i \in 0..(n + 1) : i = n + 1 \/ i \in 0..n
        OBVIOUS
      <4>2. \A i \in 0..n : i # n + 1 /\ i \in 0..(n + 1) /\ f[i] \in X
        OBVIOUS
      <4> QED
        BY <4>1, <4>2
    <3> HIDE DEF g
    <3>8. g[0] = b
      BY <3>2, <3>7 DEF IsLoop
    <3>9. ASSUME NEW i \in 1..(n + 1) PROVE g[i] = h[<<g[i - 1], s[i]>>]
      <4>1. CASE i = n + 1
        <5>1. i - 1 = n /\ n \in 0..n
          BY <4>1
        <5> QED
          BY <3>6, <3>7, <4>1, <5>1
      <4>2. CASE i # n + 1
        <5>1. i \in 1..n /\ i \in 0..n /\ i - 1 \in 0..n
          BY <4>2
        <5> QED
          BY <3>2, <3>7, <5>1 DEF IsLoop
      <4> QED
        BY <4>1, <4>2
    <3>10. IsLoop(g, b, h, s, n + 1)
      BY <3>8, <3>9 DEF IsLoop
    <3> QED
      BY <3>7, <3>10
  <2>2. CASE ~(n + 1 <= Len(s))
    BY <2>2
  <2> QED
    BY <2>1, <2>2
<1> HIDE DEF N
<1>4. Nat \subseteq N
  BY <1>2, <1>3, Induction
<1>5. Len(s) \in N /\ Len(s) <= Len(s)
  BY <1>1, <1>4
<1> QED
  BY <1>5 DEF N

\* What is left of a sequence.
LEMMA Rest ==
  ASSUME NEW S, NEW s \in Seq(S), NEW n \in Nat, n <= Len(s),
         NEW q, q = SubSeq(s, n + 1, Len(s))
  PROVE  /\ q \in Seq(S) /\ Len(q) = Len(s) - n
         /\ \A i \in 1..Len(q) : q[i] = s[n + i]
<1>1. Len(s) \in Nat /\ n + 1 \in Int /\ Len(s) \in Int
  BY LenProperties
<1>2. \A i \in (n + 1)..Len(s) : s[i] \in S
  <2>1. \A i \in (n + 1)..Len(s) : i \in 1..Len(s)
    BY <1>1
  <2> QED
    BY <2>1, LenProperties
<1>3. /\ q \in Seq(S)
      /\ Len(q) = IF n + 1 <= Len(s) THEN Len(s) - (n + 1) + 1 ELSE 0
      /\ \A i \in 1..(Len(s) - (n + 1) + 1) : q[i] = s[(n + 1) + i - 1]
  BY <1>1, <1>2, SubSeqProperties
<1>4. Len(q) = Len(s) - n /\ Len(s) - (n + 1) + 1 = Len(s) - n
  BY <1>1, <1>3
<1>5. \A i \in 1..(Len(s) - n) : (n + 1) + i - 1 = n + i
  BY <1>1
<1> QED
  BY <1>3, <1>4, <1>5

-----------------------------------------------------------------------------
(* Control blocks *)

\* What the application gave to ikcp_send(), cut into segments.
Part == [msg : Nat, frg : Nat]
SentPart == [msg : Nat, frg : Nat, xmit : Nat, fastack : Nat]

\* snd_buf and rcv_buf.
Bufs(S) == UNION {[D -> S] : D \in SUBSET Nat}

Blocks ==
  [snd_una : Nat, snd_nxt : Nat, rcv_nxt : Nat, rmt_wnd : 0..RcvWnd,
   probe : SUBSET {"ask", "tell"}, probing : BOOLEAN,
   snd_queue : Seq(Part), snd_buf : Bufs(SentPart),
   rcv_buf : Bufs(Part), rcv_queue : Seq(Part), acklist : Seq(Nat)]

\* The sequence numbers that have arrived.
Held(b) == {sn \in Nat : sn < b.rcv_nxt} \cup DOMAIN b.rcv_buf

\* How many segments the application has taken.
Taken(b) == b.rcv_nxt - Len(b.rcv_queue)

\* The end of b sends the parts out: some are numbered, some wait.
SendSide(b, out) ==
  /\ b.snd_una <= b.snd_nxt /\ b.snd_nxt - b.snd_una <= SndWnd
  /\ DOMAIN b.snd_buf \subseteq b.snd_una..(b.snd_nxt - 1)
  /\ \A sn \in DOMAIN b.snd_buf :
       b.snd_buf[sn].msg = out[sn + 1].msg /\ b.snd_buf[sn].frg = out[sn + 1].frg
  /\ Len(out) = b.snd_nxt + Len(b.snd_queue)
  /\ \A i \in 1..Len(b.snd_queue) : b.snd_queue[i] = out[b.snd_nxt + i]

\* The end of b receives the first nxt of the parts in.
ReceiveSide(b, in, nxt) ==
  /\ Len(b.rcv_queue) <= RcvWnd /\ Len(b.rcv_queue) <= b.rcv_nxt
  /\ b.rcv_nxt <= nxt
  /\ DOMAIN b.rcv_buf \subseteq b.rcv_nxt..(b.rcv_nxt + RcvWnd - 1)
  /\ \A sn \in DOMAIN b.rcv_buf : sn < nxt /\ b.rcv_buf[sn] = in[sn + 1]
  /\ \A i \in 1..Len(b.rcv_queue) : b.rcv_queue[i] = in[Taken(b) + i]

\* Nothing is acknowledged that has not arrived.
AcksHeld(b) == \A i \in 1..Len(b.acklist) : b.acklist[i] \in Held(b)

\* What is in no snd_buf is in held.
Covered(b, held) == \A sn \in 0..(b.snd_nxt - 1) : sn \in DOMAIN b.snd_buf \/ sn \in held

\* The fields of each side.
Sending(b) == <<b.snd_una, b.snd_nxt, b.snd_queue, b.snd_buf>>
Receiving(b) == <<b.rcv_nxt, b.rcv_buf, b.rcv_queue>>

\* Each side is about its own fields.
LEMMA OwnFields ==
  ASSUME NEW b, NEW c
  PROVE  /\ Sending(b) = Sending(c)
              => /\ \A out : SendSide(b, out) <=> SendSide(c, out)
                 /\ \A held : Covered(b, held) <=> Covered(c, held)
         /\ Receiving(b) = Receiving(c)
              => /\ \A in, nxt : ReceiveSide(b, in, nxt) <=> ReceiveSide(c, in, nxt)
                 /\ Held(b) = Held(c) /\ Taken(b) = Taken(c)
BY DEF Sending, Receiving, SendSide, Covered, ReceiveSide, Held, Taken

\* A buffer's domain and values.
LEMMA BufsAre ==
  ASSUME NEW S, NEW f
  PROVE  f \in Bufs(S) <=> /\ f = [x \in DOMAIN f |-> f[x]]
                           /\ DOMAIN f \subseteq Nat
                           /\ \A x \in DOMAIN f : f[x] \in S
<1>1. ASSUME f \in Bufs(S)
      PROVE  /\ f = [x \in DOMAIN f |-> f[x]]
             /\ DOMAIN f \subseteq Nat
             /\ \A x \in DOMAIN f : f[x] \in S
  <2>1. PICK D \in SUBSET Nat : f \in [D -> S]
    BY <1>1 DEF Bufs
  <2> QED
    BY <2>1
<1>2. ASSUME /\ f = [x \in DOMAIN f |-> f[x]]
             /\ DOMAIN f \subseteq Nat
             /\ \A x \in DOMAIN f : f[x] \in S
      PROVE  f \in Bufs(S)
  <2>1. f \in [DOMAIN f -> S] /\ DOMAIN f \in SUBSET Nat
    BY <1>2
  <2> QED
    BY <2>1 DEF Bufs
<1> QED
  BY <1>1, <1>2

\* A buffer that is restricted is a buffer.
LEMMA RestrictedBuf ==
  ASSUME NEW S, NEW f \in Bufs(S), NEW D, D \subseteq DOMAIN f
  PROVE  /\ Restrict(f, D) \in Bufs(S) /\ DOMAIN Restrict(f, D) = D
         /\ \A x \in D : Restrict(f, D)[x] = f[x]
<1>1. Restrict(f, D) = [x \in D |-> f[x]]
  BY DEF Restrict
<1>2. \A x \in D : f[x] \in S /\ x \in Nat
  BY BufsAre
<1> QED
  BY <1>1, <1>2, BufsAre

-----------------------------------------------------------------------------
(* Receiving *)

\* How far MoveAvailable() goes.
LEMMA MovableIs ==
  ASSUME NEW b \in Blocks, Len(b.rcv_queue) <= RcvWnd
  PROVE  /\ Movable(b) \in Nat /\ Len(b.rcv_queue) + Movable(b) <= RcvWnd
         /\ \A i \in 0..(Movable(b) - 1) : b.rcv_nxt + i \in DOMAIN b.rcv_buf
<1> DEFINE S == {n \in 0..(RcvWnd - Len(b.rcv_queue)) :
                   \A i \in 0..(n - 1) : b.rcv_nxt + i \in DOMAIN b.rcv_buf}
<1>1. Len(b.rcv_queue) \in Nat /\ RcvWnd \in Nat
  BY WindowAssumption, LenProperties DEF Blocks
<1>2. RcvWnd - Len(b.rcv_queue) \in Nat
  BY <1>1
<1>3. S \subseteq Nat /\ 0 \in S /\ \A n \in S : n <= RcvWnd - Len(b.rcv_queue)
  BY <1>2
<1>4. Movable(b) = Max(S)
  BY DEF Movable
<1>5. Max(S) \in S
  <2> HIDE DEF S
  <2> QED
    BY <1>2, <1>3, MaxIs
<1>6. Movable(b) \in S
  BY <1>4, <1>5
<1>7. PICK n : n = Movable(b)
  OBVIOUS
<1>8. /\ n \in 0..(RcvWnd - Len(b.rcv_queue))
      /\ \A i \in 0..(n - 1) : b.rcv_nxt + i \in DOMAIN b.rcv_buf
  BY <1>6, <1>7
<1>9. n \in Nat /\ Len(b.rcv_queue) + n <= RcvWnd
  BY <1>1, <1>8
<1> QED
  BY <1>7, <1>8, <1>9

\* rcv_buf's segments that are next go to the end of rcv_queue; nothing else changes.
LEMMA MoveAvailableKeeps ==
  ASSUME NEW b \in Blocks, NEW in, NEW nxt \in Nat, ReceiveSide(b, in, nxt),
         NEW c, c = MoveAvailable(b)
  PROVE  /\ c \in Blocks /\ ReceiveSide(c, in, nxt)
         /\ Held(c) = Held(b) /\ Taken(c) = Taken(b)
         /\ Sending(c) = Sending(b) /\ c.acklist = b.acklist /\ c.probe = b.probe
<1>1. PICK n : n = Movable(b)
  OBVIOUS
<1>2. /\ b.rcv_nxt \in Nat /\ b.rcv_queue \in Seq(Part) /\ b.rcv_buf \in Bufs(Part)
      /\ Len(b.rcv_queue) \in Nat /\ RcvWnd \in Nat
  BY WindowAssumption, LenProperties DEF Blocks
<1>3. /\ n \in Nat /\ Len(b.rcv_queue) + n <= RcvWnd
      /\ \A i \in 0..(n - 1) : b.rcv_nxt + i \in DOMAIN b.rcv_buf
  BY <1>1, MovableIs DEF ReceiveSide
<1>4. PICK new : new = [i \in 1..n |-> b.rcv_buf[b.rcv_nxt + i - 1]]
  OBVIOUS
<1>5. \A i \in 1..n : /\ b.rcv_nxt + i - 1 \in DOMAIN b.rcv_buf
                      /\ b.rcv_buf[b.rcv_nxt + i - 1] = in[b.rcv_nxt + i]
                      /\ b.rcv_buf[b.rcv_nxt + i - 1] \in Part
                      /\ b.rcv_nxt + i - 1 < nxt
  <2> SUFFICES ASSUME NEW i \in 1..n
               PROVE  /\ b.rcv_nxt + i - 1 \in DOMAIN b.rcv_buf
                      /\ b.rcv_buf[b.rcv_nxt + i - 1] = in[b.rcv_nxt + i]
                      /\ b.rcv_buf[b.rcv_nxt + i - 1] \in Part
                      /\ b.rcv_nxt + i - 1 < nxt
    OBVIOUS
  <2>1. i - 1 \in 0..(n - 1) /\ b.rcv_nxt + (i - 1) = b.rcv_nxt + i - 1
    BY <1>2, <1>3
  <2>2. PICK sn : sn = b.rcv_nxt + i - 1
    OBVIOUS
  <2>3. sn \in DOMAIN b.rcv_buf /\ sn + 1 = b.rcv_nxt + i
    BY <1>2, <1>3, <2>1, <2>2
  <2>4. sn < nxt /\ b.rcv_buf[sn] = in[sn + 1]
    BY <2>3 DEF ReceiveSide
  <2>5. b.rcv_buf[sn] \in Part
    BY <1>2, <2>3, BufsAre
  <2> QED
    BY <2>2, <2>3, <2>4, <2>5
<1>6. new \in Seq(Part) /\ Len(new) = n /\ \A i \in 1..n : new[i] = in[b.rcv_nxt + i]
  <2>1. new \in [1..n -> Part]
    BY <1>4, <1>5
  <2>2. new \in Seq(Part) /\ Len(new) = n
    BY <1>3, <2>1
  <2> QED
    BY <1>4, <1>5, <2>2
<1>7. PICK q : q = b.rcv_queue \o new
  OBVIOUS
<1>8. /\ q \in Seq(Part) /\ Len(q) = Len(b.rcv_queue) + n
      /\ \A i \in 1..Len(q) :
           q[i] = IF i <= Len(b.rcv_queue) THEN b.rcv_queue[i] ELSE new[i - Len(b.rcv_queue)]
  BY <1>2, <1>6, <1>7, ConcatProperties, SMTT(30)
<1>9. PICK D : D = DOMAIN b.rcv_buf \ (b.rcv_nxt..(b.rcv_nxt + n - 1))
  OBVIOUS
<1>10. PICK buf : buf = Restrict(b.rcv_buf, D)
  OBVIOUS
<1>11. buf \in Bufs(Part) /\ DOMAIN buf = D /\ \A x \in D : buf[x] = b.rcv_buf[x]
  BY <1>2, <1>9, <1>10, RestrictedBuf
<1>12. c = [b EXCEPT !.rcv_queue = q, !.rcv_buf = buf, !.rcv_nxt = b.rcv_nxt + n]
  BY <1>1, <1>4, <1>7, <1>9, <1>10 DEF MoveAvailable
<1>13. /\ c \in Blocks
       /\ c.rcv_queue = q /\ c.rcv_buf = buf /\ c.rcv_nxt = b.rcv_nxt + n
       /\ c.snd_una = b.snd_una /\ c.snd_nxt = b.snd_nxt
       /\ c.snd_queue = b.snd_queue /\ c.snd_buf = b.snd_buf
       /\ c.acklist = b.acklist /\ c.probe = b.probe
  <2>1. b.rcv_nxt + n \in Nat
    BY <1>2, <1>3
  <2>2. c \in Blocks
    BY <1>8, <1>11, <1>12, <2>1 DEF Blocks
  <2> QED
    BY <1>12, <2>2 DEF Blocks
<1>14. Taken(c) = Taken(b)
  BY <1>2, <1>3, <1>8, <1>13 DEF Taken
<1>15. DOMAIN b.rcv_buf \subseteq Nat
  BY <1>2, BufsAre
<1>16. Held(c) = Held(b)
  <2>1. ASSUME NEW sn \in Nat
        PROVE  sn < b.rcv_nxt + n \/ sn \in D <=> sn < b.rcv_nxt \/ sn \in DOMAIN b.rcv_buf
    <3>1. CASE sn \in b.rcv_nxt..(b.rcv_nxt + n - 1)
      <4>1. sn - b.rcv_nxt \in 0..(n - 1) /\ b.rcv_nxt + (sn - b.rcv_nxt) = sn
        BY <1>2, <1>3, <3>1
      <4>2. sn \in DOMAIN b.rcv_buf
        BY <1>3, <4>1
      <4> QED
        BY <1>2, <1>3, <3>1, <4>2
    <3>2. CASE sn \notin b.rcv_nxt..(b.rcv_nxt + n - 1)
      BY <1>2, <1>3, <1>9, <3>2
    <3> QED
      BY <3>1, <3>2
  <2> QED
    BY <1>9, <1>11, <1>13, <1>15, <2>1 DEF Held
<1>17. ReceiveSide(c, in, nxt)
  <2>1. Len(c.rcv_queue) <= RcvWnd /\ Len(c.rcv_queue) <= c.rcv_nxt
    BY <1>2, <1>3, <1>8, <1>13 DEF ReceiveSide
  <2>2. c.rcv_nxt <= nxt
    <3>1. CASE n = 0
      BY <1>2, <1>13, <3>1 DEF ReceiveSide
    <3>2. CASE n # 0
      <4>1. n \in 1..n
        BY <1>3, <3>2
      <4> QED
        BY <1>2, <1>3, <1>5, <1>13, <4>1
    <3> QED
      BY <3>1, <3>2
  <2>3. DOMAIN c.rcv_buf \subseteq c.rcv_nxt..(c.rcv_nxt + RcvWnd - 1)
    <3> SUFFICES ASSUME NEW sn \in D
                 PROVE  sn \in (b.rcv_nxt + n)..(b.rcv_nxt + n + RcvWnd - 1)
      BY <1>11, <1>13
    <3>1. sn \in b.rcv_nxt..(b.rcv_nxt + RcvWnd - 1)
      BY <1>9 DEF ReceiveSide
    <3> QED
      BY <1>2, <1>3, <1>9, <3>1
  <2>4. \A sn \in DOMAIN c.rcv_buf : sn < nxt /\ c.rcv_buf[sn] = in[sn + 1]
    BY <1>9, <1>11, <1>13 DEF ReceiveSide
  <2>5. ASSUME NEW i \in 1..Len(c.rcv_queue) PROVE c.rcv_queue[i] = in[Taken(c) + i]
    <3>1. i \in 1..Len(q) /\ Taken(c) = b.rcv_nxt - Len(b.rcv_queue)
      BY <1>13, <1>14 DEF Taken
    <3>2. CASE i <= Len(b.rcv_queue)
      <4>1. i \in 1..Len(b.rcv_queue)
        BY <3>1, <3>2, <1>2
      <4>2. b.rcv_queue[i] = in[Taken(b) + i]
        BY <4>1 DEF ReceiveSide
      <4> QED
        BY <1>8, <1>13, <1>14, <3>1, <3>2, <4>2
    <3>3. CASE ~(i <= Len(b.rcv_queue))
      <4>1. PICK j : j = i - Len(b.rcv_queue)
        OBVIOUS
      <4>2. j \in 1..n /\ b.rcv_nxt + j = (b.rcv_nxt - Len(b.rcv_queue)) + i
        BY <1>2, <1>3, <1>8, <3>1, <3>3, <4>1
      <4>3. q[i] = new[j] /\ new[j] = in[b.rcv_nxt + j]
        BY <1>6, <1>8, <3>1, <3>3, <4>1, <4>2
      <4> QED
        BY <1>13, <3>1, <4>2, <4>3
    <3> QED
      BY <3>2, <3>3
  <2> QED
    BY <2>1, <2>2, <2>3, <2>4, <2>5 DEF ReceiveSide
<1> QED
  BY <1>13, <1>14, <1>16, <1>17 DEF Sending

\* How far an end may be that has received held.
Low(held) == {u \in Nat : 0..(u - 1) \subseteq held}

\* What may come from an end that has received held and sends the parts in, the first
\* nxt of which have numbers.
Acks(held) == [cmd : {"ack"}, wnd : 0..RcvWnd, una : Low(held), sn : held]
Commands(held) == [cmd : {"wask", "wins"}, wnd : 0..RcvWnd, una : Low(held)]
Data(held, in, nxt) ==
  {seg \in [cmd : {"push"}, wnd : 0..RcvWnd, una : Low(held), sn : 0..(nxt - 1),
            msg : Nat, frg : Nat] : [msg |-> seg.msg, frg |-> seg.frg] = in[seg.sn + 1]}
Segs(held, in, nxt) == Acks(held) \cup Commands(held) \cup Data(held, in, nxt)

\* rcv_buf takes a segment that is in the window.
LEMMA ParseDataKeeps ==
  ASSUME NEW b \in Blocks, NEW in, NEW nxt \in Nat, ReceiveSide(b, in, nxt),
         NEW held, NEW seg \in Data(held, in, nxt),
         seg.sn >= b.rcv_nxt, seg.sn < b.rcv_nxt + RcvWnd,
         NEW c, c = ParseData(b, seg)
  PROVE  /\ c \in Blocks /\ ReceiveSide(c, in, nxt)
         /\ Held(c) = Held(b) \cup {seg.sn} /\ Taken(c) = Taken(b)
         /\ Sending(c) = Sending(b) /\ c.acklist = b.acklist
<1>1. /\ seg.sn \in Nat /\ seg.sn < nxt
      /\ [msg |-> seg.msg, frg |-> seg.frg] \in Part
      /\ [msg |-> seg.msg, frg |-> seg.frg] = in[seg.sn + 1]
  BY DEF Data, Part
<1>2. /\ b.rcv_nxt \in Nat /\ b.rcv_buf \in Bufs(Part) /\ RcvWnd \in Nat
      /\ b.rcv_queue \in Seq(Part)
  BY WindowAssumption DEF Blocks
<1>3. CASE seg.sn \in DOMAIN b.rcv_buf
  <2>1. c = MoveAvailable(b)
    BY <1>3 DEF ParseData
  <2>2. seg.sn \in Held(b)
    BY <1>3 DEF Held
  <2> QED
    BY <2>1, <2>2, MoveAvailableKeeps
<1>4. CASE seg.sn \notin DOMAIN b.rcv_buf
  <2>1. PICK buf : buf = Insert(b.rcv_buf, seg)
    OBVIOUS
  <2>2. /\ buf = [sn \in DOMAIN b.rcv_buf \cup {seg.sn} |->
                    IF sn = seg.sn THEN [msg |-> seg.msg, frg |-> seg.frg] ELSE b.rcv_buf[sn]]
    BY <2>1 DEF Insert
  <2>3. /\ DOMAIN buf = DOMAIN b.rcv_buf \cup {seg.sn}
        /\ \A sn \in DOMAIN b.rcv_buf : buf[sn] = b.rcv_buf[sn]
        /\ buf[seg.sn] = in[seg.sn + 1]
        /\ buf[seg.sn] \in Part
    BY <1>1, <1>4, <2>2
  <2>4. buf \in Bufs(Part)
    <3>1. DOMAIN b.rcv_buf \subseteq Nat /\ \A sn \in DOMAIN b.rcv_buf : b.rcv_buf[sn] \in Part
      BY <1>2, BufsAre
    <3>2. buf = [sn \in DOMAIN buf |-> buf[sn]]
      BY <2>2
    <3> QED
      BY <1>1, <2>3, <3>1, <3>2, BufsAre
  <2>5. PICK d : d = [b EXCEPT !.rcv_buf = buf]
    OBVIOUS
  <2>6. c = MoveAvailable(d)
    BY <1>4, <2>1, <2>5 DEF ParseData
  <2>7. d \in Blocks
    BY <2>4, <2>5 DEF Blocks
  <2>8. /\ d.rcv_buf = buf /\ d.rcv_nxt = b.rcv_nxt /\ d.rcv_queue = b.rcv_queue
        /\ d.acklist = b.acklist /\ Sending(d) = Sending(b)
    BY <2>5 DEF Blocks, Sending
  <2>9. Held(d) = Held(b) \cup {seg.sn} /\ Taken(d) = Taken(b)
    BY <2>3, <2>8 DEF Held, Taken
  <2>10. ReceiveSide(d, in, nxt)
    <3>1. DOMAIN buf \subseteq b.rcv_nxt..(b.rcv_nxt + RcvWnd - 1)
      <4>1. seg.sn \in b.rcv_nxt..(b.rcv_nxt + RcvWnd - 1)
        BY <1>1, <1>2
      <4> QED
        BY <2>3, <4>1 DEF ReceiveSide
    <3>2. \A sn \in DOMAIN buf : sn < nxt /\ buf[sn] = in[sn + 1]
      BY <1>1, <2>3 DEF ReceiveSide
    <3> QED
      BY <2>8, <2>9, <3>1, <3>2 DEF ReceiveSide
  <2> QED
    BY <2>6, <2>7, <2>8, <2>9, <2>10, MoveAvailableKeeps
<1> QED
  BY <1>3, <1>4

\* A data segment is acknowledged if it has arrived, and only then.
LEMMA InputPushKeeps ==
  ASSUME NEW b \in Blocks, NEW in, NEW nxt \in Nat, ReceiveSide(b, in, nxt), AcksHeld(b),
         NEW held, NEW seg \in Data(held, in, nxt),
         NEW c, c = InputPush(b, seg)
  PROVE  /\ c \in Blocks /\ ReceiveSide(c, in, nxt) /\ AcksHeld(c)
         /\ Held(b) \subseteq Held(c) /\ Taken(c) = Taken(b)
         /\ Sending(c) = Sending(b)
         /\ Len(c.acklist) <= Len(b.acklist) + 1
<1>1. /\ seg.sn \in Nat /\ b.rcv_nxt \in Nat /\ RcvWnd \in Nat
      /\ b.acklist \in Seq(Nat) /\ Len(b.acklist) \in Nat
  BY WindowAssumption, LenProperties DEF Data, Blocks
<1>2. CASE seg.sn >= b.rcv_nxt + RcvWnd
  <2>1. c = b
    BY <1>2 DEF InputPush
  <2> QED
    BY <1>1, <2>1
<1>3. CASE ~(seg.sn >= b.rcv_nxt + RcvWnd)
  <2>1. PICK l : l = Append(b.acklist, seg.sn)
    OBVIOUS
  <2>2. /\ l \in Seq(Nat) /\ Len(l) = Len(b.acklist) + 1
        /\ \A i \in 1..Len(b.acklist) : l[i] = b.acklist[i]
        /\ l[Len(b.acklist) + 1] = seg.sn
    BY <1>1, <2>1, AppendProperties
  <2>3. PICK d : d = [b EXCEPT !.acklist = l]
    OBVIOUS
  <2>4. d \in Blocks
    BY <2>2, <2>3 DEF Blocks
  <2>5. d.acklist = l /\ Sending(d) = Sending(b) /\ Receiving(d) = Receiving(b)
    BY <2>3 DEF Blocks, Sending, Receiving
  <2>6. /\ ReceiveSide(d, in, nxt) /\ Held(d) = Held(b) /\ Taken(d) = Taken(b)
        /\ d.rcv_nxt = b.rcv_nxt
    BY <2>5, OwnFields DEF Receiving
  <2>7. ASSUME Held(b) \cup {seg.sn} \subseteq Held(c), c.acklist = l
        PROVE  AcksHeld(c)
    <3> SUFFICES ASSUME NEW i \in 1..Len(l) PROVE l[i] \in Held(c)
      BY <2>7 DEF AcksHeld
    <3>1. CASE i = Len(b.acklist) + 1
      BY <2>2, <2>7, <3>1
    <3>2. CASE i # Len(b.acklist) + 1
      <4>1. i \in 1..Len(b.acklist)
        BY <1>1, <2>2, <3>2
      <4> QED
        BY <2>2, <2>7, <4>1 DEF AcksHeld
    <3> QED
      BY <3>1, <3>2
  <2>8. CASE seg.sn >= b.rcv_nxt
    <3>1. c = ParseData(d, seg)
      BY <1>3, <2>1, <2>3, <2>8 DEF InputPush
    <3>2. seg.sn >= d.rcv_nxt /\ seg.sn < d.rcv_nxt + RcvWnd
      BY <1>1, <1>3, <2>6, <2>8
    <3>3. /\ c \in Blocks /\ ReceiveSide(c, in, nxt)
          /\ Held(c) = Held(d) \cup {seg.sn} /\ Taken(c) = Taken(d)
          /\ Sending(c) = Sending(d) /\ c.acklist = d.acklist
      BY <2>4, <2>6, <3>1, <3>2, ParseDataKeeps
    <3> QED
      BY <1>1, <2>2, <2>5, <2>6, <2>7, <3>3
  <2>9. CASE ~(seg.sn >= b.rcv_nxt)
    <3>1. c = d
      BY <1>3, <2>1, <2>3, <2>9 DEF InputPush
    <3>2. seg.sn \in Held(b)
      BY <1>1, <2>9 DEF Held
    <3> QED
      BY <1>1, <2>2, <2>4, <2>5, <2>6, <2>7, <3>1, <3>2
  <2> QED
    BY <2>8, <2>9
<1> QED
  BY <1>2, <1>3

-----------------------------------------------------------------------------
(* Acknowledgements *)

\* b when only the segments of D are left in snd_buf.
Shrunk(b, D) == ShrinkBuf([b EXCEPT !.snd_buf = Restrict(b.snd_buf, D)])

\* snd_una goes up to the first segment of snd_buf, which has lost some to held.
LEMMA ShrinkBufKeeps ==
  ASSUME NEW b \in Blocks, NEW out, SendSide(b, out),
         NEW D, D \subseteq DOMAIN b.snd_buf,
         NEW held, Covered(b, held), DOMAIN b.snd_buf \ D \subseteq held,
         NEW c, c = Shrunk(b, D)
  PROVE  /\ c \in Blocks /\ SendSide(c, out) /\ Covered(c, held)
         /\ c.snd_nxt = b.snd_nxt /\ c.snd_queue = b.snd_queue
         /\ Receiving(c) = Receiving(b) /\ c.acklist = b.acklist
<1>1. /\ b.snd_nxt \in Nat /\ b.snd_una \in Nat /\ b.snd_buf \in Bufs(SentPart)
      /\ SndWnd \in Nat
  BY WindowAssumption DEF Blocks
<1>2. PICK buf : buf = Restrict(b.snd_buf, D)
  OBVIOUS
<1>3. /\ buf \in Bufs(SentPart) /\ DOMAIN buf = D
      /\ \A x \in D : buf[x] = b.snd_buf[x]
  BY <1>1, <1>2, RestrictedBuf
<1>4. PICK una : una = IF D = {} THEN b.snd_nxt ELSE Min(D)
  OBVIOUS
<1>5. D \subseteq b.snd_una..(b.snd_nxt - 1)
  BY DEF SendSide
<1>6. /\ una \in Nat /\ b.snd_una <= una /\ una <= b.snd_nxt
      /\ D \subseteq una..(b.snd_nxt - 1)
  <2>1. CASE D = {}
    BY <1>1, <1>4, <2>1 DEF SendSide
  <2>2. CASE D # {}
    <3>1. D \subseteq Nat
      BY <1>1, <1>5
    <3>2. Min(D) \in D /\ \A x \in D : Min(D) <= x
      BY <2>2, <3>1, MinIs
    <3>3. una \in D /\ \A x \in D : una <= x
      BY <1>4, <2>2, <3>2
    <3> QED
      BY <1>1, <1>5, <3>3
  <2> QED
    BY <2>1, <2>2
<1>7. PICK d : d = [b EXCEPT !.snd_buf = buf]
  OBVIOUS
<1>8. d \in Blocks
  BY <1>3, <1>7 DEF Blocks
<1>9. /\ d.snd_buf = buf /\ d.snd_nxt = b.snd_nxt /\ d.snd_queue = b.snd_queue
      /\ Receiving(d) = Receiving(b) /\ d.acklist = b.acklist
  BY <1>7 DEF Blocks, Receiving
<1>10. c = [d EXCEPT !.snd_una = una]
  <2>1. c = ShrinkBuf(d)
    BY <1>2, <1>7 DEF Shrunk
  <2>2. c = [d EXCEPT !.snd_una = IF DOMAIN d.snd_buf = {} THEN d.snd_nxt
                                  ELSE Min(DOMAIN d.snd_buf)]
    BY <2>1 DEF ShrinkBuf
  <2>3. (IF DOMAIN d.snd_buf = {} THEN d.snd_nxt ELSE Min(DOMAIN d.snd_buf)) = una
    BY <1>3, <1>4, <1>9
  <2> QED
    BY <2>2, <2>3
<1>11. c \in Blocks
  BY <1>6, <1>8, <1>10 DEF Blocks
<1>12. /\ c.snd_una = una /\ c.snd_buf = buf /\ c.snd_nxt = b.snd_nxt
       /\ c.snd_queue = b.snd_queue
       /\ Receiving(c) = Receiving(b) /\ c.acklist = b.acklist
  BY <1>8, <1>9, <1>10 DEF Blocks, Receiving
<1>13. SendSide(c, out)
  <2>1. c.snd_una <= c.snd_nxt /\ c.snd_nxt - c.snd_una <= SndWnd
    BY <1>1, <1>6, <1>12 DEF SendSide
  <2>2. \A sn \in DOMAIN c.snd_buf : /\ c.snd_buf[sn].msg = out[sn + 1].msg
                                     /\ c.snd_buf[sn].frg = out[sn + 1].frg
    BY <1>3, <1>12 DEF SendSide
  <2> QED
    BY <1>3, <1>6, <1>12, <2>1, <2>2 DEF SendSide
<1>14. Covered(c, held)
  BY <1>3, <1>12 DEF Covered
<1> QED
  BY <1>11, <1>12, <1>13, <1>14

\* What a call of ikcp_input() keeps of b, at an end that sends out, receives the first
\* nxt parts of in, and whose peer has received held.
Kept(b, out, in, nxt, held) ==
  {c \in Blocks : /\ SendSide(c, out) /\ ReceiveSide(c, in, nxt) /\ AcksHeld(c)
                  /\ Covered(c, held) /\ Held(b) \subseteq Held(c)
                  /\ Taken(c) = Taken(b)
                  /\ c.snd_nxt = b.snd_nxt /\ c.snd_queue = b.snd_queue}

\* One segment of a datagram.
LEMMA InputSegmentKeeps ==
  ASSUME NEW b \in Blocks, NEW out, NEW in, NEW nxt \in Nat, NEW held,
         NEW a \in Kept(b, out, in, nxt, held),
         NEW seg \in Segs(held, in, nxt),
         NEW c, c = InputSegment(a, seg)
  PROVE  /\ c \in Kept(b, out, in, nxt, held)
         /\ Len(c.acklist) <= Len(a.acklist) + 1
<1>1. /\ a \in Blocks /\ SendSide(a, out) /\ ReceiveSide(a, in, nxt) /\ AcksHeld(a)
      /\ Covered(a, held) /\ Held(b) \subseteq Held(a) /\ Taken(a) = Taken(b)
      /\ a.snd_nxt = b.snd_nxt /\ a.snd_queue = b.snd_queue
  BY DEF Kept
<1>2. /\ seg.wnd \in 0..RcvWnd /\ seg.una \in Nat /\ 0..(seg.una - 1) \subseteq held
      /\ seg.cmd \in {"ack", "wask", "wins", "push"}
  BY DEF Segs, Acks, Commands, Data, Low
<1>3. PICK d : d = [a EXCEPT !.rmt_wnd = seg.wnd]
  OBVIOUS
<1>4. /\ d \in Blocks /\ Sending(d) = Sending(a) /\ Receiving(d) = Receiving(a)
      /\ d.acklist = a.acklist /\ d.snd_buf = a.snd_buf
      /\ d.snd_nxt = a.snd_nxt /\ d.snd_queue = a.snd_queue
  BY <1>1, <1>2, <1>3 DEF Blocks, Sending, Receiving
<1>5. SendSide(d, out) /\ Covered(d, held)
  BY <1>1, <1>4, OwnFields
<1>6. PICK D : D = {sn \in DOMAIN d.snd_buf : sn >= seg.una}
  OBVIOUS
<1>7. PICK e : e = ParseUna(d, seg.una)
  OBVIOUS
<1>8. /\ e \in Blocks /\ SendSide(e, out) /\ Covered(e, held)
      /\ e.snd_nxt = a.snd_nxt /\ e.snd_queue = a.snd_queue
      /\ Receiving(e) = Receiving(a) /\ e.acklist = a.acklist
  <2>1. DOMAIN d.snd_buf \ D \subseteq held
    <3>1. DOMAIN d.snd_buf \subseteq Nat
      BY <1>4, BufsAre DEF Blocks
    <3>2. ASSUME NEW sn \in DOMAIN d.snd_buf \ D PROVE sn \in 0..(seg.una - 1)
      BY <1>2, <1>6, <3>1, <3>2
    <3> QED
      BY <1>2, <3>2
  <2>2. e = Shrunk(d, D)
    BY <1>6, <1>7 DEF ParseUna, Shrunk
  <2>3. D \subseteq DOMAIN d.snd_buf
    BY <1>6
  <2> QED
    BY <1>4, <1>5, <2>1, <2>2, <2>3, ShrinkBufKeeps
<1>9. /\ ReceiveSide(e, in, nxt) /\ Held(e) = Held(a) /\ Taken(e) = Taken(a)
  BY <1>1, <1>8, OwnFields
<1>10. AcksHeld(e)
  BY <1>1, <1>8, <1>9 DEF AcksHeld
<1>11. e \in Kept(b, out, in, nxt, held)
  BY <1>1, <1>8, <1>9, <1>10 DEF Kept
<1>12. Len(a.acklist) \in Nat
  BY <1>1, LenProperties DEF Blocks
<1>13. CASE seg.cmd = "ack"
  <2>1. c = ParseAck(e, seg.sn)
    BY <1>3, <1>7, <1>13 DEF InputSegment
  <2>2. seg.sn \in held
    BY <1>13 DEF Segs, Acks, Commands, Data
  <2>3. PICK E : E = DOMAIN e.snd_buf \ {seg.sn}
    OBVIOUS
  <2>4. c = Shrunk(e, E)
    BY <2>1, <2>3 DEF ParseAck, Shrunk
  <2>5. E \subseteq DOMAIN e.snd_buf
    BY <2>3
  <2>6. DOMAIN e.snd_buf \ E \subseteq held
    BY <2>2, <2>3
  <2>7. e \in Blocks
    BY <1>8
  <2>8. SendSide(e, out)
    BY <1>8
  <2>9. Covered(e, held)
    BY <1>8
  <2>10. /\ c \in Blocks /\ SendSide(c, out) /\ Covered(c, held)
        /\ c.snd_nxt = e.snd_nxt /\ c.snd_queue = e.snd_queue
        /\ Receiving(c) = Receiving(e) /\ c.acklist = e.acklist
    BY <2>4, <2>5, <2>6, <2>7, <2>8, <2>9, ShrinkBufKeeps
  <2>11. ReceiveSide(c, in, nxt) /\ Held(c) = Held(e) /\ Taken(c) = Taken(e)
    BY <1>9, <2>10, OwnFields
  <2>12. AcksHeld(c)
    BY <1>10, <2>10, <2>11 DEF AcksHeld
  <2> QED
    BY <1>1, <1>8, <1>9, <1>12, <2>10, <2>11, <2>12 DEF Kept
<1>14. CASE seg.cmd = "push"
  <2>1. c = InputPush(e, seg)
    BY <1>3, <1>7, <1>14 DEF InputSegment
  <2>2. seg \in Data(held, in, nxt)
    BY <1>14 DEF Segs, Acks, Commands
  <2>3. /\ c \in Blocks /\ ReceiveSide(c, in, nxt) /\ AcksHeld(c)
        /\ Held(e) \subseteq Held(c) /\ Taken(c) = Taken(e)
        /\ Sending(c) = Sending(e)
        /\ Len(c.acklist) <= Len(e.acklist) + 1
    BY <1>8, <1>9, <1>10, <2>1, <2>2, InputPushKeeps
  <2>4. SendSide(c, out) /\ Covered(c, held)
    BY <1>8, <2>3, OwnFields
  <2>5. c.snd_nxt = e.snd_nxt /\ c.snd_queue = e.snd_queue
    BY <2>3 DEF Sending
  <2> QED
    BY <1>1, <1>8, <1>9, <2>3, <2>4, <2>5 DEF Kept
<1>15. CASE seg.cmd = "wask"
  <2>1. c = [e EXCEPT !.probe = @ \cup {"tell"}]
    BY <1>3, <1>7, <1>15 DEF InputSegment
  <2>2. c \in Blocks
    BY <1>8, <2>1 DEF Blocks
  <2>3. /\ Sending(c) = Sending(e) /\ Receiving(c) = Receiving(e)
        /\ c.acklist = e.acklist /\ c.snd_nxt = e.snd_nxt /\ c.snd_queue = e.snd_queue
    BY <1>8, <2>1 DEF Blocks, Sending, Receiving
  <2>4. /\ SendSide(c, out) /\ Covered(c, held) /\ ReceiveSide(c, in, nxt)
        /\ Held(c) = Held(e) /\ Taken(c) = Taken(e)
    BY <1>8, <1>9, <2>3, OwnFields
  <2>5. AcksHeld(c)
    BY <1>10, <2>3, <2>4 DEF AcksHeld
  <2> QED
    BY <1>1, <1>8, <1>9, <1>12, <2>2, <2>3, <2>4, <2>5 DEF Kept
<1>16. CASE seg.cmd = "wins"
  <2>1. c = e
    BY <1>3, <1>7, <1>16 DEF InputSegment
  <2> QED
    BY <1>8, <1>11, <1>12, <2>1
<1> QED
  BY <1>2, <1>13, <1>14, <1>15, <1>16

\* fastack counts; all else stays.
LEMMA ParseFastackKeeps ==
  ASSUME NEW b \in Blocks, NEW out, NEW in, NEW nxt, NEW held,
         NEW a \in Kept(b, out, in, nxt, held),
         NEW maxack, NEW c, c = ParseFastack(a, maxack)
  PROVE  c \in Kept(b, out, in, nxt, held) /\ c.acklist = a.acklist
<1>1. /\ a \in Blocks /\ SendSide(a, out) /\ ReceiveSide(a, in, nxt) /\ AcksHeld(a)
      /\ Covered(a, held) /\ Held(b) \subseteq Held(a) /\ Taken(a) = Taken(b)
      /\ a.snd_nxt = b.snd_nxt /\ a.snd_queue = b.snd_queue
  BY DEF Kept
<1>2. CASE maxack < a.snd_una \/ maxack >= a.snd_nxt
  BY <1>2 DEF ParseFastack
<1>3. CASE ~(maxack < a.snd_una \/ maxack >= a.snd_nxt)
  <2>1. PICK buf : buf = [sn \in DOMAIN a.snd_buf |->
                            IF sn < maxack
                            THEN [a.snd_buf[sn] EXCEPT !.fastack = Min({@ + 1, Resent})]
                            ELSE a.snd_buf[sn]]
    OBVIOUS
  <2>2. c = [a EXCEPT !.snd_buf = buf]
    BY <1>3, <2>1 DEF ParseFastack
  <2>3. a.snd_buf \in Bufs(SentPart)
    BY <1>1 DEF Blocks
  <2>4. ASSUME NEW sn \in DOMAIN a.snd_buf
        PROVE  /\ buf[sn] \in SentPart
               /\ buf[sn].msg = a.snd_buf[sn].msg /\ buf[sn].frg = a.snd_buf[sn].frg
    <3>1. a.snd_buf[sn] \in SentPart
      BY <2>3, BufsAre
    <3>2. Min({a.snd_buf[sn].fastack + 1, Resent}) \in Nat
      <4>1. PICK x : x = a.snd_buf[sn].fastack + 1
        OBVIOUS
      <4>2. x \in Nat /\ Resent \in Nat /\ x \in Int /\ Resent \in Int
        BY <3>1, <4>1, ResendAssumption DEF SentPart
      <4>3. Min({x, Resent}) \in {x, Resent}
        BY <4>2, OfTwo
      <4> QED
        BY <4>1, <4>2, <4>3
    <3> QED
      BY <2>1, <3>1, <3>2 DEF SentPart
  <2>5. DOMAIN buf = DOMAIN a.snd_buf /\ buf = [sn \in DOMAIN buf |-> buf[sn]]
    BY <2>1
  <2>6. buf \in Bufs(SentPart)
    BY <2>3, <2>4, <2>5, BufsAre
  <2>7. c \in Blocks
    BY <1>1, <2>2, <2>6 DEF Blocks
  <2>8. /\ c.snd_buf = buf /\ c.snd_una = a.snd_una /\ c.snd_nxt = a.snd_nxt
        /\ c.snd_queue = a.snd_queue /\ c.acklist = a.acklist
        /\ Receiving(c) = Receiving(a)
    BY <1>1, <2>2 DEF Blocks, Receiving
  <2>9. SendSide(c, out) /\ Covered(c, held)
    BY <1>1, <2>4, <2>5, <2>8 DEF SendSide, Covered
  <2>10. ReceiveSide(c, in, nxt) /\ Held(c) = Held(a) /\ Taken(c) = Taken(a)
    BY <1>1, <2>8, OwnFields
  <2>11. AcksHeld(c)
    BY <1>1, <2>8, <2>10 DEF AcksHeld
  <2> QED
    BY <1>1, <2>7, <2>8, <2>9, <2>10, <2>11 DEF Kept
<1> QED
  BY <1>2, <1>3

\* A datagram: ikcp_input() goes through its segments, then counts who was overtaken.
LEMMA InputKeeps ==
  ASSUME NEW b \in Blocks, NEW out, NEW in, NEW nxt \in Nat, NEW held,
         SendSide(b, out), ReceiveSide(b, in, nxt), AcksHeld(b), Covered(b, held),
         NEW d \in Seq(Segs(held, in, nxt)),
         NEW c, c = Input(b, d)
  PROVE  /\ c \in Kept(b, out, in, nxt, held)
         /\ Len(c.acklist) <= Len(b.acklist) + Len(d)
<1> DEFINE X == Kept(b, out, in, nxt, held)
           T == Segs(held, in, nxt)
           h == [p \in X \X T |-> InputSegment(p[1], p[2])]
<1>1. \A a \in X, seg \in T : /\ InputSegment(a, seg) \in X
                              /\ Len(InputSegment(a, seg).acklist) <= Len(a.acklist) + 1
  BY InputSegmentKeeps
<1>2. /\ b \in X /\ d \in Seq(T) /\ Len(d) \in Nat /\ Len(b.acklist) \in Nat
      /\ \A i \in 1..Len(d) : d[i] \in T
  BY LenProperties DEF Kept, Blocks
<1>3. \A a \in X : Len(a.acklist) \in Nat
  BY LenProperties DEF Kept, Blocks
<1> HIDE DEF X, T
<1>4. h \in [X \X T -> X] /\ \A a \in X, seg \in T : h[<<a, seg>>] = InputSegment(a, seg)
  BY <1>1
<1> HIDE DEF h
<1>5. \E f \in [0..Len(d) -> X] : IsLoop(f, b, h, d, Len(d))
  BY <1>2, <1>4, LoopExists
<1>6. PICK f \in [0..Len(d) -> X] : IsLoop(f, b, h, d, Len(d))
  BY <1>5
<1>7. f[0] = b /\ \A i \in 1..Len(d) : f[i] = InputSegment(f[i - 1], d[i])
  <2>1. \A i \in 1..Len(d) : i - 1 \in 0..Len(d)
    BY <1>2
  <2> QED
    BY <1>2, <1>4, <1>6, <2>1 DEF IsLoop
<1>8. f = [i \in 0..Len(d) |-> IF i = 0 THEN b ELSE InputSegment(f[i - 1], d[i])]
  <2>1. \A i \in 0..Len(d) : i = 0 \/ i \in 1..Len(d)
    BY <1>2
  <2>2. \A i \in 0..Len(d) : f[i] = IF i = 0 THEN b ELSE InputSegment(f[i - 1], d[i])
    BY <1>7, <2>1
  <2> QED
    BY <1>6, <2>2
<1>9. PICK after : after = CHOOSE g : g = [i \in 0..Len(d) |->
                              IF i = 0 THEN b ELSE InputSegment(g[i - 1], d[i])]
  OBVIOUS
<1>10. after = [i \in 0..Len(d) |-> IF i = 0 THEN b ELSE InputSegment(after[i - 1], d[i])]
  BY <1>8, <1>9
<1> DEFINE Fine(n) == after[n] \in X /\ Len(after[n].acklist) <= Len(b.acklist) + n
           N == {n \in Nat : n <= Len(d) => Fine(n)}
<1>11. 0 \in N
  BY <1>2, <1>10
<1>12. ASSUME NEW n \in Nat, n \in N PROVE n + 1 \in N
  <2> HIDE DEF Fine
  <2> SUFFICES ASSUME n + 1 <= Len(d) PROVE Fine(n + 1)
    OBVIOUS
  <2> USE DEF Fine
  <2>1. n + 1 \in 0..Len(d) /\ n + 1 # 0 /\ (n + 1) - 1 = n /\ n + 1 \in 1..Len(d)
        /\ n <= Len(d)
    BY <1>2
  <2>2. after[n + 1] = InputSegment(after[n], d[n + 1])
    BY <1>10, <2>1
  <2>3. PICK e : e = after[n]
    OBVIOUS
  <2>4. PICK g : g = after[n + 1]
    OBVIOUS
  <2>5. e \in X /\ Len(e.acklist) <= Len(b.acklist) + n
    BY <1>12, <2>1, <2>3
  <2>6. g \in X /\ Len(g.acklist) <= Len(e.acklist) + 1
    BY <1>1, <1>2, <2>1, <2>2, <2>3, <2>4, <2>5
  <2>7. Len(g.acklist) \in Nat /\ Len(e.acklist) \in Nat
    BY <1>3, <2>5, <2>6
  <2>8. Len(g.acklist) <= Len(b.acklist) + (n + 1)
    <3>1. PICK x, y, z : x = Len(g.acklist) /\ y = Len(e.acklist) /\ z = Len(b.acklist)
      OBVIOUS
    <3>2. x \in Nat /\ y \in Nat /\ z \in Nat /\ x <= y + 1 /\ y <= z + n
      BY <1>2, <2>5, <2>6, <2>7, <3>1
    <3>3. x <= z + (n + 1)
      BY <3>2
    <3> QED
      BY <3>1, <3>3
  <2> QED
    BY <2>4, <2>6, <2>8
<1> HIDE DEF N
<1>13. Nat \subseteq N
  BY <1>11, <1>12, Induction
<1>14. PICK e : e = after[Len(d)]
  OBVIOUS
<1>15. e \in X /\ Len(e.acklist) <= Len(b.acklist) + Len(d)
  <2>1. Len(d) \in N /\ Len(d) <= Len(d)
    BY <1>2, <1>13
  <2> QED
    BY <1>14, <2>1 DEF N
<1>16. c = e \/ \E m : c = ParseFastack(e, m)
  BY <1>9, <1>14 DEF Input
<1>17. CASE c = e
  BY <1>15, <1>17 DEF X
<1>18. CASE \E m : c = ParseFastack(e, m)
  <2>1. PICK m : c = ParseFastack(e, m)
    BY <1>18
  <2>2. c \in Kept(b, out, in, nxt, held) /\ c.acklist = e.acklist
    BY <1>15, <2>1, ParseFastackKeeps DEF X
  <2> QED
    BY <1>15, <2>2
<1> QED
  BY <1>16, <1>17, <1>18

-----------------------------------------------------------------------------
(* Datagrams *)

\* size is what DatagramSize(d) is defined by.
IsSize(size, d) ==
  size = [i \in 0..Len(d) |-> IF i = 0 THEN 0 ELSE size[i - 1] + SegmentSize(d[i])]

\* Every segment takes some room, and none more than a datagram has.
LEMMA SegmentSizeTyped ==
  ASSUME NEW seg
  PROVE  SegmentSize(seg) \in 1..Mtu
BY SizeAssumption DEF SegmentSize

\* The sizes of the beginnings of a datagram: each segment counts for one at least.
LEMMA DatagramSizeIs ==
  ASSUME NEW T, NEW d \in Seq(T)
  PROVE  \E size : /\ IsSize(size, d) /\ DatagramSize(d) = size[Len(d)]
                   /\ \A i \in 0..Len(d) : size[i] \in Nat /\ i <= size[i]
<1> DEFINE h == [p \in Nat \X T |-> p[1] + SegmentSize(p[2])]
<1>1. \A x \in Nat, seg \in T : x + SegmentSize(seg) \in Nat /\ x < x + SegmentSize(seg)
  BY SegmentSizeTyped, SizeAssumption
<1>2. Len(d) \in Nat /\ \A i \in 1..Len(d) : d[i] \in T
  BY LenProperties
<1>3. /\ h \in [Nat \X T -> Nat]
      /\ \A x \in Nat, seg \in T : h[<<x, seg>>] = x + SegmentSize(seg)
  BY <1>1
<1> HIDE DEF h
<1>4. \E f \in [0..Len(d) -> Nat] : IsLoop(f, 0, h, d, Len(d))
  BY <1>3, LoopExists
<1>5. PICK f \in [0..Len(d) -> Nat] : IsLoop(f, 0, h, d, Len(d))
  BY <1>4
<1>6. f[0] = 0 /\ \A i \in 1..Len(d) : f[i] = f[i - 1] + SegmentSize(d[i])
  <2>1. \A i \in 1..Len(d) : i - 1 \in 0..Len(d)
    BY <1>2
  <2> QED
    BY <1>2, <1>3, <1>5, <2>1 DEF IsLoop
<1>7. IsSize(f, d)
  <2>1. \A i \in 0..Len(d) : i = 0 \/ i \in 1..Len(d)
    BY <1>2
  <2>2. \A i \in 0..Len(d) : f[i] = IF i = 0 THEN 0 ELSE f[i - 1] + SegmentSize(d[i])
    BY <1>6, <2>1
  <2> QED
    BY <1>5, <2>2 DEF IsSize
<1>8. PICK size : size = CHOOSE g : IsSize(g, d)
  OBVIOUS
<1>9. IsSize(size, d)
  BY <1>7, <1>8
<1>10. DatagramSize(d) = size[Len(d)]
  BY <1>8 DEF DatagramSize, IsSize
<1>11. /\ size[0] = 0
       /\ \A i \in 1..Len(d) : size[i] = size[i - 1] + SegmentSize(d[i])
  BY <1>2, <1>9 DEF IsSize
<1> DEFINE N == {n \in Nat : n <= Len(d) => size[n] \in Nat /\ n <= size[n]}
<1>12. 0 \in N
  BY <1>11
<1>13. ASSUME NEW n \in Nat, n \in N PROVE n + 1 \in N
  <2> SUFFICES ASSUME n + 1 <= Len(d) PROVE size[n + 1] \in Nat /\ n + 1 <= size[n + 1]
    OBVIOUS
  <2>1. n + 1 \in 1..Len(d) /\ (n + 1) - 1 = n /\ n <= Len(d)
    BY <1>2
  <2>2. size[n + 1] = size[n] + SegmentSize(d[n + 1])
    BY <1>11, <2>1
  <2>3. size[n] \in Nat /\ n <= size[n]
    BY <1>13, <2>1
  <2>4. PICK x, y, z : x = size[n] /\ y = size[n + 1] /\ z = SegmentSize(d[n + 1])
    OBVIOUS
  <2>5. z \in Nat /\ 1 <= z
    BY <2>4, SegmentSizeTyped, SizeAssumption
  <2>6. y \in Nat /\ n + 1 <= y
    BY <2>2, <2>3, <2>4, <2>5
  <2> QED
    BY <2>4, <2>6
<1> HIDE DEF N
<1>14. Nat \subseteq N
  BY <1>12, <1>13, Induction
<1>15. \A i \in 0..Len(d) : size[i] \in Nat /\ i <= size[i]
  BY <1>2, <1>14 DEF N
<1> QED
  BY <1>9, <1>10, <1>15

\* A datagram is as long as its segments are together.
LEMMA DatagramSizeAppend ==
  ASSUME NEW T, NEW d \in Seq(T), NEW seg \in T
  PROVE  DatagramSize(Append(d, seg)) = DatagramSize(d) + SegmentSize(seg)
<1>1. PICK e : e = Append(d, seg)
  OBVIOUS
<1>2. /\ e \in Seq(T) /\ Len(e) = Len(d) + 1 /\ Len(d) \in Nat
      /\ \A i \in 1..Len(d) : e[i] = d[i]
      /\ e[Len(d) + 1] = seg
  BY <1>1, AppendProperties, LenProperties
<1>3. PICK f : IsSize(f, d) /\ DatagramSize(d) = f[Len(d)]
  BY DatagramSizeIs
<1>4. PICK g : IsSize(g, e) /\ DatagramSize(e) = g[Len(e)]
  BY <1>2, DatagramSizeIs
<1>5. f[0] = 0 /\ \A i \in 1..Len(d) : f[i] = f[i - 1] + SegmentSize(d[i])
  BY <1>2, <1>3 DEF IsSize
<1>6. g[0] = 0 /\ \A i \in 1..Len(e) : g[i] = g[i - 1] + SegmentSize(e[i])
  BY <1>2, <1>4 DEF IsSize
<1> DEFINE N == {n \in Nat : n <= Len(d) => f[n] = g[n]}
<1>7. 0 \in N
  BY <1>5, <1>6
<1>8. ASSUME NEW n \in Nat, n \in N PROVE n + 1 \in N
  <2> SUFFICES ASSUME n + 1 <= Len(d) PROVE f[n + 1] = g[n + 1]
    OBVIOUS
  <2>1. /\ n + 1 \in 1..Len(d) /\ n + 1 \in 1..Len(e) /\ (n + 1) - 1 = n /\ n <= Len(d)
        /\ e[n + 1] = d[n + 1]
    BY <1>2
  <2>2. f[n] = g[n]
    BY <1>8, <2>1
  <2> QED
    BY <1>5, <1>6, <2>1, <2>2
<1> HIDE DEF N
<1>9. Nat \subseteq N
  BY <1>7, <1>8, Induction
<1>10. Len(d) <= Len(d) /\ Len(d) + 1 \in 1..Len(e) /\ (Len(d) + 1) - 1 = Len(d)
  BY <1>2
<1>11. f[Len(d)] = g[Len(d)]
  BY <1>2, <1>9, <1>10 DEF N
<1>12. g[Len(d) + 1] = g[Len(d)] + SegmentSize(seg)
  BY <1>2, <1>6, <1>10
<1> QED
  BY <1>1, <1>2, <1>3, <1>4, <1>11, <1>12

\* What Pack() makes of segments of T.
Datagrams(T) == {d \in Seq(T) : DatagramSize(d) \in 1..Mtu}

\* One segment is a datagram.
LEMMA OneSegment ==
  ASSUME NEW T, NEW seg \in T
  PROVE  <<seg>> \in Datagrams(T)
<1>1. << >> \in Seq(T) /\ Append(<< >>, seg) = <<seg>> /\ Len(<< >>) = 0
  OBVIOUS
<1>2. PICK f : IsSize(f, << >>) /\ DatagramSize(<< >>) = f[Len(<< >>)]
  BY <1>1, DatagramSizeIs
<1>3. DatagramSize(<< >>) = 0
  BY <1>1, <1>2 DEF IsSize
<1>4. DatagramSize(Append(<< >>, seg)) = DatagramSize(<< >>) + SegmentSize(seg)
  BY <1>1, DatagramSizeAppend
<1>5. SegmentSize(seg) \in 1..Mtu
  BY SegmentSizeTyped
<1>6. DatagramSize(<<seg>>) \in 1..Mtu
  BY <1>1, <1>3, <1>4, <1>5, SizeAssumption
<1>7. <<seg>> \in Seq(T)
  OBVIOUS
<1> QED
  BY <1>6, <1>7 DEF Datagrams

\* A segment goes into the last datagram when that leaves it a datagram.
LEMMA PackSegmentKeeps ==
  ASSUME NEW T, NEW out \in Seq(Datagrams(T)), NEW seg \in T
  PROVE  PackSegment(out, seg) \in Seq(Datagrams(T))
<1> DEFINE D == Datagrams(T)
<1>1. <<seg>> \in D
  BY OneSegment
<1>2. CASE out # << >> /\ DatagramSize(Last(out)) + SegmentSize(seg) <= Mtu
  <2>1. PICK last : last = Last(out)
    OBVIOUS
  <2>2. PICK front : front = Front(out)
    OBVIOUS
  <2>3. last \in D /\ front \in Seq(D)
    <3> HIDE DEF D
    <3>1. Len(out) \in Nat \ {0} /\ \A i \in 1..Len(out) : out[i] \in D
      BY <1>2, LenProperties, EmptySeq DEF D
    <3>2. last = out[Len(out)] /\ front = [i \in 1..(Len(out) - 1) |-> out[i]]
      BY <2>1, <2>2 DEF Last, Front, SubSeq
    <3>3. front \in [1..(Len(out) - 1) -> D] /\ Len(out) - 1 \in Nat
      BY <3>1, <3>2
    <3>4. front \in Seq(D)
      BY <3>3, IsASeq
    <3> QED
      BY <3>1, <3>2, <3>4
  <2>4. PICK new : new = Append(last, seg)
    OBVIOUS
  <2>5. last \in Seq(T) /\ DatagramSize(last) \in 1..Mtu
    BY <2>3 DEF Datagrams
  <2>6. new \in Seq(T) /\ DatagramSize(new) = DatagramSize(last) + SegmentSize(seg)
    BY <2>4, <2>5, DatagramSizeAppend, AppendProperties
  <2>7. SegmentSize(seg) \in 1..Mtu
    BY SegmentSizeTyped
  <2>8. DatagramSize(new) \in 1..Mtu
    BY <1>2, <2>1, <2>5, <2>6, <2>7, SizeAssumption
  <2>9. new \in D
    BY <2>6, <2>8 DEF Datagrams
  <2>10. PackSegment(out, seg) = Append(front, new)
    BY <1>2, <2>1, <2>2, <2>4 DEF PackSegment
  <2> HIDE DEF D
  <2>11. Append(front, new) \in Seq(D)
    BY <2>3, <2>9, AppendProperties
  <2> QED
    BY <2>10, <2>11 DEF D
<1>3. CASE ~(out # << >> /\ DatagramSize(Last(out)) + SegmentSize(seg) <= Mtu)
  <2>1. PackSegment(out, seg) = Append(out, <<seg>>)
    BY <1>3 DEF PackSegment
  <2> HIDE DEF D
  <2>2. Append(out, <<seg>>) \in Seq(D)
    BY <1>1, AppendProperties DEF D
  <2> QED
    BY <2>1, <2>2 DEF D
<1> QED
  BY <1>2, <1>3

\* What goes out goes out in datagrams.
LEMMA PackKeeps ==
  ASSUME NEW T, NEW s \in Seq(T)
  PROVE  Pack(s) \in Seq(Datagrams(T))
<1> DEFINE X == Seq(Datagrams(T))
           h == [p \in X \X T |-> PackSegment(p[1], p[2])]
<1>1. \A out \in X, seg \in T : PackSegment(out, seg) \in X
  BY PackSegmentKeeps
<1>2. << >> \in X /\ Len(s) \in Nat /\ \A i \in 1..Len(s) : s[i] \in T
  BY LenProperties
<1> HIDE DEF X
<1>3. h \in [X \X T -> X] /\ \A out \in X, seg \in T : h[<<out, seg>>] = PackSegment(out, seg)
  BY <1>1
<1> HIDE DEF h
<1>4. \E f \in [0..Len(s) -> X] : IsLoop(f, << >>, h, s, Len(s))
  BY <1>2, <1>3, LoopExists
<1>5. PICK f \in [0..Len(s) -> X] : IsLoop(f, << >>, h, s, Len(s))
  BY <1>4
<1>6. f[0] = << >> /\ \A i \in 1..Len(s) : f[i] = PackSegment(f[i - 1], s[i])
  <2>1. \A i \in 1..Len(s) : i - 1 \in 0..Len(s)
    BY <1>2
  <2> QED
    BY <1>2, <1>3, <1>5, <2>1 DEF IsLoop
<1>7. f = [i \in 0..Len(s) |-> IF i = 0 THEN << >> ELSE PackSegment(f[i - 1], s[i])]
  <2>1. \A i \in 0..Len(s) : i = 0 \/ i \in 1..Len(s)
    BY <1>2
  <2>2. \A i \in 0..Len(s) : f[i] = IF i = 0 THEN << >> ELSE PackSegment(f[i - 1], s[i])
    BY <1>6, <2>1
  <2> QED
    BY <1>5, <2>2
<1>8. PICK out : out = CHOOSE g : g = [i \in 0..Len(s) |->
                            IF i = 0 THEN << >> ELSE PackSegment(g[i - 1], s[i])]
  OBVIOUS
<1>9. out = [i \in 0..Len(s) |-> IF i = 0 THEN << >> ELSE PackSegment(out[i - 1], s[i])]
  BY <1>7, <1>8
<1> DEFINE N == {n \in Nat : n <= Len(s) => out[n] \in X}
<1>10. 0 \in N
  BY <1>2, <1>9
<1>11. ASSUME NEW n \in Nat, n \in N PROVE n + 1 \in N
  <2> SUFFICES ASSUME n + 1 <= Len(s) PROVE out[n + 1] \in X
    OBVIOUS
  <2>1. n + 1 \in 0..Len(s) /\ n + 1 \in 1..Len(s) /\ (n + 1) - 1 = n /\ n + 1 # 0 /\ n <= Len(s)
    BY <1>2
  <2>2. out[n + 1] = PackSegment(out[n], s[n + 1])
    BY <1>9, <2>1
  <2> QED
    BY <1>1, <1>2, <1>11, <2>1, <2>2
<1> HIDE DEF N
<1>12. Nat \subseteq N
  BY <1>10, <1>11, Induction
<1>13. out[Len(s)] \in X
  BY <1>2, <1>12 DEF N
<1>14. Pack(s) = out[Len(s)]
  BY <1>8 DEF Pack
<1> QED
  BY <1>13, <1>14 DEF X

-----------------------------------------------------------------------------
(* Sending *)

\* The header of what b sends, and the loop over snd_buf.
PushOf(b, sn) == [cmd |-> "push", wnd |-> WndUnused(b), una |-> b.rcv_nxt, sn |-> sn,
                  msg |-> b.snd_buf[sn].msg, frg |-> b.snd_buf[sn].frg]

\* The loop over snd_buf puts out segments of T if those it comes by are.
LEMMA PushesKeep ==
  ASSUME NEW T, NEW b, b.snd_nxt \in Nat, NEW sns,
         \A sn \in 0..(b.snd_nxt - 1) : sn \in sns => PushOf(b, sn) \in T
  PROVE  Pushes(b, sns) \in Seq(T)
<1> DEFINE X == Seq(T)
           K == 0..(b.snd_nxt - 1)
           Body(x, sn) == IF sn \in sns THEN Append(x, PushOf(b, sn)) ELSE x
           h == [p \in X \X K |-> Body(p[1], p[2])]
<1>1. PICK n : n = b.snd_nxt
  OBVIOUS
<1>2. n \in Nat
  BY <1>1
<1>3. PICK s : s = [i \in 1..n |-> i - 1]
  OBVIOUS
<1>4. s \in Seq(K) /\ Len(s) = n /\ \A i \in 1..n : s[i] = i - 1 /\ i - 1 \in K
  <2>1. \A i \in 1..n : i - 1 \in K
    BY <1>1, <1>2
  <2>2. s \in [1..n -> K]
    BY <1>3, <2>1
  <2> HIDE DEF K
  <2>3. s \in Seq(K) /\ Len(s) = n
    BY <1>2, <2>2
  <2> QED
    BY <1>3, <2>1, <2>3
<1>5. \A x \in X, sn \in K : Body(x, sn) \in X
  <2> SUFFICES ASSUME NEW x \in X, NEW sn \in K PROVE Body(x, sn) \in X
    OBVIOUS
  <2>1. CASE sn \in sns
    <3>1. PICK seg : seg = PushOf(b, sn)
      OBVIOUS
    <3>2. seg \in T
      BY <2>1, <3>1
    <3>3. Append(x, seg) \in X
      BY <3>2, AppendProperties
    <3> QED
      BY <2>1, <3>1, <3>3
  <2>2. CASE sn \notin sns
    BY <2>2
  <2> QED
    BY <2>1, <2>2
<1>6. << >> \in X
  OBVIOUS
<1> HIDE DEF X, K, Body
<1>7. h \in [X \X K -> X] /\ \A x \in X, sn \in K : h[<<x, sn>>] = Body(x, sn)
  BY <1>5
<1> HIDE DEF h
<1>8. \E f \in [0..Len(s) -> X] : IsLoop(f, << >>, h, s, Len(s))
  BY <1>4, <1>6, <1>7, LoopExists
<1>9. PICK f \in [0..n -> X] : IsLoop(f, << >>, h, s, n)
  BY <1>4, <1>8
<1>10. f[0] = << >> /\ \A i \in 1..n : f[i] = Body(f[i - 1], i - 1)
  <2>1. \A i \in 1..n : i - 1 \in 0..n
    BY <1>2
  <2> QED
    BY <1>4, <1>7, <1>9, <2>1, ZenonT(40) DEF IsLoop
<1>11. f = [i \in 0..n |-> IF i = 0 THEN << >> ELSE Body(f[i - 1], i - 1)]
  <2>1. \A i \in 0..n : i = 0 \/ i \in 1..n
    BY <1>2
  <2>2. \A i \in 0..n : f[i] = IF i = 0 THEN << >> ELSE Body(f[i - 1], i - 1)
    BY <1>10, <2>1
  <2> QED
    BY <1>9, <2>2
<1>12. PICK below : below = CHOOSE g : g = [sn \in 0..n |-> IF sn = 0 THEN << >>
                                                       ELSE Body(g[sn - 1], sn - 1)]
  OBVIOUS
<1>13. below = [sn \in 0..n |-> IF sn = 0 THEN << >> ELSE Body(below[sn - 1], sn - 1)]
  BY <1>11, <1>12
<1> DEFINE N == {k \in Nat : k <= n => below[k] \in X}
<1>14. 0 \in N
  BY <1>2, <1>6, <1>13
<1>15. ASSUME NEW k \in Nat, k \in N PROVE k + 1 \in N
  <2> SUFFICES ASSUME k + 1 <= n PROVE below[k + 1] \in X
    OBVIOUS
  <2>1. k + 1 \in 0..n /\ k + 1 \in 1..n /\ (k + 1) - 1 = k /\ k + 1 # 0 /\ k <= n
    BY <1>2
  <2>2. below[k + 1] = Body(below[k], k)
    BY <1>13, <2>1
  <2>3. k \in K
    BY <1>4, <2>1
  <2> QED
    BY <1>5, <1>15, <2>1, <2>2, <2>3
<1> HIDE DEF N
<1>16. Nat \subseteq N
  BY <1>14, <1>15, Induction
<1>17. below[n] \in X
  BY <1>2, <1>16 DEF N
<1>18. Pushes(b, sns) = below[n]
  BY <1>1, <1>12 DEF Pushes, Body, PushOf
<1> QED
  BY <1>17, <1>18 DEF X

\* The window that is offered is what rcv_queue leaves of it.
LEMMA WndUnusedTyped ==
  ASSUME NEW b \in Blocks
  PROVE  WndUnused(b) \in 0..RcvWnd
<1>1. Len(b.rcv_queue) \in Nat /\ RcvWnd \in Nat
  BY WindowAssumption, LenProperties DEF Blocks
<1>2. PICK x : x = RcvWnd - Len(b.rcv_queue)
  OBVIOUS
<1>3. x \in Int /\ x <= RcvWnd /\ 0 \in Int
  BY <1>1, <1>2
<1>4. Max({0, x}) = IF 0 >= x THEN 0 ELSE x
  BY <1>3, OfTwo
<1>5. WndUnused(b) = Max({0, x})
  BY <1>2 DEF WndUnused
<1> QED
  BY <1>1, <1>3, <1>4, <1>5

\* What goes out of an end is what the other end expects.
LEMMA OutgoingTyped ==
  ASSUME NEW b \in Blocks, NEW out \in Seq(Part), SendSide(b, out), AcksHeld(b),
         NEW probe, NEW sns, sns \subseteq DOMAIN b.snd_buf
  PROVE  Outgoing(b, probe, sns) \in Seq(Segs(Held(b), out, b.snd_nxt))
<1> DEFINE T == Segs(Held(b), out, b.snd_nxt)
<1>1. PICK wnd : wnd = WndUnused(b)
  OBVIOUS
<1>2. wnd \in 0..RcvWnd /\ b.rcv_nxt \in Nat /\ b.snd_nxt \in Nat /\ b.acklist \in Seq(Nat)
      /\ b.snd_buf \in Bufs(SentPart) /\ b.snd_una \in Nat
  BY <1>1, WndUnusedTyped DEF Blocks
<1>3. b.rcv_nxt \in Low(Held(b))
  <2>1. \A sn \in 0..(b.rcv_nxt - 1) : sn \in Nat /\ sn < b.rcv_nxt
    BY <1>2
  <2> QED
    BY <1>2, <2>1 DEF Low, Held
<1>4. PICK acks : acks = [i \in DOMAIN b.acklist |->
                            [cmd |-> "ack", wnd |-> wnd, una |-> b.rcv_nxt, sn |-> b.acklist[i]]]
  OBVIOUS
<1>5. acks \in Seq(T)
  <2>1. DOMAIN b.acklist = 1..Len(b.acklist) /\ Len(b.acklist) \in Nat
    BY <1>2, LenProperties
  <2>2. ASSUME NEW i \in 1..Len(b.acklist)
        PROVE  [cmd |-> "ack", wnd |-> wnd, una |-> b.rcv_nxt, sn |-> b.acklist[i]] \in T
    <3>1. b.acklist[i] \in Held(b)
      BY DEF AcksHeld
    <3> QED
      BY <1>2, <1>3, <3>1 DEF Segs, Acks
  <2> HIDE DEF T
  <2>3. acks \in [1..Len(b.acklist) -> T]
    BY <1>4, <2>1, <2>2
  <2> QED
    BY <2>1, <2>3
<1> DEFINE command(c) == [cmd |-> c, wnd |-> wnd, una |-> b.rcv_nxt]
<1>6. command("wask") \in T /\ command("wins") \in T
  BY <1>2, <1>3 DEF Segs, Commands
<1>7. PICK pushes : pushes = Pushes(b, sns)
  OBVIOUS
<1>8. pushes \in Seq(T)
  <2>1. ASSUME NEW sn \in 0..(b.snd_nxt - 1), sn \in sns PROVE PushOf(b, sn) \in T
    <3>1. /\ sn \in DOMAIN b.snd_buf
          /\ b.snd_buf[sn].msg = out[sn + 1].msg /\ b.snd_buf[sn].frg = out[sn + 1].frg
      BY <2>1 DEF SendSide
    <3>2. b.snd_buf[sn].msg \in Nat /\ b.snd_buf[sn].frg \in Nat
      <4>1. b.snd_buf[sn] \in SentPart
        BY <1>2, <3>1, BufsAre
      <4> QED
        BY <4>1 DEF SentPart
    <3>3. out[sn + 1] \in Part
      <4>1. Len(out) = b.snd_nxt + Len(b.snd_queue) /\ Len(b.snd_queue) \in Nat
        BY LenProperties DEF SendSide, Blocks
      <4>2. sn + 1 \in 1..Len(out)
        BY <1>2, <4>1
      <4> QED
        BY <4>2, LenProperties
    <3>4. [msg |-> b.snd_buf[sn].msg, frg |-> b.snd_buf[sn].frg] = out[sn + 1]
      BY <3>1, <3>3 DEF Part
    <3> QED
      BY <1>1, <1>2, <1>3, <3>2, <3>4 DEF Segs, Data, PushOf
  <2> HIDE DEF T
  <2> QED
    BY <1>2, <1>7, <2>1, PushesKeep
<1>9. PICK ask : ask = IF "ask" \in probe THEN <<command("wask")>> ELSE << >>
  OBVIOUS
<1>10. PICK tell : tell = IF "tell" \in probe THEN <<command("wins")>> ELSE << >>
  OBVIOUS
<1>11. ask \in Seq(T) /\ tell \in Seq(T)
  <2> HIDE DEF T, command
  <2> QED
    BY <1>6, <1>9, <1>10
<1>12. Outgoing(b, probe, sns) = ((acks \o ask) \o tell) \o pushes
  BY <1>1, <1>4, <1>7, <1>9, <1>10 DEF Outgoing
<1>13. ((acks \o ask) \o tell) \o pushes \in Seq(T)
  <2> HIDE DEF T
  <2>1. PICK x : x = acks \o ask
    OBVIOUS
  <2>2. x \in Seq(T)
    BY <1>5, <1>11, <2>1, ConcatProperties
  <2>3. PICK y : y = x \o tell
    OBVIOUS
  <2>4. y \in Seq(T)
    BY <1>11, <2>2, <2>3, ConcatProperties
  <2>5. y \o pushes \in Seq(T)
    BY <1>8, <2>4, ConcatProperties
  <2> QED
    BY <2>1, <2>3, <2>5
<1> QED
  BY <1>12, <1>13

\* The probe timer is not about the segments.
LEMMA ProbeKeeps ==
  ASSUME NEW b \in Blocks, NEW probeExpired, NEW c, c = Probe(b, probeExpired)
  PROVE  /\ c \in Blocks /\ Sending(c) = Sending(b) /\ Receiving(c) = Receiving(b)
         /\ c.acklist = b.acklist
<1>1. CASE b.rmt_wnd # 0
  <2>1. c = [b EXCEPT !.probing = FALSE]
    BY <1>1 DEF Probe
  <2> QED
    BY <2>1 DEF Blocks, Sending, Receiving
<1>2. CASE ~(b.rmt_wnd # 0)
  <2>1. PICK s : s = IF b.probing /\ probeExpired THEN b.probe \cup {"ask"} ELSE b.probe
    OBVIOUS
  <2>2. s \in SUBSET {"ask", "tell"}
    BY <2>1 DEF Blocks
  <2>3. c = [b EXCEPT !.probing = TRUE, !.probe = s]
    BY <1>2, <2>1 DEF Probe
  <2> QED
    BY <2>2, <2>3 DEF Blocks, Sending, Receiving
<1> QED
  BY <1>1, <1>2

\* The window of this end and what it knows of the peer's leave so much room.
LEMMA SendableIs ==
  ASSUME NEW b \in Blocks, NEW n, n = Sendable(b)
  PROVE  /\ n \in Nat /\ n <= Len(b.snd_queue)
         /\ n = 0 \/ b.snd_nxt + n - b.snd_una <= SndWnd
<1>1. /\ b.snd_nxt \in Nat /\ b.snd_una \in Nat /\ Len(b.snd_queue) \in Nat
      /\ b.rmt_wnd \in Nat /\ SndWnd \in Nat
  BY WindowAssumption, LenProperties DEF Blocks
<1>2. PICK w : w = Min({SndWnd, b.rmt_wnd})
  OBVIOUS
<1>3. w \in Nat /\ w <= SndWnd
  <2>1. SndWnd \in Int /\ b.rmt_wnd \in Int
    BY <1>1
  <2>2. w = IF SndWnd <= b.rmt_wnd THEN SndWnd ELSE b.rmt_wnd
    BY <1>2, <2>1, OfTwo
  <2> QED
    BY <1>1, <2>2
<1>4. PICK room, len : room = b.snd_una + w - b.snd_nxt /\ len = Len(b.snd_queue)
  OBVIOUS
<1>5. room \in Int /\ len \in Int /\ len \in Nat
  BY <1>1, <1>3, <1>4
<1>6. PICK m : m = Min({room, len})
  OBVIOUS
<1>7. m = IF room <= len THEN room ELSE len
  BY <1>5, <1>6, OfTwo
<1>8. m \in Int /\ 0 \in Int
  BY <1>5, <1>7
<1>9. n = Max({0, m})
  BY <1>2, <1>4, <1>6 DEF Sendable
<1>10. n = IF 0 >= m THEN 0 ELSE m
  BY <1>8, <1>9, OfTwo
<1>11. n \in Nat /\ n <= len
  BY <1>5, <1>7, <1>8, <1>10
<1>12. n = 0 \/ n <= room
  BY <1>5, <1>7, <1>8, <1>10
<1>13. n <= room => b.snd_nxt + n - b.snd_una <= SndWnd
  BY <1>1, <1>3, <1>4, <1>5, <1>11
<1> QED
  BY <1>4, <1>11, <1>12, <1>13

\* Segments that move to snd_buf get the numbers of their places in out.
LEMMA MoveToSendKeeps ==
  ASSUME NEW b \in Blocks, NEW out, SendSide(b, out), NEW held, Covered(b, held),
         NEW c, c = MoveToSend(b)
  PROVE  /\ c \in Blocks /\ SendSide(c, out) /\ Covered(c, held)
         /\ b.snd_nxt <= c.snd_nxt /\ c.snd_nxt <= Len(out)
         /\ Receiving(c) = Receiving(b) /\ c.acklist = b.acklist
         /\ c.snd_queue = << >> \/ b.snd_queue # << >>
<1>1. PICK n : n = Sendable(b)
  OBVIOUS
<1>2. /\ b.snd_nxt \in Nat /\ b.snd_una \in Nat /\ Len(b.snd_queue) \in Nat
      /\ b.snd_queue \in Seq(Part) /\ b.snd_buf \in Bufs(SentPart) /\ SndWnd \in Nat
  BY WindowAssumption, LenProperties DEF Blocks
<1>3. /\ n \in Nat /\ n <= Len(b.snd_queue)
      /\ n = 0 \/ b.snd_nxt + n - b.snd_una <= SndWnd
  BY <1>1, SendableIs
<1>4. PICK new : new = b.snd_nxt..(b.snd_nxt + n - 1)
  OBVIOUS
<1>5. PICK buf : buf = [sn \in DOMAIN b.snd_buf \cup new |->
                          IF sn \in new
                          THEN [msg |-> b.snd_queue[sn - b.snd_nxt + 1].msg,
                                frg |-> b.snd_queue[sn - b.snd_nxt + 1].frg,
                                xmit |-> 0, fastack |-> 0]
                          ELSE b.snd_buf[sn]]
  OBVIOUS
<1>6. DOMAIN buf = DOMAIN b.snd_buf \cup new /\ buf = [sn \in DOMAIN buf |-> buf[sn]]
  BY <1>5
<1>7. ASSUME NEW sn \in DOMAIN buf
      PROVE  /\ buf[sn] \in SentPart /\ sn \in Nat
             /\ buf[sn].msg = out[sn + 1].msg /\ buf[sn].frg = out[sn + 1].frg
  <2>1. CASE sn \in new
    <3>1. PICK i : i = sn - b.snd_nxt + 1
      OBVIOUS
    <3>2. /\ sn \in Nat /\ i \in 1..Len(b.snd_queue) /\ b.snd_nxt + i = sn + 1
      BY <1>2, <1>3, <1>4, <2>1, <3>1, SMTT(30)
    <3>3. b.snd_queue[i] = out[sn + 1]
      BY <3>2 DEF SendSide
    <3>4. b.snd_queue[i] \in Part
      BY <1>2, <3>2, LenProperties
    <3>5. buf[sn] = [msg |-> b.snd_queue[i].msg, frg |-> b.snd_queue[i].frg,
                     xmit |-> 0, fastack |-> 0]
      BY <1>5, <1>6, <2>1, <3>1
    <3> QED
      BY <3>2, <3>3, <3>4, <3>5 DEF Part, SentPart
  <2>2. CASE sn \notin new
    <3>1. sn \in DOMAIN b.snd_buf /\ buf[sn] = b.snd_buf[sn]
      BY <1>5, <1>6, <2>2
    <3>2. b.snd_buf[sn] \in SentPart /\ sn \in Nat
      BY <1>2, <3>1, BufsAre
    <3> QED
      BY <3>1, <3>2 DEF SendSide
  <2> QED
    BY <2>1, <2>2
<1>8. buf \in Bufs(SentPart)
  <2>1. DOMAIN buf \subseteq Nat /\ \A sn \in DOMAIN buf : buf[sn] \in SentPart
    BY <1>7
  <2> QED
    BY <1>6, <2>1, BufsAre
<1>9. PICK q : q = SubSeq(b.snd_queue, n + 1, Len(b.snd_queue))
  OBVIOUS
<1>10. /\ q \in Seq(Part) /\ Len(q) = Len(b.snd_queue) - n
       /\ \A i \in 1..Len(q) : q[i] = b.snd_queue[n + i]
  BY <1>2, <1>3, <1>9, Rest
<1>11. c = [b EXCEPT !.snd_buf = buf, !.snd_queue = q, !.snd_nxt = b.snd_nxt + n]
  BY <1>1, <1>4, <1>5, <1>9 DEF MoveToSend
<1>12. c \in Blocks
  <2>1. b.snd_nxt + n \in Nat
    BY <1>2, <1>3
  <2> QED
    BY <1>8, <1>10, <1>11, <2>1 DEF Blocks
<1>13. /\ c.snd_buf = buf /\ c.snd_queue = q /\ c.snd_nxt = b.snd_nxt + n
       /\ c.snd_una = b.snd_una /\ c.acklist = b.acklist /\ Receiving(c) = Receiving(b)
  BY <1>11 DEF Blocks, Receiving
<1>14. /\ b.snd_una <= b.snd_nxt /\ b.snd_nxt - b.snd_una <= SndWnd
       /\ DOMAIN b.snd_buf \subseteq b.snd_una..(b.snd_nxt - 1)
       /\ Len(out) = b.snd_nxt + Len(b.snd_queue)
       /\ \A i \in 1..Len(b.snd_queue) : b.snd_queue[i] = out[b.snd_nxt + i]
  BY DEF SendSide
<1>15. SendSide(c, out)
  <2>1. c.snd_una <= c.snd_nxt /\ c.snd_nxt - c.snd_una <= SndWnd
    <3>1. CASE n = 0
      BY <1>2, <1>13, <1>14, <3>1
    <3>2. CASE n # 0
      BY <1>2, <1>3, <1>13, <1>14, <3>2
    <3> QED
      BY <3>1, <3>2
  <2>2. DOMAIN c.snd_buf \subseteq c.snd_una..(c.snd_nxt - 1)
    BY <1>2, <1>3, <1>4, <1>6, <1>13, <1>14, SMTT(30)
  <2>3. Len(out) = c.snd_nxt + Len(c.snd_queue)
    BY <1>2, <1>3, <1>10, <1>13, <1>14
  <2>4. ASSUME NEW i \in 1..Len(c.snd_queue) PROVE c.snd_queue[i] = out[c.snd_nxt + i]
    <3>1. PICK j : j = n + i
      OBVIOUS
    <3>2. j \in 1..Len(b.snd_queue) /\ b.snd_nxt + j = (b.snd_nxt + n) + i
      BY <1>2, <1>3, <1>10, <1>13, <3>1
    <3>3. q[i] = b.snd_queue[j]
      BY <1>10, <1>13, <3>1
    <3>4. b.snd_queue[j] = out[b.snd_nxt + j]
      BY <1>14, <3>2
    <3> QED
      BY <1>13, <3>2, <3>3, <3>4
  <2> QED
    BY <1>7, <1>13, <2>1, <2>2, <2>3, <2>4 DEF SendSide
<1>16. Covered(c, held)
  <2> SUFFICES ASSUME NEW sn \in 0..(c.snd_nxt - 1), sn \notin DOMAIN buf
               PROVE  sn \in held
    BY <1>13 DEF Covered
  <2>1. sn \in 0..(b.snd_nxt - 1)
    BY <1>2, <1>3, <1>4, <1>6, <1>13
  <2> QED
    BY <1>6, <2>1 DEF Covered
<1>17. b.snd_nxt <= c.snd_nxt /\ c.snd_nxt <= Len(out)
  BY <1>2, <1>3, <1>13, <1>14
<1>18. b.snd_queue = << >> => c.snd_queue = << >>
  <2> SUFFICES ASSUME b.snd_queue = << >> PROVE Len(q) = 0
    BY <1>10, <1>13, EmptySeq
  <2> QED
    BY <1>2, <1>3, <1>10
<1> QED
  BY <1>12, <1>13, <1>15, <1>16, <1>17, <1>18

\* What is sent goes on as it was, and the acknowledgements are for what has arrived.
LEMMA FlushKeeps ==
  ASSUME NEW b \in Blocks, NEW out \in Seq(Part), NEW in, NEW nxt, NEW held,
         SendSide(b, out), ReceiveSide(b, in, nxt), AcksHeld(b), Covered(b, held),
         NEW expired, NEW probeExpired, NEW f, f = Flush(b, expired, probeExpired),
         NEW c, c = f.cb
  PROVE  /\ c \in Blocks /\ SendSide(c, out) /\ ReceiveSide(c, in, nxt) /\ AcksHeld(c)
         /\ Covered(c, held) /\ Held(c) = Held(b) /\ Taken(c) = Taken(b)
         /\ c.rcv_nxt = b.rcv_nxt /\ b.snd_nxt <= c.snd_nxt /\ c.acklist = << >>
         /\ f.out \in Seq(Datagrams(Segs(Held(b), out, c.snd_nxt)))
<1>1. PICK p : p = Probe(b, probeExpired)
  OBVIOUS
<1>2. /\ p \in Blocks /\ Sending(p) = Sending(b) /\ Receiving(p) = Receiving(b)
      /\ p.acklist = b.acklist
  BY <1>1, ProbeKeeps
<1>3. SendSide(p, out) /\ Covered(p, held) /\ p.snd_nxt = b.snd_nxt
  BY <1>2, OwnFields DEF Sending
<1>4. PICK m : m = MoveToSend(p)
  OBVIOUS
<1>5. /\ m \in Blocks /\ SendSide(m, out) /\ Covered(m, held)
      /\ p.snd_nxt <= m.snd_nxt
      /\ Receiving(m) = Receiving(p) /\ m.acklist = p.acklist
  BY <1>2, <1>3, <1>4, MoveToSendKeeps
<1>6. /\ Receiving(m) = Receiving(b) /\ m.rcv_nxt = b.rcv_nxt
      /\ Held(m) = Held(b) /\ ReceiveSide(m, in, nxt) /\ Taken(m) = Taken(b)
  BY <1>2, <1>5, OwnFields DEF Receiving
<1>7. AcksHeld(m)
  BY <1>2, <1>5, <1>6 DEF AcksHeld
<1>8. PICK sns : sns = NeedSend(m, expired)
  OBVIOUS
<1>9. sns \subseteq DOMAIN m.snd_buf
  BY <1>8 DEF NeedSend
<1>10. PICK s : s = Outgoing(m, p.probe, sns)
  OBVIOUS
<1>11. s \in Seq(Segs(Held(b), out, m.snd_nxt))
  BY <1>5, <1>6, <1>7, <1>9, <1>10, OutgoingTyped
<1>12. PICK buf : buf = [sn \in DOMAIN m.snd_buf |->
                           IF sn \in sns THEN Transmit(m.snd_buf[sn], sn \in expired)
                           ELSE m.snd_buf[sn]]
  OBVIOUS
<1>13. f = [cb |-> [m EXCEPT !.acklist = << >>, !.probe = {}, !.snd_buf = buf],
            out |-> Pack(s)]
  BY <1>1, <1>4, <1>8, <1>10, <1>12 DEF Flush
<1>14. c = [m EXCEPT !.acklist = << >>, !.probe = {}, !.snd_buf = buf]
  BY <1>13
<1>15. f.out = Pack(s)
  BY <1>13
<1>16. m.snd_buf \in Bufs(SentPart)
  BY <1>5 DEF Blocks
<1>17. ASSUME NEW sn \in DOMAIN m.snd_buf
       PROVE  /\ buf[sn] \in SentPart
              /\ buf[sn].msg = m.snd_buf[sn].msg /\ buf[sn].frg = m.snd_buf[sn].frg
  <2>1. PICK seg : seg = m.snd_buf[sn]
    OBVIOUS
  <2>2. seg \in SentPart
    BY <1>16, <2>1, BufsAre
  <2>3. CASE sn \in sns
    <3>1. PICK e : e = (sn \in expired)
      OBVIOUS
    <3>2. PICK x, y : x = Min({seg.xmit + 1, FastLimit + 1})
                      /\ y = IF seg.xmit > 0 /\ ~e THEN 0 ELSE seg.fastack
      OBVIOUS
    <3>3. x \in Nat /\ y \in Nat
      <4>1. PICK k, l : k = seg.xmit + 1 /\ l = FastLimit + 1
        OBVIOUS
      <4>2. k \in Nat /\ l \in Nat /\ k \in Int /\ l \in Int
        BY <2>2, <4>1, ResendAssumption DEF SentPart
      <4>3. Min({k, l}) \in {k, l}
        BY <4>2, OfTwo
      <4> QED
        BY <2>2, <3>2, <4>1, <4>2, <4>3 DEF SentPart
    <3>4. buf[sn] = [seg EXCEPT !.xmit = x, !.fastack = y]
      BY <1>12, <2>1, <2>3, <3>1, <3>2 DEF Transmit
    <3> QED
      BY <2>1, <2>2, <3>3, <3>4 DEF SentPart
  <2>4. CASE sn \notin sns
    BY <1>12, <2>1, <2>2, <2>4
  <2> QED
    BY <2>3, <2>4
<1>18. DOMAIN buf = DOMAIN m.snd_buf /\ buf = [sn \in DOMAIN buf |-> buf[sn]]
  BY <1>12
<1>19. buf \in Bufs(SentPart)
  BY <1>16, <1>17, <1>18, BufsAre
<1>20. c \in Blocks
  <2>1. << >> \in Seq(Nat) /\ {} \in SUBSET {"ask", "tell"}
    OBVIOUS
  <2> QED
    BY <1>5, <1>14, <1>19, <2>1 DEF Blocks
<1>21. /\ c.snd_buf = buf /\ c.snd_una = m.snd_una /\ c.snd_nxt = m.snd_nxt
       /\ c.snd_queue = m.snd_queue /\ c.acklist = << >> /\ Receiving(c) = Receiving(m)
  BY <1>5, <1>14 DEF Blocks, Receiving
<1>22. SendSide(c, out) /\ Covered(c, held)
  BY <1>5, <1>17, <1>18, <1>21 DEF SendSide, Covered
<1>23. /\ ReceiveSide(c, in, nxt) /\ Held(c) = Held(b) /\ Taken(c) = Taken(b)
       /\ c.rcv_nxt = b.rcv_nxt
  BY <1>6, <1>21, OwnFields DEF Receiving
<1>24. AcksHeld(c)
  BY <1>21 DEF AcksHeld
<1>25. f.out \in Seq(Datagrams(Segs(Held(b), out, c.snd_nxt)))
  BY <1>11, <1>15, <1>21, PackKeeps
<1> QED
  BY <1>3, <1>5, <1>20, <1>21, <1>22, <1>23, <1>24, <1>25

-----------------------------------------------------------------------------
(* Messages *)

\* Messages that ikcp_send() accepts.
Accepted(msgs) ==
  /\ msgs \in Seq(Seq(Part))
  /\ \A m \in 1..Len(msgs) : /\ Len(msgs[m]) \in 1..(RcvWnd - 1)
                             /\ msgs[m] = Fragments(m, Len(msgs[m]))

\* The part that message m begins with.
Begin(msgs, m) == [msg |-> m, frg |-> Len(msgs[m]) - 1]

\* st is the parts of msgs, one message after the other.
IsStream(st, msgs) ==
  /\ st \in Seq(Part) /\ Len(msgs) <= Len(st)
  /\ st # << >> => msgs # << >> /\ st[1] = Begin(msgs, 1)
  /\ \A i \in 1..Len(st) : st[i].msg \in 1..Len(msgs)
  /\ \A i \in 1..Len(st) : st[i].frg # 0 =>
       i < Len(st) /\ st[i + 1] = [msg |-> st[i].msg, frg |-> st[i].frg - 1]
  /\ \A i \in 1..Len(st) : st[i].frg = 0 =>
       \/ i = Len(st) /\ st[i].msg = Len(msgs)
       \/ i < Len(st) /\ st[i + 1] = Begin(msgs, st[i].msg + 1)

\* The first t parts are the messages of dl.
IsDelivered(st, msgs, dl, t) ==
  /\ dl \in Seq(Seq(Part)) /\ Len(dl) <= Len(msgs)
  /\ \A m \in 1..Len(dl) : dl[m] = msgs[m]
  /\ t \in Nat /\ t <= Len(st)
  /\ t = 0 => Len(dl) = 0
  /\ t # 0 => st[t].frg = 0 /\ st[t].msg = Len(dl)

\* A message as ikcp_send() cuts it.
LEMMA FragmentsAre ==
  ASSUME NEW msg \in Nat, NEW count \in Nat, NEW f, f = Fragments(msg, count)
  PROVE  /\ f \in Seq(Part) /\ Len(f) = count
         /\ \A i \in 1..count : f[i] = [msg |-> msg, frg |-> count - i]
<1>1. f = [i \in 1..count |-> [msg |-> msg, frg |-> count - i]]
  BY DEF Fragments
<1>2. \A i \in 1..count : [msg |-> msg, frg |-> count - i] \in Part
  BY DEF Part
<1>3. f \in [1..count -> Part]
  BY <1>1, <1>2
<1>4. f \in Seq(Part) /\ Len(f) = count
  BY <1>3
<1> QED
  BY <1>1, <1>4

\* new is st with so many parts after it.
Longer(new, st, count) ==
  Len(new) = Len(st) + count /\ \A i \in 1..Len(st) : new[i] = st[i]

\* One more message, after the others.
LEMMA StreamGrows ==
  ASSUME NEW st, NEW msgs, Accepted(msgs), IsStream(st, msgs),
         NEW count \in Nat, 1 <= count, Acceptable(count),
         NEW k, k = Len(msgs) + 1, NEW f, f = Fragments(k, count)
  PROVE  \A new, all : new = st \o f /\ all = Append(msgs, f) =>
           Accepted(all) /\ IsStream(new, all) /\ Longer(new, st, count)
<1> SUFFICES ASSUME NEW new, NEW all, new = st \o f, all = Append(msgs, f)
             PROVE  Accepted(all) /\ IsStream(new, all) /\ Longer(new, st, count)
  OBVIOUS
<1>1. /\ st \in Seq(Part) /\ Len(st) \in Nat /\ Len(msgs) \in Nat /\ count \in Nat /\ 1 <= count
      /\ msgs \in Seq(Seq(Part)) /\ RcvWnd \in Nat /\ count \in 1..(RcvWnd - 1)
  <2>1. st \in Seq(Part) /\ msgs \in Seq(Seq(Part))
    BY DEF IsStream, Accepted
  <2>2. count \in 1..(RcvWnd - 1) /\ RcvWnd \in Nat
    BY WindowAssumption DEF Acceptable
  <2> QED
    BY <2>1, <2>2, LenProperties
<1>2. /\ f \in Seq(Part) /\ Len(f) = count
      /\ \A i \in 1..count : f[i] = [msg |-> Len(msgs) + 1, frg |-> count - i]
  <2>1. Len(msgs) + 1 \in Nat
    BY <1>1
  <2> QED
    BY <1>1, <2>1, FragmentsAre
<1>3. /\ new \in Seq(Part) /\ Len(new) = Len(st) + count
      /\ \A i \in 1..Len(new) : new[i] = IF i <= Len(st) THEN st[i] ELSE f[i - Len(st)]
  <2>1. /\ new \in Seq(Part) /\ Len(new) = Len(st) + Len(f)
        /\ \A i \in 1..(Len(st) + Len(f)) :
             new[i] = IF i <= Len(st) THEN st[i] ELSE f[i - Len(st)]
    BY <1>1, <1>2, ConcatProperties
  <2> QED
    BY <1>2, <2>1
<1>4. \A i \in 1..Len(st) : i \in 1..Len(new) /\ new[i] = st[i]
  BY <1>1, <1>3
<1>5. /\ all \in Seq(Seq(Part)) /\ Len(all) = Len(msgs) + 1
      /\ \A m \in 1..Len(msgs) : all[m] = msgs[m]
      /\ all[Len(msgs) + 1] = f
  BY <1>1, <1>2, AppendProperties
<1>6. Accepted(all)
  <2>1. ASSUME NEW m \in 1..Len(all)
        PROVE  Len(all[m]) \in 1..(RcvWnd - 1) /\ all[m] = Fragments(m, Len(all[m]))
    <3>1. CASE m = Len(msgs) + 1
      <4>1. all[m] = f /\ f = Fragments(m, count)
        BY <1>5, <3>1
      <4>2. Len(f) = count /\ count \in 1..(RcvWnd - 1)
        BY <1>1, <1>2
      <4>3. PICK a : a = all[m]
        OBVIOUS
      <4>4. a = f
        BY <4>1, <4>3
      <4>5. a = Fragments(m, Len(a)) /\ Len(a) \in 1..(RcvWnd - 1)
        BY <4>1, <4>2, <4>4
      <4> QED
        BY <4>3, <4>5
    <3>2. CASE m # Len(msgs) + 1
      <4>1. m \in 1..Len(msgs)
        BY <1>1, <1>5, <3>2
      <4>2. all[m] = msgs[m]
        BY <1>5, <4>1
      <4>3. Len(msgs[m]) \in 1..(RcvWnd - 1) /\ msgs[m] = Fragments(m, Len(msgs[m]))
        BY <4>1 DEF Accepted
      <4> QED
        BY <4>2, <4>3
    <3> QED
      BY <3>1, <3>2
  <2> QED
    BY <1>5, <2>1 DEF Accepted
<1>7. \A m \in 1..Len(msgs) : Begin(all, m) = Begin(msgs, m)
  BY <1>5 DEF Begin
<1>8. Begin(all, Len(msgs) + 1) = [msg |-> Len(msgs) + 1, frg |-> count - 1]
  BY <1>2, <1>5 DEF Begin
<1>9. new[Len(st) + 1] = Begin(all, Len(msgs) + 1)
  <2>1. /\ Len(st) + 1 \in 1..Len(new) /\ ~(Len(st) + 1 <= Len(st)) /\ (Len(st) + 1) - Len(st) = 1
        /\ 1 \in 1..count
    BY <1>1, <1>3
  <2> QED
    BY <1>2, <1>3, <1>8, <2>1
<1>10. all # << >> /\ new[1] = Begin(all, 1)
  <2>0. all # << >>
    <3>1. Len(all) # 0
      BY <1>1, <1>5
    <3> QED
      BY <3>1
  <2>1. CASE st = << >>
    <3>1. Len(st) = 0 /\ Len(msgs) = 0
      BY <1>1, <2>1 DEF IsStream
    <3>2. Len(st) + 1 = 1 /\ Len(msgs) + 1 = 1
      BY <3>1
    <3>3. new[1] = Begin(all, 1)
      BY <1>9, <3>2
    <3> QED
      BY <2>0, <3>3
  <2>2. CASE st # << >>
    <3>1. st[1] = Begin(msgs, 1) /\ msgs # << >>
      BY <2>2 DEF IsStream
    <3>2. 1 \in 1..Len(st) /\ 1 \in 1..Len(msgs)
      BY <1>1, <2>2, <3>1, EmptySeq
    <3> QED
      BY <1>1, <1>4, <1>7, <2>0, <3>1, <3>2
  <2> QED
    BY <2>1, <2>2
<1>11. ASSUME NEW i \in 1..Len(new)
       PROVE  /\ new[i].msg \in 1..Len(all)
              /\ new[i].frg # 0 => /\ i < Len(new)
                                   /\ new[i + 1] = [msg |-> new[i].msg, frg |-> new[i].frg - 1]
              /\ new[i].frg = 0 =>
                   \/ i = Len(new) /\ new[i].msg = Len(all)
                   \/ i < Len(new) /\ new[i + 1] = Begin(all, new[i].msg + 1)
  <2>1. CASE i <= Len(st)
    <3>1. i \in 1..Len(st) /\ new[i] = st[i] /\ i < Len(new)
      BY <1>1, <1>3, <2>1
    <3>2. st[i].msg \in 1..Len(msgs)
      BY <3>1 DEF IsStream
    <3>3. ASSUME st[i].frg # 0
          PROVE  new[i + 1] = [msg |-> st[i].msg, frg |-> st[i].frg - 1]
      <4>1. i < Len(st) /\ st[i + 1] = [msg |-> st[i].msg, frg |-> st[i].frg - 1]
        BY <3>1, <3>3 DEF IsStream
      <4>2. i + 1 \in 1..Len(st)
        BY <1>1, <4>1
      <4> QED
        BY <1>4, <4>1, <4>2
    <3>4. ASSUME st[i].frg = 0
          PROVE  new[i + 1] = Begin(all, st[i].msg + 1)
      <4>1. CASE i = Len(st) /\ st[i].msg = Len(msgs)
        BY <1>9, <4>1
      <4>2. CASE i < Len(st) /\ st[i + 1] = Begin(msgs, st[i].msg + 1)
        <5>1. i + 1 \in 1..Len(st)
          BY <1>1, <4>2
        <5>2. st[i + 1].msg \in 1..Len(msgs)
          BY <5>1 DEF IsStream
        <5>3. st[i].msg + 1 \in 1..Len(msgs)
          BY <4>2, <5>2 DEF Begin
        <5> QED
          BY <1>4, <1>7, <4>2, <5>1, <5>3
      <4> QED
        BY <3>1, <3>4, <4>1, <4>2 DEF IsStream
    <3> QED
      BY <1>1, <1>5, <3>1, <3>2, <3>3, <3>4
  <2>2. CASE ~(i <= Len(st))
    <3>1. PICK j : j = i - Len(st)
      OBVIOUS
    <3>2. j \in 1..count /\ new[i] = f[j] /\ i = Len(st) + j /\ i \in Nat
      BY <1>1, <1>3, <2>2, <3>1
    <3>3. new[i] = [msg |-> Len(msgs) + 1, frg |-> count - j]
      BY <1>2, <3>2
    <3>4. CASE j = count
      <4>1. new[i].frg = 0 /\ i = Len(new) /\ new[i].msg = Len(all)
        BY <1>1, <1>3, <1>5, <3>2, <3>3, <3>4
      <4> QED
        BY <1>1, <1>5, <4>1
    <3>5. CASE j # count
      <4>1. /\ count - j # 0 /\ i < Len(new) /\ i + 1 \in 1..Len(new) /\ ~(i + 1 <= Len(st))
            /\ (i + 1) - Len(st) = j + 1 /\ j + 1 \in 1..count /\ count - (j + 1) = (count - j) - 1
        BY <1>1, <1>3, <3>2, <3>5
      <4>2. new[i + 1] = f[j + 1]
        BY <1>3, <4>1
      <4>3. new[i + 1] = [msg |-> Len(msgs) + 1, frg |-> (count - j) - 1]
        BY <1>2, <4>1, <4>2
      <4> QED
        BY <1>1, <1>5, <3>3, <4>1, <4>3, SMTT(30)
    <3> QED
      BY <3>4, <3>5
  <2> QED
    BY <2>1, <2>2
<1>12. Len(all) <= Len(new)
  BY <1>1, <1>3, <1>5 DEF IsStream
<1>13. IsStream(new, all)
  BY <1>3, <1>10, <1>11, <1>12 DEF IsStream
<1> QED
  BY <1>3, <1>4, <1>6, <1>13 DEF Longer

\* When ikcp_peeksize() finds a message, rcv_queue begins with the next one, whole.
LEMMA FirstMessageIs ==
  ASSUME NEW st, NEW msgs, NEW dl, NEW b \in Blocks, NEW nxt \in Nat,
         Accepted(msgs), IsStream(st, msgs), IsDelivered(st, msgs, dl, Taken(b)),
         ReceiveSide(b, st, nxt), nxt <= Len(st), Receivable(b)
  PROVE  /\ Len(dl) + 1 \in 1..Len(msgs)
         /\ FirstMessage(b) = msgs[Len(dl) + 1]
         /\ Len(FirstMessage(b)) \in 1..Len(b.rcv_queue)
         /\ IsDelivered(st, msgs, Append(dl, FirstMessage(b)), Taken(b) + Len(FirstMessage(b)))
<1>1. PICK q, t, m : q = b.rcv_queue /\ t = Taken(b) /\ m = Len(dl) + 1
  OBVIOUS
<1>2. PICK k : k = q[1].frg + 1
  OBVIOUS
<1>3. /\ q \in Seq(Part) /\ Len(q) \in Nat /\ b.rcv_nxt \in Nat /\ t \in Nat
      /\ dl \in Seq(Seq(Part)) /\ Len(dl) \in Nat /\ Len(msgs) \in Nat /\ Len(st) \in Nat
      /\ RcvWnd \in Nat
  <2>1. q \in Seq(Part) /\ b.rcv_nxt \in Nat
    BY <1>1 DEF Blocks
  <2>2. t \in Nat /\ dl \in Seq(Seq(Part)) /\ msgs \in Seq(Seq(Part)) /\ st \in Seq(Part)
    BY <1>1 DEF IsDelivered, Accepted, IsStream
  <2> QED
    BY <2>1, <2>2, WindowAssumption, LenProperties
<1>4. q # << >> /\ k <= Len(q)
  BY <1>1, <1>2 DEF Receivable, Head
<1>5. 1 \in 1..Len(q) /\ 1 <= Len(q)
  BY <1>3, <1>4, EmptySeq
<1>6. /\ t + Len(q) <= Len(st) /\ \A i \in 1..Len(q) : q[i] = st[t + i] /\ q[i] \in Part
  <2>1. t + Len(q) = b.rcv_nxt
    BY <1>1, <1>3 DEF Taken
  <2>2. b.rcv_nxt <= nxt
    BY DEF ReceiveSide
  <2>3. \A i \in 1..Len(q) : q[i] = st[t + i]
    BY <1>1 DEF ReceiveSide
  <2>4. \A i \in 1..Len(q) : q[i] \in Part
    BY <1>3, LenProperties
  <2>5. t + Len(q) <= Len(st)
    BY <1>3, <2>1, <2>2
  <2> QED
    BY <2>3, <2>4, <2>5
<1>7. t + 1 \in 1..Len(st) /\ k \in Nat \ {0}
  <2>1. q[1].frg \in Nat
    BY <1>5, <1>6 DEF Part
  <2>2. k \in Nat \ {0}
    BY <1>2, <2>1
  <2>3. t + Len(q) <= Len(st)
    BY <1>6
  <2>4. t + 1 \in 1..Len(st)
    BY <1>3, <1>5, <2>3
  <2> QED
    BY <2>2, <2>4
<1>8. st[t + 1] = Begin(msgs, m)
  <2>1. CASE t = 0
    <3>1. Len(dl) = 0
      BY <1>1, <2>1 DEF IsDelivered
    <3>2. m = 1 /\ t + 1 = 1
      BY <1>1, <2>1, <3>1
    <3>3. st # << >>
      BY <1>3, <1>7
    <3>4. st[1] = Begin(msgs, 1)
      BY <3>3 DEF IsStream
    <3> QED
      BY <3>2, <3>4
  <2>2. CASE t # 0
    <3>1. st[t].frg = 0 /\ st[t].msg = Len(dl)
      BY <1>1, <2>2 DEF IsDelivered
    <3>2. t \in 1..Len(st) /\ t # Len(st)
      BY <1>3, <1>7, <2>2
    <3>3. st[t + 1] = Begin(msgs, st[t].msg + 1)
      BY <3>1, <3>2 DEF IsStream
    <3> QED
      BY <1>1, <3>1, <3>3
  <2> QED
    BY <2>1, <2>2
<1>9. m \in 1..Len(msgs) /\ Len(msgs[m]) = k
  <2>1. m \in 1..Len(msgs)
    <3>1. st[t + 1].msg \in 1..Len(msgs)
      BY <1>7 DEF IsStream
    <3> QED
      BY <1>8, <3>1 DEF Begin
  <2>2. Len(msgs[m]) \in 1..(RcvWnd - 1)
    BY <2>1 DEF Accepted
  <2>3. q[1] = Begin(msgs, m)
    BY <1>5, <1>6, <1>8
  <2>4. k = (Len(msgs[m]) - 1) + 1
    BY <1>2, <2>3 DEF Begin
  <2> QED
    BY <1>3, <2>1, <2>2, <2>4
<1> DEFINE N == {n \in Nat : n + 1 <= k => st[t + (n + 1)] = [msg |-> m, frg |-> k - (n + 1)]}
<1>10. 0 \in N
  BY <1>8, <1>9 DEF Begin
<1>11. ASSUME NEW n \in Nat, n \in N PROVE n + 1 \in N
  <2> SUFFICES ASSUME (n + 1) + 1 <= k
               PROVE  st[t + ((n + 1) + 1)] = [msg |-> m, frg |-> k - ((n + 1) + 1)]
    OBVIOUS
  <2>1. PICK i : i = t + (n + 1)
    OBVIOUS
  <2>2. /\ i \in 1..Len(st) /\ n + 1 <= k /\ i + 1 = t + ((n + 1) + 1)
        /\ k - (n + 1) # 0 /\ (k - (n + 1)) - 1 = k - ((n + 1) + 1)
    BY <1>3, <1>4, <1>6, <1>7, <2>1
  <2>3. st[i] = [msg |-> m, frg |-> k - (n + 1)]
    BY <1>11, <2>1, <2>2
  <2>4. st[i + 1] = [msg |-> st[i].msg, frg |-> st[i].frg - 1]
    <3>1. st[i].frg # 0
      BY <2>2, <2>3
    <3> QED
      BY <2>2, <3>1 DEF IsStream
  <2> QED
    BY <2>2, <2>3, <2>4
<1> HIDE DEF N
<1>12. Nat \subseteq N
  BY <1>10, <1>11, Induction
<1>13. \A i \in 1..k : st[t + i] = [msg |-> m, frg |-> k - i]
  <2> SUFFICES ASSUME NEW i \in 1..k PROVE st[t + i] = [msg |-> m, frg |-> k - i]
    OBVIOUS
  <2>1. i - 1 \in Nat /\ (i - 1) + 1 = i /\ i <= k
    BY <1>7
  <2>2. i - 1 \in N
    BY <1>12, <2>1
  <2> QED
    BY <2>1, <2>2 DEF N
<1>14. \A i \in 1..k : /\ i \in 1..Len(q) /\ q[i] = [msg |-> m, frg |-> k - i]
                       /\ q[i].frg = k - i
  <2>1. \A i \in 1..k : i \in 1..Len(q)
    BY <1>3, <1>4, <1>7
  <2>2. \A i \in 1..k : q[i] = [msg |-> m, frg |-> k - i]
    BY <1>6, <1>13, <2>1
  <2>3. ASSUME NEW i \in 1..k PROVE q[i].frg = k - i
    <3>1. PICK x : x = k - i
      OBVIOUS
    <3>2. q[i] = [msg |-> m, frg |-> x]
      BY <2>2, <3>1
    <3> QED
      BY <3>1, <3>2
  <2> QED
    BY <2>1, <2>2, <2>3
<1> DEFINE S == {i \in DOMAIN q : q[i].frg = 0}
<1>15. S \subseteq Nat /\ k \in S /\ \A i \in S : k <= i
  <2>1. DOMAIN q = 1..Len(q)
    BY <1>3, LenProperties
  <2>2. k \in 1..k /\ k - k = 0
    BY <1>7
  <2>3. ASSUME NEW i \in S PROVE k <= i
    <3>1. i \in 1..Len(q) /\ q[i].frg = 0
      BY <2>1
    <3>2. CASE i \in 1..k
      <4>1. q[i].frg = k - i
        BY <1>14, <3>2
      <4> QED
        BY <1>7, <3>1, <3>2, <4>1
    <3>3. CASE i \notin 1..k
      BY <1>7, <3>1, <3>3
    <3> QED
      BY <3>2, <3>3
  <2>4. k \in S
    <3>1. k \in 1..Len(q) /\ q[k].frg = k - k
      BY <1>14, <2>2
    <3> QED
      BY <2>1, <2>2, <3>1
  <2>5. S \subseteq Nat
    BY <2>1
  <2> QED
    BY <2>3, <2>4, <2>5
<1> HIDE DEF S
<1>16. Min(S) = k
  <2>1. Min(S) \in S /\ \A i \in S : Min(S) <= i
    BY <1>15, MinIs
  <2>2. PICK x : x = Min(S)
    OBVIOUS
  <2>3. x \in Nat /\ x <= k /\ k <= x
    BY <1>15, <2>1, <2>2
  <2> QED
    BY <1>7, <2>2, <2>3
<1>17. PICK f : f = SubSeq(q, 1, k)
  OBVIOUS
<1>18. FirstMessage(b) = f
  BY <1>1, <1>16, <1>17 DEF FirstMessage, S
<1>19. f \in Seq(Part) /\ Len(f) = k /\ \A i \in 1..k : f[i] = q[i]
  <2>1. \A i \in 1..k : q[i] \in Part
    BY <1>6, <1>14
  <2>2. 1 \in Int /\ k \in Int /\ 1 <= k /\ k - 1 + 1 = k /\ \A i \in 1..k : 1 + i - 1 = i
    BY <1>7
  <2>3. /\ f \in Seq(Part) /\ Len(f) = IF 1 <= k THEN k - 1 + 1 ELSE 0
        /\ \A i \in 1..(k - 1 + 1) : f[i] = q[1 + i - 1]
    BY <1>17, <2>1, <2>2, SubSeqProperties
  <2> QED
    BY <2>2, <2>3
<1>20. f = msgs[m]
  <2>1. PICK g : g = msgs[m]
    OBVIOUS
  <2>2. g = Fragments(m, k)
    BY <1>9, <2>1 DEF Accepted
  <2>3. m \in Nat /\ k \in Nat
    BY <1>7, <1>9
  <2>4. g \in Seq(Part) /\ Len(g) = k /\ \A i \in 1..k : g[i] = [msg |-> m, frg |-> k - i]
    BY <2>2, <2>3, FragmentsAre
  <2>5. \A i \in 1..k : f[i] = g[i]
    BY <1>14, <1>19, <2>4
  <2> QED
    BY <1>19, <2>1, <2>4, <2>5, SeqEqual
<1>21. IsDelivered(st, msgs, Append(dl, f), t + k)
  <2>1. PICK e : e = Append(dl, f)
    OBVIOUS
  <2>2. /\ e \in Seq(Seq(Part)) /\ Len(e) = m
        /\ \A i \in 1..Len(dl) : e[i] = dl[i]
        /\ e[m] = f
    BY <1>1, <1>3, <1>19, <2>1, AppendProperties
  <2>3. ASSUME NEW i \in 1..Len(e) PROVE e[i] = msgs[i]
    <3>1. CASE i = m
      BY <1>20, <2>2, <3>1
    <3>2. CASE i # m
      <4>1. i \in 1..Len(dl)
        BY <1>1, <1>3, <2>2, <3>2
      <4>2. dl[i] = msgs[i]
        BY <4>1 DEF IsDelivered
      <4> QED
        BY <2>2, <4>1, <4>2
    <3> QED
      BY <3>1, <3>2
  <2>4. t + k \in Nat /\ t + k <= Len(st) /\ t + k # 0 /\ Len(e) <= Len(msgs)
    BY <1>3, <1>4, <1>6, <1>7, <1>9, <2>2
  <2>5. st[t + k].frg = 0 /\ st[t + k].msg = Len(e)
    <3>1. k \in 1..k /\ k - k = 0
      BY <1>7
    <3>2. st[t + k] = [msg |-> m, frg |-> k - k]
      BY <1>13, <3>1
    <3> QED
      BY <2>2, <3>1, <3>2
  <2> QED
    BY <2>1, <2>2, <2>3, <2>4, <2>5 DEF IsDelivered
<1>22. k \in 1..Len(q)
  BY <1>3, <1>4, <1>7
<1> QED
  BY <1>1, <1>9, <1>18, <1>19, <1>20, <1>21, <1>22

\* The application takes a message, and makes room for what waits in rcv_buf.
LEMMA RecvKeeps ==
  ASSUME NEW b \in Blocks, NEW in, NEW nxt \in Nat, ReceiveSide(b, in, nxt),
         NEW k, k = Len(FirstMessage(b)), k \in 1..Len(b.rcv_queue),
         NEW c, c = Recv(b)
  PROVE  /\ c \in Blocks /\ ReceiveSide(c, in, nxt)
         /\ Held(c) = Held(b) /\ Taken(c) = Taken(b) + k
         /\ Sending(c) = Sending(b) /\ c.acklist = b.acklist
<1>1. /\ b.rcv_queue \in Seq(Part) /\ Len(b.rcv_queue) \in Nat /\ b.rcv_nxt \in Nat
      /\ k \in Nat /\ k <= Len(b.rcv_queue) /\ RcvWnd \in Nat
  BY WindowAssumption, LenProperties DEF Blocks
<1>2. PICK q : q = SubSeq(b.rcv_queue, k + 1, Len(b.rcv_queue))
  OBVIOUS
<1>3. /\ q \in Seq(Part) /\ Len(q) = Len(b.rcv_queue) - k
      /\ \A i \in 1..Len(q) : q[i] = b.rcv_queue[k + i]
  BY <1>1, <1>2, Rest
<1>4. PICK d : d = [b EXCEPT !.rcv_queue = q]
  OBVIOUS
<1>5. d \in Blocks
  BY <1>3, <1>4 DEF Blocks
<1>6. /\ d.rcv_queue = q /\ d.rcv_nxt = b.rcv_nxt /\ d.rcv_buf = b.rcv_buf
      /\ d.acklist = b.acklist /\ Sending(d) = Sending(b)
  BY <1>4 DEF Blocks, Sending
<1>7. Held(d) = Held(b) /\ Taken(d) = Taken(b) + k
  <2>1. Held(d) = Held(b)
    BY <1>6 DEF Held
  <2>2. b.rcv_nxt - (Len(b.rcv_queue) - k) = (b.rcv_nxt - Len(b.rcv_queue)) + k
    BY <1>1
  <2> QED
    BY <1>3, <1>6, <2>1, <2>2 DEF Taken
<1>8. ReceiveSide(d, in, nxt)
  <2>1. /\ Len(b.rcv_queue) <= RcvWnd /\ Len(b.rcv_queue) <= b.rcv_nxt /\ b.rcv_nxt <= nxt
        /\ DOMAIN b.rcv_buf \subseteq b.rcv_nxt..(b.rcv_nxt + RcvWnd - 1)
        /\ \A sn \in DOMAIN b.rcv_buf : sn < nxt /\ b.rcv_buf[sn] = in[sn + 1]
        /\ \A i \in 1..Len(b.rcv_queue) : b.rcv_queue[i] = in[Taken(b) + i]
    BY DEF ReceiveSide
  <2>2. Len(d.rcv_queue) <= RcvWnd /\ Len(d.rcv_queue) <= d.rcv_nxt
    BY <1>1, <1>3, <1>6, <2>1
  <2>3. ASSUME NEW i \in 1..Len(q) PROVE q[i] = in[Taken(d) + i]
    <3>1. PICK j : j = k + i
      OBVIOUS
    <3>2. j \in 1..Len(b.rcv_queue)
      BY <1>1, <1>3, <3>1
    <3>3. (Taken(b) + k) + i = Taken(b) + j
      BY <1>1, <3>1, SMTT(30) DEF Taken
    <3> QED
      BY <1>3, <1>7, <2>1, <3>1, <3>2, <3>3
  <2> QED
    BY <1>6, <2>1, <2>2, <2>3 DEF ReceiveSide
<1>9. PICK m : m = MoveAvailable(d)
  OBVIOUS
<1>10. /\ m \in Blocks /\ ReceiveSide(m, in, nxt)
       /\ Held(m) = Held(b) /\ Taken(m) = Taken(b) + k
       /\ Sending(m) = Sending(b) /\ m.acklist = b.acklist
  BY <1>5, <1>6, <1>7, <1>8, <1>9, MoveAvailableKeeps
<1>11. c = m \/ c = [m EXCEPT !.probe = m.probe \cup {"tell"}]
  BY <1>2, <1>4, <1>9 DEF Recv
<1>12. CASE c = m
  BY <1>10, <1>12
<1>13. CASE c = [m EXCEPT !.probe = m.probe \cup {"tell"}]
  <2>1. c \in Blocks
    BY <1>10, <1>13 DEF Blocks
  <2>2. Sending(c) = Sending(m) /\ Receiving(c) = Receiving(m) /\ c.acklist = m.acklist
    BY <1>10, <1>13 DEF Blocks, Sending, Receiving
  <2>3. ReceiveSide(c, in, nxt) /\ Held(c) = Held(m) /\ Taken(c) = Taken(m)
    BY <1>10, <2>2, OwnFields
  <2> QED
    BY <1>10, <2>1, <2>2, <2>3
<1> QED
  BY <1>11, <1>12, <1>13

\* ikcp_send() adds to what waits for a number.
LEMMA SendKeeps ==
  ASSUME NEW b \in Blocks, NEW out \in Seq(Part), SendSide(b, out),
         NEW msg \in Nat, NEW count \in Nat, Acceptable(count)
  PROVE  \A c, new : c = Send(b, msg, count) /\ new = out \o Fragments(msg, count) =>
           /\ c \in Blocks /\ SendSide(c, new) /\ c.snd_nxt = b.snd_nxt
           /\ Receiving(c) = Receiving(b) /\ c.acklist = b.acklist
           /\ \A held : Covered(b, held) => Covered(c, held)
<1> SUFFICES ASSUME NEW c, NEW new,
                    c = Send(b, msg, count), new = out \o Fragments(msg, count)
             PROVE  /\ c \in Blocks /\ SendSide(c, new) /\ c.snd_nxt = b.snd_nxt
                    /\ Receiving(c) = Receiving(b) /\ c.acklist = b.acklist
                    /\ \A held : Covered(b, held) => Covered(c, held)
  OBVIOUS
<1>1. PICK f, q : f = Fragments(msg, count) /\ q = b.snd_queue \o f
  OBVIOUS
<1>2. /\ f \in Seq(Part) /\ Len(f) = count /\ b.snd_queue \in Seq(Part)
      /\ Len(b.snd_queue) \in Nat /\ Len(out) \in Nat /\ b.snd_nxt \in Nat /\ b.snd_una \in Nat
  BY <1>1, FragmentsAre, LenProperties DEF Blocks
<1>3. /\ q \in Seq(Part) /\ Len(q) = Len(b.snd_queue) + count
      /\ \A i \in 1..(Len(b.snd_queue) + count) :
           q[i] = IF i <= Len(b.snd_queue) THEN b.snd_queue[i] ELSE f[i - Len(b.snd_queue)]
  <2>1. PICK s : s = b.snd_queue
    OBVIOUS
  <2>2. s \in Seq(Part) /\ q = s \o f
    BY <1>1, <1>2, <2>1
  <2>3. /\ q \in Seq(Part) /\ Len(q) = Len(s) + Len(f)
        /\ \A i \in 1..(Len(s) + Len(f)) : q[i] = IF i <= Len(s) THEN s[i] ELSE f[i - Len(s)]
    BY <1>2, <2>2, ConcatProperties
  <2> QED
    BY <1>2, <2>1, <2>3
<1>4. /\ new \in Seq(Part) /\ Len(new) = Len(out) + count
      /\ \A i \in 1..(Len(out) + count) :
           new[i] = IF i <= Len(out) THEN out[i] ELSE f[i - Len(out)]
  BY <1>1, <1>2, ConcatProperties
<1>5. c = [b EXCEPT !.snd_queue = q]
  BY <1>1 DEF Send
<1>6. c \in Blocks
  BY <1>3, <1>5 DEF Blocks
<1>7. /\ c.snd_queue = q /\ c.snd_nxt = b.snd_nxt /\ c.snd_una = b.snd_una
      /\ c.snd_buf = b.snd_buf /\ c.acklist = b.acklist /\ Receiving(c) = Receiving(b)
  BY <1>5 DEF Blocks, Receiving
<1>8. /\ b.snd_una <= b.snd_nxt /\ b.snd_nxt - b.snd_una <= SndWnd
      /\ DOMAIN b.snd_buf \subseteq b.snd_una..(b.snd_nxt - 1)
      /\ \A sn \in DOMAIN b.snd_buf :
           b.snd_buf[sn].msg = out[sn + 1].msg /\ b.snd_buf[sn].frg = out[sn + 1].frg
      /\ Len(out) = b.snd_nxt + Len(b.snd_queue)
      /\ \A i \in 1..Len(b.snd_queue) : b.snd_queue[i] = out[b.snd_nxt + i]
  BY DEF SendSide
<1>9. \A sn \in DOMAIN b.snd_buf : new[sn + 1] = out[sn + 1]
  <2> SUFFICES ASSUME NEW sn \in DOMAIN b.snd_buf PROVE new[sn + 1] = out[sn + 1]
    OBVIOUS
  <2>1. sn \in b.snd_una..(b.snd_nxt - 1)
    BY <1>8
  <2>2. Len(out) = b.snd_nxt + Len(b.snd_queue)
    BY <1>8
  <2>3. sn + 1 \in 1..(Len(out) + count) /\ sn + 1 <= Len(out)
    BY <1>2, <2>1, <2>2, SMTT(30)
  <2> QED
    BY <1>4, <2>3
<1>10. ASSUME NEW i \in 1..Len(q) PROVE q[i] = new[b.snd_nxt + i]
  <2>1. Len(out) = b.snd_nxt + Len(b.snd_queue)
    BY <1>8
  <2>2. PICK j : j = b.snd_nxt + i
    OBVIOUS
  <2>3. i \in 1..(Len(b.snd_queue) + count) /\ j \in 1..(Len(out) + count)
    BY <1>2, <1>3, <2>1, <2>2, SMTT(30)
  <2>4. CASE i <= Len(b.snd_queue)
    <3>1. i \in 1..Len(b.snd_queue) /\ j <= Len(out)
      BY <1>2, <2>1, <2>2, <2>3, <2>4, SMTT(30)
    <3>2. b.snd_queue[i] = out[j]
      BY <1>8, <2>2, <3>1
    <3> QED
      BY <1>3, <1>4, <2>2, <2>3, <2>4, <3>1, <3>2
  <2>5. CASE ~(i <= Len(b.snd_queue))
    <3>1. ~(j <= Len(out)) /\ j - Len(out) = i - Len(b.snd_queue)
      <4>1. PICK x, y : x = Len(out) /\ y = Len(b.snd_queue)
        OBVIOUS
      <4>2. /\ x \in Nat /\ y \in Nat /\ i \in Nat /\ ~(i <= y) /\ x = b.snd_nxt + y
            /\ b.snd_nxt \in Nat
        BY <1>2, <2>1, <2>3, <2>5, <4>1
      <4>3. ~(j <= x) /\ j - x = i - y
        BY <2>2, <4>2
      <4> QED
        BY <4>1, <4>3
    <3> QED
      BY <1>3, <1>4, <2>2, <2>3, <2>5, <3>1
  <2> QED
    BY <2>4, <2>5
<1>11. SendSide(c, new)
  <2>1. Len(new) = c.snd_nxt + Len(c.snd_queue)
    <3>1. PICK x, y : x = Len(out) /\ y = Len(b.snd_queue)
      OBVIOUS
    <3>2. x = b.snd_nxt + y /\ x \in Nat /\ y \in Nat
      BY <1>2, <1>8, <3>1
    <3>3. x + count = b.snd_nxt + (y + count)
      BY <1>2, <3>2
    <3> QED
      BY <1>3, <1>4, <1>7, <3>1, <3>3
  <2>2. \A sn \in DOMAIN c.snd_buf : /\ c.snd_buf[sn].msg = new[sn + 1].msg
                                     /\ c.snd_buf[sn].frg = new[sn + 1].frg
    BY <1>7, <1>8, <1>9
  <2>3. \A i \in 1..Len(c.snd_queue) : c.snd_queue[i] = new[c.snd_nxt + i]
    BY <1>7, <1>10
  <2> QED
    BY <1>7, <1>8, <2>1, <2>2, <2>3 DEF SendSide
<1>12. \A held : Covered(b, held) => Covered(c, held)
  BY <1>7 DEF Covered
<1> QED
  BY <1>6, <1>7, <1>11, <1>12

-----------------------------------------------------------------------------
(* Two ends and the network *)

\* An end b that sends out and receives in, the other end p, and the datagrams n that
\* are on their way from there.
Linked(b, p, n, out, in) ==
  /\ b \in Blocks /\ SendSide(b, out) /\ ReceiveSide(b, in, p.snd_nxt)
  /\ AcksHeld(b) /\ Len(b.acklist) < MaxAcks + Mtu
  /\ Covered(b, Held(p))
  /\ n \in Seq(Datagrams(Segs(Held(p), in, p.snd_nxt)))

\* Sequences of more.
LEMMA SeqGrows ==
  ASSUME NEW S, NEW T, S \subseteq T, NEW s \in Seq(S)
  PROVE  s \in Seq(T)
<1>1. s \in [1..Len(s) -> S] /\ Len(s) \in Nat
  BY LenProperties
<1>2. s \in [1..Len(s) -> T]
  BY <1>1
<1> QED
  BY <1>1, <1>2

\* The more an end has received and numbered, the more may come from it.
LEMMA SegsGrow ==
  ASSUME NEW held, NEW more, held \subseteq more,
         NEW nxt \in Nat, NEW next \in Nat, nxt <= next,
         NEW in, NEW new, \A i \in 1..nxt : new[i] = in[i]
  PROVE  Datagrams(Segs(held, in, nxt)) \subseteq Datagrams(Segs(more, new, next))
<1>1. Low(held) \subseteq Low(more)
  BY DEF Low
<1>2. Acks(held) \subseteq Acks(more) /\ Commands(held) \subseteq Commands(more)
  BY <1>1 DEF Acks, Commands
<1>3. Data(held, in, nxt) \subseteq Data(more, new, next)
  <2> SUFFICES ASSUME NEW seg \in Data(held, in, nxt) PROVE seg \in Data(more, new, next)
    OBVIOUS
  <2>1. /\ seg \in [cmd : {"push"}, wnd : 0..RcvWnd, una : Low(held), sn : 0..(nxt - 1),
                    msg : Nat, frg : Nat]
        /\ [msg |-> seg.msg, frg |-> seg.frg] = in[seg.sn + 1]
    BY DEF Data
  <2>2. 0..(nxt - 1) \subseteq 0..(next - 1)
    OBVIOUS
  <2>3. seg.sn + 1 \in 1..nxt
    BY <2>1
  <2>4. seg \in [cmd : {"push"}, wnd : 0..RcvWnd, una : Low(more), sn : 0..(next - 1),
                 msg : Nat, frg : Nat]
    BY <1>1, <2>1, <2>2
  <2>5. [msg |-> seg.msg, frg |-> seg.frg] = new[seg.sn + 1]
    BY <2>1, <2>3
  <2> QED
    BY <2>4, <2>5 DEF Data
<1>4. Segs(held, in, nxt) \subseteq Segs(more, new, next)
  BY <1>2, <1>3 DEF Segs
<1>5. \A S, T : S \subseteq T => Seq(S) \subseteq Seq(T)
  BY SeqGrows
<1> QED
  BY <1>4, <1>5 DEF Datagrams

\* What the other end receives and numbers does not come between.
LEMMA PeerMoves ==
  ASSUME NEW b, NEW p \in Blocks, NEW n, NEW out, NEW in, Linked(b, p, n, out, in),
         NEW q \in Blocks, Held(p) \subseteq Held(q), p.snd_nxt <= q.snd_nxt,
         NEW new, \A i \in 1..p.snd_nxt : new[i] = in[i]
  PROVE  Linked(b, q, n, out, new)
<1>1. /\ b \in Blocks /\ SendSide(b, out) /\ ReceiveSide(b, in, p.snd_nxt)
      /\ AcksHeld(b) /\ Len(b.acklist) < MaxAcks + Mtu
      /\ Covered(b, Held(p))
      /\ n \in Seq(Datagrams(Segs(Held(p), in, p.snd_nxt)))
  BY DEF Linked
<1>2. /\ p.snd_nxt \in Nat /\ q.snd_nxt \in Nat /\ b.rcv_nxt \in Nat
      /\ b.rcv_queue \in Seq(Part) /\ Len(b.rcv_queue) \in Nat /\ b.rcv_buf \in Bufs(Part)
  BY <1>1, LenProperties DEF Blocks
<1>3. n \in Seq(Datagrams(Segs(Held(q), new, q.snd_nxt)))
  <2>1. PICK S, T : S = Datagrams(Segs(Held(p), in, p.snd_nxt))
                    /\ T = Datagrams(Segs(Held(q), new, q.snd_nxt))
    OBVIOUS
  <2>2. S \subseteq T
    BY <1>2, <2>1, SegsGrow
  <2>3. n \in Seq(S)
    BY <1>1, <2>1
  <2>4. n \in Seq(T)
    BY <2>2, <2>3, SeqGrows
  <2> QED
    BY <2>1, <2>4
<1>4. Covered(b, Held(q))
  BY <1>1 DEF Covered
<1>5. ReceiveSide(b, new, q.snd_nxt)
  <2>1. /\ Len(b.rcv_queue) <= RcvWnd /\ Len(b.rcv_queue) <= b.rcv_nxt
        /\ b.rcv_nxt <= p.snd_nxt
        /\ DOMAIN b.rcv_buf \subseteq b.rcv_nxt..(b.rcv_nxt + RcvWnd - 1)
        /\ \A sn \in DOMAIN b.rcv_buf : sn < p.snd_nxt /\ b.rcv_buf[sn] = in[sn + 1]
        /\ \A i \in 1..Len(b.rcv_queue) : b.rcv_queue[i] = in[Taken(b) + i]
    BY <1>1 DEF ReceiveSide
  <2>2. b.rcv_nxt <= q.snd_nxt
    BY <1>2, <2>1
  <2>3. ASSUME NEW sn \in DOMAIN b.rcv_buf
        PROVE  sn < q.snd_nxt /\ b.rcv_buf[sn] = new[sn + 1]
    <3>1. sn \in Nat /\ sn < p.snd_nxt /\ b.rcv_buf[sn] = in[sn + 1]
      BY <1>2, <2>1, BufsAre
    <3>2. sn + 1 \in 1..p.snd_nxt /\ sn < q.snd_nxt
      BY <1>2, <3>1
    <3> QED
      BY <3>1, <3>2
  <2>4. ASSUME NEW i \in 1..Len(b.rcv_queue) PROVE b.rcv_queue[i] = new[Taken(b) + i]
    <3>1. PICK j : j = Taken(b) + i
      OBVIOUS
    <3>2. b.rcv_queue[i] = in[j]
      BY <2>1, <3>1
    <3>3. j \in 1..p.snd_nxt
      <4>1. PICK x : x = Len(b.rcv_queue)
        OBVIOUS
      <4>2. x \in Nat /\ i \in 1..x /\ x <= b.rcv_nxt /\ j = (b.rcv_nxt - x) + i
        BY <1>2, <2>1, <3>1, <4>1 DEF Taken
      <4>3. b.rcv_nxt <= p.snd_nxt
        BY <2>1
      <4> QED
        BY <1>2, <4>2, <4>3
    <3> QED
      BY <3>1, <3>2, <3>3
  <2> QED
    BY <2>1, <2>2, <2>3, <2>4 DEF ReceiveSide
<1> QED
  BY <1>1, <1>3, <1>4, <1>5 DEF Linked

\* ikcp_input() of the first datagram that is on its way.
LEMMA InputLinks ==
  ASSUME NEW b, NEW p \in Blocks, NEW n, NEW out, NEW in, Linked(b, p, n, out, in),
         n # << >>, Len(b.acklist) < MaxAcks,
         NEW c, c = Input(b, Head(n))
  PROVE  /\ Linked(c, p, Tail(n), out, in)
         /\ Held(b) \subseteq Held(c) /\ Taken(c) = Taken(b) /\ c.snd_nxt = b.snd_nxt
<1> DEFINE T == Segs(Held(p), in, p.snd_nxt)
           D == Datagrams(T)
<1>1. /\ b \in Blocks /\ SendSide(b, out) /\ ReceiveSide(b, in, p.snd_nxt)
      /\ AcksHeld(b) /\ Covered(b, Held(p)) /\ n \in Seq(D)
      /\ p.snd_nxt \in Nat
  BY DEF Linked, Blocks
<1>2. PICK d : d = Head(n)
  OBVIOUS
<1>3. d \in D /\ Tail(n) \in Seq(D)
  <2> HIDE DEF D
  <2> QED
    BY <1>1, <1>2, HeadTailProperties
<1>4. d \in Seq(T) /\ DatagramSize(d) \in 1..Mtu
  BY <1>3 DEF Datagrams
<1> HIDE DEF T
<1>5. /\ c \in Kept(b, out, in, p.snd_nxt, Held(p))
      /\ Len(c.acklist) <= Len(b.acklist) + Len(d)
  BY <1>1, <1>2, <1>4, InputKeeps DEF T
<1>6. /\ c \in Blocks /\ SendSide(c, out) /\ ReceiveSide(c, in, p.snd_nxt) /\ AcksHeld(c)
      /\ Covered(c, Held(p)) /\ Held(b) \subseteq Held(c)
      /\ Taken(c) = Taken(b) /\ c.snd_nxt = b.snd_nxt
  BY <1>5 DEF Kept
<1>7. Len(c.acklist) < MaxAcks + Mtu
  <2>1. PICK size : /\ DatagramSize(d) = size[Len(d)]
                    /\ \A i \in 0..Len(d) : size[i] \in Nat /\ i <= size[i]
    BY <1>4, DatagramSizeIs
  <2>2. Len(d) \in Nat /\ Len(b.acklist) \in Nat /\ Len(c.acklist) \in Nat
    BY <1>1, <1>4, <1>6, LenProperties DEF Blocks
  <2>3. Len(d) <= DatagramSize(d)
    BY <2>1, <2>2
  <2>4. PICK x, y, z : x = Len(b.acklist) /\ y = Len(c.acklist) /\ z = Len(d)
    OBVIOUS
  <2>5. z <= Mtu
    BY <1>4, <2>2, <2>3, <2>4, SizeAssumption
  <2>6. y <= x + z /\ x < MaxAcks
    BY <1>5, <2>4
  <2>7. x \in Nat /\ y \in Nat /\ z \in Nat /\ Mtu \in Nat /\ MaxAcks \in Nat
    BY <2>2, <2>4, SizeAssumption, BoundsAssumption
  <2>8. y < MaxAcks + Mtu
    BY <2>5, <2>6, <2>7
  <2> QED
    BY <2>4, <2>8
<1>8. Linked(c, p, Tail(n), out, in)
  BY <1>3, <1>6, <1>7 DEF Linked, T
<1> QED
  BY <1>6, <1>8

\* The two ends when b has become f.cb and f.out is on its way to p.
Flushed(b, p, n, m, out, in, f) ==
  /\ Linked(f.cb, p, n, out, in) /\ Linked(p, f.cb, m \o f.out, in, out)
  /\ Taken(f.cb) = Taken(b)

\* ikcp_flush() and the datagrams it puts on their way.
LEMMA FlushLinks ==
  ASSUME NEW b, NEW p \in Blocks, NEW n, NEW out \in Seq(Part), NEW in,
         Linked(b, p, n, out, in),
         NEW m, Linked(p, b, m, in, out),
         NEW expired, NEW probeExpired
  PROVE  Flushed(b, p, n, m, out, in, Flush(b, expired, probeExpired))
<1> SUFFICES ASSUME NEW f, NEW c, f = Flush(b, expired, probeExpired), c = f.cb
             PROVE  /\ Linked(c, p, n, out, in) /\ Linked(p, c, m \o f.out, in, out)
                    /\ Taken(c) = Taken(b)
  BY DEF Flushed
<1>1. /\ b \in Blocks /\ SendSide(b, out) /\ ReceiveSide(b, in, p.snd_nxt)
      /\ AcksHeld(b) /\ Covered(b, Held(p))
      /\ n \in Seq(Datagrams(Segs(Held(p), in, p.snd_nxt)))
  BY DEF Linked
<1>2. /\ c \in Blocks /\ SendSide(c, out) /\ ReceiveSide(c, in, p.snd_nxt) /\ AcksHeld(c)
      /\ Covered(c, Held(p)) /\ Held(c) = Held(b) /\ Taken(c) = Taken(b)
      /\ b.snd_nxt <= c.snd_nxt /\ c.acklist = << >>
      /\ f.out \in Seq(Datagrams(Segs(Held(b), out, c.snd_nxt)))
  BY <1>1, FlushKeeps
<1>3. Len(c.acklist) < MaxAcks + Mtu
  <2>1. Len(c.acklist) = 0
    BY <1>2
  <2> QED
    BY <2>1, SizeAssumption, BoundsAssumption
<1>4. Linked(c, p, n, out, in)
  BY <1>1, <1>2, <1>3 DEF Linked
<1>5. Linked(p, c, m, in, out)
  <2>1. \A i \in 1..b.snd_nxt : out[i] = out[i]
    OBVIOUS
  <2> QED
    BY <1>1, <1>2, <2>1, PeerMoves
<1>6. Linked(p, c, m \o f.out, in, out)
  <2>1. PICK D : D = Datagrams(Segs(Held(c), out, c.snd_nxt))
    OBVIOUS
  <2>2. m \in Seq(D) /\ f.out \in Seq(D)
    BY <1>2, <1>5, <2>1 DEF Linked
  <2>3. m \o f.out \in Seq(D)
    BY <2>2, ConcatProperties
  <2> QED
    BY <1>5, <2>1, <2>3 DEF Linked
<1> QED
  BY <1>2, <1>4, <1>6

\* What the network has lost, doubled or delayed is still a sequence of what it had.
LEMMA Removed ==
  ASSUME NEW S, NEW s \in Seq(S), NEW i \in 1..Len(s)
  PROVE  RemoveAt(s, i) \in Seq(S) /\ s[i] \in S
<1>1. Len(s) \in Nat /\ \A j \in 1..Len(s) : s[j] \in S
  BY LenProperties
<1>2. PICK a, b : a = SubSeq(s, 1, i - 1) /\ b = SubSeq(s, i + 1, Len(s))
  OBVIOUS
<1>3. a \in Seq(S)
  <2>1. \A j \in 1..(i - 1) : j \in 1..Len(s)
    BY <1>1
  <2>2. \A j \in 1..(i - 1) : s[j] \in S
    BY <1>1, <2>1
  <2>3. 1 \in Int /\ i - 1 \in Int
    BY <1>1
  <2> QED
    BY <1>2, <2>2, <2>3, SubSeqProperties
<1>4. b \in Seq(S)
  <2>1. i \in Nat /\ i <= Len(s)
    BY <1>1
  <2> QED
    BY <1>2, <2>1, Rest
<1>5. RemoveAt(s, i) = a \o b
  BY <1>2 DEF RemoveAt
<1>6. a \o b \in Seq(S)
  BY <1>3, <1>4, ConcatProperties
<1> QED
  BY <1>1, <1>5, <1>6

-----------------------------------------------------------------------------
(* The inductive invariant *)

\* What an end sends out in all: only one sends messages.
Outs(st, e) == IF e = "sender" THEN st ELSE << >>

\* The messages, the parts they were cut into, and those that were taken.
Flow(st) ==
  /\ Accepted(sent) /\ IsStream(st, sent) /\ Len(st) <= MaxSegments
  /\ IsDelivered(st, sent, delivered, Taken(cb["receiver"]))

\* Each end and what is on its way to it agree with the other end.
Both(c, n, st) ==
  \A e \in Ends : Linked(c[e], c[Peer(e)], n[e], Outs(st, e), Outs(st, Peer(e)))

Shape == cb \in [Ends -> Blocks] /\ net = [e \in Ends |-> net[e]]

IInv == Shape /\ \E st : Flow(st) /\ Both(cb, net, st)

\* Two ends.
LEMMA TwoEnds ==
  /\ Ends = {"sender", "receiver"}
  /\ Peer("sender") = "receiver" /\ Peer("receiver") = "sender"
  /\ \A e \in Ends : Peer(e) \in Ends /\ Peer(Peer(e)) = e /\ Peer(e) # e
  /\ \A e, d \in Ends : d = e \/ d = Peer(e)
BY DEF Ends, Peer

\* ikcp_create() at both ends, and nothing on its way.
LEMMA InitIInv == Init => IInv
<1> SUFFICES ASSUME Init PROVE IInv
  OBVIOUS
<1>1. Create \in Blocks
  <2>1. /\ << >> \in Seq(Part) /\ << >> \in Seq(Nat) /\ {} \in SUBSET {"ask", "tell"}
        /\ RcvWnd \in 0..RcvWnd
    BY WindowAssumption
  <2>2. \A S : << >> \in Bufs(S)
    <3> SUFFICES ASSUME NEW S PROVE << >> \in Bufs(S)
      OBVIOUS
    <3>1. << >> = [x \in {} |-> x] /\ DOMAIN << >> = {}
      OBVIOUS
    <3> QED
      BY <3>1, BufsAre
  <2> QED
    BY <2>1, <2>2 DEF Create, Blocks
<1>2. /\ Create.snd_una = 0 /\ Create.snd_nxt = 0 /\ Create.rcv_nxt = 0
      /\ Create.snd_queue = << >> /\ Create.snd_buf = << >>
      /\ Create.rcv_buf = << >> /\ Create.rcv_queue = << >> /\ Create.acklist = << >>
  BY DEF Create
<1>3. Len(<< >>) = 0 /\ DOMAIN << >> = {}
  OBVIOUS
<1>4. PICK b : b = Create
  OBVIOUS
<1>5. SendSide(b, << >>)
  BY <1>2, <1>3, <1>4, WindowAssumption DEF SendSide
<1>6. ReceiveSide(b, << >>, 0)
  BY <1>2, <1>3, <1>4, WindowAssumption DEF ReceiveSide
<1>7. AcksHeld(b) /\ Len(b.acklist) < MaxAcks + Mtu
  BY <1>2, <1>3, <1>4, SizeAssumption, BoundsAssumption DEF AcksHeld
<1>8. Covered(b, Held(b))
  BY <1>2, <1>4 DEF Covered
<1>9. Linked(b, b, << >>, << >>, << >>)
  <2>1. b \in Blocks /\ b.snd_nxt = 0
    BY <1>1, <1>2, <1>4
  <2>2. << >> \in Seq(Datagrams(Segs(Held(b), << >>, 0)))
    OBVIOUS
  <2> QED
    BY <1>5, <1>6, <1>7, <1>8, <2>1, <2>2 DEF Linked
<1>10. /\ \A e \in Ends : cb[e] = b /\ net[e] = << >>
       /\ cb \in [Ends -> Blocks] /\ net = [e \in Ends |-> net[e]]
       /\ sent = << >> /\ delivered = << >>
  BY <1>1, <1>4 DEF Init
<1>11. Both(cb, net, << >>)
  <2> SUFFICES ASSUME NEW e \in Ends
               PROVE  Linked(cb[e], cb[Peer(e)], net[e], Outs(<< >>, e), Outs(<< >>, Peer(e)))
    BY DEF Both
  <2>1. \A d : Outs(<< >>, d) = << >>
    BY DEF Outs
  <2> QED
    BY <1>9, <1>10, <2>1, TwoEnds
<1>12. Flow(<< >>)
  <2>1. Accepted(<< >>)
    BY DEF Accepted
  <2>2. IsStream(<< >>, << >>)
    BY DEF IsStream
  <2>3. Taken(b) = 0
    BY <1>2, <1>3, <1>4 DEF Taken
  <2>4. IsDelivered(<< >>, << >>, << >>, 0)
    BY DEF IsDelivered
  <2>5. cb["receiver"] = b
    BY <1>10, TwoEnds
  <2>6. Len(<< >>) <= MaxSegments
    BY BoundsAssumption
  <2> QED
    BY <1>10, <2>1, <2>2, <2>3, <2>4, <2>5, <2>6 DEF Flow
<1> QED
  BY <1>10, <1>11, <1>12 DEF IInv, Shape

\* Both ends, when one of them has become x.
LEMMA OneEnd ==
  ASSUME NEW c \in [Ends -> Blocks], NEW n, NEW st, NEW e \in Ends, NEW x \in Blocks,
         Linked(x, c[Peer(e)], n[e], Outs(st, e), Outs(st, Peer(e))),
         Linked(c[Peer(e)], x, n[Peer(e)], Outs(st, Peer(e)), Outs(st, e)),
         NEW new, new = [c EXCEPT ![e] = x]
  PROVE  Both(new, n, st) /\ new \in [Ends -> Blocks]
<1>1. new[e] = x /\ new[Peer(e)] = c[Peer(e)] /\ new \in [Ends -> Blocks]
  BY TwoEnds
<1>2. ASSUME NEW d \in Ends
      PROVE  Linked(new[d], new[Peer(d)], n[d], Outs(st, d), Outs(st, Peer(d)))
  <2>1. CASE d = e
    BY <1>1, <2>1
  <2>2. CASE d = Peer(e)
    <3>1. Peer(d) = e
      BY <2>2, TwoEnds
    <3> QED
      BY <1>1, <2>2, <3>1
  <2> QED
    BY <2>1, <2>2, TwoEnds
<1> QED
  BY <1>1, <1>2 DEF Both

\* Messages that come later change nothing of what was delivered.
LEMMA DeliveredStays ==
  ASSUME NEW st, NEW msgs, NEW dl, NEW t, IsDelivered(st, msgs, dl, t),
         st \in Seq(Part), msgs \in Seq(Seq(Part)),
         NEW new, Len(new) \in Nat, Len(st) <= Len(new), \A i \in 1..Len(st) : new[i] = st[i],
         NEW f \in Seq(Part), NEW all, all = Append(msgs, f)
  PROVE  IsDelivered(new, all, dl, t)
<1>1. /\ dl \in Seq(Seq(Part)) /\ Len(dl) <= Len(msgs)
      /\ \A m \in 1..Len(dl) : dl[m] = msgs[m]
      /\ t \in Nat /\ t <= Len(st)
      /\ t = 0 => Len(dl) = 0
      /\ t # 0 => st[t].frg = 0 /\ st[t].msg = Len(dl)
  BY DEF IsDelivered
<1>2. Len(dl) \in Nat /\ Len(msgs) \in Nat /\ Len(st) \in Nat
  BY <1>1, LenProperties
<1>3. Len(all) = Len(msgs) + 1 /\ \A m \in 1..Len(msgs) : all[m] = msgs[m]
  BY AppendProperties
<1>4. \A m \in 1..Len(dl) : dl[m] = all[m]
  <2>1. \A m \in 1..Len(dl) : m \in 1..Len(msgs)
    BY <1>1, <1>2
  <2> QED
    BY <1>1, <1>3, <2>1
<1>5. Len(dl) <= Len(all) /\ t <= Len(new)
  BY <1>1, <1>2, <1>3
<1>6. t # 0 => new[t] = st[t]
  BY <1>1, <1>2
<1> QED
  BY <1>1, <1>4, <1>5, <1>6 DEF IsDelivered

\* A message is accepted, or refused.
LEMMA SendMessageKeeps ==
  ASSUME IInv, NEW count \in Lengths, SendMessage(count)
  PROVE  IInv'
<1>1. PICK st : Flow(st) /\ Both(cb, net, st)
  BY DEF IInv
<1>2. PICK s, r, m : s = cb["sender"] /\ r = cb["receiver"] /\ m = Len(sent) + 1
  OBVIOUS
<1>3. cb \in [Ends -> Blocks] /\ s \in Blocks /\ r \in Blocks /\ count \in Nat /\ 1 <= count
  BY <1>2, TwoEnds, BoundsAssumption DEF IInv, Shape
<1>4. Linked(s, r, net["sender"], st, << >>) /\ Linked(r, s, net["receiver"], << >>, st)
  BY <1>1, <1>2, TwoEnds DEF Both, Outs
<1>5. /\ Accepted(sent) /\ IsStream(st, sent) /\ Len(st) <= MaxSegments
      /\ IsDelivered(st, sent, delivered, Taken(r))
  BY <1>1, <1>2 DEF Flow
<1>6. /\ s.snd_nxt + Len(s.snd_queue) + count <= MaxSegments
      /\ cb' = [cb EXCEPT !["sender"] = Send(s, m, count)]
      /\ sent' = IF Acceptable(count) THEN Append(sent, Fragments(m, count)) ELSE sent
      /\ net' = net /\ delivered' = delivered
  BY <1>2 DEF SendMessage, Segments
<1>7. CASE ~Acceptable(count)
  <2>1. Send(s, m, count) = s
    BY <1>7 DEF Send
  <2>2. cb' = cb
    BY <1>2, <1>3, <1>6, <2>1
  <2>3. sent' = sent
    BY <1>6, <1>7
  <2> QED
    BY <1>6, <2>2, <2>3 DEF IInv, Shape, Flow
<1>8. CASE Acceptable(count)
  <2>1. PICK f, new, all, c : /\ f = Fragments(m, count) /\ new = st \o f
                              /\ all = Append(sent, f) /\ c = Send(s, m, count)
    OBVIOUS
  <2>2. count \in Nat /\ 1 <= count
    BY <1>3
  <2>3. /\ Accepted(all) /\ IsStream(new, all)
        /\ Len(new) = Len(st) + count /\ \A i \in 1..Len(st) : new[i] = st[i]
    <3>1. m = Len(sent) + 1
      BY <1>2
    <3>2. f = Fragments(m, count)
      BY <2>1
    <3>3. Accepted(sent)
      BY <1>5
    <3>4. IsStream(st, sent)
      BY <1>5
    <3>5. \A n, a : n = st \o f /\ a = Append(sent, f) =>
            Accepted(a) /\ IsStream(n, a) /\ Longer(n, st, count)
      BY <1>8, <2>2, <3>1, <3>2, <3>3, <3>4, StreamGrows
    <3>6. Accepted(all) /\ IsStream(new, all) /\ Longer(new, st, count)
      BY <2>1, <3>5
    <3> QED
      BY <3>6 DEF Longer
  <2>4. /\ st \in Seq(Part) /\ sent \in Seq(Seq(Part)) /\ Len(st) \in Nat /\ m \in Nat
        /\ new \in Seq(Part)
    <3>1. st \in Seq(Part) /\ sent \in Seq(Seq(Part)) /\ new \in Seq(Part)
      BY <1>5, <2>3 DEF Accepted, IsStream
    <3> QED
      BY <1>2, <3>1, LenProperties
  <2>5. SendSide(s, st)
    BY <1>4 DEF Linked
  <2>6. /\ c \in Blocks /\ SendSide(c, new) /\ c.snd_nxt = s.snd_nxt
        /\ Receiving(c) = Receiving(s) /\ c.acklist = s.acklist
        /\ \A held : Covered(s, held) => Covered(c, held)
    <3>1. new = st \o Fragments(m, count)
      BY <2>1
    <3>2. c = Send(s, m, count)
      BY <2>1
    <3>3. s \in Blocks
      BY <1>3
    <3>4. st \in Seq(Part)
      BY <2>4
    <3>5. m \in Nat
      BY <2>4
    <3>6. count \in Nat
      BY <1>3
    <3>7. \A d, n : d = Send(s, m, count) /\ n = st \o Fragments(m, count) =>
            /\ d \in Blocks /\ SendSide(d, n) /\ d.snd_nxt = s.snd_nxt
            /\ Receiving(d) = Receiving(s) /\ d.acklist = s.acklist
            /\ \A held : Covered(s, held) => Covered(d, held)
      BY <1>8, <2>5, <3>3, <3>4, <3>5, <3>6, SendKeeps
    <3> QED
      BY <3>1, <3>2, <3>7
  <2>7. /\ Held(c) = Held(s)
        /\ \A in, nxt : ReceiveSide(s, in, nxt) <=> ReceiveSide(c, in, nxt)
    BY <2>6, OwnFields
  <2>8. Linked(c, r, net["sender"], new, << >>)
    <3>1. AcksHeld(c)
      BY <1>4, <2>6, <2>7 DEF Linked, AcksHeld
    <3> QED
      BY <1>4, <2>6, <2>7, <3>1 DEF Linked
  <2>9. Linked(r, c, net["receiver"], << >>, new)
    <3>1. /\ Held(s) \subseteq Held(c) /\ s.snd_nxt <= c.snd_nxt
      BY <1>3, <2>6, <2>7, SMTT(30) DEF Blocks
    <3>2. \A i \in 1..s.snd_nxt : new[i] = st[i]
      <4>1. Len(st) = s.snd_nxt + Len(s.snd_queue) /\ s.snd_nxt \in Nat
            /\ Len(s.snd_queue) \in Nat
        BY <1>3, <2>5, LenProperties DEF SendSide, Blocks
      <4>2. \A i \in 1..s.snd_nxt : i \in 1..Len(st)
        BY <4>1
      <4> QED
        BY <2>3, <4>2
    <3>3. Linked(r, s, net["receiver"], << >>, st) /\ s \in Blocks /\ c \in Blocks
      BY <1>3, <1>4, <2>6
    <3> QED
      BY <3>1, <3>2, <3>3, PeerMoves
  <2>10. Both(cb', net', new) /\ cb' \in [Ends -> Blocks]
    <3>1. cb' = [cb EXCEPT !["sender"] = c]
      BY <1>6, <2>1
    <3>2. "sender" \in Ends /\ Peer("sender") = "receiver"
      BY TwoEnds
    <3>3. Outs(new, "sender") = new /\ Outs(new, "receiver") = << >>
      BY DEF Outs
    <3>4. Linked(c, cb[Peer("sender")], net["sender"],
                 Outs(new, "sender"), Outs(new, Peer("sender")))
      BY <1>2, <2>8, <3>2, <3>3
    <3>5. Linked(cb[Peer("sender")], c, net[Peer("sender")],
                 Outs(new, Peer("sender")), Outs(new, "sender"))
      BY <1>2, <2>9, <3>2, <3>3
    <3>6. cb \in [Ends -> Blocks] /\ c \in Blocks /\ "sender" \in Ends
      BY <1>3, <2>6, <3>2
    <3>7. Both(cb', net, new) /\ cb' \in [Ends -> Blocks]
      BY <3>1, <3>4, <3>5, <3>6, OneEnd, Zenon
    <3>8. net' = net
      BY <1>6
    <3> QED
      BY <3>7, <3>8
  <2>11. cb'["receiver"] = r
    BY <1>2, <1>3, <1>6, TwoEnds
  <2>12. IsDelivered(new, all, delivered, Taken(r))
    <3>1. f \in Seq(Part)
      BY <1>3, <2>1, <2>4, FragmentsAre
    <3>2. Len(st) <= Len(new) /\ Len(new) \in Nat
      BY <1>3, <2>3, <2>4
    <3> QED
      BY <1>5, <2>1, <2>3, <2>4, <3>1, <3>2, DeliveredStays
  <2>13. Len(new) <= MaxSegments
    <3>1. Len(st) = s.snd_nxt + Len(s.snd_queue)
      BY <2>5 DEF SendSide
    <3> QED
      BY <1>6, <2>3, <3>1
  <2>14. Flow(new)'
    <3>1. sent' = all /\ delivered' = delivered
      BY <1>6, <1>8, <2>1
    <3> QED
      BY <2>3, <2>11, <2>12, <2>13, <3>1 DEF Flow
  <2>15. Shape'
    BY <1>6, <2>10 DEF IInv, Shape
  <2> QED
    BY <2>10, <2>14, <2>15 DEF IInv
<1> QED
  BY <1>7, <1>8

\* Nothing is delivered while an end stays where its application left it.
LEMMA FlowStays ==
  ASSUME NEW st, Flow(st), cb \in [Ends -> Blocks], NEW e \in Ends, NEW x,
         cb' = [cb EXCEPT ![e] = x], Taken(x) = Taken(cb[e]),
         sent' = sent, delivered' = delivered
  PROVE  Flow(st)'
<1>1. Taken(cb'["receiver"]) = Taken(cb["receiver"])
  <2>1. CASE e = "receiver"
    <3>1. cb'["receiver"] = x
      BY <2>1, TwoEnds
    <3> QED
      BY <2>1, <3>1
  <2>2. CASE e # "receiver"
    <3>1. cb'["receiver"] = cb["receiver"]
      BY <2>2, TwoEnds
    <3> QED
      BY <3>1
  <2> QED
    BY <2>1, <2>2
<1> QED
  BY <1>1 DEF Flow

\* A datagram arrives.
LEMMA ReceiveKeeps ==
  ASSUME IInv, NEW e \in Ends, Receive(e)
  PROVE  IInv'
<1>1. PICK st : Flow(st) /\ Both(cb, net, st)
  BY DEF IInv
<1>2. PICK p, b, q, n, m, x : /\ p = Peer(e) /\ b = cb[e] /\ q = cb[p] /\ n = net[e] /\ m = net[p]
                              /\ x = Input(b, Head(n))
  OBVIOUS
<1>3. PICK out, in : out = Outs(st, e) /\ in = Outs(st, p)
  OBVIOUS
<1>4. /\ p \in Ends /\ Peer(p) = e /\ p # e
      /\ cb \in [Ends -> Blocks] /\ b \in Blocks /\ q \in Blocks /\ net = [d \in Ends |-> net[d]]
  BY <1>2, TwoEnds DEF IInv, Shape
<1>5. Linked(b, q, n, out, in) /\ Linked(q, b, m, in, out)
  BY <1>1, <1>2, <1>3, <1>4 DEF Both
<1>6. /\ n # << >> /\ Len(b.acklist) < MaxAcks
      /\ cb' = [cb EXCEPT ![e] = x] /\ net' = [net EXCEPT ![e] = Tail(n)]
      /\ sent' = sent /\ delivered' = delivered
  BY <1>2 DEF Receive, CanReceive
<1>7. /\ Linked(x, q, Tail(n), out, in)
      /\ Held(b) \subseteq Held(x) /\ Taken(x) = Taken(b) /\ x.snd_nxt = b.snd_nxt
  BY <1>2, <1>4, <1>5, <1>6, InputLinks
<1>8. x \in Blocks
  BY <1>7 DEF Linked
<1>9. Linked(q, x, m, in, out)
  <2>1. b.snd_nxt <= x.snd_nxt
    BY <1>4, <1>7 DEF Blocks
  <2>2. \A i \in 1..b.snd_nxt : out[i] = out[i]
    OBVIOUS
  <2> QED
    BY <1>4, <1>5, <1>7, <1>8, <2>1, <2>2, PeerMoves
<1>10. /\ net'[e] = Tail(n) /\ net'[p] = m /\ net' = [d \in Ends |-> net'[d]]
  BY <1>2, <1>4, <1>6
<1>11. Both(cb', net', st) /\ cb' \in [Ends -> Blocks]
  <2>1. Linked(x, cb[Peer(e)], net'[e], Outs(st, e), Outs(st, Peer(e)))
    BY <1>2, <1>3, <1>7, <1>10
  <2>2. Linked(cb[Peer(e)], x, net'[Peer(e)], Outs(st, Peer(e)), Outs(st, e))
    BY <1>2, <1>3, <1>9, <1>10
  <2>3. cb \in [Ends -> Blocks] /\ x \in Blocks /\ cb' = [cb EXCEPT ![e] = x]
    BY <1>4, <1>6, <1>8
  <2> QED
    BY <2>1, <2>2, <2>3, OneEnd, Zenon
<1>12. Flow(st)'
  BY <1>1, <1>2, <1>4, <1>6, <1>7, FlowStays
<1> QED
  BY <1>10, <1>11, <1>12 DEF IInv, Shape

\* ikcp_update() flushes.
LEMMA UpdateKeeps ==
  ASSUME IInv, NEW e \in Ends, NEW expired, NEW probeExpired, Update(e, expired, probeExpired)
  PROVE  IInv'
<1>1. PICK st : Flow(st) /\ Both(cb, net, st)
  BY DEF IInv
<1>2. PICK p, b, q, n, m, f, x : /\ p = Peer(e) /\ b = cb[e] /\ q = cb[p] /\ n = net[e]
                                 /\ m = net[p]
                                 /\ f = Flush(b, expired, probeExpired) /\ x = f.cb
  OBVIOUS
<1>3. PICK out, in : out = Outs(st, e) /\ in = Outs(st, p)
  OBVIOUS
<1>4. /\ p \in Ends /\ Peer(p) = e /\ p # e
      /\ cb \in [Ends -> Blocks] /\ b \in Blocks /\ q \in Blocks /\ net = [d \in Ends |-> net[d]]
  BY <1>2, TwoEnds DEF IInv, Shape
<1>5. Linked(b, q, n, out, in) /\ Linked(q, b, m, in, out)
  BY <1>1, <1>2, <1>3, <1>4 DEF Both
<1>6. /\ cb' = [cb EXCEPT ![e] = x] /\ net' = [net EXCEPT ![p] = m \o f.out]
      /\ sent' = sent /\ delivered' = delivered
  BY <1>2 DEF Update
<1>7. out \in Seq(Part)
  <2>1. st \in Seq(Part) /\ << >> \in Seq(Part)
    BY <1>1 DEF Flow, IsStream
  <2> QED
    BY <1>3, <2>1 DEF Outs
<1>8. Linked(x, q, n, out, in) /\ Linked(q, x, m \o f.out, in, out) /\ Taken(x) = Taken(b)
  <2>1. q \in Blocks
    BY <1>4
  <2>2. Linked(b, q, n, out, in)
    BY <1>5
  <2>3. Linked(q, b, m, in, out)
    BY <1>5
  <2>4. Flushed(b, q, n, m, out, in, Flush(b, expired, probeExpired))
    BY <1>7, <2>1, <2>2, <2>3, FlushLinks
  <2> QED
    BY <1>2, <2>4 DEF Flushed
<1>9. x \in Blocks
  BY <1>8 DEF Linked
<1>10. /\ net'[e] = n /\ net'[p] = m \o f.out /\ net' = [d \in Ends |-> net'[d]]
  BY <1>2, <1>4, <1>6
<1>11. Both(cb', net', st) /\ cb' \in [Ends -> Blocks]
  <2>1. Linked(x, cb[Peer(e)], net'[e], Outs(st, e), Outs(st, Peer(e)))
    BY <1>2, <1>3, <1>8, <1>10
  <2>2. Linked(cb[Peer(e)], x, net'[Peer(e)], Outs(st, Peer(e)), Outs(st, e))
    BY <1>2, <1>3, <1>8, <1>10
  <2>3. cb \in [Ends -> Blocks] /\ x \in Blocks /\ cb' = [cb EXCEPT ![e] = x]
    BY <1>4, <1>6, <1>9
  <2> QED
    BY <2>1, <2>2, <2>3, OneEnd, Zenon
<1>12. Flow(st)'
  BY <1>1, <1>2, <1>4, <1>6, <1>8, FlowStays
<1> QED
  BY <1>10, <1>11, <1>12 DEF IInv, Shape

\* The application takes a message: the next of those that were accepted.
LEMMA RecvMessageKeeps ==
  ASSUME IInv, RecvMessage
  PROVE  /\ IInv'
         /\ Len(delivered) + 1 \in 1..Len(sent)
         /\ delivered' = Append(delivered, sent[Len(delivered) + 1])
<1>1. PICK st : Flow(st) /\ Both(cb, net, st)
  BY DEF IInv
<1>2. PICK s, r, x, f, k : /\ s = cb["sender"] /\ r = cb["receiver"] /\ x = Recv(r)
                           /\ f = FirstMessage(r) /\ k = Len(f)
  OBVIOUS
<1>3. /\ cb \in [Ends -> Blocks] /\ s \in Blocks /\ r \in Blocks /\ s.snd_nxt \in Nat
      /\ net = [e \in Ends |-> net[e]]
  BY <1>2, TwoEnds DEF IInv, Shape, Blocks
<1>4. Linked(s, r, net["sender"], st, << >>) /\ Linked(r, s, net["receiver"], << >>, st)
  BY <1>1, <1>2, TwoEnds DEF Both, Outs
<1>5. /\ Accepted(sent) /\ IsStream(st, sent) /\ Len(st) <= MaxSegments
      /\ IsDelivered(st, sent, delivered, Taken(r))
  BY <1>1, <1>2 DEF Flow
<1>6. /\ Receivable(r) /\ cb' = [cb EXCEPT !["receiver"] = x]
      /\ delivered' = Append(delivered, f) /\ net' = net /\ sent' = sent
  BY <1>2 DEF RecvMessage
<1>7. ReceiveSide(r, st, s.snd_nxt) /\ SendSide(s, st)
  BY <1>4 DEF Linked
<1>8. s.snd_nxt <= Len(st)
  <2>1. Len(st) = s.snd_nxt + Len(s.snd_queue) /\ Len(s.snd_queue) \in Nat
    BY <1>3, <1>7, LenProperties DEF SendSide, Blocks
  <2> QED
    BY <1>3, <2>1
<1>9. /\ Len(delivered) + 1 \in 1..Len(sent)
      /\ f = sent[Len(delivered) + 1]
      /\ k \in 1..Len(r.rcv_queue)
      /\ IsDelivered(st, sent, Append(delivered, f), Taken(r) + k)
  BY <1>2, <1>3, <1>5, <1>6, <1>7, <1>8, FirstMessageIs
<1>10. /\ x \in Blocks /\ ReceiveSide(x, st, s.snd_nxt)
       /\ Held(x) = Held(r) /\ Taken(x) = Taken(r) + k
       /\ Sending(x) = Sending(r) /\ x.acklist = r.acklist
  <2>1. k = Len(FirstMessage(r)) /\ k \in 1..Len(r.rcv_queue)
    BY <1>2, <1>9
  <2>2. x = Recv(r)
    BY <1>2
  <2>3. ReceiveSide(r, st, s.snd_nxt)
    BY <1>7
  <2> QED
    BY <1>3, <2>1, <2>2, <2>3, RecvKeeps
<1>11. Linked(x, s, net["receiver"], << >>, st)
  <2>1. SendSide(x, << >>) /\ Covered(x, Held(s))
    BY <1>4, <1>10, OwnFields DEF Linked
  <2>2. AcksHeld(x)
    BY <1>4, <1>10 DEF Linked, AcksHeld
  <2> QED
    BY <1>4, <1>10, <2>1, <2>2 DEF Linked
<1>12. Linked(s, x, net["sender"], st, << >>)
  <2>1. Held(r) \subseteq Held(x) /\ r.snd_nxt <= x.snd_nxt
    BY <1>3, <1>10 DEF Blocks, Sending
  <2>2. \A i \in 1..r.snd_nxt : << >>[i] = << >>[i]
    OBVIOUS
  <2> QED
    BY <1>3, <1>4, <1>10, <2>1, <2>2, PeerMoves
<1>13. Both(cb', net', st) /\ cb' \in [Ends -> Blocks]
  <2>1. "receiver" \in Ends /\ Peer("receiver") = "sender"
    BY TwoEnds
  <2>2. Outs(st, "sender") = st /\ Outs(st, "receiver") = << >>
    BY DEF Outs
  <2>3. Linked(x, cb[Peer("receiver")], net["receiver"],
               Outs(st, "receiver"), Outs(st, Peer("receiver")))
    BY <1>2, <1>11, <2>1, <2>2
  <2>4. Linked(cb[Peer("receiver")], x, net[Peer("receiver")],
               Outs(st, Peer("receiver")), Outs(st, "receiver"))
    BY <1>2, <1>12, <2>1, <2>2
  <2>5. cb \in [Ends -> Blocks] /\ x \in Blocks /\ cb' = [cb EXCEPT !["receiver"] = x]
    BY <1>3, <1>6, <1>10
  <2>6. Both(cb', net, st) /\ cb' \in [Ends -> Blocks]
    BY <2>1, <2>3, <2>4, <2>5, OneEnd, Zenon
  <2> QED
    BY <1>6, <2>6
<1>14. Flow(st)'
  <2>1. cb'["receiver"] = x
    BY <1>3, <1>6, TwoEnds
  <2>2. IsDelivered(st, sent, delivered', Taken(x))
    BY <1>6, <1>9, <1>10
  <2> QED
    BY <1>5, <1>6, <2>1, <2>2 DEF Flow
<1>15. Shape'
  BY <1>3, <1>6, <1>13 DEF Shape
<1> QED
  BY <1>6, <1>9, <1>13, <1>14, <1>15 DEF IInv

\* The network loses, doubles or delays a datagram.
LEMMA FaultKeeps ==
  ASSUME IInv, Fault
  PROVE  IInv'
<1>1. PICK st : Flow(st) /\ Both(cb, net, st)
  BY DEF IInv
<1>2. PICK e \in Ends : \E i \in DOMAIN net[e] : Lose(e, i) \/ Duplicate(e, i) \/ Delay(e, i)
  BY DEF Fault
<1>3. PICK i \in DOMAIN net[e] : Lose(e, i) \/ Duplicate(e, i) \/ Delay(e, i)
  BY <1>2
<1>4. cb' = cb /\ sent' = sent /\ delivered' = delivered
  BY DEF Fault
<1>5. PICK n, D : /\ n = net[e]
                  /\ D = Datagrams(Segs(Held(cb[Peer(e)]), Outs(st, Peer(e)), cb[Peer(e)].snd_nxt))
  OBVIOUS
<1>6. n \in Seq(D)
  BY <1>1, <1>5 DEF Both, Linked
<1>7. RemoveAt(n, i) \in Seq(D) /\ n[i] \in D
  <2>1. i \in 1..Len(n)
    BY <1>3, <1>5, <1>6, LenProperties
  <2> QED
    BY <1>6, <2>1, Removed
<1>8. Append(n, n[i]) \in Seq(D) /\ Append(RemoveAt(n, i), n[i]) \in Seq(D)
  BY <1>6, <1>7, AppendProperties
<1>9. \/ net' = [net EXCEPT ![e] = RemoveAt(n, i)]
      \/ net' = [net EXCEPT ![e] = Append(n, n[i])]
      \/ net' = [net EXCEPT ![e] = Append(RemoveAt(n, i), n[i])]
  BY <1>3, <1>5 DEF Lose, Duplicate, Delay
<1>10. PICK m \in Seq(D) : net' = [net EXCEPT ![e] = m]
  BY <1>7, <1>8, <1>9
<1>11. /\ net'[e] = m /\ \A d \in Ends : d # e => net'[d] = net[d]
       /\ net' = [d \in Ends |-> net'[d]]
  BY <1>10 DEF IInv, Shape
<1>12. Both(cb', net', st)
  <2> SUFFICES ASSUME NEW d \in Ends
               PROVE  Linked(cb[d], cb[Peer(d)], net'[d], Outs(st, d), Outs(st, Peer(d)))
    BY <1>4 DEF Both
  <2>1. Linked(cb[d], cb[Peer(d)], net[d], Outs(st, d), Outs(st, Peer(d)))
    BY <1>1 DEF Both
  <2>2. CASE d # e
    BY <1>11, <2>1, <2>2
  <2>3. CASE d = e
    BY <1>5, <1>10, <1>11, <2>1, <2>3 DEF Linked
  <2> QED
    BY <2>2, <2>3
<1>13. Flow(st)' /\ Shape'
  BY <1>1, <1>4, <1>11 DEF Flow, Shape, IInv
<1> QED
  BY <1>12, <1>13 DEF IInv

\* Every step keeps the invariant.
LEMMA NextIInv == IInv /\ [Next]_vars => IInv'
<1> SUFFICES ASSUME IInv, [Next]_vars PROVE IInv'
  OBVIOUS
<1>1. ASSUME NEW count \in Lengths, SendMessage(count) PROVE IInv'
  BY <1>1, SendMessageKeeps
<1>2. ASSUME RecvMessage PROVE IInv'
  BY <1>2, RecvMessageKeeps
<1>3. ASSUME NEW e \in Ends, Receive(e) PROVE IInv'
  BY <1>3, ReceiveKeeps
<1>4. ASSUME NEW e \in Ends, Updates(e, Update) PROVE IInv'
  BY <1>4, UpdateKeeps DEF Updates
<1>5. ASSUME Fault PROVE IInv'
  BY <1>5, FaultKeeps
<1>6. ASSUME UNCHANGED vars PROVE IInv'
  BY <1>6 DEF vars, IInv, Shape, Flow
<1> QED
  BY <1>1, <1>2, <1>3, <1>4, <1>5, <1>6 DEF Next

\* Whatever happens, both ends and the network agree on what was sent.
THEOREM Invariance == Spec => []IInv
<1>1. Init => IInv
  BY InitIInv
<1>2. IInv /\ [Next]_vars => IInv'
  BY NextIInv
<1> QED
  BY <1>1, <1>2, PTL DEF Spec

\* What was acknowledged is never lost: a segment that ikcp_parse_ack() or
\* ikcp_parse_una() took out of snd_buf is in the peer's rcv_buf or rcv_queue, or was there.
THEOREM NothingAckedIsLost == Spec => []AckedIsHeld
<1>1. IInv => AckedIsHeld
  <2> SUFFICES ASSUME IInv PROVE AckedIsHeld
    OBVIOUS
  <2>1. PICK st : Both(cb, net, st)
    BY DEF IInv
  <2>2. Covered(cb["sender"], Held(cb["receiver"]))
    BY <2>1, TwoEnds DEF Both, Linked
  <2> QED
    BY <2>2 DEF Covered, Held, AckedIsHeld
<1> QED
  BY <1>1, Invariance, PTL

\* An end's block, its windows and the datagrams on their way to it.
LEMMA EndKept ==
  ASSUME NEW b, NEW p, NEW n, NEW out, NEW in, Linked(b, p, n, out, in),
         Len(out) <= MaxSegments, NEW nxt \in Nat, nxt = p.snd_nxt, nxt <= MaxSegments
  PROVE  /\ IsBlock(b) /\ b.snd_nxt <= Len(out)
         /\ \A d \in Range(n) : DatagramSize(d) \in 1..Mtu
<1>1. /\ b \in Blocks /\ SendSide(b, out) /\ ReceiveSide(b, in, nxt)
      /\ Len(b.acklist) < MaxAcks + Mtu
      /\ n \in Seq(Datagrams(Segs(Held(p), in, nxt)))
  BY DEF Linked
<1>2. /\ b.snd_una \in Nat /\ b.snd_nxt \in Nat /\ b.rcv_nxt \in Nat
      /\ b.rmt_wnd \in 0..RcvWnd /\ b.probing \in BOOLEAN /\ b.probe \subseteq {"ask", "tell"}
      /\ b.snd_queue \in Seq(Part) /\ Len(b.snd_queue) \in Nat /\ MaxSegments \in Nat
  <2>1. b.snd_queue \in Seq(Part)
    BY <1>1 DEF Blocks
  <2> QED
    BY <1>1, <2>1, BoundsAssumption, LenProperties DEF Blocks
<1>3. b.snd_una <= b.snd_nxt /\ Len(out) = b.snd_nxt + Len(b.snd_queue)
  BY <1>1 DEF SendSide
<1>4. b.snd_nxt <= Len(out)
  BY <1>2, <1>3
<1>5. b.rcv_nxt <= nxt
  BY <1>1 DEF ReceiveSide
<1>6. {b.snd_una, b.snd_nxt, b.rcv_nxt} \subseteq 0..MaxSegments
  <2>1. b.snd_nxt <= MaxSegments
    BY <1>2, <1>3
  <2>2. b.snd_una <= MaxSegments /\ b.rcv_nxt <= MaxSegments
    BY <1>2, <1>3, <1>5, <2>1
  <2> QED
    BY <1>2, <2>1, <2>2
<1>7. IsBlock(b)
  BY <1>1, <1>2, <1>6 DEF IsBlock, SendSide
<1>8. ASSUME NEW d \in Range(n) PROVE DatagramSize(d) \in 1..Mtu
  <2>1. PICK i \in DOMAIN n : d = n[i]
    BY <1>8 DEF Range
  <2>2. d \in Datagrams(Segs(Held(p), in, nxt))
    BY <1>1, <2>1
  <2> QED
    BY <2>2 DEF Datagrams
<1> QED
  BY <1>4, <1>7, <1>8

\* The windows hold although each end knows the other's late, and every field is of
\* its type: no queue, no buffer and no datagram is longer than it may be.
THEOREM WindowsAreKept == Spec => []WindowsKept
<1>1. IInv => WindowsKept
  <2> SUFFICES ASSUME IInv PROVE WindowsKept
    OBVIOUS
  <2>1. PICK st : Flow(st) /\ Both(cb, net, st)
    BY DEF IInv
  <2>2. PICK s, r : s = cb["sender"] /\ r = cb["receiver"]
    OBVIOUS
  <2>3. /\ Linked(s, r, net["sender"], st, << >>) /\ Linked(r, s, net["receiver"], << >>, st)
        /\ s.snd_nxt \in Nat /\ r.snd_nxt \in Nat
    <3>1. cb \in [Ends -> Blocks]
      BY DEF IInv, Shape
    <3> QED
      BY <2>1, <2>2, <3>1, TwoEnds DEF Both, Outs, Blocks
  <2>4. Len(st) \in Nat /\ Len(st) <= MaxSegments /\ Len(<< >>) = 0 /\ MaxSegments \in Nat
    <3>1. st \in Seq(Part) /\ Len(st) <= MaxSegments
      BY <2>1 DEF Flow, IsStream
    <3> QED
      BY <3>1, LenProperties, BoundsAssumption
  <2>5. SendSide(s, st) /\ ReceiveSide(r, st, s.snd_nxt) /\ SendSide(r, << >>)
    BY <2>3 DEF Linked
  <2>6. s.snd_nxt <= MaxSegments /\ r.snd_nxt <= MaxSegments
    <3>1. /\ Len(st) = s.snd_nxt + Len(s.snd_queue) /\ Len(s.snd_queue) \in Nat
          /\ Len(<< >>) = r.snd_nxt + Len(r.snd_queue) /\ Len(r.snd_queue) \in Nat
      <4>1. s.snd_queue \in Seq(Part) /\ r.snd_queue \in Seq(Part)
        BY <2>3 DEF Linked, Blocks
      <4> QED
        BY <2>5, <4>1, LenProperties DEF SendSide
    <3> QED
      BY <2>3, <2>4, <3>1
  <2>7. IsBlock(s) /\ \A d \in Range(net["sender"]) : DatagramSize(d) \in 1..Mtu
    BY <2>3, <2>4, <2>6, EndKept
  <2>8. IsBlock(r) /\ \A d \in Range(net["receiver"]) : DatagramSize(d) \in 1..Mtu
    BY <2>3, <2>4, <2>6, EndKept
  <2>9. /\ Len(r.rcv_queue) <= RcvWnd
        /\ DOMAIN r.rcv_buf \subseteq r.rcv_nxt..(r.rcv_nxt + RcvWnd - 1)
        /\ r.rcv_nxt <= s.snd_nxt /\ s.snd_nxt - s.snd_una <= SndWnd
    BY <2>5 DEF SendSide, ReceiveSide
  <2> QED
    BY <2>2, <2>7, <2>8, <2>9, TwoEnds DEF WindowsKept
<1> QED
  BY <1>1, Invariance, PTL

\* The messages that the receiver's application gets are those that the sender's sent,
\* whole, once each and in order, whatever the network loses, doubles or delays:
\* ikcp_send(), ikcp_flush(), ikcp_input() and ikcp_recv() implement a message stream.
THEOREM StreamRefinement == Spec => ImplementsStream
<1>1. Init => Stream!Init
  BY DEF Init, Stream!Init
<1>2. IInv /\ [Next]_vars => [Stream!Next]_(Stream!vars)
  <2> SUFFICES ASSUME IInv, [Next]_vars PROVE [Stream!Next]_(Stream!vars)
    OBVIOUS
  <2>1. ASSUME NEW count \in Lengths, SendMessage(count)
        PROVE  [Stream!Next]_(Stream!vars)
    <3>1. CASE ~Acceptable(count)
      BY <2>1, <3>1 DEF SendMessage, Stream!vars
    <3>2. CASE Acceptable(count)
      <4>1. PICK k, f : k = Len(sent) + 1 /\ f = Fragments(k, count)
        OBVIOUS
      <4>2. sent' = Append(sent, f) /\ delivered' = delivered
        BY <2>1, <3>2, <4>1 DEF SendMessage
      <4>3. count \in 1..(RcvWnd - 1)
        BY <2>1, <3>2, WindowAssumption, BoundsAssumption DEF Acceptable
      <4>4. k \in 1..MaxSegments
        <5>1. PICK st : Flow(st) /\ Both(cb, net, st)
          BY DEF IInv
        <5>2. /\ st \in Seq(Part) /\ sent \in Seq(Seq(Part)) /\ Len(sent) <= Len(st)
          BY <5>1 DEF Flow, IsStream, Accepted
        <5>3. Len(st) = Segments
          BY <5>1, TwoEnds DEF Both, Outs, Linked, SendSide, Segments
        <5>4. PICK x, y : x = Len(sent) /\ y = Len(st)
          OBVIOUS
        <5>5. x \in Nat /\ y \in Nat /\ x <= y /\ MaxSegments \in Nat
          BY <5>2, <5>4, LenProperties, BoundsAssumption
        <5>6. y + count <= MaxSegments
          BY <2>1, <5>3, <5>4 DEF SendMessage
        <5> QED
          BY <4>1, <4>3, <5>4, <5>5, <5>6
      <4>5. f \in UNION {{Fragments(m, c) : m \in 1..MaxSegments} : c \in 1..(RcvWnd - 1)}
        BY <4>1, <4>3, <4>4
      <4> QED
        BY <4>2, <4>5 DEF Stream!Next, Stream!SendMessage
    <3> QED
      BY <3>1, <3>2
  <2>2. ASSUME RecvMessage PROVE Stream!Next
    <3>1. /\ Len(delivered) + 1 \in 1..Len(sent)
          /\ delivered' = Append(delivered, sent[Len(delivered) + 1])
          /\ Len(delivered) \in Nat /\ Len(sent) \in Nat
      <4>1. PICK st : Flow(st)
        BY DEF IInv
      <4>2. delivered \in Seq(Seq(Part)) /\ sent \in Seq(Seq(Part))
        BY <4>1 DEF Flow, IsDelivered, Accepted
      <4> QED
        BY <2>2, <4>2, RecvMessageKeeps, LenProperties
    <3>2. sent' = sent
      BY <2>2 DEF RecvMessage
    <3>3. Len(delivered) < Len(sent)
      BY <3>1
    <3> QED
      BY <3>1, <3>2, <3>3 DEF Stream!Next, Stream!DeliverNext
  <2>3. ASSUME NEW e \in Ends, Receive(e) PROVE UNCHANGED Stream!vars
    BY <2>3 DEF Receive, Stream!vars
  <2>4. ASSUME NEW e \in Ends, Updates(e, Update) PROVE UNCHANGED Stream!vars
    BY <2>4 DEF Updates, Update, Stream!vars
  <2>5. ASSUME Fault PROVE UNCHANGED Stream!vars
    BY <2>5 DEF Fault, Stream!vars
  <2>6. ASSUME UNCHANGED vars PROVE UNCHANGED Stream!vars
    BY <2>6 DEF vars, Stream!vars
  <2> QED
    BY <2>1, <2>2, <2>3, <2>4, <2>5, <2>6 DEF Next
<1> QED
  BY <1>1, <1>2, Invariance, PTL DEF Spec, ImplementsStream, Stream!Spec

=============================================================================
