------------------------- MODULE AsyncLoggingProofs --------------------------
(***************************************************************************)
(* Proofs about AsyncLogging and its LogFile: the swaps lose, double and   *)
(* move no line, and what a swap took reaches a file, for any number of    *)
(* threads and lines, any size of the buffers and any size of the files.   *)
(***************************************************************************)
EXTENDS AsyncLogging, SequenceTheorems, FiniteSetTheorems, TLAPS

-----------------------------------------------------------------------------
(* Induction, over sets instead of predicates *)

\* Every set of numbers has a least one: the intervals that end at its elements are
\* finite sets, and there is no infinite descent among those.
LEMMA LeastElement ==
  ASSUME NEW T, T \subseteq Nat, T # {}
  PROVE  \E m \in T : \A k \in T : ~(k < m)
<1> DEFINE R == StrictSubsetOrdering(Nat)
           F == FiniteSubsetsOf(Nat)
           U == {0..n : n \in T}
<1>1. IsWellFoundedOn(R, F)
  BY FS_StrictSubsetOrderingWellFounded
<1>2. U \subseteq F /\ U # {}
  <2>1. ASSUME NEW n \in T PROVE 0..n \in F
    <3>1. n \in Int /\ 0 \in Int /\ 0..n \subseteq Nat
      OBVIOUS
    <3>2. IsFiniteSet(0..n)
      BY <3>1, FS_Interval
    <3> QED
      BY <3>1, <3>2 DEF FiniteSubsetsOf
  <2> QED
    BY <2>1
<1> HIDE DEF R, F, U
<1>3. PICK u \in U : \A v \in U : ~(<<v, u>> \in R)
  BY <1>1, <1>2, WFMin
<1>4. PICK m \in T : u = 0..m
  BY DEF U
<1>5. ASSUME NEW k \in T, k < m PROVE FALSE
  <2>1. 0..k \in U
    BY DEF U
  <2>2. k \in Nat /\ m \in Nat
    OBVIOUS
  <2>3. /\ 0..k \subseteq 0..m /\ m \in 0..m /\ m \notin 0..k
        /\ 0..k \subseteq Nat /\ 0..m \subseteq Nat
    BY <1>5, <2>2
  <2>4. <<0..k, 0..m>> \in R
    BY <2>3 DEF R, StrictSubsetOrdering
  <2> QED
    BY <1>3, <1>4, <2>1, <2>4
<1> QED
  BY <1>5

\* A set with 0 and the successors of its numbers has them all.
LEMMA Induction ==
  ASSUME NEW S, 0 \in S, \A n \in Nat : n \in S => n + 1 \in S
  PROVE  Nat \subseteq S
<1> SUFFICES ASSUME ~(Nat \subseteq S) PROVE FALSE
  OBVIOUS
<1> DEFINE T == Nat \ S
<1>1. T \subseteq Nat /\ T # {}
  OBVIOUS
<1> HIDE DEF T
<1>2. PICK m \in T : \A k \in T : ~(k < m)
  BY <1>1, LeastElement
<1>3. m # 0 /\ m \in Nat /\ m \notin S
  BY <1>1 DEF T
<1>4. m - 1 \in Nat /\ m - 1 < m /\ m = (m - 1) + 1
  BY <1>3
<1>5. m - 1 \in S
  BY <1>2, <1>4 DEF T
<1> QED
  BY <1>3, <1>4, <1>5

\* A set with the empty sequence and every sequence that extends one of its own by an
\* element has them all.
LEMMA SequenceInduction ==
  ASSUME NEW S, NEW P, << >> \in P,
         \A s \in Seq(S) : \A e \in S : s \in P => Append(s, e) \in P
  PROVE  Seq(S) \subseteq P
<1> DEFINE N == {n \in Nat : \A s \in Seq(S) : Len(s) = n => s \in P}
<1>1. 0 \in N
  <2>1. \A s \in Seq(S) : Len(s) = 0 => s = << >>
    BY EmptySeq
  <2> QED
    BY <2>1
<1>2. ASSUME NEW n \in Nat, n \in N PROVE n + 1 \in N
  <2> SUFFICES ASSUME NEW s \in Seq(S), Len(s) = n + 1 PROVE s \in P
    OBVIOUS
  <2>1. s # << >>
    BY EmptySeq
  <2>2. PICK t \in Seq(S), e \in S : s = Append(t, e)
    BY <2>1, SequenceEmptyOrAppend
  <2>3. Len(s) = Len(t) + 1 /\ Len(t) \in Nat
    BY <2>2, AppendProperties, LenProperties
  <2>4. Len(t) = n
    BY <2>3
  <2> QED
    BY <1>2, <2>2, <2>4
<1> HIDE DEF N
<1>3. Nat \subseteq N
  BY <1>1, <1>2, Induction
<1> QED
  BY <1>3, LenProperties DEF N

-----------------------------------------------------------------------------
(* FlattenSeq *)

\* f is what FlattenSeq(s) is defined by.
IsFlattening(s, f) ==
  f = [i \in 1..Len(s) |-> IF i = 1 THEN s[i] ELSE f[i - 1] \o s[i]]

\* The recursion is one.
LEMMA FlatteningExists ==
  ASSUME NEW T
  PROVE  \A s \in Seq(T) : \E f : IsFlattening(s, f)
<1> DEFINE P == {s \in Seq(T) : \E f : IsFlattening(s, f)}
<1>1. << >> \in P
  <2>1. IsFlattening(<< >>, << >>)
    BY DEF IsFlattening
  <2> QED
    BY <2>1, EmptySeq
<1>2. ASSUME NEW s \in Seq(T), NEW e \in T, s \in P PROVE Append(s, e) \in P
  <2>1. PICK f : IsFlattening(s, f)
    BY <1>2
  <2>2. PICK t : t = Append(s, e)
    OBVIOUS
  <2>3. /\ t \in Seq(T) /\ Len(t) = Len(s) + 1 /\ Len(s) \in Nat
        /\ \A i \in 1..Len(s) : t[i] = s[i]
    BY <2>2, AppendProperties, LenProperties
  <2>f. \A i \in 1..Len(s) : f[i] = IF i = 1 THEN s[i] ELSE f[i - 1] \o s[i]
    BY <2>1 DEF IsFlattening
  <2> DEFINE g == [i \in 1..Len(t) |->
                     IF i <= Len(s) THEN f[i]
                     ELSE IF i = 1 THEN t[i] ELSE f[i - 1] \o t[i]]
  <2>4. ASSUME NEW i \in 1..Len(t)
        PROVE  g[i] = IF i = 1 THEN t[i] ELSE g[i - 1] \o t[i]
    <3>1. CASE i <= Len(s)
      <4>1. /\ i \in 1..Len(s)
            /\ f[i] = IF i = 1 THEN s[i] ELSE f[i - 1] \o s[i]
        BY <2>3, <2>f, <3>1
      <4>2. i # 1 => i - 1 \in 1..Len(t) /\ i - 1 <= Len(s)
        BY <2>3, <3>1
      <4> QED
        BY <2>3, <3>1, <4>1, <4>2
    <3>2. CASE ~(i <= Len(s))
      <4>1. i # 1 => i - 1 \in 1..Len(t) /\ i - 1 <= Len(s)
        BY <2>3, <3>2
      <4> QED
        BY <3>2, <4>1
    <3> QED
      BY <3>1, <3>2
  <2>5. DOMAIN g = 1..Len(t) /\ g = [i \in 1..Len(t) |-> g[i]]
    OBVIOUS
  <2> HIDE DEF g
  <2>6. IsFlattening(t, g)
    BY <2>4, <2>5 DEF IsFlattening
  <2> QED
    BY <2>2, <2>3, <2>6
<1> HIDE DEF P
<1>3. Seq(T) \subseteq P
  BY <1>1, <1>2, SequenceInduction
<1> QED
  BY <1>3 DEF P

\* What FlattenSeq(s) is, unless s is empty.
LEMMA FlattenSeqIs ==
  ASSUME NEW T, NEW s \in Seq(T), s # << >>
  PROVE  \E f : IsFlattening(s, f) /\ FlattenSeq(s) = f[Len(s)]
<1>1. Len(s) # 0
  BY EmptySeq
<1>2. FlattenSeq(s) =
        (CHOOSE f : f = [i \in 1..Len(s) |-> IF i = 1 THEN s[i] ELSE f[i - 1] \o s[i]])[Len(s)]
  BY <1>1 DEF FlattenSeq
<1>3. FlattenSeq(s) = (CHOOSE f : IsFlattening(s, f))[Len(s)]
  BY <1>2, Zenon DEF IsFlattening
<1>4. PICK f : f = CHOOSE g : IsFlattening(s, g)
  OBVIOUS
<1>5. IsFlattening(s, f)
  BY <1>4, FlatteningExists
<1> QED
  BY <1>3, <1>4, <1>5

\* No sequence flattens to nothing.
LEMMA FlattenNothing == FlattenSeq(<< >>) = << >>
BY DEF FlattenSeq

\* FlattenSeq(s) goes on with x as s does.
LEMMA FlattenAppend ==
  ASSUME NEW S, NEW s \in Seq(Seq(S)), NEW x \in Seq(S)
  PROVE  FlattenSeq(Append(s, x)) = FlattenSeq(s) \o x
<1> DEFINE T == Seq(S)
<1>1. s \in Seq(T) /\ x \in T
  OBVIOUS
<1>e. << >> \o x = x
  BY ConcatEmptySeq
<1> HIDE DEF T
<1>2. PICK t : t = Append(s, x)
  OBVIOUS
<1>3. /\ t \in Seq(T) /\ t # << >> /\ Len(t) = Len(s) + 1 /\ Len(s) \in Nat
      /\ \A i \in 1..Len(s) : t[i] = s[i]
      /\ t[Len(s) + 1] = x
  BY <1>1, <1>2, AppendProperties, LenProperties
<1>4. PICK g : IsFlattening(t, g) /\ FlattenSeq(t) = g[Len(t)]
  BY <1>3, FlattenSeqIs
<1>5. \A i \in 1..Len(t) : g[i] = IF i = 1 THEN t[i] ELSE g[i - 1] \o t[i]
  BY <1>4 DEF IsFlattening
<1>6. CASE s = << >>
  <2>1. Len(s) = 0
    BY <1>6
  <2>2. g[1] = x
    BY <1>3, <1>5, <2>1
  <2> QED
    BY <1>2, <1>3, <1>4, <1>6, <1>e, <2>1, <2>2, FlattenNothing
<1>7. CASE s # << >>
  <2>1. PICK f : IsFlattening(s, f) /\ FlattenSeq(s) = f[Len(s)]
    BY <1>1, <1>7, FlattenSeqIs
  <2>2. \A i \in 1..Len(s) : f[i] = IF i = 1 THEN s[i] ELSE f[i - 1] \o s[i]
    BY <2>1 DEF IsFlattening
  <2> DEFINE N == {n \in Nat : n \in 1..Len(s) => f[n] = g[n]}
  <2>3. 0 \in N
    OBVIOUS
  <2>4. ASSUME NEW n \in Nat, n \in N PROVE n + 1 \in N
    <3> SUFFICES ASSUME n + 1 \in 1..Len(s) PROVE f[n + 1] = g[n + 1]
      OBVIOUS
    <3>1. n + 1 \in 1..Len(t) /\ t[n + 1] = s[n + 1]
      BY <1>3
    <3>2. /\ f[n + 1] = IF n + 1 = 1 THEN s[n + 1] ELSE f[(n + 1) - 1] \o s[n + 1]
          /\ g[n + 1] = IF n + 1 = 1 THEN t[n + 1] ELSE g[(n + 1) - 1] \o t[n + 1]
      BY <1>5, <2>2, <3>1
    <3>3. (n + 1) - 1 = n /\ (n + 1 # 1 => n \in 1..Len(s))
      BY <1>3
    <3>4. n + 1 # 1 => f[n] = g[n]
      BY <2>4, <3>3
    <3> QED
      BY <3>1, <3>2, <3>3, <3>4
  <2> HIDE DEF N
  <2>5. Nat \subseteq N
    BY <2>3, <2>4, Induction
  <2>6. Len(s) \in 1..Len(s) /\ Len(s) # 0
    BY <1>1, <1>3, <1>7, EmptySeq
  <2>7. f[Len(s)] = g[Len(s)]
    BY <1>3, <2>5, <2>6 DEF N
  <2>8. /\ Len(t) \in 1..Len(t) /\ Len(t) # 1 /\ Len(t) - 1 = Len(s) /\ t[Len(t)] = x
    BY <1>3, <2>6
  <2>9. g[Len(t)] = g[Len(s)] \o x
    BY <1>5, <2>8
  <2> QED
    BY <1>2, <1>4, <2>1, <2>7, <2>9
<1> QED
  BY <1>6, <1>7

\* A sequence of sequences flattens to a sequence of their elements.
LEMMA FlattenTyped ==
  ASSUME NEW S
  PROVE  \A s \in Seq(Seq(S)) : FlattenSeq(s) \in Seq(S)
<1> DEFINE T == Seq(S)
           P == {s \in Seq(T) : FlattenSeq(s) \in Seq(S)}
<1>1. << >> \in P
  BY FlattenNothing, EmptySeq
<1>2. ASSUME NEW s \in Seq(T), NEW e \in T, s \in P PROVE Append(s, e) \in P
  <2>1. FlattenSeq(Append(s, e)) = FlattenSeq(s) \o e
    BY FlattenAppend
  <2>2. FlattenSeq(s) \in Seq(S) /\ e \in Seq(S)
    BY <1>2
  <2>3. FlattenSeq(s) \o e \in Seq(S)
    BY <2>2, ConcatProperties
  <2>4. Append(s, e) \in Seq(T)
    BY AppendProperties
  <2> QED
    BY <2>1, <2>3, <2>4
<1> HIDE DEF P
<1>3. Seq(T) \subseteq P
  BY <1>1, <1>2, SequenceInduction
<1> QED
  BY <1>3 DEF P

\* One sequence flattens to itself.
LEMMA FlattenOne ==
  ASSUME NEW S, NEW x \in Seq(S)
  PROVE  FlattenSeq(<<x>>) = x
<1>1. << >> \in Seq(Seq(S)) /\ Append(<< >>, x) = <<x>>
  OBVIOUS
<1>2. FlattenSeq(Append(<< >>, x)) = FlattenSeq(<< >>) \o x
  BY <1>1, FlattenAppend
<1> QED
  BY <1>1, <1>2, FlattenNothing, ConcatEmptySeq

\* The parts of a concatenation can be flattened one by one.
LEMMA FlattenConcat ==
  ASSUME NEW S, NEW s \in Seq(Seq(S))
  PROVE  \A t \in Seq(Seq(S)) : FlattenSeq(s \o t) = FlattenSeq(s) \o FlattenSeq(t)
<1> DEFINE T == Seq(S)
           P == {t \in Seq(T) : FlattenSeq(s \o t) = FlattenSeq(s) \o FlattenSeq(t)}
<1>1. << >> \in P
  <2>1. FlattenSeq(s) \in Seq(S)
    BY FlattenTyped
  <2>2. s \o << >> = s /\ FlattenSeq(s) \o << >> = FlattenSeq(s)
    BY <2>1, ConcatEmptySeq
  <2> QED
    BY <2>2, FlattenNothing, EmptySeq
<1>2. ASSUME NEW t \in Seq(T), NEW e \in T, t \in P PROVE Append(t, e) \in P
  <2>1. PICK u : u = s \o t
    OBVIOUS
  <2>2. u \in Seq(T) /\ s \in Seq(T)
    BY <2>1, ConcatProperties
  <2>3. s \o Append(t, e) = Append(u, e)
    <3>1. Append(t, e) = t \o <<e>> /\ Append(u, e) = u \o <<e>>
      BY <2>2, AppendIsConcat
    <3>2. s \in Seq(T) /\ t \in Seq(T) /\ <<e>> \in Seq(T)
      OBVIOUS
    <3>3. (s \o t) \o <<e>> = s \o (t \o <<e>>)
      BY <3>2, ConcatAssociative, SMTT(30)
    <3> QED
      BY <2>1, <3>1, <3>3
  <2>4. FlattenSeq(Append(u, e)) = FlattenSeq(u) \o e
    BY <2>2, FlattenAppend
  <2>5. FlattenSeq(Append(t, e)) = FlattenSeq(t) \o e
    BY FlattenAppend
  <2>6. FlattenSeq(u) = FlattenSeq(s) \o FlattenSeq(t)
    BY <1>2, <2>1
  <2>7. FlattenSeq(s) \in Seq(S) /\ FlattenSeq(t) \in Seq(S) /\ e \in Seq(S)
    BY FlattenTyped
  <2>8. (FlattenSeq(s) \o FlattenSeq(t)) \o e = FlattenSeq(s) \o (FlattenSeq(t) \o e)
    BY <2>7, ConcatAssociative, SMTT(30)
  <2>9. Append(t, e) \in Seq(T)
    BY AppendProperties
  <2> QED
    BY <2>3, <2>4, <2>5, <2>6, <2>8, <2>9
<1> HIDE DEF P
<1>3. Seq(T) \subseteq P
  BY <1>1, <1>2, SequenceInduction
<1> QED
  BY <1>3 DEF P

\* A buffer of lines, full buffers: flattened twice, what is in them.
LEMMA FlattenTwice ==
  ASSUME NEW S, NEW s \in Seq(Seq(Seq(S))), NEW x \in Seq(Seq(S))
  PROVE  /\ FlattenSeq(s) \in Seq(Seq(S)) /\ FlattenSeq(FlattenSeq(s)) \in Seq(S)
         /\ FlattenSeq(FlattenSeq(Append(s, x)))
              = FlattenSeq(FlattenSeq(s)) \o FlattenSeq(x)
         /\ FlattenSeq(FlattenSeq(<<x>> \o s))
              = FlattenSeq(x) \o FlattenSeq(FlattenSeq(s))
<1> DEFINE T == Seq(S)
<1>1. s \in Seq(Seq(T)) /\ x \in Seq(T) /\ <<x>> \in Seq(Seq(T))
  OBVIOUS
<1> HIDE DEF T
<1>2. FlattenSeq(s) \in Seq(T)
  BY <1>1, FlattenTyped
<1>3. FlattenSeq(Append(s, x)) = FlattenSeq(s) \o x
  BY <1>1, FlattenAppend
<1>4. FlattenSeq(<<x>> \o s) = x \o FlattenSeq(s)
  <2>1. FlattenSeq(<<x>> \o s) = FlattenSeq(<<x>>) \o FlattenSeq(s)
    BY <1>1, FlattenConcat
  <2> QED
    BY <1>1, <2>1, FlattenOne
<1> USE DEF T
<1>5. FlattenSeq(FlattenSeq(s)) \in Seq(S)
  BY <1>2, FlattenTyped
<1>6. FlattenSeq(FlattenSeq(s) \o x) = FlattenSeq(FlattenSeq(s)) \o FlattenSeq(x)
  BY <1>1, <1>2, FlattenConcat
<1>7. FlattenSeq(x \o FlattenSeq(s)) = FlattenSeq(x) \o FlattenSeq(FlattenSeq(s))
  BY <1>1, <1>2, FlattenConcat
<1> QED
  BY <1>2, <1>3, <1>4, <1>5, <1>6, <1>7

-----------------------------------------------------------------------------
(* LogFile *)

\* What a LogFile is: some files, the last of which is open, and stdio's lines.
LogFiles == [files : Seq(Seq(Line)) \ {<< >>}, stdio : Seq(Line)]

\* No file is too long, nor will the last be when stdio's lines are in it.
Bounded(f) == /\ WrittenLines(f) < RollSize + LargeBuffer
              /\ \A i \in DOMAIN f.files : Len(f.files[i]) < RollSize + LargeBuffer

\* A sequence is its front and its last element.
LEMMA FrontLast ==
  ASSUME NEW S, NEW s \in Seq(S), s # << >>
  PROVE  /\ Front(s) \in Seq(S) /\ Last(s) \in S
         /\ s = Append(Front(s), Last(s))
<1>1. PICK t \in Seq(S), e \in S : s = Append(t, e)
  BY SequenceEmptyOrAppend
<1>2. /\ Len(s) = Len(t) + 1 /\ Len(t) \in Nat
      /\ \A i \in 1..Len(t) : s[i] = t[i]
      /\ s[Len(t) + 1] = e
  BY <1>1, AppendProperties, LenProperties
<1>3. Last(s) = e
  BY <1>2 DEF Last
<1>4. \A i \in 1..Len(t) : s[i] \in S
  BY <1>2, LenProperties
<1>5. /\ SubSeq(s, 1, Len(t)) \in Seq(S)
      /\ Len(SubSeq(s, 1, Len(t))) = Len(t)
      /\ \A i \in 1..Len(t) : SubSeq(s, 1, Len(t))[i] = t[i]
  BY <1>2, <1>4, SubSeqProperties
<1>6. SubSeq(s, 1, Len(t)) = t
  BY <1>5, SeqEqual
<1>7. Len(s) - 1 = Len(t)
  BY <1>2
<1>8. Front(s) = t
  BY <1>6, <1>7 DEF Front
<1> QED
  BY <1>1, <1>3, <1>8

\* A sequence is the concatenation of what is before and after any of its places.
LEMMA Cut ==
  ASSUME NEW S, NEW s \in Seq(S), NEW k \in 0..Len(s)
  PROVE  /\ SubSeq(s, 1, k) \in Seq(S) /\ SubSeq(s, k + 1, Len(s)) \in Seq(S)
         /\ SubSeq(s, 1, k) \o SubSeq(s, k + 1, Len(s)) = s
         /\ Len(SubSeq(s, 1, k)) = k
         /\ Len(SubSeq(s, k + 1, Len(s))) = Len(s) - k
<1>1. Len(s) \in Nat /\ \A i \in 1..Len(s) : s[i] \in S
  BY LenProperties
<1>2. SubSeq(s, 1, k) \in Seq(S) /\ Len(SubSeq(s, 1, k)) = k
  BY <1>1, SubSeqProperties
<1>3. /\ SubSeq(s, k + 1, Len(s)) \in Seq(S)
      /\ Len(SubSeq(s, k + 1, Len(s))) = Len(s) - k
  <2>1. \A i \in (k + 1)..Len(s) : s[i] \in S
    BY <1>1
  <2>2. k + 1 \in Int /\ Len(s) \in Int
    BY <1>1
  <2> QED
    BY <1>1, <2>1, <2>2, SubSeqProperties
<1>4. SubSeq(s, 1, k) \o SubSeq(s, k + 1, Len(s)) = SubSeq(s, 1, Len(s))
  <2>1. /\ 1 \in 1..(Len(s) + 1) /\ k \in (1 - 1)..Len(s) /\ Len(s) \in k..Len(s)
    BY <1>1
  <2> QED
    BY <2>1, ConcatAdjacentSubSeq
<1>5. SubSeq(s, 1, Len(s)) = s
  BY SubSeqFull
<1> QED
  BY <1>2, <1>3, <1>4, <1>5

\* Passing lines on changes nothing but where they are.
LEMMA PassOnKeeps ==
  ASSUME NEW f \in LogFiles, NEW k \in 0..Len(f.stdio)
  PROVE  /\ PassOn(f, k) \in LogFiles
         /\ Content(PassOn(f, k)) = Content(f)
         /\ WrittenLines(PassOn(f, k)) = WrittenLines(f)
         /\ Bounded(f) => Bounded(PassOn(f, k))
         /\ k = Len(f.stdio) => PassOn(f, k).stdio = << >>
<1>1. f.files \in Seq(Seq(Line)) /\ f.files # << >> /\ f.stdio \in Seq(Line)
  BY DEF LogFiles
<1> DEFINE T == Seq(Line)
<1>2. PICK h, l, a, b : /\ h = Front(f.files) /\ l = Last(f.files)
                        /\ a = SubSeq(f.stdio, 1, k)
                        /\ b = SubSeq(f.stdio, k + 1, Len(f.stdio))
  OBVIOUS
<1>3. h \in Seq(T) /\ l \in T /\ f.files = Append(h, l)
  BY <1>1, <1>2, FrontLast
<1>4. /\ a \in T /\ b \in T /\ a \o b = f.stdio
      /\ Len(a) = k /\ Len(b) = Len(f.stdio) - k
  BY <1>1, <1>2, Cut
<1>5. l \o a \in T /\ Len(l \o a) = Len(l) + k
  BY <1>3, <1>4, ConcatProperties
<1>6. PassOn(f, k) = [files |-> Append(h, l \o a), stdio |-> b]
  <2>1. h \o <<l \o a>> = Append(h, l \o a)
    BY <1>3, <1>5, AppendIsConcat
  <2> QED
    BY <1>2, <2>1 DEF PassOn
<1>7. PICK s : s = Append(h, l \o a)
  OBVIOUS
<1>8. /\ s \in Seq(T) /\ s # << >> /\ Len(s) = Len(h) + 1 /\ s[Len(h) + 1] = l \o a
      /\ \A i \in 1..Len(h) : s[i] = h[i]
      /\ Len(h) \in Nat
  BY <1>3, <1>5, <1>7, AppendProperties, LenProperties
<1>9. Last(s) = l \o a
  BY <1>8 DEF Last
<1>10. PassOn(f, k).files = s /\ PassOn(f, k).stdio = b
  BY <1>6, <1>7
<1>11. PassOn(f, k) \in LogFiles
  BY <1>4, <1>6, <1>7, <1>8, SMTT(30) DEF LogFiles
<1>12. Content(PassOn(f, k)) = Content(f)
  <2>1. FlattenSeq(s) = FlattenSeq(h) \o (l \o a)
    BY <1>3, <1>5, <1>7, FlattenAppend
  <2>2. FlattenSeq(f.files) = FlattenSeq(h) \o l
    BY <1>3, FlattenAppend
  <2>3. PICK c : c = FlattenSeq(h)
    OBVIOUS
  <2>4. c \in Seq(Line) /\ l \in Seq(Line) /\ a \in Seq(Line) /\ b \in Seq(Line)
    BY <1>3, <1>4, <2>3, FlattenTyped
  <2>5. c \o (l \o a) = (c \o l) \o a
    BY <2>4, ConcatAssociative, SMTT(30)
  <2>6. c \o l \in Seq(Line)
    BY <2>4, ConcatProperties
  <2>7. ((c \o l) \o a) \o b = (c \o l) \o (a \o b)
    BY <2>4, <2>6, ConcatAssociative, SMTT(30)
  <2> QED
    BY <1>4, <1>10, <2>1, <2>2, <2>3, <2>5, <2>7 DEF Content
<1>13. Len(l) \in Nat /\ Len(f.stdio) \in Nat
  BY <1>1, <1>3, LenProperties
<1>w. WrittenLines(f) = Len(l) + Len(f.stdio)
  BY <1>2 DEF WrittenLines
<1>14. WrittenLines(PassOn(f, k)) = WrittenLines(f)
  <2>1. WrittenLines(PassOn(f, k)) = Len(l \o a) + Len(b)
    BY <1>9, <1>10 DEF WrittenLines
  <2>2. (Len(l) + k) + (Len(f.stdio) - k) = Len(l) + Len(f.stdio)
    <3>1. \A x, y, z \in Int : (x + y) + (z - y) = x + z
      OBVIOUS
    <3>2. Len(l) \in Int /\ k \in Int /\ Len(f.stdio) \in Int
      BY <1>13
    <3> QED
      BY <3>1, <3>2
  <2> QED
    BY <1>4, <1>5, <1>w, <2>1, <2>2
<1>15. Bounded(f) => Bounded(PassOn(f, k))
  <2> SUFFICES ASSUME Bounded(f), NEW i \in DOMAIN s
               PROVE  Len(s[i]) < RollSize + LargeBuffer
    BY <1>10, <1>14 DEF Bounded
  <2>1. i \in 1..(Len(h) + 1)
    BY <1>8, LenProperties
  <2>2. CASE i = Len(h) + 1
    <3>1. Len(l \o a) <= WrittenLines(f)
      BY <1>5, <1>w, <1>13
    <3>2. WrittenLines(f) \in Nat /\ RollSize + LargeBuffer \in Nat /\ Len(l \o a) \in Nat
      BY <1>5, <1>w, <1>13, BoundAssumption, RollAssumption
    <3> QED
      BY <1>8, <2>2, <3>1, <3>2 DEF Bounded
  <2>3. CASE i # Len(h) + 1
    <3>1. i \in 1..Len(h)
      BY <1>8, <2>1, <2>3
    <3>2. s[i] = f.files[i] /\ i \in DOMAIN f.files
      BY <1>3, <1>8, <3>1, AppendProperties, LenProperties
    <3> QED
      BY <3>2 DEF Bounded
  <2> QED
    BY <2>2, <2>3
<1>16. k = Len(f.stdio) => b = << >>
  BY <1>4, <1>13, EmptySeq
<1> QED
  BY <1>10, <1>11, <1>12, <1>14, <1>15, <1>16

\* Flush() passes everything on.
LEMMA FlushKeeps ==
  ASSUME NEW f \in LogFiles
  PROVE  /\ Flush(f) \in LogFiles /\ Content(Flush(f)) = Content(f)
         /\ WrittenLines(Flush(f)) = WrittenLines(f)
         /\ Flush(f).stdio = << >>
         /\ Bounded(f) => Bounded(Flush(f))
<1>1. f.stdio \in Seq(Line)
  BY DEF LogFiles
<1>2. Len(f.stdio) \in 0..Len(f.stdio)
  BY <1>1, LenProperties
<1> QED
  BY <1>2, PassOnKeeps DEF Flush

\* rollFile() does too, and nothing is in the new file.
LEMMA RollFileKeeps ==
  ASSUME NEW f \in LogFiles
  PROVE  /\ RollFile(f) \in LogFiles /\ Content(RollFile(f)) = Content(f)
         /\ WrittenLines(RollFile(f)) = 0
         /\ Bounded(f) => Bounded(RollFile(f))
<1> DEFINE T == Seq(Line)
<1>1. PICK g : g = Flush(f)
  OBVIOUS
<1>2. /\ g \in LogFiles /\ Content(g) = Content(f) /\ g.stdio = << >>
      /\ Bounded(f) => Bounded(g)
  BY <1>1, FlushKeeps
<1>3. g.files \in Seq(T) /\ << >> \in T
  BY <1>2, EmptySeq DEF LogFiles
<1>4. PICK s : s = Append(g.files, << >>)
  OBVIOUS
<1>5. /\ s \in Seq(T) /\ s # << >> /\ Len(s) = Len(g.files) + 1 /\ Len(g.files) \in Nat
      /\ s[Len(g.files) + 1] = << >>
      /\ \A i \in 1..Len(g.files) : s[i] = g.files[i]
  BY <1>3, <1>4, AppendProperties, LenProperties
<1>6. RollFile(f) = [files |-> s, stdio |-> << >>]
  <2>1. RollFile(f) = [g EXCEPT !.files = Append(@, << >>)]
    BY <1>1 DEF RollFile
  <2>2. g = [files |-> g.files, stdio |-> << >>]
    BY <1>2 DEF LogFiles
  <2>3. [g EXCEPT !.files = Append(@, << >>)] = [g EXCEPT !.files = s]
    BY <1>4
  <2> QED
    BY <2>1, <2>2, <2>3
<1>7. RollFile(f) \in LogFiles
  BY <1>5, <1>6, EmptySeq DEF LogFiles
<1>8. Content(RollFile(f)) = Content(f)
  <2>1. FlattenSeq(s) = FlattenSeq(g.files) \o << >>
    BY <1>3, <1>4, FlattenAppend
  <2>2. PICK c : c = FlattenSeq(g.files)
    OBVIOUS
  <2>3. c \in Seq(Line)
    BY <1>3, <2>2, FlattenTyped
  <2>4. c \o << >> = c
    BY <2>3, ConcatEmptySeq
  <2>5. Content(RollFile(f)) = FlattenSeq(s) \o << >>
    BY <1>6 DEF Content
  <2>6. Content(g) = c \o << >>
    BY <1>2, <2>2 DEF Content
  <2>7. FlattenSeq(s) = c
    BY <2>1, <2>2, <2>4
  <2> QED
    BY <1>2, <2>5, <2>6, <2>7
<1>9. WrittenLines(RollFile(f)) = 0
  <2>1. Last(s) = << >>
    BY <1>5 DEF Last
  <2> QED
    BY <1>6, <2>1 DEF WrittenLines
<1>10. ASSUME Bounded(f) PROVE Bounded(RollFile(f))
  <2>1. 0 < RollSize + LargeBuffer
    BY RollAssumption, BoundAssumption
  <2>2. ASSUME NEW i \in DOMAIN s PROVE Len(s[i]) < RollSize + LargeBuffer
    <3>1. i \in 1..(Len(g.files) + 1)
      BY <1>5, LenProperties
    <3>2. CASE i = Len(g.files) + 1
      BY <1>5, <2>1, <3>2
    <3>3. CASE i # Len(g.files) + 1
      <4>1. i \in 1..Len(g.files)
        BY <1>5, <3>1, <3>3
      <4>2. i \in DOMAIN g.files /\ s[i] = g.files[i]
        BY <1>3, <1>5, <4>1, LenProperties
      <4> QED
        BY <1>2, <1>10, <4>2 DEF Bounded
    <3> QED
      BY <3>2, <3>3
  <2> QED
    BY <1>6, <1>9, <2>1, <2>2 DEF Bounded
<1> QED
  BY <1>7, <1>8, <1>9, <1>10

\* append() adds its lines, once and at the end, whether it changes the file or not.
LEMMA AppendLinesAdds ==
  ASSUME NEW f \in LogFiles, WrittenLines(f) <= RollSize, Bounded(f),
         NEW lines \in Seq(Line), Len(lines) < LargeBuffer,
         NEW r \in AppendLines(f, lines)
  PROVE  /\ r \in LogFiles /\ Content(r) = Content(f) \o lines
         /\ WrittenLines(r) <= RollSize /\ Bounded(r)
<1>1. /\ f.files \in Seq(Seq(Line)) /\ f.files # << >> /\ f.stdio \in Seq(Line)
      /\ f = [files |-> f.files, stdio |-> f.stdio]
  BY DEF LogFiles
<1>2. PICK u : u = f.stdio \o lines
  OBVIOUS
<1>3. u \in Seq(Line) /\ Len(u) = Len(f.stdio) + Len(lines)
  BY <1>1, <1>2, ConcatProperties
<1>4. PICK e : e = [f EXCEPT !.stdio = @ \o lines]
  OBVIOUS
<1>5. e = [files |-> f.files, stdio |-> u]
  BY <1>1, <1>2, <1>4
<1>6. e \in LogFiles
  BY <1>1, <1>3, <1>5 DEF LogFiles
<1>7. Content(e) = Content(f) \o lines
  <2>1. PICK c : c = FlattenSeq(f.files)
    OBVIOUS
  <2>2. c \in Seq(Line) /\ f.stdio \in Seq(Line) /\ lines \in Seq(Line)
    BY <1>1, <2>1, FlattenTyped
  <2>3. PICK a : a = f.stdio
    OBVIOUS
  <2>4. c \in Seq(Line) /\ a \in Seq(Line) /\ lines \in Seq(Line)
    BY <2>2, <2>3
  <2>5. (c \o a) \o lines = c \o (a \o lines)
    BY <2>4, ConcatAssociative
  <2> QED
    BY <1>2, <1>5, <2>1, <2>3, <2>5 DEF Content
<1>8. Last(f.files) \in Seq(Line)
  BY <1>1, FrontLast
<1>9. /\ Len(Last(f.files)) \in Nat /\ Len(f.stdio) \in Nat /\ Len(lines) \in Nat
      /\ RollSize \in Nat /\ LargeBuffer \in Nat
  BY <1>1, <1>8, LenProperties, RollAssumption, BoundAssumption
<1>10. Bounded(e)
  <2>1. WrittenLines(e) = Len(Last(f.files)) + (Len(f.stdio) + Len(lines))
    BY <1>3, <1>5 DEF WrittenLines
  <2>2. Len(Last(f.files)) + Len(f.stdio) <= RollSize
    BY DEF WrittenLines
  <2>3. WrittenLines(e) < RollSize + LargeBuffer
    <3>1. \A x, y, z, n, m \in Nat : x + y <= n /\ z < m => x + (y + z) < n + m
      OBVIOUS
    <3> QED
      BY <1>9, <2>1, <2>2, <3>1
  <2> QED
    BY <1>5, <2>3 DEF Bounded
<1>11. Written(f, lines) = {PassOn(e, k) : k \in 0..Len(e.stdio)}
  BY <1>4 DEF Written
<1>12. PICK g \in Written(f, lines) :
         r \in IF WrittenLines(g) > RollSize THEN {RollFile(g)}
               ELSE {RollFile(g), Flush(g), g}
  BY DEF AppendLines
<1>13. PICK k \in 0..Len(e.stdio) : g = PassOn(e, k)
  BY <1>11, <1>12
<1>14. g \in LogFiles /\ Content(g) = Content(e) /\ Bounded(g)
  BY <1>6, <1>10, <1>13, PassOnKeeps
<1>15. WrittenLines(g) \in Int
  <2>1. g.files \in Seq(Seq(Line)) /\ g.files # << >> /\ g.stdio \in Seq(Line)
    BY <1>14 DEF LogFiles
  <2>2. Last(g.files) \in Seq(Line)
    BY <2>1, FrontLast
  <2> QED
    BY <2>1, <2>2, LenProperties DEF WrittenLines
<1>16. CASE r = RollFile(g)
  BY <1>7, <1>9, <1>14, <1>16, RollFileKeeps
<1>17. CASE WrittenLines(g) <= RollSize /\ r \in {Flush(g), g}
  BY <1>7, <1>14, <1>17, FlushKeeps
<1> QED
  BY <1>9, <1>12, <1>15, <1>16, <1>17

-----------------------------------------------------------------------------
(* The inductive invariant *)

\* A buffer that is never filled to its last byte, or a null pointer.
Pointers == {p \in Seq(Seq(Line)) : IsBuffer(p)}

\* What the lines and the buffers are.
Typed == /\ output \in LogFiles
         /\ currentBuffer \in Pointers
         /\ buffers \in Seq(Pointers) /\ buffersToWrite \in Seq(Pointers)
         /\ {nextBuffer, newBuffer1, newBuffer2} \subseteq {NoBuffer, EmptyBuffer}
         /\ appended \in Seq(Line)
         /\ running \in BOOLEAN /\ failed \in BOOLEAN
         /\ pc \in {"while", "critical", "waiting", "awake", "writing", "done"}
         /\ stopping \in {"no", "set", "joining"}
         /\ count \in [Producers -> 0..MaxLines]

\* Nothing is on its way from the thread to the file when a round is over.
BetweenRounds == pc # "writing" => output.stdio = << >> /\ buffersToWrite = << >>

\* A file that has lines for another is closed at once.
Rolled == WrittenLines(output) <= RollSize /\ Bounded(output)

\* The lines of a file, of what the thread has of them, and of append()'s buffers.
Lines(o, w, b, c) ==
  ((Content(o) \o FlattenSeq(FlattenSeq(w))) \o FlattenSeq(FlattenSeq(b))) \o FlattenSeq(c)

\* They are all there, in the order of appended.
NoneLost == Lines(output, buffersToWrite, buffers, currentBuffer) = appended

IInv == Typed /\ BetweenRounds /\ Rolled /\ NoneLost

-----------------------------------------------------------------------------
(* Buffers *)

\* A sequence of pointers is one of sequences of lines, and so is what it flattens to.
LEMMA PointersFlatten ==
  ASSUME NEW s \in Seq(Pointers)
  PROVE  /\ s \in Seq(Seq(Seq(Line))) /\ FlattenSeq(s) \in Seq(Seq(Line))
         /\ FlattenSeq(FlattenSeq(s)) \in Seq(Line)
<1> DEFINE T == Seq(Line)
<1>1. Pointers \subseteq Seq(T)
  BY DEF Pointers
<1>2. s \in Seq(Seq(T))
  BY <1>1, SeqMonotonic
<1>3. FlattenSeq(s) \in Seq(T)
  <2> HIDE DEF T
  <2> QED
    BY <1>2, FlattenTyped
<1>4. FlattenSeq(FlattenSeq(s)) \in Seq(Line)
  BY <1>3, FlattenTyped
<1> QED
  BY <1>2, <1>3, <1>4

\* Null pointers and empty buffers have no lines.
LEMMA NoLines ==
  /\ NoBuffer \in Pointers /\ EmptyBuffer \in Pointers
  /\ FlattenSeq(NoBuffer) = << >> /\ FlattenSeq(EmptyBuffer) = << >>
  /\ FlattenSeq(FlattenSeq(<< >>)) = << >>
<1>1. << >> \in Seq(Line) /\ << >> \in Seq(Seq(Line)) /\ << << >> >> \in Seq(Seq(Line))
  OBVIOUS
<1>2. LargeBuffer \in Nat /\ LargeBuffer > 1
  BY BoundAssumption
<1>3. NoBuffer \in Pointers /\ EmptyBuffer \in Pointers
  BY <1>1, <1>2 DEF Pointers, IsBuffer, NoBuffer, EmptyBuffer
<1>4. FlattenSeq(<< << >> >>) = << >>
  BY <1>1, FlattenOne
<1> QED
  BY <1>3, <1>4, FlattenNothing DEF NoBuffer, EmptyBuffer

\* A pointer is null or has the lines of its buffer.
LEMMA PointerLines ==
  ASSUME NEW p \in Pointers
  PROVE  /\ p \in Seq(Seq(Line)) /\ FlattenSeq(p) \in Seq(Line)
         /\ p # NoBuffer => /\ p[1] \in Seq(Line) /\ Len(p[1]) < LargeBuffer
                            /\ p = << p[1] >> /\ FlattenSeq(p) = p[1]
<1>1. p \in Seq(Seq(Line)) /\ IsBuffer(p)
  BY DEF Pointers
<1>2. FlattenSeq(p) \in Seq(Line)
  BY <1>1, FlattenTyped
<1>3. ASSUME p # NoBuffer
      PROVE  /\ p[1] \in Seq(Line) /\ Len(p[1]) < LargeBuffer
             /\ p = << p[1] >>
  <2>1. Len(p) = 1 /\ Len(p[1]) < LargeBuffer
    BY <1>1, <1>3 DEF IsBuffer
  <2>2. p[1] \in Seq(Line)
    BY <1>1, <2>1, ElementOfSeq
  <2>3. p = << p[1] >>
    BY <1>1, <2>1, <2>2
  <2> QED
    BY <2>1, <2>2, <2>3
<1>4. p # NoBuffer => FlattenSeq(p) = p[1]
  BY <1>3, FlattenOne
<1> QED
  BY <1>1, <1>2, <1>3, <1>4

\* The lines of a LogFile.
LEMMA ContentTyped ==
  ASSUME NEW o \in LogFiles
  PROVE  Content(o) \in Seq(Line)
<1>1. o.files \in Seq(Seq(Line)) /\ o.stdio \in Seq(Line)
  BY DEF LogFiles
<1>2. FlattenSeq(o.files) \in Seq(Line)
  BY <1>1, FlattenTyped
<1> QED
  BY <1>1, <1>2, ConcatProperties DEF Content

\* A line that goes into the current buffer, or into the next when that one is handed
\* over, comes last.
LEMMA LineAdded ==
  ASSUME NEW o \in LogFiles, NEW w \in Seq(Pointers), NEW b \in Seq(Pointers),
         NEW c \in Pointers, c # NoBuffer, NEW line \in Line
  PROVE  /\ Lines(o, w, b, << Append(c[1], line) >>) = Append(Lines(o, w, b, c), line)
         /\ Lines(o, w, Append(b, c), << <<line>> >>) = Append(Lines(o, w, b, c), line)
         /\ Append(b, c) \in Seq(Pointers)
<1>1. PICK x, y, z, e : /\ x = Content(o) \o FlattenSeq(FlattenSeq(w))
                        /\ y = FlattenSeq(FlattenSeq(b))
                        /\ z = FlattenSeq(c)
                        /\ e = <<line>>
  OBVIOUS
<1>2. /\ x \in Seq(Line) /\ y \in Seq(Line) /\ z \in Seq(Line) /\ e \in Seq(Line)
      /\ x \o y \in Seq(Line)
  <2>1. Content(o) \in Seq(Line) /\ FlattenSeq(FlattenSeq(w)) \in Seq(Line)
    BY ContentTyped, PointersFlatten
  <2>2. x \in Seq(Line)
    BY <1>1, <2>1, ConcatProperties
  <2>3. y \in Seq(Line)
    BY <1>1, PointersFlatten
  <2>4. z \in Seq(Line)
    BY <1>1, PointerLines
  <2> QED
    BY <1>1, <2>2, <2>3, <2>4, ConcatProperties
<1>3. c[1] = z
  BY <1>1, PointerLines
<1>4. (x \o y) \o z \in Seq(Line)
  BY <1>2, ConcatProperties
<1>5. Append((x \o y) \o z, line) = ((x \o y) \o z) \o e
  BY <1>1, <1>4, AppendIsConcat
<1>6. FlattenSeq(<<Append(z, line)>>) = z \o e
  <2>1. Append(z, line) = z \o e
    BY <1>1, <1>2, AppendIsConcat
  <2>2. z \o e \in Seq(Line)
    BY <1>2, ConcatProperties
  <2> QED
    BY <2>1, <2>2, FlattenOne
<1>7. (x \o y) \o (z \o e) = ((x \o y) \o z) \o e
  <2>1. PICK v : v = x \o y
    OBVIOUS
  <2>2. v \in Seq(Line) /\ z \in Seq(Line) /\ e \in Seq(Line)
    BY <1>2, <2>1
  <2>3. v \o (z \o e) = (v \o z) \o e
    BY <2>2, ConcatAssociative, SMTT(30)
  <2> QED
    BY <2>1, <2>3
<1>8. FlattenSeq(FlattenSeq(Append(b, c))) = y \o z
  BY <1>1, PointersFlatten, PointerLines, FlattenTwice
<1>9. FlattenSeq(<< <<line>> >>) = e
  BY <1>1, <1>2, FlattenOne
<1>10. x \o (y \o z) = (x \o y) \o z
  BY <1>2, ConcatAssociative, SMTT(30)
<1>11. Lines(o, w, b, c) = (x \o y) \o z
  BY <1>1 DEF Lines
<1>12. Lines(o, w, b, << Append(c[1], line) >>) = (x \o y) \o (z \o e)
  BY <1>1, <1>3, <1>6 DEF Lines
<1>13. Lines(o, w, Append(b, c), << <<line>> >>) = (x \o (y \o z)) \o e
  BY <1>1, <1>8, <1>9 DEF Lines
<1>14. Append(b, c) \in Seq(Pointers)
  BY AppendProperties
<1> QED
  BY <1>5, <1>7, <1>10, <1>11, <1>12, <1>13, <1>14

\* When the thread has none, the swap gives it all of append()'s lines in their order.
LEMMA LinesSwapped ==
  ASSUME NEW o \in LogFiles, NEW b \in Seq(Pointers), NEW c \in Pointers,
         NEW d \in {NoBuffer, EmptyBuffer}
  PROVE  /\ Lines(o, Append(b, c), << >>, d) = Lines(o, << >>, b, c)
         /\ Append(b, c) \in Seq(Pointers)
<1>1. PICK x, y, z : /\ x = Content(o)
                     /\ y = FlattenSeq(FlattenSeq(b))
                     /\ z = FlattenSeq(c)
  OBVIOUS
<1>2. x \in Seq(Line) /\ y \in Seq(Line) /\ z \in Seq(Line)
  BY <1>1, ContentTyped, PointersFlatten, PointerLines
<1>3. FlattenSeq(FlattenSeq(Append(b, c))) = y \o z
  BY <1>1, PointersFlatten, PointerLines, FlattenTwice
<1>4. x \o (y \o z) = (x \o y) \o z
  BY <1>2, ConcatAssociative
<1>5. x \o y \in Seq(Line) /\ (x \o y) \o z \in Seq(Line)
  BY <1>2, ConcatProperties
<1>6. /\ ((x \o (y \o z)) \o << >>) \o << >> = (x \o y) \o z
      /\ ((x \o << >>) \o y) \o z = (x \o y) \o z
  BY <1>2, <1>4, <1>5, ConcatEmptySeq
<1>7. FlattenSeq(d) = << >> /\ FlattenSeq(FlattenSeq(<< >>)) = << >>
  BY NoLines
<1>8. Lines(o, Append(b, c), << >>, d) = ((x \o (y \o z)) \o << >>) \o << >>
  BY <1>1, <1>3, <1>7 DEF Lines
<1>9. Lines(o, << >>, b, c) = ((x \o << >>) \o y) \o z
  BY <1>1, <1>7 DEF Lines
<1>10. Append(b, c) \in Seq(Pointers)
  BY AppendProperties
<1> QED
  BY <1>6, <1>8, <1>9, <1>10

\* The lines of the thread's first buffer are the next to go into the file.
LEMMA LinesWritten ==
  ASSUME NEW o \in LogFiles, NEW r \in LogFiles, NEW w \in Seq(Pointers), w # << >>,
         Head(w) # NoBuffer, Content(r) = Content(o) \o Head(w)[1],
         NEW b, NEW c
  PROVE  /\ Lines(r, Tail(w), b, c) = Lines(o, w, b, c)
         /\ Tail(w) \in Seq(Pointers)
<1>1. PICK h, t : h = Head(w) /\ t = Tail(w)
  OBVIOUS
<1>2. h \in Pointers /\ t \in Seq(Pointers) /\ w = <<h>> \o t
  <2>1. w = <<Head(w)>> \o Tail(w) /\ Head(w) \in Pointers /\ Tail(w) \in Seq(Pointers)
    OBVIOUS
  <2> QED
    BY <1>1, <2>1
<1>3. PICK x, y, z : x = Content(o) /\ y = FlattenSeq(h) /\ z = FlattenSeq(FlattenSeq(t))
  OBVIOUS
<1>4. h[1] = y
  BY <1>1, <1>2, <1>3, PointerLines
<1>5. x \in Seq(Line) /\ y \in Seq(Line) /\ z \in Seq(Line)
  BY <1>2, <1>3, ContentTyped, PointerLines, PointersFlatten
<1>6. FlattenSeq(FlattenSeq(w)) = y \o z
  <2>1. FlattenSeq(FlattenSeq(<<h>> \o t)) = FlattenSeq(h) \o FlattenSeq(FlattenSeq(t))
    BY <1>2, PointersFlatten, PointerLines, FlattenTwice
  <2> QED
    BY <1>2, <1>3, <2>1
<1>7. Content(r) = x \o y
  BY <1>1, <1>3, <1>4
<1>8. (x \o y) \o z = x \o (y \o z)
  BY <1>5, ConcatAssociative
<1>9. /\ Content(r) \o FlattenSeq(FlattenSeq(t)) = (x \o y) \o z
      /\ Content(o) \o FlattenSeq(FlattenSeq(w)) = x \o (y \o z)
  BY <1>3, <1>6, <1>7
<1>10. Content(r) \o FlattenSeq(FlattenSeq(t)) = Content(o) \o FlattenSeq(FlattenSeq(w))
  BY <1>8, <1>9
<1> QED
  BY <1>1, <1>2, <1>10 DEF Lines

-----------------------------------------------------------------------------
(* The steps *)

\* The initial state satisfies the invariant: there is no line anywhere.
LEMMA InitIInv == Init => IInv
<1> SUFFICES ASSUME Init PROVE IInv
  OBVIOUS
<1>1. /\ << >> \in Seq(Line) /\ << >> \in Seq(Pointers)
      /\ << << >> >> \in Seq(Seq(Line)) /\ << << >> >> # << >>
  OBVIOUS
<1>2. Opened \in LogFiles
  BY <1>1 DEF Opened, LogFiles
<1>3. /\ RollSize \in Nat /\ LargeBuffer \in Nat /\ LargeBuffer > 1 /\ MaxLines \in Nat
  BY RollAssumption, BoundAssumption
<1>4. Typed
  <2>1. count \in [Producers -> 0..MaxLines]
    BY <1>3 DEF Init
  <2>2. /\ running \in BOOLEAN /\ failed \in BOOLEAN
        /\ pc \in {"while", "critical", "waiting", "awake", "writing", "done"}
        /\ stopping \in {"no", "set", "joining"}
    BY DEF Init
  <2> QED
    BY <1>1, <1>2, <2>1, <2>2, NoLines DEF Init, Typed
<1>5. WrittenLines(Opened) = 0
  BY DEF WrittenLines, Opened, Last
<1>6. Bounded(Opened)
  BY <1>3, <1>5 DEF Bounded, Opened
<1>7. Content(Opened) = << >>
  BY NoLines DEF Content, Opened, EmptyBuffer
<1>8. NoneLost
  BY <1>7, NoLines DEF Init, NoneLost, Lines
<1> QED
  BY <1>3, <1>4, <1>5, <1>6, <1>8 DEF Init, IInv, BetweenRounds, Rolled, Opened

\* append() puts its line after all others.
LEMMA AppendLineStep ==
  ASSUME IInv, NEW p \in Producers, AppendLine(p)
  PROVE  IInv'
<1> DEFINE line == <<p, count'[p]>>
<1>1. count' \in [Producers -> 0..MaxLines] /\ line \in Line
  <2>1. count \in [Producers -> 0..MaxLines] /\ count[p] < MaxLines /\ MaxLines \in Nat
    BY BoundAssumption DEF IInv, Typed, AppendLine
  <2>2. count' = [count EXCEPT ![p] = count[p] + 1]
    BY DEF AppendLine
  <2>3. count[p] + 1 \in 1..MaxLines
    BY <2>1
  <2> QED
    BY <2>1, <2>2, <2>3 DEF Line
<1>2. UNCHANGED <<running, locals, output, stopping>>
  BY DEF AppendLine
<1>3. CASE currentBuffer = NoBuffer
  <2>1. failed' = TRUE /\ UNCHANGED <<shared, pc, appended>>
    BY <1>3 DEF AppendLine
  <2> QED
    BY <1>1, <1>2, <2>1
    DEF IInv, Typed, BetweenRounds, Rolled, NoneLost, shared, locals
<1>4. CASE currentBuffer # NoBuffer
  <2>1. /\ IF Fits
           THEN /\ currentBuffer' = << Append(currentBuffer[1], line) >>
                /\ UNCHANGED <<buffers, nextBuffer, pc>>
           ELSE HandOver(line)
        /\ appended' = Append(appended, line)
        /\ UNCHANGED failed
    BY <1>4 DEF AppendLine
  <2> HIDE DEF line
  <2>2. /\ output \in LogFiles /\ buffersToWrite \in Seq(Pointers)
        /\ buffers \in Seq(Pointers) /\ currentBuffer \in Pointers
    BY DEF IInv, Typed
  <2>3. /\ currentBuffer[1] \in Seq(Line) /\ Len(currentBuffer[1]) \in Nat
        /\ Len(currentBuffer[1]) < LargeBuffer
        /\ LargeBuffer \in Nat /\ LargeBuffer > 1
    BY <1>4, <2>2, PointerLines, LenProperties, BoundAssumption
  <2>4. /\ currentBuffer' \in Pointers /\ buffers' \in Seq(Pointers)
        /\ nextBuffer' \in {NoBuffer, EmptyBuffer}
        /\ Lines(output, buffersToWrite, buffers', currentBuffer')
             = Append(Lines(output, buffersToWrite, buffers, currentBuffer), line)
        /\ pc' \in {"while", "critical", "waiting", "awake", "writing", "done"}
        /\ pc' = "writing" <=> pc = "writing"
    <3>1. CASE Fits
      <4>1. /\ currentBuffer' = << Append(currentBuffer[1], line) >>
            /\ UNCHANGED <<buffers, nextBuffer, pc>>
        BY <2>1, <3>1
      <4>2. PICK a : a = Append(currentBuffer[1], line)
        OBVIOUS
      <4>3. a \in Seq(Line) /\ Len(a) = Len(currentBuffer[1]) + 1
        BY <1>1, <2>3, <4>2, AppendProperties
      <4>4. Len(a) < LargeBuffer
        BY <2>3, <3>1, <4>3 DEF Fits
      <4>5. <<a>> \in Pointers
        BY <4>3, <4>4 DEF Pointers, IsBuffer
      <4>6. nextBuffer \in {NoBuffer, EmptyBuffer}
            /\ pc \in {"while", "critical", "waiting", "awake", "writing", "done"}
        BY DEF IInv, Typed
      <4>7. Lines(output, buffersToWrite, buffers, currentBuffer')
             = Append(Lines(output, buffersToWrite, buffers, currentBuffer), line)
        BY <1>1, <1>4, <2>2, <4>1, LineAdded
      <4> QED
        BY <2>2, <4>1, <4>2, <4>5, <4>6, <4>7
    <3>2. CASE ~Fits
      <4>1. HandOver(line)
        BY <2>1, <3>2
      <4>2. /\ nextBuffer \in {NoBuffer, EmptyBuffer}
            /\ pc \in {"while", "critical", "waiting", "awake", "writing", "done"}
        BY DEF IInv, Typed
      <4>3. (IF nextBuffer # NoBuffer THEN nextBuffer[1] ELSE << >>) = << >>
        BY <4>2 DEF EmptyBuffer
      <4>4. << >> \o <<line>> = <<line>>
        OBVIOUS
      <4>5. currentBuffer' = << <<line>> >>
        BY <4>1, <4>3, <4>4 DEF HandOver
      <4>6. << <<line>> >> \in Pointers
        <5>1. PICK a : a = <<line>>
          OBVIOUS
        <5>2. a \in Seq(Line) /\ Len(a) = 1
          BY <1>1, <5>1
        <5>3. <<a>> \in Seq(Seq(Line)) /\ Len(<<a>>) = 1 /\ <<a>>[1] = a
          BY <5>2
        <5> QED
          BY <2>3, <5>1, <5>2, <5>3 DEF Pointers, IsBuffer
      <4>7. buffers' = Append(buffers, currentBuffer) /\ nextBuffer' = NoBuffer
        BY <4>1 DEF HandOver
      <4>8. /\ pc' \in {"while", "critical", "waiting", "awake", "writing", "done"}
            /\ pc' = "writing" <=> pc = "writing"
        BY <4>1, <4>2 DEF HandOver, Notify
      <4>9. /\ Lines(output, buffersToWrite, buffers', currentBuffer')
                 = Append(Lines(output, buffersToWrite, buffers, currentBuffer), line)
            /\ buffers' \in Seq(Pointers)
        BY <1>1, <1>4, <2>2, <4>5, <4>7, LineAdded
      <4> QED
        BY <4>5, <4>6, <4>7, <4>8, <4>9
    <3> QED
      BY <3>1, <3>2
  <2>5. appended' \in Seq(Line)
    BY <1>1, <2>1, AppendProperties DEF IInv, Typed
  <2>6. Typed'
    BY <1>1, <1>2, <2>1, <2>4, <2>5 DEF IInv, Typed, locals
  <2>7. NoneLost'
    <3>1. Lines(output, buffersToWrite, buffers, currentBuffer) = appended
      BY DEF IInv, NoneLost
    <3>2. output' = output /\ buffersToWrite' = buffersToWrite
      BY <1>2 DEF locals
    <3> QED
      BY <2>1, <2>4, <3>1, <3>2 DEF NoneLost
  <2>8. BetweenRounds' /\ Rolled'
    BY <1>2, <2>4 DEF IInv, BetweenRounds, Rolled, locals
  <2> QED
    BY <2>6, <2>7, <2>8 DEF IInv
<1> QED
  BY <1>3, <1>4

\* The thread takes append()'s buffers when it has none of its own.
LEMMA SwapStep ==
  ASSUME IInv, Swap, pc # "writing",
         UNCHANGED <<running, output, stopping, count, appended, failed>>
  PROVE  IInv'
<1>1. /\ output \in LogFiles /\ buffers \in Seq(Pointers) /\ currentBuffer \in Pointers
      /\ newBuffer1 \in {NoBuffer, EmptyBuffer} /\ newBuffer2 \in {NoBuffer, EmptyBuffer}
      /\ nextBuffer \in {NoBuffer, EmptyBuffer}
      /\ buffersToWrite = << >>
  BY DEF IInv, Typed, BetweenRounds
<1>2. /\ buffersToWrite' = Append(buffers, currentBuffer) /\ buffers' = << >>
      /\ currentBuffer' = newBuffer1 /\ newBuffer1' = NoBuffer
      /\ pc' = "writing"
      /\ UNCHANGED <<running, output, stopping, count, appended, failed>>
  BY DEF Swap, Collected
<1>3. nextBuffer' \in {NoBuffer, EmptyBuffer} /\ newBuffer2' \in {NoBuffer, EmptyBuffer}
  <2>1. CASE nextBuffer = NoBuffer
    BY <1>1, <2>1 DEF Swap
  <2>2. CASE nextBuffer # NoBuffer
    BY <1>1, <2>2 DEF Swap
  <2> QED
    BY <2>1, <2>2
<1>4. /\ Lines(output, Append(buffers, currentBuffer), << >>, newBuffer1)
           = Lines(output, << >>, buffers, currentBuffer)
      /\ Append(buffers, currentBuffer) \in Seq(Pointers)
  BY <1>1, LinesSwapped
<1>5. NoneLost'
  <2>1. Lines(output, buffersToWrite, buffers, currentBuffer) = appended
    BY DEF IInv, NoneLost
  <2> QED
    BY <1>1, <1>2, <1>4, <2>1 DEF NoneLost
<1>6. << >> \in Seq(Pointers) /\ currentBuffer' \in Pointers
  BY <1>1, <1>2, NoLines
<1>7. Typed'
  BY <1>2, <1>3, <1>4, <1>6 DEF IInv, Typed
<1>8. BetweenRounds' /\ Rolled'
  BY <1>2 DEF IInv, BetweenRounds, Rolled
<1> QED
  BY <1>5, <1>7, <1>8 DEF IInv

\* The thread flushes the file.
LEMMA FlushStep ==
  ASSUME IInv, output' = Flush(output), pc' \in {"while", "done"},
         buffersToWrite = << >>,
         UNCHANGED <<running, shared, locals, stopping, count, appended, failed>>
  PROVE  IInv'
<1>1. /\ output' \in LogFiles /\ Content(output') = Content(output)
      /\ WrittenLines(output') = WrittenLines(output) /\ output'.stdio = << >>
      /\ Bounded(output) => Bounded(output')
  BY FlushKeeps DEF IInv, Typed
<1>2. Typed'
  BY <1>1 DEF IInv, Typed, shared, locals
<1>3. BetweenRounds'
  BY <1>1 DEF BetweenRounds, locals
<1>4. Rolled'
  BY <1>1 DEF IInv, Rolled
<1>5. NoneLost'
  BY <1>1 DEF IInv, NoneLost, Lines, shared, locals
<1> QED
  BY <1>2, <1>3, <1>4, <1>5 DEF IInv

\* The thread's first buffer is appended to the file.
LEMMA WriteBufferStep ==
  ASSUME IInv, WriteBuffer
  PROVE  IInv'
<1>1. /\ pc = "writing" /\ buffersToWrite # << >>
      /\ UNCHANGED <<running, pc, shared, newBuffer1, newBuffer2, stopping, count, appended>>
  BY DEF WriteBuffer
<1>2. CASE Head(buffersToWrite) = NoBuffer
  <2>1. failed' = TRUE /\ UNCHANGED <<output, buffersToWrite>>
    BY <1>2 DEF WriteBuffer
  <2> QED
    BY <1>1, <2>1 DEF IInv, Typed, BetweenRounds, Rolled, NoneLost, shared
<1>3. CASE Head(buffersToWrite) # NoBuffer
  <2>1. /\ output' \in AppendLines(output, Head(buffersToWrite)[1])
        /\ buffersToWrite' = Tail(buffersToWrite)
        /\ UNCHANGED failed
    BY <1>3 DEF WriteBuffer
  <2>2. /\ output \in LogFiles /\ buffersToWrite \in Seq(Pointers)
        /\ WrittenLines(output) <= RollSize /\ Bounded(output)
    BY DEF IInv, Typed, Rolled
  <2>3. Head(buffersToWrite) \in Pointers
    BY <1>1, <2>2
  <2>4. /\ Head(buffersToWrite)[1] \in Seq(Line)
        /\ Len(Head(buffersToWrite)[1]) < LargeBuffer
    BY <1>3, <2>3, PointerLines
  <2>5. /\ output' \in LogFiles
        /\ Content(output') = Content(output) \o Head(buffersToWrite)[1]
        /\ WrittenLines(output') <= RollSize /\ Bounded(output')
    BY <2>1, <2>2, <2>4, AppendLinesAdds
  <2>6. /\ Lines(output', Tail(buffersToWrite), buffers, currentBuffer)
             = Lines(output, buffersToWrite, buffers, currentBuffer)
        /\ Tail(buffersToWrite) \in Seq(Pointers)
    BY <1>1, <1>3, <2>2, <2>5, LinesWritten
  <2>7. NoneLost'
    <3>1. Lines(output, buffersToWrite, buffers, currentBuffer) = appended
      BY DEF IInv, NoneLost
    <3> QED
      BY <1>1, <2>1, <2>6, <3>1 DEF NoneLost, shared
  <2>8. Typed'
    BY <1>1, <2>1, <2>5, <2>6 DEF IInv, Typed, shared
  <2>9. BetweenRounds' /\ Rolled'
    BY <1>1, <2>5 DEF BetweenRounds, Rolled
  <2> QED
    BY <2>7, <2>8, <2>9 DEF IInv
<1> QED
  BY <1>2, <1>3

\* Every step preserves the invariant.
LEMMA NextIInv == IInv /\ [Next]_vars => IInv'
<1> SUFFICES ASSUME IInv, [Next]_vars PROVE IInv'
  OBVIOUS
<1>1. ASSUME NEW p \in Producers, AppendLine(p) PROVE IInv'
  BY <1>1, AppendLineStep
<1>2. CASE Stop
  <2>1. running' \in BOOLEAN /\ stopping' \in {"no", "set", "joining"}
    BY <1>2 DEF Stop
  <2> QED
    BY <1>2, <2>1
    DEF Stop, IInv, Typed, BetweenRounds, Rolled, NoneLost, shared, locals
<1>3. CASE StopNotifies
  <2>1. /\ pc' \in {"while", "critical", "waiting", "awake", "writing", "done"}
        /\ pc' = "writing" <=> pc = "writing"
        /\ stopping' \in {"no", "set", "joining"}
    BY <1>3 DEF StopNotifies, Notify, IInv, Typed
  <2> QED
    BY <1>3, <2>1
    DEF StopNotifies, IInv, Typed, BetweenRounds, Rolled, NoneLost, shared, locals
<1>4. CASE TestRunning
  <2>1. CASE running
    <3>1. pc = "while" /\ pc' = "critical" /\ UNCHANGED output
      BY <1>4, <2>1 DEF TestRunning
    <3> QED
      BY <1>4, <3>1
      DEF TestRunning, IInv, Typed, BetweenRounds, Rolled, NoneLost, shared, locals
  <2>2. CASE ~running
    <3>1. /\ pc' = "done" /\ output' = Flush(output)
          /\ UNCHANGED <<running, shared, locals, stopping, count, appended, failed>>
      BY <1>4, <2>2 DEF TestRunning
    <3>2. buffersToWrite = << >>
      BY <1>4 DEF TestRunning, IInv, BetweenRounds
    <3> QED
      BY <3>1, <3>2, FlushStep
  <2> QED
    BY <2>1, <2>2
<1>5. CASE EnterCritical
  <2>1. CASE buffers = << >>
    <3>1. pc = "critical" /\ pc' = "waiting" /\ UNCHANGED <<shared, locals>>
      BY <1>5, <2>1 DEF EnterCritical
    <3> QED
      BY <1>5, <3>1
      DEF EnterCritical, IInv, Typed, BetweenRounds, Rolled, NoneLost, shared, locals
  <2>2. CASE buffers # << >>
    BY <1>5, <2>2, SwapStep DEF EnterCritical
  <2> QED
    BY <2>1, <2>2
<1>6. CASE LeaveCritical
  BY <1>6, SwapStep DEF LeaveCritical, WaitReturns
<1>7. CASE WriteBuffer
  BY <1>7, WriteBufferStep
<1>8. CASE Refill
  BY <1>8, FlushStep DEF Refill
<1>9. CASE UNCHANGED vars
  BY <1>9
  DEF vars, IInv, Typed, BetweenRounds, Rolled, NoneLost, shared, locals
<1> QED
  BY <1>1, <1>2, <1>3, <1>4, <1>5, <1>6, <1>7, <1>8, <1>9 DEF Next, ThreadStep

-----------------------------------------------------------------------------
(* The theorems *)

\* The invariant holds in every state of append(), stop() and threadFunc().
THEOREM Invariance == Spec => []IInv
BY InitIInv, NextIInv, PTL DEF Spec

\* Type correctness: no line is put into a buffer that has no room for it, and no file
\* outgrows rollSize_ by more than one buffer.
THEOREM TypeCorrect == Spec => []TypeOK
<1>1. IInv => TypeOK
  <2> SUFFICES ASSUME IInv PROVE TypeOK
    OBVIOUS
  <2>1. ASSUME NEW s \in Seq(Pointers), NEW q \in ToSet(s) PROVE IsBuffer(q)
    <3>1. PICK i \in DOMAIN s : q = s[i]
      BY <2>1 DEF ToSet
    <3>2. q \in Pointers
      BY <3>1, LenProperties
    <3> QED
      BY <3>2 DEF Pointers
  <2>2. \A q \in ToSet(buffers) \cup ToSet(buffersToWrite) : IsBuffer(q)
    BY <2>1 DEF IInv, Typed
  <2>3. IsBuffer(currentBuffer)
    BY DEF IInv, Typed, Pointers
  <2>4. \A i \in DOMAIN output.files : Len(output.files[i]) < RollSize + LargeBuffer
    BY DEF IInv, Rolled, Bounded
  <2> QED
    BY <2>2, <2>3, <2>4 DEF IInv, Typed, TypeOK
<1> QED
  BY <1>1, Invariance, PTL

\* Until a null pointer ends the program, every line append() took is in a file, with
\* threadFunc() or still in append()'s buffers, once and in the order of the calls.
\* Between rounds, and when the thread has ended, all that a swap took is in the
\* files; what is in append()'s buffers at the end stays there.
THEOREM LinesKept == Spec => []LinesInOrder
<1>1. IInv => LinesInOrder
  BY DEF IInv, BetweenRounds, NoneLost, Lines, LinesInOrder
<1> QED
  BY <1>1, Invariance, PTL

=============================================================================
