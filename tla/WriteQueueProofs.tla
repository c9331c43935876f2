--------------------------- MODULE WriteQueueProofs ---------------------------
(* What the write side of a socket promises, for any number of messages of *)
(* any sizes, and that it implements WriteSide.                            *)
EXTENDS WriteQueue, SequenceTheorems, FiniteSetTheorems, WellFoundedInduction, TLAPS

\* A set of numbers that is not empty has a least element.
LEMMA LeastNat ==
  ASSUME NEW T, T \subseteq Nat, T # {}
  PROVE  \E x \in T : \A y \in T : ~(y < x)
<1> DEFINE F == {1 .. n : n \in T}
<1>1. F \subseteq FiniteSubsetsOf(Nat)
  BY FS_Interval DEF FiniteSubsetsOf
<1>2. F # {}
  OBVIOUS
<1>3. IsWellFoundedOn(StrictSubsetOrdering(Nat), FiniteSubsetsOf(Nat))
  BY FS_StrictSubsetOrderingWellFounded
<1> HIDE DEF F
<1>4. PICK U \in F : \A V \in F : ~(<<V, U>> \in StrictSubsetOrdering(Nat))
  BY <1>1, <1>2, <1>3, WFMin
<1> USE DEF F
<1>5. PICK x \in T : U = 1 .. x
  OBVIOUS
<1>6. ASSUME NEW y \in T, y < x PROVE FALSE
  <2>1. 1 .. y \in F /\ 1 .. y \subseteq 1 .. x /\ x \in 1 .. x /\ x \notin 1 .. y
    BY <1>6
  <2>2. <<1 .. y, U>> \in StrictSubsetOrdering(Nat)
    BY <1>5, <2>1 DEF StrictSubsetOrdering
  <2> QED
    BY <1>4, <2>1, <2>2
<1> QED
  BY <1>6


\* Induction over 0 .. n, with a set for the predicate.
LEMMA Induction ==
  ASSUME NEW n \in Nat, NEW P, 0 \in P,
         \A k \in 0 .. n : k + 1 \in 0 .. n /\ k \in P => k + 1 \in P
  PROVE  0 .. n \subseteq P
<1> DEFINE T == {k \in 0 .. n : k \notin P}
<1> SUFFICES ASSUME T # {} PROVE FALSE
  OBVIOUS
<1>1. T \subseteq Nat
  OBVIOUS
<1> HIDE DEF T
<1>2. PICK x \in T : \A y \in T : ~(y < x)
  BY <1>1, LeastNat
<1> USE DEF T
<1>3. x \in 0 .. n /\ x # 0 /\ x \notin P
  BY <1>2
<1>4. x - 1 \in 0 .. n /\ x - 1 < x /\ (x - 1) + 1 = x
  BY <1>3
<1>5. x - 1 \in P
  BY <1>2, <1>4
<1> QED
  BY <1>3, <1>4, <1>5

-----------------------------------------------------------------------------
(* The bytes of a list. *)

Byte == Messages \X Nat

\* A buffer has as many bytes as it says.
LEMMA BytesOfType ==
  ASSUME NEW b \in Buffer
  PROVE  /\ BytesOf(b) \in Seq(Byte) /\ Len(BytesOf(b)) = b.size /\ b.size \in Nat
         /\ \A j \in 1 .. b.size : BytesOf(b)[j] = <<b.msg, b.ptr + j>>
<1>1. b.size \in Nat /\ b.ptr \in Nat /\ b.msg \in Messages
  BY DEF Buffer
<1>2. BytesOf(b) \in [1 .. b.size -> Byte]
  BY <1>1 DEF BytesOf, Byte
<1>3. Len(BytesOf(b)) = b.size
  BY <1>1, <1>2, LenProperties
<1>4. BytesOf(b) \in Seq(Byte)
  BY <1>1, <1>2
<1> QED
  BY <1>1, <1>3, <1>4 DEF BytesOf

\* FlattenSeq through its recursive function, which exists.
LEMMA FlattenUnfold ==
  ASSUME NEW s, Len(s) \in Nat, Len(s) # 0
  PROVE  \E f : /\ \A i \in 1 .. Len(s) : f[i] = IF i = 1 THEN s[i] ELSE f[i - 1] \o s[i]
                /\ FlattenSeq(s) = f[Len(s)]
<1> DEFINE n == Len(s)
           Next_(f, i) == f[i - 1] \o s[i]
           Step(f, k) == [i \in 1 .. k |-> IF i = 1 THEN s[i] ELSE Next_(f, i)]
           P == {k \in 0 .. n : \E f : f = Step(f, k)}
<1>1. 0 \in P
  <2> DEFINE f == [i \in 1 .. 0 |-> s]
  <2>1. f = Step(f, 0)
    OBVIOUS
  <2> HIDE DEF f, Step
  <2>2. \E e : e = Step(e, 0)
    BY <2>1
  <2> QED
    BY <2>2
<1>2. ASSUME NEW k \in 0 .. n, k + 1 \in 0 .. n, k \in P PROVE k + 1 \in P
  <2>1. PICK f : f = Step(f, k)
    BY <1>2
  <2> DEFINE g == [i \in 1 .. k + 1 |->
                     IF i = k + 1 THEN IF i = 1 THEN s[i] ELSE Next_(f, i) ELSE f[i]]
  <2>2. ASSUME NEW i \in 1 .. k + 1, i # 1 PROVE g[i - 1] = f[i - 1]
    BY <2>2
  <2>3. ASSUME NEW i \in 1 .. k + 1, i # 1 PROVE Next_(g, i) = Next_(f, i)
    BY <2>2, <2>3
  <2>4. ASSUME NEW i \in 1 .. k PROVE f[i] = IF i = 1 THEN s[i] ELSE Next_(f, i)
    <3> HIDE DEF Next_
    <3> QED
      BY <2>1
  <2> HIDE DEF Next_
  <2>5. ASSUME NEW i \in 1 .. k + 1 PROVE g[i] = IF i = 1 THEN s[i] ELSE Next_(g, i)
    <3>1. CASE i = k + 1
      BY <2>3, <3>1
    <3>2. CASE i # k + 1
      <4>1. i \in 1 .. k /\ g[i] = f[i]
        BY <3>2
      <4> QED
        BY <2>3, <2>4, <4>1
    <3> QED
      BY <3>1, <3>2
  <2>6. g = Step(g, k + 1)
    BY <2>5
  <2> HIDE DEF g, Step
  <2>7. \E e : e = Step(e, k + 1)
    BY <2>6
  <2> QED
    BY <1>2, <2>7
<1>3. n \in P
  <2> HIDE DEF P
  <2>1. 0 .. n \subseteq P
    BY <1>1, <1>2, Induction
  <2> QED
    BY <2>1
<1>4. PICK h : h = Step(h, n)
  BY <1>3
<1> DEFINE F == CHOOSE f : f = Step(f, n)
<1>5. F = Step(F, n)
  BY <1>4
<1>6. FlattenSeq(s) = F[n]
  BY DEF FlattenSeq
<1> HIDE DEF F
<1>7. \A i \in 1 .. n : F[i] = IF i = 1 THEN s[i] ELSE Next_(F, i)
  <2> HIDE DEF Next_
  <2> QED
    BY <1>5
<1> QED
  BY <1>6, <1>7

LEMMA BytesEmpty == Bytes(<<>>) = <<>>
<1> DEFINE p == [i \in DOMAIN <<>> |-> BytesOf(<<>>[i])]
<1>1. p = <<>>
  OBVIOUS
<1>2. Len(p) = 0
  BY <1>1
<1> QED
  BY <1>1, <1>2 DEF Bytes, FlattenSeq

LEMMA BytesAppend ==
  ASSUME NEW l \in Seq(Buffer), NEW b \in Buffer
  PROVE  /\ l # <<>> => Bytes(Append(l, b)) = Bytes(l) \o BytesOf(b)
         /\ l = <<>> => Bytes(Append(l, b)) = BytesOf(b)
<1> DEFINE n == Len(l)
           m == Append(l, b)
           p == [i \in DOMAIN l |-> BytesOf(l[i])]
           q == [i \in DOMAIN m |-> BytesOf(m[i])]
<1>1. /\ n \in Nat /\ m \in Seq(Buffer) /\ Len(m) = n + 1 /\ m[n + 1] = b
      /\ \A i \in 1 .. n : m[i] = l[i]
      /\ DOMAIN l = 1 .. n /\ DOMAIN m = 1 .. n + 1
  BY AppendProperties, LenProperties
<1> HIDE DEF m
<1>2. p \in [1 .. n -> {BytesOf(l[i]) : i \in 1 .. n}]
  BY <1>1
<1>3. q \in [1 .. n + 1 -> {BytesOf(m[i]) : i \in 1 .. n + 1}]
  BY <1>1
<1>4. Len(p) = n /\ Len(q) = n + 1
  <2> HIDE DEF p, q
  <2> QED
    BY <1>1, <1>2, <1>3, IsASeq, LenProperties
<1>5. \A i \in 1 .. n : q[i] = p[i]
  BY <1>1
<1>6. q[n + 1] = BytesOf(b)
  BY <1>1
<1>7. Bytes(l) = FlattenSeq(p) /\ Bytes(m) = FlattenSeq(q)
  BY DEF Bytes
<1> HIDE DEF p, q
<1>8. PICK g : /\ \A i \in 1 .. n + 1 : g[i] = IF i = 1 THEN q[i] ELSE g[i - 1] \o q[i]
               /\ FlattenSeq(q) = g[n + 1]
  BY <1>1, <1>4, FlattenUnfold
<1>9. CASE n = 0
  <2>1. g[1] = q[1]
    BY <1>8, <1>9
  <2>2. Bytes(m) = BytesOf(b) /\ l = <<>>
    BY <1>1, <1>6, <1>7, <1>8, <1>9, <2>1, EmptySeq
  <2> QED
    BY <2>2 DEF m
<1>10. CASE n # 0
  <2>1. PICK f : /\ \A i \in 1 .. n : f[i] = IF i = 1 THEN p[i] ELSE f[i - 1] \o p[i]
                 /\ FlattenSeq(p) = f[n]
    BY <1>1, <1>4, <1>10, FlattenUnfold
  <2> DEFINE P == {k \in 0 .. n : k = 0 \/ f[k] = g[k]}
  <2>2. 0 \in P
    BY <1>1
  <2>3. ASSUME NEW k \in 0 .. n, k + 1 \in 0 .. n, k \in P PROVE k + 1 \in P
    <3>1. CASE k = 0
      <4>1. f[1] = p[1] /\ g[1] = q[1] /\ p[1] = q[1]
        BY <1>1, <1>5, <1>8, <1>10, <2>1
      <4> QED
        BY <2>3, <3>1, <4>1
    <3>2. CASE k # 0
      <4>1. k + 1 \in 1 .. n /\ k + 1 # 1 /\ (k + 1) - 1 = k
        BY <1>1, <2>3, <3>2
      <4>2. f[k + 1] = f[k] \o p[k + 1]
        <5>1. f[k + 1] = IF k + 1 = 1 THEN p[k + 1] ELSE f[(k + 1) - 1] \o p[k + 1]
          BY <2>1, <4>1
        <5> QED
          BY <4>1, <5>1
      <4>3. g[k + 1] = g[k] \o q[k + 1]
        <5>1. k + 1 \in 1 .. n + 1
          BY <1>1, <4>1
        <5>2. g[k + 1] = IF k + 1 = 1 THEN q[k + 1] ELSE g[(k + 1) - 1] \o q[k + 1]
          BY <1>8, <5>1
        <5> QED
          BY <4>1, <5>2
      <4>4. f[k] = g[k] /\ p[k + 1] = q[k + 1]
        BY <1>5, <2>3, <3>2, <4>1
      <4> QED
        BY <2>3, <4>2, <4>3, <4>4
    <3> QED
      BY <3>1, <3>2
  <2>4. n \in P
    <3> HIDE DEF P
    <3>1. 0 .. n \subseteq P
      BY <1>1, <2>2, <2>3, Induction
    <3> QED
      BY <1>1, <3>1
  <2>5. f[n] = g[n]
    BY <1>10, <2>4
  <2>6. g[n + 1] = g[n] \o q[n + 1]
    <3>1. n + 1 \in 1 .. n + 1 /\ n + 1 # 1 /\ (n + 1) - 1 = n
      BY <1>1, <1>10
    <3>2. g[n + 1] = IF n + 1 = 1 THEN q[n + 1] ELSE g[(n + 1) - 1] \o q[n + 1]
      BY <1>8, <3>1
    <3> QED
      BY <3>1, <3>2
  <2>7. Bytes(m) = Bytes(l) \o BytesOf(b)
    BY <1>6, <1>7, <1>8, <2>1, <2>5, <2>6
  <2>8. l # <<>>
    BY <1>1, <1>10, EmptySeq
  <2> QED
    BY <2>7, <2>8 DEF m
<1> QED
  BY <1>1, <1>9, <1>10

\* A prefix grows by the next element.
LEMMA PrefixGrows ==
  ASSUME NEW S, NEW l \in Seq(S), NEW k \in Nat, k + 1 \in 0 .. Len(l)
  PROVE  /\ SubSeq(l, 1, k) \in Seq(S) /\ l[k + 1] \in S
         /\ SubSeq(l, 1, k + 1) = Append(SubSeq(l, 1, k), l[k + 1])
<1>1. Len(l) \in Nat /\ \A i \in 1 .. Len(l) : l[i] \in S
  BY LenProperties
<1>2. SubSeq(l, 1, k) \in Seq(S)
  <2>1. \A i \in 1 .. k : l[i] \in S
    BY <1>1
  <2> QED
    BY <2>1, SubSeqProperties
<1>3. k + 1 \in 1 .. Len(l) /\ 1 \in 1 .. Len(l) /\ k + 1 \in 1 .. Len(l) /\ (k + 1) - 1 = k
  BY <1>1
<1>4. SubSeq(l, 1, k + 1) = SubSeq(l, 1, k) \o <<l[k + 1]>>
  BY <1>1, <1>3, SubSeqRecursiveSecond
<1> QED
  BY <1>1, <1>2, <1>3, <1>4, AppendIsConcat

\* Bytes are bytes.
LEMMA BytesType ==
  ASSUME NEW l \in Seq(Buffer)
  PROVE  Bytes(l) \in Seq(Byte)
<1> DEFINE n == Len(l)
           P == {k \in 0 .. n : Bytes(SubSeq(l, 1, k)) \in Seq(Byte)}
<1>1. n \in Nat
  BY LenProperties
<1>2. 0 \in P
  <2>1. SubSeq(l, 1, 0) = <<>>
    BY SubSeqEmpty
  <2>2. Bytes(SubSeq(l, 1, 0)) \in Seq(Byte)
    BY <2>1, BytesEmpty, EmptySeq
  <2> QED
    BY <1>1, <2>2
<1>3. ASSUME NEW k \in 0 .. n, k + 1 \in 0 .. n, k \in P PROVE k + 1 \in P
  <2> DEFINE s == SubSeq(l, 1, k)
  <2>1. s \in Seq(Buffer) /\ l[k + 1] \in Buffer /\ SubSeq(l, 1, k + 1) = Append(s, l[k + 1])
    BY <1>3, PrefixGrows
  <2>2. Bytes(s) \in Seq(Byte)
    BY <1>3
  <2>3. BytesOf(l[k + 1]) \in Seq(Byte)
    BY <2>1, BytesOfType
  <2> HIDE DEF s
  <2>4. Bytes(Append(s, l[k + 1])) \in Seq(Byte)
    BY <2>1, <2>2, <2>3, BytesAppend, ConcatProperties
  <2> QED
    BY <1>3, <2>1, <2>4
<1>4. n \in P
  <2> HIDE DEF P
  <2>1. 0 .. n \subseteq P
    BY <1>1, <1>2, <1>3, Induction
  <2> QED
    BY <1>1, <2>1
<1> QED
  BY <1>4, SubSeqFull

\* So a buffer at the end of a list adds its bytes at the end.
LEMMA BytesAppended ==
  ASSUME NEW l \in Seq(Buffer), NEW b \in Buffer
  PROVE  Bytes(Append(l, b)) = Bytes(l) \o BytesOf(b)
<1>1. CASE l # <<>>
  BY <1>1, BytesAppend
<1>2. CASE l = <<>>
  <2>1. Bytes(Append(l, b)) = BytesOf(b) /\ Bytes(l) = <<>>
    BY <1>2, BytesAppend, BytesEmpty
  <2>2. <<>> \o BytesOf(b) = BytesOf(b)
    BY BytesOfType, ConcatEmptySeq
  <2> QED
    BY <2>1, <2>2
<1> QED
  BY <1>1, <1>2

\* The bytes of two lists, one after the other.
LEMMA BytesConcat ==
  ASSUME NEW l \in Seq(Buffer), NEW r \in Seq(Buffer)
  PROVE  Bytes(l \o r) = Bytes(l) \o Bytes(r)
<1> DEFINE n == Len(r)
           Pre(k) == SubSeq(r, 1, k)
           P == {k \in 0 .. n : Bytes(l \o Pre(k)) = Bytes(l) \o Bytes(Pre(k))}
<1>1. n \in Nat /\ Bytes(l) \in Seq(Byte)
  BY LenProperties, BytesType
<1>2. 0 \in P
  <2>1. Pre(0) = <<>>
    BY SubSeqEmpty
  <2>2. Bytes(l \o Pre(0)) = Bytes(l) \o Bytes(Pre(0))
    BY <1>1, <2>1, BytesEmpty, ConcatEmptySeq
  <2> QED
    BY <1>1, <2>2
<1>3. ASSUME NEW k \in 0 .. n, k + 1 \in 0 .. n, k \in P PROVE k + 1 \in P
  <2> DEFINE s == Pre(k)
             b == r[k + 1]
             t == l \o s
  <2>1. s \in Seq(Buffer) /\ b \in Buffer /\ Pre(k + 1) = Append(s, b)
    BY <1>3, PrefixGrows
  <2>2. Bytes(t) = Bytes(l) \o Bytes(s)
    BY <1>3
  <2> HIDE DEF s, b
  <2>3. t \in Seq(Buffer) /\ Len(l) \in Nat /\ (t = <<>> <=> l = <<>> /\ s = <<>>)
    BY <2>1, ConcatProperties, ConcatEqualIffEmpty, LenProperties
  <2>4. l \o Append(s, b) = Append(t, b)
    <3>1. /\ Append(s, b) = s \o <<b>> /\ Append(t, b) = t \o <<b>>
          /\ <<b>> \in Seq(Buffer)
      BY <2>1, <2>3, AppendIsConcat
    <3> QED
      BY <2>1, <3>1, ConcatAssociative
  <2>5. /\ Bytes(s) \in Seq(Byte) /\ BytesOf(b) \in Seq(Byte) /\ Bytes(t) \in Seq(Byte)
    BY <2>1, <2>3, BytesType, BytesOfType
  <2> HIDE DEF t
  <2>6. Bytes(Append(s, b)) = Bytes(s) \o BytesOf(b)
    BY <2>1, BytesAppended
  <2>7. Bytes(Append(t, b)) = Bytes(t) \o BytesOf(b)
    BY <2>1, <2>3, BytesAppended
  <2>8. Bytes(l \o Append(s, b)) = Bytes(l) \o Bytes(Append(s, b))
    <3> DEFINE A == Bytes(l)
               B == Bytes(s)
               C == BytesOf(b)
    <3>0. A \in Seq(Byte) /\ B \in Seq(Byte) /\ C \in Seq(Byte)
      BY <1>1, <2>5
    <3> HIDE DEF A, B, C
    <3>1. (A \o B) \o C = A \o (B \o C)
      BY <3>0, ConcatAssociative
    <3> USE DEF A, B, C
    <3> QED
      BY <2>2, <2>4, <2>6, <2>7, <3>1
  <2> HIDE DEF Pre
  <2> QED
    BY <1>3, <2>1, <2>8
<1>4. n \in P
  <2> HIDE DEF P
  <2>1. 0 .. n \subseteq P
    BY <1>1, <1>2, <1>3, Induction
  <2> QED
    BY <1>1, <2>1
<1>5. Pre(n) = r
  BY SubSeqFull
<1> HIDE DEF Pre
<1> QED
  BY <1>4, <1>5

LEMMA ByteAssoc ==
  ASSUME NEW a \in Seq(Byte), NEW b \in Seq(Byte), NEW c \in Seq(Byte)
  PROVE  (a \o b) \o c = a \o (b \o c)
  BY ConcatAssociative, SMTT(30)

LEMMA BytesCons ==
  ASSUME NEW b \in Buffer, NEW r \in Seq(Buffer)
  PROVE  /\ <<b>> \o r \in Seq(Buffer)
         /\ Bytes(<<b>>) = BytesOf(b)
         /\ Bytes(<<b>> \o r) = BytesOf(b) \o Bytes(r)
<1>1. <<b>> \in Seq(Buffer) /\ <<b>> = Append(<<>>, b) /\ <<>> \in Seq(Buffer)
  OBVIOUS
<1>2. Bytes(<<b>>) = BytesOf(b)
  BY <1>1, BytesAppend
<1>3. Bytes(<<b>> \o r) = Bytes(<<b>>) \o Bytes(r)
  BY <1>1, BytesConcat
<1>4. <<b>> \o r \in Seq(Buffer)
  BY <1>1, ConcatProperties
<1> QED
  BY <1>2, <1>3, <1>4

\* A list cut after i buffers.
First(l, i) == SubSeq(l, 1, i)
After(l, i) == SubSeq(l, i + 1, Len(l))

LEMMA CutList ==
  ASSUME NEW l \in Seq(Buffer), NEW i \in 0 .. Len(l)
  PROVE  /\ Len(l) \in Nat
         /\ First(l, i) \in Seq(Buffer) /\ After(l, i) \in Seq(Buffer)
         /\ l = First(l, i) \o After(l, i)
         /\ Len(After(l, i)) = Len(l) - i
         /\ \A j \in 1 .. Len(l) - i : After(l, i)[j] = l[i + j]
         /\ Bytes(l) = Bytes(First(l, i)) \o Bytes(After(l, i))
         /\ Bytes(First(l, i)) \in Seq(Byte) /\ Bytes(After(l, i)) \in Seq(Byte)
<1>1. Len(l) \in Nat /\ \A j \in 1 .. Len(l) : l[j] \in Buffer
  BY LenProperties
<1>2. First(l, i) \in Seq(Buffer)
  <2>1. \A j \in 1 .. i : l[j] \in Buffer
    BY <1>1
  <2> QED
    BY <1>1, <2>1, SubSeqProperties DEF First
<1>3. /\ After(l, i) \in Seq(Buffer)
      /\ Len(After(l, i)) = IF i + 1 =< Len(l) THEN Len(l) - (i + 1) + 1 ELSE 0
      /\ \A j \in 1 .. Len(l) - (i + 1) + 1 : After(l, i)[j] = l[(i + 1) + j - 1]
  <2>1. \A j \in i + 1 .. Len(l) : l[j] \in Buffer
    BY <1>1
  <2>2. i + 1 \in Int /\ Len(l) \in Int
    BY <1>1
  <2> QED
    BY <2>1, <2>2, SubSeqProperties DEF After
<1>4. /\ Len(After(l, i)) = Len(l) - i
      /\ \A j \in 1 .. Len(l) - i : After(l, i)[j] = l[i + j]
  <2>1. /\ (IF i + 1 =< Len(l) THEN Len(l) - (i + 1) + 1 ELSE 0) = Len(l) - i
        /\ Len(l) - (i + 1) + 1 = Len(l) - i
        /\ \A j \in 1 .. Len(l) - i : (i + 1) + j - 1 = i + j
    BY <1>1
  <2> QED
    BY <1>3, <2>1
<1>5. l = First(l, i) \o After(l, i)
  <2>1. 1 \in 1 .. Len(l) + 1 /\ i \in 1 - 1 .. Len(l) /\ Len(l) \in i .. Len(l)
    BY <1>1
  <2>2. SubSeq(l, 1, i) \o SubSeq(l, i + 1, Len(l)) = SubSeq(l, 1, Len(l))
    BY <2>1, ConcatAdjacentSubSeq
  <2> QED
    BY <2>2, SubSeqFull DEF First, After
<1>6. Bytes(l) = Bytes(First(l, i)) \o Bytes(After(l, i))
  BY <1>2, <1>3, <1>5, BytesConcat
<1>7. Bytes(First(l, i)) \in Seq(Byte) /\ Bytes(After(l, i)) \in Seq(Byte)
  BY <1>2, <1>3, BytesType
<1> QED
  BY <1>1, <1>2, <1>3, <1>4, <1>5, <1>6, <1>7

\* The bytes before buffer i + 1, and with it.
Upto(l, i) == Len(Bytes(First(l, i)))

LEMMA UptoGrows ==
  ASSUME NEW l \in Seq(Buffer), NEW i \in 0 .. Len(l)
  PROVE  /\ Upto(l, i) \in Nat /\ Upto(l, i) =< Len(Bytes(l)) /\ Len(Bytes(l)) \in Nat
         /\ i = Len(l) => Upto(l, i) = Len(Bytes(l))
         /\ i = 0 => Upto(l, i) = 0
         /\ i + 1 =< Len(l) =>
              /\ l[i + 1] \in Buffer
              /\ Upto(l, i + 1) = Upto(l, i) + l[i + 1].size
<1>1. /\ Bytes(l) = Bytes(First(l, i)) \o Bytes(After(l, i)) /\ Len(l) \in Nat
      /\ First(l, i) \in Seq(Buffer)
      /\ Bytes(First(l, i)) \in Seq(Byte) /\ Bytes(After(l, i)) \in Seq(Byte)
  BY CutList
<1> DEFINE A == Bytes(First(l, i))
           B == Bytes(After(l, i))
<1>2. Len(A \o B) = Len(A) + Len(B) /\ Len(A) \in Nat /\ Len(B) \in Nat
  <2>1. A \in Seq(Byte) /\ B \in Seq(Byte)
    BY <1>1
  <2> HIDE DEF A, B
  <2> QED
    BY <2>1, ConcatProperties, LenProperties
<1>3. Upto(l, i) \in Nat /\ Upto(l, i) =< Len(Bytes(l)) /\ Len(Bytes(l)) \in Nat
  <2>1. Upto(l, i) = Len(A) /\ Len(Bytes(l)) = Len(A \o B)
    BY <1>1 DEF Upto
  <2> HIDE DEF A, B
  <2> QED
    BY <1>2, <2>1
<1>4. i = Len(l) => Upto(l, i) = Len(Bytes(l))
  BY SubSeqFull DEF Upto, First
<1>5. i = 0 => Upto(l, i) = 0
  <2>1. First(l, 0) = <<>>
    BY SubSeqEmpty DEF First
  <2>2. Bytes(First(l, 0)) = <<>>
    BY <2>1, BytesEmpty
  <2>3. Len(<<>>) = 0
    OBVIOUS
  <2>4. Upto(l, 0) = 0
    BY <2>2, <2>3 DEF Upto
  <2> QED
    BY <2>4
<1>6. ASSUME i + 1 =< Len(l)
      PROVE  l[i + 1] \in Buffer /\ Upto(l, i + 1) = Upto(l, i) + l[i + 1].size
  <2>1. l[i + 1] \in Buffer /\ First(l, i + 1) = Append(First(l, i), l[i + 1])
    <3>1. i \in Nat /\ i + 1 \in 0 .. Len(l)
      BY <1>1, <1>6
    <3>2. l[i + 1] \in Buffer /\ SubSeq(l, 1, i + 1) = Append(SubSeq(l, 1, i), l[i + 1])
      BY <3>1, PrefixGrows
    <3> QED
      BY <3>2 DEF First
  <2> DEFINE C == BytesOf(l[i + 1])
  <2>2. Bytes(First(l, i + 1)) = A \o C
    BY <1>1, <2>1, BytesAppended
  <2>3. C \in Seq(Byte) /\ Len(C) = l[i + 1].size
    BY <2>1, BytesOfType
  <2>4. A \in Seq(Byte) /\ Upto(l, i) = Len(A)
    BY <1>1 DEF Upto
  <2> HIDE DEF A, C
  <2>5. Len(A \o C) = Len(A) + Len(C)
    BY <2>3, <2>4, ConcatProperties
  <2> QED
    BY <2>1, <2>2, <2>3, <2>4, <2>5 DEF Upto
<1> QED
  BY <1>3, <1>4, <1>5, <1>6

\* What is left of l after n bytes: the buffers after the i-th, the first of
\* them perhaps cut short.
LEMMA WrittenIs ==
  ASSUME NEW l \in Seq(Buffer), NEW n \in 0 .. Len(Bytes(l))
  PROVE  \E i \in 0 .. Len(l) :
           \/ n = Upto(l, i) /\ Written(l, n) = After(l, i)
           \/ /\ i + 1 =< Len(l) /\ Upto(l, i) < n /\ n < Upto(l, i + 1)
              /\ Written(l, n) = <<Advance(l[i + 1], n - Upto(l, i))>> \o After(l, i + 1)
<1> DEFINE whole == {i \in 0 .. Len(l) : Upto(l, i) =< n}
           top == CHOOSE i \in whole : \A j \in whole : j =< i
<1>1. Len(l) \in Nat /\ n \in Nat /\ 0 \in 0 .. Len(l)
  <2>1. Len(l) \in Nat
    BY LenProperties
  <2> QED
    BY <2>1, UptoGrows
<1>2. 0 \in whole
  <2>1. Upto(l, 0) = 0
    BY <1>1, UptoGrows
  <2> QED
    BY <1>1, <2>1
<1>3. \E i \in whole : \A j \in whole : j =< i
  <2> DEFINE T == {k \in 0 .. Len(l) : Len(l) - k \in whole}
  <2>1. T \subseteq Nat /\ Len(l) \in T
    BY <1>1, <1>2
  <2> HIDE DEF T
  <2>2. PICK k \in T : \A y \in T : ~(y < k)
    BY <2>1, LeastNat
  <2> USE DEF T
  <2>3. ASSUME NEW j \in whole PROVE j =< Len(l) - k
    <3>1. j \in 0 .. Len(l) /\ k \in 0 .. Len(l)
      BY <2>2
    <3>2. Len(l) - j \in 0 .. Len(l) /\ Len(l) - (Len(l) - j) = j
      BY <1>1, <3>1
    <3>3. Len(l) - j \in T
      BY <3>2
    <3>4. ~(Len(l) - j < k)
      BY <2>2, <3>3
    <3> QED
      BY <1>1, <3>1, <3>4
  <2> QED
    BY <2>2, <2>3
<1>4. top \in whole /\ \A j \in whole : j =< top
  <2> HIDE DEF whole
  <2> QED
    BY <1>3
<1>5. Written(l, n) = IF n = Upto(l, top) THEN After(l, top)
                      ELSE <<Advance(Head(After(l, top)), n - Upto(l, top))>>
                             \o Tail(After(l, top))
  BY DEF Written, Upto, First, After
<1> HIDE DEF top
<1>6. /\ top \in 0 .. Len(l) /\ Upto(l, top) =< n /\ Upto(l, top) \in Nat
      /\ top = Len(l) => Upto(l, top) = Len(Bytes(l))
      /\ top + 1 =< Len(l) => Upto(l, top + 1) > n
  <2>1. top \in 0 .. Len(l) /\ Upto(l, top) =< n
    BY <1>4
  <2>2. Upto(l, top) \in Nat /\ (top = Len(l) => Upto(l, top) = Len(Bytes(l)))
    BY <2>1, UptoGrows
  <2>3. ASSUME top + 1 =< Len(l) PROVE Upto(l, top + 1) > n
    <3>1. top + 1 \in 0 .. Len(l) /\ ~(top + 1 =< top)
      BY <1>1, <2>1, <2>3
    <3>2. ~(Upto(l, top + 1) =< n)
      BY <1>4, <3>1
    <3>3. Upto(l, top + 1) \in Nat
      BY <3>1, UptoGrows
    <3> QED
      BY <1>1, <3>2, <3>3
  <2> QED
    BY <2>1, <2>2, <2>3
<1>7. CASE n = Upto(l, top)
  BY <1>5, <1>6, <1>7
<1>8. CASE n # Upto(l, top)
  <2>1. Upto(l, top) < n
    BY <1>1, <1>6, <1>8
  <2>2. top + 1 =< Len(l)
    <3>1. Len(Bytes(l)) \in Nat
      BY BytesType, LenProperties
    <3>2. top # Len(l)
      BY <1>1, <1>6, <2>1, <3>1
    <3> QED
      BY <1>1, <1>6, <3>2
  <2>3. Head(After(l, top)) = l[top + 1] /\ Tail(After(l, top)) = After(l, top + 1)
    <3>1. top + 1 \in 1 .. Len(l) /\ Len(l) \in top + 1 .. Len(l) /\ (top + 1) + 1 = (top + 1) + 1
      BY <1>1, <1>6, <2>2
    <3> QED
      BY <3>1, HeadTailOfSubSeq DEF After
  <2>4. Written(l, n) = <<Advance(l[top + 1], n - Upto(l, top))>> \o After(l, top + 1)
    BY <1>5, <1>8, <2>3
  <2> QED
    BY <1>6, <2>1, <2>2, <2>4
<1> QED
  BY <1>7, <1>8

LEMMA PrefixOfConcat ==
  ASSUME NEW S, NEW x \in Seq(S), NEW y \in Seq(S)
  PROVE  SubSeq(x \o y, 1, Len(x)) = x
<1>1. /\ x \o y \in Seq(S) /\ Len(x \o y) = Len(x) + Len(y) /\ Len(x) \in Nat /\ Len(y) \in Nat
      /\ \A i \in 1 .. Len(x) + Len(y) :
           (x \o y)[i] = IF i =< Len(x) THEN x[i] ELSE y[i - Len(x)]
      /\ \A i \in 1 .. Len(x) : x[i] \in S
  BY ConcatProperties, LenProperties
<1> DEFINE z == x \o y
<1>2. \A i \in 1 .. Len(x) : z[i] = x[i]
  BY <1>1
<1>3. \A i \in 1 .. Len(x) : z[i] \in S
  BY <1>1, <1>2
<1> HIDE DEF z
<1>4. /\ SubSeq(z, 1, Len(x)) \in Seq(S)
      /\ Len(SubSeq(z, 1, Len(x))) = IF 1 =< Len(x) THEN Len(x) - 1 + 1 ELSE 0
      /\ \A i \in 1 .. Len(x) - 1 + 1 : SubSeq(z, 1, Len(x))[i] = z[1 + i - 1]
  BY <1>1, <1>3, SubSeqProperties
<1>5. /\ Len(SubSeq(z, 1, Len(x))) = Len(x)
      /\ \A i \in 1 .. Len(x) : SubSeq(z, 1, Len(x))[i] = x[i]
  BY <1>1, <1>2, <1>4
<1>6. SubSeq(z, 1, Len(x)) = x
  BY <1>4, <1>5, SeqEqual
<1> QED
  BY <1>6 DEF z

\* An update of two fields of a buffer.
LEMMA TwoFields ==
  ASSUME NEW m, NEW p, NEW z, NEW q, NEW y
  PROVE  [[msg |-> m, ptr |-> p, size |-> z] EXCEPT !.ptr = q, !.size = y]
           = [msg |-> m, ptr |-> q, size |-> y]
<1> DEFINE r0 == [msg |-> m, ptr |-> p, size |-> z]
           r == [msg |-> m, ptr |-> q, size |-> z]
<1>1. [r0 EXCEPT !.ptr = q] = r
  OBVIOUS
<1>2. [r0 EXCEPT !.ptr = q, !.size = y] = [[r0 EXCEPT !.ptr = q] EXCEPT !.size = y]
  OBVIOUS
<1>3. [r EXCEPT !.size = y] = [msg |-> m, ptr |-> q, size |-> y]
  OBVIOUS
<1> HIDE DEF r
<1> QED
  BY <1>1, <1>2, <1>3

\* A buffer is the bytes already written and the advanced buffer.
LEMMA AdvanceBytes ==
  ASSUME NEW b \in Buffer, NEW k \in Nat, k =< b.size
  PROVE  /\ Advance(b, k) \in Buffer
         /\ Advance(b, k).msg = b.msg /\ Advance(b, k).size = b.size - k
         /\ Advance(b, k).ptr = b.ptr + k
         /\ \E x \in Seq(Byte) : Len(x) = k /\ BytesOf(b) = x \o BytesOf(Advance(b, k))
<1> DEFINE a == Advance(b, k)
<1>1. b.size \in Nat /\ b.ptr \in Nat /\ b.msg \in Messages
  BY DEF Buffer
<1>2. a = [msg |-> b.msg, ptr |-> b.ptr + k, size |-> b.size - k]
  <2> DEFINE q == b.ptr + k
             y == b.size - k
  <2>1. b = [msg |-> b.msg, ptr |-> b.ptr, size |-> b.size]
    BY DEF Buffer
  <2>2. a = [b EXCEPT !.ptr = q, !.size = y]
    BY DEF Advance
  <2> HIDE DEF q, y, a
  <2>3. a = [msg |-> b.msg, ptr |-> q, size |-> y]
    BY <2>1, <2>2, TwoFields
  <2> QED
    BY <2>3 DEF q, y
<1>3. a \in Buffer /\ a.msg = b.msg /\ a.size = b.size - k /\ a.ptr = b.ptr + k
  BY <1>1, <1>2 DEF Buffer
<1> HIDE DEF a
<1> DEFINE x == [j \in 1 .. k |-> <<b.msg, b.ptr + j>>]
<1>4. x \in [1 .. k -> Byte] /\ x \in Seq(Byte)
  BY <1>1 DEF Byte
<1>5. Len(x) = k /\ \A j \in 1 .. k : x[j] = <<b.msg, b.ptr + j>>
  BY <1>4, LenProperties
<1> HIDE DEF x
<1>6. /\ BytesOf(b) \in Seq(Byte) /\ Len(BytesOf(b)) = b.size
      /\ \A j \in 1 .. b.size : BytesOf(b)[j] = <<b.msg, b.ptr + j>>
  BY BytesOfType
<1>7. /\ BytesOf(a) \in Seq(Byte) /\ Len(BytesOf(a)) = b.size - k
      /\ \A j \in 1 .. b.size - k : BytesOf(a)[j] = <<b.msg, b.ptr + k + j>>
  BY <1>3, BytesOfType
<1> DEFINE y == BytesOf(a)
<1>8. /\ x \o y \in Seq(Byte) /\ Len(x \o y) = b.size
      /\ \A j \in 1 .. b.size : (x \o y)[j] = IF j =< k THEN x[j] ELSE y[j - k]
  <2>1. y \in Seq(Byte) /\ Len(y) = b.size - k
    BY <1>7
  <2> HIDE DEF y
  <2>2. /\ x \o y \in Seq(Byte) /\ Len(x \o y) = Len(x) + Len(y)
        /\ \A j \in 1 .. Len(x) + Len(y) :
             (x \o y)[j] = IF j =< Len(x) THEN x[j] ELSE y[j - Len(x)]
    BY <1>4, <2>1, ConcatProperties
  <2>3. Len(x) + Len(y) = b.size
    BY <1>1, <1>5, <2>1
  <2> QED
    BY <1>5, <2>2, <2>3
<1>9. \A j \in 1 .. b.size : (x \o y)[j] = <<b.msg, b.ptr + j>>
  <2> TAKE j \in 1 .. b.size
  <2>1. CASE j =< k
    BY <1>1, <1>5, <1>8, <2>1
  <2>2. CASE ~(j =< k)
    <3>1. j - k \in 1 .. b.size - k /\ b.ptr + k + (j - k) = b.ptr + j
      BY <1>1, <2>2
    <3>2. y[j - k] = <<b.msg, b.ptr + j>>
      BY <1>7, <3>1
    <3> QED
      BY <1>8, <2>2, <3>2
  <2> QED
    BY <2>1, <2>2
<1>10. BytesOf(b) = x \o y
  <2> DEFINE u == BytesOf(b)
             v == x \o y
  <2>1. /\ u \in Seq(Byte) /\ v \in Seq(Byte) /\ Len(u) = Len(v)
        /\ \A j \in 1 .. Len(u) : u[j] = v[j]
    BY <1>6, <1>8, <1>9
  <2> HIDE DEF u, v
  <2>2. u = v
    BY <2>1, SeqEqual
  <2> QED
    BY <2>2 DEF u, v
<1> QED
  BY <1>3, <1>4, <1>5, <1>10 DEF a

\* Bytes the kernel takes from the front, and the list that is left.
LEMMA WrittenBytes ==
  ASSUME NEW l \in Seq(Buffer), NEW n \in 0 .. Len(Bytes(l))
  PROVE  /\ n \in Nat /\ Written(l, n) \in Seq(Buffer)
         /\ \E x \in Seq(Byte) : Len(x) = n /\ Bytes(l) = x \o Bytes(Written(l, n))
<1>1. Len(l) \in Nat /\ Bytes(l) \in Seq(Byte) /\ n \in Nat
  <2>1. Bytes(l) \in Seq(Byte)
    BY BytesType
  <2> QED
    BY <2>1, LenProperties
<1>2. PICK i \in 0 .. Len(l) :
         \/ n = Upto(l, i) /\ Written(l, n) = After(l, i)
         \/ /\ i + 1 =< Len(l) /\ Upto(l, i) < n /\ n < Upto(l, i + 1)
            /\ Written(l, n) = <<Advance(l[i + 1], n - Upto(l, i))>> \o After(l, i + 1)
  BY WrittenIs
<1> DEFINE A == Bytes(First(l, i))
           W == Written(l, n)
<1>3. /\ After(l, i) \in Seq(Buffer) /\ Bytes(l) = A \o Bytes(After(l, i))
      /\ A \in Seq(Byte) /\ Upto(l, i) = Len(A) /\ Len(A) \in Nat
  <2>1. A \in Seq(Byte) /\ After(l, i) \in Seq(Buffer) /\ Bytes(l) = A \o Bytes(After(l, i))
    BY CutList
  <2>2. Len(A) \in Nat
    BY <2>1, LenProperties
  <2> QED
    BY <2>1, <2>2 DEF Upto
<1>4. CASE n = Upto(l, i) /\ W = After(l, i)
  <2>1. Len(A) = n /\ Bytes(l) = A \o Bytes(W) /\ W \in Seq(Buffer)
    BY <1>3, <1>4
  <2> HIDE DEF A, W
  <2>2. \E x \in Seq(Byte) : Len(x) = n /\ Bytes(l) = x \o Bytes(W)
    BY <1>3, <2>1
  <2> QED
    BY <1>1, <2>1, <2>2 DEF W
<1>5. CASE /\ i + 1 =< Len(l) /\ Upto(l, i) < n /\ n < Upto(l, i + 1)
           /\ W = <<Advance(l[i + 1], n - Upto(l, i))>> \o After(l, i + 1)
  <2> DEFINE b == l[i + 1]
             k == n - Len(A)
             R == After(l, i + 1)
  <2>1. i + 1 \in 0 .. Len(l) /\ b \in Buffer /\ Upto(l, i + 1) = Upto(l, i) + b.size
    BY <1>1, <1>5, UptoGrows
  <2>2. b.size \in Nat
    BY <2>1 DEF Buffer
  <2>3. k \in Nat /\ k =< b.size /\ Len(A) + k = n
    BY <1>1, <1>3, <1>5, <2>1, <2>2
  <2>4. R \in Seq(Buffer) /\ Bytes(R) \in Seq(Byte)
    BY <2>1, CutList
  <2>5. After(l, i) = <<b>> \o R
    <3>1. i + 1 \in 1 .. Len(l) /\ Len(l) \in i + 1 .. Len(l)
      BY <1>1, <1>5
    <3> QED
      BY <3>1, SubSeqRecursiveFirst DEF After
  <2>6. W = <<Advance(b, k)>> \o R
    BY <1>3, <1>5
  <2> HIDE DEF A, W, b, k, R
  <2>7. Advance(b, k) \in Buffer
    BY <2>1, <2>3, AdvanceBytes
  <2>8. PICK x \in Seq(Byte) : Len(x) = k /\ BytesOf(b) = x \o BytesOf(Advance(b, k))
    BY <2>1, <2>3, AdvanceBytes
  <2> DEFINE y == BytesOf(Advance(b, k))
             z == Bytes(R)
  <2>9. /\ Bytes(W) = y \o z /\ W \in Seq(Buffer)
        /\ Bytes(After(l, i)) = (x \o y) \o z
    BY <2>1, <2>4, <2>5, <2>6, <2>7, <2>8, BytesCons
  <2>10. y \in Seq(Byte) /\ z \in Seq(Byte)
    BY <2>4, <2>7, BytesOfType
  <2> HIDE DEF y, z
  <2>11. /\ (x \o y) \o z = x \o (y \o z) /\ A \o (x \o (y \o z)) = (A \o x) \o (y \o z)
         /\ A \o x \in Seq(Byte) /\ Len(A \o x) = Len(A) + Len(x)
    <3>1. y \o z \in Seq(Byte)
      BY <2>10, ConcatProperties
    <3>2. (x \o y) \o z = x \o (y \o z)
      BY <2>10, ByteAssoc
    <3>3. A \o (x \o (y \o z)) = (A \o x) \o (y \o z)
      <4> DEFINE w == y \o z
      <4>1. w \in Seq(Byte)
        BY <3>1
      <4> HIDE DEF w
      <4>0. A \in Seq(Byte) /\ x \in Seq(Byte)
        BY <1>3
      <4>2. (A \o x) \o w = A \o (x \o w)
        BY <4>0, <4>1, ByteAssoc
      <4> QED
        BY <4>2 DEF w
    <3>4. A \o x \in Seq(Byte) /\ Len(A \o x) = Len(A) + Len(x)
      BY <1>3, ConcatProperties
    <3> QED
      BY <3>2, <3>3, <3>4
  <2> DEFINE ax == A \o x
  <2>12. ax \in Seq(Byte) /\ Len(ax) = n /\ Bytes(l) = ax \o Bytes(W)
    BY <1>3, <2>3, <2>8, <2>9, <2>11
  <2> HIDE DEF ax
  <2>13. \E u \in Seq(Byte) : Len(u) = n /\ Bytes(l) = u \o Bytes(W)
    BY <2>12
  <2> QED
    BY <1>1, <2>9, <2>13 DEF W
<1> QED
  BY <1>2, <1>4, <1>5

\* The buffers of a list have data, and end where their messages end.
Full(l) == \A i \in 1 .. Len(l) : l[i].size > 0 /\ l[i].ptr + l[i].size = Size(l[i].msg)

\* Only its first buffer may have been written in part.
HeadOnly(l) == \A i \in 2 .. Len(l) : l[i].ptr = 0

LEMMA WrittenShape ==
  ASSUME NEW l \in Seq(Buffer), NEW n \in 0 .. Len(Bytes(l)), Full(l), HeadOnly(l)
  PROVE  /\ Full(Written(l, n)) /\ HeadOnly(Written(l, n))
         /\ n = 0 => Written(l, n) = l
         /\ n = Len(Bytes(l)) <=> Written(l, n) = <<>>
<1> DEFINE W == Written(l, n)
<1>1. Len(l) \in Nat /\ \A i \in 1 .. Len(l) : l[i] \in Buffer
  BY LenProperties
<1>2. PICK i \in 0 .. Len(l) :
         \/ n = Upto(l, i) /\ W = After(l, i)
         \/ /\ i + 1 =< Len(l) /\ Upto(l, i) < n /\ n < Upto(l, i + 1)
            /\ W = <<Advance(l[i + 1], n - Upto(l, i))>> \o After(l, i + 1)
  BY WrittenIs
<1>3. /\ After(l, i) \in Seq(Buffer) /\ Len(After(l, i)) = Len(l) - i
      /\ \A j \in 1 .. Len(l) - i : After(l, i)[j] = l[i + j]
  BY CutList
<1>4. Len(Bytes(l)) \in Nat /\ n \in Nat /\ Upto(l, i) \in Nat
  BY UptoGrows
<1> HIDE DEF W
<1>5. CASE n = Upto(l, i) /\ W = After(l, i)
  <2>1. Len(W) = Len(l) - i /\ \A j \in 1 .. Len(W) : W[j] = l[i + j] /\ i + j \in 1 .. Len(l)
    BY <1>1, <1>3, <1>5
  <2>2. Full(W)
    BY <2>1 DEF Full
  <2>3. HeadOnly(W)
    <3>1. ASSUME NEW j \in 2 .. Len(W) PROVE W[j].ptr = 0
      <4>1. j \in 1 .. Len(W) /\ i + j \in 2 .. Len(l)
        BY <1>1, <2>1
      <4> QED
        BY <2>1, <4>1 DEF HeadOnly
    <3> QED
      BY <3>1 DEF HeadOnly
  <2>4. ASSUME i # 0 PROVE n # 0
    <3>1. i - 1 \in 0 .. Len(l) /\ (i - 1) + 1 = i /\ i \in 1 .. Len(l)
      BY <1>1, <2>4
    <3>2. Upto(l, i) = Upto(l, i - 1) + l[i].size /\ Upto(l, i - 1) \in Nat
      BY <3>1, UptoGrows
    <3>3. l[i].size > 0 /\ l[i].size \in Nat
      BY <1>1, <3>1 DEF Full, Buffer
    <3> QED
      BY <1>5, <3>2, <3>3
  <2>5. i = 0 => W = l
    BY <1>5, SubSeqFull DEF After
  <2>6. ASSUME i # Len(l) PROVE n # Len(Bytes(l)) /\ W # <<>>
    <3>1. i + 1 =< Len(l) /\ i + 1 \in 0 .. Len(l) /\ i + 1 \in 1 .. Len(l)
      BY <1>1, <2>6
    <3>2. /\ Upto(l, i + 1) = Upto(l, i) + l[i + 1].size
          /\ Upto(l, i + 1) \in Nat /\ Upto(l, i + 1) =< Len(Bytes(l))
      BY <3>1, UptoGrows
    <3>3. l[i + 1].size > 0 /\ l[i + 1].size \in Nat
      BY <1>1, <3>1 DEF Full, Buffer
    <3>4. Len(W) # 0
      BY <1>1, <2>1, <2>6
    <3>5. Len(<<>>) = 0
      OBVIOUS
    <3> QED
      BY <1>4, <1>5, <3>2, <3>3, <3>4, <3>5
  <2>7. i = Len(l) => n = Len(Bytes(l)) /\ W = <<>>
    <3>1. i = Len(l) => Len(W) = 0
      BY <1>1, <2>1
    <3>2. i = Len(l) => n = Len(Bytes(l))
      BY <1>5, UptoGrows
    <3> QED
      BY <1>3, <1>5, <3>1, <3>2, EmptySeq
  <2> QED
    BY <2>2, <2>3, <2>4, <2>5, <2>6, <2>7 DEF W
<1>6. CASE /\ i + 1 =< Len(l) /\ Upto(l, i) < n /\ n < Upto(l, i + 1)
           /\ W = <<Advance(l[i + 1], n - Upto(l, i))>> \o After(l, i + 1)
  <2> DEFINE b == l[i + 1]
             k == n - Upto(l, i)
             R == After(l, i + 1)
             a == Advance(b, k)
  <2>1. /\ i + 1 \in 0 .. Len(l) /\ i + 1 \in 1 .. Len(l) /\ b \in Buffer
        /\ Upto(l, i + 1) = Upto(l, i) + b.size /\ Upto(l, i + 1) =< Len(Bytes(l))
        /\ Upto(l, i + 1) \in Nat
    BY <1>1, <1>6, UptoGrows
  <2>2. b.size \in Nat /\ b.ptr \in Nat
    BY <2>1 DEF Buffer
  <2>3. k \in Nat /\ k < b.size /\ n # 0 /\ n # Len(Bytes(l))
    BY <1>4, <1>6, <2>1, <2>2
  <2>4. /\ R \in Seq(Buffer) /\ Len(R) = Len(l) - (i + 1)
        /\ \A j \in 1 .. Len(l) - (i + 1) : R[j] = l[(i + 1) + j]
    BY <2>1, CutList
  <2>5. a \in Buffer /\ a.msg = b.msg /\ a.size = b.size - k /\ a.ptr = b.ptr + k
    BY <2>1, <2>2, <2>3, AdvanceBytes
  <2>6. b.size > 0 /\ b.ptr + b.size = Size(b.msg)
    BY <2>1 DEF Full
  <2>7. W = <<a>> \o R
    BY <1>6
  <2> HIDE DEF b, k, R, a
  <2>8. /\ Len(W) = Len(R) + 1 /\ W[1] = a
        /\ \A j \in 2 .. Len(W) : W[j] = R[j - 1]
    <3>1. <<a>> \in Seq(Buffer) /\ Len(<<a>>) = 1 /\ <<a>>[1] = a
      BY <2>5
    <3> DEFINE h == <<a>>
    <3>2. h \in Seq(Buffer) /\ Len(h) = 1 /\ h[1] = a /\ W = h \o R
      BY <2>7, <3>1
    <3> HIDE DEF h
    <3>3. /\ Len(W) = 1 + Len(R)
          /\ \A j \in 1 .. 1 + Len(R) : W[j] = IF j =< 1 THEN h[j] ELSE R[j - 1]
      <4>1. h \in Seq(Buffer) /\ R \in Seq(Buffer)
        BY <2>4, <3>2
      <4>2. /\ Len(h \o R) = Len(h) + Len(R)
            /\ \A j \in 1 .. Len(h) + Len(R) :
                 (h \o R)[j] = IF j =< Len(h) THEN h[j] ELSE R[j - Len(h)]
        BY <4>1, ConcatProperties
      <4> QED
        BY <3>2, <4>2
    <3>4. Len(R) \in Nat
      BY <2>4, LenProperties
    <3>5. \A j \in 2 .. Len(W) : j \in 1 .. 1 + Len(R) /\ ~(j =< 1)
      BY <3>3, <3>4
    <3>6. W[1] = a
      <4>1. 1 \in 1 .. 1 + Len(R) /\ 1 =< 1
        BY <3>4
      <4> QED
        BY <3>2, <3>3, <4>1
    <3> QED
      BY <3>3, <3>4, <3>5, <3>6
  <2>9. \A j \in 2 .. Len(W) : W[j] = l[i + j] /\ i + j \in 2 .. Len(l) /\ i + j \in 1 .. Len(l)
    <3> TAKE j \in 2 .. Len(W)
    <3>1. /\ j - 1 \in 1 .. Len(l) - (i + 1) /\ (i + 1) + (j - 1) = i + j
          /\ i + j \in 2 .. Len(l) /\ i + j \in 1 .. Len(l)
      BY <1>1, <2>1, <2>4, <2>8
    <3> QED
      BY <2>4, <2>8, <3>1
  <2>10. Full(W)
    <3>1. a.size > 0 /\ a.ptr + a.size = Size(a.msg)
      <4>1. (b.ptr + k) + (b.size - k) = b.ptr + b.size
        BY <2>2, <2>3
      <4>2. a.size > 0
        BY <2>2, <2>3, <2>5
      <4>3. a.ptr + a.size = b.ptr + b.size
        BY <2>5, <4>1
      <4> QED
        BY <2>5, <2>6, <4>2, <4>3
    <3>2. ASSUME NEW j \in 1 .. Len(W)
          PROVE  W[j].size > 0 /\ W[j].ptr + W[j].size = Size(W[j].msg)
      <4>1. CASE j = 1
        BY <2>8, <3>1, <4>1
      <4>2. CASE j # 1
        <5>1. j \in 2 .. Len(W)
          BY <1>1, <2>4, <2>8, <4>2
        <5> QED
          BY <2>9, <5>1 DEF Full
      <4> QED
        BY <4>1, <4>2
    <3> QED
      BY <3>2 DEF Full
  <2>11. HeadOnly(W)
    BY <2>9 DEF HeadOnly
  <2>12. W # <<>>
    <3>1. Len(W) # 0 /\ Len(<<>>) = 0
      BY <1>1, <2>1, <2>4, <2>8
    <3> QED
      BY <3>1
  <2> QED
    BY <2>3, <2>10, <2>11, <2>12 DEF W
<1> QED
  BY <1>2, <1>5, <1>6 DEF W

-----------------------------------------------------------------------------
(* Where the messages lie.  S is a sequence of bytes, pr the priorities of *)
(* the messages; message m is at pos[m] + 1 .. pos[m] + Size(m) of S.      *)

Whole(m) == [i \in 1 .. Size(m) |-> <<m, i>>]

Blocks(S, pos, n) ==
  /\ \A m \in 1 .. n : \A j \in 1 .. Size(m) :
       pos[m] + j \in 1 .. Len(S) /\ S[pos[m] + j] = <<m, j>>
  /\ \A i \in 1 .. Len(S) :
       /\ S[i][1] \in 1 .. n /\ S[i][2] \in 1 .. Size(S[i][1])
       /\ i = pos[S[i][1]] + S[i][2]
InOrder(pos, pr) ==
  \A k, m \in 1 .. Len(pr) : k < m /\ pr[k] = pr[m] => pos[k] < pos[m]
Layout(S, pos, pr) ==
  pos \in [1 .. Len(pr) -> Nat] /\ Blocks(S, pos, Len(pr)) /\ InOrder(pos, pr)

\* No message is cut at c, and those after it are low.
Cut(pos, pr, c) ==
  \A m \in 1 .. Len(pr) : pos[m] + Size(m) =< c \/ (pos[m] >= c /\ pr[m] = "low")

\* What the sizes are.
LEMMA Sizes == \A m \in 1 .. MaxMsg : Size(m) \in Nat /\ Size(m) > 0
  BY SizeAssumption

LEMMA WholeType ==
  ASSUME NEW m \in 1 .. MaxMsg
  PROVE  /\ Whole(m) \in Seq(Byte) /\ Len(Whole(m)) = Size(m)
         /\ \A j \in 1 .. Size(m) : Whole(m)[j] = <<m, j>>
<1>1. Size(m) \in Nat
  BY Sizes
<1>2. Whole(m) \in [1 .. Size(m) -> Byte]
  BY <1>1 DEF Whole, Byte, Messages
<1>3. Whole(m) \in Seq(Byte)
  BY <1>1, <1>2
<1>4. Len(Whole(m)) = Size(m)
  BY <1>1, <1>2, <1>3, LenProperties
<1> QED
  BY <1>3, <1>4 DEF Whole

\* A cut may move forward to the end, to where a message starts, or to where one
\* ends.
LEMMA CutMove ==
  ASSUME NEW pr \in Seq(Priorities), Len(pr) =< MaxMsg, NEW S \in Seq(Byte), NEW pos,
         Layout(S, pos, pr), NEW c \in Nat, Cut(pos, pr, c),
         NEW d \in Nat, c =< d, d =< Len(S),
         \/ d = Len(S)
         \/ d < Len(S) /\ S[d + 1][2] = 1
         \/ d > 0 /\ S[d][2] = Size(S[d][1])
  PROVE  Cut(pos, pr, d)
<1>1. Len(pr) \in Nat /\ Len(S) \in Nat /\ pos \in [1 .. Len(pr) -> Nat]
  BY LenProperties DEF Layout
<1> SUFFICES ASSUME NEW m \in 1 .. Len(pr), ~(pos[m] + Size(m) =< d)
             PROVE  pos[m] >= d /\ pr[m] = "low"
  BY DEF Cut
<1>2. pos[m] \in Nat /\ Size(m) \in Nat /\ Size(m) > 0
  BY <1>1, Sizes, SizeAssumption
<1>3. pos[m] >= c /\ pr[m] = "low"
  BY <1>2 DEF Cut
<1>4. ASSUME pos[m] < d PROVE FALSE
  <2>1. \A j \in 1 .. Size(m) : pos[m] + j \in 1 .. Len(S) /\ S[pos[m] + j] = <<m, j>>
    BY DEF Layout, Blocks
  <2>2. CASE d = Len(S)
    <3>1. Size(m) \in 1 .. Size(m)
      BY <1>2
    <3> QED
      BY <1>1, <1>2, <2>1, <2>2, <3>1
  <2>3. CASE d < Len(S) /\ S[d + 1][2] = 1
    <3>1. d + 1 - pos[m] \in 1 .. Size(m) /\ d + 1 - pos[m] # 1 /\ pos[m] + (d + 1 - pos[m]) = d + 1
      BY <1>2, <1>4
    <3>2. S[d + 1] = <<m, d + 1 - pos[m]>>
      BY <2>1, <3>1
    <3> QED
      BY <2>3, <3>1, <3>2
  <2>4. CASE d > 0 /\ S[d][2] = Size(S[d][1])
    <3>1. d - pos[m] \in 1 .. Size(m) /\ d - pos[m] # Size(m) /\ pos[m] + (d - pos[m]) = d
      BY <1>2, <1>4
    <3>2. S[d] = <<m, d - pos[m]>>
      BY <2>1, <3>1
    <3> QED
      BY <2>4, <3>1, <3>2
  <2> QED
    BY <2>2, <2>3, <2>4
<1> QED
  BY <1>2, <1>3, <1>4

\* Everything is before the end.
LEMMA CutEnd ==
  ASSUME NEW pr \in Seq(Priorities), Len(pr) =< MaxMsg, NEW S \in Seq(Byte), NEW pos,
         Layout(S, pos, pr)
  PROVE  Cut(pos, pr, Len(S))
<1>1. ASSUME NEW m \in 1 .. Len(pr) PROVE pos[m] + Size(m) =< Len(S)
  <2>1. Len(pr) \in Nat /\ Len(S) \in Nat /\ pos[m] \in Nat
    BY LenProperties DEF Layout
  <2>2. Size(m) \in 1 .. Size(m)
    BY <2>1, Sizes, SizeAssumption
  <2>3. pos[m] + Size(m) \in 1 .. Len(S)
    BY <2>2 DEF Layout, Blocks
  <2> QED
    BY <2>1, <2>3
<1> QED
  BY <1>1 DEF Cut

\* S is A, W and D, one after the other.
Joins(S, A, W, D) == S = (A \o W) \o D

\* A new message, of any priority at the end, of high priority at a cut.
LEMMA Insert ==
  ASSUME NEW pr \in Seq(Priorities), NEW p \in Priorities, Len(pr) + 1 =< MaxMsg,
         NEW A \in Seq(Byte), NEW D \in Seq(Byte), NEW pos, NEW S, Joins(S, A, <<>>, D),
         Layout(S, pos, pr), Cut(pos, pr, Len(A)), p = "high" \/ D = <<>>,
         NEW R, Joins(R, A, Whole(Len(pr) + 1), D)
  PROVE  \E new :
           /\ Layout(R, new, Append(pr, p))
           /\ Cut(new, Append(pr, p), Len(A) + Size(Len(pr) + 1))
           /\ \A c \in Nat : /\ p = "low" /\ D = <<>> /\ c =< Len(A)
                             /\ Cut(pos, pr, c)
                             => Cut(new, Append(pr, p), c)
<1> DEFINE n == Len(pr)
           m == n + 1
           z == Size(m)
           a == Len(A)
           d == Len(D)
           pq == Append(pr, p)
           new == [k \in 1 .. m |-> IF k = m THEN a ELSE IF pos[k] >= a THEN pos[k] + z ELSE pos[k]]
<1>1. /\ n \in Nat /\ a \in Nat /\ d \in Nat /\ m \in 1 .. MaxMsg
      /\ z \in Nat /\ z > 0 /\ pos \in [1 .. n -> Nat]
  <2>1. n \in Nat /\ a \in Nat /\ d \in Nat /\ pos \in [1 .. n -> Nat]
    BY LenProperties DEF Layout
  <2>2. m \in 1 .. MaxMsg
    BY <2>1, SizeAssumption
  <2> HIDE DEF m
  <2> QED
    BY <2>1, <2>2, Sizes
<1>2. /\ pq \in Seq(Priorities) /\ Len(pq) = m /\ pq[m] = p
      /\ \A k \in 1 .. n : pq[k] = pr[k]
  BY AppendProperties
<1>3. /\ Whole(m) \in Seq(Byte) /\ Len(Whole(m)) = z
      /\ \A j \in 1 .. z : Whole(m)[j] = <<m, j>>
  BY <1>1, WholeType
<1>4. /\ Len(S) = a + d
      /\ \A i \in 1 .. a : S[i] = A[i]
      /\ \A i \in 1 .. d : S[a + i] = D[i]
  <2>1. /\ Len(A \o D) = a + d
        /\ \A i \in 1 .. a + d : (A \o D)[i] = IF i =< a THEN A[i] ELSE D[i - a]
    BY ConcatProperties
  <2>2. \A i \in 1 .. d : a + i \in 1 .. a + d /\ ~(a + i =< a) /\ (a + i) - a = i
    BY <1>1
  <2>3. S = A \o D
    BY ConcatEmptySeq DEF Joins
  <2> DEFINE T == A \o D
  <2> HIDE DEF a, d, T
  <2>4. Len(T) = a + d /\ \A i \in 1 .. a + d : T[i] = IF i =< a THEN A[i] ELSE D[i - a]
    BY <2>1 DEF T
  <2>5. \A i \in 1 .. a : T[i] = A[i]
    BY <1>1, <2>4
  <2>6. \A i \in 1 .. d : T[a + i] = D[i]
    BY <2>2, <2>4
  <2> QED
    BY <2>3, <2>4, <2>5, <2>6 DEF T
<1> HIDE DEF m, z, a, d, pq, n
<1>5. /\ Len(R) = a + z + d
      /\ \A i \in 1 .. a : R[i] = A[i]
      /\ \A i \in 1 .. z : R[a + i] = <<m, i>>
      /\ \A i \in 1 .. d : R[a + z + i] = D[i]
  <2> DEFINE W == Whole(m)
             V == A \o W
  <2>1. W \in Seq(Byte) /\ Len(W) = z /\ R = V \o D
    BY <1>3 DEF m, n, Joins
  <2> HIDE DEF W
  <2>2. /\ V \in Seq(Byte) /\ Len(V) = a + z
        /\ \A i \in 1 .. a + z : V[i] = IF i =< a THEN A[i] ELSE W[i - a]
    BY <2>1, ConcatProperties DEF a
  <2> HIDE DEF V
  <2>3. /\ Len(R) = (a + z) + d
        /\ \A i \in 1 .. (a + z) + d : R[i] = IF i =< a + z THEN V[i] ELSE D[i - (a + z)]
    <3>1. V \in Seq(Byte) /\ Len(V) = a + z /\ Len(D) = d
      BY <2>2 DEF d
    <3>2. /\ Len(V \o D) = Len(V) + Len(D)
          /\ \A i \in 1 .. Len(V) + Len(D) :
               (V \o D)[i] = IF i =< Len(V) THEN V[i] ELSE D[i - Len(V)]
      BY <3>1, ConcatProperties
    <3> QED
      BY <2>1, <3>1, <3>2
  <2>4. \A i \in 1 .. a : R[i] = A[i]
    BY <1>1, <2>2, <2>3
  <2>5. ASSUME NEW i \in 1 .. z PROVE R[a + i] = <<m, i>>
    <3>1. a + i \in 1 .. (a + z) + d /\ a + i \in 1 .. a + z /\ ~(a + i =< a) /\ (a + i) - a = i
          /\ a + i =< a + z
      BY <1>1
    <3>2. R[a + i] = W[i]
      BY <2>2, <2>3, <3>1
    <3> QED
      BY <1>3, <3>2 DEF W
  <2>6. ASSUME NEW i \in 1 .. d PROVE R[a + z + i] = D[i]
    <3>1. a + z + i \in 1 .. (a + z) + d /\ ~(a + z + i =< a + z) /\ (a + z + i) - (a + z) = i
      BY <1>1
    <3> QED
      BY <2>3, <3>1
  <2> QED
    BY <2>3, <2>4, <2>5, <2>6
<1>6. \A k \in 1 .. n : \A j \in 1 .. Size(k) :
         pos[k] + j \in 1 .. a + d /\ S[pos[k] + j] = <<k, j>>
  BY <1>4 DEF Layout, Blocks, n
<1>7. \A i \in 1 .. a + d :
         /\ S[i][1] \in 1 .. n /\ S[i][2] \in 1 .. Size(S[i][1])
         /\ i = pos[S[i][1]] + S[i][2]
  BY <1>4 DEF Layout, Blocks, n
<1>8. \A k \in 1 .. n : /\ Size(k) \in Nat /\ Size(k) > 0 /\ pos[k] \in Nat /\ k # m /\ k \in 1 .. m
                        /\ pos[k] + Size(k) =< a \/ (pos[k] >= a /\ pr[k] = "low")
  <2> TAKE k \in 1 .. n
  <2>1. k \in 1 .. MaxMsg /\ k # m /\ k \in 1 .. m
    BY <1>1, SizeAssumption DEF m
  <2>2. Size(k) \in Nat /\ Size(k) > 0
    BY <2>1, Sizes
  <2>3. pos[k] + Size(k) =< a \/ (pos[k] >= a /\ pr[k] = "low")
    BY DEF Cut, a, n
  <2> QED
    BY <1>1, <2>1, <2>2, <2>3
<1>9. /\ new[m] = a /\ new \in [1 .. m -> Nat]
      /\ \A k \in 1 .. n : new[k] = IF pos[k] >= a THEN pos[k] + z ELSE pos[k]
  <2>1. m \in 1 .. m
    BY <1>1
  <2>2. new \in [1 .. m -> Nat]
    <3>1. ASSUME NEW k \in 1 .. m, k # m PROVE k \in 1 .. n
      BY <1>1, <3>1 DEF m
    <3>2. ASSUME NEW k \in 1 .. m
          PROVE  (IF k = m THEN a ELSE IF pos[k] >= a THEN pos[k] + z ELSE pos[k]) \in Nat
      <4>1. k # m => pos[k] \in Nat
        BY <1>8, <3>1
      <4> QED
        BY <1>1, <4>1
    <3> QED
      BY <3>2
  <2> QED
    BY <1>8, <2>1, <2>2
<1> HIDE DEF new
<1>0. ASSUME NEW k \in 1 .. n
      PROVE  \/ pos[k] + Size(k) =< a /\ pos[k] < a /\ new[k] = pos[k]
             \/ pos[k] >= a /\ pr[k] = "low" /\ new[k] = pos[k] + z
  <2>1. /\ Size(k) \in Nat /\ Size(k) > 0 /\ pos[k] \in Nat
        /\ pos[k] + Size(k) =< a \/ (pos[k] >= a /\ pr[k] = "low")
        /\ new[k] = IF pos[k] >= a THEN pos[k] + z ELSE pos[k]
    BY <1>8, <1>9
  <2> QED
    BY <1>1, <2>1
<1>10. ASSUME NEW k \in 1 .. m, NEW j \in 1 .. Size(k)
       PROVE  new[k] + j \in 1 .. Len(R) /\ R[new[k] + j] = <<k, j>>
  <2>1. CASE k = m
    <3>1. j \in 1 .. z /\ new[k] = a
      BY <1>9, <2>1 DEF z
    <3> QED
      BY <1>1, <1>5, <2>1, <3>1
  <2>2. CASE k # m
    <3>1. k \in 1 .. n
      BY <1>1, <2>2 DEF m
    <3>2. pos[k] + j \in 1 .. a + d /\ S[pos[k] + j] = <<k, j>> /\ pos[k] \in Nat /\ Size(k) \in Nat
      BY <1>6, <1>8, <3>1
    <3>3. CASE pos[k] >= a
      <4>1. pos[k] + j - a \in 1 .. d /\ a + (pos[k] + j - a) = pos[k] + j
            /\ new[k] + j = a + z + (pos[k] + j - a)
        <5>1. new[k] = pos[k] + z
          BY <1>1, <1>0, <3>1, <3>2, <3>3
        <5> DEFINE u == pos[k]
                   v == new[k]
                   w == Size(k)
        <5>2. /\ u \in Nat /\ w \in Nat /\ j \in 1 .. w /\ u + j \in 1 .. a + d
              /\ u >= a /\ v = u + z
          BY <3>2, <3>3, <5>1
        <5> HIDE DEF u, v, w
        <5>3. u + j - a \in 1 .. d /\ a + (u + j - a) = u + j /\ v + j = a + z + (u + j - a)
          BY <1>1, <5>2
        <5> QED
          BY <5>3 DEF u, v
      <4>2. R[new[k] + j] = D[pos[k] + j - a] /\ S[pos[k] + j] = D[pos[k] + j - a]
        BY <1>4, <1>5, <4>1
      <4>3. new[k] + j \in 1 .. Len(R)
        <5>1. Len(R) = a + z + d /\ pos[k] + j - a \in 1 .. d
          BY <1>5, <4>1
        <5> DEFINE x == pos[k] + j - a
        <5>2. x \in 1 .. d /\ new[k] + j = a + z + x
          BY <4>1, <5>1
        <5> HIDE DEF x
        <5> QED
          BY <1>1, <5>1, <5>2
      <4> QED
        BY <3>2, <4>2, <4>3
    <3>4. CASE ~(pos[k] >= a)
      <4>1. pos[k] + j \in 1 .. a /\ new[k] = pos[k]
        <5>1. new[k] = pos[k] /\ pos[k] + Size(k) =< a
          BY <1>1, <1>0, <3>1, <3>4
        <5> QED
          BY <1>1, <3>2, <5>1
      <4>2. R[new[k] + j] = A[pos[k] + j] /\ S[pos[k] + j] = A[pos[k] + j]
        BY <1>4, <1>5, <4>1
      <4>3. new[k] + j \in 1 .. Len(R)
        BY <1>1, <1>5, <4>1
      <4> QED
        BY <3>2, <4>2, <4>3
    <3> QED
      BY <3>3, <3>4
  <2> QED
    BY <2>1, <2>2
<1>11. ASSUME NEW i \in 1 .. Len(R)
       PROVE  /\ R[i][1] \in 1 .. m /\ R[i][2] \in 1 .. Size(R[i][1])
              /\ i = new[R[i][1]] + R[i][2]
  <2>1. CASE i =< a
    <3>1. i \in 1 .. a /\ i \in 1 .. a + d
      BY <1>1, <1>5, <2>1
    <3>2. R[i] = S[i]
      BY <1>4, <1>5, <3>1
    <3> DEFINE k == S[i][1]
               j == S[i][2]
    <3>3. k \in 1 .. n /\ j \in 1 .. Size(k) /\ i = pos[k] + j
      BY <1>7, <3>1
    <3> HIDE DEF k, j
    <3>4. new[k] = pos[k]
      <4> DEFINE u == pos[k]
                 w == Size(k)
      <4>1. u \in Nat /\ w \in Nat /\ j \in 1 .. w /\ i = u + j /\ i =< a
        BY <1>8, <2>1, <3>3
      <4> HIDE DEF u, w
      <4>2. ~(u >= a)
        BY <1>1, <4>1
      <4> QED
        BY <1>0, <3>3, <4>2 DEF u
    <3>5. k \in 1 .. m
      BY <1>8, <3>3
    <3> QED
      BY <3>2, <3>3, <3>4, <3>5 DEF k, j
  <2>2. CASE a < i /\ i =< a + z
    <3>1. i - a \in 1 .. z /\ a + (i - a) = i
      BY <1>1, <2>2
    <3>2. R[i] = <<m, i - a>>
      BY <1>5, <3>1
    <3>3. R[i][1] = m /\ R[i][2] = i - a /\ m \in 1 .. m
      BY <1>1, <3>2
    <3> QED
      BY <1>9, <3>1, <3>3 DEF z
  <2>3. CASE a + z < i
    <3> DEFINE e == i - z
    <3>1. /\ e - a \in 1 .. d /\ e \in 1 .. a + d /\ a + (e - a) = e
          /\ a + z + (e - a) = i /\ e > a /\ i = e + z
      BY <1>1, <1>5, <2>3
    <3> HIDE DEF e
    <3>2. R[i] = S[e]
      BY <1>4, <1>5, <3>1
    <3> DEFINE k == S[e][1]
               j == S[e][2]
    <3>3. k \in 1 .. n /\ j \in 1 .. Size(k) /\ e = pos[k] + j
      BY <1>7, <3>1
    <3> HIDE DEF k, j
    <3>4. pos[k] >= a /\ new[k] = pos[k] + z /\ i = new[k] + j
      <4> DEFINE u == pos[k]
                 w == Size(k)
      <4>1. u \in Nat /\ w \in Nat /\ j \in 1 .. w /\ e = u + j
        BY <1>8, <3>3
      <4> HIDE DEF u, w
      <4>2. ~(u + w =< a)
        BY <1>1, <3>1, <4>1
      <4>3. pos[k] >= a /\ new[k] = pos[k] + z
        BY <1>0, <3>3, <4>2 DEF u, w
      <4>4. new[k] = u + z
        BY <4>3 DEF u
      <4>5. i = (u + z) + j
        BY <1>1, <3>1, <4>1
      <4> QED
        BY <4>3, <4>4, <4>5
    <3>5. k \in 1 .. m
      BY <1>8, <3>3
    <3> QED
      BY <3>2, <3>3, <3>4, <3>5 DEF k, j
  <2> QED
    BY <1>1, <1>5, <2>1, <2>2, <2>3
<1>12. ASSUME D = <<>>, NEW k \in 1 .. n PROVE pos[k] < a /\ new[k] = pos[k] /\ pos[k] + Size(k) =< a
  <2>1. d = 0
    BY <1>12 DEF d
  <2>2. Size(k) \in 1 .. Size(k) /\ Size(k) \in Nat /\ pos[k] \in Nat /\ Size(k) > 0
    BY <1>8
  <2>3. pos[k] + Size(k) \in 1 .. a + d
    BY <1>6, <2>2
  <2> QED
    BY <1>1, <1>9, <2>1, <2>2, <2>3
<1>13. ASSUME NEW k \in 1 .. m, NEW e \in 1 .. m, k < e, pq[k] = pq[e] PROVE new[k] < new[e]
  <2>1. k \in 1 .. n
    BY <1>1, <1>13 DEF m
  <2>2. CASE e = m
    <3>1. pr[k] = p /\ new[e] = a
      BY <1>2, <1>9, <1>13, <2>1, <2>2
    <3>2. CASE p = "high"
      <4>1. pr[k] # "low"
        BY <3>1, <3>2
      <4>2. pos[k] < a /\ new[k] = pos[k]
        BY <1>0, <2>1, <4>1
      <4> QED
        BY <3>1, <4>2
    <3>3. CASE D = <<>>
      BY <1>12, <2>1, <3>1, <3>3
    <3> QED
      BY <3>2, <3>3
  <2>3. CASE e # m
    <3>1. e \in 1 .. n /\ pr[k] = pr[e]
      BY <1>1, <1>2, <1>13, <2>1, <2>3 DEF m
    <3>2. pos[k] < pos[e]
      BY <1>13, <2>1, <3>1 DEF Layout, InOrder, n
    <3>3. pos[k] \in Nat /\ pos[e] \in Nat
      BY <1>8, <2>1, <3>1
    <3>4. /\ (pos[k] < a /\ new[k] = pos[k]) \/ (pos[k] >= a /\ new[k] = pos[k] + z)
          /\ (pos[e] < a /\ new[e] = pos[e]) \/ (pos[e] >= a /\ new[e] = pos[e] + z)
      BY <1>0, <2>1, <3>1
    <3> DEFINE x == pos[k]
               y == pos[e]
               u == new[k]
               v == new[e]
    <3>5. /\ x \in Nat /\ y \in Nat /\ a \in Nat /\ z \in Nat /\ x < y
          /\ (x < a /\ u = x) \/ (x >= a /\ u = x + z)
          /\ (y < a /\ v = y) \/ (y >= a /\ v = y + z)
      BY <1>1, <3>2, <3>3, <3>4
    <3> HIDE DEF x, y, u, v
    <3>6. u < v
      BY <3>5
    <3> QED
      BY <3>6 DEF u, v
  <2> QED
    BY <2>2, <2>3
<1>14. Layout(R, new, pq)
  BY <1>2, <1>9, <1>10, <1>11, <1>13 DEF Layout, Blocks, InOrder
<1>15. Cut(new, pq, a + z)
  <2>1. ASSUME NEW k \in 1 .. m
        PROVE  new[k] + Size(k) =< a + z \/ (new[k] >= a + z /\ pq[k] = "low")
    <3>1. CASE k = m
      BY <1>1, <1>9, <3>1 DEF z
    <3>2. CASE k # m
      <4>1. k \in 1 .. n
        BY <1>1, <3>2 DEF m
      <4> QED
        <5>1. Size(k) \in Nat /\ pos[k] \in Nat /\ pq[k] = pr[k]
          BY <1>2, <1>8, <4>1
        <5> QED
          BY <1>0, <1>1, <4>1, <5>1
    <3> QED
      BY <3>1, <3>2
  <2> QED
    BY <1>2, <2>1 DEF Cut
<1>16. ASSUME NEW c \in Nat, p = "low", D = <<>>, c =< a, Cut(pos, pr, c) PROVE Cut(new, pq, c)
  <2>1. ASSUME NEW k \in 1 .. m
        PROVE  new[k] + Size(k) =< c \/ (new[k] >= c /\ pq[k] = "low")
    <3>1. CASE k = m
      BY <1>1, <1>2, <1>9, <1>16, <3>1
    <3>2. CASE k # m
      <4>1. k \in 1 .. n
        BY <1>1, <3>2 DEF m
      <4>2. new[k] = pos[k] /\ pq[k] = pr[k]
        BY <1>2, <1>12, <1>16, <4>1
      <4>3. pos[k] + Size(k) =< c \/ (pos[k] >= c /\ pr[k] = "low")
        BY <1>16, <4>1 DEF Cut, n
      <4> QED
        BY <4>2, <4>3
    <3> QED
      BY <3>1, <3>2
  <2> QED
    BY <1>2, <2>1 DEF Cut
<1>17. \E q : /\ Layout(R, q, pq) /\ Cut(q, pq, a + z)
              /\ \A c \in Nat : p = "low" /\ D = <<>> /\ c =< a /\ Cut(pos, pr, c) => Cut(q, pq, c)
  BY <1>14, <1>15, <1>16
<1> QED
  BY <1>17 DEF a, z, m, pq, n

-----------------------------------------------------------------------------
(* The invariant.  While the socket lives, what is on the wire, high and   *)
(* low are whole messages, cut nowhere between high and low; when it is    *)
(* closed, the wire has the beginning of such a sequence, and all of it    *)
(* after a close that drained.                                             *)

Laid(w, hi, lo, pr) ==
  \E pos : /\ Layout((w \o Bytes(hi)) \o Bytes(lo), pos, pr)
           /\ Cut(pos, pr, Len(w \o Bytes(hi)))
Begun(w, pr) == \E pos : \E x \in Seq(Byte) : Layout(w \o x, pos, pr)
Complete(w, pr) == \E pos : Layout(w, pos, pr)

\* Buffers end where their messages do, and only the first of high was begun.
Lists(hi, lo) ==
  /\ hi \in Seq(Buffer) /\ Full(hi) /\ HeadOnly(hi)
  /\ lo \in Seq(Buffer) /\ Full(lo) /\ \A i \in 1 .. Len(lo) : lo[i].ptr = 0

Backlog == wb_size = Len(Bytes(list.high)) + Len(Bytes(list.low))

WInv ==
  /\ TypeOK /\ Len(prio) =< MaxMsg
  /\ Lists(list.high, list.low)
  /\ ended = "not" <=> type # "INVALID"
  /\ type = "INVALID" => Empty(list)
  /\ type # "INVALID" => Backlog /\ Laid(wire, list.high, list.low, prio)
  /\ Begun(wire, prio)
  /\ ended = "drained" => Complete(wire, prio)

\* Messages are whole in the beginning of a layout.
LEMMA BegunWhole ==
  ASSUME NEW pr \in Seq(Priorities), Len(pr) =< MaxMsg, NEW w \in Seq(Byte), Begun(w, pr)
  PROVE  /\ \A i \in 1 .. Len(w) - 1 :
              w[i + 1] \in IF w[i][2] < Size(w[i][1]) THEN {<<w[i][1], w[i][2] + 1>>}
                           ELSE {<<n, 1>> : n \in Messages \ {w[i][1]}}
         /\ \A i, j \in 1 .. Len(w) :
              i < j /\ pr[w[i][1]] = pr[w[j][1]] => w[i][1] =< w[j][1]
<1>0. PICK pos : \E x \in Seq(Byte) : Layout(w \o x, pos, pr)
  BY DEF Begun
<1>1. PICK x \in Seq(Byte) : Layout(w \o x, pos, pr)
  BY <1>0
<1> DEFINE S == w \o x
           n == Len(pr)
<1>2. /\ Len(w) \in Nat /\ Len(x) \in Nat /\ n \in Nat /\ MaxMsg \in Nat /\ n =< MaxMsg
      /\ Len(S) = Len(w) + Len(x) /\ \A i \in 1 .. Len(w) : S[i] = w[i]
  <2>1. Len(w) \in Nat /\ Len(x) \in Nat /\ n \in Nat
    BY LenProperties
  <2>2. /\ Len(w \o x) = Len(w) + Len(x)
        /\ \A i \in 1 .. Len(w) + Len(x) : (w \o x)[i] = IF i =< Len(w) THEN w[i] ELSE x[i - Len(w)]
    BY ConcatProperties
  <2> HIDE DEF n
  <2> QED
    BY <2>1, <2>2, SizeAssumption DEF n
<1>3. Layout(S, pos, pr)
  BY <1>1
<1> HIDE DEF S, n
<1>4. /\ pos \in [1 .. n -> Nat]
      /\ \A m \in 1 .. n : \A j \in 1 .. Size(m) :
           pos[m] + j \in 1 .. Len(S) /\ S[pos[m] + j] = <<m, j>>
      /\ \A i \in 1 .. Len(S) :
           /\ S[i][1] \in 1 .. n /\ S[i][2] \in 1 .. Size(S[i][1])
           /\ i = pos[S[i][1]] + S[i][2]
      /\ \A k, m \in 1 .. n : k < m /\ pr[k] = pr[m] => pos[k] < pos[m]
  BY <1>3 DEF Layout, Blocks, InOrder, n
<1>5. \A m \in 1 .. n : m \in Messages /\ Size(m) \in Nat /\ Size(m) > 0 /\ pos[m] \in Nat
  <2> TAKE m \in 1 .. n
  <2>1. m \in 1 .. MaxMsg
    BY <1>2
  <2> QED
    BY <1>4, <2>1, Sizes DEF Messages
<1>6. ASSUME NEW i \in 1 .. Len(w) - 1
      PROVE  w[i + 1] \in IF w[i][2] < Size(w[i][1]) THEN {<<w[i][1], w[i][2] + 1>>}
                          ELSE {<<u, 1>> : u \in Messages \ {w[i][1]}}
  <2>1. /\ i \in 1 .. Len(w) /\ i + 1 \in 1 .. Len(w) /\ i \in 1 .. Len(S) /\ i + 1 \in 1 .. Len(S)
        /\ i \in Nat
    BY <1>2
  <2>2. w[i] = S[i] /\ w[i + 1] = S[i + 1]
    BY <1>2, <2>1
  <2> DEFINE m == S[i][1]
             j == S[i][2]
             k == S[i + 1][1]
             e == S[i + 1][2]
             u == pos[m]
             v == pos[k]
             y == Size(m)
             z == Size(k)
  <2>3. m \in 1 .. n /\ j \in 1 .. y /\ i = u + j /\ k \in 1 .. n /\ e \in 1 .. z /\ i + 1 = v + e
    BY <1>4, <2>1
  <2>4. /\ u \in Nat /\ y \in Nat /\ y > 0 /\ v \in Nat /\ z \in Nat /\ z > 0
        /\ m \in Messages /\ k \in Messages
    BY <1>5, <2>3
  <2>5. S[v + e] = <<k, e>>
    BY <1>4, <2>3
  <2>6. S[i + 1] = <<k, e>>
    <3> HIDE DEF v, e, k
    <3> QED
      BY <2>3, <2>5
  <2>7. \A f \in 1 .. y : S[u + f] = <<m, f>>
    BY <1>4, <2>3
  <2>8. \A f \in 1 .. z : S[v + f] = <<k, f>>
    BY <1>4, <2>3
  <2>9. S[i][1] = m /\ S[i][2] = j
    OBVIOUS
  <2> HIDE DEF m, j, k, e, u, v, y, z
  <2>10. CASE j < y
    <3>1. j + 1 \in 1 .. y /\ u + (j + 1) = i + 1
      BY <2>1, <2>3, <2>4, <2>10
    <3>2. S[i + 1] = <<m, j + 1>>
      BY <2>7, <3>1
    <3> QED
      BY <2>2, <2>9, <2>10, <3>2 DEF m, j, y
  <2>11. CASE ~(j < y)
    <3>1. j = y
      BY <2>3, <2>4, <2>11
    <3>2. e = 1
      <4> SUFFICES ASSUME e # 1 PROVE FALSE
        OBVIOUS
      <4>1. e - 1 \in 1 .. z /\ v + (e - 1) = i
        BY <2>1, <2>3, <2>4
      <4>2. S[i] = <<k, e - 1>>
        BY <2>8, <4>1
      <4>3. m = k /\ j = e - 1
        BY <2>9, <4>2
      <4>4. y = z
        BY <4>3 DEF y, z
      <4>5. e \in 1 .. y /\ y = e - 1 /\ y \in Nat
        BY <2>3, <2>4, <3>1, <4>3, <4>4
      <4> QED
        BY <4>5
    <3>3. m # k
      <4> SUFFICES ASSUME m = k PROVE FALSE
        OBVIOUS
      <4>1. u = v
        BY DEF u, v
      <4> QED
        BY <2>1, <2>3, <2>4, <3>1, <3>2, <4>1
    <3> QED
      BY <2>2, <2>4, <2>6, <2>9, <2>11, <3>2, <3>3 DEF m, j, y
  <2> QED
    BY <2>10, <2>11
<1>7. ASSUME NEW i \in 1 .. Len(w), NEW j \in 1 .. Len(w), i < j, pr[w[i][1]] = pr[w[j][1]]
      PROVE  w[i][1] =< w[j][1]
  <2>1. i \in 1 .. Len(S) /\ j \in 1 .. Len(S) /\ w[i] = S[i] /\ w[j] = S[j]
    BY <1>2
  <2> DEFINE m == S[i][1]
             d == S[i][2]
             k == S[j][1]
             e == S[j][2]
             u == pos[m]
             v == pos[k]
             y == Size(m)
             z == Size(k)
  <2>2. m \in 1 .. n /\ d \in 1 .. y /\ i = u + d /\ k \in 1 .. n /\ e \in 1 .. z /\ j = v + e
    BY <1>4, <2>1
  <2>3. u \in Nat /\ y \in Nat /\ y > 0 /\ v \in Nat /\ z \in Nat /\ z > 0
    BY <1>5, <2>2
  <2>4. k < m => v < u
    BY <1>4, <1>7, <2>1, <2>2
  <2>5. \A f \in 1 .. y : S[u + f] = <<m, f>>
    BY <1>4, <2>2
  <2>6. \A f \in 1 .. z : S[v + f] = <<k, f>>
    BY <1>4, <2>2
  <2> HIDE DEF m, d, k, e, u, v, y, z
  <2>7. ASSUME k < m PROVE FALSE
    <3>1. v < u /\ u < v + z
      BY <1>7, <2>2, <2>3, <2>4, <2>7
    <3>2. 1 \in 1 .. y /\ (u + 1) - v \in 1 .. z /\ v + ((u + 1) - v) = u + 1
      BY <2>3, <3>1
    <3>3. S[u + 1] = <<m, 1>>
      BY <2>5, <3>2
    <3>4. S[u + 1] = <<k, (u + 1) - v>>
      BY <2>6, <3>2
    <3>5. m = k
      BY <3>3, <3>4
    <3> QED
      BY <1>2, <2>2, <2>7, <3>5
  <2>8. m =< k
    BY <1>2, <2>2, <2>7
  <2> QED
    BY <2>1, <2>8 DEF m, k
<1> QED
  BY <1>6, <1>7

\* While the socket lives no byte is lost or doubled.
LEMMA LaidOnce ==
  ASSUME NEW pr \in Seq(Priorities), Len(pr) =< MaxMsg, NEW S \in Seq(Byte), NEW pos,
         Layout(S, pos, pr), NEW m \in 1 .. Len(pr)
  PROVE  \E k \in 0 .. Len(S) :
           /\ k + Size(m) =< Len(S)
           /\ \A i \in 1 .. Len(S) :
                IF i \in k + 1 .. k + Size(m) THEN S[i] = <<m, i - k>> ELSE S[i][1] # m
<1> DEFINE k == pos[m]
           z == Size(m)
           n == Len(pr)
<1>1. n \in Nat /\ Len(S) \in Nat /\ k \in Nat /\ z \in Nat /\ z > 0
  <2>1. n \in Nat /\ Len(S) \in Nat /\ k \in Nat
    BY LenProperties DEF Layout
  <2>2. m \in 1 .. MaxMsg
    BY <2>1, SizeAssumption
  <2> QED
    BY <2>1, <2>2, Sizes
<1>2. \A j \in 1 .. z : k + j \in 1 .. Len(S) /\ S[k + j] = <<m, j>>
  BY DEF Layout, Blocks
<1>3. \A i \in 1 .. Len(S) : S[i][2] \in 1 .. Size(S[i][1]) /\ i = pos[S[i][1]] + S[i][2]
  BY DEF Layout, Blocks
<1>4. ASSUME NEW i \in 1 .. Len(S), S[i][1] = m PROVE i \in k + 1 .. k + z
  <2> DEFINE j == S[i][2]
  <2>1. j \in 1 .. z /\ i = k + j
    BY <1>3, <1>4
  <2> HIDE DEF k, z, j
  <2> QED
    BY <1>1, <2>1
<1> HIDE DEF k, z, n
<1>5. k \in 0 .. Len(S) /\ k + z =< Len(S)
  <2>1. z \in 1 .. z
    BY <1>1
  <2>2. k + z \in 1 .. Len(S)
    BY <1>2, <2>1
  <2> QED
    BY <1>1, <2>2
<1>6. ASSUME NEW i \in 1 .. Len(S), i \in k + 1 .. k + z PROVE S[i] = <<m, i - k>>
  <2>1. i - k \in 1 .. z /\ k + (i - k) = i
    BY <1>1, <1>6
  <2>2. S[k + (i - k)] = <<m, i - k>>
    BY <1>2, <2>1
  <2> QED
    BY <2>1, <2>2
<1>7. \E q \in 0 .. Len(S) :
         /\ q + z =< Len(S)
         /\ \A i \in 1 .. Len(S) :
              IF i \in q + 1 .. q + z THEN S[i] = <<m, i - q>> ELSE S[i][1] # m
  BY <1>4, <1>5, <1>6
<1> QED
  BY <1>7 DEF z

-----------------------------------------------------------------------------
(* A message is taken. *)

New(m, n) == [msg |-> m, ptr |-> n, size |-> Size(m) - n]
Direct(m, n) == [i \in 1 .. n |-> <<m, i>>]

LEMMA NewBytes ==
  ASSUME NEW m \in 1 .. MaxMsg, NEW n \in 0 .. Size(m) - 1
  PROVE  /\ New(m, n) \in Buffer /\ New(m, n).size > 0
         /\ New(m, n).ptr + New(m, n).size = Size(m) /\ New(m, n).msg = m
         /\ New(m, n).ptr = n
         /\ Direct(m, n) \in Seq(Byte)
         /\ Whole(m) = Direct(m, n) \o BytesOf(New(m, n))
         /\ n = 0 => Whole(m) = BytesOf(New(m, n))
<1> DEFINE b == New(m, n)
           z == Size(m)
           x == Direct(m, n)
           y == BytesOf(b)
<1>1. z \in Nat /\ z > 0
  BY Sizes
<1>2. n \in Nat /\ n < z /\ z - n \in Nat /\ z - n > 0 /\ n + (z - n) = z
  BY <1>1
<1>3. b.msg = m /\ b.ptr = n /\ b.size = z - n
  BY DEF New
<1>4. b \in Buffer
  BY <1>2 DEF New, Buffer, Messages
<1>5. x \in Seq(Byte) /\ Len(x) = n /\ \A j \in 1 .. n : x[j] = <<m, j>>
  <2>1. x \in [1 .. n -> Byte]
    BY <1>2 DEF Direct, Byte, Messages
  <2>2. x \in Seq(Byte)
    BY <1>2, <2>1
  <2>3. Len(x) = n
    BY <1>2, <2>1, <2>2, LenProperties
  <2> QED
    BY <2>2, <2>3 DEF Direct
<1>6. y \in Seq(Byte) /\ Len(y) = z - n /\ \A j \in 1 .. z - n : y[j] = <<m, n + j>>
  <2> HIDE DEF b
  <2> QED
    BY <1>3, <1>4, BytesOfType
<1>7. Whole(m) \in Seq(Byte) /\ Len(Whole(m)) = z /\ \A j \in 1 .. z : Whole(m)[j] = <<m, j>>
  BY WholeType
<1>8. Whole(m) = x \o y
  <2> DEFINE u == Whole(m)
             v == x \o y
  <2> HIDE DEF x, y, z, u
  <2>1. /\ v \in Seq(Byte) /\ Len(v) = n + (z - n)
        /\ \A j \in 1 .. n + (z - n) : v[j] = IF j =< n THEN x[j] ELSE y[j - n]
    <3>1. /\ v \in Seq(Byte) /\ Len(v) = Len(x) + Len(y)
          /\ \A j \in 1 .. Len(x) + Len(y) : v[j] = IF j =< Len(x) THEN x[j] ELSE y[j - Len(x)]
      BY <1>5, <1>6, ConcatProperties
    <3> HIDE DEF v
    <3> QED
      BY <1>5, <1>6, <3>1
  <2> HIDE DEF v
  <2>2. ASSUME NEW j \in 1 .. z PROVE v[j] = <<m, j>>
    <3>1. CASE j =< n
      BY <1>2, <1>5, <2>1, <3>1
    <3>2. CASE ~(j =< n)
      <4>1. j - n \in 1 .. z - n /\ n + (j - n) = j
        BY <1>2, <3>2
      <4>2. y[j - n] = <<m, j>>
        BY <1>6, <4>1
      <4> QED
        BY <1>2, <2>1, <3>2, <4>2
    <3> QED
      BY <3>1, <3>2
  <2>3. u \in Seq(Byte) /\ Len(u) = Len(v) /\ \A j \in 1 .. Len(u) : u[j] = v[j]
    BY <1>2, <1>7, <2>1, <2>2 DEF u
  <2>4. u = v
    BY <2>1, <2>3, SeqEqual
  <2> QED
    BY <2>4 DEF u, v
<1>9. n = 0 => x = <<>>
  BY <1>5, EmptySeq
<1>10. n = 0 => Whole(m) = y
  <2> HIDE DEF x, y
  <2> QED
    BY <1>6, <1>8, <1>9, ConcatEmptySeq
<1> QED
  BY <1>2, <1>3, <1>4, <1>5, <1>8, <1>10

LEMMA NoBytes ==
  ASSUME NEW w \in Seq(Byte)
  PROVE  w \o Bytes(<<>>) = w /\ (w \o Bytes(<<>>)) \o Bytes(<<>>) = w
<1>1. w \o <<>> = w
  BY ConcatEmptySeq
<1> QED
  BY <1>1, BytesEmpty

LEMMA OneByteList ==
  ASSUME NEW b \in Buffer
  PROVE  <<b>> \in Seq(Buffer) /\ Bytes(<<b>>) = BytesOf(b) /\ BytesOf(b) \in Seq(Byte)
<1>1. Bytes(<<b>>) = BytesOf(b)
  BY EmptySeq, BytesCons
<1> QED
  BY <1>1, BytesOfType

\* With both lists empty, n bytes go out and the rest to high.
LEMMA SendEmpty ==
  ASSUME NEW pr \in Seq(Priorities), NEW p \in Priorities, Len(pr) + 1 =< MaxMsg,
         NEW w \in Seq(Byte), Laid(w, <<>>, <<>>, pr)
  PROVE  LET m == Len(pr) + 1 IN
         /\ Laid(w \o Whole(m), <<>>, <<>>, Append(pr, p))
         /\ \A n \in 0 .. Size(m) - 1 :
              Laid(w \o Direct(m, n), <<New(m, n)>>, <<>>, Append(pr, p))
<1> DEFINE m == Len(pr) + 1
           W == Whole(m)
           pq == Append(pr, p)
<1>1. m \in 1 .. MaxMsg /\ W \in Seq(Byte) /\ Len(W) = Size(m)
  <2>1. m \in 1 .. MaxMsg
    <3>1. Len(pr) \in Nat
      BY LenProperties
    <3> QED
      BY <3>1, SizeAssumption
  <2> HIDE DEF m
  <2> QED
    BY <2>1, WholeType
<1>2. PICK pos : Layout(w, pos, pr) /\ Cut(pos, pr, Len(w))
  BY NoBytes DEF Laid
<1>3. PICK new : Layout(w \o W, new, pq) /\ Cut(new, pq, Len(w) + Size(m))
  <2>1. <<>> \in Seq(Byte) /\ Joins(w, w, <<>>, <<>>)
    BY ConcatEmptySeq, EmptySeq DEF Joins
  <2>2. Joins(w \o W, w, W, <<>>)
    <3>1. w \o W \in Seq(Byte)
      BY <1>1, ConcatProperties
    <3> DEFINE v == w \o W
    <3> HIDE DEF v
    <3>2. v \o <<>> = v
      BY <3>1, ConcatEmptySeq DEF v
    <3> QED
      BY <3>2 DEF v, Joins
  <2> QED
    BY <1>2, <2>1, <2>2, Insert
<1>4. w \o W \in Seq(Byte) /\ Len(w \o W) = Len(w) + Size(m)
  <2> HIDE DEF W, m
  <2> QED
    BY <1>1, ConcatProperties
<1> HIDE DEF m, W, pq
<1>5. Laid(w \o W, <<>>, <<>>, pq)
  <2> DEFINE v == w \o W
  <2>1. v \in Seq(Byte) /\ Layout(v, new, pq) /\ Cut(new, pq, Len(v))
    BY <1>3, <1>4
  <2> HIDE DEF v
  <2>2. Laid(v, <<>>, <<>>, pq)
    BY <2>1, NoBytes DEF Laid
  <2> QED
    BY <2>2 DEF v
<1>6. ASSUME NEW n \in 0 .. Size(m) - 1 PROVE Laid(w \o Direct(m, n), <<New(m, n)>>, <<>>, pq)
  <2> DEFINE x == Direct(m, n)
             b == New(m, n)
             y == BytesOf(b)
  <2>1. b \in Buffer /\ x \in Seq(Byte) /\ W = x \o y
    BY <1>1, NewBytes DEF W
  <2> HIDE DEF x, b
  <2>2. y \in Seq(Byte) /\ Bytes(<<b>>) = y
    BY <2>1, OneByteList
  <2> HIDE DEF y
  <2>3. (w \o x) \o y = w \o (x \o y)
    BY <2>1, <2>2, ByteAssoc
  <2>4. (w \o x) \o Bytes(<<b>>) = w \o W
    BY <2>1, <2>2, <2>3
  <2> DEFINE v == w \o W
  <2>5. v \in Seq(Byte) /\ Layout(v, new, pq) /\ Cut(new, pq, Len(v))
    BY <1>3, <1>4
  <2>6. (w \o x) \o Bytes(<<b>>) = v
    BY <2>4
  <2> HIDE DEF v
  <2>7. v \o Bytes(<<>>) = v
    BY <2>5, NoBytes
  <2>8. Laid(w \o x, <<b>>, <<>>, pq)
    BY <2>5, <2>6, <2>7 DEF Laid
  <2> QED
    BY <2>8 DEF x, b
<1> QED
  BY <1>5, <1>6 DEF m, W, pq

\* A message goes to the end of high, between high and low, or of low.
LEMMA SendQueued ==
  ASSUME NEW pr \in Seq(Priorities), Len(pr) + 1 =< MaxMsg,
         NEW w \in Seq(Byte), NEW hi \in Seq(Buffer), NEW lo \in Seq(Buffer),
         Laid(w, hi, lo, pr)
  PROVE  LET b == New(Len(pr) + 1, 0) IN
         /\ Laid(w, Append(hi, b), lo, Append(pr, "high"))
         /\ Laid(w, hi, Append(lo, b), Append(pr, "low"))
<1> DEFINE m == Len(pr) + 1
           W == Whole(m)
           b == New(m, 0)
           A == w \o Bytes(hi)
           D == Bytes(lo)
           S == A \o D
<1>1. m \in 1 .. MaxMsg /\ Size(m) \in Nat /\ Size(m) > 0
  <2>1. m \in 1 .. MaxMsg
    <3>1. Len(pr) \in Nat
      BY LenProperties
    <3> QED
      BY <3>1, SizeAssumption
  <2> HIDE DEF m
  <2> QED
    BY <2>1, Sizes
<1>2. b \in Buffer /\ W \in Seq(Byte) /\ Len(W) = Size(m) /\ BytesOf(b) = W
  <2> HIDE DEF m
  <2>1. 0 \in 0 .. Size(m) - 1
    BY <1>1
  <2> QED
    BY <1>1, <2>1, NewBytes, WholeType
<1>3. A \in Seq(Byte) /\ D \in Seq(Byte)
  <2>1. Bytes(hi) \in Seq(Byte) /\ D \in Seq(Byte)
    BY BytesType
  <2> QED
    BY <2>1, ConcatProperties
<1>4. PICK pos : Layout(S, pos, pr) /\ Cut(pos, pr, Len(A))
  BY DEF Laid
<1>5. w \o Bytes(Append(hi, b)) = A \o W
  <2> DEFINE h == Bytes(hi)
  <2> HIDE DEF b, W
  <2>1. h \in Seq(Byte) /\ Bytes(Append(hi, b)) = h \o W
    BY <1>2, BytesType, BytesAppended
  <2> HIDE DEF h
  <2>2. (w \o h) \o W = w \o (h \o W)
    BY <1>2, <2>1, ByteAssoc
  <2> QED
    BY <2>1, <2>2 DEF h
<1>6. A \o Bytes(Append(lo, b)) = S \o W
  <2> HIDE DEF b, W, A
  <2>1. Bytes(Append(lo, b)) = D \o W
    BY <1>2, BytesAppended
  <2> HIDE DEF D
  <2>2. (A \o D) \o W = A \o (D \o W)
    <3>1. A \in Seq(Byte) /\ D \in Seq(Byte) /\ W \in Seq(Byte)
      BY <1>2, <1>3
    <3> QED
      BY <3>1, ByteAssoc
  <2> QED
    BY <2>1, <2>2
<1> HIDE DEF W, b, A, D
<1>7. S \in Seq(Byte) /\ Len(S) = Len(A) + Len(D) /\ Len(A) \in Nat /\ Len(D) \in Nat
  BY <1>3, ConcatProperties, LenProperties
<1>8. Laid(w, Append(hi, b), lo, Append(pr, "high"))
  <2>1. Joins(S, A, <<>>, D)
    BY <1>3, ConcatEmptySeq DEF Joins
  <2> DEFINE R == (A \o W) \o D
  <2>2. Joins(R, A, Whole(Len(pr) + 1), D)
    BY DEF Joins, W
  <2> HIDE DEF S, R
  <2>3. "high" \in Priorities
    BY DEF Priorities
  <2>4. PICK new : /\ Layout(R, new, Append(pr, "high"))
                   /\ Cut(new, Append(pr, "high"), Len(A) + Size(Len(pr) + 1))
    BY <1>3, <1>4, <2>1, <2>2, <2>3, Insert
  <2>5. Len(A \o W) = Len(A) + Size(Len(pr) + 1)
    <3>1. Len(A \o W) = Len(A) + Len(W)
      BY <1>2, <1>3, ConcatProperties
    <3> QED
      BY <1>2, <3>1
  <2> QED
    BY <1>5, <2>4, <2>5 DEF Laid, R, D
<1>9. Laid(w, hi, Append(lo, b), Append(pr, "low"))
  <2>1. Joins(S, S, <<>>, <<>>) /\ <<>> \in Seq(Byte)
    <3> HIDE DEF S
    <3> QED
      BY <1>7, ConcatEmptySeq, EmptySeq DEF Joins
  <2> DEFINE R == S \o W
  <2>2. Joins(R, S, Whole(Len(pr) + 1), <<>>)
    <3>1. R \in Seq(Byte)
      <4> HIDE DEF S
      <4> QED
        BY <1>2, <1>7, ConcatProperties
    <3> HIDE DEF R
    <3>2. R \o <<>> = R
      BY <3>1, ConcatEmptySeq
    <3>3. R = S \o W
      BY DEF R
    <3> QED
      BY <3>2, <3>3 DEF Joins, W
  <2> HIDE DEF S, R
  <2>3. "low" \in Priorities
    BY DEF Priorities
  <2>4. Cut(pos, pr, Len(S))
    <3>1. Len(pr) =< MaxMsg
      BY LenProperties, SizeAssumption
    <3> QED
      BY <1>4, <1>7, <3>1, CutEnd
  <2>5. PICK new : /\ Layout(R, new, Append(pr, "low"))
                   /\ \A c \in Nat : /\ "low" = "low" /\ <<>> = <<>> /\ c =< Len(S)
                                     /\ Cut(pos, pr, c)
                                     => Cut(new, Append(pr, "low"), c)
    BY <1>4, <1>7, <2>1, <2>2, <2>3, <2>4, Insert
  <2>6. Len(A) \in Nat /\ Len(A) =< Len(S)
    BY <1>7
  <2>7. Cut(new, Append(pr, "low"), Len(A))
    BY <1>4, <2>5, <2>6
  <2> QED
    BY <1>6, <2>5, <2>7 DEF Laid, R, A
<1> QED
  BY <1>8, <1>9 DEF b, m

-----------------------------------------------------------------------------
(* The kernel takes h bytes of high and l of low. *)

\* What goes out and what is left make up the bytes of the list.
LEMMA WrittenSplits ==
  ASSUME NEW l \in Seq(Buffer), NEW n \in 0 .. Len(Bytes(l))
  PROVE  /\ SubSeq(Bytes(l), 1, n) \in Seq(Byte) /\ Bytes(Written(l, n)) \in Seq(Byte)
         /\ Len(SubSeq(Bytes(l), 1, n)) = n /\ n \in Nat
         /\ Bytes(l) = SubSeq(Bytes(l), 1, n) \o Bytes(Written(l, n))
         /\ Len(Bytes(l)) = n + Len(Bytes(Written(l, n)))
         /\ Len(Bytes(Written(l, n))) \in Nat
         /\ n = Len(Bytes(l)) => SubSeq(Bytes(l), 1, n) = Bytes(l)
         /\ n = 0 => SubSeq(Bytes(l), 1, n) = <<>>
<1>1. Written(l, n) \in Seq(Buffer) /\ n \in Nat /\ Bytes(l) \in Seq(Byte)
  BY WrittenBytes, BytesType
<1>2. PICK x \in Seq(Byte) : Len(x) = n /\ Bytes(l) = x \o Bytes(Written(l, n))
  BY WrittenBytes
<1> DEFINE B == Bytes(l)
           y == Bytes(Written(l, n))
<1>3. y \in Seq(Byte) /\ B \in Seq(Byte) /\ B = x \o y
  BY <1>1, <1>2, BytesType
<1> HIDE DEF B, y
<1>4. SubSeq(B, 1, n) = x
  <2>1. SubSeq(x \o y, 1, Len(x)) = x
    BY <1>3, PrefixOfConcat
  <2> QED
    BY <1>2, <1>3, <2>1
<1>5. Len(B) = n + Len(y) /\ Len(y) \in Nat
  BY <1>2, <1>3, ConcatProperties, LenProperties
<1>6. n = Len(B) => SubSeq(B, 1, n) = B
  BY <1>3, SubSeqFull
<1>7. n = 0 => SubSeq(B, 1, n) = <<>>
  BY SubSeqEmpty
<1> QED
  BY <1>1, <1>2, <1>3, <1>4, <1>5, <1>6, <1>7 DEF B, y

\* A list that is not empty, as its first buffer and the rest.
LEMMA HeadAndTail ==
  ASSUME NEW l \in Seq(Buffer), l # <<>>
  PROVE  /\ Head(l) \in Buffer /\ Head(l) = l[1] /\ 1 \in 1 .. Len(l)
         /\ Tail(l) \in Seq(Buffer) /\ Len(Tail(l)) = Len(l) - 1 /\ Len(l) \in Nat
         /\ \A i \in 1 .. Len(Tail(l)) : Tail(l)[i] = l[i + 1]
         /\ Bytes(l) = BytesOf(Head(l)) \o Bytes(Tail(l))
         /\ BytesOf(Head(l)) \in Seq(Byte) /\ Bytes(Tail(l)) \in Seq(Byte)
<1>1. /\ Head(l) \in Buffer /\ Tail(l) \in Seq(Buffer) /\ Len(Tail(l)) = Len(l) - 1
      /\ \A i \in 1 .. Len(Tail(l)) : Tail(l)[i] = l[i + 1]
  BY HeadTailProperties
<1>2. Head(l) = l[1] /\ Len(l) \in Nat /\ 1 \in 1 .. Len(l)
  <2>1. Len(l) \in Nat /\ Len(l) # 0
    BY EmptySeq, LenProperties
  <2> QED
    BY <2>1
<1>3. l = <<Head(l)>> \o Tail(l)
  <2>1. 1 \in 1 .. Len(l) /\ Len(l) \in 1 .. Len(l)
    BY <1>2
  <2>2. SubSeq(l, 1, Len(l)) = <<l[1]>> \o SubSeq(l, 1 + 1, Len(l))
    BY <2>1, SubSeqRecursiveFirst
  <2>3. SubSeq(l, 1, Len(l)) = l /\ Tail(l) = SubSeq(l, 2, Len(l)) /\ 1 + 1 = 2
    BY SubSeqFull, TailIsSubSeq
  <2> QED
    BY <1>2, <2>2, <2>3
<1>4. Bytes(l) = BytesOf(Head(l)) \o Bytes(Tail(l))
  <2> DEFINE b == Head(l)
             r == Tail(l)
  <2>1. b \in Buffer /\ r \in Seq(Buffer) /\ l = <<b>> \o r
    BY <1>1, <1>3
  <2> HIDE DEF b, r
  <2>2. Bytes(<<b>> \o r) = BytesOf(b) \o Bytes(r)
    BY <2>1, BytesCons
  <2> QED
    BY <2>1, <2>2 DEF b, r
<1>5. BytesOf(Head(l)) \in Seq(Byte) /\ Bytes(Tail(l)) \in Seq(Byte)
  BY <1>1, BytesOfType, BytesType
<1> QED
  BY <1>1, <1>2, <1>4, <1>5

\* The element after, and the last element of, the first part, and the last of all.
LEMMA Joint ==
  ASSUME NEW a \in Seq(Byte), NEW b \in Seq(Byte)
  PROVE  /\ a \o b \in Seq(Byte) /\ Len(a \o b) = Len(a) + Len(b)
         /\ Len(a) \in Nat /\ Len(b) \in Nat
         /\ Len(b) > 0 => (a \o b)[Len(a) + 1] = b[1]
         /\ Len(a) > 0 => (a \o b)[Len(a)] = a[Len(a)]
         /\ Len(b) > 0 => (a \o b)[Len(a) + Len(b)] = b[Len(b)]
<1>1. /\ a \o b \in Seq(Byte) /\ Len(a \o b) = Len(a) + Len(b)
      /\ Len(a) \in Nat /\ Len(b) \in Nat
      /\ \A i \in 1 .. Len(a) + Len(b) :
           (a \o b)[i] = IF i =< Len(a) THEN a[i] ELSE b[i - Len(a)]
  BY ConcatProperties, LenProperties
<1> DEFINE s == a \o b
           m == Len(a)
           n == Len(b)
<1>2. /\ m \in Nat /\ n \in Nat
      /\ \A i \in 1 .. m + n : s[i] = IF i =< m THEN a[i] ELSE b[i - m]
  BY <1>1
<1> HIDE DEF s, m, n
<1>3. n > 0 => s[m + 1] = b[1]
  <2>1. n > 0 => m + 1 \in 1 .. m + n /\ ~(m + 1 =< m) /\ (m + 1) - m = 1
    BY <1>2
  <2> QED
    BY <1>2, <2>1
<1>4. m > 0 => s[m] = a[m]
  <2>1. m > 0 => m \in 1 .. m + n /\ m =< m
    BY <1>2
  <2> QED
    BY <1>2, <2>1
<1>5. n > 0 => s[m + n] = b[n]
  <2>1. n > 0 => m + n \in 1 .. m + n /\ ~(m + n =< m) /\ (m + n) - m = n
    BY <1>2
  <2> QED
    BY <1>2, <2>1
<1> QED
  BY <1>1, <1>3, <1>4, <1>5 DEF s, m, n

\* The kernel takes h bytes of hi and l of lo; v is the wire then, fh and fl are
\* what is left of the lists.
Moves(w, hi, lo, h, l, v, fh, fl) ==
  /\ l > 0 => h = Len(Bytes(hi))
  /\ v = (w \o SubSeq(Bytes(hi), 1, h)) \o SubSeq(Bytes(lo), 1, l)
  /\ [high |-> fh, low |-> fl] = Raised(Written(hi, h), Written(lo, l))

\* send_buffer only moves bytes from the lists to the wire: the layout stays, and
\* the cut between high and low moves from one message's end to another's.
LEMMA FlushKeeps ==
  ASSUME NEW pr \in Seq(Priorities), Len(pr) =< MaxMsg, NEW w \in Seq(Byte),
         NEW hi, NEW lo, Lists(hi, lo), Laid(w, hi, lo, pr),
         NEW h \in 0 .. Len(Bytes(hi)), NEW l \in 0 .. Len(Bytes(lo)),
         NEW v, NEW fh, NEW fl, Moves(w, hi, lo, h, l, v, fh, fl)
  PROVE  /\ v \in Seq(Byte) /\ Lists(fh, fl) /\ Laid(v, fh, fl, pr)
         /\ Len(Bytes(fh)) + Len(Bytes(fl)) = Len(Bytes(hi)) + Len(Bytes(lo)) - h - l
<1> DEFINE H == Written(hi, h)
           L == Written(lo, l)
           X == SubSeq(Bytes(hi), 1, h)
           Y == SubSeq(Bytes(lo), 1, l)
           bH == Bytes(H)
           bL == Bytes(L)
<1>0. /\ l > 0 => h = Len(Bytes(hi))
      /\ v = (w \o SubSeq(Bytes(hi), 1, h)) \o SubSeq(Bytes(lo), 1, l)
      /\ [high |-> fh, low |-> fl] = Raised(Written(hi, h), Written(lo, l))
  BY DEF Moves
<1>1. /\ hi \in Seq(Buffer) /\ Full(hi) /\ HeadOnly(hi)
      /\ lo \in Seq(Buffer) /\ Full(lo) /\ HeadOnly(lo)
      /\ \A i \in 1 .. Len(lo) : lo[i].ptr = 0
  <2>1. lo \in Seq(Buffer) /\ \A i \in 1 .. Len(lo) : lo[i].ptr = 0
    BY DEF Lists
  <2>2. HeadOnly(lo)
    <3>1. Len(lo) \in Nat
      BY <2>1, LenProperties
    <3> QED
      BY <2>1, <3>1 DEF HeadOnly
  <2> QED
    BY <2>1, <2>2 DEF Lists
<1>2. /\ X \in Seq(Byte) /\ bH \in Seq(Byte) /\ Bytes(hi) = X \o bH
      /\ Len(Bytes(hi)) = h + Len(bH) /\ Len(X) = h /\ h \in Nat /\ Len(bH) \in Nat
      /\ h = Len(Bytes(hi)) => X = Bytes(hi)
  BY <1>1, WrittenSplits
<1>3. /\ Y \in Seq(Byte) /\ bL \in Seq(Byte) /\ Bytes(lo) = Y \o bL
      /\ Len(Bytes(lo)) = l + Len(bL) /\ Len(Y) = l /\ l \in Nat /\ Len(bL) \in Nat
      /\ l = 0 => Y = <<>>
  BY <1>1, WrittenSplits
<1>4. /\ H \in Seq(Buffer) /\ Full(H) /\ HeadOnly(H) /\ (h = Len(Bytes(hi)) <=> H = <<>>)
  BY <1>1, WrittenBytes, WrittenShape
<1>5. /\ L \in Seq(Buffer) /\ Full(L) /\ HeadOnly(L) /\ (l = 0 => L = lo)
      /\ (l = Len(Bytes(lo)) <=> L = <<>>)
  BY <1>1, WrittenBytes, WrittenShape
<1>6. [high |-> fh, low |-> fl] = IF H = <<>> /\ Uncomplete(L)
                                  THEN [high |-> <<Head(L)>>, low |-> Tail(L)]
                                  ELSE [high |-> H, low |-> L]
  BY <1>0 DEF Raised
<1>7. PICK pos : /\ Layout((w \o Bytes(hi)) \o Bytes(lo), pos, pr)
                 /\ Cut(pos, pr, Len(w \o Bytes(hi)))
  BY DEF Laid
<1>8. v = (w \o X) \o Y
  BY <1>0
<1> DEFINE A == w \o Bytes(hi)
           S == A \o Bytes(lo)
<1>9. A \in Seq(Byte) /\ S \in Seq(Byte) /\ Layout(S, pos, pr) /\ Cut(pos, pr, Len(A))
  <2>1. Bytes(hi) \in Seq(Byte) /\ Bytes(lo) \in Seq(Byte)
    BY <1>1, BytesType
  <2> DEFINE bh == Bytes(hi)
             bl == Bytes(lo)
  <2> HIDE DEF bh, bl
  <2>2. w \o bh \in Seq(Byte)
    BY <2>1, ConcatProperties DEF bh
  <2> DEFINE a == w \o bh
  <2> HIDE DEF a
  <2>3. a \o bl \in Seq(Byte)
    BY <2>1, <2>2, ConcatProperties DEF bl, a
  <2> QED
    BY <1>7, <2>2, <2>3 DEF a, bl, bh
<1>10. CASE h # Len(Bytes(hi))
  <2>1. l = 0 /\ L = lo /\ Y = <<>> /\ H # <<>>
    BY <1>0, <1>3, <1>4, <1>5, <1>10
  <2>2. fh = H /\ fl = lo
    BY <1>6, <2>1
  <2>3. v = w \o X /\ v \in Seq(Byte) /\ A = v \o bH
    <3> HIDE DEF X, Y, bH
    <3>1. w \o X \in Seq(Byte)
      BY <1>2, ConcatProperties
    <3> DEFINE u == w \o X
    <3> HIDE DEF u
    <3>2. u \o <<>> = u
      BY <3>1, ConcatEmptySeq DEF u
    <3>3. v = u
      BY <1>8, <2>1, <3>2 DEF u
    <3>4. (w \o X) \o bH = w \o (X \o bH)
      BY <1>2, ByteAssoc
    <3> QED
      BY <1>2, <3>1, <3>3, <3>4 DEF u
  <2>4. Laid(v, fh, fl, pr)
    BY <1>7, <2>2, <2>3 DEF Laid
  <2>5. Lists(fh, fl)
    BY <1>1, <1>4, <2>2 DEF Lists
  <2>6. Len(Bytes(fh)) + Len(Bytes(fl)) = Len(Bytes(hi)) + Len(Bytes(lo)) - h - l
    <3> DEFINE x == Len(Bytes(hi))
               y == Len(Bytes(lo))
               z == Len(bH)
               q == Len(bL)
    <3>1. /\ x = h + z /\ z \in Nat /\ h \in Nat /\ y = l + q /\ q \in Nat /\ l = 0
          /\ Len(Bytes(fh)) = z /\ Len(Bytes(fl)) = y
      BY <1>2, <1>3, <2>1, <2>2
    <3> HIDE DEF x, y, z, q
    <3>2. z + y = x + y - h - l
      BY <3>1
    <3> QED
      BY <3>1, <3>2 DEF x, y
  <2> QED
    BY <2>3, <2>4, <2>5, <2>6
<1>11. CASE h = Len(Bytes(hi))
  <2>1. H = <<>> /\ X = Bytes(hi) /\ Len(bH) = 0
    BY <1>2, <1>4, <1>11
  <2>2. v = A \o Y
    BY <1>8, <2>1
  <2>3. v \in Seq(Byte) /\ S = v \o bL /\ Len(v) = Len(A) + l /\ Len(A) \in Nat
        /\ Len(S) = Len(v) + Len(bL) /\ Len(v) \in Nat
    <3> HIDE DEF A, Y, bL
    <3>1. v \in Seq(Byte) /\ Len(v) = Len(A) + l /\ Len(A) \in Nat /\ Len(v) \in Nat
      <4>1. A \o Y \in Seq(Byte) /\ Len(A \o Y) = Len(A) + Len(Y) /\ Len(A) \in Nat
        BY <1>3, <1>9, Joint
      <4>2. v \in Seq(Byte) /\ Len(v) = Len(A) + l
        BY <1>3, <2>2, <4>1
      <4> QED
        BY <4>1, <4>2, LenProperties
    <3>2. (A \o Y) \o bL = A \o (Y \o bL)
      BY <1>3, <1>9, ByteAssoc
    <3>3. S = v \o bL
      BY <1>3, <2>2, <3>2
    <3>4. Len(v \o bL) = Len(v) + Len(bL)
      BY <1>3, <3>1, ConcatProperties
    <3> QED
      BY <3>1, <3>3, <3>4
  <2> HIDE DEF H, L, X, Y, A, S, bH
  <2>4. CASE ~Uncomplete(L)
    <3>1. fh = <<>> /\ fl = L
      BY <1>6, <2>1, <2>4
    <3>2. v \o Bytes(fh) = v /\ Len(Bytes(fh)) = 0
      <4>1. Len(<<>>) = 0
        OBVIOUS
      <4> QED
        BY <2>3, <3>1, <4>1, NoBytes, BytesEmpty
    <3>3. \A i \in 1 .. Len(L) : L[i].ptr = 0
      <4>1. CASE L = <<>>
        BY <4>1
      <4>2. CASE L # <<>>
        <5>1. L[1].ptr = 0 /\ Len(L) \in Nat
          <6>1. Head(L) = L[1] /\ Head(L) \in Buffer /\ Len(L) \in Nat
            BY <1>5, <4>2, HeadAndTail
          <6>2. ~(Head(L).ptr > 0) /\ Head(L).ptr \in Nat
            BY <2>4, <4>2, <6>1 DEF Uncomplete, Buffer
          <6> QED
            BY <6>1, <6>2
        <5> QED
          BY <1>5, <5>1 DEF HeadOnly
      <4> QED
        BY <4>1, <4>2
    <3>4. Lists(fh, fl)
      <4>1. <<>> \in Seq(Buffer) /\ Full(<<>>) /\ HeadOnly(<<>>)
        BY EmptySeq DEF Full, HeadOnly
      <4> QED
        BY <1>5, <3>1, <3>3, <4>1 DEF Lists
    <3>5. Cut(pos, pr, Len(v))
      <4>1. CASE L = <<>>
        <5>1. Len(v) = Len(S)
          <6>1. Len(bL) = 0
            BY <1>3, <1>5, <4>1
          <6> QED
            BY <2>3, <6>1
        <5>2. Len(A) =< Len(v) /\ Len(v) =< Len(S)
          <6> DEFINE x == Len(A)
                     y == Len(v)
          <6>1. x \in Nat /\ y \in Nat /\ l \in Nat /\ y = x + l /\ y = Len(S)
            BY <1>3, <2>3, <5>1
          <6> HIDE DEF x, y
          <6>2. x =< y /\ y =< y
            BY <6>1
          <6> QED
            BY <6>1, <6>2 DEF x, y
        <5> QED
          BY <1>9, <2>3, <5>1, <5>2, CutMove
      <4>2. CASE L # <<>>
        <5> DEFINE b == Head(L)
        <5>1. /\ b \in Buffer /\ b = L[1] /\ 1 \in 1 .. Len(L)
              /\ bL = BytesOf(b) \o Bytes(Tail(L))
              /\ BytesOf(b) \in Seq(Byte) /\ Bytes(Tail(L)) \in Seq(Byte)
          BY <1>5, <4>2, HeadAndTail
        <5>2. b.size > 0 /\ b.size \in Nat /\ b.ptr = 0
          BY <1>5, <3>3, <5>1 DEF Full, Buffer
        <5> HIDE DEF b
        <5>3. Len(BytesOf(b)) = b.size /\ BytesOf(b)[1] = <<b.msg, 1>>
          <6>1. /\ Len(BytesOf(b)) = b.size
                /\ \A j \in 1 .. b.size : BytesOf(b)[j] = <<b.msg, b.ptr + j>>
            BY <5>1, BytesOfType
          <6>2. 1 \in 1 .. b.size /\ b.ptr + 1 = 1
            BY <5>2
          <6>3. BytesOf(b)[1] = <<b.msg, b.ptr + 1>>
            BY <6>1, <6>2
          <6> QED
            BY <6>1, <6>2, <6>3
        <5> DEFINE y == BytesOf(b)
                   z == Bytes(Tail(L))
        <5>4. y \in Seq(Byte) /\ z \in Seq(Byte) /\ bL = y \o z /\ Len(y) > 0 /\ y[1] = <<b.msg, 1>>
          BY <5>1, <5>2, <5>3
        <5> HIDE DEF y, z, bL
        <5>5. Len(bL) = Len(y) + Len(z) /\ Len(y) \in Nat /\ Len(z) \in Nat /\ bL[1] = y[1]
          <6>1. /\ Len(y \o z) = Len(y) + Len(z) /\ Len(y) \in Nat /\ Len(z) \in Nat
            BY <5>4, ConcatProperties, LenProperties
          <6>2. \A i \in 1 .. Len(y) + Len(z) : (y \o z)[i] = IF i =< Len(y) THEN y[i] ELSE z[i - Len(y)]
            BY <5>4, ConcatProperties
          <6>3. 1 \in 1 .. Len(y) + Len(z) /\ 1 =< Len(y)
            BY <5>4, <6>1
          <6> QED
            BY <5>4, <6>1, <6>2, <6>3
        <5>6. Len(bL) > 0
          BY <5>4, <5>5
        <5>7. S[Len(v) + 1] = bL[1]
          BY <1>3, <2>3, <5>6, Joint
        <5>8. S[Len(v) + 1][2] = 1
          BY <5>4, <5>5, <5>7
        <5>9. Len(A) =< Len(v) /\ Len(v) < Len(S) /\ Len(v) =< Len(S)
          <6> DEFINE x == Len(A)
                     u == Len(v)
                     g == Len(bL)
                     e == Len(S)
          <6>1. /\ x \in Nat /\ u \in Nat /\ l \in Nat /\ u = x + l
                /\ g \in Nat /\ g > 0 /\ e = u + g
            BY <1>3, <2>3, <5>6
          <6> HIDE DEF x, u, g, e
          <6>2. x =< u /\ u < e /\ u =< e
            BY <6>1
          <6> QED
            BY <6>2 DEF x, u, e
        <5> QED
          BY <1>9, <2>3, <5>8, <5>9, CutMove
      <4> QED
        BY <4>1, <4>2
    <3>6. Laid(v, fh, fl, pr)
      <4>1. (v \o Bytes(fh)) \o Bytes(fl) = S
        BY <2>3, <3>1, <3>2
      <4> QED
        BY <1>9, <3>2, <3>5, <4>1 DEF Laid
    <3>7. Len(Bytes(fh)) + Len(Bytes(fl)) = Len(Bytes(hi)) + Len(Bytes(lo)) - h - l
      BY <1>2, <1>3, <2>1, <3>1, <3>2
    <3> QED
      BY <2>3, <3>4, <3>6, <3>7
  <2>5. CASE Uncomplete(L)
    <3> DEFINE b == Head(L)
               r == Tail(L)
    <3>1. fh = <<b>> /\ fl = r /\ L # <<>>
      BY <1>6, <2>1, <2>5 DEF Uncomplete
    <3>2. /\ b \in Buffer /\ b = L[1] /\ 1 \in 1 .. Len(L)
          /\ r \in Seq(Buffer) /\ Len(r) = Len(L) - 1 /\ Len(L) \in Nat
          /\ \A i \in 1 .. Len(r) : r[i] = L[i + 1]
          /\ bL = BytesOf(b) \o Bytes(r)
          /\ BytesOf(b) \in Seq(Byte) /\ Bytes(r) \in Seq(Byte)
      BY <1>5, <3>1, HeadAndTail
    <3> HIDE DEF b, r
    <3>3. b.size > 0 /\ b.size \in Nat /\ b.ptr + b.size = Size(b.msg)
      BY <1>5, <3>2 DEF Full, Buffer
    <3>4. Lists(fh, fl)
      <4>1. \A i \in 1 .. Len(r) : /\ i + 1 \in 1 .. Len(L) /\ i + 1 \in 2 .. Len(L)
                                   /\ r[i] = L[i + 1]
        BY <3>2
      <4>2. Full(r) /\ \A i \in 1 .. Len(r) : r[i].ptr = 0
        BY <1>5, <4>1 DEF Full, HeadOnly
      <4>3. <<b>> \in Seq(Buffer) /\ Len(<<b>>) = 1 /\ <<b>>[1] = b
        BY <3>2
      <4>4. Full(<<b>>) /\ HeadOnly(<<b>>)
        <5>1. 1 .. 1 = {1} /\ 2 .. 1 = {}
          OBVIOUS
        <5> QED
          BY <3>3, <4>3, <5>1 DEF Full, HeadOnly
      <4> QED
        BY <3>1, <3>2, <4>2, <4>3, <4>4 DEF Lists
    <3> DEFINE y == BytesOf(b)
               z == Bytes(r)
    <3>5. /\ y \in Seq(Byte) /\ Len(y) = b.size /\ y[b.size] = <<b.msg, Size(b.msg)>>
          /\ Bytes(fh) = y /\ z \in Seq(Byte) /\ bL = y \o z /\ Bytes(fl) = z
      <4>1. /\ y \in Seq(Byte) /\ Len(y) = b.size
            /\ \A j \in 1 .. b.size : y[j] = <<b.msg, b.ptr + j>>
        BY <3>2, BytesOfType
      <4>2. b.size \in 1 .. b.size
        BY <3>3
      <4>3. y[b.size] = <<b.msg, b.ptr + b.size>>
        BY <4>1, <4>2
      <4>4. Bytes(fh) = y
        BY <3>1, <3>2, OneByteList
      <4> QED
        BY <3>1, <3>2, <3>3, <4>1, <4>3, <4>4
    <3> HIDE DEF y, z, bL
    <3> DEFINE V == v \o y
    <3>6. /\ V \in Seq(Byte) /\ Len(V) = Len(v) + Len(y) /\ Len(V) \in Nat /\ Len(y) \in Nat
          /\ S = V \o z
      <4>1. (v \o y) \o z = v \o (y \o z)
        BY <2>3, <3>5, ByteAssoc
      <4>2. V \in Seq(Byte) /\ Len(V) = Len(v) + Len(y) /\ Len(y) \in Nat
        BY <2>3, <3>5, ConcatProperties, LenProperties
      <4> HIDE DEF V
      <4>3. Len(V) \in Nat
        BY <4>2, LenProperties
      <4> QED
        BY <2>3, <3>5, <4>1, <4>2, <4>3 DEF V
    <3>7. V[Len(V)] = <<b.msg, Size(b.msg)>>
      <4>1. v \in Seq(Byte) /\ y \in Seq(Byte) /\ Len(y) > 0
        BY <2>3, <3>3, <3>5
      <4>2. (v \o y)[Len(v) + Len(y)] = y[Len(y)]
        BY <4>1, Joint
      <4>3. y[Len(y)] = <<b.msg, Size(b.msg)>>
        BY <3>5
      <4>4. V[Len(v) + Len(y)] = <<b.msg, Size(b.msg)>>
        BY <4>2, <4>3
      <4> HIDE DEF V
      <4> QED
        BY <3>6, <4>4
    <3> HIDE DEF V
    <3>8. Len(V) > 0 /\ Len(A) =< Len(V)
      <4> DEFINE x == Len(A)
                 u == Len(v)
                 e == Len(y)
                 g == Len(V)
      <4>1. /\ x \in Nat /\ u \in Nat /\ l \in Nat /\ u = x + l
            /\ e \in Nat /\ e > 0 /\ g = u + e
        BY <1>3, <2>3, <3>3, <3>5, <3>6
      <4> HIDE DEF x, u, e, g
      <4>2. g > 0 /\ x =< g
        BY <4>1
      <4> QED
        BY <4>2 DEF x, g
    <3>9. S[Len(V)] = <<b.msg, Size(b.msg)>> /\ Len(V) =< Len(S)
      <4> DEFINE g == Len(V)
                 e == Len(z)
      <4>1. V \in Seq(Byte) /\ z \in Seq(Byte) /\ S = V \o z
        BY <3>5, <3>6
      <4>2. /\ S[Len(V)] = V[Len(V)]
            /\ Len(S) = g + e /\ g \in Nat /\ e \in Nat
        BY <3>8, <4>1, Joint
      <4> HIDE DEF g, e
      <4>3. g =< g + e
        BY <4>2
      <4> QED
        BY <3>7, <4>2, <4>3 DEF g
    <3>10. S[Len(V)][2] = Size(S[Len(V)][1])
      BY <3>9
    <3>11. Cut(pos, pr, Len(V))
      <4> DEFINE g == Len(V)
      <4>1. /\ g \in Nat /\ g > 0 /\ Len(A) =< g /\ g =< Len(S)
            /\ S[g][2] = Size(S[g][1])
        BY <3>6, <3>8, <3>9, <3>10
      <4> HIDE DEF g
      <4>2. Cut(pos, pr, g)
        BY <1>9, <2>3, <4>1, CutMove
      <4> QED
        BY <4>2 DEF g
    <3>12. Laid(v, fh, fl, pr)
      <4>1. v \o Bytes(fh) = V /\ V \o Bytes(fl) = S
        BY <3>5, <3>6 DEF V
      <4> QED
        BY <1>9, <3>11, <4>1 DEF Laid
    <3>13. Len(Bytes(fh)) + Len(Bytes(fl)) = Len(Bytes(hi)) + Len(Bytes(lo)) - h - l
      <4> DEFINE x == Len(Bytes(hi))
                 u == Len(Bytes(lo))
                 e == Len(y)
                 g == Len(z)
                 c == Len(bL)
      <4>1. /\ c = e + g /\ e \in Nat /\ g \in Nat /\ h \in Nat /\ l \in Nat
            /\ x = h /\ u = l + c /\ Len(Bytes(fh)) = e /\ Len(Bytes(fl)) = g
        BY <1>2, <1>3, <1>11, <3>5, Joint
      <4> HIDE DEF x, u, e, g, c
      <4>2. e + g = x + u - h - l
        BY <4>1
      <4> QED
        BY <4>1, <4>2 DEF x, u
    <3> QED
      BY <2>3, <3>4, <3>12, <3>13
  <2> QED
    BY <2>4, <2>5
<1> QED
  BY <1>10, <1>11

-----------------------------------------------------------------------------
(* The invariant is inductive. *)

LEMMA LaidBegun ==
  ASSUME NEW pr, NEW w \in Seq(Byte), NEW hi \in Seq(Buffer), NEW lo \in Seq(Buffer),
         Laid(w, hi, lo, pr)
  PROVE  Begun(w, pr)
<1> DEFINE a == Bytes(hi)
           b == Bytes(lo)
<1>1. a \in Seq(Byte) /\ b \in Seq(Byte)
  BY BytesType
<1>2. PICK pos : Layout((w \o a) \o b, pos, pr)
  BY DEF Laid
<1> HIDE DEF a, b
<1>3. a \o b \in Seq(Byte) /\ (w \o a) \o b = w \o (a \o b)
  BY <1>1, ByteAssoc, Joint
<1>4. Layout(w \o (a \o b), pos, pr)
  BY <1>2, <1>3
<1> QED
  BY <1>3, <1>4 DEF Begun

LEMMA LaidComplete ==
  ASSUME NEW pr, NEW w \in Seq(Byte), Laid(w, <<>>, <<>>, pr)
  PROVE  Complete(w, pr)
<1>1. PICK pos : Layout((w \o Bytes(<<>>)) \o Bytes(<<>>), pos, pr)
  BY DEF Laid
<1> QED
  BY <1>1, NoBytes DEF Complete

LEMMA BegunPrefix ==
  ASSUME NEW pr, NEW w \in Seq(Byte), NEW x \in Seq(Byte), Begun(w \o x, pr)
  PROVE  Begun(w, pr)
<1>0. PICK pos : \E y \in Seq(Byte) : Layout((w \o x) \o y, pos, pr)
  BY DEF Begun
<1>1. PICK y \in Seq(Byte) : Layout((w \o x) \o y, pos, pr)
  BY <1>0
<1>2. x \o y \in Seq(Byte) /\ (w \o x) \o y = w \o (x \o y)
  BY ByteAssoc, Joint
<1> QED
  BY <1>1, <1>2 DEF Begun

LEMMA EmptyLists ==
  /\ Lists(<<>>, <<>>) /\ Bytes(<<>>) = <<>> /\ Len(Bytes(<<>>)) = 0
  /\ <<>> \in Seq(Buffer)
<1>1. Len(<<>>) = 0 /\ <<>> \in Seq(Buffer)
  BY EmptySeq
<1>2. 1 .. 0 = {} /\ 2 .. 0 = {}
  OBVIOUS
<1> QED
  BY <1>1, <1>2, BytesEmpty DEF Lists, Full, HeadOnly

LEMMA EmptyBegun == Layout(<<>>, [i \in 1 .. 0 |-> 0], <<>>)
<1>1. Len(<<>>) = 0 /\ 1 .. 0 = {}
  OBVIOUS
<1> QED
  BY <1>1 DEF Layout, Blocks, InOrder

LEMMA InitWInv == Init => WInv
<1> SUFFICES ASSUME Init PROVE WInv
  OBVIOUS
<1>1. /\ type = "CONNECTED" /\ wire = <<>> /\ prio = <<>> /\ ended = "not" /\ wb_size = 0
      /\ list.high = <<>> /\ list.low = <<>> /\ epollout = FALSE /\ DOMAIN list = Priorities
  BY DEF Init, Priorities
<1>2. TypeOK /\ Len(prio) =< MaxMsg
  <2>1. /\ <<>> \in Seq(Buffer) /\ <<>> \in Seq(Messages \X Nat) /\ <<>> \in Seq(Priorities)
        /\ Len(<<>>) = 0
    OBVIOUS
  <2>2. Len(prio) =< MaxMsg
    BY <1>1, <2>1, SizeAssumption
  <2>3. \A p \in Priorities : list[p] \in Seq(Buffer)
    BY <1>1, <2>1 DEF Priorities
  <2> QED
    BY <1>1, <2>1, <2>2, <2>3 DEF TypeOK
<1>3. Backlog
  BY <1>1, EmptyLists DEF Backlog
<1>4. Laid(<<>>, <<>>, <<>>, <<>>) /\ Begun(<<>>, <<>>)
  <2>1. <<>> \in Seq(Byte) /\ Len(<<>>) = 0
    OBVIOUS
  <2>2. Laid(<<>>, <<>>, <<>>, <<>>)
    <3>1. Cut([i \in 1 .. 0 |-> 0], <<>>, 0)
      BY <2>1 DEF Cut
    <3>2. <<>> \o Bytes(<<>>) = <<>> /\ (<<>> \o Bytes(<<>>)) \o Bytes(<<>>) = <<>>
      BY <2>1, NoBytes
    <3> QED
      BY <2>1, <3>1, <3>2, EmptyBegun DEF Laid
  <2> QED
    BY <2>1, <2>2, EmptyLists, LaidBegun
<1> QED
  BY <1>1, <1>2, <1>3, <1>4, EmptyLists DEF WInv

\* What every step has to show of the state it leads to.
LEMMA Living ==
  ASSUME NEW hi, NEW lo, list'.high = hi, list'.low = lo, DOMAIN list' = Priorities,
         Lists(hi, lo), type' \in {"CONNECTED", "HALFCLOSE"}, ended' = "not",
         epollout' \in BOOLEAN, wb_size' \in Nat, wb_size' = Len(Bytes(hi)) + Len(Bytes(lo)),
         wire' \in Seq(Byte), prio' \in Seq(Priorities), Len(prio') =< MaxMsg,
         Laid(wire', hi, lo, prio')
  PROVE  WInv'
<1>1. hi \in Seq(Buffer) /\ lo \in Seq(Buffer)
  BY DEF Lists
<1>2. Begun(wire', prio')
  BY <1>1, LaidBegun
<1>3. TypeOK'
  BY <1>1 DEF TypeOK, Priorities, Byte
<1>4. Backlog'
  BY DEF Backlog
<1>5. Lists(list'.high, list'.low) /\ Laid(wire', list'.high, list'.low, prio')
  OBVIOUS
<1> QED
  BY <1>2, <1>3, <1>4, <1>5 DEF WInv

LEMMA Closing ==
  ASSUME NEW why \in {"drained", "error", "shutdown", "read"}, Close(why), wb_size' \in Nat,
         wire' \in Seq(Byte), prio' \in Seq(Priorities), Len(prio') =< MaxMsg,
         Begun(wire', prio'), why = "drained" => Complete(wire', prio')
  PROVE  WInv'
<1>1. /\ type' = "INVALID" /\ ended' = why /\ epollout' = FALSE
      /\ list'.high = <<>> /\ list'.low = <<>> /\ DOMAIN list' = Priorities
  BY DEF Close, Priorities
<1>2. TypeOK'
  BY <1>1, EmptyLists DEF TypeOK, Priorities, Byte
<1>3. Lists(list'.high, list'.low) /\ Empty(list)'
  BY <1>1, EmptyLists DEF Empty
<1> QED
  BY <1>1, <1>2, <1>3 DEF WInv

\* A message joins the ones that were taken, whatever the lists hold.
LEMMA SendWInv ==
  ASSUME WInv, NEW p \in Priorities, send_socket(p)
  PROVE  WInv'
<1> DEFINE m == Len(prio) + 1
           pq == Append(prio, p)
<1>1. /\ type = "CONNECTED" /\ ended = "not" /\ Len(prio) < MaxMsg /\ prio' = pq
      /\ prio \in Seq(Priorities) /\ wire \in Seq(Byte) /\ wb_size \in Nat /\ epollout \in BOOLEAN
      /\ DOMAIN list = Priorities /\ Lists(list.high, list.low)
      /\ wb_size = Len(Bytes(list.high)) + Len(Bytes(list.low))
      /\ Laid(wire, list.high, list.low, prio)
      /\ list.high \in Seq(Buffer) /\ list.low \in Seq(Buffer)
  BY DEF WInv, TypeOK, send_socket, Byte, Backlog, Lists, Priorities
<1>2. pq \in Seq(Priorities) /\ Len(pq) = m /\ m \in 1 .. MaxMsg /\ m =< MaxMsg
  <2>1. pq \in Seq(Priorities) /\ Len(pq) = Len(prio) + 1 /\ Len(prio) \in Nat
    BY <1>1, AppendProperties, LenProperties
  <2> HIDE DEF pq
  <2> QED
    BY <1>1, <2>1, SizeAssumption
<1>3. Size(m) \in Nat /\ Size(m) > 0 /\ 0 \in 0 .. Size(m) - 1
  <2>1. Size(m) \in Nat /\ Size(m) > 0
    BY <1>2, Sizes
  <2> DEFINE z == Size(m)
  <2> HIDE DEF z
  <2>2. z \in Nat /\ z > 0 => 0 \in 0 .. z - 1
    OBVIOUS
  <2> QED
    BY <2>1, <2>2 DEF z
<1>4. CASE Empty(list)
  <2>1. list.high = <<>> /\ list.low = <<>> /\ wb_size = 0
    BY <1>1, <1>4, EmptyLists DEF Empty
  <2>2. /\ Laid(wire \o Whole(m), <<>>, <<>>, pq)
        /\ \A n \in 0 .. Size(m) - 1 :
             Laid(wire \o Direct(m, n), <<New(m, n)>>, <<>>, pq)
    BY <1>1, <1>2, <2>1, SendEmpty
  <2>3. Whole(m) \in Seq(Byte) /\ wire \o Whole(m) \in Seq(Byte)
    <3>1. Whole(m) \in Seq(Byte)
      BY <1>2, WholeType
    <3> QED
      BY <1>1, <3>1, Joint
  <2>4. CASE wire' = wire \o Whole(m) /\ UNCHANGED <<type, list, wb_size, epollout, ended>>
    <3>1. wb_size' = Len(Bytes(<<>>)) + Len(Bytes(<<>>)) /\ wb_size' \in Nat
      BY <2>1, <2>4, EmptyLists
    <3> QED
      BY <1>1, <1>2, <2>1, <2>2, <2>3, <2>4, <3>1, EmptyLists, Living
  <2>5. ASSUME NEW n \in 0 .. Size(m) - 1, wire' = wire \o Direct(m, n),
               Appended(Leftover(p), m, n), wb_size' = Grown(Size(m), n), epollout' = TRUE,
               UNCHANGED <<type, ended>>
        PROVE  WInv'
    <3> DEFINE b == New(m, n)
    <3>1. /\ b \in Buffer /\ b.size > 0 /\ b.ptr + b.size = Size(b.msg)
          /\ Direct(m, n) \in Seq(Byte) /\ b.size = Size(m) - n
      BY <1>2, NewBytes DEF New
    <3>2. list'.high = <<b>> /\ list'.low = <<>> /\ DOMAIN list' = Priorities
      <4>1. list' = [list EXCEPT !["high"] = Append(list["high"], b)]
        BY <2>5 DEF Appended, Leftover, New
      <4>2. Append(<<>>, b) = <<b>>
        OBVIOUS
      <4> HIDE DEF b
      <4> QED
        BY <1>1, <2>1, <4>1, <4>2 DEF Priorities
    <3> HIDE DEF b
    <3>3. /\ Len(Bytes(<<b>>)) = b.size /\ <<b>> \in Seq(Buffer) /\ Len(<<b>>) = 1 /\ <<b>>[1] = b
          /\ b.size \in Nat
      <4>1. Len(BytesOf(b)) = b.size
        BY <3>1, BytesOfType
      <4> QED
        BY <3>1, <4>1, OneByteList DEF Buffer
    <3>4. Lists(<<b>>, <<>>)
      <4>1. 1 .. 1 = {1} /\ 2 .. 1 = {}
        OBVIOUS
      <4>2. Full(<<b>>) /\ HeadOnly(<<b>>)
        BY <3>1, <3>3, <4>1 DEF Full, HeadOnly
      <4> QED
        BY <3>3, <4>2, EmptyLists DEF Lists
    <3>5. wb_size' = Len(Bytes(<<b>>)) + Len(Bytes(<<>>)) /\ wb_size' \in Nat
      <4>1. wb_size' = 0 + Size(m) - n
        BY <2>1, <2>5 DEF Grown
      <4> DEFINE z == Size(m)
      <4>2. z \in Nat /\ n \in 0 .. z - 1 /\ b.size = z - n /\ wb_size' = 0 + z - n
        BY <1>3, <3>1, <4>1
      <4> HIDE DEF z
      <4>3. wb_size' = b.size /\ wb_size' \in Nat /\ b.size + 0 = b.size
        BY <4>2
      <4> QED
        BY <3>3, <4>3, EmptyLists
    <3>6. Laid(wire', <<b>>, <<>>, prio') /\ wire' \in Seq(Byte)
      BY <1>1, <2>2, <2>5, <3>1, Joint DEF b
    <3> QED
      BY <1>1, <1>2, <2>5, <3>2, <3>4, <3>5, <3>6, Living
  <2>6. CASE Close("error") /\ UNCHANGED <<wb_size, wire>>
    <3>1. Begun(wire \o Whole(m), pq)
      BY <2>2, <2>3, EmptyLists, LaidBegun
    <3>2. Begun(wire, pq)
      BY <1>1, <2>3, <3>1, BegunPrefix
    <3> QED
      BY <1>1, <1>2, <2>6, <3>2, Closing
  <2> QED
    BY <1>4, <2>4, <2>5, <2>6 DEF send_socket, Whole, Direct
<1>5. CASE ~Empty(list)
  <2> DEFINE b == New(m, 0)
  <2>1. /\ Appended(p, m, 0) /\ wb_size' = Grown(Size(m), 0)
        /\ UNCHANGED <<type, epollout, wire, ended>>
    BY <1>5 DEF send_socket
  <2>2. /\ b \in Buffer /\ b.size > 0 /\ b.ptr + b.size = Size(b.msg) /\ b.ptr = 0
        /\ b.size = Size(m) - 0
    <3>1. New(m, 0).size = Size(m) - 0
      BY DEF New
    <3> QED
      BY <1>2, <1>3, <3>1, NewBytes
  <2>3. /\ Laid(wire, Append(list.high, b), list.low, Append(prio, "high"))
        /\ Laid(wire, list.high, Append(list.low, b), Append(prio, "low"))
    BY <1>1, <1>2, SendQueued
  <2>4. list' = [list EXCEPT ![p] = Append(list[p], b)]
    BY <2>1 DEF Appended, New
  <2>5. b.size = Size(m) /\ wb_size' = wb_size + b.size /\ wb_size' \in Nat
    <3>1. wb_size' = wb_size + Size(m) - 0
      BY <2>1 DEF Grown
    <3> DEFINE z == Size(m)
               c == b.size
    <3>2. wb_size' = wb_size + z - 0 /\ c = z - 0 /\ z \in Nat /\ wb_size \in Nat
      BY <1>1, <1>3, <2>2, <3>1
    <3> HIDE DEF z, c
    <3>3. c = z /\ wb_size' = wb_size + c /\ wb_size' \in Nat
      BY <3>2
    <3> QED
      BY <3>3 DEF z, c
  <2> HIDE DEF b
  <2>6. ASSUME NEW l \in Seq(Buffer), Full(l)
        PROVE  /\ Append(l, b) \in Seq(Buffer) /\ Full(Append(l, b))
               /\ HeadOnly(l) => HeadOnly(Append(l, b))
               /\ (\A i \in 1 .. Len(l) : l[i].ptr = 0)
                     => \A i \in 1 .. Len(Append(l, b)) : Append(l, b)[i].ptr = 0
               /\ Len(Bytes(Append(l, b))) = Len(Bytes(l)) + b.size
               /\ Len(Bytes(l)) \in Nat
    <3> DEFINE s == Append(l, b)
    <3>1. /\ s \in Seq(Buffer) /\ Len(s) = Len(l) + 1 /\ s[Len(l) + 1] = b
          /\ \A i \in 1 .. Len(l) : s[i] = l[i]
      BY <2>2, AppendProperties
    <3>2. Len(l) \in Nat
      BY LenProperties
    <3> HIDE DEF s
    <3>3. \A i \in 1 .. Len(s) : (i \in 1 .. Len(l) /\ s[i] = l[i]) \/ s[i] = b
      BY <3>1, <3>2
    <3>4. \A i \in 2 .. Len(s) : (i \in 2 .. Len(l) /\ s[i] = l[i]) \/ s[i] = b
      BY <3>1, <3>2
    <3>5. Full(s)
      BY <2>2, <2>6, <3>3 DEF Full
    <3>6. HeadOnly(l) => HeadOnly(s)
      BY <2>2, <3>4 DEF HeadOnly
    <3>7. (\A i \in 1 .. Len(l) : l[i].ptr = 0) => \A i \in 1 .. Len(s) : s[i].ptr = 0
      BY <2>2, <3>3
    <3>8. Len(Bytes(s)) = Len(Bytes(l)) + b.size /\ Len(Bytes(l)) \in Nat
      <4>1. /\ Bytes(s) = Bytes(l) \o BytesOf(b) /\ Bytes(l) \in Seq(Byte)
            /\ BytesOf(b) \in Seq(Byte) /\ Len(BytesOf(b)) = b.size
        BY <2>2, BytesAppended, BytesType, BytesOfType DEF s
      <4> QED
        BY <4>1, Joint
    <3> QED
      BY <3>1, <3>5, <3>6, <3>7, <3>8 DEF s
  <2>7. CASE p = "high"
    <3>1. list'.high = Append(list.high, b) /\ list'.low = list.low /\ DOMAIN list' = Priorities
      BY <1>1, <2>4, <2>7 DEF Priorities
    <3>2. Lists(list'.high, list'.low)
      BY <1>1, <2>6, <3>1 DEF Lists
    <3>3. wb_size' = Len(Bytes(list'.high)) + Len(Bytes(list'.low))
      <4> DEFINE x == Len(Bytes(list.high))
                 y == Len(Bytes(list.low))
                 z == b.size
                 u == Len(Bytes(list'.high))
      <4>1. /\ x \in Nat /\ y \in Nat /\ z \in Nat /\ u = x + z
            /\ wb_size' = wb_size + z /\ wb_size = x + y /\ Len(Bytes(list'.low)) = y
        BY <1>1, <1>3, <2>5, <2>6, <3>1 DEF Lists
      <4> HIDE DEF x, y, z, u
      <4>2. wb_size' = u + y
        BY <4>1
      <4> QED
        BY <4>1, <4>2 DEF u
    <3> QED
      BY <1>1, <1>2, <2>1, <2>3, <2>5, <2>7, <3>1, <3>2, <3>3, Living
  <2>8. CASE p = "low"
    <3>1. list'.high = list.high /\ list'.low = Append(list.low, b) /\ DOMAIN list' = Priorities
      BY <1>1, <2>4, <2>8 DEF Priorities
    <3>2. Lists(list'.high, list'.low)
      <4> DEFINE l == list.low
                 s == Append(l, b)
      <4>1. /\ l \in Seq(Buffer) /\ Full(l) /\ \A i \in 1 .. Len(l) : l[i].ptr = 0
            /\ list.high \in Seq(Buffer) /\ Full(list.high) /\ HeadOnly(list.high)
        BY <1>1 DEF Lists
      <4> HIDE DEF l
      <4>2. s \in Seq(Buffer) /\ Full(s) /\ \A i \in 1 .. Len(s) : s[i].ptr = 0
        BY <2>6, <4>1
      <4>3. list'.low = s
        BY <3>1 DEF l
      <4> HIDE DEF s
      <4> QED
        BY <3>1, <4>1, <4>2, <4>3 DEF Lists
    <3>3. wb_size' = Len(Bytes(list'.high)) + Len(Bytes(list'.low))
      <4> DEFINE x == Len(Bytes(list.high))
                 y == Len(Bytes(list.low))
                 z == b.size
                 u == Len(Bytes(list'.low))
      <4>1. /\ x \in Nat /\ y \in Nat /\ z \in Nat /\ u = y + z
            /\ wb_size' = wb_size + z /\ wb_size = x + y /\ Len(Bytes(list'.high)) = x
        BY <1>1, <1>3, <2>5, <2>6, <3>1 DEF Lists
      <4> HIDE DEF x, y, z, u
      <4>2. wb_size' = x + u
        BY <4>1
      <4> QED
        BY <4>1, <4>2 DEF u
    <3> QED
      BY <1>1, <1>2, <2>1, <2>3, <2>5, <2>8, <3>1, <3>2, <3>3, Living
  <2> QED
    BY <2>7, <2>8 DEF Priorities
<1> QED
  BY <1>4, <1>5

\* What a write leaves behind, whatever becomes of the socket after it.
LEMMA Flushing ==
  ASSUME WInv, type # "INVALID", NEW h \in 0 .. Len(Bytes(list.high)),
         NEW l \in 0 .. Len(Bytes(list.low)), Writable(h, l), Take(h, l), prio' = prio
  PROVE  LET f == Flushed(h, l) IN
         /\ wire' \in Seq(Byte) /\ wb_size' \in Nat /\ DOMAIN f = Priorities
         /\ Lists(f.high, f.low) /\ Laid(wire', f.high, f.low, prio')
         /\ wb_size' = Len(Bytes(f.high)) + Len(Bytes(f.low))
         /\ Begun(wire', prio') /\ (Empty(f) => Complete(wire', prio'))
         /\ Done(h, l) => Empty(f)
         /\ prio' \in Seq(Priorities) /\ Len(prio') =< MaxMsg
<1> DEFINE f == Flushed(h, l)
           fh == f.high
           fl == f.low
<1>1. /\ prio \in Seq(Priorities) /\ wire \in Seq(Byte) /\ wb_size \in Nat
      /\ Lists(list.high, list.low) /\ Len(prio) =< MaxMsg
      /\ wb_size = Len(Bytes(list.high)) + Len(Bytes(list.low))
      /\ Laid(wire, list.high, list.low, prio)
      /\ list.high \in Seq(Buffer) /\ list.low \in Seq(Buffer)
  BY DEF WInv, TypeOK, Byte, Backlog, Lists
<1>2. /\ l > 0 => h = Len(Bytes(list.high))
      /\ wire' = (wire \o SubSeq(Bytes(list.high), 1, h)) \o SubSeq(Bytes(list.low), 1, l)
      /\ wb_size' = wb_size - h - l
  BY DEF Writable, Take
<1>3. /\ f = [high |-> fh, low |-> fl] /\ DOMAIN f = Priorities
      /\ f = Raised(Written(list.high, h), Written(list.low, l))
  BY DEF Flushed, Raised, Priorities
<1>4. [high |-> fh, low |-> fl] = Raised(Written(list.high, h), Written(list.low, l))
  <2> HIDE DEF f
  <2> QED
    BY <1>3
<1> HIDE DEF fh, fl
<1>5. /\ wire' \in Seq(Byte) /\ Lists(fh, fl) /\ Laid(wire', fh, fl, prio)
      /\ Len(Bytes(fh)) + Len(Bytes(fl))
           = Len(Bytes(list.high)) + Len(Bytes(list.low)) - h - l
  <2> DEFINE hi == list.high
             lo == list.low
             v == wire'
  <2>1. /\ prio \in Seq(Priorities) /\ Len(prio) =< MaxMsg /\ wire \in Seq(Byte)
        /\ Lists(hi, lo) /\ Laid(wire, hi, lo, prio)
        /\ h \in 0 .. Len(Bytes(hi)) /\ l \in 0 .. Len(Bytes(lo))
        /\ Moves(wire, hi, lo, h, l, v, fh, fl)
    BY <1>1, <1>2, <1>4 DEF Moves
  <2> HIDE DEF hi, lo, v
  <2>2. /\ v \in Seq(Byte) /\ Lists(fh, fl) /\ Laid(v, fh, fl, prio)
        /\ Len(Bytes(fh)) + Len(Bytes(fl)) = Len(Bytes(hi)) + Len(Bytes(lo)) - h - l
    BY <2>1, FlushKeeps
  <2> QED
    BY <2>2 DEF hi, lo, v
<1>6. wb_size' = Len(Bytes(fh)) + Len(Bytes(fl)) /\ wb_size' \in Nat
  <2>1. wb_size' = Len(Bytes(fh)) + Len(Bytes(fl))
    BY <1>1, <1>2, <1>5
  <2>2. Len(Bytes(fh)) \in Nat /\ Len(Bytes(fl)) \in Nat
    <3>1. Bytes(fh) \in Seq(Byte) /\ Bytes(fl) \in Seq(Byte)
      BY <1>5, BytesType DEF Lists
    <3> QED
      BY <3>1, LenProperties
  <2> QED
    BY <2>1, <2>2
<1>7. Begun(wire', prio)
  <2>1. fh \in Seq(Buffer) /\ fl \in Seq(Buffer)
    BY <1>5 DEF Lists
  <2> QED
    BY <1>5, <2>1, LaidBegun
<1>8. fh = <<>> /\ fl = <<>> => Complete(wire', prio)
  BY <1>5, LaidComplete
<1>9. Done(h, l) => fh = <<>> /\ fl = <<>>
  <2> SUFFICES ASSUME Done(h, l) PROVE fh = <<>> /\ fl = <<>>
    OBVIOUS
  <2>1. Written(list.high, h) = <<>> /\ list.low = <<>>
    BY DEF Done
  <2>2. Written(list.low, l) = <<>>
    <3>1. l = Len(Bytes(<<>>))
      BY <2>1, EmptyLists
    <3>2. Full(<<>>) /\ HeadOnly(<<>>) /\ <<>> \in Seq(Buffer)
      BY EmptyLists DEF Lists
    <3>3. Written(<<>>, l) = <<>>
      BY <2>1, <3>1, <3>2, WrittenShape
    <3> QED
      BY <2>1, <3>3
  <2>3. f = [high |-> <<>>, low |-> <<>>]
    BY <1>3, <2>1, <2>2 DEF Raised, Uncomplete
  <2> QED
    BY <2>3 DEF fh, fl
<1> QED
  BY <1>1, <1>3, <1>5, <1>6, <1>7, <1>8, <1>9 DEF fh, fl, Empty

LEMMA CloseWInv ==
  ASSUME WInv, NEW shutdown \in BOOLEAN, close_socket(shutdown)
  PROVE  WInv'
<1>1. /\ type # "INVALID" /\ prio' = prio /\ ended = "not" /\ wire \in Seq(Byte) /\ wb_size \in Nat
      /\ prio \in Seq(Priorities) /\ Len(prio) =< MaxMsg /\ Begun(wire, prio)
      /\ epollout \in BOOLEAN /\ Laid(wire, list.high, list.low, prio)
  BY DEF WInv, TypeOK, close_socket, Byte
<1>2. CASE Empty(list) /\ Close("drained") /\ UNCHANGED <<wb_size, wire>>
  <2>1. Complete(wire, prio)
    BY <1>1, <1>2, LaidComplete DEF Empty
  <2> QED
    BY <1>1, <1>2, <2>1, Closing
<1>3. ASSUME NEW h \in 0 .. Len(Bytes(list.high)), NEW l \in 0 .. Len(Bytes(list.low)),
             Writable(h, l), Take(h, l),
             \/ Close("error")
             \/ /\ Empty(Flushed(h, l)) \/ shutdown
                /\ Close(IF Empty(Flushed(h, l)) THEN "drained" ELSE "shutdown")
             \/ /\ ~Empty(Flushed(h, l)) /\ ~shutdown
                /\ list' = Flushed(h, l)
                /\ type' = "HALFCLOSE"
                /\ UNCHANGED <<epollout, ended>>
      PROVE  WInv'
  <2> DEFINE f == Flushed(h, l)
  <2>1. /\ wire' \in Seq(Byte) /\ wb_size' \in Nat /\ DOMAIN f = Priorities
        /\ Lists(f.high, f.low) /\ Laid(wire', f.high, f.low, prio')
        /\ wb_size' = Len(Bytes(f.high)) + Len(Bytes(f.low))
        /\ Begun(wire', prio') /\ (Empty(f) => Complete(wire', prio'))
        /\ prio' \in Seq(Priorities) /\ Len(prio') =< MaxMsg
    BY <1>1, <1>3, Flushing
  <2> HIDE DEF f
  <2>2. CASE Close("error")
    BY <2>1, <2>2, Closing
  <2>3. CASE Close(IF Empty(f) THEN "drained" ELSE "shutdown")
    BY <2>1, <2>3, Closing
  <2>4. CASE /\ list' = f /\ type' = "HALFCLOSE" /\ UNCHANGED <<epollout, ended>>
    BY <1>1, <2>1, <2>4, Living
  <2> QED
    BY <1>3, <2>2, <2>3, <2>4 DEF f
<1> QED
  BY <1>2, <1>3 DEF close_socket

LEMMA WriteWInv ==
  ASSUME WInv, NEW h \in 0 .. Len(Bytes(list.high)), NEW l \in 0 .. Len(Bytes(list.low)),
         send_buffer(h, l)
  PROVE  WInv'
<1> DEFINE f == Flushed(h, l)
<1>1. /\ type # "INVALID" /\ prio' = prio /\ ended = "not" /\ epollout \in BOOLEAN
      /\ type \in {"CONNECTED", "HALFCLOSE"} /\ Writable(h, l) /\ Take(h, l)
  BY DEF WInv, TypeOK, send_buffer
<1>2. /\ wire' \in Seq(Byte) /\ wb_size' \in Nat /\ DOMAIN f = Priorities
      /\ Lists(f.high, f.low) /\ Laid(wire', f.high, f.low, prio')
      /\ wb_size' = Len(Bytes(f.high)) + Len(Bytes(f.low))
      /\ Begun(wire', prio') /\ (Empty(f) => Complete(wire', prio'))
      /\ Done(h, l) => Empty(f)
      /\ prio' \in Seq(Priorities) /\ Len(prio') =< MaxMsg
  BY <1>1, Flushing
<1> HIDE DEF f
<1>3. CASE Close("error")
  BY <1>2, <1>3, Closing
<1>4. CASE list' = f /\ UNCHANGED <<type, ended>> /\ epollout' \in BOOLEAN
  BY <1>1, <1>2, <1>4, Living
<1>5. CASE Done(h, l) /\ Close("drained")
  BY <1>2, <1>5, Closing
<1> QED
  BY <1>1, <1>3, <1>4, <1>5 DEF send_buffer, f

LEMMA NextWInv == WInv /\ [Next]_vars => WInv'
<1> SUFFICES ASSUME WInv, [Next]_vars PROVE WInv'
  OBVIOUS
<1>1. ASSUME NEW p \in Priorities, send_socket(p) PROVE WInv'
  BY <1>1, SendWInv
<1>2. ASSUME NEW shutdown \in BOOLEAN, close_socket(shutdown) PROVE WInv'
  BY <1>2, CloseWInv
<1>3. CASE write_event
  BY <1>3, WriteWInv DEF write_event
<1>4. CASE forword_message_tcp
  <2>1. /\ Close("read") /\ wb_size' = wb_size /\ wire' = wire /\ prio' = prio
        /\ wb_size \in Nat /\ wire \in Seq(Byte) /\ prio \in Seq(Priorities)
        /\ Len(prio) =< MaxMsg /\ Begun(wire, prio)
    BY <1>4 DEF forword_message_tcp, WInv, TypeOK, Byte
  <2> QED
    BY <2>1, Closing
<1>5. CASE UNCHANGED vars
  <2>1. TypeOK' /\ Backlog' = Backlog /\ Empty(list)' = Empty(list)
    BY <1>5 DEF vars, WInv, TypeOK, Backlog, Empty
  <2> QED
    BY <1>5, <2>1 DEF vars, WInv
<1> QED
  BY <1>1, <1>2, <1>3, <1>4, <1>5 DEF Next

LEMMA Always == Spec => []WInv
<1> QED
  BY InitWInv, NextWInv, PTL DEF Spec

-----------------------------------------------------------------------------
\* The type invariant, and what wb_size (the backlog socket_server_send
\* returns) counts: at every moment of the socket's life the bytes that wait in
\* the two lists, however append_sendbuffer, send_list_tcp and the direct write
\* of send_socket have changed it.
THEOREM BacklogCounted == Spec => []WbSizeIsBacklog
<1>1. WInv => WbSizeIsBacklog
  BY DEF WInv, WbSizeIsBacklog, Backlog
<1> QED
  BY <1>1, Always, PTL

\* The assertions of send_buffer about a low buffer sent in part (:579, :587)
\* hold: only the first buffer of high is ever begun, because raise_uncomplete
\* moves a low buffer that was cut short there and send_socket's leftover goes
\* there at once.
THEOREM OnlyHighHeadBegun == Spec => []OnlyHighHeadPartial
<1>1. WInv => OnlyHighHeadPartial
  <2> SUFFICES ASSUME WInv, NEW p \in Priorities, NEW i \in 1 .. Len(list[p]), list[p][i].ptr > 0
               PROVE  p = "high" /\ i = 1
    BY DEF OnlyHighHeadPartial
  <2>1. /\ list.high \in Seq(Buffer) /\ HeadOnly(list.high)
        /\ \A e \in 1 .. Len(list.low) : list.low[e].ptr = 0
    BY DEF WInv, Lists
  <2>2. CASE p = "low"
    BY <2>1, <2>2
  <2>3. CASE p = "high"
    <3>1. Len(list.high) \in Nat
      BY <2>1, LenProperties
    <3>2. i # 1 => i \in 2 .. Len(list.high)
      BY <2>3, <3>1
    <3> QED
      BY <2>1, <2>3, <3>2 DEF HeadOnly
  <2> QED
    BY <2>2, <2>3 DEF Priorities
<1> QED
  BY <1>1, Always, PTL

\* The peer reads whole messages, one after the other, whatever the lengths of
\* the writes the kernel takes and the priorities of the messages.
THEOREM MessagesWhole == Spec => []MessagesNotInterleaved
<1>1. WInv => MessagesNotInterleaved
  <2> SUFFICES ASSUME WInv PROVE MessagesNotInterleaved
    OBVIOUS
  <2>1. prio \in Seq(Priorities) /\ Len(prio) =< MaxMsg /\ wire \in Seq(Byte) /\ Begun(wire, prio)
    BY DEF WInv, TypeOK, Byte
  <2> QED
    BY <2>1, BegunWhole DEF MessagesNotInterleaved
<1> QED
  BY <1>1, Always, PTL

\* Messages of one priority reach the peer in the order they were sent.
THEOREM SendOrderKept == Spec => []FifoPerPriority
<1>1. WInv => FifoPerPriority
  <2> SUFFICES ASSUME WInv PROVE FifoPerPriority
    OBVIOUS
  <2>1. prio \in Seq(Priorities) /\ Len(prio) =< MaxMsg /\ wire \in Seq(Byte) /\ Begun(wire, prio)
    BY DEF WInv, TypeOK, Byte
  <2> QED
    BY <2>1, BegunWhole DEF FifoPerPriority
<1> QED
  BY <1>1, Always, PTL

\* While the socket lives, no byte of a message that was taken is lost or
\* doubled between the wire and the two lists.
THEOREM EveryMessageKept == Spec => []NothingLost
<1>1. WInv => NothingLost
  <2> SUFFICES ASSUME WInv, type # "INVALID", NEW m \in 1 .. Len(prio)
               PROVE  LET bytes == wire \o Bytes(list.high) \o Bytes(list.low) IN
                      \E k \in 0 .. Len(bytes) :
                        /\ k + Size(m) =< Len(bytes)
                        /\ \A i \in 1 .. Len(bytes) :
                             IF i \in k + 1 .. k + Size(m) THEN bytes[i] = <<m, i - k>>
                             ELSE bytes[i][1] # m
    BY DEF NothingLost
  <2> DEFINE a == Bytes(list.high)
             b == Bytes(list.low)
             S == (wire \o a) \o b
  <2>1. /\ prio \in Seq(Priorities) /\ Len(prio) =< MaxMsg /\ wire \in Seq(Byte)
        /\ list.high \in Seq(Buffer) /\ list.low \in Seq(Buffer)
        /\ Laid(wire, list.high, list.low, prio)
    BY DEF WInv, TypeOK, Byte, Lists
  <2>2. PICK pos : Layout(S, pos, prio)
    BY <2>1 DEF Laid
  <2>3. S \in Seq(Byte)
    <3>1. a \in Seq(Byte) /\ b \in Seq(Byte)
      BY <2>1, BytesType
    <3> HIDE DEF a, b
    <3>2. wire \o a \in Seq(Byte)
      BY <2>1, <3>1, Joint
    <3> QED
      BY <3>1, <3>2, Joint
  <2> HIDE DEF S
  <2>4. \E k \in 0 .. Len(S) :
           /\ k + Size(m) =< Len(S)
           /\ \A i \in 1 .. Len(S) :
                IF i \in k + 1 .. k + Size(m) THEN S[i] = <<m, i - k>> ELSE S[i][1] # m
    BY <2>1, <2>2, <2>3, LaidOnce
  <2> QED
    BY <2>4 DEF S
<1> QED
  BY <1>1, Always, PTL

\* A close that neither was a shutdown nor met an error has delivered, to its
\* last byte, every message taken before it.
THEOREM DrainedCloseDelivers == Spec => []GracefulCloseDelivers
<1>1. WInv => GracefulCloseDelivers
  <2> SUFFICES ASSUME WInv, ended = "drained", NEW m \in 1 .. Len(prio)
               PROVE  \E i \in 1 .. Len(wire) : wire[i] = <<m, Size(m)>>
    BY DEF GracefulCloseDelivers
  <2>1. PICK pos : Layout(wire, pos, prio)
    BY DEF WInv, Complete
  <2>2. Size(m) \in Nat /\ Size(m) > 0
    <3>1. Len(prio) \in Nat /\ Len(prio) =< MaxMsg
      BY LenProperties DEF WInv, TypeOK
    <3>2. m \in 1 .. MaxMsg
      BY <3>1, SizeAssumption
    <3> QED
      BY <3>2, Sizes
  <2>3. Size(m) \in 1 .. Size(m)
    BY <2>2
  <2>4. pos[m] + Size(m) \in 1 .. Len(wire) /\ wire[pos[m] + Size(m)] = <<m, Size(m)>>
    BY <2>1, <2>3 DEF Layout, Blocks
  <2> QED
    BY <2>4
<1> QED
  BY <1>1, Always, PTL

-----------------------------------------------------------------------------
(* WriteSide: what is left of the lists, seen from outside. *)

LEMMA FlushedSide ==
  ASSUME WInv, NEW h \in 0 .. Len(Bytes(list.high)), NEW l \in 0 .. Len(Bytes(list.low)),
         Writable(h, l)
  PROVE  LET f == Flushed(h, l)
             was == {p \in Priorities : list[p] # <<>>}
             is == {p \in Priorities : f[p] # <<>>}
         IN  /\ is \in Side!Left(was)
             /\ ~Done(h, l) => is # {} \/ "low" \in was
             /\ Done(h, l) => is = {} /\ "low" \notin was
             /\ Empty(f) <=> is = {}
<1> DEFINE f == Flushed(h, l)
           was == {p \in Priorities : list[p] # <<>>}
           is == {p \in Priorities : f[p] # <<>>}
           H == Written(list.high, h)
           L == Written(list.low, l)
<1>1. Full(<<>>) /\ HeadOnly(<<>>) /\ <<>> \in Seq(Buffer) /\ Len(Bytes(<<>>)) = 0
  BY EmptyLists DEF Lists
<1>2. /\ list.high = <<>> => h = Len(Bytes(<<>>))
      /\ list.low = <<>> => l = Len(Bytes(<<>>))
  BY <1>1
<1>3. \A n \in 0 .. Len(Bytes(<<>>)) : n = Len(Bytes(<<>>)) => Written(<<>>, n) = <<>>
  BY <1>1, WrittenShape
<1>4. (list.high = <<>> => H = <<>>) /\ (list.low = <<>> => L = <<>>)
  BY <1>2, <1>3
<1>5. f = IF H = <<>> /\ Uncomplete(L) THEN [high |-> <<Head(L)>>, low |-> Tail(L)]
          ELSE [high |-> H, low |-> L]
  BY DEF Flushed, Raised
<1>6. <<Head(L)>> # <<>>
  OBVIOUS
<1> HIDE DEF f, H, L
<1>7. /\ "low" \in was <=> list.low # <<>>
      /\ "high" \in was <=> list.high # <<>>
      /\ "low" \in is <=> f.low # <<>>
      /\ "high" \in is <=> f.high # <<>>
      /\ was \subseteq Priorities /\ is \subseteq Priorities
  BY DEF Priorities
<1> HIDE DEF was, is
<1>8. CASE H = <<>> /\ Uncomplete(L)
  <2>1. f.high # <<>> /\ L # <<>>
    BY <1>5, <1>6, <1>8 DEF Uncomplete
  <2>2. "high" \in is /\ "low" \in was /\ ~Done(h, l) /\ ~Empty(f)
    BY <1>4, <1>7, <2>1 DEF Done, Empty
  <2>3. is \in Side!Left(was)
    BY <1>7, <2>2 DEF Side!Left, Side!Priorities, Priorities
  <2> QED
    BY <2>2, <2>3 DEF f, was, is
<1>9. CASE ~(H = <<>> /\ Uncomplete(L))
  <2>1. f.high = H /\ f.low = L
    BY <1>5, <1>9
  <2>2. is \subseteq was
    BY <1>4, <1>7, <2>1 DEF Priorities
  <2>3. is \in Side!Left(was)
    BY <1>7, <2>2 DEF Side!Left, Side!Priorities, Priorities
  <2>4. Done(h, l) <=> H = <<>> /\ list.low = <<>>
    BY DEF Done, H
  <2>5. is = {} <=> H = <<>> /\ L = <<>>
    BY <1>7, <2>1 DEF Priorities
  <2>6. Empty(f) <=> H = <<>> /\ L = <<>>
    BY <2>1 DEF Empty
  <2>7. ~Done(h, l) => is # {} \/ "low" \in was
    BY <1>7, <2>4, <2>5
  <2>8. Done(h, l) => is = {} /\ "low" \notin was
    BY <1>4, <1>7, <2>4, <2>5
  <2> QED
    BY <2>3, <2>5, <2>6, <2>7, <2>8 DEF f, was, is
<1> QED
  BY <1>8, <1>9

SideNext == Side!Closes \/ Side!Sends \/ Side!Lingering \/ Side!Flushes \/ Side!Drains

LEMMA ClosesSide ==
  ASSUME NEW why, type # "INVALID", Close(why)
  PROVE  SideNext
<1>1. \A p \in Priorities : list'[p] = <<>>
  BY DEF Close
<1> QED
  BY <1>1 DEF Close, SideNext, Side!Closes

LEMMA SendsSide ==
  ASSUME WInv, NEW p \in Priorities, send_socket(p)
  PROVE  [SideNext]_(Side!view)
<1> DEFINE was == {q \in Priorities : list[q] # <<>>}
<1>1. type = "CONNECTED" /\ DOMAIN list = Priorities
      /\ list.high \in Seq(Buffer) /\ list.low \in Seq(Buffer)
  BY DEF send_socket, WInv, TypeOK, Lists
<1>2. was = {} <=> Empty(list)
  BY DEF Empty, Priorities
<1>3. ASSUME NEW q \in Priorities, NEW m, NEW n, Appended(q, m, n)
      PROVE  {r \in Priorities : list'[r] # <<>>} = was \cup {q}
  <2> DEFINE b == [msg |-> m, ptr |-> n, size |-> Size(m) - n]
             s == Append(list[q], b)
  <2>1. s # <<>>
    <3>1. Len(s) = Len(list[q]) + 1 /\ Len(list[q]) \in Nat
      BY <1>1 DEF Priorities
    <3> HIDE DEF s
    <3>2. Len(s) # 0
      BY <3>1
    <3> QED
      BY <3>2
  <2>2. list' = [list EXCEPT ![q] = s]
    BY <1>3 DEF Appended
  <2> HIDE DEF s
  <2>3. \A r \in Priorities : list'[r] # <<>> <=> list[r] # <<>> \/ r = q
    BY <1>1, <2>1, <2>2
  <2> QED
    BY <2>3
<1>4. CASE UNCHANGED <<type, list, wb_size, epollout, ended>>
  BY <1>4 DEF Side!view
<1>5. ASSUME Empty(list), NEW n, Appended(Leftover(p), Len(prio) + 1, n), epollout' = TRUE,
             UNCHANGED type
      PROVE  SideNext
  <2>1. {r \in Priorities : list'[r] # <<>>} = was \cup {"high"} /\ was = {}
    BY <1>2, <1>3, <1>5 DEF Leftover, Priorities
  <2>2. Side!Sends
    BY <1>1, <1>5, <2>1 DEF Side!Sends
  <2> QED
    BY <2>2 DEF SideNext
<1>6. CASE ~Empty(list) /\ Appended(p, Len(prio) + 1, 0) /\ UNCHANGED <<type, epollout>>
  <2>1. {r \in Priorities : list'[r] # <<>>} = was \cup {p} /\ was # {}
    BY <1>2, <1>3, <1>6
  <2>2. Side!Sends
    BY <1>1, <1>6, <2>1 DEF Side!Sends, Side!Priorities, Priorities
  <2> QED
    BY <2>2 DEF SideNext
<1>7. CASE Close("error")
  BY <1>1, <1>7, ClosesSide
<1> QED
  BY <1>4, <1>5, <1>6, <1>7 DEF send_socket

LEMMA CloseSide ==
  ASSUME WInv, NEW shutdown \in BOOLEAN, close_socket(shutdown)
  PROVE  SideNext
<1>1. type # "INVALID"
  BY DEF close_socket
<1>2. ASSUME NEW why, Close(why) PROVE SideNext
  BY <1>1, <1>2, ClosesSide
<1>3. ASSUME NEW h \in 0 .. Len(Bytes(list.high)), NEW l \in 0 .. Len(Bytes(list.low)),
             Writable(h, l), ~Empty(Flushed(h, l)), list' = Flushed(h, l),
             type' = "HALFCLOSE", UNCHANGED epollout
      PROVE  SideNext
  <2> DEFINE was == {q \in Priorities : list[q] # <<>>}
             is == {q \in Priorities : Flushed(h, l)[q] # <<>>}
  <2>1. is \in Side!Left(was) /\ is # {}
    BY <1>3, FlushedSide
  <2>2. is = {q \in Priorities : list'[q] # <<>>}
    BY <1>3
  <2> HIDE DEF is
  <2>3. is \in Side!Lingers([shutdown |-> FALSE], was)
    BY <2>1 DEF Side!Lingers
  <2>4. Side!Lingering
    BY <1>1, <1>3, <2>2, <2>3 DEF Side!Lingering
  <2> QED
    BY <2>4 DEF SideNext
<1> QED
  BY <1>2, <1>3 DEF close_socket

LEMMA WriteSideStep ==
  ASSUME WInv, NEW h \in 0 .. Len(Bytes(list.high)), NEW l \in 0 .. Len(Bytes(list.low)),
         send_buffer(h, l)
  PROVE  SideNext
<1> DEFINE was == {q \in Priorities : list[q] # <<>>}
           is == {q \in Priorities : Flushed(h, l)[q] # <<>>}
<1>1. type # "INVALID" /\ epollout /\ Writable(h, l) /\ type \in {"CONNECTED", "HALFCLOSE", "INVALID"}
  BY DEF send_buffer, WInv, TypeOK
<1>2. /\ is \in Side!Left(was)
      /\ ~Done(h, l) => is # {} \/ "low" \in was
      /\ Done(h, l) => is = {} /\ "low" \notin was
  BY <1>1, FlushedSide
<1>3. ASSUME NEW why, Close(why) PROVE SideNext
  BY <1>1, <1>3, ClosesSide
<1>4. list' = Flushed(h, l) => is = {q \in Priorities : list'[q] # <<>>}
  OBVIOUS
<1> HIDE DEF is
<1>5. CASE ~Done(h, l) /\ list' = Flushed(h, l) /\ UNCHANGED <<type, epollout, ended>>
  <2>1. Side!Flushes
    BY <1>1, <1>2, <1>4, <1>5 DEF Side!Flushes
  <2> QED
    BY <2>1 DEF SideNext
<1>6. CASE /\ Done(h, l) /\ type # "HALFCLOSE" /\ list' = Flushed(h, l)
           /\ epollout' = FALSE /\ UNCHANGED <<type, ended>>
  <2>1. Side!Drains
    BY <1>1, <1>2, <1>4, <1>6 DEF Side!Drains
  <2> QED
    BY <2>1 DEF SideNext
<1> QED
  BY <1>1, <1>3, <1>5, <1>6 DEF send_buffer

\* SocketServer's account of the two lists (only which of them are empty, and
\* whether EPOLLOUT is asked for) allows all that the real lists do, whatever
\* the messages and the lengths of the writes.
THEOREM WriteSideImplemented == Spec => ImplementsWriteSide
<1>1. Init => Side!Fresh
  BY DEF Init, Side!Fresh, Priorities
<1>2. WInv /\ [Next]_vars => [SideNext]_(Side!view)
  <2> SUFFICES ASSUME WInv, [Next]_vars PROVE [SideNext]_(Side!view)
    OBVIOUS
  <2>1. CASE \E p \in Priorities : send_socket(p)
    BY <2>1, SendsSide
  <2>2. CASE \E shutdown \in BOOLEAN : close_socket(shutdown)
    BY <2>2, CloseSide
  <2>3. CASE write_event
    BY <2>3, WriteSideStep DEF write_event
  <2>4. CASE forword_message_tcp
    BY <2>4, ClosesSide DEF forword_message_tcp
  <2>5. CASE UNCHANGED vars
    BY <2>5 DEF vars, Side!view
  <2> QED
    BY <2>1, <2>2, <2>3, <2>4, <2>5 DEF Next
<1> QED
  BY <1>1, <1>2, Always, PTL DEF Spec, ImplementsWriteSide, Side!WriteSideSpec, SideNext

=============================================================================
