---------------------------- MODULE CtrlPipeProofs ----------------------------
(* The control pipe carries requests whose length a signed char holds, for   *)
(* any lengths and any size of the pipe.                                     *)
EXTENDS CtrlPipe, SequenceTheorems, TLAPS

\* The bytes of a request.
Encoded(r) == <<r.type, LengthByte(Len(r.payload))>> \o r.payload

LEMMA RequestBytes ==
  ASSUME NEW r \in Request
  PROVE  /\ r = [type |-> r.type, payload |-> r.payload]
         /\ r.payload \in Seq(Int) /\ Len(r.payload) \in Lengths /\ Len(r.payload) \in Nat
         /\ Encoded(r) \in Seq(Int) /\ Len(Encoded(r)) = 2 + Len(r.payload)
         /\ Encoded(r)[1] = r.type /\ Encoded(r)[2] = Len(r.payload)
         /\ \A j \in 1 .. Len(r.payload) : Encoded(r)[2 + j] = r.payload[j]
<1>1. PICK n \in Lengths :
        r \in [type : {0, 1}, payload : {[i \in 1 .. n |-> b] : b \in Bytes}]
  BY DEF Request
<1>2. PICK b \in Bytes : r.payload = [i \in 1 .. n |-> b]
  BY <1>1
<1>3. n \in Nat /\ b \in Int
  BY LengthAssumption, CharAssumption DEF Bytes
<1> DEFINE y == r.payload
           x == <<r.type, Len(y)>>
<1>4. y \in Seq(Int) /\ Len(y) = n
  <2>1. y \in [1 .. n -> Int]
    BY <1>2, <1>3
  <2>2. y \in Seq(Int)
    BY <1>3, <2>1
  <2> QED
    BY <1>3, <2>1, <2>2, LenProperties
<1>5. r = [type |-> r.type, payload |-> y] /\ r.type \in {0, 1}
  BY <1>1
<1> HIDE DEF y
<1>6. x \in Seq(Int) /\ Len(x) = 2 /\ x[1] = r.type /\ x[2] = Len(y)
  BY <1>3, <1>4, <1>5
<1>7. Encoded(r) = x \o y
  BY DEF Encoded, LengthByte, y
<1> HIDE DEF x
<1>8. /\ x \o y \in Seq(Int) /\ Len(x \o y) = 2 + Len(y)
      /\ \A i \in 1 .. 2 + Len(y) : (x \o y)[i] = IF i =< 2 THEN x[i] ELSE y[i - 2]
  <2>1. /\ x \o y \in Seq(Int) /\ Len(x \o y) = Len(x) + Len(y)
        /\ \A i \in 1 .. Len(x) + Len(y) : (x \o y)[i] = IF i =< Len(x) THEN x[i] ELSE y[i - Len(x)]
    BY <1>4, <1>6, ConcatProperties
  <2> QED
    BY <1>6, <2>1
<1> DEFINE e == x \o y
<1> HIDE DEF e
<1>9. /\ e \in Seq(Int) /\ Len(e) = 2 + n /\ n \in Nat
      /\ \A i \in 1 .. 2 + n : e[i] = IF i =< 2 THEN x[i] ELSE y[i - 2]
  BY <1>3, <1>4, <1>8 DEF e
<1>10. e[1] = x[1] /\ e[2] = x[2]
  <2>1. 1 \in 1 .. 2 + n /\ 2 \in 1 .. 2 + n
    BY <1>9
  <2> QED
    BY <1>9, <2>1
<1>11. \A j \in 1 .. n : e[2 + j] = y[j]
  <2> TAKE j \in 1 .. n
  <2>1. 2 + j \in 1 .. 2 + n /\ ~(2 + j =< 2) /\ (2 + j) - 2 = j
    BY <1>9
  <2> QED
    BY <1>9, <2>1
<1> QED
  BY <1>3, <1>4, <1>5, <1>6, <1>7, <1>9, <1>10, <1>11 DEF e, y

-----------------------------------------------------------------------------
\* The requests s lie in the bytes p one after the other, the k-th from off[k];
\* of the first, bytes may have been read.
Framed(p, s, off) ==
  /\ off \in [1 .. Len(s) + 1 -> Int]
  /\ off[Len(s) + 1] = Len(p)
  /\ \A i, j \in 1 .. Len(s) + 1 : i =< j => off[i] =< off[j]
  /\ \A k \in 1 .. Len(s) : off[k + 1] = off[k] + Len(Encoded(s[k]))
  /\ \A k \in 1 .. Len(s) : \A i \in 1 .. Len(Encoded(s[k])) :
       off[k] + i >= 1 => p[off[k] + i] = Encoded(s[k])[i]

\* A request is written behind the others.
LEMMA FramedSend ==
  ASSUME NEW p \in Seq(Int), NEW s \in Seq(Request), NEW off, Framed(p, s, off), NEW r \in Request
  PROVE  \E new : Framed(p \o Encoded(r), Append(s, r), new) /\ new[1] = off[1]
<1> DEFINE e == Encoded(r)
           q == p \o e
           t == Append(s, r)
           n == Len(s)
           a == Len(p)
           d == Len(e)
<1>1. n \in Nat /\ a \in Nat /\ d \in Nat /\ e \in Seq(Int)
  <2>1. e \in Seq(Int)
    BY RequestBytes
  <2> HIDE DEF e
  <2> QED
    BY <2>1, LenProperties
<1>2. /\ Len(t) = n + 1 /\ t[n + 1] = r /\ \A k \in 1 .. n : t[k] = s[k]
  BY AppendProperties
<1> HIDE DEF e
<1>3. /\ Len(q) = a + d
      /\ \A i \in 1 .. a + d : q[i] = IF i =< a THEN p[i] ELSE e[i - a]
  BY <1>1, ConcatProperties
<1>4. /\ off \in [1 .. n + 1 -> Int] /\ off[n + 1] = a
      /\ \A i, j \in 1 .. n + 1 : i =< j => off[i] =< off[j]
      /\ \A k \in 1 .. n : off[k + 1] = off[k] + Len(Encoded(s[k]))
      /\ \A k \in 1 .. n : \A i \in 1 .. Len(Encoded(s[k])) :
           off[k] + i >= 1 => p[off[k] + i] = Encoded(s[k])[i]
  BY DEF Framed
<1> HIDE DEF q, t, n, a, d
<1> DEFINE new == [k \in 1 .. n + 2 |-> IF k = n + 2 THEN a + d ELSE off[k]]
<1>5. /\ new \in [1 .. n + 2 -> Int] /\ new[n + 2] = a + d
      /\ \A k \in 1 .. n + 1 : new[k] = off[k] /\ off[k] \in Int /\ off[k] =< a
  <2>1. \A k \in 1 .. n + 1 : k # n + 2 /\ k \in 1 .. n + 2 /\ n + 1 \in 1 .. n + 1 /\ k =< n + 1
    BY <1>1
  <2>2. n + 2 \in 1 .. n + 2
    BY <1>1
  <2>3. \A k \in 1 .. n + 1 : off[k] \in Int /\ off[k] =< a
    BY <1>4, <2>1
  <2>4. \A k \in 1 .. n + 2 : k = n + 2 \/ k \in 1 .. n + 1
    BY <1>1
  <2> QED
    BY <1>1, <2>1, <2>2, <2>3, <2>4
<1> HIDE DEF new
<1>6. ASSUME NEW i \in 1 .. n + 2, NEW j \in 1 .. n + 2, i =< j PROVE new[i] =< new[j]
  <2>1. CASE j = n + 2
    <3>1. i = n + 2 \/ i \in 1 .. n + 1
      BY <1>1
    <3>2. i \in 1 .. n + 1 => new[i] =< a /\ new[i] \in Int
      BY <1>5
    <3>3. i = n + 2 => new[i] = a + d
      BY <1>5
    <3>4. new[j] = a + d
      BY <1>5, <2>1
    <3> QED
      BY <1>1, <3>1, <3>2, <3>3, <3>4
  <2>2. CASE j # n + 2
    <3>1. i \in 1 .. n + 1 /\ j \in 1 .. n + 1
      BY <1>1, <1>6, <2>2
    <3> QED
      BY <1>4, <1>5, <1>6, <3>1
  <2> QED
    BY <2>1, <2>2
<1>7. ASSUME NEW k \in 1 .. n + 1
      PROVE  /\ new[k + 1] = new[k] + Len(Encoded(t[k]))
             /\ \A i \in 1 .. Len(Encoded(t[k])) :
                  new[k] + i >= 1 => q[new[k] + i] = Encoded(t[k])[i]
  <2>1. CASE k = n + 1
    <3>1. t[k] = r /\ new[k] = a /\ k + 1 = n + 2 /\ new[k + 1] = a + d
      BY <1>1, <1>2, <1>4, <1>5, <2>1
    <3>2. ASSUME NEW i \in 1 .. d PROVE q[a + i] = e[i]
      <4>1. a + i \in 1 .. a + d /\ ~(a + i =< a) /\ (a + i) - a = i
        BY <1>1
      <4> QED
        BY <1>3, <4>1
    <3> QED
      BY <3>1, <3>2 DEF d, e
  <2>2. CASE k # n + 1
    <3>1. k \in 1 .. n /\ k \in 1 .. n + 1 /\ k + 1 \in 1 .. n + 1
      BY <1>1, <2>2
    <3> DEFINE E == Encoded(s[k])
               o == off[k]
               z == Len(E)
    <3>2. /\ t[k] = s[k] /\ new[k] = o /\ new[k + 1] = off[k + 1] /\ o \in Int /\ off[k + 1] = o + z
          /\ off[k + 1] =< a
      BY <1>2, <1>4, <1>5, <3>1
    <3>3. \A i \in 1 .. z : o + i >= 1 => p[o + i] = E[i]
      BY <1>4, <3>1
    <3>4. z \in Nat
      <4>1. s[k] \in Request
        BY <3>1 DEF n
      <4> QED
        BY <4>1, RequestBytes
    <3> HIDE DEF E, o, z
    <3>5. ASSUME NEW i \in 1 .. z, o + i >= 1 PROVE q[o + i] = E[i]
      <4>1. o + i \in 1 .. a + d /\ o + i =< a
        BY <1>1, <3>2, <3>4, <3>5
      <4> QED
        BY <1>3, <3>3, <3>5, <4>1
    <3> QED
      BY <3>2, <3>5 DEF E, o, z
  <2> QED
    BY <2>1, <2>2
<1>8. 1 \in 1 .. n + 1 /\ (n + 1) + 1 = n + 2
  BY <1>1
<1>9. Framed(q, t, new) /\ new[1] = off[1]
  <2>1. Len(t) = n + 1 /\ Len(t) + 1 = n + 2 /\ Len(q) = a + d
    BY <1>2, <1>3, <1>8 DEF t, q, n, a, d
  <2>2. new \in [1 .. Len(t) + 1 -> Int] /\ new[Len(t) + 1] = Len(q)
    BY <1>5, <2>1
  <2>3. \A i, j \in 1 .. Len(t) + 1 : i =< j => new[i] =< new[j]
    BY <1>6, <2>1
  <2>4. \A k \in 1 .. Len(t) : new[k + 1] = new[k] + Len(Encoded(t[k]))
    BY <1>7, <2>1
  <2>5. \A k \in 1 .. Len(t) : \A i \in 1 .. Len(Encoded(t[k])) :
          new[k] + i >= 1 => q[new[k] + i] = Encoded(t[k])[i]
    BY <1>7, <2>1
  <2> QED
    BY <1>5, <1>8, <2>2, <2>3, <2>4, <2>5 DEF Framed
<1> QED
  BY <1>9 DEF q, e, t

\* m bytes are read.
LEMMA FramedRead ==
  ASSUME NEW p \in Seq(Int), NEW s \in Seq(Request), NEW off, Framed(p, s, off),
         NEW m \in 0 .. Len(p)
  PROVE  \E new : /\ Framed(SubSeq(p, m + 1, Len(p)), s, new)
                  /\ \A k \in 1 .. Len(s) + 1 : new[k] = off[k] - m
<1> DEFINE q == SubSeq(p, m + 1, Len(p))
           n == Len(s)
           a == Len(p)
<1>1. n \in Nat /\ a \in Nat /\ m \in Nat /\ m =< a
  BY LenProperties
<1>2. Len(q) = a - m /\ \A i \in 1 .. a - m : q[i] = p[m + i]
  <2> HIDE DEF q, a
  <2>1. m + 1 \in 1 .. a + 1
    BY <1>1
  <2>2. /\ Len(SubSeq(p, m + 1, a)) = IF m + 1 =< a THEN a - (m + 1) + 1 ELSE 0
        /\ \A i \in 1 .. a - (m + 1) + 1 : SubSeq(p, m + 1, a)[i] = p[(m + 1) + i - 1]
    <3>1. m + 1 \in 1 .. Len(p) + 1 /\ Len(p) \in 0 .. Len(p)
      BY <1>1, <2>1 DEF a
    <3> QED
      BY <3>1, SubSeqProperties DEF a
  <2>3. a - (m + 1) + 1 = a - m /\ (~(m + 1 =< a) => a - m = 0)
    BY <1>1
  <2>4. \A i \in 1 .. a - m : (m + 1) + i - 1 = m + i
    BY <1>1
  <2>5. q = SubSeq(p, m + 1, a)
    BY DEF q, a
  <2>6. Len(q) = a - m
    BY <1>1, <2>2, <2>3, <2>5
  <2>7. \A i \in 1 .. a - m : q[i] = p[m + i]
    BY <2>2, <2>3, <2>4, <2>5
  <2> QED
    BY <2>6, <2>7
<1>3. /\ off \in [1 .. n + 1 -> Int] /\ off[n + 1] = a
      /\ \A i, j \in 1 .. n + 1 : i =< j => off[i] =< off[j]
      /\ \A k \in 1 .. n : off[k + 1] = off[k] + Len(Encoded(s[k]))
      /\ \A k \in 1 .. n : \A i \in 1 .. Len(Encoded(s[k])) :
           off[k] + i >= 1 => p[off[k] + i] = Encoded(s[k])[i]
  BY DEF Framed
<1> HIDE DEF q, a, n
<1> DEFINE new == [k \in 1 .. n + 1 |-> off[k] - m]
<1>4. /\ new \in [1 .. n + 1 -> Int]
      /\ \A k \in 1 .. n + 1 : new[k] = off[k] - m /\ off[k] \in Int /\ off[k] =< a
  <2>1. \A k \in 1 .. n + 1 : n + 1 \in 1 .. n + 1 /\ k =< n + 1
    BY <1>1
  <2>2. \A k \in 1 .. n + 1 : off[k] \in Int /\ off[k] =< a
    BY <1>3, <2>1
  <2> QED
    BY <1>1, <2>2
<1> HIDE DEF new
<1>5. new[n + 1] = a - m
  <2>1. n + 1 \in 1 .. n + 1
    BY <1>1
  <2> QED
    BY <1>3, <1>4, <2>1
<1>6. ASSUME NEW i \in 1 .. n + 1, NEW j \in 1 .. n + 1, i =< j PROVE new[i] =< new[j]
  BY <1>1, <1>3, <1>4, <1>6
<1>7. ASSUME NEW k \in 1 .. n
      PROVE  /\ new[k + 1] = new[k] + Len(Encoded(s[k]))
             /\ \A i \in 1 .. Len(Encoded(s[k])) :
                  new[k] + i >= 1 => q[new[k] + i] = Encoded(s[k])[i]
  <2> DEFINE E == Encoded(s[k])
             o == off[k]
             z == Len(E)
  <2>1. k \in 1 .. n + 1 /\ k + 1 \in 1 .. n + 1
    BY <1>1
  <2>2. z \in Nat
    <3>1. s[k] \in Request
      BY DEF n
    <3> QED
      BY <3>1, RequestBytes
  <2>3. /\ new[k] = o - m /\ new[k + 1] = off[k + 1] - m /\ off[k + 1] = o + z /\ o \in Int
        /\ off[k + 1] =< a
    BY <1>3, <1>4, <2>1
  <2>4. \A i \in 1 .. z : o + i >= 1 => p[o + i] = E[i]
    BY <1>3
  <2> HIDE DEF E, o, z
  <2>5. new[k + 1] = new[k] + z
    BY <1>1, <2>2, <2>3
  <2>6. ASSUME NEW i \in 1 .. z, new[k] + i >= 1 PROVE q[new[k] + i] = E[i]
    <3>1. new[k] + i \in 1 .. a - m /\ m + (new[k] + i) = o + i /\ o + i >= 1
      BY <1>1, <2>2, <2>3, <2>6
    <3> QED
      BY <1>2, <2>4, <3>1
  <2> QED
    BY <2>5, <2>6 DEF z, E
<1>8. Framed(q, s, new)
  BY <1>2, <1>4, <1>5, <1>6, <1>7 DEF Framed, n
<1> QED
  BY <1>4, <1>8 DEF q, a, n

\* The first request is done with.
LEMMA FramedNext ==
  ASSUME NEW p \in Seq(Int), NEW s \in Seq(Request), s # <<>>, NEW off, Framed(p, s, off)
  PROVE  \E new : Framed(p, Tail(s), new) /\ new[1] = off[2]
<1> DEFINE t == Tail(s)
           n == Len(t)
<1>1. n \in Nat /\ Len(s) = n + 1 /\ \A k \in 1 .. n : t[k] = s[k + 1]
  <2>1. t \in Seq(Request) /\ Len(t) = Len(s) - 1 /\ \A i \in 1 .. Len(t) : t[i] = s[i + 1]
    BY HeadTailProperties
  <2>2. Len(s) \in Nat /\ Len(t) \in Nat
    BY <2>1, LenProperties
  <2> HIDE DEF t
  <2> QED
    BY <2>1, <2>2
<1>2. /\ off \in [1 .. (n + 1) + 1 -> Int] /\ off[(n + 1) + 1] = Len(p)
      /\ \A i, j \in 1 .. (n + 1) + 1 : i =< j => off[i] =< off[j]
      /\ \A k \in 1 .. n + 1 : off[k + 1] = off[k] + Len(Encoded(s[k]))
      /\ \A k \in 1 .. n + 1 : \A i \in 1 .. Len(Encoded(s[k])) :
           off[k] + i >= 1 => p[off[k] + i] = Encoded(s[k])[i]
  BY <1>1 DEF Framed
<1> HIDE DEF t, n
<1> DEFINE new == [k \in 1 .. n + 1 |-> off[k + 1]]
<1>3. /\ new \in [1 .. n + 1 -> Int] /\ 1 \in 1 .. n + 1 /\ n + 1 \in 1 .. n + 1
      /\ \A k \in 1 .. n + 1 : new[k] = off[k + 1] /\ k + 1 \in 1 .. (n + 1) + 1
  BY <1>1, <1>2
<1> HIDE DEF new
<1>4. ASSUME NEW i \in 1 .. n + 1, NEW j \in 1 .. n + 1, i =< j PROVE new[i] =< new[j]
  <2>1. i + 1 =< j + 1
    BY <1>1, <1>4
  <2> QED
    BY <1>2, <1>3, <2>1
<1>5. ASSUME NEW k \in 1 .. n
      PROVE  /\ new[k + 1] = new[k] + Len(Encoded(t[k]))
             /\ \A i \in 1 .. Len(Encoded(t[k])) :
                  new[k] + i >= 1 => p[new[k] + i] = Encoded(t[k])[i]
  <2>1. k \in 1 .. n + 1 /\ k + 1 \in 1 .. n + 1
    BY <1>1
  <2>2. t[k] = s[k + 1] /\ new[k] = off[k + 1] /\ new[k + 1] = off[(k + 1) + 1]
    BY <1>1, <1>3, <2>1
  <2> QED
    BY <1>2, <2>1, <2>2
<1>6. Framed(p, t, new)
  BY <1>2, <1>3, <1>4, <1>5 DEF Framed, n
<1>7. new[1] = off[2]
  BY <1>3
<1> QED
  BY <1>6, <1>7 DEF t

-----------------------------------------------------------------------------
(* The invariant. *)

\* How far ctrl_cmd has come with the first request.
At(off) ==
  \/ pc = "idle" /\ off[1] = 0
  \/ /\ pc = "body" /\ sent # <<>> /\ off[1] = -2
     /\ type = Head(sent).type /\ len = Len(Head(sent).payload)
  \/ /\ pc = "handle" /\ sent # <<>> /\ off[2] = 0
     /\ type = Head(sent).type /\ payload = Head(sent).payload

PipeInv ==
  /\ ~aborted
  /\ pipe \in Seq(Int) /\ sent \in Seq(Request)
  /\ \E off : Framed(pipe, sent, off) /\ At(off)

\* No payload is longer than a signed char can say; run pipe_long is the case
\* where one is.
Short == Lengths \subseteq 0 .. CharMax

\* What is known of the first request and of the bytes behind it.
LEMMA FirstRequest ==
  ASSUME NEW p \in Seq(Int), NEW s \in Seq(Request), s # <<>>, NEW off, Framed(p, s, off)
  PROVE  /\ Head(s) \in Request /\ off[1] \in Int /\ 1 \in 1 .. Len(s) + 1
         /\ off[2] = off[1] + Len(Encoded(Head(s)))
         /\ off[2] =< Len(p) /\ Len(p) \in Nat
         /\ \A i \in 1 .. Len(Encoded(Head(s))) :
              off[1] + i >= 1 => p[off[1] + i] = Encoded(Head(s))[i]
<1>1. Len(s) \in Nat /\ Len(s) # 0 /\ Len(p) \in Nat
  BY EmptySeq, LenProperties
<1>2. Head(s) = s[1] /\ Head(s) \in Request
  BY HeadTailProperties
<1> DEFINE n == Len(s)
<1>3. /\ off \in [1 .. n + 1 -> Int] /\ off[n + 1] = Len(p)
      /\ \A i, j \in 1 .. n + 1 : i =< j => off[i] =< off[j]
      /\ \A k \in 1 .. n : off[k + 1] = off[k] + Len(Encoded(s[k]))
      /\ \A k \in 1 .. n : \A i \in 1 .. Len(Encoded(s[k])) :
           off[k] + i >= 1 => p[off[k] + i] = Encoded(s[k])[i]
  BY DEF Framed
<1>4. n \in Nat /\ n # 0
  BY <1>1
<1> HIDE DEF n
<1>5. 1 \in 1 .. n /\ 1 \in 1 .. n + 1 /\ 2 \in 1 .. n + 1 /\ n + 1 \in 1 .. n + 1 /\ 2 =< n + 1
      /\ 1 + 1 = 2
  BY <1>4
<1>6. off[1] \in Int /\ off[2] =< Len(p) /\ off[2] = off[1] + Len(Encoded(s[1]))
  BY <1>3, <1>5
<1>7. \A i \in 1 .. Len(Encoded(s[1])) : off[1] + i >= 1 => p[off[1] + i] = Encoded(s[1])[i]
  BY <1>3, <1>5
<1> QED
  BY <1>1, <1>2, <1>5, <1>6, <1>7 DEF n

LEMMA InitPipe == Init => PipeInv
<1> SUFFICES ASSUME Init PROVE PipeInv
  OBVIOUS
<1> DEFINE off == [k \in 1 .. 1 |-> 0]
<1>1. Len(<<>>) = 0 /\ <<>> \in Seq(Int) /\ <<>> \in Seq(Request)
  OBVIOUS
<1>2. off \in [1 .. 0 + 1 -> Int] /\ off[1] = 0 /\ 1 .. 0 = {} /\ \A i \in 1 .. 0 + 1 : i = 1
  OBVIOUS
<1> HIDE DEF off
<1>3. Framed(<<>>, <<>>, off)
  BY <1>1, <1>2 DEF Framed
<1> QED
  BY <1>1, <1>2, <1>3 DEF Init, PipeInv, At

LEMMA SendPipe ==
  ASSUME PipeInv, send_request
  PROVE  PipeInv'
<1>1. /\ ~aborted /\ pipe \in Seq(Int) /\ sent \in Seq(Request)
  BY DEF PipeInv
<1>2. PICK off : Framed(pipe, sent, off) /\ At(off)
  BY DEF PipeInv
<1>3. PICK r \in Request : /\ pipe' = pipe \o Encoded(r) /\ sent' = Append(sent, r)
                           /\ UNCHANGED <<pc, type, len, payload, aborted>>
  BY DEF send_request, Encoded
<1>4. PICK new : Framed(pipe', sent', new) /\ new[1] = off[1]
  BY <1>1, <1>2, <1>3, FramedSend
<1>5. pipe' \in Seq(Int) /\ sent' \in Seq(Request)
  <2>1. Encoded(r) \in Seq(Int)
    BY RequestBytes
  <2> QED
    BY <1>1, <1>3, <2>1, ConcatProperties, AppendProperties
<1>6. sent # <<>> => sent' # <<>> /\ Head(sent') = Head(sent) /\ new[2] = off[2]
  <2> SUFFICES ASSUME sent # <<>> PROVE sent' # <<>> /\ Head(sent') = Head(sent) /\ new[2] = off[2]
    OBVIOUS
  <2>1. Len(sent) \in Nat /\ Len(sent) # 0 /\ Len(sent') = Len(sent) + 1 /\ sent'[1] = sent[1]
    <3>1. Len(sent) \in Nat /\ Len(sent) # 0
      BY <1>1, EmptySeq, LenProperties
    <3>2. 1 \in 1 .. Len(sent)
      BY <3>1
    <3> QED
      BY <1>1, <1>3, <3>1, <3>2, AppendProperties
  <2>2. sent' # <<>>
    <3>1. Len(sent') # 0
      BY <2>1
    <3> QED
      BY <1>5, <3>1, EmptySeq
  <2>3. Head(sent') = Head(sent)
    BY <1>1, <1>5, <2>1, <2>2, HeadTailProperties
  <2>4. /\ off[2] = off[1] + Len(Encoded(Head(sent)))
        /\ new[2] = new[1] + Len(Encoded(Head(sent')))
    BY <1>1, <1>2, <1>4, <1>5, <2>2, FirstRequest
  <2> QED
    BY <1>4, <2>2, <2>3, <2>4
<1>7. At(new)'
  BY <1>2, <1>3, <1>4, <1>6 DEF At
<1> QED
  BY <1>1, <1>3, <1>4, <1>5, <1>7 DEF PipeInv

LEMMA HeaderPipe ==
  ASSUME Short, PipeInv, ReadHeader
  PROVE  PipeInv'
<1>1. /\ ~aborted /\ pipe \in Seq(Int) /\ sent \in Seq(Request) /\ pc = "idle" /\ pipe # <<>>
      /\ sent' = sent
  BY DEF PipeInv, ReadHeader, block_readpipe
<1>2. PICK off : Framed(pipe, sent, off) /\ off[1] = 0
  BY <1>1 DEF PipeInv, At
<1>3. sent # <<>>
  <2> SUFFICES ASSUME sent = <<>> PROVE FALSE
    OBVIOUS
  <2>1. Len(sent) = 0 /\ off[Len(sent) + 1] = Len(pipe)
    BY <1>2 DEF Framed
  <2>2. Len(pipe) = 0
    BY <1>2, <2>1
  <2> QED
    BY <1>1, <2>2, EmptySeq
<1> DEFINE r == Head(sent)
           e == Encoded(r)
           a == Len(pipe)
           z == Len(r.payload)
<1>4. /\ r \in Request /\ off[2] = 0 + Len(e) /\ off[2] =< a /\ a \in Nat
      /\ \A i \in 1 .. Len(e) : 0 + i >= 1 => pipe[0 + i] = e[i]
  <2>1. pipe \in Seq(Int) /\ sent \in Seq(Request) /\ Framed(pipe, sent, off)
    BY <1>1, <1>2
  <2>2. /\ r \in Request /\ off[2] = off[1] + Len(e) /\ off[2] =< a /\ a \in Nat
        /\ \A i \in 1 .. Len(e) : off[1] + i >= 1 => pipe[off[1] + i] = e[i]
    BY <1>3, <2>1, FirstRequest
  <2> HIDE DEF r, e, a
  <2> QED
    BY <1>2, <2>2
<1>5. Len(e) = 2 + z /\ e[1] = r.type /\ e[2] = z /\ z \in Nat /\ z \in Lengths
  BY <1>4, RequestBytes
<1> HIDE DEF r, e, a, z
<1>6. ~(a < 2) /\ 2 \in 0 .. a
  BY <1>4, <1>5
<1>7. pipe[1] = r.type /\ pipe[2] = z
  <2>1. 1 \in 1 .. Len(e) /\ 2 \in 1 .. Len(e) /\ 0 + 1 = 1 /\ 0 + 2 = 2
    BY <1>5
  <2> QED
    BY <1>4, <1>5, <2>1
<1>8. /\ pipe' = SubSeq(pipe, 2 + 1, Len(pipe)) /\ pc' = "body" /\ aborted' = FALSE
      /\ type' = pipe[1] /\ len' = Signed(pipe[2])
  BY <1>1, <1>6 DEF ReadHeader, block_readpipe, a
<1>9. len' = z
  <2>1. z \in 0 .. CharMax
    BY <1>5 DEF Short
  <2> QED
    BY <1>7, <1>8, <2>1, CharAssumption DEF Signed
<1>10. PICK new : Framed(pipe', sent', new) /\ \A k \in 1 .. Len(sent) + 1 : new[k] = off[k] - 2
  <2>1. 2 \in 0 .. Len(pipe)
    BY <1>6 DEF a
  <2> QED
    BY <1>1, <1>2, <1>8, <2>1, FramedRead
<1>11. new[1] = -2
  <2>1. 1 \in 1 .. Len(sent) + 1
    BY <1>1, <1>2, <1>3, FirstRequest
  <2> QED
    BY <1>2, <1>10, <2>1
<1>12. pipe' \in Seq(Int)
  <2>1. Len(pipe) = a /\ a \in Nat /\ a >= 2 /\ \A i \in 3 .. a : i \in 1 .. a
    BY <1>4, <1>6 DEF a
  <2>2. \A i \in 3 .. a : pipe[i] \in Int
    BY <1>1, <2>1
  <2>3. SubSeq(pipe, 3, a) \in Seq(Int)
    BY <2>1, <2>2, SubSeqProperties
  <2> QED
    BY <1>8, <2>1, <2>3
<1>13. At(new)'
  BY <1>1, <1>3, <1>7, <1>8, <1>9, <1>11 DEF At, r, z
<1> QED
  BY <1>1, <1>8, <1>10, <1>12, <1>13 DEF PipeInv

LEMMA PayloadPipe ==
  ASSUME PipeInv, ReadPayload
  PROVE  PipeInv'
<1>1. /\ ~aborted /\ pipe \in Seq(Int) /\ sent \in Seq(Request) /\ pc = "body" /\ sent' = sent
  BY DEF PipeInv, ReadPayload
<1>2. PICK off : /\ Framed(pipe, sent, off) /\ sent # <<>> /\ off[1] = -2
                 /\ type = Head(sent).type /\ len = Len(Head(sent).payload)
  BY <1>1 DEF PipeInv, At
<1> DEFINE r == Head(sent)
           e == Encoded(r)
           a == Len(pipe)
           y == r.payload
<1>3. /\ r \in Request /\ off[2] = -2 + Len(e) /\ off[2] =< a /\ a \in Nat
      /\ \A i \in 1 .. Len(e) : -2 + i >= 1 => pipe[-2 + i] = e[i]
      /\ 1 \in 1 .. Len(sent) + 1 /\ Len(sent) \in Nat /\ Len(sent) # 0
  <2>1. Len(sent) \in Nat /\ Len(sent) # 0
    BY <1>1, <1>2, EmptySeq, LenProperties
  <2>2. /\ r \in Request /\ off[2] = off[1] + Len(e) /\ off[2] =< a /\ a \in Nat
        /\ \A i \in 1 .. Len(e) : off[1] + i >= 1 => pipe[off[1] + i] = e[i]
        /\ 1 \in 1 .. Len(sent) + 1
    <3>1. pipe \in Seq(Int) /\ sent \in Seq(Request) /\ sent # <<>> /\ Framed(pipe, sent, off)
      BY <1>1, <1>2
    <3> QED
      BY <3>1, FirstRequest
  <2> HIDE DEF r, e, a
  <2> QED
    BY <1>2, <2>1, <2>2
<1>4. /\ Len(e) = 2 + len /\ len \in Nat /\ y \in Seq(Int) /\ len = Len(y)
      /\ \A j \in 1 .. len : e[2 + j] = y[j]
  BY <1>2, <1>3, RequestBytes
<1> HIDE DEF r, e, a, y
<1>5. off[2] = len /\ len =< a /\ len \in 0 .. a
  BY <1>3, <1>4
<1>6. CASE len = 0
  <2>1. /\ payload' = <<>> /\ pc' = "handle" /\ UNCHANGED <<pipe, type, len, aborted>>
    BY <1>4, <1>6 DEF ReadPayload
  <2>2. y = <<>>
    BY <1>4, <1>6, EmptySeq
  <2>3. At(off)'
    BY <1>1, <1>2, <1>5, <1>6, <2>1, <2>2 DEF At, y, r
  <2> QED
    BY <1>1, <1>2, <2>1, <2>3 DEF PipeInv
<1>7. CASE len # 0
  <2>1. len > 0 /\ ~(a < len)
    BY <1>3, <1>4, <1>5, <1>7
  <2>2. /\ pipe' = SubSeq(pipe, len + 1, Len(pipe)) /\ pc' = "handle" /\ aborted' = FALSE
        /\ payload' = SubSeq(pipe, 1, len) /\ type' = type /\ len' = len
    BY <1>1, <2>1 DEF ReadPayload, block_readpipe, a
  <2>3. PICK new : Framed(pipe', sent', new) /\ \A k \in 1 .. Len(sent) + 1 : new[k] = off[k] - len
    <3>1. len \in 0 .. Len(pipe)
      BY <1>5 DEF a
    <3>2. \E new : /\ Framed(SubSeq(pipe, len + 1, Len(pipe)), sent, new)
                   /\ \A k \in 1 .. Len(sent) + 1 : new[k] = off[k] - len
      <4> DEFINE m == len
      <4>1. pipe \in Seq(Int) /\ sent \in Seq(Request) /\ Framed(pipe, sent, off)
            /\ m \in 0 .. Len(pipe)
        BY <1>1, <1>2, <3>1
      <4> HIDE DEF m
      <4>2. \E new : /\ Framed(SubSeq(pipe, m + 1, Len(pipe)), sent, new)
                     /\ \A k \in 1 .. Len(sent) + 1 : new[k] = off[k] - m
        BY <4>1, FramedRead
      <4> QED
        BY <4>2 DEF m
    <3>3. PICK new : /\ Framed(SubSeq(pipe, len + 1, Len(pipe)), sent, new)
                     /\ \A k \in 1 .. Len(sent) + 1 : new[k] = off[k] - len
      BY <3>2
    <3>4. Framed(pipe', sent', new)
      BY <1>1, <2>2, <3>3
    <3> QED
      BY <3>3, <3>4
  <2>4. new[2] = 0
    <3>1. 2 \in 1 .. Len(sent) + 1
      BY <1>3
    <3>2. new[2] = off[2] - len
      BY <2>3, <3>1
    <3> QED
      BY <1>4, <1>5, <3>2
  <2>5. Len(pipe) = a /\ \A i \in 1 .. a : pipe[i] \in Int
    BY <1>1 DEF a
  <2>6. pipe' \in Seq(Int)
    <3>1. \A i \in len + 1 .. a : i \in 1 .. a
      BY <1>3, <1>4
    <3>2. SubSeq(pipe, len + 1, a) \in Seq(Int)
      BY <1>3, <1>4, <2>5, <3>1, SubSeqProperties
    <3> QED
      BY <2>2, <2>5, <3>2
  <2>7. payload' = y
    <3> DEFINE q == SubSeq(pipe, 1, len)
    <3>1. \A i \in 1 .. len : i \in 1 .. a
      BY <1>3, <1>4, <1>5
    <3>2. /\ q \in Seq(Int) /\ Len(q) = len
          /\ \A i \in 1 .. len - 1 + 1 : q[i] = pipe[1 + i - 1]
      BY <1>4, <2>1, <2>5, <3>1, SubSeqProperties
    <3> HIDE DEF q
    <3>3. ASSUME NEW i \in 1 .. len PROVE q[i] = y[i]
      <4>1. i \in 1 .. len - 1 + 1 /\ 1 + i - 1 = i
        BY <1>4
      <4>2. 2 + i \in 1 .. Len(e) /\ -2 + (2 + i) >= 1 /\ -2 + (2 + i) = i
        BY <1>4
      <4>3. pipe[i] = e[2 + i]
        BY <1>3, <4>2
      <4> QED
        BY <1>4, <3>2, <4>1, <4>3
    <3>4. q = y
      BY <1>4, <3>2, <3>3, SeqEqual
    <3> QED
      BY <2>2, <3>4 DEF q
  <2>8. At(new)'
    BY <1>1, <1>2, <2>2, <2>4, <2>7 DEF At, y, r
  <2> QED
    BY <1>1, <2>2, <2>3, <2>6, <2>8 DEF PipeInv
<1> QED
  BY <1>6, <1>7

LEMMA HandlePipe ==
  ASSUME PipeInv, Handle
  PROVE  PipeInv'
<1>1. /\ ~aborted /\ pipe \in Seq(Int) /\ sent \in Seq(Request) /\ pc = "handle"
      /\ aborted' = aborted /\ pipe' = pipe /\ pc' = "idle"
  BY DEF PipeInv, Handle
<1>2. PICK off : Framed(pipe, sent, off) /\ sent # <<>> /\ off[2] = 0
  BY <1>1 DEF PipeInv, At
<1>3. sent' = Tail(sent) /\ Tail(sent) \in Seq(Request)
  BY <1>1, <1>2, HeadTailProperties DEF Handle
<1>4. PICK new : Framed(pipe, Tail(sent), new) /\ new[1] = off[2]
  BY <1>1, <1>2, FramedNext
<1>5. At(new)'
  BY <1>1, <1>2, <1>4 DEF At
<1> QED
  BY <1>1, <1>3, <1>4, <1>5 DEF PipeInv

LEMMA NextPipe == Short /\ PipeInv /\ [Next]_vars => PipeInv'
<1> SUFFICES ASSUME Short, PipeInv, [Next]_vars PROVE PipeInv'
  OBVIOUS
<1>1. CASE UNCHANGED vars
  BY <1>1 DEF vars, PipeInv, At
<1> QED
  BY <1>1, SendPipe, HeaderPipe, PayloadPipe, HandlePipe DEF Next

\* As long as no payload is longer than a signed char can say, ctrl_cmd takes
\* requests apart just as send_request put them together, whatever is written
\* between its two reads: SocketServer may model the pipe as a queue of requests.
THEOREM Framing ==
  ASSUME Short
  PROVE  Spec => []FramingKept
<1>1. PipeInv => FramingKept
  <2> SUFFICES ASSUME PipeInv, pc = "handle"
               PROVE  sent # <<>> /\ Head(sent) = [type |-> type, payload |-> payload]
    BY DEF FramingKept
  <2>1. /\ sent # <<>> /\ sent \in Seq(Request)
        /\ type = Head(sent).type /\ payload = Head(sent).payload
    BY DEF PipeInv, At
  <2>2. Head(sent) \in Request
    BY <2>1, HeadTailProperties
  <2> QED
    BY <2>1, <2>2, RequestBytes
<1>2. PipeInv /\ [Next]_vars => PipeInv'
  BY NextPipe
<1> QED
  BY <1>1, <1>2, InitPipe, PTL DEF Spec

\* Then every read of the control pipe returns what it asked for.  (With the
\* lengths open_request lets through, the assertion fails: see the run
\* pipe_long.)
THEOREM ReadsComplete ==
  ASSUME Short
  PROVE  Spec => []PipeAssertHolds
<1>1. PipeInv => PipeAssertHolds
  BY DEF PipeInv, PipeAssertHolds
<1>2. PipeInv /\ [Next]_vars => PipeInv'
  BY NextPipe
<1> QED
  BY <1>1, <1>2, InitPipe, PTL DEF Spec

=============================================================================
