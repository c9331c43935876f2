--------------------------- MODULE NetServerProofs ---------------------------
(* The two threads of net/sp_server.c, with any number of slots, ids and     *)
(* messages: the ring is a queue, the global list is a list, no assertion    *)
(* fails, and what is read from a connection is printed once and in order.   *)
EXTENDS NetServer, SequenceTheorems, FiniteSetTheorems, WellFoundedInduction, TLAPS

-----------------------------------------------------------------------------
(* The ring. *)

\* Reduction by the size of the ring, for indices that pass its end once.
LEMMA Remainder ==
  ASSUME NEW c \in Nat \ {0}, NEW q \in Int, NEW r \in 0 .. c - 1
  PROVE  (c * q + r) % c = r
  BY SMT
LEMMA Wrap ==
  ASSUME NEW c \in Nat \ {0}, NEW h \in 0 .. c - 1, NEW i \in 0 .. c - 1
  PROVE  /\ (h + i) % c \in 0 .. c - 1
         /\ h + i < c => (h + i) % c = h + i
         /\ h + i >= c => (h + i) % c = h + i - c
<1>1. CASE h + i < c
  BY <1>1
<1>2. CASE h + i >= c
  <2>1. h + i - c \in 0 .. c - 1 /\ c * 1 + (h + i - c) = h + i
    BY <1>2
  <2>2. (c * 1 + (h + i - c)) % c = h + i - c
    BY <2>1, Remainder
  <2> QED
    BY <1>2, <2>1, <2>2
<1> QED
  BY <1>1, <1>2

\* The fields of a ring.
LEMMA RingFields ==
  ASSUME NEW Msg, NEW q \in Ring(Msg)
  PROVE  /\ q.cap \in Nat \ {0} /\ q.head \in 0 .. q.cap - 1 /\ q.tail \in 0 .. q.cap - 1
         /\ q = [head |-> q.head, tail |-> q.tail, cap |-> q.cap, queue |-> q.queue]
         /\ q.queue \in [0 .. q.cap - 1 -> Msg \cup {Junk}]
         /\ sp_mq_length(q) \in 0 .. q.cap - 1
         /\ After(q, q.head) \in 0 .. q.cap - 1 /\ After(q, q.tail) \in 0 .. q.cap - 1
<1>1. PICK c \in Nat \ {0} :
        q \in [head : 0 .. c - 1, tail : 0 .. c - 1, cap : {c},
               queue : [0 .. c - 1 -> Msg \cup {Junk}]]
  BY DEF Ring
<1>2. /\ q.cap = c /\ q.head \in 0 .. c - 1 /\ q.tail \in 0 .. c - 1
      /\ q = [head |-> q.head, tail |-> q.tail, cap |-> q.cap, queue |-> q.queue]
      /\ q.queue \in [0 .. c - 1 -> Msg \cup {Junk}]
  BY <1>1
<1> QED
  BY <1>1, <1>2 DEF sp_mq_length, After

\* A record with such fields is a ring.
LEMMA RingOf ==
  ASSUME NEW Msg, NEW c \in Nat \ {0}, NEW h \in 0 .. c - 1, NEW t \in 0 .. c - 1,
         NEW cells \in [0 .. c - 1 -> Msg \cup {Junk}]
  PROVE  [head |-> h, tail |-> t, cap |-> c, queue |-> cells] \in Ring(Msg)
  BY DEF Ring

\* A new queue is empty.
LEMMA NewQueue ==
  ASSUME NEW Msg
  PROVE  create_message_queue \in Ring(Msg) /\ Contents(create_message_queue) = <<>>
<1>1. create_message_queue \in Ring(Msg)
  BY SizeAssumption, RingOf DEF create_message_queue
<1>2. sp_mq_length(create_message_queue) = 0
  BY DEF create_message_queue, sp_mq_length
<1> QED
  BY <1>1, <1>2 DEF Contents

\* Two fields of a record at once.
LEMMA TwoFields ==
  ASSUME NEW h, NEW t, NEW c, NEW u, NEW v, NEW n
  PROVE  [[head |-> h, tail |-> t, cap |-> c, queue |-> u] EXCEPT !.queue = v, !.tail = n]
           = [head |-> h, tail |-> n, cap |-> c, queue |-> v]
<1> DEFINE r0 == [head |-> h, tail |-> t, cap |-> c, queue |-> u]
           r == [head |-> h, tail |-> t, cap |-> c, queue |-> v]
<1>1. [r0 EXCEPT !.queue = v] = r
  OBVIOUS
<1>2. [r0 EXCEPT !.queue = v, !.tail = n] = [[r0 EXCEPT !.queue = v] EXCEPT !.tail = n]
  OBVIOUS
<1>3. [r EXCEPT !.tail = n] = [head |-> h, tail |-> n, cap |-> c, queue |-> v]
  OBVIOUS
<1> HIDE DEF r
<1> QED
  BY <1>1, <1>2, <1>3

\* The cell of the i-th message, and that Contents is what the cells hold.
Cell(q, i) == IF q.head + i - 1 < q.cap THEN q.head + i - 1 ELSE q.head + i - 1 - q.cap
LEMMA ContentsCells ==
  ASSUME NEW Msg, NEW q \in Ring(Msg)
  PROVE  /\ Contents(q) \in Seq(Msg \cup {Junk}) /\ Len(Contents(q)) = sp_mq_length(q)
         /\ \A i \in 1 .. sp_mq_length(q) :
              Cell(q, i) \in 0 .. q.cap - 1 /\ Contents(q)[i] = q.queue[Cell(q, i)]
<1>1. /\ q.cap \in Nat \ {0} /\ q.head \in 0 .. q.cap - 1
      /\ q.queue \in [0 .. q.cap - 1 -> Msg \cup {Junk}]
      /\ sp_mq_length(q) \in 0 .. q.cap - 1
  BY RingFields
<1>2. \A i \in 1 .. sp_mq_length(q) : Cell(q, i) \in 0 .. q.cap - 1
  BY <1>1 DEF Cell
<1>3. Contents(q) = [i \in 1 .. sp_mq_length(q) |-> q.queue[Cell(q, i)]]
  BY DEF Contents, Cell
<1>4. Contents(q) \in [1 .. sp_mq_length(q) -> Msg \cup {Junk}]
  BY <1>1, <1>2, <1>3
<1>5. Contents(q) \in Seq(Msg \cup {Junk})
  BY <1>1, <1>4, SeqDef
<1>6. Len(Contents(q)) = sp_mq_length(q)
  BY <1>1, <1>4, <1>5, LenProperties
<1> QED
  BY <1>2, <1>3, <1>5, <1>6

\* A push puts the message at the end, whether the ring wraps, grows or both.
LEMMA PushAppends ==
  ASSUME NEW Msg, NEW q \in Ring(Msg), NEW m \in Msg
  PROVE  /\ sp_mq_push(q, m) \in Ring(Msg)
         /\ Contents(sp_mq_push(q, m)) = Append(Contents(q), m)
         /\ sp_mq_length(sp_mq_push(q, m)) = sp_mq_length(q) + 1
<1> DEFINE c == q.cap
           h == q.head
           t == q.tail
           u == q.queue
           cells == [u EXCEPT ![t] = m]
           l == sp_mq_length(q)
           w == Stored(q, m)
           p == sp_mq_push(q, m)
<1>1. /\ c \in Nat \ {0} /\ h \in 0 .. c - 1 /\ t \in 0 .. c - 1
      /\ u \in [0 .. c - 1 -> Msg \cup {Junk}]
      /\ l \in 0 .. c - 1 /\ After(q, t) \in 0 .. c - 1
  BY RingFields
<1>2. /\ w = [head |-> h, tail |-> After(q, t), cap |-> c, queue |-> cells]
      /\ w.head = h /\ w.tail = After(q, t) /\ w.cap = c /\ w.queue = cells
  <2>1. q = [head |-> h, tail |-> t, cap |-> c, queue |-> u]
    BY RingFields
  <2>2. w = [q EXCEPT !.queue = cells, !.tail = After(q, t)]
    BY DEF Stored
  <2> HIDE DEF h, t, c, u, cells, w
  <2>3. w = [head |-> h, tail |-> After(q, t), cap |-> c, queue |-> cells]
    BY <2>1, <2>2, TwoFields
  <2> QED
    BY <2>3
<1>4. /\ l = (IF t < h THEN t - h + c ELSE t - h)
      /\ After(q, t) = (IF t + 1 >= c THEN 0 ELSE t + 1)
  BY DEF sp_mq_length, After
<1>10. \A i : Cell(q, i) = (IF h + i - 1 < c THEN h + i - 1 ELSE h + i - 1 - c)
  BY DEF Cell
<1>7. \A i \in 1 .. l : Contents(q)[i] = u[Cell(q, i)]
  BY ContentsCells
<1>8. /\ Contents(q) \in Seq(Msg \cup {Junk}) /\ Len(Contents(q)) = l
      /\ Append(Contents(q), m) \in Seq(Msg \cup {Junk})
      /\ Len(Append(Contents(q), m)) = l + 1
      /\ \A i \in 1 .. l : Append(Contents(q), m)[i] = Contents(q)[i]
      /\ Append(Contents(q), m)[l + 1] = m
  <2>1. /\ Contents(q) \in Seq(Msg \cup {Junk}) /\ Len(Contents(q)) = l
        /\ m \in Msg \cup {Junk}
    BY ContentsCells
  <2> HIDE DEF l
  <2> QED
    BY <2>1, AppendProperties
<1> HIDE DEF c, h, t, l, u, w, p
<1>3. cells \in [0 .. c - 1 -> Msg \cup {Junk}]
  BY <1>1
<1>5. \A i \in 1 .. l + 1 : Cell(q, i) \in 0 .. c - 1 /\ (i = l + 1 <=> Cell(q, i) = t)
  BY <1>1, <1>4, <1>10
<1>6. \A i \in 1 .. l + 1 :
        cells[Cell(q, i)] = (IF i = l + 1 THEN m ELSE u[Cell(q, i)])
  BY <1>1, <1>5
<1>9. \A i \in 1 .. l + 1 : Append(Contents(q), m)[i] = cells[Cell(q, i)]
  <2> SUFFICES ASSUME NEW i \in 1 .. l + 1
               PROVE  Append(Contents(q), m)[i] = cells[Cell(q, i)]
    OBVIOUS
  <2>1. CASE i = l + 1
    BY <1>6, <1>8, <2>1
  <2>2. CASE i # l + 1
    <3>1. i \in 1 .. l
      BY <1>1, <2>2
    <3> QED
      BY <1>6, <1>7, <1>8, <2>2, <3>1
  <2> QED
    BY <2>1, <2>2
<1> HIDE DEF cells
<1> SUFFICES /\ p \in Ring(Msg) /\ sp_mq_length(p) = l + 1
                /\ \A i \in 1 .. l + 1 : p.queue[Cell(p, i)] = cells[Cell(q, i)]
  <2> SUFFICES ASSUME p \in Ring(Msg), sp_mq_length(p) = l + 1,
                      \A i \in 1 .. l + 1 : p.queue[Cell(p, i)] = cells[Cell(q, i)]
               PROVE  Contents(p) = Append(Contents(q), m)
    BY DEF p, l
  <2>1. /\ Contents(p) \in Seq(Msg \cup {Junk}) /\ Len(Contents(p)) = l + 1
        /\ \A i \in 1 .. l + 1 : Contents(p)[i] = p.queue[Cell(p, i)]
    BY ContentsCells
  <2>2. \A i \in 1 .. Len(Contents(p)) : Contents(p)[i] = Append(Contents(q), m)[i]
    BY <1>9, <2>1
  <2> QED
    BY <1>8, <2>1, <2>2, SeqEqual
<1>11. CASE After(q, t) # h
  <2>1. p = w
    BY <1>2, <1>11 DEF sp_mq_push, w, h, p
  <2>2. w \in Ring(Msg)
    BY <1>1, <1>2, <1>3, RingOf
  <2>3. sp_mq_length(w) = l + 1
    BY <1>1, <1>2, <1>4, <1>11 DEF sp_mq_length
  <2>4. \A i \in 1 .. l + 1 : Cell(w, i) = Cell(q, i)
    BY <1>2, <1>10 DEF Cell
  <2> QED
    BY <1>2, <2>1, <2>2, <2>3, <2>4
<1>12. CASE After(q, t) = h
  <2> DEFINE grown == [i \in 0 .. 2 * c - 1 |-> IF i < c THEN cells[(h + i) % c] ELSE Junk]
  <2>1. /\ p = [head |-> 0, tail |-> c, cap |-> 2 * c, queue |-> grown]
        /\ p.head = 0 /\ p.tail = c /\ p.cap = 2 * c /\ p.queue = grown
    BY <1>2, <1>12 DEF sp_mq_push, expand_queue, Copied, w, h, p
  <2>2. ASSUME NEW i \in 0 .. c - 1
        PROVE  /\ (h + i) % c = (IF h + i < c THEN h + i ELSE h + i - c)
               /\ (h + i) % c \in 0 .. c - 1
    <3>1. /\ (h + i) % c \in 0 .. c - 1
          /\ h + i < c => (h + i) % c = h + i
          /\ h + i >= c => (h + i) % c = h + i - c
      BY <1>1, Wrap
    <3>2. h + i >= c <=> ~(h + i < c)
      BY <1>1
    <3> QED
      BY <3>1, <3>2
  <2>3. 2 * c \in Nat \ {0} /\ 0 \in 0 .. 2 * c - 1 /\ c \in 0 .. 2 * c - 1
    BY <1>1
  <2>4. grown \in [0 .. 2 * c - 1 -> Msg \cup {Junk}]
    <3> SUFFICES ASSUME NEW i \in 0 .. 2 * c - 1, i < c PROVE cells[(h + i) % c] \in Msg \cup {Junk}
      OBVIOUS
    <3>1. (h + i) % c \in 0 .. c - 1
      BY <1>1, <2>2
    <3> QED
      BY <1>3, <3>1
  <2>5. p \in Ring(Msg)
    <3> HIDE DEF grown
    <3> QED
      BY <2>1, <2>3, <2>4, RingOf
  <2>6. l + 1 = c
    BY <1>1, <1>4, <1>12
  <2>7. sp_mq_length(p) = l + 1
    BY <1>1, <2>1, <2>6 DEF sp_mq_length
  <2>8. ASSUME NEW i \in 1 .. l + 1 PROVE p.queue[Cell(p, i)] = cells[Cell(q, i)]
    <3>1. i - 1 \in 0 .. c - 1 /\ i - 1 \in 0 .. 2 * c - 1 /\ i - 1 < c /\ h + (i - 1) = h + i - 1
      BY <1>1, <2>6
    <3>2. Cell(p, i) = i - 1
      BY <1>1, <2>1, <3>1 DEF Cell
    <3>3. grown[i - 1] = cells[(h + (i - 1)) % c]
      BY <3>1
    <3>4. (h + (i - 1)) % c = Cell(q, i)
      BY <1>10, <2>2, <3>1
    <3> QED
      BY <2>1, <3>2, <3>3, <3>4
  <2> QED
    BY <2>5, <2>7, <2>8
<1> QED
  BY <1>11, <1>12

\* A pop of a queue that is not empty hands out its head and leaves the tail.
LEMMA PopTakes ==
  ASSUME NEW Msg, NEW q \in Ring(Msg), sp_mq_length(q) > 0
  PROVE  /\ sp_mq_pop(q) \in Ring(Msg) /\ Contents(q) # <<>>
         /\ First(q) = Head(Contents(q)) /\ Contents(sp_mq_pop(q)) = Tail(Contents(q))
<1> DEFINE c == q.cap
           h == q.head
           t == q.tail
           l == sp_mq_length(q)
           p == sp_mq_pop(q)
<1>1. /\ c \in Nat \ {0} /\ h \in 0 .. c - 1 /\ t \in 0 .. c - 1
      /\ q.queue \in [0 .. c - 1 -> Msg \cup {Junk}]
      /\ l \in 0 .. c - 1 /\ After(q, h) \in 0 .. c - 1 /\ l > 0
  BY RingFields
<1>2. /\ p = [head |-> After(q, h), tail |-> t, cap |-> c, queue |-> q.queue]
      /\ p.head = After(q, h) /\ p.tail = t /\ p.cap = c /\ p.queue = q.queue
  <2>1. q = [head |-> q.head, tail |-> q.tail, cap |-> q.cap, queue |-> q.queue]
    BY RingFields
  <2> QED
    BY <2>1 DEF sp_mq_pop
<1>3. /\ l = (IF t < h THEN t - h + c ELSE t - h)
      /\ After(q, h) = (IF h + 1 >= c THEN 0 ELSE h + 1)
  BY DEF sp_mq_length, After
<1>4. /\ Contents(q) \in Seq(Msg \cup {Junk}) /\ Len(Contents(q)) = l
      /\ \A i \in 1 .. l : Contents(q)[i] = q.queue[Cell(q, i)]
  BY ContentsCells
<1>5. /\ Contents(q) # <<>> /\ Head(Contents(q)) = Contents(q)[1]
      /\ Tail(Contents(q)) \in Seq(Msg \cup {Junk}) /\ Len(Tail(Contents(q))) = l - 1
      /\ \A i \in 1 .. l - 1 : Tail(Contents(q))[i] = Contents(q)[i + 1]
  BY <1>1, <1>4, EmptySeq, HeadTailProperties
<1>6. Cell(q, 1) = h
  BY <1>1 DEF Cell
<1>15. \A i : Cell(q, i) = (IF h + i - 1 < c THEN h + i - 1 ELSE h + i - 1 - c)
  BY DEF Cell
<1> HIDE DEF c, h, t, l, p
<1>7. \A i \in 1 .. l - 1 :
        /\ i + 1 \in 1 .. l
        /\ (IF After(q, h) + i - 1 < c THEN After(q, h) + i - 1 ELSE After(q, h) + i - 1 - c)
             = Cell(q, i + 1)
  <2> SUFFICES ASSUME NEW i \in 1 .. l - 1
               PROVE  /\ i + 1 \in 1 .. l
                      /\ (IF After(q, h) + i - 1 < c THEN After(q, h) + i - 1
                          ELSE After(q, h) + i - 1 - c) = Cell(q, i + 1)
    OBVIOUS
  <2>1. Cell(q, i + 1) = (IF h + (i + 1) - 1 < c THEN h + (i + 1) - 1 ELSE h + (i + 1) - 1 - c)
    BY <1>15
  <2>2. CASE h + 1 < c
    BY <1>1, <1>3, <2>1, <2>2
  <2>3. CASE h + 1 = c
    BY <1>1, <1>3, <2>1, <2>3
  <2> QED
    BY <1>1, <2>2, <2>3
<1>8. p \in Ring(Msg)
  BY <1>1, <1>2, RingOf
<1>9. sp_mq_length(p) = l - 1
  BY <1>1, <1>2, <1>3 DEF sp_mq_length
<1>10. /\ Contents(p) \in Seq(Msg \cup {Junk}) /\ Len(Contents(p)) = l - 1
       /\ \A i \in 1 .. l - 1 : Contents(p)[i] = p.queue[Cell(p, i)]
  BY <1>8, <1>9, ContentsCells
<1>11. \A i \in 1 .. l - 1 : Cell(p, i) = Cell(q, i + 1)
  BY <1>2, <1>7 DEF Cell
<1>12. \A i \in 1 .. Len(Contents(p)) : Contents(p)[i] = Tail(Contents(q))[i]
  <2> SUFFICES ASSUME NEW i \in 1 .. l - 1 PROVE Contents(p)[i] = Tail(Contents(q))[i]
    BY <1>10
  <2>1. Contents(p)[i] = q.queue[Cell(q, i + 1)]
    BY <1>2, <1>10, <1>11
  <2> QED
    BY <1>4, <1>5, <1>7, <2>1
<1>13. Contents(p) = Tail(Contents(q))
  BY <1>5, <1>10, <1>12, SeqEqual
<1>14. First(q) = Contents(q)[1]
  BY <1>1, <1>4, <1>6 DEF First, h
<1> QED
  BY <1>5, <1>8, <1>13, <1>14 DEF p

-----------------------------------------------------------------------------
(* The invariant. *)

SlotTypes ==
  /\ sid \in [Slots -> {-1, 1} \cup Conns] /\ sfd \in [Slots -> Fds \cup {0}]
  /\ squeue \in [Slots -> Queues]
  /\ alloc_id \in 1 .. MaxId + MaxSockets
  /\ reg \in [Fds -> Slots \cup {-1}] /\ open \subseteq Fds /\ leaked \subseteq Fds
QueueTypes ==
  /\ mq \in [Conns -> Ring(Messages)] /\ \A c \in Conns : Contents(mq[c]) \in Seq(Messages)
  /\ reads \in [Conns -> Nat] /\ shown \in [Conns -> Conns \X Nat]
ListTypes == /\ in_global \in [Conns -> {0, 1}] /\ next \in [Conns -> Queues]
             /\ ghead \in Queues /\ gtail \in Queues /\ cur \in Queues
LoopTypes == /\ spc \in {"event", "check", "link", "write", "ended"}
             /\ evs \in Seq([slot : Slots, in : BOOLEAN])
             /\ tpc \in {"length", "pop", "clear", "len", "take"}
             /\ aborted \in {"no", "sigpipe"}

\* Slots, descriptors and epoll set agree; slot 1 is the listening socket's and
\* the others are of connections with their queues.
Table ==
  /\ \A k \in Slots : sid[k] = -1 <=> sfd[k] = 0
  /\ \A k, l \in Slots : sfd[k] = sfd[l] /\ sfd[k] # 0 => k = l
  /\ open = leaked \cup {sfd[k] : k \in {l \in Slots : sid[l] # -1}}
  /\ \A k \in Slots : sfd[k] \notin leaked
  /\ \A f \in Fds : reg[f] # -1 => sfd[reg[f]] = f
  /\ sid[1] = 1 /\ sfd[1] = listen_sock
  /\ \A k \in Slots \ {1} : sid[k] # -1 => sid[k] \in Conns /\ squeue[k] = sid[k]

\* An event not yet handled is of a slot in use, and no two are of the same.
Pending ==
  /\ \A i \in 1 .. Len(evs) : sid[evs[i].slot] # -1
  /\ \A i, j \in 1 .. Len(evs) : evs[i].slot = evs[j].slot => i = j
  /\ spc \in {"check", "link", "write"} => evs # <<>> /\ s # 1

\* L is the global list; its queues, the one about to be linked and the one in
\* the message thread's hands are those with a flag, each in one place.
Chain(L) ==
  /\ \A i, j \in 1 .. Len(L) : L[i] = L[j] => i = j
  /\ L = <<>> => ghead = NULL /\ gtail = NULL
  /\ L # <<>> => ghead = L[1] /\ gtail = L[Len(L)]
  /\ \A i \in 1 .. Len(L) : next[L[i]] = IF i = Len(L) THEN NULL ELSE L[i + 1]
On(c, L) == \E i \in 1 .. Len(L) : L[i] = c
Linking(c)  == spc = "link" /\ squeue[s] = c
Clearing(c) == tpc = "clear" /\ cur = c
Flags(L) ==
  \A c \in Conns :
    /\ in_global[c] = 1 <=> On(c, L) \/ Linking(c) \/ Clearing(c)
    /\ On(c, L) => ~Linking(c) /\ ~Clearing(c)
    /\ ~(Linking(c) /\ Clearing(c))
List == \E L \in Seq(Conns) : Chain(L) /\ Flags(L)

\* What the message thread has seen stays true while the other thread runs.
Holding ==
  /\ tpc = "pop" => ghead # NULL
  /\ tpc \in {"clear", "len", "take"} => cur \in Conns
  /\ tpc = "take" => sp_mq_length(mq[cur]) > 0

Types == SlotTypes /\ QueueTypes /\ ListTypes /\ LoopTypes
NInv  == Types /\ Table /\ Pending /\ List /\ Holding

\* Facts about the constants.
LEMMA Constants ==
  /\ Slots \subseteq Nat /\ 1 \in Slots /\ -1 \notin Slots
  /\ Conns \subseteq Nat /\ NULL \notin Conns /\ 1 \notin Conns /\ -1 \notin Conns
  /\ Fds \subseteq Nat /\ 0 \notin Fds /\ listen_sock \in Fds
  /\ \A id \in Nat : Hash(id) \in Slots
<1>1. MaxSockets \in Nat \ {0} /\ 1 \in 0 .. MaxSockets - 1
  BY SlotsAssumption
<1>2. \A id \in Nat : id % MaxSockets \in 0 .. MaxSockets - 1
  BY <1>1
<1> QED
  BY <1>1, <1>2, BoundsAssumption DEF Slots, Conns, NULL, Fds, listen_sock, Hash

\* The invariant holds at the start.
LEMMA InitNInv == Init => NInv
<1> SUFFICES ASSUME Init PROVE NInv
  OBVIOUS
<1> USE DEF Init
<1>1. SlotTypes
  BY Constants, BoundsAssumption, SlotsAssumption DEF SlotTypes, Queues
<1>2. QueueTypes
  <2>1. create_message_queue \in Ring(Messages) /\ Contents(create_message_queue) = <<>>
    BY NewQueue
  <2> QED
    BY <2>1 DEF QueueTypes
<1>3. ListTypes /\ LoopTypes
  BY DEF ListTypes, LoopTypes, Queues
<1>4. Table
  BY Constants DEF Table, listen_sock
<1>5. Pending /\ Holding
  <2>1. Len(evs) = 0
    OBVIOUS
  <2> QED
    BY <2>1 DEF Pending, Holding
<1>6. List
  <2>1. <<>> \in Seq(Conns) /\ Len(<<>>) = 0
    OBVIOUS
  <2>2. Chain(<<>>) /\ Flags(<<>>)
    BY <2>1 DEF Chain, Flags, On, Linking, Clearing
  <2> QED
    BY <2>1, <2>2 DEF List
<1> QED
  BY <1>1, <1>2, <1>3, <1>4, <1>5, <1>6 DEF NInv, Types

-----------------------------------------------------------------------------
(* What a step does to each part. *)

\* The slot of the event being handled, when it is not the listening socket's.
LEMMA Serving ==
  ASSUME NInv, evs # <<>>
  PROVE  /\ Len(evs) \in Nat /\ 1 \in 1 .. Len(evs) /\ Head(evs) = evs[1]
         /\ s \in Slots /\ Head(evs).in \in BOOLEAN /\ sid[s] # -1 /\ sfd[s] # 0
         /\ s # 1 => sid[s] \in Conns /\ squeue[s] = sid[s] /\ sfd[s] \in Fds /\ Asserted
         /\ s # 1 <=> sfd[s] # listen_sock
<1>1. evs \in Seq([slot : Slots, in : BOOLEAN])
  BY DEF NInv, Types, LoopTypes
<1>2. Len(evs) \in Nat /\ 1 \in 1 .. Len(evs) /\ Head(evs) = evs[1] /\ evs[1] \in [slot : Slots, in : BOOLEAN]
  <2>1. Len(evs) \in Nat \ {0} /\ 1 \in 1 .. Len(evs)
    BY <1>1, EmptySeq
  <2>2. \A i \in 1 .. Len(evs) : evs[i] \in [slot : Slots, in : BOOLEAN]
    BY <1>1, LenProperties
  <2>3. Head(evs) = evs[1]
    BY <1>1, <2>1
  <2> QED
    BY <2>1, <2>2, <2>3
<1>3. s \in Slots /\ Head(evs).in \in BOOLEAN /\ sid[s] # -1
  BY <1>2 DEF s, NInv, Pending
<1>4. sfd[s] # 0 /\ sfd[s] \in Fds
  BY <1>3 DEF NInv, Table, Types, SlotTypes
<1>5. s # 1 => sid[s] \in Conns /\ squeue[s] = sid[s]
  BY <1>3 DEF NInv, Table
<1>6. s # 1 <=> sfd[s] # listen_sock
  BY <1>3, <1>4, Constants DEF NInv, Table
<1>7. sfd[s] > 0 /\ (s # 1 => sid[s] > 0)
  BY <1>4, <1>5, BoundsAssumption DEF Fds, Conns
<1> QED
  BY <1>2, <1>3, <1>4, <1>5, <1>6, <1>7 DEF Asserted

\* force_close leaves the descriptors of the other slots alone.
LEMMA ForceCloseTable ==
  ASSUME NInv, NEW k \in Slots, k # 1, sid[k] # -1, force_close(k)
  PROVE  SlotTypes' /\ Table' /\ \A l \in Slots \ {k} : sid'[l] = sid[l]
<1>1. SlotTypes /\ Table /\ sfd[k] \in Fds /\ sfd[k] # listen_sock /\ sfd[k] # 0
  BY Constants DEF NInv, Types, SlotTypes, Table
<1> DEFINE f == sfd[k]
<1>2. /\ reg' = [reg EXCEPT ![f] = -1] /\ open' = open \ {f}
      /\ sid' = [sid EXCEPT ![k] = -1] /\ sfd' = [sfd EXCEPT ![k] = 0]
      /\ UNCHANGED <<squeue, alloc_id, leaked>>
  BY DEF force_close
<1>3. SlotTypes'
  BY <1>1, <1>2 DEF SlotTypes
<1>4. /\ sid'[k] = -1 /\ sfd'[k] = 0
      /\ \A l \in Slots \ {k} : sid'[l] = sid[l] /\ sfd'[l] = sfd[l]
      /\ reg'[f] = -1 /\ \A g \in Fds \ {f} : reg'[g] = reg[g]
  BY <1>1, <1>2 DEF SlotTypes
<1>5. \A l \in Slots \ {k} : sfd[l] # f
  BY <1>1 DEF Table
<1> HIDE DEF f
<1>6. f \in Fds /\ f # listen_sock /\ f # 0 /\ sfd[k] = f
  BY <1>1 DEF f
<1>7. (\A l \in Slots : sid[l] = -1 <=> sfd[l] = 0)'
  BY <1>1, <1>4 DEF Table
<1>8. (\A l, m \in Slots : sfd[l] = sfd[m] /\ sfd[l] # 0 => l = m)'
  BY <1>1, <1>4 DEF Table
<1>9. (open = leaked \cup {sfd[l] : l \in {m \in Slots : sid[m] # -1}})'
  <2>1. {sfd'[l] : l \in {m \in Slots : sid'[m] # -1}}
          = {sfd[l] : l \in {m \in Slots : sid[m] # -1}} \ {f}
    BY <1>4, <1>5, <1>6
  <2>2. f \notin leaked
    BY <1>1, <1>6 DEF Table
  <2> QED
    BY <1>1, <1>2, <2>1, <2>2 DEF Table
<1>10. (\A l \in Slots : sfd[l] \notin leaked)'
  <2>1. 0 \notin leaked
    BY <1>1, Constants DEF SlotTypes
  <2> QED
    BY <1>1, <1>2, <1>4, <2>1 DEF Table
<1>11. (\A g \in Fds : reg[g] # -1 => sfd[reg[g]] = g)'
  <2> SUFFICES ASSUME NEW g \in Fds, reg'[g] # -1 PROVE sfd'[reg'[g]] = g
    OBVIOUS
  <2>1. g # f /\ reg'[g] = reg[g] /\ reg[g] \in Slots /\ sfd[reg[g]] = g
    BY <1>1, <1>4 DEF Table, SlotTypes
  <2> QED
    BY <1>4, <1>6, <2>1
<1>12. (sid[1] = 1 /\ sfd[1] = listen_sock
        /\ \A l \in Slots \ {1} : sid[l] # -1 => sid[l] \in Conns /\ squeue[l] = sid[l])'
  BY <1>1, <1>2, <1>4, Constants DEF Table
<1> QED
  BY <1>3, <1>4, <1>7, <1>8, <1>9, <1>10, <1>11, <1>12 DEF Table

\* do_accept gives a free slot a descriptor that no slot has.
LEMMA AcceptTable ==
  ASSUME NInv, do_accept
  PROVE  SlotTypes' /\ Table' /\ \A l \in Slots : sid[l] # -1 => sid'[l] = sid[l]
<1>1. SlotTypes /\ Table
  BY DEF NInv, Types
<1>2. CASE UNCHANGED slotVars
  BY <1>1, <1>2 DEF slotVars, SlotTypes, Table
<1>3. ASSUME NEW f \in Fds \ open, open' = open \cup {f},
             alloc_id =< MaxId, alloc_id' = alloc_id + MaxSockets,
             leaked' = leaked \cup {f}, UNCHANGED <<sid, sfd, squeue, reg>>
      PROVE  SlotTypes' /\ Table' /\ \A l \in Slots : sid[l] # -1 => sid'[l] = sid[l]
  <2>1. alloc_id' \in 1 .. MaxId + MaxSockets
    BY <1>1, <1>3, SlotsAssumption, BoundsAssumption DEF SlotTypes
  <2>2. SlotTypes'
    BY <1>1, <1>3, <2>1 DEF SlotTypes
  <2>3. \A l \in Slots : sfd[l] # f
    BY <1>1, <1>3, Constants DEF Table, SlotTypes
  <2> QED
    BY <1>1, <1>3, <2>2, <2>3 DEF Table
<1>4. ASSUME NEW f \in Fds \ open, open' = open \cup {f}, NEW id \in Conns,
             Reserves(id), alloc_id' = id,
             sid' = [sid EXCEPT ![Hash(id)] = id],
             sfd' = [sfd EXCEPT ![Hash(id)] = f],
             squeue' = [squeue EXCEPT ![Hash(id)] = Queue(id)],
             reg' \in {[reg EXCEPT ![f] = Hash(id)], reg}, UNCHANGED leaked
      PROVE  SlotTypes' /\ Table' /\ \A l \in Slots : sid[l] # -1 => sid'[l] = sid[l]
  <2> DEFINE k == Hash(id)
  <2>1. k \in Slots /\ sid[k] = -1 /\ id \in 1 .. MaxId + MaxSockets /\ id # -1 /\ k # 1
    BY <1>1, <1>4, Constants, BoundsAssumption, SlotsAssumption DEF Reserves, Conns, Table
  <2>2. /\ sid' = [sid EXCEPT ![k] = id] /\ sfd' = [sfd EXCEPT ![k] = f]
        /\ squeue' = [squeue EXCEPT ![k] = id] /\ reg' \in {[reg EXCEPT ![f] = k], reg}
        /\ open' = open \cup {f} /\ alloc_id' = id /\ leaked' = leaked
    BY <1>4 DEF Queue
  <2> HIDE DEF k
  <2>3. SlotTypes'
    BY <1>1, <2>1, <2>2 DEF SlotTypes, Queues
  <2>4. /\ sid'[k] = id /\ sfd'[k] = f /\ squeue'[k] = id
        /\ \A l \in Slots \ {k} : sid'[l] = sid[l] /\ sfd'[l] = sfd[l] /\ squeue'[l] = squeue[l]
        /\ \A g \in Fds : reg'[g] = reg[g] \/ (g = f /\ reg'[g] = k)
    BY <1>1, <2>1, <2>2 DEF SlotTypes
  <2>5. sfd[k] = 0 /\ f \in Fds /\ f # 0 /\ f \notin leaked /\ \A l \in Slots : sfd[l] # f
    BY <1>1, <2>1, Constants DEF Table, SlotTypes
  <2>6. (\A l \in Slots : sid[l] = -1 <=> sfd[l] = 0)'
    BY <1>1, <2>1, <2>4, <2>5 DEF Table
  <2>7. (\A l, m \in Slots : sfd[l] = sfd[m] /\ sfd[l] # 0 => l = m)'
    BY <1>1, <2>4, <2>5 DEF Table
  <2>8. (open = leaked \cup {sfd[l] : l \in {m \in Slots : sid[m] # -1}})'
    <3>1. {sfd'[l] : l \in {m \in Slots : sid'[m] # -1}}
            = {sfd[l] : l \in {m \in Slots : sid[m] # -1}} \cup {f}
      BY <2>1, <2>4
    <3> QED
      BY <1>1, <2>2, <3>1 DEF Table
  <2>9. (\A l \in Slots : sfd[l] \notin leaked)'
    BY <1>1, <2>2, <2>4, <2>5 DEF Table
  <2>10. (\A g \in Fds : reg[g] # -1 => sfd[reg[g]] = g)'
    <3> SUFFICES ASSUME NEW g \in Fds, reg'[g] # -1 PROVE sfd'[reg'[g]] = g
      OBVIOUS
    <3>1. CASE g = f /\ reg'[g] = k
      BY <2>4, <3>1
    <3>2. CASE reg'[g] = reg[g]
      <4>1. sfd[reg[g]] = g /\ reg[g] \in Slots /\ g # 0
        BY <1>1, <3>2, Constants DEF Table, SlotTypes
      <4> QED
        BY <2>4, <2>5, <3>2, <4>1
    <3> QED
      BY <2>4, <3>1, <3>2
  <2>11. (sid[1] = 1 /\ sfd[1] = listen_sock
          /\ \A l \in Slots \ {1} : sid[l] # -1 => sid[l] \in Conns /\ squeue[l] = sid[l])'
    BY <1>1, <2>1, <2>4, Constants DEF Table
  <2> QED
    BY <2>1, <2>3, <2>4, <2>6, <2>7, <2>8, <2>9, <2>10, <2>11 DEF Table
<1> QED
  BY <1>2, <1>3, <1>4 DEF do_accept

\* Nothing happens to the slots.
LEMMA TableKept ==
  ASSUME SlotTypes, Table, UNCHANGED slotVars PROVE SlotTypes' /\ Table'
  BY DEF slotVars, SlotTypes, Table

\* The events that are left, when the one at the head is handled.
LEMMA PendingDone ==
  ASSUME NInv, evs # <<>>, Done, \A l \in Slots \ {s} : sid[l] # -1 => sid'[l] # -1
  PROVE  Pending' /\ evs' \in Seq([slot : Slots, in : BOOLEAN])
<1>1. evs \in Seq([slot : Slots, in : BOOLEAN]) /\ Pending
  BY DEF NInv, Types, LoopTypes
<1>2. /\ evs' \in Seq([slot : Slots, in : BOOLEAN]) /\ Len(evs') = Len(evs) - 1
      /\ \A i \in 1 .. Len(evs') : evs'[i] = evs[i + 1]
  BY <1>1, HeadTailProperties DEF Done
<1>3. Len(evs) \in Nat /\ 1 \in 1 .. Len(evs) /\ s = evs[1].slot
  BY Serving DEF s
<1>4. \A i \in 1 .. Len(evs') :
        /\ i + 1 \in 1 .. Len(evs) /\ i + 1 # 1 /\ evs[i + 1].slot \in Slots
  <2>1. \A i \in 1 .. Len(evs) : evs[i] \in [slot : Slots, in : BOOLEAN]
    BY <1>1, LenProperties
  <2>2. \A i \in 1 .. Len(evs') : i + 1 \in 1 .. Len(evs) /\ i + 1 # 1
    BY <1>2, <1>3
  <2> QED
    BY <2>1, <2>2
<1>5. \A i \in 1 .. Len(evs') : evs'[i].slot \in Slots \ {s} /\ sid[evs'[i].slot] # -1
  BY <1>1, <1>2, <1>3, <1>4 DEF Pending
<1>6. \A i, j \in 1 .. Len(evs') : evs'[i].slot = evs'[j].slot => i = j
  <2> SUFFICES ASSUME NEW i \in 1 .. Len(evs'), NEW j \in 1 .. Len(evs'),
                      evs'[i].slot = evs'[j].slot
               PROVE  i = j
    OBVIOUS
  <2>1. i + 1 = j + 1
    BY <1>1, <1>2, <1>4 DEF Pending
  <2> QED
    BY <1>2, <1>3, <2>1
<1>7. spc' = "event"
  BY DEF Done
<1> QED
  BY <1>2, <1>5, <1>6, <1>7 DEF Pending

\* A step that goes on with the same event.
LEMMA PendingKept ==
  ASSUME Pending, UNCHANGED <<evs, sid>>,
         UNCHANGED spc \/ (evs # <<>> /\ s # 1)
  PROVE  Pending'
<1>1. s' = s
  BY DEF s
<1> QED
  BY <1>1 DEF Pending

\* The list, when neither it nor the flags nor the queues between change.
LEMMA ListKept ==
  ASSUME List, UNCHANGED globalVars,
         \/ spc # "link" /\ spc' # "link"
         \/ UNCHANGED <<spc, squeue, evs>>,
         \/ tpc # "clear" /\ tpc' # "clear"
         \/ UNCHANGED <<tpc, cur>>
  PROVE  List'
<1>1. PICK L \in Seq(Conns) : Chain(L) /\ Flags(L)
  BY DEF List
<1>2. Chain(L)' /\ UNCHANGED <<in_global, next>>
  BY <1>1 DEF Chain, globalVars
<1>3. \A c \in Conns : (Linking(c)' <=> Linking(c)) /\ (Clearing(c)' <=> Clearing(c))
                       /\ (On(c, L)' <=> On(c, L))
  BY DEF Linking, Clearing, s, On
<1>4. Flags(L)'
  BY <1>1, <1>2, <1>3 DEF Flags
<1> QED
  BY <1>2, <1>4 DEF List

-----------------------------------------------------------------------------
(* What a step does to the mailboxes of Mailbox, and that it keeps NInv. *)

Silent == UNCHANGED <<mq, reads, shown>>
Posted(c) ==
  /\ reads' = [reads EXCEPT ![c] = @ + 1]
  /\ Contents(mq'[c]) = Append(Contents(mq[c]), <<c, reads[c] + 1>>)
  /\ \A d \in Conns \ {c} : mq'[d] = mq[d]
  /\ UNCHANGED shown
TakenFrom(c) ==
  /\ Contents(mq[c]) # <<>>
  /\ shown' = [shown EXCEPT ![c] = Head(Contents(mq[c]))]
  /\ Contents(mq'[c]) = Tail(Contents(mq[c]))
  /\ \A d \in Conns \ {c} : mq'[d] = mq[d]
  /\ UNCHANGED reads
Good == /\ NInv'
        /\ Silent \/ (\E c \in Conns : Posted(c)) \/ (\E c \in Conns : TakenFrom(c))

\* The queues and the message thread, while the socket thread puts nothing in.
LEMMA Quiet ==
  ASSUME QueueTypes, ListTypes, Holding, Silent, UNCHANGED <<in_global, next, ghead, gtail, tpc, cur>>
  PROVE  QueueTypes' /\ ListTypes' /\ Holding'
<1>1. QueueTypes'
  BY DEF Silent, QueueTypes
<1>2. ListTypes' /\ Holding'
  BY DEF Silent, ListTypes, Holding
<1> QED
  BY <1>1, <1>2

\* The positions of the socket thread.
LEMMA Positions ==
  ASSUME LoopTypes, UNCHANGED <<tpc, aborted>>,
         evs' \in Seq([slot : Slots, in : BOOLEAN]),
         spc' \in {"event", "check", "link", "write", "ended"}
  PROVE  LoopTypes'
  BY DEF LoopTypes

\* epoll_wait reports slots in use, each once.
LEMMA WaitGood == ASSUME NInv, epoll_wait PROVE Good
<1>1. /\ Types /\ SlotTypes /\ QueueTypes /\ ListTypes /\ LoopTypes /\ Table /\ List /\ Holding
      /\ spc = "event" /\ UNCHANGED <<slotVars, mq, globalVars, spc, msgVars, reads, aborted>>
  BY DEF NInv, Types, epoll_wait, At
<1>2. PICK n \in 1 .. MaxSockets :
        \E fs \in [1 .. n -> {f \in Fds : reg[f] # -1}], in \in [1 .. n -> BOOLEAN] :
          /\ \A i, j \in 1 .. n : fs[i] = fs[j] => i = j
          /\ evs' = [i \in 1 .. n |-> [slot |-> reg[fs[i]], in |-> in[i]]]
  BY DEF epoll_wait
<1>3. PICK fs \in [1 .. n -> {f \in Fds : reg[f] # -1}], in \in [1 .. n -> BOOLEAN] :
        /\ \A i, j \in 1 .. n : fs[i] = fs[j] => i = j
        /\ evs' = [i \in 1 .. n |-> [slot |-> reg[fs[i]], in |-> in[i]]]
  BY <1>2
<1>4. n \in Nat
  BY SlotsAssumption
<1>5. \A i \in 1 .. n : /\ reg[fs[i]] \in Slots /\ sfd[reg[fs[i]]] = fs[i]
                        /\ sid[reg[fs[i]]] # -1 /\ in[i] \in BOOLEAN
  <2> SUFFICES ASSUME NEW i \in 1 .. n
               PROVE  /\ reg[fs[i]] \in Slots /\ sfd[reg[fs[i]]] = fs[i]
                      /\ sid[reg[fs[i]]] # -1 /\ in[i] \in BOOLEAN
    OBVIOUS
  <2>1. fs[i] \in Fds /\ reg[fs[i]] # -1 /\ in[i] \in BOOLEAN
    BY <1>3
  <2>2. reg[fs[i]] \in Slots /\ sfd[reg[fs[i]]] = fs[i] /\ fs[i] # 0
    BY <1>1, <2>1, Constants DEF Table, SlotTypes
  <2> QED
    BY <1>1, <2>1, <2>2 DEF Table
<1>6. evs' \in [1 .. n -> [slot : Slots, in : BOOLEAN]]
  BY <1>3, <1>5
<1>7. evs' \in Seq([slot : Slots, in : BOOLEAN]) /\ Len(evs') = n
  <2> DEFINE E == [slot : Slots, in : BOOLEAN]
  <2> HIDE DEF E
  <2>1. evs' \in [1 .. n -> E]
    BY <1>6 DEF E
  <2>2. evs' \in Seq(E)
    BY <1>4, <2>1, SeqDef
  <2>3. Len(evs') = n
    BY <1>4, <2>1, <2>2, LenProperties
  <2> QED
    BY <2>2, <2>3 DEF E
<1>8. Pending'
  <2>1. \A i \in 1 .. n : evs'[i].slot = reg[fs[i]]
    BY <1>3
  <2>2. \A i, j \in 1 .. n : reg[fs[i]] = reg[fs[j]] => i = j
    BY <1>3, <1>5
  <2>3. UNCHANGED <<sid, spc>>
    BY <1>1 DEF slotVars
  <2> QED
    BY <1>1, <1>5, <1>7, <2>1, <2>2, <2>3 DEF Pending
<1>9. SlotTypes' /\ Table'
  BY <1>1, TableKept
<1>10. QueueTypes' /\ ListTypes' /\ Holding' /\ Silent
  BY <1>1, Quiet DEF Silent, globalVars, msgVars
<1>11. List'
  BY <1>1, ListKept DEF msgVars
<1>12. LoopTypes'
  BY <1>1, <1>7 DEF LoopTypes, msgVars
<1> QED
  BY <1>8, <1>9, <1>10, <1>11, <1>12 DEF Good, NInv, Types

\* A step that deals with the event at the head, and with nothing but the slots.
LEMMA EventGood ==
  ASSUME NInv, evs # <<>>, spc # "link", Done, Silent,
         UNCHANGED <<globalVars, tpc, cur, aborted>>,
         SlotTypes', Table', \A l \in Slots \ {s} : sid[l] # -1 => sid'[l] # -1
  PROVE  Good
<1>1. /\ QueueTypes /\ ListTypes /\ LoopTypes /\ List /\ Holding /\ spc' = "event"
  BY DEF NInv, Types, Done
<1>2. Pending' /\ evs' \in Seq([slot : Slots, in : BOOLEAN])
  BY PendingDone
<1>3. QueueTypes' /\ ListTypes' /\ Holding'
  BY <1>1, Quiet DEF globalVars
<1>4. List' /\ LoopTypes'
  BY <1>1, <1>2, ListKept, Positions
<1> QED
  BY <1>2, <1>3, <1>4 DEF Good, NInv, Types

LEMMA AcceptGood == ASSUME NInv, do_accept PROVE Good
<1>1. /\ evs # <<>> /\ spc = "event" /\ Done /\ Silent
      /\ UNCHANGED <<globalVars, tpc, cur, aborted>>
  BY DEF do_accept, Event, At, Silent, msgVars
<1>2. SlotTypes' /\ Table' /\ \A l \in Slots : sid[l] # -1 => sid'[l] = sid[l]
  BY AcceptTable
<1> QED
  BY <1>1, <1>2, EventGood

LEMMA WriteGood == ASSUME NInv, write_info PROVE Good
<1>1. spc = "write" /\ evs # <<>> /\ s # 1
  BY DEF write_info, At, NInv, Pending
<1>2. Asserted /\ s \in Slots /\ sid[s] # -1
  BY <1>1, Serving
<1>3. \/ Stops("sigpipe")
      \/ /\ Done
         /\ UNCHANGED slotVars \/ force_close(s)
         /\ UNCHANGED <<mq, globalVars, msgVars, reads, aborted>>
  BY <1>2 DEF write_info, AssertFails
<1>4. CASE Stops("sigpipe")
  <2>1. /\ SlotTypes /\ QueueTypes /\ ListTypes /\ LoopTypes /\ Table /\ Pending /\ List /\ Holding
        /\ UNCHANGED <<slotVars, mq, globalVars, sockVars, msgVars, reads>> /\ aborted' = "sigpipe"
    BY <1>4 DEF NInv, Types, Stops
  <2>2. SlotTypes' /\ Table' /\ Pending'
    BY <2>1, TableKept, PendingKept DEF slotVars, sockVars
  <2>3. QueueTypes' /\ ListTypes' /\ Holding' /\ Silent
    BY <2>1, Quiet DEF Silent, globalVars, msgVars
  <2>4. List'
    BY <2>1, ListKept DEF slotVars, sockVars, msgVars
  <2>5. LoopTypes'
    BY <2>1 DEF LoopTypes, sockVars, msgVars
  <2> QED
    BY <2>2, <2>3, <2>4, <2>5 DEF Good, NInv, Types
<1>5. CASE /\ Done
           /\ UNCHANGED slotVars \/ force_close(s)
           /\ UNCHANGED <<mq, globalVars, msgVars, reads, aborted>>
  <2>1. SlotTypes' /\ Table' /\ \A l \in Slots \ {s} : sid[l] # -1 => sid'[l] # -1
    <3>1. CASE UNCHANGED slotVars
      BY <3>1, TableKept DEF NInv, Types, slotVars
    <3>2. CASE force_close(s)
      BY <1>1, <1>2, <3>2, ForceCloseTable
    <3> QED
      BY <1>5, <3>1, <3>2
  <2> QED
    BY <1>1, <1>5, <2>1, EventGood DEF Silent, msgVars
<1> QED
  BY <1>3, <1>4, <1>5

LEMMA ErrorGood == ASSUME NInv, poll_error PROVE Good
<1>1. /\ Types /\ SlotTypes /\ QueueTypes /\ ListTypes /\ LoopTypes /\ Table /\ List /\ Holding
      /\ spc = "event" /\ spc' = "ended" /\ evs' = <<>>
      /\ UNCHANGED <<slotVars, mq, globalVars, msgVars, reads, aborted>>
  BY DEF NInv, Types, poll_error, Event, At
<1>2. Pending' /\ evs' \in Seq([slot : Slots, in : BOOLEAN])
  <2>1. Len(evs') = 0
    BY <1>1
  <2> QED
    BY <1>1, <2>1 DEF Pending
<1>3. SlotTypes' /\ Table'
  BY <1>1, TableKept
<1>4. QueueTypes' /\ ListTypes' /\ Holding' /\ Silent
  BY <1>1, Quiet DEF Silent, globalVars, msgVars
<1>5. List' /\ LoopTypes'
  BY <1>1, <1>2, ListKept, Positions DEF msgVars
<1> QED
  BY <1>2, <1>3, <1>4, <1>5 DEF Good, NInv, Types

\* A read puts the message at the end of the connection's queue.
LEMMA ReadGood == ASSUME NInv, recv_info PROVE Good
<1>1. /\ spc = "event" /\ evs # <<>> /\ UNCHANGED <<globalVars, msgVars>>
      /\ sfd[s] # listen_sock
  BY DEF recv_info, Readable, Event, At
<1>2. /\ Asserted /\ s \in Slots /\ sid[s] # -1 /\ s # 1 /\ sid[s] \in Conns
      /\ squeue[s] = sid[s]
  BY <1>1, Serving
<1>3. UNCHANGED aborted
  BY <1>2 DEF recv_info, AssertFails
<1>4. CASE Done /\ UNCHANGED <<slotVars, mq, reads>>
  <2>1. SlotTypes' /\ Table' /\ UNCHANGED sid
    BY <1>4, TableKept DEF NInv, Types, slotVars
  <2> QED
    BY <1>1, <1>3, <1>4, <2>1, EventGood DEF Silent, msgVars
<1>5. CASE Done /\ force_close(s) /\ UNCHANGED <<mq, reads>>
  <2>1. SlotTypes' /\ Table' /\ \A l \in Slots \ {s} : sid'[l] = sid[l]
    BY <1>2, <1>5, ForceCloseTable
  <2> QED
    BY <1>1, <1>3, <1>5, <2>1, EventGood DEF Silent, msgVars
<1>6. CASE /\ reads' = [reads EXCEPT ![sid[s]] = @ + 1]
           /\ mq' = [mq EXCEPT ![squeue[s]] = sp_mq_push(@, <<sid[s], reads[sid[s]] + 1>>)]
           /\ spc' = "check" /\ UNCHANGED <<slotVars, evs>>
  <2> DEFINE c == sid[s]
             m == <<c, reads[c] + 1>>
             q == mq[c]
  <2>1. /\ SlotTypes /\ QueueTypes /\ ListTypes /\ LoopTypes /\ Table /\ Pending /\ List /\ Holding
    BY DEF NInv, Types
  <2>2. c \in Conns /\ q \in Ring(Messages) /\ m \in Messages /\ Contents(q) \in Seq(Messages)
    <3>1. c \in Conns /\ q \in Ring(Messages) /\ Contents(q) \in Seq(Messages) /\ reads[c] \in Nat
      BY <1>2, <2>1 DEF QueueTypes
    <3>2. reads[c] + 1 \in Nat \ {0}
      BY <3>1
    <3> QED
      BY <3>1, <3>2 DEF Messages
  <2>3. mq' = [mq EXCEPT ![c] = sp_mq_push(q, m)] /\ reads' = [reads EXCEPT ![c] = @ + 1]
    BY <1>2, <1>6
  <2> HIDE DEF c, m, q
  <2>4. /\ sp_mq_push(q, m) \in Ring(Messages)
        /\ Contents(sp_mq_push(q, m)) = Append(Contents(q), m)
        /\ sp_mq_length(sp_mq_push(q, m)) = sp_mq_length(q) + 1
    BY <2>2, PushAppends
  <2>5. Append(Contents(q), m) \in Seq(Messages)
    BY <2>2, AppendProperties
  <2>6. mq'[c] = sp_mq_push(q, m) /\ \A d \in Conns \ {c} : mq'[d] = mq[d]
    BY <2>1, <2>2, <2>3 DEF QueueTypes
  <2>7. QueueTypes'
    <3>1. mq' \in [Conns -> Ring(Messages)] /\ reads' \in [Conns -> Nat]
      BY <2>1, <2>2, <2>3, <2>4 DEF QueueTypes
    <3>2. shown' \in [Conns -> Conns \X Nat]
      BY <1>1, <2>1 DEF QueueTypes, msgVars
    <3>3. \A d \in Conns : Contents(mq'[d]) \in Seq(Messages)
      BY <2>1, <2>4, <2>5, <2>6 DEF QueueTypes
    <3> QED
      BY <3>1, <3>2, <3>3 DEF QueueTypes
  <2>8. Posted(c)
    BY <1>1, <2>3, <2>4, <2>6 DEF Posted, q, m, msgVars
  <2>9. Holding'
    <3>1. \A d \in Conns : sp_mq_length(mq[d]) > 0 => sp_mq_length(mq'[d]) > 0
      <4>1. sp_mq_length(q) \in Nat
        BY <2>2, RingFields
      <4> QED
        BY <2>4, <2>6, <4>1
    <3> QED
      BY <1>1, <2>1, <3>1 DEF Holding, globalVars, msgVars
  <2>10. SlotTypes' /\ Table'
    BY <1>6, <2>1, TableKept
  <2>11. Pending'
    BY <1>1, <1>2, <1>6, <2>1, PendingKept DEF slotVars
  <2>12. List'
    BY <1>1, <1>6, <2>1, ListKept DEF msgVars
  <2>13. ListTypes' /\ LoopTypes'
    BY <1>1, <1>3, <1>6, <2>1 DEF ListTypes, LoopTypes, globalVars, msgVars
  <2> QED
    BY <2>2, <2>7, <2>8, <2>9, <2>10, <2>11, <2>12, <2>13 DEF Good, NInv, Types
<1>7. ~(-1 > 0) /\ ~(0 > 0)
  OBVIOUS
<1> QED
  BY <1>2, <1>4, <1>5, <1>6, <1>7 DEF recv_info, AssertFails, AfterRead

\* The flag is set only for a queue that is nowhere yet: it is about to be linked.
LEMMA CheckGood == ASSUME NInv, check_global PROVE Good
<1>1. /\ SlotTypes /\ QueueTypes /\ ListTypes /\ LoopTypes /\ Table /\ Pending /\ List /\ Holding
      /\ spc = "check" /\ evs # <<>> /\ s # 1
      /\ UNCHANGED <<slotVars, mq, next, ghead, gtail, msgVars, reads, aborted>>
  BY DEF NInv, Types, check_global, At, Pending
<1>2. squeue[s] \in Conns
  BY <1>1, Serving
<1>3. 1 > 0
  OBVIOUS
<1>4. /\ UNCHANGED evs
      /\ \/ Linked(squeue[s]) /\ UNCHANGED in_global /\ spc' = "write"
         \/ /\ ~Linked(squeue[s]) /\ in_global' = [in_global EXCEPT ![squeue[s]] = 1]
            /\ spc' = "link"
  BY <1>3 DEF check_global, AfterRead
<1>5. SlotTypes' /\ Table' /\ QueueTypes' /\ Holding' /\ Silent
  BY <1>1, TableKept DEF Silent, msgVars, QueueTypes, Holding
<1>6. ListTypes' /\ LoopTypes'
  BY <1>1, <1>2, <1>4 DEF ListTypes, LoopTypes, msgVars
<1>7. Pending'
  BY <1>1, <1>4, PendingKept DEF slotVars
<1>8. List'
  <2>1. CASE UNCHANGED in_global /\ spc' = "write"
    BY <1>1, <2>1, ListKept DEF globalVars, msgVars
  <2>2. CASE /\ ~Linked(squeue[s]) /\ in_global' = [in_global EXCEPT ![squeue[s]] = 1]
             /\ spc' = "link"
    <3> DEFINE q == squeue[s]
    <3>1. PICK L \in Seq(Conns) : Chain(L) /\ Flags(L)
      BY <1>1 DEF List
    <3>2. /\ q \in Conns /\ in_global[q] = 0
          /\ in_global'[q] = 1 /\ \A c \in Conns \ {q} : in_global'[c] = in_global[c]
      BY <1>1, <1>2, <2>2 DEF Linked, ListTypes
    <3>3. squeue'[s'] = q
      BY <1>1, <1>4 DEF slotVars, s
    <3> HIDE DEF q
    <3>4. \A c \in Conns : /\ ~Linking(c) /\ (Linking(c)' <=> c = q)
                           /\ (Clearing(c)' <=> Clearing(c)) /\ (On(c, L)' <=> On(c, L))
      BY <1>1, <2>2, <3>3 DEF Linking, Clearing, On, msgVars
    <3>5. ~On(q, L) /\ ~Clearing(q)
      BY <3>1, <3>2 DEF Flags
    <3>6. Flags(L)'
      BY <3>1, <3>2, <3>4, <3>5 DEF Flags
    <3>7. Chain(L)'
      BY <1>1, <3>1 DEF Chain
    <3> QED
      BY <3>6, <3>7 DEF List
  <2> QED
    BY <1>4, <2>1, <2>2
<1> QED
  BY <1>5, <1>6, <1>7, <1>8 DEF Good, NInv, Types

\* The list with one queue more at its end.
LEMMA ChainPush ==
  ASSUME NEW L \in Seq(Conns), Chain(L), ListTypes, NEW q \in Conns, ~On(q, L),
         ghead' = IF ghead # NULL THEN ghead ELSE q, gtail' = q,
         next' = [c \in Conns |-> IF c = q THEN NULL
                                  ELSE IF ghead # NULL /\ c = gtail THEN q ELSE next[c]]
  PROVE  /\ Append(L, q) \in Seq(Conns) /\ Chain(Append(L, q))'
         /\ \A c \in Conns : On(c, Append(L, q)) <=> On(c, L) \/ c = q
<1> DEFINE M == Append(L, q)
           n == Len(L)
<1>1. /\ M \in Seq(Conns) /\ Len(M) = n + 1 /\ n \in Nat /\ M # <<>>
      /\ \A i \in 1 .. n : M[i] = L[i] /\ L[i] \in Conns
      /\ M[n + 1] = q
  BY AppendProperties, LenProperties
<1>2. \A i \in 1 .. n + 1 : i \in 1 .. n \/ i = n + 1
  BY <1>1
<1>3. \A i \in 1 .. n : i \in 1 .. n + 1 /\ i # n + 1
  BY <1>1
<1>4. L = <<>> <=> n = 0
  BY EmptySeq
<1>5. \A i, j \in 1 .. n : L[i] = L[j] => i = j
  BY DEF Chain
<1>6. \A i \in 1 .. n : L[i] # q
  BY DEF On
<1>7. /\ n = 0 => ghead = NULL
      /\ n # 0 => ghead = L[1] /\ gtail = L[n] /\ ghead # NULL
  <2>1. n # 0 => 1 \in 1 .. n
    BY <1>1
  <2> QED
    BY <1>1, <1>4, <2>1, Constants DEF Chain
<1> HIDE DEF M, n
<1>8. \A i, j \in 1 .. n + 1 : M[i] = M[j] => i = j
  BY <1>1, <1>2, <1>5, <1>6
<1>9. ghead' = M[1] /\ gtail' = M[n + 1]
  <2>1. CASE n = 0
    BY <1>1, <1>7, <2>1
  <2>2. CASE n # 0
    <3>1. 1 \in 1 .. n
      BY <1>1, <2>2
    <3> QED
      BY <1>1, <1>7, <2>2, <3>1
  <2> QED
    BY <2>1, <2>2
<1>10. \A i \in 1 .. n : next[L[i]] = IF i = n THEN NULL ELSE L[i + 1]
  BY DEF Chain, n
<1>11. ASSUME NEW i \in 1 .. n + 1 PROVE next'[M[i]] = IF i = n + 1 THEN NULL ELSE M[i + 1]
  <2>1. CASE i = n + 1
    BY <1>1, <2>1
  <2>2. CASE i \in 1 .. n /\ i = n
    BY <1>1, <1>3, <1>6, <1>7, <2>2
  <2>3. CASE i \in 1 .. n /\ i # n
    <3>1. i + 1 \in 1 .. n /\ n \in 1 .. n /\ i # n + 1 /\ n # 0
      BY <1>1, <2>3
    <3>2. L[i] # gtail /\ L[i] # q /\ L[i] \in Conns
      BY <1>1, <1>5, <1>6, <1>7, <2>3, <3>1
    <3> QED
      BY <1>1, <1>10, <2>3, <3>1, <3>2
  <2> QED
    BY <1>2, <2>1, <2>2, <2>3
<1>12. Chain(M)'
  BY <1>1, <1>8, <1>9, <1>11 DEF Chain
<1>13. \A c \in Conns : On(c, M) <=> On(c, L) \/ c = q
  <2> SUFFICES ASSUME NEW c \in Conns PROVE On(c, M) <=> On(c, L) \/ c = q
    OBVIOUS
  <2>1. On(c, M) <=> \E i \in 1 .. n + 1 : M[i] = c
    BY <1>1 DEF On
  <2>2. On(c, L) <=> \E i \in 1 .. n : L[i] = c
    BY DEF On, n
  <2>3. n + 1 \in 1 .. n + 1
    BY <1>1
  <2> QED
    BY <1>1, <1>2, <1>3, <2>1, <2>2, <2>3
<1> QED
  BY <1>1, <1>12, <1>13 DEF M

\* sp_global_push links the queue whose flag was set.
LEMMA PushGood == ASSUME NInv, sp_global_push PROVE Good
<1>1. /\ SlotTypes /\ QueueTypes /\ ListTypes /\ LoopTypes /\ Table /\ Pending /\ List /\ Holding
      /\ spc = "link" /\ evs # <<>> /\ s # 1
      /\ UNCHANGED <<slotVars, mq, in_global, msgVars, reads, aborted>>
  BY DEF NInv, Types, sp_global_push, At, Pending
<1>14. PICK q \in Conns : q = squeue[s]
  BY <1>1, Serving
<1>2. /\ ghead' = IF ghead # NULL THEN ghead ELSE q
      /\ gtail' = q
      /\ next' = [c \in Conns |-> IF c = q THEN NULL
                                  ELSE IF ghead # NULL /\ c = gtail THEN q ELSE next[c]]
  BY <1>14 DEF sp_global_push
<1>3. spc' = "write" /\ UNCHANGED evs
  <2>1. 1 > 0
    OBVIOUS
  <2> QED
    BY <2>1 DEF sp_global_push, AfterRead
<1>4. PICK L \in Seq(Conns) : Chain(L) /\ Flags(L)
  BY <1>1 DEF List
<1>5. Linking(q) /\ \A c \in Conns : Linking(c) <=> c = q
  BY <1>1, <1>14 DEF Linking
<1>6. ~On(q, L) /\ ~Clearing(q)
  BY <1>4, <1>5 DEF Flags
<1> DEFINE M == Append(L, q)
<1>7. M \in Seq(Conns) /\ Chain(M)' /\ \A c \in Conns : On(c, M) <=> On(c, L) \/ c = q
  BY <1>1, <1>2, <1>4, <1>6, ChainPush
<1> HIDE DEF M
<1>8. \A c \in Conns : ~Linking(c)' /\ (Clearing(c)' <=> Clearing(c)) /\ (On(c, M)' <=> On(c, M))
  BY <1>1, <1>3 DEF Linking, Clearing, On, msgVars
<1>9. Flags(M)'
  BY <1>1, <1>2, <1>4, <1>5, <1>6, <1>7, <1>8 DEF Flags
<1>10. List'
  BY <1>7, <1>9 DEF List
<1>11. SlotTypes' /\ Table' /\ Pending'
  BY <1>1, <1>3, TableKept, PendingKept DEF slotVars
<1>12. ListTypes' /\ LoopTypes'
  BY <1>1, <1>2, <1>3 DEF ListTypes, LoopTypes, msgVars, Queues
<1>13. QueueTypes' /\ Silent /\ Holding'
  <2>1. tpc = "pop" => ghead' # NULL
    BY <1>2, Constants
  <2> QED
    BY <1>1, <2>1 DEF QueueTypes, Silent, Holding, msgVars
<1> QED
  BY <1>10, <1>11, <1>12, <1>13 DEF Good, NInv, Types

-----------------------------------------------------------------------------
(* The message thread. *)

\* The socket thread's part, while the message thread runs.
LEMMA SocketKept ==
  ASSUME NInv, UNCHANGED <<slotVars, sockVars>>
  PROVE  /\ SlotTypes' /\ Table' /\ Pending' /\ UNCHANGED <<spc, evs, squeue, s>>
         /\ \A c \in Conns : Linking(c)' <=> Linking(c)
<1>1. SlotTypes /\ Table /\ Pending /\ UNCHANGED <<spc, evs, sid, squeue, s>>
  BY DEF NInv, Types, slotVars, sockVars, s
<1> QED
  BY <1>1, TableKept, PendingKept DEF Linking

\* The positions of the message thread.
LEMMA MessagePositions ==
  ASSUME LoopTypes, UNCHANGED sockVars, aborted' = "no",
         tpc' \in {"length", "pop", "clear", "len", "take"}
  PROVE  LoopTypes'
  BY DEF LoopTypes, sockVars

LEMMA LengthGood == ASSUME NInv, sp_global_length PROVE Good
<1>1. /\ QueueTypes /\ ListTypes /\ LoopTypes /\ List /\ Holding
      /\ tpc = "length" /\ tpc' = "pop" /\ ghead # NULL /\ aborted = "no"
      /\ UNCHANGED <<slotVars, mq, globalVars, sockVars, cur, shown, reads, aborted>>
  BY DEF NInv, Types, sp_global_length, Message
<1>2. SlotTypes' /\ Table' /\ Pending' /\ UNCHANGED <<spc, evs, squeue>>
  BY <1>1, SocketKept
<1>3. QueueTypes' /\ ListTypes' /\ LoopTypes' /\ Silent /\ Holding'
  BY <1>1, MessagePositions DEF QueueTypes, ListTypes, Silent, Holding, globalVars
<1>4. List'
  BY <1>1, <1>2, ListKept
<1> QED
  BY <1>2, <1>3, <1>4 DEF Good, NInv, Types

\* The list without its first queue.
LEMMA ChainPop ==
  ASSUME NEW L \in Seq(Conns), Chain(L), ListTypes, ghead # NULL,
         ghead' = next[ghead],
         gtail' = IF next[ghead] = NULL THEN NULL ELSE gtail,
         next' = [next EXCEPT ![ghead] = NULL]
  PROVE  /\ Tail(L) \in Seq(Conns) /\ Chain(Tail(L))' /\ ghead \in Conns
         /\ next[ghead] = NULL => ghead = gtail
         /\ \A c \in Conns : On(c, L) <=> On(c, Tail(L)) \/ c = ghead
         /\ ~On(ghead, Tail(L))
<1> DEFINE M == Tail(L)
           n == Len(L)
<1>1. L # <<>>
  BY DEF Chain
<1>2. /\ M \in Seq(Conns) /\ Len(M) = n - 1 /\ n \in Nat \ {0}
      /\ \A i \in 1 .. n - 1 : M[i] = L[i + 1]
      /\ \A i \in 1 .. n : L[i] \in Conns
  BY <1>1, HeadTailProperties, LenProperties, EmptySeq
<1>4. /\ \A i, j \in 1 .. n : L[i] = L[j] => i = j
      /\ ghead = L[1] /\ gtail = L[n]
      /\ \A i \in 1 .. n : next[L[i]] = IF i = n THEN NULL ELSE L[i + 1]
  BY <1>1 DEF Chain
<1>5. next \in [Conns -> Queues]
  BY DEF ListTypes
<1> HIDE DEF M, n
<1>3. M = <<>> <=> n = 1
  <2>1. M = <<>> <=> Len(M) = 0
    BY <1>2, EmptySeq
  <2> QED
    BY <1>2, <2>1
<1>6. /\ \A i \in 1 .. n - 1 : i + 1 \in 1 .. n /\ i + 1 # 1 /\ i \in 1 .. n
      /\ 1 \in 1 .. n /\ n \in 1 .. n
  BY <1>2
<1>7. ghead \in Conns /\ (next[ghead] = NULL <=> n = 1)
  <2>1. n # 1 => 1 + 1 \in 1 .. n
    BY <1>2
  <2> QED
    BY <1>2, <1>4, <1>6, <2>1, Constants
<1>8. \A i, j \in 1 .. n - 1 : M[i] = M[j] => i = j
  <2> SUFFICES ASSUME NEW i \in 1 .. n - 1, NEW j \in 1 .. n - 1, L[i + 1] = L[j + 1]
               PROVE  i = j
    BY <1>2
  <2>1. i + 1 = j + 1
    BY <1>4, <1>6
  <2> QED
    BY <1>2, <2>1
<1>9. /\ M = <<>> => ghead' = NULL /\ gtail' = NULL
      /\ M # <<>> => ghead' = M[1] /\ gtail' = M[n - 1]
  <2>1. CASE n = 1
    BY <1>3, <1>7, <2>1
  <2>2. CASE n # 1
    <3>1. 1 \in 1 .. n - 1 /\ n - 1 \in 1 .. n - 1 /\ (n - 1) + 1 = n /\ 1 + 1 = 2
      BY <1>2, <2>2
    <3>2. M[1] = L[2] /\ M[n - 1] = L[n]
      BY <1>2, <3>1
    <3> QED
      BY <1>3, <1>4, <1>6, <1>7, <2>2, <3>1, <3>2
  <2> QED
    BY <2>1, <2>2
<1>10. \A i \in 1 .. n - 1 : M[i] # ghead
  BY <1>2, <1>4, <1>6
<1>11. ASSUME NEW i \in 1 .. n - 1 PROVE next'[M[i]] = IF i = n - 1 THEN NULL ELSE M[i + 1]
  <2>1. i + 1 \in 1 .. n /\ M[i] = L[i + 1] /\ M[i] \in Conns /\ M[i] # ghead
    BY <1>2, <1>6, <1>10
  <2>2. next'[M[i]] = next[L[i + 1]]
    BY <1>5, <1>7, <2>1
  <2>3. next[L[i + 1]] = IF i + 1 = n THEN NULL ELSE L[(i + 1) + 1]
    BY <1>4, <2>1
  <2>4. i = n - 1 <=> i + 1 = n
    BY <1>2
  <2>5. i # n - 1 => i + 1 \in 1 .. n - 1
    BY <1>2
  <2> QED
    BY <1>2, <2>2, <2>3, <2>4, <2>5
<1>12. Chain(M)'
  BY <1>2, <1>8, <1>9, <1>11 DEF Chain
<1>13. \A c \in Conns : On(c, L) <=> On(c, M) \/ c = ghead
  <2> SUFFICES ASSUME NEW c \in Conns PROVE On(c, L) <=> On(c, M) \/ c = ghead
    OBVIOUS
  <2>1. On(c, L) <=> \E i \in 1 .. n : L[i] = c
    BY DEF On, n
  <2>2. On(c, M) <=> \E i \in 1 .. n - 1 : M[i] = c
    BY <1>2 DEF On
  <2>3. \A i \in 1 .. n : i = 1 \/ (i - 1 \in 1 .. n - 1 /\ (i - 1) + 1 = i)
    BY <1>2
  <2>4. On(c, L) => On(c, M) \/ c = ghead
    <3> SUFFICES ASSUME NEW i \in 1 .. n, L[i] = c, i # 1 PROVE On(c, M)
      BY <1>4, <2>1
    <3>1. i - 1 \in 1 .. n - 1 /\ (i - 1) + 1 = i
      BY <2>3
    <3>2. M[i - 1] = c
      BY <1>2, <3>1
    <3> QED
      BY <2>2, <3>1, <3>2
  <2>5. On(c, M) => On(c, L)
    BY <1>2, <1>6, <2>1, <2>2
  <2>6. c = ghead => On(c, L)
    BY <1>4, <1>6, <2>1
  <2> QED
    BY <2>4, <2>5, <2>6
<1>14. ~On(ghead, M)
  BY <1>2, <1>10 DEF On
<1>15. n = 1 => ghead = gtail
  BY <1>4
<1> QED
  BY <1>2, <1>7, <1>12, <1>13, <1>14, <1>15 DEF M

\* The message thread takes the first queue; the list is not empty, and its tail
\* is its last.
LEMMA PopGood == ASSUME NInv, sp_global_pop PROVE Good
<1>1. /\ QueueTypes /\ ListTypes /\ LoopTypes /\ List /\ Holding
      /\ tpc = "pop" /\ tpc' = "clear" /\ ghead # NULL /\ cur' = ghead
      /\ UNCHANGED <<slotVars, mq, in_global, sockVars, shown, reads>>
  BY DEF NInv, Types, sp_global_pop, Message, Holding
<1>2. /\ ghead' = next[ghead]
      /\ gtail' = IF next[ghead] = NULL THEN NULL ELSE gtail
      /\ next' = [next EXCEPT ![ghead] = NULL]
      /\ aborted' = IF next[ghead] = NULL /\ ghead # gtail THEN "tail" ELSE "no"
  BY <1>1 DEF sp_global_pop
<1>3. PICK L \in Seq(Conns) : Chain(L) /\ Flags(L)
  BY <1>1 DEF List
<1> DEFINE M == Tail(L)
<1>4. /\ M \in Seq(Conns) /\ Chain(M)' /\ ghead \in Conns
      /\ next[ghead] = NULL => ghead = gtail
      /\ \A c \in Conns : On(c, L) <=> On(c, M) \/ c = ghead
      /\ ~On(ghead, M)
  BY <1>1, <1>2, <1>3, ChainPop
<1> HIDE DEF M
<1>5. /\ SlotTypes' /\ Table' /\ Pending' /\ UNCHANGED <<spc, evs, squeue>>
      /\ \A c \in Conns : Linking(c)' <=> Linking(c)
  BY <1>1, SocketKept
<1>6. \A c \in Conns : ~Clearing(c) /\ (Clearing(c)' <=> c = ghead) /\ (On(c, M)' <=> On(c, M))
  BY <1>1 DEF Clearing, On
<1>7. Flags(M)'
  BY <1>1, <1>3, <1>4, <1>5, <1>6 DEF Flags
<1>8. List'
  BY <1>4, <1>7 DEF List
<1>9. ListTypes'
  <2>1. next[ghead] \in Queues /\ NULL \in Queues
    BY <1>1, <1>4 DEF ListTypes, Queues
  <2> QED
    BY <1>1, <1>2, <1>4, <2>1 DEF ListTypes, Queues
<1>10. LoopTypes' /\ QueueTypes' /\ Silent /\ Holding'
  BY <1>1, <1>2, <1>4, MessagePositions DEF QueueTypes, Silent, Holding
<1> QED
  BY <1>5, <1>8, <1>9, <1>10 DEF Good, NInv, Types

\* The flag is cleared while the queue is in no other place.
LEMMA ClearGood == ASSUME NInv, clear_global PROVE Good
<1>1. /\ QueueTypes /\ ListTypes /\ LoopTypes /\ List /\ Holding /\ aborted = "no"
      /\ tpc = "clear" /\ tpc' = "len" /\ cur \in Conns
      /\ in_global' = [in_global EXCEPT ![cur] = 0]
      /\ UNCHANGED <<slotVars, mq, next, ghead, gtail, sockVars, cur, shown, reads, aborted>>
  BY DEF NInv, Types, clear_global, Message, Clears, Holding
<1>2. PICK L \in Seq(Conns) : Chain(L) /\ Flags(L)
  BY <1>1 DEF List
<1>3. /\ SlotTypes' /\ Table' /\ Pending'
      /\ \A c \in Conns : Linking(c)' <=> Linking(c)
  BY <1>1, SocketKept
<1>4. in_global'[cur] = 0 /\ \A c \in Conns \ {cur} : in_global'[c] = in_global[c]
  BY <1>1 DEF ListTypes
<1>5. \A c \in Conns : ~Clearing(c)' /\ (Clearing(c) <=> c = cur) /\ (On(c, L)' <=> On(c, L))
  BY <1>1 DEF Clearing, On
<1>6. Flags(L)'
  BY <1>1, <1>2, <1>3, <1>4, <1>5 DEF Flags
<1>7. Chain(L)'
  BY <1>1, <1>2 DEF Chain
<1>8. ListTypes' /\ LoopTypes' /\ QueueTypes' /\ Silent /\ Holding'
  BY <1>1, MessagePositions DEF ListTypes, QueueTypes, Silent, Holding
<1> QED
  BY <1>2, <1>3, <1>6, <1>7, <1>8 DEF Good, NInv, Types, List

LEMMA LenGood == ASSUME NInv, sp_length PROVE Good
<1>1. PICK to \in {"take", "length"} :
        /\ Message("len", to)
        /\ to = "take" <=> sp_mq_length(mq[cur]) > 0
        /\ cur' = IF to = "take" THEN cur ELSE NULL
  BY DEF sp_length
<1>2. /\ QueueTypes /\ ListTypes /\ LoopTypes /\ List /\ Holding /\ aborted = "no"
      /\ tpc = "len" /\ tpc' = to /\ cur \in Conns
      /\ UNCHANGED <<slotVars, mq, globalVars, sockVars, shown, reads, aborted>>
  BY <1>1 DEF NInv, Types, sp_length, Message, Holding
<1>3. SlotTypes' /\ Table' /\ Pending' /\ UNCHANGED <<spc, evs, squeue>>
  BY <1>2, SocketKept
<1>4. LoopTypes' /\ QueueTypes' /\ Silent
  BY <1>2, MessagePositions DEF QueueTypes, Silent
<1>5. ListTypes' /\ Holding'
  BY <1>1, <1>2 DEF ListTypes, Holding, Queues, globalVars
<1>6. List'
  BY <1>2, <1>3, ListKept
<1> QED
  BY <1>3, <1>4, <1>5, <1>6 DEF Good, NInv, Types

\* A message is taken from the head of the queue.
LEMMA TakeGood == ASSUME NInv, sp_take PROVE Good
<1>1. /\ QueueTypes /\ ListTypes /\ LoopTypes /\ List /\ Holding /\ aborted = "no"
      /\ tpc = "take" /\ tpc' = "len" /\ cur \in Conns /\ sp_mq_length(mq[cur]) > 0
      /\ shown' = [shown EXCEPT ![cur] = First(mq[cur])]
      /\ mq' = [mq EXCEPT ![cur] = sp_mq_pop(@)]
      /\ UNCHANGED <<slotVars, globalVars, sockVars, cur, reads, aborted>>
  BY DEF NInv, Types, sp_take, Message, Holding
<1> DEFINE q == mq[cur]
<1>2. q \in Ring(Messages) /\ Contents(q) \in Seq(Messages) /\ sp_mq_length(q) > 0
  BY <1>1 DEF QueueTypes
<1>3. /\ mq' = [mq EXCEPT ![cur] = sp_mq_pop(q)] /\ shown' = [shown EXCEPT ![cur] = First(q)]
      /\ mq'[cur] = sp_mq_pop(q) /\ \A d \in Conns \ {cur} : mq'[d] = mq[d]
  BY <1>1 DEF QueueTypes
<1> HIDE DEF q
<1>4. /\ sp_mq_pop(q) \in Ring(Messages) /\ Contents(q) # <<>>
      /\ First(q) = Head(Contents(q)) /\ Contents(sp_mq_pop(q)) = Tail(Contents(q))
  BY <1>2, PopTakes
<1>5. Head(Contents(q)) \in Messages /\ Tail(Contents(q)) \in Seq(Messages)
  BY <1>2, <1>4, HeadTailProperties
<1>6. QueueTypes'
  <2>1. First(q) \in Conns \X Nat
    BY <1>4, <1>5 DEF Messages
  <2>2. mq' \in [Conns -> Ring(Messages)] /\ shown' \in [Conns -> Conns \X Nat]
    <3>1. mq' \in [Conns -> Ring(Messages)]
      BY <1>1, <1>3, <1>4 DEF QueueTypes
    <3>2. shown' \in [Conns -> Conns \X Nat]
      BY <1>1, <1>3, <2>1 DEF QueueTypes
    <3> QED
      BY <3>1, <3>2
  <2>3. \A d \in Conns : Contents(mq'[d]) \in Seq(Messages)
    BY <1>1, <1>3, <1>4, <1>5 DEF QueueTypes
  <2> QED
    BY <1>1, <2>2, <2>3 DEF QueueTypes
<1>7. TakenFrom(cur)
  BY <1>1, <1>3, <1>4 DEF TakenFrom, q
<1>8. SlotTypes' /\ Table' /\ Pending' /\ UNCHANGED <<spc, evs, squeue>>
  BY <1>1, SocketKept
<1>9. ListTypes' /\ LoopTypes' /\ Holding'
  BY <1>1, MessagePositions DEF ListTypes, Holding, globalVars
<1>10. List'
  BY <1>1, <1>8, ListKept
<1> QED
  BY <1>1, <1>6, <1>7, <1>8, <1>9, <1>10 DEF Good, NInv, Types

-----------------------------------------------------------------------------
(* The walk of the list. *)

\* A set of natural numbers that is not empty has a least element.
LEMMA LeastNat ==
  ASSUME NEW T, T \subseteq Nat, T # {}
  PROVE  \E x \in T : \A y \in T : ~(y < x)
<1> DEFINE F == {1 .. n : n \in T}
<1>1. F \subseteq FiniteSubsetsOf(Nat)
  BY FS_Interval DEF FiniteSubsetsOf
<1>2. F # {}
  OBVIOUS
<1>3. IsWellFoundedOn(StrictSubsetOrdering(Nat), FiniteSubsetsOf(Nat))
  BY FS_StrictSubsetOrderingWellFounded
<1> HIDE DEF F
<1>4. PICK U \in F : \A V \in F : ~(<<V, U>> \in StrictSubsetOrdering(Nat))
  BY <1>1, <1>2, <1>3, WFMin
<1> USE DEF F
<1>5. PICK x \in T : U = 1 .. x
  OBVIOUS
<1>6. ASSUME NEW y \in T, y < x PROVE FALSE
  <2>1. 1 .. y \in F /\ 1 .. y \subseteq 1 .. x /\ x \in 1 .. x /\ x \notin 1 .. y
    BY <1>6
  <2>2. <<1 .. y, U>> \in StrictSubsetOrdering(Nat)
    BY <1>5, <2>1 DEF StrictSubsetOrdering
  <2> QED
    BY <1>4, <2>1, <2>2
<1> QED
  BY <1>6

\* A list without repetition is no longer than the ids go.
LEMMA ListBounded ==
  ASSUME NEW L \in Seq(Conns), \A i, j \in 1 .. Len(L) : L[i] = L[j] => i = j
  PROVE  Len(L) \in Nat /\ Len(L) < MaxId
<1> DEFINE n == Len(L)
<1>1. n \in Nat /\ L \in [1 .. n -> Conns]
  BY LenProperties
<1>2. L \in Injection(1 .. n, Conns)
  BY <1>1 DEF Injection, IsInjective
<1>3. /\ IsFiniteSet(Conns) /\ Cardinality(Conns) = IF 2 > MaxId THEN 0 ELSE MaxId - 1
      /\ Cardinality(1 .. n) = n
  <2>1. 1 .. n = IF 1 > n THEN {} ELSE 1 .. n
    BY <1>1
  <2>2. Cardinality(1 .. n) = IF 1 > n THEN 0 ELSE n - 1 + 1
    BY <1>1, FS_Interval
  <2>3. /\ IsFiniteSet(2 .. MaxId)
        /\ Cardinality(2 .. MaxId) = IF 2 > MaxId THEN 0 ELSE MaxId - 2 + 1
    BY BoundsAssumption, FS_Interval
  <2> QED
    BY <1>1, <2>2, <2>3, BoundsAssumption DEF Conns
<1>4. n =< Cardinality(Conns)
  BY <1>2, <1>3, FS_Injection
<1> QED
  BY <1>1, <1>3, <1>4, BoundsAssumption

\* Walking from the head meets the queues of the list in order and then ends.
LEMMA WalkIsList ==
  ASSUME NEW L \in Seq(Conns), Chain(L)
  PROVE  \A n \in 0 .. MaxId : Walk[n] = IF n < Len(L) THEN L[n + 1] ELSE NULL
<1> DEFINE W == [n \in 0 .. MaxId |-> IF n < Len(L) THEN L[n + 1] ELSE NULL]
           Step(f) == [n \in 0 .. MaxId |->
                         IF n = 0 THEN ghead
                         ELSE IF f[n - 1] = NULL THEN NULL ELSE next[f[n - 1]]]
<1>1. /\ Len(L) \in Nat /\ \A i \in 1 .. Len(L) : L[i] \in Conns /\ L[i] # NULL
      /\ L = <<>> <=> Len(L) = 0
  BY LenProperties, EmptySeq, Constants
<1>2. MaxId \in Nat
  BY BoundsAssumption
<1>3. ghead = IF 0 < Len(L) THEN L[0 + 1] ELSE NULL
  BY <1>1 DEF Chain
<1>4. ASSUME NEW n \in 0 .. MaxId, n # 0
      PROVE  /\ n - 1 \in 0 .. MaxId
             /\ W[n] = IF W[n - 1] = NULL THEN NULL ELSE next[W[n - 1]]
  <2>1. n - 1 \in 0 .. MaxId /\ (n - 1) + 1 = n
    BY <1>2, <1>4
  <2>2. W[n - 1] = IF n - 1 < Len(L) THEN L[n] ELSE NULL
    BY <2>1
  <2>3. CASE n - 1 < Len(L)
    <3>1. n \in 1 .. Len(L)
      BY <1>1, <1>2, <1>4, <2>3
    <3>2. next[L[n]] = IF n = Len(L) THEN NULL ELSE L[n + 1]
      BY <3>1 DEF Chain
    <3>3. n = Len(L) <=> ~(n < Len(L))
      BY <1>1, <3>1
    <3> QED
      BY <1>1, <2>1, <2>2, <2>3, <3>1, <3>2, <3>3
  <2>4. CASE ~(n - 1 < Len(L))
    <3>1. ~(n < Len(L))
      BY <1>1, <1>2, <1>4, <2>4
    <3> QED
      BY <2>1, <2>2, <2>4, <3>1
  <2> QED
    BY <2>3, <2>4
<1>5. 0 \in 0 .. MaxId /\ W[0] = ghead
  BY <1>2, <1>3
<1> HIDE DEF W
<1>6. W = Step(W)
  BY <1>4, <1>5 DEF W
<1>7. Walk = Step(Walk)
  <2>1. Walk = CHOOSE f : f = Step(f)
    BY DEF Walk
  <2> QED
    BY <1>6, <2>1
<1>8. \A n \in 0 .. MaxId : Walk[n] = IF n = 0 THEN ghead
                                      ELSE IF Walk[n - 1] = NULL THEN NULL ELSE next[Walk[n - 1]]
  BY <1>7
<1> DEFINE T == {n \in 0 .. MaxId : Walk[n] # W[n]}
<1>9. T = {}
  <2> SUFFICES ASSUME T # {} PROVE FALSE
    OBVIOUS
  <2>0. T \subseteq Nat
    BY <1>2
  <2> HIDE DEF T
  <2>1. PICK x \in T : \A y \in T : ~(y < x)
    BY LeastNat, <2>0
  <2> USE DEF T
  <2>2. x # 0 /\ x \in 0 .. MaxId /\ Walk[x] # W[x]
    BY <1>5, <1>8, <2>1
  <2>3. x - 1 \in 0 .. MaxId /\ x - 1 < x
    BY <1>2, <2>2
  <2>4. Walk[x - 1] = W[x - 1]
    BY <2>1, <2>3
  <2> QED
    BY <1>4, <1>8, <2>2, <2>4
<1> QED
  BY <1>9 DEF W

\* So the list is well formed, as the runs state it.
LEMMA SoundList == NInv => GlobalListSound
<1> SUFFICES ASSUME NInv PROVE GlobalListSound
  OBVIOUS
<1>1. PICK L \in Seq(Conns) : Chain(L) /\ Flags(L)
  BY DEF NInv, List
<1> DEFINE n == Len(L)
<1>2. n \in Nat /\ n < MaxId /\ MaxId \in Nat
  BY <1>1, ListBounded, BoundsAssumption DEF Chain
<1>3. \A i \in 0 .. MaxId : Walk[i] = IF i < n THEN L[i + 1] ELSE NULL
  BY <1>1, WalkIsList
<1>4. \A i \in 1 .. n : L[i] \in Conns /\ L[i] # NULL
  BY LenProperties, Constants
<1>5. InList = {L[i] : i \in 1 .. n}
  <2>1. ASSUME NEW i \in 1 .. n PROVE L[i] \in InList
    <3>1. i - 1 \in 0 .. MaxId /\ i - 1 < n /\ (i - 1) + 1 = i
      BY <1>2
    <3>2. Walk[i - 1] = L[i]
      BY <1>3, <3>1
    <3> QED
      BY <1>4, <3>1, <3>2 DEF InList
  <2>2. ASSUME NEW x \in InList PROVE x \in {L[i] : i \in 1 .. n}
    <3>1. PICK i \in 0 .. MaxId : x = Walk[i] /\ x # NULL
      BY DEF InList
    <3>2. x = L[i + 1] /\ i < n
      BY <1>3, <3>1
    <3>3. i + 1 \in 1 .. n
      BY <1>2, <3>2
    <3> QED
      BY <3>2, <3>3
  <2> QED
    BY <2>1, <2>2
<1>6. \A c \in Conns : On(c, L) <=> c \in InList
  BY <1>5 DEF On
<1>7. Walk[MaxId] = NULL
  BY <1>2, <1>3
<1>8. /\ ghead = NULL <=> gtail = NULL
      /\ gtail # NULL => gtail \in InList /\ next[gtail] = NULL
  <2>1. CASE L = <<>>
    BY <1>1, <2>1 DEF Chain
  <2>2. CASE L # <<>>
    <3>1. 1 \in 1 .. n /\ n \in 1 .. n
      BY <1>2, <2>2, EmptySeq
    <3>2. ghead = L[1] /\ gtail = L[n] /\ next[L[n]] = NULL
      BY <1>1, <2>2, <3>1 DEF Chain
    <3> QED
      BY <1>4, <1>5, <3>1, <3>2
  <2> QED
    BY <2>1, <2>2
<1>9. /\ \A c \in Conns :
           in_global[c] = 1 <=> c \in InList \/ Linking(c) \/ Clearing(c)
      /\ \A c \in InList : ~Linking(c) /\ ~Clearing(c)
  <2>1. InList \subseteq Conns
    BY <1>4, <1>5
  <2> QED
    BY <1>1, <1>6, <2>1 DEF Flags
<1>10. TypeOK
  <2>1. \A c \in Conns : mq[c] \in Ring(Messages)
    BY DEF NInv, Types, QueueTypes
  <2>2. \A c \in Conns : /\ {mq[c].head, mq[c].tail} \subseteq 0 .. mq[c].cap - 1
                         /\ \A i \in 0 .. mq[c].cap - 1 : mq[c].queue[i] \in Cells
    BY <2>1, RingFields DEF Cells
  <2>3. \A i \in 1 .. Len(evs) : evs[i] \in [slot : Slots, in : BOOLEAN]
    BY LenProperties DEF NInv, Types, LoopTypes
  <2>4. /\ sid \in [Slots -> {-1, 1} \cup Conns] /\ sfd \in [Slots -> Fds \cup {0}]
        /\ squeue \in [Slots -> Queues] /\ alloc_id \in 1 .. MaxId + MaxSockets
        /\ reg \in [Fds -> Slots \cup {-1}] /\ open \subseteq Fds /\ leaked \subseteq Fds
    BY DEF NInv, Types, SlotTypes
  <2>5. /\ in_global \in [Conns -> {0, 1}] /\ next \in [Conns -> Queues]
        /\ {ghead, gtail, cur} \subseteq Queues
        /\ reads \in [Conns -> Nat] /\ shown \in [Conns -> Conns \X Nat]
    BY DEF NInv, Types, ListTypes, QueueTypes
  <2>6. /\ spc \in {"event", "check", "link", "write", "ended"}
        /\ tpc \in {"length", "pop", "clear", "len", "take"} /\ aborted \in {"no", "sigpipe"}
    BY DEF NInv, Types, LoopTypes
  <2> QED
    BY <2>2, <2>3, <2>4, <2>5, <2>6 DEF TypeOK
<1> QED
  BY <1>7, <1>8, <1>9, <1>10 DEF GlobalListSound, Linking, Clearing

-----------------------------------------------------------------------------
(* The results. *)

\* Every step of the two threads.
LEMMA StepGood == ASSUME NInv, Next PROVE Good
  BY WaitGood, AcceptGood, ReadGood, CheckGood, PushGood, WriteGood, ErrorGood,
     LengthGood, PopGood, ClearGood, LenGood, TakeGood
  DEF Next, thread_socket_func, thread_message_func

\* Nothing happens.
LEMMA StutterGood == ASSUME NInv, UNCHANGED vars PROVE NInv' /\ Silent
<1>1. /\ UNCHANGED <<slotVars, sockVars, globalVars, tpc, cur, mq, reads, shown, aborted>>
      /\ SlotTypes /\ QueueTypes /\ ListTypes /\ LoopTypes /\ Table /\ Pending /\ List /\ Holding
  BY DEF vars, NInv, Types, msgVars
<1>2. SlotTypes' /\ Table' /\ Pending' /\ UNCHANGED <<spc, evs, squeue>>
  BY <1>1, SocketKept
<1>3. List'
  BY <1>1, <1>2, ListKept
<1>4. QueueTypes' /\ ListTypes' /\ LoopTypes' /\ Holding' /\ Silent
  BY <1>1 DEF QueueTypes, ListTypes, LoopTypes, Holding, Silent, globalVars, sockVars
<1> QED
  BY <1>2, <1>3, <1>4 DEF NInv, Types

\* The invariant holds in every reachable state.
LEMMA Invariant == Spec => []NInv
<1>1. NInv /\ [Next]_vars => NInv'
  BY StepGood, StutterGood DEF Good
<1> QED
  BY <1>1, InitNInv, PTL DEF Spec

\* A reply is sent only to a connection a message was read from.
Answers == spc \in {"check", "link", "write"} => reads[sid[s]] > 0
LEMMA AnswersKept ==
  ASSUME NInv, Answers, [Next]_vars PROVE Answers'
<1>1. reads \in [Conns -> Nat]
  BY DEF NInv, Types, QueueTypes
<1>2. CASE recv_info
  <2>1. evs # <<>> /\ spc = "event" /\ sfd[s] # listen_sock
    BY <1>2 DEF recv_info, Readable, Event, At
  <2>2. sid[s] \in Conns /\ Asserted
    BY <2>1, Serving
  <2>3. CASE /\ reads' = [reads EXCEPT ![sid[s]] = @ + 1] /\ UNCHANGED <<slotVars, evs>>
    <3>1. reads'[sid[s]] > 0
      <4>1. reads[sid[s]] \in Nat /\ reads'[sid[s]] = reads[sid[s]] + 1
        BY <1>1, <2>2, <2>3
      <4> QED
        BY <4>1
    <3>2. sid'[s'] = sid[s]
      BY <2>3 DEF s, slotVars
    <3> QED
      BY <3>1, <3>2 DEF Answers
  <2>4. CASE Done
    BY <2>4 DEF Done, Answers
  <2>5. ~(-1 > 0) /\ ~(0 > 0)
    OBVIOUS
  <2> QED
    BY <1>2, <2>2, <2>3, <2>4, <2>5 DEF recv_info, AssertFails, AfterRead
<1>3. CASE epoll_wait \/ do_accept \/ poll_error
  <2>1. spc' \in {"event", "ended"}
    BY <1>3 DEF epoll_wait, do_accept, poll_error, At, Done
  <2> QED
    BY <2>1 DEF Answers
<1>4. CASE check_global \/ sp_global_push
  <2>1. spc \in {"check", "link"} /\ UNCHANGED <<sid, reads>> /\ (UNCHANGED evs \/ spc' = "event")
    BY <1>4 DEF check_global, sp_global_push, At, AfterRead, Done, slotVars
  <2> QED
    BY <2>1 DEF Answers, s
<1>5. CASE write_info
  <2>1. \/ UNCHANGED <<spc, evs, sid, reads>>
        \/ spc' = "event"
    BY <1>5 DEF write_info, AssertFails, Stops, Done, slotVars, sockVars
  <2> QED
    BY <2>1 DEF Answers, s
<1>6. CASE thread_message_func \/ UNCHANGED vars
  <2>1. UNCHANGED <<spc, evs, sid, reads>>
    BY <1>6 DEF thread_message_func, sp_global_length, sp_global_pop, clear_global, sp_length,
       sp_take, vars, slotVars, sockVars
  <2> QED
    BY <2>1 DEF Answers, s
<1> QED
  BY <1>2, <1>3, <1>4, <1>5, <1>6 DEF Next, thread_socket_func

\* What has stopped does nothing more, and only a reply is stopped by SIGPIPE.
Killed == aborted = "sigpipe"
LEMMA Stopping ==
  ASSUME NInv, Answers, [Next]_vars
  PROVE  \/ (Killed' <=> Killed) /\ (~Silent => ~Killed)
         \/ /\ ~Killed /\ Killed' /\ Silent
            /\ \E c \in Conns : reads[c] > 0
<1>1. CASE UNCHANGED vars
  BY <1>1 DEF vars, Killed, Silent, msgVars
<1>2. CASE Next
  <2>1. aborted = "no"
    BY <1>2 DEF Next, thread_socket_func, thread_message_func, epoll_wait, do_accept, recv_info,
       Readable, Event, check_global, sp_global_push, write_info, poll_error, At, Message,
       sp_global_length, sp_global_pop, clear_global, sp_length, sp_take
  <2>2. CASE write_info
    <3>1. spc = "write" /\ evs # <<>> /\ s # 1
      BY <2>2 DEF write_info, At, NInv, Pending
    <3>2. sid[s] \in Conns /\ reads[sid[s]] > 0
      BY <3>1, Serving DEF Answers
    <3>3. Silent
      BY <2>2 DEF write_info, AssertFails, Stops, Silent, msgVars
    <3> QED
      BY <2>1, <3>2, <3>3 DEF Killed
  <2>3. CASE ~write_info
    <3>1. aborted' # "sigpipe"
      BY <1>2, <2>1, <2>3 DEF Next, thread_socket_func, thread_message_func, epoll_wait,
         do_accept, recv_info, AssertFails, Stops, check_global, sp_global_push, poll_error,
         sp_global_length, sp_global_pop, clear_global, sp_length, sp_take
    <3> QED
      BY <2>1, <3>1 DEF Killed
  <2> QED
    BY <2>2, <2>3
<1> QED
  BY <1>1, <1>2

\* No assertion of the two threads fails: sockets are read and written only while
\* they are open, the message thread never takes a queue that is not there, and
\* the tail of the global list is its last.
THEOREM NeverAsserts == Spec => []AssertsHold
<1>1. NInv => AssertsHold
  BY DEF NInv, Types, LoopTypes, AssertsHold
<1> QED
  BY <1>1, Invariant, PTL

\* The open descriptors are those of the slots in use, each of one, and those
\* do_accept forgot.
THEOREM DescriptorsKept == Spec => []DescriptorsOwned
<1>1. NInv => DescriptorsOwned
  BY DEF NInv, Table, DescriptorsOwned
<1> QED
  BY <1>1, Invariant, PTL

\* The global list stays a list without a cycle, and a queue's in_global, though
\* read and written without a lock, says whether the queue is in it, about to
\* be, or just taken off.
THEOREM ListSound == Spec => []GlobalListSound
  BY SoundList, Invariant, PTL

\* The two threads implement Mailbox, its fairness left out: every message that
\* is read goes to the end of its connection's mailbox, and is taken once, in the
\* order of the reads, until a reply to a message that was read raises SIGPIPE.
THEOREM Implements == Spec => Box!MSpec
<1> DEFINE boxes == [c \in Conns |-> Contents(mq[c])]
<1>1. Init => Box!MInit /\ Answers
  <2> SUFFICES ASSUME Init PROVE Box!MInit /\ Answers
    OBVIOUS
  <2>1. Contents(create_message_queue) = <<>>
    BY NewQueue
  <2>2. Answers
    BY DEF Init, Answers
  <2> QED
    BY <2>1, <2>2 DEF Init, Box!MInit
<1>2. NInv /\ Answers /\ [Next]_vars => [Box!MNext]_(Box!mvars)
  <2> SUFFICES ASSUME NInv, Answers, [Next]_vars PROVE [Box!MNext]_(Box!mvars)
    OBVIOUS
  <2>1. CASE Silent
    <3>1. boxes' = boxes
      BY <2>1 DEF Silent
    <3>2. CASE Killed' <=> Killed
      BY <2>1, <3>1, <3>2 DEF Silent, Killed, Box!mvars
    <3>3. CASE ~Killed /\ Killed' /\ \E c \in Conns : reads[c] > 0
      BY <2>1, <3>1, <3>3 DEF Silent, Killed, Box!MNext, Box!End
    <3> QED
      BY <3>2, <3>3, Stopping
  <2>2. CASE ~Silent
    <3>1. ~Killed /\ ~Killed'
      BY <2>2, Stopping
    <3>2. ASSUME NEW c \in Conns, Posted(c) PROVE Box!Post(c)
      <4>1. boxes' = [boxes EXCEPT ![c] = Append(@, <<c, reads[c] + 1>>)]
        BY <3>2 DEF Posted
      <4> QED
        BY <3>1, <3>2, <4>1 DEF Posted, Killed, Box!Post
    <3>3. ASSUME NEW c \in Conns, TakenFrom(c) PROVE Box!Take(c)
      <4>1. boxes' = [boxes EXCEPT ![c] = Tail(@)] /\ boxes[c] = Contents(mq[c])
        BY <3>3 DEF TakenFrom
      <4> QED
        BY <3>1, <3>3, <4>1 DEF TakenFrom, Killed, Box!Take
    <3>4. (\E c \in Conns : Posted(c)) \/ (\E c \in Conns : TakenFrom(c))
      BY <2>2, StepGood, StutterGood DEF Good
    <3> QED
      BY <3>2, <3>3, <3>4 DEF Box!MNext
  <2> QED
    BY <2>1, <2>2
<1> QED
  BY <1>1, <1>2, AnswersKept, Invariant, PTL DEF Spec, Box!MSpec

=============================================================================
