----------------------------- MODULE WriteQueue -----------------------------
(***************************************************************************)
(* The write side of one CONNECTED socket of socket_server.c, with the     *)
(* contents of its two write buffer lists: what send_socket queues, how    *)
(* send_buffer drains high before low and raises a low buffer that was cut *)
(* short, how close_socket lingers, and the bytes the peer gets.           *)
(*                                                                         *)
(* Everything here runs in the thread that polls, so a handler is a step.  *)
(* A message is a number, its bytes are <<m, 1>>, <<m, 2>> ...; how many   *)
(* bytes the kernel takes is chosen at every write.                        *)
(***************************************************************************)
EXTENDS Integers, Sequences, SequencesExt

CONSTANTS
  MaxMsg,       \* bound: messages the socket is asked to send
  Size(_)       \* the length of a message

ASSUME SizeAssumption == MaxMsg \in Nat /\ \A m \in 1 .. MaxMsg : Size(m) \in Nat \ {0}

Priorities == {"high", "low"}
Messages   == 1 .. MaxMsg

\* struct write_buffer; ptr counts the bytes already written.
Buffer == [msg : Messages, ptr : Nat, size : Nat]

VARIABLES
  type,         \* CONNECTED, HALFCLOSE or INVALID
  list,         \* list.high and list.low, each a sequence of Buffer
  wb_size,
  epollout,     \* sp_write(..., true) was the last one
  wire,         \* the bytes the kernel has taken, in order
  prio,         \* history: the priority of each message taken so far
  ended         \* history: what closed the socket
vars == <<type, list, wb_size, epollout, wire, prio, ended>>

Init ==
  /\ type = "CONNECTED"
  /\ list = [p \in Priorities |-> <<>>]
  /\ wb_size = 0 /\ epollout = FALSE
  /\ wire = <<>> /\ prio = <<>> /\ ended = "not"

-----------------------------------------------------------------------------
BytesOf(wb) == [i \in 1 .. wb.size |-> <<wb.msg, wb.ptr + i>>]
Bytes(l)    == FlattenSeq([i \in DOMAIN l |-> BytesOf(l[i])])
Advance_size(wb, n) == [wb EXCEPT !.size = @ - n]    \* mutant: ptr not moved
Advance(wb, n) == [wb EXCEPT !.ptr = @ + n, !.size = @ - n]
Uncomplete(l)  == l # <<>> /\ Head(l).ptr > 0              \* list_uncomplete

\* send_list_tcp: l after the kernel has taken n bytes of it, one write after
\* the other; the buffers it took whole are freed.
Written(l, n) ==
  LET Upto(i) == Len(Bytes(SubSeq(l, 1, i)))
      whole == {i \in 0 .. Len(l) : Upto(i) =< n}
      i == CHOOSE i \in whole : \A j \in whole : j =< i
      rest == SubSeq(l, i + 1, Len(l))
  IN  IF n = Upto(i) THEN rest
      ELSE <<Advance(Head(rest), n - Upto(i))>> \o Tail(rest)

\* raise_uncomplete, once high is empty.
Raised_not(high, low) == [high |-> high, low |-> low]   \* mutant: left in low
Raised(high, low) ==
  IF high = <<>> /\ Uncomplete(low)
  THEN [high |-> <<Head(low)>>, low |-> Tail(low)]
  ELSE [high |-> high, low |-> low]

\* send_buffer may write h bytes of high and, once high is empty, l of low.
Writable(h, l) ==
  /\ h \in 0 .. Len(Bytes(list.high)) /\ l \in 0 .. Len(Bytes(list.low))
  /\ l > 0 => h = Len(Bytes(list.high))

Flushed(h, l) == Raised(Written(list.high, h), Written(list.low, l))

Take(h, l) ==
  /\ wire' = wire \o SubSeq(Bytes(list.high), 1, h)
                  \o SubSeq(Bytes(list.low), 1, l)
  /\ wb_size' = wb_size - h - l

Empty(ls) == ls.high = <<>> /\ ls.low = <<>>

\* force_close leaves wb_size as it was.
Close(why) ==
  /\ type' = "INVALID" /\ ended' = why
  /\ list' = [p \in Priorities |-> <<>>]
  /\ epollout' = FALSE

-----------------------------------------------------------------------------
(* Requests. *)

\* append_sendbuffer and append_sendbuffer_low: the n first bytes are gone.
Appended_front(p, m, n) ==             \* mutant: put at the head of the list
  list' = [list EXCEPT ![p] = <<[msg |-> m, ptr |-> n, size |-> Size(m) - n]>> \o @]
Appended(p, m, n) ==
  list' = [list EXCEPT ![p] =
             Append(@, [msg |-> m, ptr |-> n, size |-> Size(m) - n])]

\* The list for what a direct write left over: high for both priorities.
Leftover_own(p) == p                   \* mutant: the list of the priority
Leftover(p) == "high"

\* wb_size after the n first of sz bytes were written and the rest queued.
Grown_all(sz, n) == wb_size + sz       \* mutant: the whole message counted
Grown(sz, n) == wb_size + sz - n

send_socket(p) ==
  /\ type = "CONNECTED" /\ Len(prio) < MaxMsg
  /\ prio' = Append(prio, p)
  /\ LET m == Len(prio) + 1 IN
     IF Empty(list)
     THEN \/ /\ wire' = wire \o [i \in 1 .. Size(m) |-> <<m, i>>]
             /\ UNCHANGED <<type, list, wb_size, epollout, ended>>
          \/ \E n \in 0 .. Size(m) - 1 :
               /\ wire' = wire \o [i \in 1 .. n |-> <<m, i>>]
               /\ Appended(Leftover(p), m, n)
               /\ wb_size' = Grown(Size(m), n)
               /\ epollout' = TRUE
               /\ UNCHANGED <<type, ended>>
          \/ Close("error") /\ UNCHANGED <<wb_size, wire>>
     ELSE /\ Appended(p, m, 0)
          /\ wb_size' = Grown(Size(m), 0)
          /\ UNCHANGED <<type, epollout, wire, ended>>


\* With data waiting, a close first tries to send it.
close_socket(shutdown) ==
  /\ type # "INVALID" /\ UNCHANGED prio
  /\ \/ /\ Empty(list)
        /\ Close("drained") /\ UNCHANGED <<wb_size, wire>>
     \/ \E h \in 0 .. Len(Bytes(list.high)), l \in 0 .. Len(Bytes(list.low)) :
          /\ ~Empty(list) /\ Writable(h, l) /\ Take(h, l)
          /\ \/ Close("error")
             \/ /\ Empty(Flushed(h, l)) \/ shutdown
                /\ Close(IF Empty(Flushed(h, l)) THEN "drained" ELSE "shutdown")
             \/ /\ ~Empty(Flushed(h, l)) /\ ~shutdown
                /\ list' = Flushed(h, l)
                /\ type' = "HALFCLOSE"
                /\ UNCHANGED <<epollout, ended>>

-----------------------------------------------------------------------------
(* Events. *)

\* The call that finds nothing in low and leaves nothing in high: EPOLLOUT is
\* switched off and a HALFCLOSE socket is closed.
Done_high(h, l) == Written(list.high, h) = <<>>    \* mutant: low not looked at
Done(h, l) == Written(list.high, h) = <<>> /\ list.low = <<>>

\* send_buffer on a write event in which the kernel takes h + l bytes.
send_buffer(h, l) ==
  /\ type # "INVALID" /\ epollout
  /\ Writable(h, l) /\ Take(h, l)
  /\ UNCHANGED prio
  /\ \/ ~Empty(list) /\ Close("error")
     \/ /\ ~Done(h, l)
        /\ list' = Flushed(h, l)
        /\ UNCHANGED <<type, epollout, ended>>
     \/ /\ Done(h, l)
        /\ IF type = "HALFCLOSE"
           THEN Close("drained")
           ELSE /\ list' = Flushed(h, l) /\ epollout' = FALSE
                /\ UNCHANGED <<type, ended>>

\* A read event that finds the connection ended or broken.
forword_message_tcp ==
  /\ type # "INVALID"
  /\ Close("read") /\ UNCHANGED <<wb_size, wire, prio>>

write_event ==
  \E h \in 0 .. Len(Bytes(list.high)), l \in 0 .. Len(Bytes(list.low)) :
    send_buffer(h, l)

Next ==
  \/ \E p \in Priorities : send_socket(p)
  \/ \E shutdown \in BOOLEAN : close_socket(shutdown)
  \/ write_event
  \/ forword_message_tcp

Spec == Init /\ [][Next]_vars

\* EPOLLOUT is reported while the kernel has room, so that a peer which keeps
\* reading gets at least a byte of what waits.
Progress ==
  \E h \in 0 .. Len(Bytes(list.high)), l \in 0 .. Len(Bytes(list.low)) :
    (Empty(list) \/ h + l > 0) /\ send_buffer(h, l)
FairSpec == Spec /\ WF_vars(Progress)

-----------------------------------------------------------------------------
\* Every variable has its type.
TypeOK ==
  /\ type \in {"CONNECTED", "HALFCLOSE", "INVALID"}
  /\ DOMAIN list = Priorities
  /\ \A p \in Priorities : list[p] \in Seq(Buffer)
  /\ wb_size \in Nat /\ epollout \in BOOLEAN
  /\ wire \in Seq(Messages \X Nat)
  /\ prio \in Seq(Priorities)
  /\ ended \in {"not", "drained", "error", "shutdown", "read"}

\* The assertions at :579 and :587 (and what keeps messages whole): a buffer of
\* which a part was sent is only ever the first of high.
OnlyHighHeadPartial ==
  \A p \in Priorities : \A i \in 1 .. Len(list[p]) :
    list[p][i].ptr > 0 => p = "high" /\ i = 1

\* wb_size, which socket_server_send returns as backlog, is the number of bytes
\* waiting in the two lists; and every variable has its type.
WbSizeIsBacklog ==
  /\ TypeOK
  /\ type # "INVALID" =>
       wb_size = Len(Bytes(list.high)) + Len(Bytes(list.low))

\* However messages of two priorities are cut by short writes, the peer reads
\* them whole: after a byte comes the next one of the same message, and a new
\* message starts only when the last one is complete.
MessagesNotInterleaved ==
  \A i \in 1 .. Len(wire) - 1 :
    LET m == wire[i][1] IN
    wire[i + 1] \in IF wire[i][2] < Size(m) THEN {<<m, wire[i][2] + 1>>}
                    ELSE {<<n, 1>> : n \in Messages \ {m}}

\* While the socket lives, every message it took lies once, whole and in one
\* piece, in what is on the wire followed by high and then low.
NothingLost ==
  type # "INVALID" =>
    LET bytes == wire \o Bytes(list.high) \o Bytes(list.low) IN
    \A m \in 1 .. Len(prio) : \E k \in 0 .. Len(bytes) :
      /\ k + Size(m) =< Len(bytes)
      /\ \A i \in 1 .. Len(bytes) :
           IF i \in k + 1 .. k + Size(m) THEN bytes[i] = <<m, i - k>>
           ELSE bytes[i][1] # m

\* Messages of one priority arrive in the order they were sent.
FifoPerPriority ==
  \A i, j \in 1 .. Len(wire) :
    i < j /\ prio[wire[i][1]] = prio[wire[j][1]] => wire[i][1] =< wire[j][1]

\* A close that is not a shutdown and meets no error delivers every message
\* that was taken before it.
GracefulCloseDelivers ==
  ended = "drained" =>
    \A m \in 1 .. Len(prio) : \E i \in 1 .. Len(wire) : wire[i] = <<m, Size(m)>>

\* A lingering close ends, if the peer keeps reading.
HalfCloseEnds == type = "HALFCLOSE" ~> type = "INVALID"

\* SocketServer keeps of the two lists only which are empty: what it lets a
\* send, a close and a write event do with them is all that the real lists can
\* do, the raised buffer and the lingering close included.
Side == INSTANCE WriteSide WITH out <- {p \in Priorities : list[p] # <<>>}
ImplementsWriteSide == Side!WriteSideSpec

=============================================================================
