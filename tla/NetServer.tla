------------------------------ MODULE NetServer ------------------------------
(***************************************************************************)
(* net/sp_server.c: the socket thread polls epoll, accepts connections,    *)
(* reads from them into the message queue of each, and links a queue into  *)
(* a global list when its in_global flag is clear; the message thread      *)
(* takes queues from the list and empties them.  The flag is read and      *)
(* written without a lock, so every access to it is a step of its own; the *)
(* lock operations on both sides order these accesses.                     *)
(*                                                                         *)
(* Abstractions.  A message is <<id of its connection, its number>>.  A    *)
(* descriptor is a number.  Buffer sizes and the 2 s sleep are left out.   *)
(* EPOLLOUT is never asked for (sp_write is never called), so an event has *)
(* EPOLLIN or neither.                                                     *)
(***************************************************************************)
EXTENDS SpQueue
LOCAL INSTANCE Functions

CONSTANTS
  MaxSockets,   \* slots (MAX_SOCKETS, 65535 in the code)
  MaxId,        \* bound: largest id reserve_id hands out before we stop; once
                \* alloc_id is beyond it, for want of a slot, it stays there
  MaxFd,        \* the descriptor limit of the process
  MaxReads      \* bound: messages read from all connections together

ASSUME SlotsAssumption  == MaxSockets \in Nat /\ MaxSockets > 1
ASSUME BoundsAssumption == MaxId \in Nat \ {0} /\ MaxFd \in Nat \ {0} /\ MaxReads \in Nat

Hash(id) == id % MaxSockets                                    \* HASH_ID
Slots    == 0 .. MaxSockets - 1
Fds      == 1 .. MaxFd
Conns    == 2 .. MaxId           \* ids of connections; 1 is the listening one
listen_sock == 1
NULL     == 0                                  \* no queue

VARIABLES
  sid, sfd,     \* s->id (-1 when free) and s->fd (0 when free)
  squeue,       \* s->queue, named by its handle: the id it was created for
  alloc_id,
  reg, open,    \* the epoll set: descriptors with their slots; open descriptors
  leaked,       \* history: descriptors do_accept forgot
  mq, in_global, next,       \* the queues and their fields
  ghead, gtail,              \* Q->head and Q->tail
  spc, evs,     \* where the socket thread is, and its events not yet handled
  tpc, cur,     \* where the message thread is, and the queue in its hands
  reads, shown, \* messages read from each connection; the last one printed
  aborted       \* what stopped the process: an assertion, or SIGPIPE

slotVars   == <<sid, sfd, squeue, alloc_id, reg, open, leaked>>
globalVars == <<in_global, next, ghead, gtail>>
sockVars   == <<spc, evs>>
msgVars    == <<tpc, cur, shown>>
vars == <<slotVars, mq, globalVars, sockVars, msgVars, reads, aborted>>

\* After main has called init_global_queue and init_socket_server: slot 1 is the
\* listening socket's.
Init ==
  /\ sid = [k \in Slots |-> IF k = 1 THEN 1 ELSE -1]
  /\ sfd = [k \in Slots |-> IF k = 1 THEN listen_sock ELSE 0]
  /\ squeue = [k \in Slots |-> NULL]
  /\ alloc_id = 1
  /\ reg = [f \in Fds |-> IF f = listen_sock THEN 1 ELSE -1]
  /\ open = {listen_sock} /\ leaked = {}
  /\ mq = [c \in Conns |-> create_message_queue]
  /\ in_global = [c \in Conns |-> 0] /\ next = [c \in Conns |-> NULL]
  /\ ghead = NULL /\ gtail = NULL
  /\ spc = "event" /\ evs = <<>>
  /\ tpc = "length" /\ cur = NULL
  /\ reads = [c \in Conns |-> 0] /\ shown = [c \in Conns |-> <<c, 0>>]
  /\ aborted = "no"

-----------------------------------------------------------------------------
(* The socket thread. *)

At(pc) == aborted = "no" /\ spc = pc
s == Head(evs).slot                  \* the slot of the event being handled

\* epoll_wait: readable descriptors, and others with nothing but an error.
epoll_wait ==
  /\ At("event") /\ evs = <<>>
  /\ \E n \in 1 .. MaxSockets :
       \E fs \in [1 .. n -> {f \in Fds : reg[f] # -1}], in \in [1 .. n -> BOOLEAN] :
         /\ \A i, j \in 1 .. n : fs[i] = fs[j] => i = j
         /\ evs' = [i \in 1 .. n |-> [slot |-> reg[fs[i]], in |-> in[i]]]
  /\ UNCHANGED <<slotVars, mq, globalVars, spc, msgVars, reads, aborted>>

\* The event at the head is handled; its slot is s.
Event == At("event") /\ evs # <<>>
Done  == evs' = Tail(evs) /\ spc' = "event"

\* reserve_id, as in the loop of its MAX_SOCKETS tries.
Reserves(id) ==
  /\ id \in alloc_id + 1 .. alloc_id + MaxSockets
  /\ sid[Hash(id)] = -1
  /\ \A i \in alloc_id + 1 .. id - 1 : sid[Hash(i)] # -1
ReserveFails == \A k \in Slots : sid[k] # -1

\* create_message_queue(id): the queue of handle id, new as Init has it.
Queue(id) == id

do_accept ==
  /\ Event /\ sfd[s] = listen_sock
  /\ Done
  /\ \/ UNCHANGED slotVars                                    \* accept failed
     \/ \E f \in Fds \ open :
          /\ \A g \in Fds \ open : f =< g
          /\ open' = open \cup {f}
          /\ \/ /\ ReserveFails
                /\ alloc_id =< MaxId
                /\ alloc_id' = alloc_id + MaxSockets
                /\ leaked' = leaked \cup {f}
                /\ UNCHANGED <<sid, sfd, squeue, reg>>
             \/ \E id \in Conns :
                  /\ Reserves(id) /\ alloc_id' = id
                  /\ sid' = [sid EXCEPT ![Hash(id)] = id]
                  /\ sfd' = [sfd EXCEPT ![Hash(id)] = f]
                  /\ squeue' = [squeue EXCEPT ![Hash(id)] = Queue(id)]
                  /\ reg' \in {[reg EXCEPT ![f] = Hash(id)], reg}  \* sp_add
                  /\ UNCHANGED leaked
  /\ UNCHANGED <<mq, globalVars, msgVars, reads, aborted>>

force_close_keeps(k) ==                       \* mutant: no close(sock)
  /\ reg' = [reg EXCEPT ![sfd[k]] = -1]
  /\ sid' = [sid EXCEPT ![k] = -1]
  /\ sfd' = [sfd EXCEPT ![k] = 0]
  /\ UNCHANGED <<squeue, alloc_id, open, leaked>>

\* force_close and release_socket: the queue stays, and stays linked.
force_close(k) ==
  /\ reg' = [reg EXCEPT ![sfd[k]] = -1]
  /\ open' = open \ {sfd[k]}
  /\ sid' = [sid EXCEPT ![k] = -1]
  /\ sfd' = [sfd EXCEPT ![k] = 0]
  /\ UNCHANGED <<squeue, alloc_id, leaked>>

AfterRead_eof(m) ==                           \* mutant: m >= 0
  IF m >= 0 THEN spc' = "write" /\ UNCHANGED evs ELSE Done
\* socket_server_poll calls write_func if read_func returned m > 0.
AfterRead(m) == IF m > 0 THEN spc' = "write" /\ UNCHANGED evs ELSE Done

Asserted == sid[s] > 0 /\ sfd[s] > 0
Stops(why) ==                                           \* both threads
  /\ aborted' = why
  /\ UNCHANGED <<slotVars, mq, globalVars, sockVars, msgVars, reads>>
AssertFails(where) == ~Asserted /\ Stops(where)

Readable == Event /\ sfd[s] # listen_sock /\ Head(evs).in

\* recv_info as far as sp_mq_push.
recv_info ==
  /\ Readable
  /\ \/ AssertFails("recv_info")
     \/ /\ Asserted
        /\ \/ /\ AfterRead(-1)                                \* EAGAIN, EINTR
              /\ UNCHANGED <<slotVars, mq, reads>>
           \/ force_close(s) /\ AfterRead(-1) /\ UNCHANGED <<mq, reads>>
           \/ force_close(s) /\ AfterRead(0) /\ UNCHANGED <<mq, reads>>
           \/ LET c == sid[s] IN
              /\ SumFunction(reads) < MaxReads
              /\ reads' = [reads EXCEPT ![c] = @ + 1]
              /\ mq' = [mq EXCEPT ![squeue[s]] = sp_mq_push(@, <<c, reads[c] + 1>>)]
              /\ spc' = "check"
              /\ UNCHANGED <<slotVars, evs>>
        /\ UNCHANGED aborted
  /\ UNCHANGED <<globalVars, msgVars>>

Linked_always(q) == FALSE                     \* mutant: in_global not looked at
Linked(q) == in_global[q] # 0

\* recv_info: s->queue->in_global is read, and set if it was 0 ...
check_global ==
  /\ At("check")
  /\ IF Linked(squeue[s])
     THEN UNCHANGED <<in_global, evs>> /\ AfterRead(1)
     ELSE /\ in_global' = [in_global EXCEPT ![squeue[s]] = 1]
          /\ spc' = "link" /\ UNCHANGED evs
  /\ UNCHANGED <<slotVars, mq, next, ghead, gtail, msgVars, reads, aborted>>

\* ... and sp_global_push links the queue.
sp_global_push ==
  /\ At("link")
  /\ LET q == squeue[s]
     IN  /\ ghead' = IF ghead # NULL THEN ghead ELSE q
         /\ gtail' = q
         /\ next' = [c \in Conns |-> IF c = q THEN NULL
                                     ELSE IF ghead # NULL /\ c = gtail THEN q
                                     ELSE next[c]]
  /\ AfterRead(1)
  /\ UNCHANGED <<slotVars, mq, in_global, msgVars, reads, aborted>>

\* The write succeeds, is refused for now, or fails; if the client has closed the
\* connection and then reset it, the write raises SIGPIPE.
write_info ==
  /\ At("write")
  /\ \/ AssertFails("write_info")
     \/ Asserted /\ Stops("sigpipe")
     \/ /\ Asserted /\ Done
        /\ UNCHANGED slotVars \/ force_close(s)
        /\ UNCHANGED <<mq, globalVars, msgVars, reads, aborted>>

\* An event of neither kind: socket_server_poll returns -1, its thread ends.
poll_error ==
  /\ Event /\ sfd[s] # listen_sock /\ ~Head(evs).in
  /\ spc' = "ended" /\ evs' = <<>>
  /\ UNCHANGED <<slotVars, mq, globalVars, msgVars, reads, aborted>>

-----------------------------------------------------------------------------
(* The message thread. *)

Message(from, to) == aborted = "no" /\ tpc = from /\ tpc' = to

\* sp_global_length, again after each sleep until it is not 0.
sp_global_length ==
  /\ Message("length", "pop")
  /\ ghead # NULL
  /\ UNCHANGED <<slotVars, mq, globalVars, sockVars, cur, shown, reads, aborted>>

\* With the assertion of thread_message_func on what it returns.
sp_global_pop ==
  /\ Message("pop", "clear")
  /\ cur' = ghead
  /\ IF ghead = NULL
     THEN aborted' = "mq" /\ UNCHANGED <<ghead, gtail, next>>
     ELSE /\ ghead' = next[ghead]
          /\ gtail' = IF next[ghead] = NULL THEN NULL ELSE gtail
          /\ next' = [next EXCEPT ![ghead] = NULL]
          /\ aborted' = IF next[ghead] = NULL /\ ghead # gtail THEN "tail" ELSE "no"
  /\ UNCHANGED <<slotVars, mq, in_global, sockVars, shown, reads>>

Clears_not(q) == UNCHANGED in_global      \* mutant: in_global stays set
Clears(q) == in_global' = [in_global EXCEPT ![q] = 0]
clear_global ==
  /\ Message("clear", "len")
  /\ Clears(cur)
  /\ UNCHANGED <<slotVars, mq, next, ghead, gtail, sockVars, cur, shown, reads,
                 aborted>>

sp_length ==
  /\ \E to \in {"take", "length"} :
       /\ Message("len", to)
       /\ to = "take" <=> sp_mq_length(mq[cur]) > 0
       /\ cur' = IF to = "take" THEN cur ELSE NULL
  /\ UNCHANGED <<slotVars, mq, globalVars, sockVars, shown, reads, aborted>>

sp_take ==
  /\ Message("take", "len")
  /\ shown' = [shown EXCEPT ![cur] = First(mq[cur])]
  /\ mq' = [mq EXCEPT ![cur] = sp_mq_pop(@)]
  /\ UNCHANGED <<slotVars, globalVars, sockVars, cur, reads, aborted>>

-----------------------------------------------------------------------------
thread_socket_func ==
  \/ epoll_wait \/ do_accept \/ recv_info \/ check_global \/ sp_global_push
  \/ write_info \/ poll_error
thread_message_func ==
  \/ sp_global_length \/ sp_global_pop \/ clear_global \/ sp_length \/ sp_take

Next == thread_socket_func \/ thread_message_func

Spec == Init /\ [][Next]_vars

\* Both threads are scheduled while the process runs; nothing is assumed of the
\* network or of the clients, whose reset may end the process at any reply.
FairSpec ==
  /\ Spec
  /\ WF_vars(check_global \/ sp_global_push)
  /\ WF_vars(thread_message_func)

-----------------------------------------------------------------------------
(* What should be true of it. *)

Messages == Conns \X (Nat \ {0})
Cells    == Messages \cup {Junk}
Queues   == Conns \cup {NULL}

\* Every variable has its type.
TypeOK ==
  /\ sid \in [Slots -> {-1, 1} \cup Conns] /\ sfd \in [Slots -> Fds \cup {0}]
  /\ squeue \in [Slots -> Queues]
  /\ alloc_id \in 1 .. MaxId + MaxSockets
  /\ reg \in [Fds -> Slots \cup {-1}] /\ open \subseteq Fds /\ leaked \subseteq Fds
  /\ \A c \in Conns : /\ {mq[c].head, mq[c].tail} \subseteq 0 .. mq[c].cap - 1
                      /\ \A i \in 0 .. mq[c].cap - 1 : mq[c].queue[i] \in Cells
  /\ in_global \in [Conns -> {0, 1}] /\ next \in [Conns -> Queues]
  /\ {ghead, gtail, cur} \subseteq Queues
  /\ spc \in {"event", "check", "link", "write", "ended"}
  /\ \A i \in 1 .. Len(evs) : evs[i] \in [slot : Slots, in : BOOLEAN]
  /\ tpc \in {"length", "pop", "clear", "len", "take"}
  /\ reads \in [Conns -> Nat] /\ shown \in [Conns -> Conns \X Nat]
  /\ aborted \in {"no", "recv_info", "write_info", "mq", "tail", "sigpipe"}

\* No assertion fails: a socket is read and written only while it is open
\* (sp_server.c:176, 230), the queue sp_global_pop returns is there (:425), and
\* the tail of the global list is its last element (sp_queue.c:116).
AssertsHold == aborted \in {"no", "sigpipe"}

\* The global list is well formed, and in_global tells what it contains: walking
\* next from the head meets each queue at most once and ends at the tail, and a
\* queue's flag is set exactly when it is in the list, about to be linked, or
\* taken off it and not yet cleared.  (sp_global_length walks the list with its
\* lock held: it would never return from a list that is not.)  And every variable
\* has its type.
Walk[n \in 0 .. MaxId] ==
  IF n = 0 THEN ghead
  ELSE IF Walk[n - 1] = NULL THEN NULL ELSE next[Walk[n - 1]]
InList == {Walk[n] : n \in 0 .. MaxId} \ {NULL}
GlobalListSound ==
  /\ TypeOK
  /\ Walk[MaxId] = NULL
  /\ ghead = NULL <=> gtail = NULL
  /\ gtail # NULL => gtail \in InList /\ next[gtail] = NULL
  /\ \A c \in Conns :
       in_global[c] = 1 <=> \/ c \in InList
                            \/ spc = "link" /\ squeue[s] = c
                            \/ tpc = "clear" /\ cur = c
  /\ \A c \in InList : ~(tpc = "clear" /\ cur = c) /\ ~(spc = "link" /\ squeue[s] = c)

\* The open descriptors are those of the slots in use, each of one slot, and
\* those do_accept forgot when it found no slot (:275).
DescriptorsOwned ==
  /\ open = leaked \cup {sfd[k] : k \in {l \in Slots : sid[l] # -1}}
  /\ \A k, l \in Slots : sfd[k] = sfd[l] /\ sfd[k] # 0 => k = l
  /\ \A k \in Slots : sid[k] = -1 <=> sfd[k] = 0
  /\ \A f \in Fds : reg[f] # -1 => sfd[reg[f]] = f

\* The queues, flags and list of the two threads implement one mailbox for each
\* connection: the message thread prints what was read from a connection
\* completely, once and in order, even after the connection is closed and its
\* slot is another's; unless SIGPIPE ends the process, which takes a reply to a
\* message read from a client that has closed and reset.
Box == INSTANCE Mailbox WITH
         posted <- reads, box <- [c \in Conns |-> Contents(mq[c])], taken <- shown,
         ended <- aborted = "sigpipe"
ImplementsMailbox == Box!MFairSpec

==============================================================================
