-------------------------------- MODULE Peers --------------------------------
(***************************************************************************)
(* What the small servers of net_demo2/, event_net/, libevent_demo/ and    *)
(* net/test_server.c run on: clients that connect, send, close and reset   *)
(* as they please, the sockets and descriptors of the kernel, and epoll.   *)
(*                                                                         *)
(* Abstractions.  Data is counted in chunks.  The listening socket is the  *)
(* descriptor Listen; the others are 1, 2 ..., lowest free first.  accept  *)
(* fails only for want of a descriptor.  Nobody connects to a server whose *)
(* start failed.  When the process has ended nothing happens any more.     *)
(***************************************************************************)
EXTENDS Integers, Sequences

CONSTANTS
  Conns,       \* the clients; each may connect again after it was closed
  MaxFd,       \* the largest descriptor limit considered
  MaxUnread,   \* bound: chunks that wait in a connection
  MaxEvents    \* events one epoll_wait can return (50 in the code)

ASSUME PeersAssumption == /\ MaxFd \in Nat \ {0} /\ MaxUnread \in Nat \ {0}
                          /\ MaxEvents \in Nat \ {0}

Listen == 0
Fds    == 1 .. MaxFd
Nobody == "nobody"
ASSUME NobodyAssumption == Nobody \notin Conns

VARIABLES
  server,     \* the program that runs
  limit,      \* how many connections it has descriptors for
  link,       \* each client's connection: see Links
  unread,     \* chunks the server has not read
  full,       \* connections whose client does not read: a write would block
  owner,      \* the connection behind each descriptor
  nonblock,   \* descriptors with O_NONBLOCK
  watch,      \* descriptors in the epoll set
  lost,       \* history: descriptors EPOLL_CTL_ADD was refused for
  batch,      \* what epoll_wait returned and the server has not handled
  pc,         \* where the server is: start, loop, reply
  failed,     \* history: connections a write of the server has failed on
  ended       \* "no", or how the process ended

peerVars == <<link, unread, full>>
fdVars   == <<owner, nonblock, watch, lost>>
vars == <<server, limit, peerVars, fdVars, batch, pc, failed, ended>>

\* away: not connected; fin: the client has closed its end; reset: it has reset
\* the connection; hung: closed its end and then reset; dead: reset, and read or
\* write has reported the error.
Links == {"away", "up", "fin", "reset", "hung", "dead"}

PeersInit(programs) ==
  /\ server \in programs /\ limit \in Fds
  /\ link = [c \in Conns |-> "away"]
  /\ unread = [c \in Conns |-> 0] /\ full = {}
  /\ owner = [f \in Fds |-> Nobody]
  /\ nonblock = {} /\ watch = {} /\ lost = {}
  /\ batch = <<>> /\ pc = "start" /\ failed = {} /\ ended = "no"

Queued == {c \in Conns : link[c] # "away" /\ \A f \in Fds : owner[f] # c}
Open   == {f \in Fds : owner[f] # Nobody}
Runs(p) == ended = "no" /\ server = p

-----------------------------------------------------------------------------
(* The clients. *)

Connect(c) ==
  /\ Listen \in watch /\ link[c] = "away"
  /\ link' = [link EXCEPT ![c] = "up"]
  /\ UNCHANGED <<unread, full>>

Sends(c) ==
  /\ link[c] = "up" /\ unread[c] < MaxUnread
  /\ unread' = [unread EXCEPT ![c] = @ + 1]
  /\ UNCHANGED <<link, full>>

Finishes(c) ==
  /\ link[c] = "up"
  /\ link' = [link EXCEPT ![c] = "fin"]
  /\ UNCHANGED <<unread, full>>

\* On its own account, or in answer to data sent to a closed socket.
Resets(c) ==
  /\ link[c] \in {"up", "fin"}
  /\ link' = [link EXCEPT ![c] = IF @ = "up" THEN "reset" ELSE "hung"]
  /\ unread' \in {unread, [unread EXCEPT ![c] = 0]}
  /\ full' = full \ {c}

Receives(c) == c \in full /\ full' = full \ {c} /\ UNCHANGED <<link, unread>>

Client(c) ==
  /\ ended = "no"
  /\ Connect(c) \/ Sends(c) \/ Finishes(c) \/ Resets(c) \/ Receives(c)
  /\ UNCHANGED <<server, limit, fdVars, batch, pc, failed, ended>>

-----------------------------------------------------------------------------
(* System calls. *)

\* What read(2) on connection c finds.
HasData(c) == unread[c] > 0                                          \* n > 0
AtEnd(c)   == unread[c] = 0 /\ link[c] \in {"fin", "hung", "dead"}  \* n = 0
Broken(c)  == unread[c] = 0 /\ link[c] = "reset"              \* ECONNRESET

TakeData(c) == \E n \in 0 .. unread[c] - 1 : unread' = [unread EXCEPT ![c] = n]
TakeError(c) == link' = [link EXCEPT ![c] = "dead"]

\* What write(2) on descriptor f does; blocking, it waits while c is full.
Written(c)  == /\ link[c] \in {"up", "fin"} /\ c \notin full           \* n > 0
               /\ full' \in {full, full \cup {c}}
               /\ UNCHANGED <<link, unread, failed>>
NoRoom(f)   == link[owner[f]] \in {"up", "fin"} /\ owner[f] \in full
                 /\ f \in nonblock                                  \* EAGAIN
WriteFails(f) == NoRoom(f) \/ link[owner[f]] = "reset"          \* ECONNRESET
Writes(f) ==
  \/ Written(owner[f])
  \/ NoRoom(f) /\ UNCHANGED <<peerVars, failed>>
  \/ /\ link[owner[f]] = "reset" /\ TakeError(owner[f])
     /\ failed' = failed \cup {owner[f]}
     /\ UNCHANGED <<unread, full>>
\* After both ends were shut down write(2) raises SIGPIPE.
Signalled(f) == link[owner[f]] \in {"hung", "dead"} /\ ended' = "sigpipe"

\* close(2): epoll forgets the descriptor, the client may connect again.
Closes(f) ==
  LET c == owner[f] IN
  /\ owner' = [owner EXCEPT ![f] = Nobody]
  /\ nonblock' = nonblock \ {f} /\ watch' = watch \ {f} /\ lost' = lost \ {f}
  /\ link' = [link EXCEPT ![c] = "away"]
  /\ unread' = [unread EXCEPT ![c] = 0]
  /\ full' = full \ {c} /\ failed' = failed \ {c}

\* accept(2): a client of the backlog gets the lowest free descriptor.
Accepted(f, c) ==
  /\ c \in Queued
  /\ f \in 1 .. limit \ Open /\ \A g \in 1 .. limit \ Open : f =< g
  /\ owner' = [owner EXCEPT ![f] = c]
AcceptFails == 1 .. limit \subseteq Open                            \* EMFILE

\* EPOLL_CTL_ADD of f, which the kernel may refuse.
Added(f) ==
  \/ watch' = watch \cup {f} /\ UNCHANGED lost
  \/ lost' = lost \cup {f} /\ UNCHANGED watch

Ready(f) == /\ f \in watch
            /\ IF f = Listen THEN Queued # {}
               ELSE HasData(owner[f]) \/ link[owner[f]] # "up"

\* An event of f.  Only a reset can be seen as an error without EPOLLIN.
Events(f) ==
  IF f = Listen THEN {[fd |-> f, in |-> TRUE, for |-> Nobody]}
  ELSE {[fd |-> f, in |-> i, for |-> owner[f]] :
          i \in IF link[owner[f]] = "reset" THEN BOOLEAN ELSE {TRUE}}

\* The batches epoll_wait may return now, without an event twice.
Batches ==
  {es \in UNION {[1 .. n -> UNION {Events(f) : f \in {g \in {Listen} \cup Fds : Ready(g)}}]
                   : n \in 1 .. MaxEvents} :
     \A i, j \in DOMAIN es : es[i].fd = es[j].fd => i = j}

Waits == ended = "no" /\ pc = "loop" /\ batch = <<>>

epoll_wait ==
  /\ Waits
  /\ batch' \in Batches
  /\ UNCHANGED <<server, limit, peerVars, fdVars, pc, failed, ended>>

-----------------------------------------------------------------------------
(* The loop every program has: one event after the other. *)

Event(p) == Runs(p) /\ pc = "loop" /\ batch # <<>>
sock     == Head(batch).fd
conn     == owner[sock]
Continue == batch' = Tail(batch) /\ pc' = "loop"
Break    == batch' = <<>> /\ pc' = "loop"
Answer   == pc' = "reply" /\ UNCHANGED batch

\* The write that answers; its result decides nothing.
Reply(p) ==
  /\ Runs(p) /\ pc = "reply"
  /\ \/ Writes(sock) /\ Continue /\ UNCHANGED ended
     \/ Signalled(sock) /\ UNCHANGED <<peerVars, batch, pc, failed>>
  /\ UNCHANGED <<server, limit, fdVars>>

\* The program's set-up has ended, well or not.
Starts(p) ==
  /\ Runs(p) /\ pc = "start"
  /\ UNCHANGED <<server, limit, peerVars, owner, nonblock, lost, batch, failed>>
Listening == pc' = "loop" /\ watch' = {Listen} /\ UNCHANGED ended
Deaf      == pc' = "loop" /\ UNCHANGED <<watch, ended>>
Returns   == ended' = "returned" /\ UNCHANGED <<pc, watch>>

==============================================================================
