---------------------------- MODULE SocketServer ----------------------------
(***************************************************************************)
(* The socket server of skynet_net_demo/socket_server.c: a table of socket *)
(* slots owned by the thread that calls socket_server_poll, a control pipe *)
(* through which any thread sends it requests, and an epoll set.           *)
(*                                                                         *)
(* Abstractions.  A file descriptor is a small number, allocated lowest    *)
(* free first as POSIX does.  A write buffer list is only empty or not     *)
(* (module WriteQueue has its contents).  reserve_id is one step (module   *)
(* ReserveId has its interleavings) and a request is one element of the    *)
(* pipe (module CtrlPipe has its bytes).  What the network and the kernel  *)
(* answer is chosen nondeterministically.                                  *)
(***************************************************************************)
EXTENDS Integers, Sequences, WriteLists

CONSTANTS
  MaxSocket,    \* slots in the table (MAX_SOCKET, 65536 in the code)
  MaxEvents,    \* events one sp_wait can return (MAX_EVENTS, 50 in the code)
  MaxId,        \* bound: largest id reserve_id hands out before we stop
  MaxFd,        \* the descriptor limit of the process
  MaxPipe,      \* requests the control pipe holds before a write blocks
  Callers,      \* the threads that call socket_server_listen ... _nodelay
  SameThread    \* TRUE: they are called between polls by the polling thread

ASSUME SlotsAssumption  == MaxSocket \in Nat \ {0}
ASSUME BoundsAssumption == /\ MaxId \in Nat /\ MaxFd \in Nat
                           /\ MaxPipe \in Nat \ {0} /\ MaxEvents \in Nat \ {0}
ASSUME ThreadAssumption == SameThread \in BOOLEAN

Hash(id)   == id % MaxSocket                                   \* HASH_ID
Slots      == 0 .. MaxSocket - 1
Ids        == 1 .. MaxId
NoId       == -1
Fds        == 1 .. MaxFd
NoFd       == -1
NoSlot     == -1                          \* a NULL e->ptr; also the pipe's

Types     == {"INVALID", "RESERVE", "PLISTEN", "LISTEN", "CONNECTED",
              "HALFCLOSE", "PACCEPT"}
Unowned   == {"INVALID", "RESERVE"}             \* no descriptor behind them
Connected == {"CONNECTED", "HALFCLOSE", "PACCEPT"}      \* read() makes sense

Ops     == {"L", "S", "D", "P", "K", "O", "T"}
Request == {r \in [op : Ops, id : Ids, fd : Fds \cup {NoFd}, shutdown : BOOLEAN] :
              r.op = "L" => r.fd \in Fds}
NoRequest == [op |-> "none"]
Opens(r) == r.op \in {"L", "O"}          \* it is to take a reserved slot
Req(op, id) == [op |-> op, id |-> id, fd |-> NoFd, shutdown |-> FALSE]

Kinds   == {"none", "open", "accept", "data", "close", "error"}
Message == [kind : Kinds, id : Ids \cup {NoId}]
Silence == [kind |-> "none", id |-> NoId]

Event   == [slot : Slots \cup {NoSlot}, read : BOOLEAN, write : BOOLEAN,
            for : Ids \cup {NoId}]

VARIABLES
  type, sid, sfd,  \* s->type, s->id and s->fd of every slot
  out,             \* which of its two write buffer lists are not empty
  alloc_id,        \* the last id reserve_id tried
  reg, epollout,   \* epoll: the slot each descriptor points at; EPOLLOUT set
  open,            \* the descriptors of sockets that are open
  pipe,            \* requests written to the control pipe and not yet read
  req,             \* the request each caller is about to write to the pipe
  pc,              \* where socket_server_poll is
  check_ctrl,
  evs,             \* ss->evs[event_index .. event_n-1]
  result,          \* the message socket_server_poll has filled in
  aborted,         \* "no", or what stopped the process
  leaked           \* history: descriptors socket_server_listen forgot

slotVars  == <<type, sid, sfd, out>>
epollVars == <<reg, epollout, open>>
pollVars  == <<pc, check_ctrl, evs, result>>
callVars  == <<pipe, req>>
vars == <<slotVars, alloc_id, epollVars, callVars, pollVars, aborted, leaked>>

\* socket_server_create.
Init ==
  /\ type = [k \in Slots |-> "INVALID"]
  /\ sid = [k \in Slots |-> NoId]
  /\ sfd = [k \in Slots |-> NoFd]
  /\ out = [k \in Slots |-> {}]
  /\ alloc_id = 0
  /\ reg = [f \in Fds |-> NoSlot] /\ epollout = {} /\ open = {}
  /\ pipe = <<>> /\ req = [u \in Callers |-> NoRequest]
  /\ pc = "out" /\ check_ctrl = TRUE /\ evs = <<>>
  /\ result = Silence /\ aborted = "no" /\ leaked = {}

-----------------------------------------------------------------------------
(* Steps that several operations share. *)

\* A descriptor the kernel may return: the lowest that is not open.
NewFd(f) == f \in Fds \ open /\ \A g \in Fds \ open : f =< g

Reserves_any(id, n) ==                    \* mutant: the type is not looked at
  n = 1 /\ id = alloc_id + 1 /\ id =< MaxId

\* reserve_id finds slot Hash(id) free after n increments of alloc_id ...
Reserves(id, n) ==
  /\ n \in 1 .. MaxSocket
  /\ id = alloc_id + n /\ id =< MaxId
  /\ type[Hash(id)] = "INVALID"
  /\ \A i \in 1 .. n - 1 : type[Hash(alloc_id + i)] # "INVALID"

\* ... or has tried every slot and returns -1.
ReserveFails ==
  /\ alloc_id + MaxSocket =< MaxId
  /\ \A i \in 1 .. MaxSocket : type[Hash(alloc_id + i)] # "INVALID"

SpAddSucceeds_mod(f) == TRUE                 \* mutant: EPOLL_CTL_MOD instead

\* sp_add: EEXIST if the descriptor is already in the epoll set; the kernel
\* may also refuse for want of memory or watches.
SpAddSucceeds(f) == reg[f] = NoSlot

Freed(k, t) ==
  /\ type' = [type EXCEPT ![k] = t]
  /\ out' = [out EXCEPT ![k] = {}]
  /\ reg' = [f \in Fds |-> IF f = sfd[k] THEN NoSlot ELSE reg[f]]
  /\ epollout' = epollout \ {sfd[k]}
  /\ open' = open \ {sfd[k]}

force_close_marks(k) == Freed(k, "CLOSE")    \* mutant: type CLOSE, not INVALID
force_close_keeps(k) == Freed(k, type[k])    \* mutant: type not reset
force_close_any(k)   == Freed(k, "INVALID")  \* mutant: no early return
force_close_leaks(k) ==                      \* mutant: close(s->fd) forgotten
  IF type[k] \in Unowned
  THEN UNCHANGED <<type, out, reg, epollout, open>>
  ELSE /\ type' = [type EXCEPT ![k] = "INVALID"]
       /\ out' = [out EXCEPT ![k] = {}]
       /\ reg' = [reg EXCEPT ![sfd[k]] = NoSlot]
       /\ epollout' = epollout \ {sfd[k]}
       /\ UNCHANGED open

\* force_close: nothing for a slot without a socket; otherwise the lists are
\* freed, the descriptor is closed (which takes it out of the epoll set) and
\* the slot is INVALID.  s->id and s->fd keep their values.
force_close(k) ==
  IF type[k] \in Unowned
  THEN UNCHANGED <<type, out, reg, epollout, open>>
  ELSE Freed(k, "INVALID")

new_fd_unpolled(id, f, t, add) ==            \* mutant: add is ignored
  LET k == Hash(id) IN
  /\ type' = [type EXCEPT ![k] = t]
  /\ sid' = [sid EXCEPT ![k] = id]
  /\ sfd' = [sfd EXCEPT ![k] = f]
  /\ out' = [out EXCEPT ![k] = {}]
  /\ UNCHANGED reg

\* new_fd(..., add) for the reserved slot of id, which becomes t.
new_fd(id, f, t, add) ==
  LET k == Hash(id) IN
  /\ type' = [type EXCEPT ![k] = t]
  /\ sid' = [sid EXCEPT ![k] = id]
  /\ sfd' = [sfd EXCEPT ![k] = f]
  /\ out' = [out EXCEPT ![k] = {}]
  /\ reg' = IF add THEN [reg EXCEPT ![f] = k] ELSE reg

Delivering_all == Connected                     \* mutant: HALFCLOSE delivers too
\* The sockets whose data is delivered; a HALFCLOSE socket drops it.
Delivering == Connected \ {"HALFCLOSE"}

\* The message for the caller of socket_server_poll; NoId for an id that was
\* never written.
Report(kind, id) == result' = [kind |-> kind, id |-> id]

-----------------------------------------------------------------------------
(* The calls other code makes: each prepares a request (here) and then     *)
(* writes it to the pipe (send_request).                                   *)

CanCall(u) ==
  /\ aborted = "no" /\ req[u] = NoRequest
  /\ SameThread => /\ pc = "out" /\ Len(pipe) < MaxPipe
                   /\ \A v \in Callers : req[v] = NoRequest

\* Ids a caller can pass: any that listen, connect or an accept has given out,
\* but not one whose call has not returned.  (reserve_id skips some; they are to
\* the server what an id long closed is.)
Known == {id \in 1 .. alloc_id :
            \A u \in Callers : req[u] # NoRequest =>
              ~(Opens(req[u]) /\ req[u].id = id)}

Prepare(u, r) == req' = [req EXCEPT ![u] = r]

Reserve(u, r, n) ==
  /\ Reserves(r.id, n)
  /\ alloc_id' = r.id
  /\ type' = [type EXCEPT ![Hash(r.id)] = "RESERVE"]
  /\ sid' = [sid EXCEPT ![Hash(r.id)] = r.id]
  /\ sfd' = [sfd EXCEPT ![Hash(r.id)] = NoFd]
  /\ Prepare(u, r)

\* do_listen has a socket f; it may lose it at a failed bind, and the rest of
\* the call when no id is free.  Before that, ai_list is read although
\* getaddrinfo failed.
socket_server_listen(u) ==
  /\ CanCall(u)
  /\ \/ \E f \in Fds :
          /\ NewFd(f)
          /\ open' = open \cup {f}
          /\ \/ /\ \E id \in Ids, n \in 1 .. MaxSocket :
                     Reserve(u, [Req("L", id) EXCEPT !.fd = f], n)
                /\ UNCHANGED leaked
             \/ /\ UNCHANGED alloc_id                             \* bind
                /\ leaked' = leaked \cup {f}
                /\ UNCHANGED <<type, sid, sfd, req>>
             \/ /\ ReserveFails
                /\ alloc_id' = alloc_id + MaxSocket
                /\ leaked' = leaked \cup {f}
                /\ UNCHANGED <<type, sid, sfd, req>>
          /\ UNCHANGED aborted
     \/ /\ aborted' = "ai_list"
        /\ UNCHANGED <<type, sid, sfd, alloc_id, open, req, leaked>>
  /\ UNCHANGED <<out, reg, epollout, pipe, pollVars>>

\* open_request and the rest of socket_server_connect.
socket_server_connect(u) ==
  /\ CanCall(u)
  /\ \/ \E id \in Ids, n \in 1 .. MaxSocket : Reserve(u, Req("O", id), n)
     \/ /\ ReserveFails
        /\ alloc_id' = alloc_id + MaxSocket
        /\ UNCHANGED <<type, sid, sfd, req>>
  /\ UNCHANGED <<out, epollVars, pipe, pollVars, aborted, leaked>>

\* The assertion reads the slot as it is now: it stops the process when
\* another socket has taken the slot since.
socket_server_start(u) ==
  /\ CanCall(u)
  /\ \E id \in Known :
       IF sid[Hash(id)] = id
       THEN Prepare(u, Req("S", id)) /\ UNCHANGED aborted
       ELSE aborted' = "start" /\ UNCHANGED req
  /\ UNCHANGED <<slotVars, alloc_id, epollVars, pipe, pollVars, leaked>>

\* socket_server_send and socket_server_send_lowpriority.
socket_server_send(u) ==
  /\ CanCall(u)
  /\ \E id \in Known, op \in {"D", "P"} :
       /\ type[Hash(id)] # "INVALID" /\ sid[Hash(id)] = id
       /\ Prepare(u, Req(op, id))
  /\ UNCHANGED <<slotVars, alloc_id, epollVars, pipe, pollVars,
                 aborted, leaked>>

\* socket_server_close, socket_server_shutdown and socket_server_nodelay.
socket_server_close(u) ==
  /\ CanCall(u)
  /\ \E id \in Known, r \in [shutdown : BOOLEAN, op : {"K", "T"}] :
       /\ r.op = "T" => ~r.shutdown
       /\ Prepare(u, [Req(r.op, id) EXCEPT !.shutdown = r.shutdown])
  /\ UNCHANGED <<slotVars, alloc_id, epollVars, pipe, pollVars,
                 aborted, leaked>>

\* The write blocks while the pipe is full; then the call returns, and with it
\* the id of a listen or connect.
send_request(u) ==
  /\ aborted = "no" /\ req[u] # NoRequest
  /\ Len(pipe) < MaxPipe
  /\ pipe' = Append(pipe, req[u])
  /\ req' = [req EXCEPT ![u] = NoRequest]
  /\ UNCHANGED <<slotVars, alloc_id, epollVars, pollVars, aborted, leaked>>

-----------------------------------------------------------------------------
(* socket_server_poll, requests first. *)

PollCall ==
  /\ aborted = "no" /\ pc = "out"
  /\ SameThread => \A u \in Callers : req[u] = NoRequest
  /\ pc' = "loop"
  /\ result' = Silence
  /\ UNCHANGED <<slotVars, alloc_id, epollVars, callVars, check_ctrl, evs,
                 aborted, leaked>>

\* ctrl_cmd takes the request at the head of the pipe.
Cmd(ops) ==
  /\ aborted = "no" /\ pc = "loop" /\ check_ctrl
  /\ pipe # <<>> /\ Head(pipe).op \in ops
  /\ pipe' = Tail(pipe)
  /\ UNCHANGED <<alloc_id, req, check_ctrl, evs, leaked>>

\* ctrl_cmd returned -1: socket_server_poll continues.
NoAnswer == pc' = "loop" /\ UNCHANGED result

\* The process ends in the middle of a handler: a failed assertion, a pointer
\* never set, or a write to a connection the peer has closed and reset.
Killed(by) ==
  aborted' = by /\ NoAnswer /\ UNCHANGED <<slotVars, epollVars>>

Answer_clears_errors(kind, id) ==            \* mutant: not for SOCKET_CLOSE
  /\ Report(kind, id)
  /\ pc' = IF kind = "error" THEN "clear" ELSE "out"

\* ctrl_cmd returned a message type: clear_close_event, then return it.
Answer(kind, id) ==
  /\ Report(kind, id)
  /\ pc' = IF kind \in {"close", "error"} THEN "clear" ELSE "out"

listen_socket ==
  /\ Cmd({"L"})
  /\ LET r == Head(pipe) IN
     IF type[Hash(r.id)] = "RESERVE"
     THEN /\ new_fd(r.id, r.fd, "PLISTEN", FALSE)
          /\ NoAnswer
          /\ UNCHANGED <<epollout, open, aborted>>
     ELSE Killed("new_fd")

start_socket ==
  /\ Cmd({"S"})
  /\ LET id == Head(pipe).id  k == Hash(id) IN
     \/ /\ type[k] \in Unowned \/ sid[k] # id               \* invalid socket
        /\ Answer("error", id) /\ UNCHANGED <<slotVars, epollVars>>
     \/ /\ type[k] \in {"PLISTEN", "PACCEPT"} /\ sid[k] = id
        /\ \/ /\ SpAddSucceeds(sfd[k])
              /\ reg' = [reg EXCEPT ![sfd[k]] = k]
              /\ type' = [type EXCEPT ![k] =
                            IF @ = "PACCEPT" THEN "CONNECTED" ELSE "LISTEN"]
              /\ Answer("open", id)
              /\ UNCHANGED <<sid, sfd, out, epollout, open>>
           \/ force_close(k) /\ Answer("error", id) /\ UNCHANGED <<sid, sfd>>
     \/ /\ type[k] = "CONNECTED" /\ sid[k] = id                 \* transfer
        /\ Answer("open", id) /\ UNCHANGED <<slotVars, epollVars>>
     \/ /\ type[k] \in {"LISTEN", "HALFCLOSE"} /\ sid[k] = id
        /\ NoAnswer /\ UNCHANGED <<slotVars, epollVars>>
  /\ UNCHANGED aborted

Sendable_type(id) == type[Hash(id)] = "CONNECTED"   \* mutant: s->id ignored
\* send_socket takes data for a CONNECTED socket only.  With both lists empty
\* it writes at once and keeps the rest in high, whatever the priority.
Sendable_half(id) ==                         \* mutant: HALFCLOSE not refused
  type[Hash(id)] \in {"CONNECTED", "HALFCLOSE"} /\ sid[Hash(id)] = id
Sendable(id) == type[Hash(id)] = "CONNECTED" /\ sid[Hash(id)] = id

send_socket ==
  /\ Cmd({"D", "P"})
  /\ LET r == Head(pipe)  k == Hash(r.id) IN
     \/ /\ ~Sendable(r.id) \/ out[k] = {}            \* refused, or all written
        /\ NoAnswer /\ UNCHANGED <<slotVars, epollVars, aborted>>
     \/ /\ Sendable(r.id) /\ out[k] = {}                \* some of it, or none
        /\ out' = [out EXCEPT ![k] = {"high"}]
        /\ epollout' = epollout \cup {sfd[k]}
        /\ NoAnswer /\ UNCHANGED <<type, sid, sfd, reg, open, aborted>>
     \/ /\ Sendable(r.id) /\ out[k] = {}                     \* write error
        /\ force_close(k)
        /\ Answer("close", r.id) /\ UNCHANGED <<sid, sfd, aborted>>
     \/ /\ Sendable(r.id) /\ out[k] = {} /\ Killed("SIGPIPE")
     \/ /\ Sendable(r.id) /\ out[k] # {}
        /\ out' = [out EXCEPT ![k] =
                     @ \cup {IF r.op = "D" THEN "high" ELSE "low"}]
        /\ NoAnswer /\ UNCHANGED <<type, sid, sfd, epollVars, aborted>>

\* An empty socket is closed now, and so is one whose lists send_buffer drains
\* or breaks, or that is shut down; one with data left becomes HALFCLOSE.
close_socket ==
  /\ Cmd({"K"})
  /\ LET r == Head(pipe)  k == Hash(r.id) IN
     \/ /\ type[k] = "INVALID" \/ sid[k] # r.id
        /\ Answer("close", r.id) /\ UNCHANGED <<slotVars, epollVars, aborted>>
     \/ /\ type[k] # "INVALID" /\ sid[k] = r.id
        /\ force_close(k)
        /\ Answer("close", r.id) /\ UNCHANGED <<sid, sfd, aborted>>
     \/ /\ type[k] # "INVALID" /\ sid[k] = r.id
        /\ \E o \in Lingers(r, out[k]) : out' = [out EXCEPT ![k] = o]
        /\ type' = [type EXCEPT ![k] = "HALFCLOSE"]
        /\ NoAnswer /\ UNCHANGED <<sid, sfd, epollVars, aborted>>
     \/ /\ sid[k] = r.id /\ out[k] # {} /\ Killed("SIGPIPE")

\* Every failure, a connect in progress included, is silent and leaves the
\* slot RESERVE; only new_fd gives the slot back.
open_socket ==
  /\ Cmd({"O"})
  /\ LET id == Head(pipe).id  k == Hash(id) IN
     \/ NoAnswer /\ UNCHANGED <<slotVars, epollVars, aborted>>
     \/ Killed("ai_list")            \* freed after getaddrinfo did not set it
     \/ \E f \in Fds :
          /\ NewFd(f)
          /\ IF type[k] = "RESERVE"
             THEN /\ \/ /\ SpAddSucceeds(f)
                        /\ new_fd(id, f, "CONNECTED", TRUE)
                        /\ open' = open \cup {f}
                        /\ Answer("open", id)
                     \/ /\ type' = [type EXCEPT ![k] = "INVALID"]
                        /\ NoAnswer /\ UNCHANGED <<sid, sfd, out, reg, open>>
                  /\ UNCHANGED <<epollout, aborted>>
             ELSE Killed("new_fd")

set_sockopt ==
  /\ Cmd({"T"})
  /\ NoAnswer /\ UNCHANGED <<slotVars, epollVars, aborted>>

\* The first remaining event of a slot that was just invalidated under the id
\* reported is forgotten.
clear_close_event ==
  /\ aborted = "no" /\ pc = "clear"
  /\ LET Stale(i) == /\ evs[i].slot # NoSlot
                     /\ type[evs[i].slot] = "INVALID"
                     /\ sid[evs[i].slot] = result.id
     IN  evs' = [i \in DOMAIN evs |->
                   IF Stale(i) /\ \A j \in 1 .. i - 1 : ~Stale(j)
                   THEN [evs[i] EXCEPT !.slot = NoSlot] ELSE evs[i]]
  /\ pc' = "out"
  /\ UNCHANGED <<slotVars, alloc_id, epollVars, callVars, check_ctrl, result,
                 aborted, leaked>>

-----------------------------------------------------------------------------
(* socket_server_poll, then events. *)

NoCmd ==
  /\ aborted = "no" /\ pc = "loop"
  /\ ~check_ctrl \/ pipe = <<>>
  /\ check_ctrl' = FALSE
  /\ pc' = "dispatch"
  /\ UNCHANGED <<slotVars, alloc_id, epollVars, callVars, evs, result,
                 aborted, leaked>>

\* What sp_wait may report of descriptor f.
Ready(f) ==
  {e \in [slot : {reg[f]}, read : BOOLEAN, write : BOOLEAN,
          for : {sid[reg[f]]}] :
     (e.read \/ e.write) /\ (e.write => f \in epollout)}
PipeReady == [slot |-> NoSlot, read |-> TRUE, write |-> FALSE, for |-> NoId]

Recheck_never == UNCHANGED check_ctrl        \* mutant: check_ctrl not set again
\* Requests come first again once sp_wait has returned.
Recheck == check_ctrl' = TRUE

\* sp_wait returns at least one event, at most one of a descriptor, 0 standing
\* for the control pipe.
sp_wait ==
  /\ aborted = "no" /\ pc = "dispatch" /\ evs = <<>>
  /\ Recheck
  /\ \E n \in 1 .. MaxEvents :
     \E fs \in [1 .. n -> {f \in Fds : reg[f] # NoSlot}
                          \cup (IF pipe = <<>> THEN {} ELSE {0})] :
        /\ \A i, j \in 1 .. n : fs[i] = fs[j] => i = j
        /\ evs' \in {es \in [1 .. n -> UNION {IF fs[i] = 0 THEN {PipeReady}
                                              ELSE Ready(fs[i]) : i \in 1 .. n}] :
                       \A i \in 1 .. n :
                         es[i] \in IF fs[i] = 0 THEN {PipeReady}
                                   ELSE Ready(fs[i])}
  /\ UNCHANGED <<slotVars, alloc_id, epollVars, callVars, pc, result,
                 aborted, leaked>>

\* sp_wait fails (a signal): socket_server_poll returns -1.
sp_wait_fails ==
  /\ aborted = "no" /\ pc = "dispatch" /\ evs = <<>>
  /\ Recheck
  /\ pc' = "out"
  /\ UNCHANGED <<slotVars, alloc_id, epollVars, callVars, evs, result,
                 aborted, leaked>>

Dispatch(s) ==
  /\ aborted = "no" /\ pc = "dispatch" /\ evs # <<>>
  /\ Head(evs).slot \in s
  /\ UNCHANGED <<pipe, req, check_ctrl, leaked>>

Return_loops(kind, id) ==                    \* mutant: break, not return type
  Report(kind, id) /\ pc' = IF kind = "close" THEN "loop" ELSE "out"
Return(kind, id) == Report(kind, id) /\ pc' = "out"

skip_null ==
  /\ Dispatch({NoSlot})
  /\ evs' = Tail(evs)
  /\ NoAnswer
  /\ UNCHANGED <<slotVars, alloc_id, epollVars, aborted>>

\* SOCKET_ERROR for anything but success; unless the process is out of
\* descriptors the message is whatever the caller's stack held.
report_accept ==
  /\ Dispatch({k \in Slots : type[k] = "LISTEN"})
  /\ evs' = Tail(evs)
  /\ LET k == Head(evs).slot IN
     \/ /\ open = Fds                                                \* EMFILE
        /\ Return("error", sid[k])
        /\ UNCHANGED <<slotVars, alloc_id, epollVars>>
     \/ /\ Return("error", NoId)
        /\ UNCHANGED <<slotVars, epollVars>>
        /\ \/ UNCHANGED alloc_id
           \/ open # Fds /\ ReserveFails /\ alloc_id' = alloc_id + MaxSocket
     \/ \E f \in Fds, id \in Ids, n \in 1 .. MaxSocket :
          /\ NewFd(f) /\ Reserves(id, n) /\ alloc_id' = id
          /\ UNCHANGED epollout
          /\ \/ /\ SpAddSucceeds(f)
                /\ new_fd(id, f, "PACCEPT", TRUE)
                /\ open' = open \cup {f}
                /\ Return("accept", sid[k])
             \/ /\ Return("error", NoId)
                /\ sid' = [sid EXCEPT ![Hash(id)] = id]
                /\ sfd' = [sfd EXCEPT ![Hash(id)] = NoFd]
                /\ UNCHANGED <<type, out, reg, open>>
  /\ UNCHANGED aborted

\* A read event of any slot that is not listening, in four outcomes.  Anything
\* but a connection can only fail.  EAGAIN is reported as data like a read, and
\* on a HALFCLOSE socket frees the buffer twice, which may stop the process.
forword_message_tcp ==
  /\ Dispatch({k \in Slots : type[k] # "LISTEN"})
  /\ Head(evs).read
  /\ LET e == Head(evs)  k == e.slot
         Again == IF e.write THEN <<[e EXCEPT !.read = FALSE]>> ELSE <<>>
     IN
     \/ /\ type[k] \in Delivering                            \* data or EAGAIN
        /\ Return("data", sid[k])
        /\ evs' = Again \o Tail(evs)
        /\ UNCHANGED <<type, out, epollVars, aborted>>
     \/ /\ type[k] = "HALFCLOSE"                              \* data or EAGAIN
        /\ NoAnswer
        /\ evs' = Again \o Tail(evs)
        /\ aborted' \in {"no", "double free"}
        /\ UNCHANGED <<type, out, epollVars>>
     \/ /\ type[k] \in Connected                               \* end of file
        /\ force_close(k) /\ Return("close", sid[k])
        /\ evs' = Tail(evs) /\ UNCHANGED aborted
     \/ /\ force_close(k) /\ Return("error", sid[k])           \* read error
        /\ evs' = Tail(evs) /\ UNCHANGED aborted
  /\ UNCHANGED <<sid, sfd, alloc_id>>

\* A write event.  EPOLLOUT is switched off, and a HALFCLOSE socket closed, by
\* the call that finds low empty and leaves high empty.
send_buffer ==
  /\ Dispatch({k \in Slots : type[k] # "LISTEN"})
  /\ ~Head(evs).read
  /\ evs' = Tail(evs)
  /\ LET k == Head(evs).slot IN
     \/ /\ out[k] # {}                                           \* write error
        /\ force_close(k) /\ Return("close", sid[k])
        /\ UNCHANGED <<sid, sfd, aborted>>
     \/ out[k] # {} /\ Killed("SIGPIPE")
     \/ \E o \in Left(out[k]) :
          /\ o # {} \/ "low" \in out[k]
          /\ out' = [out EXCEPT ![k] = o]
          /\ NoAnswer /\ UNCHANGED <<type, sid, sfd, epollVars, aborted>>
     \/ /\ "low" \notin out[k]
        /\ IF type[k] = "HALFCLOSE"
           THEN force_close(k) /\ Return("close", sid[k])
           ELSE /\ out' = [out EXCEPT ![k] = {}]
                /\ epollout' = epollout \ {sfd[k]}
                /\ NoAnswer /\ UNCHANGED <<type, reg, open>>
        /\ UNCHANGED <<sid, sfd, aborted>>
  /\ UNCHANGED alloc_id

-----------------------------------------------------------------------------
Call(u) ==
  \/ socket_server_listen(u) \/ socket_server_connect(u)
  \/ socket_server_start(u) \/ socket_server_send(u) \/ socket_server_close(u)

Poll ==
  \/ listen_socket \/ start_socket \/ send_socket \/ close_socket
  \/ open_socket \/ set_sockopt \/ clear_close_event
  \/ NoCmd \/ sp_wait \/ sp_wait_fails
  \/ skip_null \/ report_accept \/ forword_message_tcp \/ send_buffer

Next ==
  \/ \E u \in Callers : Call(u) \/ send_request(u)
  \/ PollCall \/ Poll

Spec == Init /\ [][Next]_vars

\* test.c polls in an endless loop; a blocked pipe write is served in turn.
FairSpec ==
  /\ Spec /\ WF_vars(PollCall \/ Poll)
  /\ \A u \in Callers : SF_vars(send_request(u))

-----------------------------------------------------------------------------
(* What should be true of the socket server. *)

InFlight == {r \in {pipe[i] : i \in 1 .. Len(pipe)}
                  \cup {req[u] : u \in Callers} : r # NoRequest}
Live == {k \in Slots : type[k] \notin Unowned}
Polled == {k \in Slots :
             type[k] \in {"LISTEN", "PACCEPT", "CONNECTED", "HALFCLOSE"}}

\* Every variable has its type; a slot without a socket has nothing to write,
\* one with a socket has a descriptor.
TypeOK ==
  /\ type \in [Slots -> Types]
  /\ sid \in [Slots -> Ids \cup {NoId}]
  /\ sfd \in [Slots -> Fds \cup {NoFd}]
  /\ out \in [Slots -> SUBSET Priorities]
  /\ \A k \in Slots : IF type[k] \in Unowned THEN out[k] = {} ELSE sfd[k] \in Fds
  /\ alloc_id \in 0 .. MaxId
  /\ reg \in [Fds -> Slots \cup {NoSlot}]
  /\ epollout \subseteq Fds /\ open \subseteq Fds /\ leaked \subseteq Fds
  /\ pipe \in Seq(Request) /\ Len(pipe) =< MaxPipe
  /\ req \in [Callers -> Request \cup {NoRequest}]
  /\ pc \in {"out", "loop", "clear", "dispatch"}
  /\ check_ctrl \in BOOLEAN
  /\ evs \in Seq(Event) /\ Len(evs) =< MaxEvents
  /\ result \in Message
  /\ aborted \in {"no", "new_fd", "start", "double free", "ai_list", "SIGPIPE"}

\* new_fd asserts that the slot of the id it is given is still RESERVE
\* (socket_server.c:302).  Between reserve_id and new_fd the request waits in
\* its caller's hands and in the pipe while sockets come and go: the assertion
\* never fails.
NewFdAssertHolds == aborted # "new_fd"

\* The reason: the slot of every listen or open request on its way is RESERVE
\* under the id of that request, and no other request on its way opens that id,
\* whoever else runs.
Reserved(id) == type[Hash(id)] = "RESERVE" /\ sid[Hash(id)] = id
ReservedUntilHandled ==
  /\ \A i \in 1 .. Len(pipe) : Opens(pipe[i]) =>
       /\ Reserved(pipe[i].id)
       /\ \A j \in 1 .. i - 1 : Opens(pipe[j]) => pipe[j].id # pipe[i].id
  /\ \A u \in Callers : Opens(req[u]) =>
       /\ Reserved(req[u].id)
       /\ \A v \in Callers \ {u} : Opens(req[v]) => req[v].id # req[u].id
       /\ \A i \in 1 .. Len(pipe) : Opens(pipe[i]) => pipe[i].id # req[u].id

\* The events left over from the last sp_wait point at sockets that requests
\* and earlier events may close in between.  If the server is called from one
\* thread, clear_close_event keeps every remaining event pointing at the socket
\* it was reported for, or nulled.
NoStaleDispatch ==
  pc # "clear" =>
    \A i \in 1 .. Len(evs) :
      evs[i].slot # NoSlot => /\ type[evs[i].slot] # "INVALID"
                              /\ sid[evs[i].slot] = evs[i].for

\* With callers in other threads reserve_id may take the slot between
\* force_close and clear_close_event (:827), which then clears nothing.  That is
\* the only way an event outlives its socket: while a slot has the id its event
\* was reported for, it has that id's socket.
StaleOnlyIfTaken ==
  pc # "clear" =>
    \A i \in 1 .. Len(evs) :
      /\ evs[i].slot # NoSlot
      /\ sid[evs[i].slot] = evs[i].for
      => type[evs[i].slot] \notin Unowned

\* What a caller looked at before it made a request (:1061, :1051) may be gone
\* when the request is handled: the slot may belong to a later id.  A request
\* changes nothing but the slot of its own id.
RequestsKeepToTheirId ==
  [][Len(pipe') < Len(pipe) =>
       \A k \in Slots :
         \/ sid[k] = Head(pipe).id
         \/ /\ type'[k] = type[k] /\ sid'[k] = sid[k]
            /\ sfd'[k] = sfd[k] /\ out'[k] = out[k]]_vars

\* No descriptor is lost or shared: the open descriptors are exactly those of
\* the sockets in the table and of the listen requests on their way, each with
\* one owner, and those socket_server_listen loses when bind fails (:995) or no
\* id is free (:1031).
Owners(f) == {k \in Live : sfd[k] = f}
Carriers(f) == {r \in InFlight : r.op = "L" /\ r.fd = f}
FdOwnership ==
  \A f \in Fds :
    /\ f \in open <=> f \in leaked \/ Owners(f) # {} \/ Carriers(f) # {}
    /\ Owners(f) # {} => Carriers(f) = {}
    /\ \A k, l \in Owners(f) : k = l

\* The epoll set and the table agree: a registered descriptor points at the one
\* slot that owns it, and every socket that expects events is registered.
EpollMatchesTable ==
  /\ \A f \in Fds : reg[f] # NoSlot => reg[f] \in Polled /\ sfd[reg[f]] = f
  /\ \A k \in Polled : reg[sfd[k]] = k
  /\ epollout \subseteq {f \in Fds : reg[f] # NoSlot}

\* Data waiting in a write buffer, and a HALFCLOSE socket waiting to be closed
\* even after its buffers drained, are only ever looked at on an EPOLLOUT
\* event: EPOLLOUT is switched on whenever a socket needs it.
WriteInterestKept ==
  \A k \in Slots :
    out[k] # {} \/ type[k] = "HALFCLOSE" =>
      type[k] \in {"CONNECTED", "HALFCLOSE"} /\ sfd[k] \in epollout

\* A socket never disappears in silence: the step that makes its slot INVALID
\* has filled in a close or error message with its id, on its way to the
\* caller of socket_server_poll.
NoSilentClose ==
  [][\A k \in Live : type'[k] = "INVALID" =>
       /\ result'.kind \in {"close", "error"} /\ result'.id = sid[k]
       /\ pc' \in {"out", "clear"}]_vars

\* SOCKET_CLOSE is the last word on an id: it is sent when the id has no socket
\* and no request that could give it one, and an id in that state stays in it
\* and never gets an open, accept or data message again.
Closed(id) == sid[Hash(id)] # id \/ type[Hash(id)] \in Unowned
Finished(id) == /\ id =< alloc_id /\ Closed(id)
                /\ \A r \in InFlight : Opens(r) => r.id # id
CloseIsFinal ==
  [][\A id \in Ids :
       /\ Finished(id) => /\ Finished(id)'
                          /\ result'.id = id =>
                               result'.kind \notin {"open", "accept", "data"}
       /\ result' = [kind |-> "close", id |-> id] => Finished(id)']_vars

\* A half-closed socket can only be closed: whatever requests and events still
\* find it, it is never revived and never reports data, and what it has left to
\* write only drains.  No later send adds to that, even when a write event has
\* emptied the lists and the socket waits for the next one (:605).
HalfCloseOnlyCloses ==
  [][\A k \in Slots : type[k] = "HALFCLOSE" =>
       /\ type'[k] \in {"HALFCLOSE", "INVALID"}
       /\ out'[k] \in Left(out[k])
       /\ Len(pipe') < Len(pipe) /\ Head(pipe).op \in {"D", "P"} =>
            type'[k] = "HALFCLOSE" /\ out'[k] = out[k]
       /\ result' # result /\ result'.id = sid[k] =>
            result'.kind \in {"none", "close", "error"}]_vars

\* report_accept registers the descriptor of an accepted connection, so the
\* sp_add of start_socket finds it registered: the PACCEPT to CONNECTED branch
\* (:411) is dead and starting an accepted connection closes it.
AcceptedNeverConnected ==
  [][\A k \in Slots : type[k] = "PACCEPT" =>
       type'[k] \in {"PACCEPT", "INVALID"}]_vars

\* A slot whose open failed stays RESERVE for ever: once its open or listen
\* request has left the pipe, no call and no event frees it.
FailedOpenKeepsSlot ==
  [][\A k \in Slots :
       /\ type[k] = "RESERVE"
       /\ ~\E r \in InFlight : Opens(r) /\ r.id = sid[k]
       => type'[k] = "RESERVE"]_vars

\* A shutdown request, once in the pipe, takes its socket out of the table or
\* finds none there, whatever other requests and events come in between.
Shutdown(id) == \E i \in 1 .. Len(pipe) :
                  pipe[i].op = "K" /\ pipe[i].id = id /\ pipe[i].shutdown
ShutdownTakesEffect ==
  \A id \in Ids : Shutdown(id) ~> Closed(id) \/ aborted # "no"

\* No caller stays blocked on the full pipe.
CallsReturn ==
  \A u \in Callers : req[u] # NoRequest ~> req[u] = NoRequest \/ aborted # "no"

\* socket_server_start asserts that the slot of the id still carries it
\* (:1051), although start_socket has an answer, "invalid socket", for an id
\* that does not.
StartAssertHolds == aborted # "start"

=============================================================================
