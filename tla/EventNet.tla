------------------------------- MODULE EventNet -------------------------------
(***************************************************************************)
(* event_net/: an epoll loop that calls the read callback of each event    *)
(* and, if it returned more than 0, the write callback.  The callbacks of  *)
(* the listening socket are accept_sock and NULL.                          *)
(*                                                                         *)
(* Two functions end without a return statement and their values are used: *)
(* socket_server_init, whose value main dereferences, and accept_sock,     *)
(* whose value decides whether the NULL callback is called.                *)
(***************************************************************************)
EXTENDS Peers

Crash == ended' = "crashed"

\* socket_server_init: whether the value main finds is the server.
socket_server_init == BOOLEAN

\* do_listen: the listening socket, or -1 if any call fails.
event_net_do_listen == {Listen, -1}

\* main: neither the failure of epoll_create (sp_invalid looks for 0) nor that
\* of socket_listen is noticed.
event_net_start ==
  /\ Starts("event_net")
  /\ \E q \in socket_server_init, s \in event_net_do_listen :
       \/ ~q /\ Crash /\ UNCHANGED <<pc, watch>>
       \/ q /\ s = Listen /\ Listening
       \/ q /\ Deaf

set_nonblocking_listen(f) ==           \* mutant: sock instead of new_sock
  nonblock' = nonblock \cup {Listen}
set_nonblocking(f) == nonblock' = nonblock \cup {f}

\* create_event ignores the result of sp_add.
create_event(f) == Added(f)

\* accept_sock and connection_callback; back in sp_wait, a value above 0 calls
\* NULL.
accept_sock ==
  /\ Event("event_net") /\ sock = Listen
  /\ \/ AcceptFails /\ UNCHANGED <<fdVars, ended>>
     \/ /\ \E f \in Fds, c \in Conns :
             Accepted(f, c) /\ set_nonblocking(f) /\ create_event(f)
        /\ UNCHANGED ended \/ Crash
  /\ Continue
  /\ UNCHANGED <<server, limit, peerVars, failed>>

event_force_close_not(f) == UNCHANGED <<peerVars, fdVars, failed>>  \* mutant
\* force_close: close, which takes the descriptor out of the epoll set.
event_force_close(f) == Closes(f)

\* event_read_callback and recv_handle.
recv_handle ==
  /\ Event("event_net") /\ sock # Listen /\ Head(batch).in
  /\ \/ /\ HasData(conn) /\ TakeData(conn) /\ Answer
        /\ UNCHANGED <<link, full, fdVars, failed>>
     \/ AtEnd(conn) /\ event_force_close(sock) /\ Continue
     \/ Broken(conn) /\ event_force_close(sock) /\ Continue
  /\ UNCHANGED <<server, limit, ended>>

\* event_write_callback and write_handle: no failure closes.
write_handle == Reply("event_net")

\* An error event: the rest of the batch is dropped.
event_net_error ==
  /\ Event("event_net") /\ ~Head(batch).in
  /\ Break
  /\ UNCHANGED <<server, limit, peerVars, fdVars, failed, ended>>

event_net == \/ event_net_start \/ accept_sock \/ recv_handle \/ write_handle
             \/ event_net_error

==============================================================================
