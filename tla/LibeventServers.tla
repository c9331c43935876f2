--------------------------- MODULE LibeventServers ---------------------------
(***************************************************************************)
(* libevent_demo/server.c, which reads and prints, and server_demo_1.c,    *)
(* which answers.  libevent calls the callback of a descriptor that epoll  *)
(* reports, for an error event too.                                        *)
(*                                                                         *)
(* Abstractions.  Neither program deletes the event of a connection it     *)
(* closes.  libevent, which still counts it, need not register the next    *)
(* connection with the same descriptor: to the program that is an          *)
(* event_add that failed, and Added has it.  If it does register, it calls *)
(* the callback once for every event of the descriptor; the second call    *)
(* finds what a later event would, or a closed descriptor.                 *)
(***************************************************************************)
EXTENDS Peers

\* A listening socket that could not be made is -1 and goes on to event_new;
\* libevent may wait for ever or have nothing to wait for.
libevent_start(p, listen_sock) ==
  /\ Starts(p)
  /\ \/ listen_sock = Listen /\ Listening
     \/ Deaf
     \/ Returns

\* A failed accept returns at once.
accept_cb(p) ==
  /\ Event(p) /\ sock = Listen
  /\ \/ AcceptFails /\ UNCHANGED fdVars
     \/ \E f \in Fds, c \in Conns :
          Accepted(f, c) /\ nonblock' = nonblock \cup {f} /\ Added(f)
  /\ Continue
  /\ UNCHANGED <<server, limit, peerVars, failed, ended>>

\* socket_read_cb up to the data: end of file and errors close.
socket_read_cb(p, then) ==
  /\ Event(p) /\ sock # Listen
  /\ \/ HasData(conn) /\ TakeData(conn) /\ then /\ UNCHANGED <<link, full, fdVars, failed>>
     \/ AtEnd(conn) /\ Closes(sock) /\ Continue
     \/ Broken(conn) /\ Closes(sock) /\ Continue
  /\ UNCHANGED <<server, limit, ended>>

-----------------------------------------------------------------------------
(* server.c *)

tcp_server_init == {Listen, -1}
server_c_main == \E s \in tcp_server_init : libevent_start("server", s)

server_c == server_c_main \/ accept_cb("server") \/ socket_read_cb("server", Continue)

-----------------------------------------------------------------------------
(* server_demo_1.c *)

reply_keeps == Writes(sock) /\ UNCHANGED fdVars    \* mutant: never closes
\* Every failure closes: the cases EINTR and EAGAIN fall through.
reply_or_close == \/ Written(conn) /\ UNCHANGED fdVars
                  \/ WriteFails(sock) /\ Closes(sock)

demo_1_reply ==
  /\ Runs("server_demo_1") /\ pc = "reply"
  /\ \/ reply_or_close /\ Continue /\ UNCHANGED ended
     \/ Signalled(sock) /\ UNCHANGED <<peerVars, fdVars, batch, pc, failed>>
  /\ UNCHANGED <<server, limit>>

demo_1_init == {Listen, -1}
demo_1_main == \E s \in demo_1_init : libevent_start("server_demo_1", s)
demo_1_accept == accept_cb("server_demo_1")
demo_1_read   == socket_read_cb("server_demo_1", Answer)

server_demo_1 == demo_1_main \/ demo_1_accept \/ demo_1_read \/ demo_1_reply

==============================================================================
