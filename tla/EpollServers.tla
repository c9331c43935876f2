---------------------------- MODULE EpollServers ----------------------------
(***************************************************************************)
(* The epoll servers net_demo2/sp_main.c, net_demo2/k_server.c and         *)
(* net/test_server.c: one loop over the events of one epoll_wait, in three *)
(* versions.  Nobody asks for EPOLLOUT, so that an event has EPOLLIN or    *)
(* neither, and the branches for EPOLLOUT alone are never taken.           *)
(***************************************************************************)
EXTENDS Peers

\* sp_add, and epoll_ctl where a program calls it itself; nobody looks at the
\* result for a connection.
sp_add(f) == Added(f)

\* sp_noblocking, in the program that calls it.
sp_noblocking(f, called) == nonblock' = IF called THEN nonblock \cup {f} ELSE nonblock

accept_forgotten(flags) ==                   \* mutant: sp_add left out
  /\ sock = Listen
  /\ Continue
  /\ \/ AcceptFails /\ UNCHANGED fdVars
     \/ \E f \in Fds, c \in Conns :
          Accepted(f, c) /\ sp_noblocking(f, flags) /\ UNCHANGED <<watch, lost>>
  /\ UNCHANGED <<server, limit, peerVars, failed, ended>>
\* accept and sp_add.  A failed accept is added too, as descriptor -1, which
\* epoll refuses.
accept_and_add(flags) ==
  /\ sock = Listen
  /\ Continue
  /\ \/ AcceptFails /\ UNCHANGED fdVars
     \/ \E f \in Fds, c \in Conns :
          Accepted(f, c) /\ sp_noblocking(f, flags) /\ sp_add(f)
  /\ UNCHANGED <<server, limit, peerVars, failed, ended>>

\* read, for the programs that go on after an error; it finds something, for
\* the event is of this connection.
Unread(c) == \/ HasData(c) /\ TakeData(c) /\ UNCHANGED link
             \/ Broken(c) /\ TakeError(c) /\ UNCHANGED unread

-----------------------------------------------------------------------------
(* net_demo2/sp_main.c *)

\* do_listen: the listening socket, or -1 if any call fails.
sp_main_do_listen == {Listen, -1}

\* Every failure of the set-up ends the program.
sp_main_start ==
  /\ Starts("sp_main")
  /\ \E s \in sp_main_do_listen : (s = Listen /\ Listening) \/ Returns

sp_main_accept == Event("sp_main") /\ accept_and_add(TRUE)

\* recv_info: whatever read returns, end of file and errors included, it only
\* prints.
recv_info(c) ==
  /\ UNCHANGED <<full, fdVars, failed>>
  /\ \/ Unread(c)
     \/ AtEnd(c) /\ UNCHANGED <<link, unread>>

sp_main_recv ==
  /\ Event("sp_main") /\ sock # Listen /\ Head(batch).in
  /\ recv_info(conn)
  /\ Continue
  /\ UNCHANGED <<server, limit, ended>>

\* An error event: the rest of the batch is dropped.
sp_main_error ==
  /\ Event("sp_main") /\ sock # Listen /\ ~Head(batch).in
  /\ Break
  /\ UNCHANGED <<server, limit, peerVars, fdVars, failed, ended>>

sp_main == sp_main_start \/ sp_main_accept \/ sp_main_recv \/ sp_main_error

-----------------------------------------------------------------------------
(* net_demo2/k_server.c *)

\* Nothing of the set-up is checked.
k_server_start == Starts("k_server") /\ (Listening \/ Deaf)

k_server_accept == Event("k_server") /\ accept_and_add(FALSE)

\* EPOLL_CTL_DEL and close.
k_server_close(f) == Closes(f)

k_server_end_returns ==                      \* mutant: return for continue
  ended' = "returned" /\ UNCHANGED <<peerVars, fdVars, failed, batch, pc>>
k_server_end == k_server_close(sock) /\ Continue /\ UNCHANGED ended

\* End of file closes; anything else, an error too, is answered.
k_server_read ==
  /\ Event("k_server") /\ sock # Listen /\ Head(batch).in
  /\ \/ AtEnd(conn) /\ k_server_end
     \/ Unread(conn) /\ Answer /\ UNCHANGED <<full, fdVars, failed, ended>>
  /\ UNCHANGED <<server, limit>>

\* An error event ends the program.
k_server_error ==
  /\ Event("k_server") /\ sock # Listen /\ ~Head(batch).in
  /\ ended' = "returned"
  /\ UNCHANGED <<server, limit, peerVars, fdVars, batch, pc, failed>>

k_server == \/ k_server_start \/ k_server_accept \/ k_server_read
            \/ k_server_error
            \/ Reply("k_server")

-----------------------------------------------------------------------------
(* net/test_server.c *)

test_server_start == Starts("test_server") /\ (Listening \/ Deaf)

test_server_accept == Event("test_server") /\ accept_and_add(FALSE)

AfterClose_answers == Answer                 \* mutant: continue left out
\* After EPOLL_CTL_DEL and close: the next event.
AfterClose == Continue

CloseOn_end(c) == AtEnd(c)                   \* mutant: only at end of file
\* End of file, and errors but EAGAIN and EINTR.
CloseOn(c) == AtEnd(c) \/ Broken(c)

\* An event without EPOLLIN is answered, for "EPOLLOUT && events" is true of
\* every event.
test_server_event ==
  /\ Event("test_server") /\ sock # Listen
  /\ \/ Head(batch).in /\ CloseOn(conn) /\ Closes(sock) /\ AfterClose
     \/ /\ Head(batch).in /\ ~CloseOn(conn)
        /\ Unread(conn) /\ Answer /\ UNCHANGED <<full, fdVars, failed>>
     \/ ~Head(batch).in /\ Answer /\ UNCHANGED <<peerVars, fdVars, failed>>
  /\ UNCHANGED <<server, limit, ended>>

test_server == \/ test_server_start \/ test_server_accept \/ test_server_event
               \/ Reply("test_server")

==============================================================================
