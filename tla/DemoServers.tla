----------------------------- MODULE DemoServers -----------------------------
(***************************************************************************)
(* The small servers of the repository under the same clients: what each   *)
(* of them can be relied on for.                                           *)
(***************************************************************************)
EXTENDS EpollServers, EventNet, LibeventServers

Programs == {"sp_main", "k_server", "test_server", "event_net",
             "server", "server_demo_1"}

Init == PeersInit(Programs)

Serve == \/ sp_main \/ k_server \/ test_server \/ event_net
         \/ server_c \/ server_demo_1
Next == Serve \/ epoll_wait \/ \E c \in Conns : Client(c)

Spec == Init /\ [][Next]_vars

\* The program is scheduled; the backlog is first in, first out, so that
\* nobody waits in it for ever; and epoll, which moves what it reports to the
\* end of its ready list, neither keeps a descriptor from the head of a batch
\* for ever nor always reports it in the moment of an error.
FairSpec ==
  /\ Spec /\ WF_vars(Serve) /\ WF_vars(epoll_wait)
  /\ \A c \in Conns : SF_vars(Serve /\ c \in Queued /\ c \notin Queued')
  /\ \A f \in {Listen} \cup Fds :
       SF_vars(epoll_wait /\ Head(batch').fd = f /\ Head(batch').in)

-----------------------------------------------------------------------------
\* Every variable has its type; only connections have O_NONBLOCK here.
TypeOK ==
  /\ server \in Programs /\ limit \in Fds
  /\ link \in [Conns -> Links] /\ unread \in [Conns -> 0 .. MaxUnread]
  /\ full \subseteq Conns /\ failed \subseteq Conns
  /\ owner \in [Fds -> Conns \cup {Nobody}]
  /\ watch \subseteq {Listen} \cup Fds
  /\ nonblock \subseteq Fds /\ lost \subseteq Fds
  /\ \A i \in DOMAIN batch :
       batch[i] \in [fd : {Listen} \cup Fds, in : BOOLEAN, for : Conns \cup {Nobody}]
  /\ pc \in {"start", "loop", "reply"}
  /\ ended \in {"no", "returned", "sigpipe", "crashed"}

\* No event of a batch is handled for a connection other than the one epoll
\* reported: a descriptor closed while the batch is worked off, and given out
\* again by an accept of the same batch, is not in the rest of it.  All programs
\* find the connection by the descriptor, or by a pointer event_net never frees.
EventsCurrent ==
  \A i \in DOMAIN batch :
    batch[i].fd # Listen => owner[batch[i].fd] = batch[i].for

\* Once it listens, no program ends, by itself or by SIGPIPE, but on account of
\* a connection that was reset: an orderly client never takes a server away
\* from the others.
OnlyResetsEnd ==
  pc # "start" /\ ended \in {"returned", "sigpipe"} =>
    link[conn] \in {"reset", "hung", "dead"}

\* Except in k_server, which answers a read error, SIGPIPE comes only from a
\* client that had finished before it reset, or after an earlier write to the
\* connection failed and the program (test_server, event_net) kept it;
\* server_demo_1, which closes at a failed write, is spared the second.
SignalOnlyAfterFailedReply ==
  ended = "sigpipe" /\ server # "k_server" =>
    link[conn] = "hung" \/ (conn \in failed /\ server # "server_demo_1")

\* The programs that leave O_NONBLOCK out, and the state they hang in.
Blocking == {"k_server", "test_server"}
Blocked == server \in Blocking /\ pc = "reply" /\ conn \in full

\* c's registration was refused; c's event is being handled.
Lost(c) == \E f \in lost : owner[f] = c

Served(c) ==
  /\ batch # <<>> /\ sock # Listen /\ conn = c
  /\ Head(batch).in \/ server \in {"server", "server_demo_1"}

\* Data a client has sent is read in the end, however busy the other clients
\* are, unless the registration was refused, no descriptor is left for it, the
\* program has ended or hangs in a write, as only the programs that leave
\* O_NONBLOCK out can.
EveryPeerServed ==
  \A c \in Conns :
    HasData(c) /\ Listen \in watch
      ~> \/ Served(c) \/ Lost(c) \/ (c \in Queued /\ AcceptFails)
         \/ ended # "no" \/ Blocked

\* Every program but sp_main closes the connection of a client that is gone,
\* with the same exceptions.
PeerGoneThenClosed ==
  \A c \in Conns :
    server # "sp_main" /\ c \notin Queued /\ link[c] \notin {"away", "up"}
      ~> link[c] = "away" \/ Lost(c) \/ ended # "no" \/ Blocked

==============================================================================
