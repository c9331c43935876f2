-------------------------- MODULE SocketServerProofs --------------------------
(* The types of SocketServer and the assertion of new_fd, for any number   *)
(* of slots, descriptors, callers and requests.                            *)
EXTENDS SocketServer, SequenceTheorems, TLAPS

\* HASH_ID of an id is an index of the table.
LEMMA HashInSlots == \A id \in Nat : Hash(id) \in Slots
  BY SlotsAssumption DEF Hash, Slots

-----------------------------------------------------------------------------
(* Types, in the groups in which steps change them. *)

SlotTypes ==
  /\ type \in [Slots -> Types]
  /\ sid \in [Slots -> Ids \cup {NoId}]
  /\ sfd \in [Slots -> Fds \cup {NoFd}]
  /\ out \in [Slots -> SUBSET Priorities]
  /\ \A k \in Slots : IF type[k] \in Unowned THEN out[k] = {} ELSE sfd[k] \in Fds
  /\ alloc_id \in 0 .. MaxId
EpollTypes ==
  /\ reg \in [Fds -> Slots \cup {NoSlot}]
  /\ epollout \subseteq Fds /\ open \subseteq Fds /\ leaked \subseteq Fds
CallTypes ==
  /\ pipe \in Seq(Request) /\ Len(pipe) =< MaxPipe
  /\ req \in [Callers -> Request \cup {NoRequest}]
Ends == {"no", "new_fd", "start", "double free", "ai_list", "SIGPIPE"}
PollTypes ==
  /\ pc \in {"out", "loop", "clear", "dispatch"}
  /\ check_ctrl \in BOOLEAN
  /\ evs \in Seq(Event) /\ Len(evs) =< MaxEvents
  /\ result \in Message
  /\ aborted \in Ends

\* Together they are TypeOK.
LEMMA TypeGroups == TypeOK <=> SlotTypes /\ EpollTypes /\ CallTypes /\ PollTypes
  BY DEF TypeOK, SlotTypes, EpollTypes, CallTypes, PollTypes, Ends

\* The initial state is typed.
LEMMA InitTypeOK == Init => TypeOK
<1> SUFFICES ASSUME Init PROVE TypeOK
  OBVIOUS
<1> USE DEF Init
<1>1. SlotTypes
  BY BoundsAssumption DEF SlotTypes, Types, NoId, NoFd, Priorities, Unowned
<1>2. EpollTypes
  BY DEF EpollTypes, NoSlot
<1>3. CallTypes
  BY BoundsAssumption DEF CallTypes
<1>4. PollTypes
  BY BoundsAssumption DEF PollTypes, Ends, Message, Kinds, Silence
<1> QED
  BY <1>1, <1>2, <1>3, <1>4, TypeGroups

\* Taking the first element of a bounded sequence leaves a shorter one.
LEMMA TailBound ==
  ASSUME NEW S, NEW s \in Seq(S), s # <<>>, NEW n \in Nat, Len(s) =< n
  PROVE  /\ Head(s) \in S /\ Tail(s) \in Seq(S)
         /\ Len(Tail(s)) = Len(s) - 1 /\ Len(Tail(s)) =< n
<1>1. Head(s) \in S /\ Tail(s) \in Seq(S) /\ Len(Tail(s)) = Len(s) - 1
  BY HeadTailProperties
<1>2. Len(s) \in Nat
  BY LenProperties
<1> QED
  BY <1>1, <1>2

\* The first request of the pipe and the first of the events, and what remains.
LEMMA TailTypes ==
  /\ CallTypes /\ pipe # <<>> =>
       /\ Head(pipe) \in Request /\ Tail(pipe) \in Seq(Request)
       /\ Len(Tail(pipe)) =< MaxPipe
  /\ PollTypes /\ evs # <<>> =>
       /\ Head(evs) \in Event /\ Tail(evs) \in Seq(Event)
       /\ Len(Tail(evs)) = Len(evs) - 1 /\ Len(Tail(evs)) =< MaxEvents
<1>1. MaxPipe \in Nat /\ MaxEvents \in Nat
  BY BoundsAssumption
<1> QED
  BY <1>1, TailBound DEF CallTypes, PollTypes

\* force_close keeps the types of what it changes.
LEMMA ForceCloseTypes ==
  ASSUME SlotTypes, EpollTypes, NEW k \in Slots, force_close(k),
         UNCHANGED <<sid, sfd, alloc_id, leaked>>
  PROVE  SlotTypes' /\ EpollTypes'
<1> USE DEF SlotTypes, EpollTypes, force_close, Freed
<1>1. CASE type[k] \in Unowned
  BY <1>1
<1>2. CASE type[k] \notin Unowned
  BY <1>2 DEF Types, NoSlot
<1> QED
  BY <1>1, <1>2

\* new_fd keeps the types of what it changes.
LEMMA NewFdTypes ==
  ASSUME SlotTypes, EpollTypes, NEW id \in Ids, NEW f \in Fds, NEW t \in Types,
         NEW add \in BOOLEAN, new_fd(id, f, t, add), alloc_id' \in 0 .. MaxId
  PROVE  SlotTypes' /\ reg' \in [Fds -> Slots \cup {NoSlot}]
<1> DEFINE k == Hash(id)
<1>1. k \in Slots
  BY HashInSlots, BoundsAssumption DEF Ids
<1> HIDE DEF k
<1>2. /\ type' = [type EXCEPT ![k] = t] /\ sid' = [sid EXCEPT ![k] = id]
      /\ sfd' = [sfd EXCEPT ![k] = f] /\ out' = [out EXCEPT ![k] = {}]
      /\ reg' = IF add THEN [reg EXCEPT ![f] = k] ELSE reg
  BY DEF new_fd, k
<1> QED
  BY <1>1, <1>2 DEF SlotTypes, EpollTypes

\* A request taken by ctrl_cmd names a slot of the table.
LEMMA CmdTypes ==
  ASSUME TypeOK, NEW ops, Cmd(ops)
  PROVE  /\ CallTypes'
         /\ Head(pipe) \in Request /\ Head(pipe).op \in ops
         /\ Head(pipe).id \in Ids /\ Hash(Head(pipe).id) \in Slots
<1>1. Head(pipe) \in Request /\ CallTypes'
  BY TypeGroups, TailTypes DEF Cmd, CallTypes
<1>2. Head(pipe).id \in Ids /\ Ids \subseteq Nat
  BY <1>1, BoundsAssumption DEF Request, Ids
<1> QED
  BY <1>1, <1>2, HashInSlots DEF Cmd

\* Every message a handler may leave is typed.
LEMMA MessageTypes ==
  ASSUME NEW kind \in Kinds, NEW id \in Ids \cup {NoId}
  PROVE  [kind |-> kind, id |-> id] \in Message
  BY DEF Message

\* Every way a handler of a request can end is typed.
LEMMA AnswerTypes ==
  ASSUME PollTypes, UNCHANGED <<check_ctrl, evs>>,
         aborted' \in Ends,
         (\E kind \in Kinds, id \in Ids \cup {NoId} : Answer(kind, id)) \/ NoAnswer
  PROVE  PollTypes'
<1>1. result' \in Message /\ pc' \in {"out", "loop", "clear", "dispatch"}
  <2>1. CASE NoAnswer
    BY <2>1 DEF PollTypes, NoAnswer
  <2>2. ASSUME NEW kind \in Kinds, NEW id \in Ids \cup {NoId}, Answer(kind, id)
        PROVE  result' \in Message /\ pc' \in {"out", "loop", "clear", "dispatch"}
    BY <2>2, MessageTypes DEF Answer, Report
  <2> QED
    BY <2>1, <2>2
<1>2. check_ctrl' = check_ctrl /\ evs' = evs
  OBVIOUS
<1>3. check_ctrl' \in BOOLEAN
  BY <1>2 DEF PollTypes
<1>4. evs' \in Seq(Event) /\ Len(evs') =< MaxEvents
  BY <1>2 DEF PollTypes
<1> QED
  BY <1>1, <1>3, <1>4 DEF PollTypes

\* So is every way the handling of an event can end.
LEMMA ReturnTypes ==
  ASSUME PollTypes, UNCHANGED check_ctrl,
         evs' \in Seq(Event), Len(evs') =< MaxEvents,
         aborted' \in Ends,
         (\E kind \in Kinds, id \in Ids \cup {NoId} : Return(kind, id)) \/ NoAnswer
  PROVE  PollTypes'
<1>1. result' \in Message /\ pc' \in {"out", "loop", "clear", "dispatch"}
  <2>1. CASE NoAnswer
    BY <2>1 DEF PollTypes, NoAnswer
  <2>2. ASSUME NEW kind \in Kinds, NEW id \in Ids \cup {NoId}, Return(kind, id)
        PROVE  result' \in Message /\ pc' \in {"out", "loop", "clear", "dispatch"}
    BY <2>2, MessageTypes DEF Return, Report
  <2> QED
    BY <2>1, <2>2
<1>3. check_ctrl' \in BOOLEAN
  BY DEF PollTypes
<1> QED
  BY <1>1, <1>3 DEF PollTypes

\* The groups again, for the state after a step.
LEMMA TypeGroupsNext ==
  SlotTypes' /\ EpollTypes' /\ CallTypes' /\ PollTypes' => TypeOK'
  BY DEF TypeOK, SlotTypes, EpollTypes, CallTypes, PollTypes, Ends

\* A step of ctrl_cmd that leaves the table alone, or closes a slot, is typed.
LEMMA HandlerTypes ==
  ASSUME TypeOK, NEW ops, Cmd(ops),
         (\E kind \in Kinds, id \in Ids \cup {NoId} : Answer(kind, id)) \/ NoAnswer,
         aborted' \in Ends,
         \/ UNCHANGED <<slotVars, epollVars>>
         \/ UNCHANGED <<sid, sfd>> /\ \E k \in Slots : force_close(k)
  PROVE  TypeOK'
<1>1. SlotTypes /\ EpollTypes /\ CallTypes /\ PollTypes
  BY TypeGroups
<1>2. CallTypes'
  BY CmdTypes
<1>3. PollTypes'
  BY <1>1, AnswerTypes DEF Cmd
<1>4. SlotTypes' /\ EpollTypes'
  <2>1. CASE UNCHANGED <<slotVars, epollVars>>
    BY <2>1, <1>1 DEF SlotTypes, EpollTypes, slotVars, epollVars, Cmd
  <2>2. CASE UNCHANGED <<sid, sfd>> /\ \E k \in Slots : force_close(k)
    BY <2>2, <1>1, ForceCloseTypes DEF Cmd
  <2> QED
    BY <2>1, <2>2
<1> QED
  BY <1>2, <1>3, <1>4, TypeGroupsNext

-----------------------------------------------------------------------------
(* The types, request by request. *)

\* Handling a listen request keeps the types.
LEMMA ListenTypes == TypeOK /\ listen_socket => TypeOK'
<1> SUFFICES ASSUME TypeOK, listen_socket PROVE TypeOK'
  OBVIOUS
<1>1. SlotTypes /\ EpollTypes /\ PollTypes
  BY TypeGroups
<1>2. Cmd({"L"}) /\ NoAnswer
  BY DEF listen_socket, Killed
<1>3. CASE type[Hash(Head(pipe).id)] = "RESERVE"
  <2> PICK id \in Ids, f \in Fds : id = Head(pipe).id /\ f = Head(pipe).fd
    BY <1>2, CmdTypes DEF Request
  <2>1. /\ new_fd(id, f, "PLISTEN", FALSE)
        /\ UNCHANGED <<epollout, open, aborted>>
    BY <1>3 DEF listen_socket
  <2>2. SlotTypes' /\ reg' \in [Fds -> Slots \cup {NoSlot}]
    <3>1. alloc_id' \in 0 .. MaxId
      BY <1>1, <1>2 DEF Cmd, SlotTypes
    <3>2. "PLISTEN" \in Types /\ FALSE \in BOOLEAN
      BY DEF Types
    <3> QED
      BY <1>1, <2>1, <3>1, <3>2, NewFdTypes
  <2>3. EpollTypes'
    BY <1>1, <1>2, <2>1, <2>2 DEF EpollTypes, Cmd
  <2>4. PollTypes'
    BY <1>1, <1>2, <2>1, AnswerTypes DEF PollTypes, Cmd
  <2> QED
    BY <1>2, <2>2, <2>3, <2>4, CmdTypes, TypeGroupsNext
<1>4. CASE type[Hash(Head(pipe).id)] # "RESERVE"
  <2>1. Killed("new_fd") /\ aborted' \in Ends
    BY <1>4 DEF listen_socket, Killed, Ends
  <2> QED
    BY <1>2, <2>1, HandlerTypes DEF Killed, Kinds
<1> QED
  BY <1>3, <1>4

\* Handling a start request keeps the types.
LEMMA StartTypes == TypeOK /\ start_socket => TypeOK'
<1> SUFFICES ASSUME TypeOK, start_socket PROVE TypeOK'
  OBVIOUS
<1>1. SlotTypes /\ EpollTypes /\ PollTypes
  BY TypeGroups
<1> DEFINE id == Head(pipe).id
           k == Hash(id)
<1>2. Cmd({"S"}) /\ UNCHANGED aborted /\ id \in Ids /\ k \in Slots
  BY CmdTypes DEF start_socket
<1>3. aborted' \in Ends
  BY <1>1, <1>2 DEF PollTypes
<1>4. (\E kind \in Kinds, i \in Ids \cup {NoId} : Answer(kind, i)) \/ NoAnswer
  BY <1>2 DEF start_socket, Kinds
<1>5. \/ UNCHANGED <<slotVars, epollVars>>
      \/ UNCHANGED <<sid, sfd>> /\ force_close(k)
      \/ /\ type[k] \in {"PLISTEN", "PACCEPT"}
         /\ reg' = [reg EXCEPT ![sfd[k]] = k]
         /\ type' = [type EXCEPT ![k] =
                       IF @ = "PACCEPT" THEN "CONNECTED" ELSE "LISTEN"]
         /\ UNCHANGED <<sid, sfd, out, epollout, open>>
  BY DEF start_socket
<1>6. CASE \/ UNCHANGED <<slotVars, epollVars>>
           \/ UNCHANGED <<sid, sfd>> /\ force_close(k)
  BY <1>2, <1>3, <1>4, <1>6, HandlerTypes
<1>7. CASE /\ type[k] \in {"PLISTEN", "PACCEPT"}
           /\ reg' = [reg EXCEPT ![sfd[k]] = k]
           /\ type' = [type EXCEPT ![k] =
                         IF @ = "PACCEPT" THEN "CONNECTED" ELSE "LISTEN"]
           /\ UNCHANGED <<sid, sfd, out, epollout, open>>
  <2> HIDE DEF k
  <2>1. SlotTypes' /\ EpollTypes'
    BY <1>1, <1>2, <1>7 DEF SlotTypes, EpollTypes, Types, Unowned, Cmd
  <2>2. PollTypes'
    BY <1>1, <1>2, <1>3, <1>4, AnswerTypes DEF Cmd
  <2> QED
    BY <1>2, <2>1, <2>2, CmdTypes, TypeGroupsNext
<1> QED
  BY <1>5, <1>6, <1>7

\* Handling a send request keeps the types.
LEMMA SendTypes == TypeOK /\ send_socket => TypeOK'
<1> SUFFICES ASSUME TypeOK, send_socket PROVE TypeOK'
  OBVIOUS
<1>1. SlotTypes /\ EpollTypes /\ PollTypes
  BY TypeGroups
<1> DEFINE id == Head(pipe).id
           k == Hash(id)
<1>2. Cmd({"D", "P"}) /\ id \in Ids /\ k \in Slots
  BY CmdTypes DEF send_socket
<1>3. aborted' \in Ends
  BY <1>1 DEF PollTypes, Ends, Killed, send_socket
<1>4. (\E kind \in Kinds, i \in Ids \cup {NoId} : Answer(kind, i)) \/ NoAnswer
  BY <1>2 DEF send_socket, Killed, Kinds
<1>5. \/ UNCHANGED <<slotVars, epollVars>>
      \/ UNCHANGED <<sid, sfd>> /\ force_close(k)
      \/ /\ type[k] = "CONNECTED" /\ UNCHANGED <<type, sid, sfd, reg, open>>
         /\ \E o \in SUBSET Priorities : out' = [out EXCEPT ![k] = o]
         /\ epollout' \in {epollout, epollout \cup {sfd[k]}}
  <2>1. out[k] \subseteq Priorities
    BY <1>1, <1>2 DEF SlotTypes
  <2> QED
    BY <2>1 DEF send_socket, Killed, Sendable, Priorities, epollVars
<1>6. CASE \/ UNCHANGED <<slotVars, epollVars>>
           \/ UNCHANGED <<sid, sfd>> /\ force_close(k)
  BY <1>2, <1>3, <1>4, <1>6, HandlerTypes
<1>7. CASE /\ type[k] = "CONNECTED" /\ UNCHANGED <<type, sid, sfd, reg, open>>
           /\ \E o \in SUBSET Priorities : out' = [out EXCEPT ![k] = o]
           /\ epollout' \in {epollout, epollout \cup {sfd[k]}}
  <2> HIDE DEF k
  <2>1. SlotTypes' /\ EpollTypes'
    BY <1>1, <1>2, <1>7 DEF SlotTypes, EpollTypes, Unowned, Cmd
  <2>2. PollTypes'
    BY <1>1, <1>2, <1>3, <1>4, AnswerTypes DEF Cmd
  <2> QED
    BY <1>2, <2>1, <2>2, CmdTypes, TypeGroupsNext
<1> QED
  BY <1>5, <1>6, <1>7

\* Handling a close or shutdown request keeps the types.
LEMMA CloseTypes == TypeOK /\ close_socket => TypeOK'
<1> SUFFICES ASSUME TypeOK, close_socket PROVE TypeOK'
  OBVIOUS
<1>1. SlotTypes /\ EpollTypes /\ PollTypes
  BY TypeGroups
<1> DEFINE r == Head(pipe)
           k == Hash(r.id)
<1>2. Cmd({"K"}) /\ r.id \in Ids /\ k \in Slots
  BY CmdTypes DEF close_socket
<1>3. aborted' \in Ends
  BY <1>1 DEF PollTypes, Ends, Killed, close_socket
<1>4. (\E kind \in Kinds, i \in Ids \cup {NoId} : Answer(kind, i)) \/ NoAnswer
  BY <1>2 DEF close_socket, Killed, Kinds
<1>5. \/ UNCHANGED <<slotVars, epollVars>>
      \/ UNCHANGED <<sid, sfd>> /\ force_close(k)
      \/ /\ \E o \in Lingers(r, out[k]) : out' = [out EXCEPT ![k] = o]
         /\ type' = [type EXCEPT ![k] = "HALFCLOSE"]
         /\ UNCHANGED <<sid, sfd, epollVars>>
  BY DEF close_socket, Killed
<1>6. CASE \/ UNCHANGED <<slotVars, epollVars>>
           \/ UNCHANGED <<sid, sfd>> /\ force_close(k)
  BY <1>2, <1>3, <1>4, <1>6, HandlerTypes
<1>7. CASE /\ \E o \in Lingers(r, out[k]) : out' = [out EXCEPT ![k] = o]
           /\ type' = [type EXCEPT ![k] = "HALFCLOSE"]
           /\ UNCHANGED <<sid, sfd, epollVars>>
  <2>1. PICK o \in Lingers(r, out[k]) : out' = [out EXCEPT ![k] = o]
    BY <1>7
  <2>2. o \subseteq Priorities /\ type[k] \notin Unowned
    BY <1>1, <1>2, <2>1 DEF Lingers, Left, SlotTypes
  <2> HIDE DEF k, r
  <2>3. SlotTypes' /\ EpollTypes'
    BY <1>1, <1>2, <1>7, <2>1, <2>2
    DEF SlotTypes, EpollTypes, Types, Unowned, Cmd, epollVars
  <2>4. PollTypes'
    BY <1>1, <1>2, <1>3, <1>4, AnswerTypes DEF Cmd
  <2> QED
    BY <1>2, <2>3, <2>4, CmdTypes, TypeGroupsNext
<1> QED
  BY <1>5, <1>6, <1>7

\* Handling an open request keeps the types.
LEMMA OpenTypes == TypeOK /\ open_socket => TypeOK'
<1> SUFFICES ASSUME TypeOK, open_socket PROVE TypeOK'
  OBVIOUS
<1>1. SlotTypes /\ EpollTypes /\ PollTypes
  BY TypeGroups
<1>2. Cmd({"O"}) /\ Head(pipe).id \in Ids /\ Hash(Head(pipe).id) \in Slots
  BY CmdTypes DEF open_socket
<1> PICK id \in Ids : id = Head(pipe).id
  BY <1>2
<1> DEFINE k == Hash(id)
<1>3. aborted' \in Ends
  BY <1>1, <1>2 DEF PollTypes, open_socket, Killed, Ends
<1>4. (\E kind \in Kinds, i \in Ids \cup {NoId} : Answer(kind, i)) \/ NoAnswer
  BY <1>2 DEF open_socket, Killed, Kinds
<1>5. PollTypes'
  BY <1>1, <1>2, <1>3, <1>4, AnswerTypes DEF Cmd
<1>6. alloc_id' \in 0 .. MaxId /\ leaked' = leaked
  BY <1>1, <1>2 DEF Cmd, SlotTypes
<1>7. CASE UNCHANGED <<slotVars, epollVars>>
  BY <1>2, <1>3, <1>4, <1>7, HandlerTypes
<1>8. ASSUME NEW f \in Fds, new_fd(id, f, "CONNECTED", TRUE),
             open' = open \cup {f}, UNCHANGED epollout
      PROVE  TypeOK'
  <2>1. "CONNECTED" \in Types /\ TRUE \in BOOLEAN
    BY DEF Types
  <2>2. SlotTypes' /\ reg' \in [Fds -> Slots \cup {NoSlot}]
    BY <1>1, <1>6, <1>8, <2>1, NewFdTypes
  <2>3. EpollTypes'
    BY <1>1, <1>6, <1>8, <2>2 DEF EpollTypes
  <2> QED
    BY <1>2, <1>5, <2>2, <2>3, CmdTypes, TypeGroupsNext
<1>9. ASSUME type' = [type EXCEPT ![k] = "INVALID"], type[k] = "RESERVE",
             UNCHANGED <<sid, sfd, out, reg, open, epollout>>
      PROVE  TypeOK'
  <2>1. k \in Slots
    BY <1>2
  <2> HIDE DEF k
  <2>2. SlotTypes' /\ EpollTypes'
    BY <1>1, <1>6, <1>9, <2>1 DEF SlotTypes, EpollTypes, Types, Unowned
  <2> QED
    BY <1>2, <1>5, <2>2, CmdTypes, TypeGroupsNext
<1> QED
  BY <1>7, <1>8, <1>9 DEF open_socket, Killed

\* Handling a nodelay request keeps the types.
LEMMA SetoptTypes == TypeOK /\ set_sockopt => TypeOK'
<1> SUFFICES ASSUME TypeOK, set_sockopt PROVE TypeOK'
  OBVIOUS
<1>1. Cmd({"T"}) /\ NoAnswer /\ UNCHANGED <<slotVars, epollVars, aborted>>
  BY DEF set_sockopt
<1>2. aborted' \in Ends /\ "none" \in Kinds
  BY <1>1 DEF TypeOK, Kinds, Ends
<1> QED
  BY <1>1, <1>2, HandlerTypes

-----------------------------------------------------------------------------
(* The types, call by call. *)

\* Anything reserve_id returns names a slot, and stays within the bound.
LEMMA ReservesTypes ==
  ASSUME TypeOK, NEW id \in Ids
  PROVE  Hash(id) \in Slots /\ id \in 0 .. MaxId
  BY HashInSlots, BoundsAssumption DEF Ids

\* A call that has reserved a slot for its request r keeps the types.
LEMMA ReserveTypes ==
  ASSUME TypeOK, NEW u \in Callers, NEW r \in Request, NEW n, Reserve(u, r, n),
         UNCHANGED <<out, pipe>>
  PROVE  SlotTypes' /\ CallTypes'
<1> DEFINE k == Hash(r.id)
<1>1. r.id \in Ids
  BY DEF Request
<1>2. k \in Slots /\ r.id \in 0 .. MaxId
  BY <1>1, ReservesTypes
<1>3. /\ type' = [type EXCEPT ![k] = "RESERVE"]
      /\ sid' = [sid EXCEPT ![k] = r.id]
      /\ sfd' = [sfd EXCEPT ![k] = NoFd]
      /\ alloc_id' = r.id /\ type[k] = "INVALID"
      /\ req' = [req EXCEPT ![u] = r]
  BY DEF Reserve, Reserves, Prepare
<1> HIDE DEF k
<1>4. SlotTypes'
  BY <1>1, <1>2, <1>3, TypeGroups DEF SlotTypes, Types, Unowned
<1>5. CallTypes'
  BY <1>3, TypeGroups DEF CallTypes
<1> QED
  BY <1>4, <1>5

\* The requests calls prepare are requests.
LEMMA ReqTypes ==
  /\ \A op \in Ops \ {"L"}, id \in Ids : Req(op, id) \in Request
  /\ \A id \in Ids, f \in Fds : [Req("L", id) EXCEPT !.fd = f] \in Request
  /\ \A op \in Ops \ {"L"}, id \in Ids, b \in BOOLEAN :
       [Req(op, id) EXCEPT !.shutdown = b] \in Request
  BY DEF Req, Request, Ops

\* A call that touches nothing but its own request keeps the types.
LEMMA PrepareTypes ==
  ASSUME TypeOK, NEW u \in Callers, NEW r \in Request, Prepare(u, r),
         UNCHANGED <<slotVars, alloc_id, epollVars, pipe, pollVars, aborted,
                     leaked>>
  PROVE  TypeOK'
<1>1. SlotTypes /\ EpollTypes /\ CallTypes /\ PollTypes
  BY TypeGroups
<1>2. SlotTypes' /\ EpollTypes' /\ CallTypes'
  BY <1>1 DEF SlotTypes, EpollTypes, CallTypes, slotVars, epollVars, Prepare
<1>3. PollTypes'
  BY <1>1 DEF PollTypes, pollVars
<1> QED
  BY <1>2, <1>3, TypeGroupsNext

\* A call that found no slot to reserve keeps them too.
LEMMA ReserveFailsTypes ==
  ASSUME TypeOK, ReserveFails, alloc_id' = alloc_id + MaxSocket,
         UNCHANGED <<type, sid, sfd, out, req, pipe>>
  PROVE  SlotTypes' /\ CallTypes'
<1>1. alloc_id' \in 0 .. MaxId
  BY TypeGroups, BoundsAssumption, SlotsAssumption DEF SlotTypes, ReserveFails
<1> QED
  BY <1>1, TypeGroups DEF SlotTypes, CallTypes

\* The ids a caller may pass are within the bound.
LEMMA KnownIds == TypeOK => Known \subseteq Ids
<1> SUFFICES ASSUME TypeOK PROVE Known \subseteq Ids
  OBVIOUS
<1>1. alloc_id \in 0 .. MaxId /\ MaxId \in Nat
  BY BoundsAssumption DEF TypeOK
<1>2. Known \subseteq 1 .. alloc_id
  BY DEF Known
<1> QED
  BY <1>1, <1>2 DEF Ids

\* The five calls keep the types.
LEMMA CallsTypes == ASSUME TypeOK, NEW u \in Callers, Call(u) PROVE TypeOK'
<1>1. SlotTypes /\ EpollTypes /\ CallTypes /\ PollTypes
  BY TypeGroups
<1>2. CASE socket_server_listen(u)
  <2> USE <1>2 DEF socket_server_listen
  <2>1. PollTypes'
    BY <1>1 DEF PollTypes, pollVars, Ends
  <2>2. \/ UNCHANGED <<open, leaked>>
        \/ \E f \in Fds : /\ open' = open \cup {f}
                          /\ leaked' \in {leaked, leaked \cup {f}}
    OBVIOUS
  <2>3. EpollTypes'
    BY <1>1, <2>2 DEF EpollTypes
  <2>4. SlotTypes' /\ CallTypes'
    <3>1. ASSUME NEW g \in Fds, NEW id \in Ids, NEW n \in 1 .. MaxSocket,
                 Reserve(u, [Req("L", id) EXCEPT !.fd = g], n)
          PROVE  SlotTypes' /\ CallTypes'
      BY <3>1, ReserveTypes, ReqTypes
    <3>2. CASE /\ ReserveFails /\ alloc_id' = alloc_id + MaxSocket
               /\ UNCHANGED <<type, sid, sfd, req>>
      BY <1>1, <3>2, ReserveFailsTypes
    <3>3. CASE UNCHANGED <<type, sid, sfd, alloc_id, req>>
      BY <1>1, <3>3 DEF SlotTypes, CallTypes
    <3> QED
      BY <3>1, <3>2, <3>3
  <2> QED
    BY <2>1, <2>3, <2>4, TypeGroupsNext
<1>3. CASE socket_server_connect(u)
  <2> USE <1>3 DEF socket_server_connect
  <2>1. PollTypes'
    BY <1>1 DEF PollTypes, pollVars
  <2>2. EpollTypes'
    BY <1>1 DEF EpollTypes, epollVars
  <2>3. SlotTypes' /\ CallTypes'
    <3>1. ASSUME NEW id \in Ids, NEW n \in 1 .. MaxSocket, Reserve(u, Req("O", id), n)
          PROVE  SlotTypes' /\ CallTypes'
      <4>1. Req("O", id) \in Request
        BY ReqTypes DEF Ops
      <4> QED
        BY <3>1, <4>1, ReserveTypes
    <3>2. CASE /\ ReserveFails /\ alloc_id' = alloc_id + MaxSocket
               /\ UNCHANGED <<type, sid, sfd, req>>
      BY <1>1, <3>2, ReserveFailsTypes
    <3> QED
      BY <3>1, <3>2
  <2> QED
    BY <2>1, <2>2, <2>3, TypeGroupsNext
<1>4. CASE socket_server_start(u)
  <2>1. PICK id \in Ids : \/ Prepare(u, Req("S", id)) /\ UNCHANGED aborted
                          \/ aborted' = "start" /\ UNCHANGED req
    BY <1>4, KnownIds DEF socket_server_start
  <2>2. UNCHANGED <<slotVars, alloc_id, epollVars, pipe, pollVars, leaked>>
    BY <1>4 DEF socket_server_start
  <2>3. CASE Prepare(u, Req("S", id)) /\ UNCHANGED aborted
    <3>1. Req("S", id) \in Request
      BY ReqTypes DEF Ops
    <3> QED
      BY <2>2, <2>3, <3>1, PrepareTypes
  <2>4. CASE aborted' = "start" /\ UNCHANGED req
    <3>1. SlotTypes' /\ EpollTypes' /\ CallTypes'
      BY <1>1, <2>2, <2>4 DEF SlotTypes, EpollTypes, CallTypes, slotVars, epollVars
    <3>2. PollTypes'
      BY <1>1, <2>2, <2>4 DEF PollTypes, pollVars, Ends
    <3> QED
      BY <3>1, <3>2, TypeGroupsNext
  <2> QED
    BY <2>1, <2>3, <2>4
<1>5. CASE socket_server_send(u)
  <2>1. PICK id \in Ids, op \in {"D", "P"} : Prepare(u, Req(op, id))
    BY <1>5, KnownIds DEF socket_server_send
  <2>2. Req(op, id) \in Request
    BY ReqTypes DEF Ops
  <2> QED
    BY <1>5, <2>1, <2>2, PrepareTypes DEF socket_server_send
<1>6. CASE socket_server_close(u)
  <2>1. PICK id \in Ids, op \in {"K", "T"}, b \in BOOLEAN :
               Prepare(u, [Req(op, id) EXCEPT !.shutdown = b])
    <3>1. PICK id \in Known, r \in [shutdown : BOOLEAN, op : {"K", "T"}] :
                 Prepare(u, [Req(r.op, id) EXCEPT !.shutdown = r.shutdown])
      BY <1>6 DEF socket_server_close
    <3>2. id \in Ids
      BY <3>1, KnownIds
    <3> QED
      BY <3>1, <3>2
  <2>2. [Req(op, id) EXCEPT !.shutdown = b] \in Request
    BY ReqTypes DEF Ops
  <2> QED
    BY <1>6, <2>1, <2>2, PrepareTypes DEF socket_server_close
<1> QED
  BY <1>2, <1>3, <1>4, <1>5, <1>6 DEF Call

\* So does the write of a request to the pipe.
LEMMA SendRequestTypes ==
  ASSUME TypeOK, NEW u \in Callers, send_request(u) PROVE TypeOK'
<1>1. SlotTypes /\ EpollTypes /\ CallTypes /\ PollTypes
  BY TypeGroups
<1>2. SlotTypes' /\ EpollTypes'
  BY <1>1 DEF SlotTypes, EpollTypes, slotVars, epollVars, send_request
<1>3. PollTypes'
  BY <1>1 DEF PollTypes, pollVars, send_request
<1>4. req[u] \in Request
  BY <1>1 DEF CallTypes, send_request
<1>5. pipe' \in Seq(Request) /\ Len(pipe') = Len(pipe) + 1
  BY <1>1, <1>4, AppendProperties DEF CallTypes, send_request
<1>6. Len(pipe') =< MaxPipe
  BY <1>1, <1>5, BoundsAssumption, LenProperties DEF CallTypes, send_request
<1>7. req' \in [Callers -> Request \cup {NoRequest}]
  BY <1>1 DEF CallTypes, send_request
<1> QED
  BY <1>2, <1>3, <1>5, <1>6, <1>7, TypeGroupsNext DEF CallTypes

-----------------------------------------------------------------------------
(* The types, event by event. *)

\* A function on 1 .. n is a sequence of length n.
LEMMA FunctionSeq ==
  ASSUME NEW S, NEW n \in Nat, NEW s \in [1 .. n -> S]
  PROVE  s \in Seq(S) /\ Len(s) = n
<1>1. s \in Seq(S)
  BY SeqDef
<1> QED
  BY <1>1, LenProperties

\* The steps of socket_server_poll that touch neither table nor pipe.
LEMMA PollStepTypes ==
  ASSUME TypeOK, PollCall \/ clear_close_event \/ NoCmd \/ sp_wait_fails
  PROVE  TypeOK'
<1>1. SlotTypes /\ EpollTypes /\ CallTypes /\ PollTypes
  BY TypeGroups
<1>2. UNCHANGED <<slotVars, alloc_id, epollVars, callVars, aborted, leaked>>
  BY DEF PollCall, clear_close_event, NoCmd, sp_wait_fails
<1>3. SlotTypes' /\ EpollTypes' /\ CallTypes'
  BY <1>1, <1>2 DEF SlotTypes, EpollTypes, CallTypes, slotVars, epollVars, callVars
<1>4. evs' \in Seq(Event) /\ Len(evs') =< MaxEvents
  <2>1. CASE clear_close_event
    <3>1. PICK b \in [DOMAIN evs -> BOOLEAN] :
            evs' = [i \in DOMAIN evs |->
                      IF b[i] THEN [evs[i] EXCEPT !.slot = NoSlot] ELSE evs[i]]
      <4> DEFINE Stale(i) == /\ evs[i].slot # NoSlot
                             /\ type[evs[i].slot] = "INVALID"
                             /\ sid[evs[i].slot] = result.id
                 b0 == [i \in DOMAIN evs |->
                          Stale(i) /\ \A j \in 1 .. i - 1 : ~Stale(j)]
      <4>1. evs' = [i \in DOMAIN evs |->
                      IF Stale(i) /\ \A j \in 1 .. i - 1 : ~Stale(j)
                      THEN [evs[i] EXCEPT !.slot = NoSlot] ELSE evs[i]]
        BY <2>1 DEF clear_close_event
      <4>2. b0 \in [DOMAIN evs -> BOOLEAN]
        OBVIOUS
      <4> HIDE DEF Stale
      <4>3. evs' = [i \in DOMAIN evs |->
                      IF b0[i] THEN [evs[i] EXCEPT !.slot = NoSlot] ELSE evs[i]]
        BY <4>1
      <4> QED
        BY <4>2, <4>3
    <3>2. evs \in [1 .. Len(evs) -> Event] /\ Len(evs) \in Nat
      BY <1>1, LenProperties, SeqDef, ElementOfSeq DEF PollTypes
    <3>3. \A e \in Event : [e EXCEPT !.slot = NoSlot] \in Event
      BY DEF Event
    <3>4. evs' \in [1 .. Len(evs) -> Event]
      BY <3>1, <3>2, <3>3
    <3> QED
      BY <1>1, <3>2, <3>4, FunctionSeq DEF PollTypes
  <2>2. CASE PollCall \/ NoCmd \/ sp_wait_fails
    BY <1>1, <2>2 DEF PollTypes, PollCall, NoCmd, sp_wait_fails
  <2> QED
    BY <2>1, <2>2
<1>5. /\ pc' \in {"out", "loop", "clear", "dispatch"}
      /\ result' \in Message
      /\ aborted' \in Ends
  <2>1. Silence \in Message
    BY DEF Message, Silence, Kinds
  <2> QED
    BY <1>1, <1>2, <2>1
    DEF PollTypes, PollCall, clear_close_event, NoCmd, sp_wait_fails
<1>6. check_ctrl' \in BOOLEAN
  BY <1>1 DEF PollTypes, PollCall, clear_close_event, NoCmd, sp_wait_fails, Recheck
<1> QED
  BY <1>3, <1>4, <1>5, <1>6, TypeGroupsNext DEF PollTypes

\* What sp_wait returns is a bounded sequence of events.
LEMMA WaitTypes == ASSUME TypeOK, sp_wait PROVE TypeOK'
<1>1. SlotTypes /\ EpollTypes /\ CallTypes /\ PollTypes
  BY TypeGroups
<1>2. UNCHANGED <<slotVars, alloc_id, epollVars, callVars, pc, result, aborted,
                  leaked>>
  BY DEF sp_wait
<1>3. SlotTypes' /\ EpollTypes' /\ CallTypes'
  BY <1>1, <1>2 DEF SlotTypes, EpollTypes, CallTypes, slotVars, epollVars, callVars
<1>4. \A f \in Fds : reg[f] # NoSlot => Ready(f) \subseteq Event
  BY <1>1 DEF SlotTypes, EpollTypes, Ready, Event
<1>5. PipeReady \in Event
  BY DEF PipeReady, Event
<1>6. evs' \in Seq(Event) /\ Len(evs') =< MaxEvents
  <2>0. PICK n \in 1 .. MaxEvents :
            \E fs \in [1 .. n -> {f \in Fds : reg[f] # NoSlot} \cup {0}] :
               /\ DOMAIN evs' = 1 .. n /\ evs' = [i \in 1 .. n |-> evs'[i]]
               /\ \A i \in 1 .. n : evs'[i] \in IF fs[i] = 0 THEN {PipeReady}
                                                ELSE Ready(fs[i])
    <3>1. PICK n \in 1 .. MaxEvents :
            \E fs \in [1 .. n -> {f \in Fds : reg[f] # NoSlot}
                                 \cup (IF pipe = <<>> THEN {} ELSE {0})] :
              evs' \in {es \in [1 .. n -> UNION {IF fs[i] = 0 THEN {PipeReady}
                                                 ELSE Ready(fs[i]) : i \in 1 .. n}] :
                          \A i \in 1 .. n :
                            es[i] \in IF fs[i] = 0 THEN {PipeReady}
                                      ELSE Ready(fs[i])}
      BY DEF sp_wait
    <3>2. PICK fs \in [1 .. n -> {f \in Fds : reg[f] # NoSlot}
                                 \cup (IF pipe = <<>> THEN {} ELSE {0})] :
              evs' \in {es \in [1 .. n -> UNION {IF fs[i] = 0 THEN {PipeReady}
                                                 ELSE Ready(fs[i]) : i \in 1 .. n}] :
                          \A i \in 1 .. n :
                            es[i] \in IF fs[i] = 0 THEN {PipeReady}
                                      ELSE Ready(fs[i])}
      BY <3>1
    <3>3. fs \in [1 .. n -> {f \in Fds : reg[f] # NoSlot} \cup {0}]
      BY <3>2
    <3>4. DOMAIN evs' = 1 .. n /\ evs' = [i \in 1 .. n |-> evs'[i]]
      BY <3>2
    <3>5. \A i \in 1 .. n : evs'[i] \in IF fs[i] = 0 THEN {PipeReady}
                                        ELSE Ready(fs[i])
      BY <3>2
    <3> QED
      BY <3>3, <3>4, <3>5
  <2>1. PICK fs \in [1 .. n -> {f \in Fds : reg[f] # NoSlot} \cup {0}] :
               /\ DOMAIN evs' = 1 .. n /\ evs' = [i \in 1 .. n |-> evs'[i]]
               /\ \A i \in 1 .. n : evs'[i] \in IF fs[i] = 0 THEN {PipeReady}
                                                ELSE Ready(fs[i])
    BY <2>0
  <2>2. \A i \in 1 .. n : evs'[i] \in Event
    BY <1>4, <1>5, <2>1
  <2>3. n \in Nat /\ n =< MaxEvents
    BY BoundsAssumption
  <2>4. evs' \in [1 .. n -> Event]
    BY <2>1, <2>2
  <2> QED
    BY <2>3, <2>4, FunctionSeq
<1>7. check_ctrl' \in BOOLEAN
  BY DEF sp_wait, Recheck
<1> QED
  BY <1>1, <1>2, <1>3, <1>6, <1>7, TypeGroupsNext DEF PollTypes

\* Handling an event that changes no slot, or closes one, keeps the types.
LEMMA EventTypes ==
  ASSUME TypeOK, NEW s, Dispatch(s),
         evs' \in Seq(Event), Len(evs') =< MaxEvents,
         (\E kind \in Kinds, id \in Ids \cup {NoId} : Return(kind, id)) \/ NoAnswer,
         aborted' \in Ends,
         UNCHANGED <<sid, sfd, alloc_id>>,
         \/ UNCHANGED <<type, out, epollVars>>
         \/ \E k \in Slots : force_close(k)
  PROVE  TypeOK'
<1>1. SlotTypes /\ EpollTypes /\ CallTypes /\ PollTypes
  BY TypeGroups
<1>2. CallTypes'
  BY <1>1 DEF CallTypes, Dispatch
<1>3. PollTypes'
  BY <1>1, ReturnTypes DEF Dispatch
<1>4. SlotTypes' /\ EpollTypes'
  <2>1. CASE UNCHANGED <<type, out, epollVars>>
    BY <2>1, <1>1 DEF SlotTypes, EpollTypes, epollVars, Dispatch
  <2>2. CASE \E k \in Slots : force_close(k)
    BY <2>2, <1>1, ForceCloseTypes DEF Dispatch
  <2> QED
    BY <2>1, <2>2
<1> QED
  BY <1>2, <1>3, <1>4, TypeGroupsNext

\* An event whose descriptor is not the pipe is of a slot with an id.
LEMMA DispatchTypes ==
  ASSUME TypeOK, NEW s, Dispatch(s)
  PROVE  /\ Head(evs) \in Event /\ Head(evs).slot \in s
         /\ Tail(evs) \in Seq(Event) /\ Len(Tail(evs)) =< MaxEvents
         /\ Len(Tail(evs)) + 1 =< MaxEvents
         /\ \A k \in Slots : sid[k] \in Ids \cup {NoId}
<1>1. evs # <<>> /\ evs \in Seq(Event) /\ Len(evs) =< MaxEvents
  BY TypeGroups DEF Dispatch, PollTypes
<1>2. Len(evs) \in Nat /\ MaxEvents \in Nat
  BY <1>1, LenProperties, BoundsAssumption
<1> QED
  BY <1>1, <1>2, TypeGroups, TailTypes DEF Dispatch, SlotTypes

\* skip_null keeps the types.
LEMMA SkipTypes == TypeOK /\ skip_null => TypeOK'
<1> SUFFICES ASSUME TypeOK, skip_null PROVE TypeOK'
  OBVIOUS
<1>1. Dispatch({NoSlot}) /\ NoAnswer /\ evs' = Tail(evs)
      /\ UNCHANGED <<slotVars, alloc_id, epollVars, aborted>>
  BY DEF skip_null
<1>2. aborted' \in Ends
  BY <1>1 DEF TypeOK, Ends
<1> QED
  BY <1>1, <1>2, DispatchTypes, EventTypes DEF slotVars

\* report_accept keeps the types.
LEMMA AcceptTypes == TypeOK /\ report_accept => TypeOK'
<1> SUFFICES ASSUME TypeOK, report_accept PROVE TypeOK'
  OBVIOUS
<1> DEFINE s == {k \in Slots : type[k] = "LISTEN"}
           k == Head(evs).slot
<1>1. Dispatch(s) /\ evs' = Tail(evs) /\ UNCHANGED aborted
  BY DEF report_accept
<1>2. SlotTypes /\ EpollTypes /\ CallTypes /\ PollTypes
  BY TypeGroups
<1>3. k \in Slots /\ sid[k] \in Ids \cup {NoId}
  BY <1>1, DispatchTypes
<1>4. (\E kind \in Kinds, id \in Ids \cup {NoId} : Return(kind, id)) \/ NoAnswer
  BY <1>3 DEF report_accept, Kinds
<1>5. PollTypes'
  <2>1. evs' \in Seq(Event) /\ Len(evs') =< MaxEvents
    BY <1>1, DispatchTypes
  <2>2. aborted' \in Ends
    BY <1>1, <1>2 DEF PollTypes
  <2> QED
    BY <1>1, <1>2, <1>4, <2>1, <2>2, ReturnTypes DEF Dispatch
<1>6. CallTypes' /\ leaked' = leaked
  BY <1>1, <1>2 DEF CallTypes, Dispatch
<1>7. CASE /\ UNCHANGED <<slotVars, epollVars>>
           /\ \/ alloc_id' = alloc_id
              \/ ReserveFails /\ alloc_id' = alloc_id + MaxSocket
  <2>1. alloc_id' \in 0 .. MaxId
    BY <1>2, <1>7, BoundsAssumption, SlotsAssumption DEF SlotTypes, ReserveFails
  <2>2. SlotTypes' /\ EpollTypes'
    BY <1>2, <1>6, <1>7, <2>1 DEF SlotTypes, EpollTypes, slotVars, epollVars
  <2> QED
    BY <1>5, <1>6, <2>2, TypeGroupsNext
<1>8. ASSUME NEW f \in Fds, NEW id \in Ids, alloc_id' = id, UNCHANGED epollout,
             new_fd(id, f, "PACCEPT", TRUE), open' = open \cup {f}
      PROVE  TypeOK'
  <2>1. "PACCEPT" \in Types /\ TRUE \in BOOLEAN
    BY DEF Types
  <2>2. alloc_id' \in 0 .. MaxId
    BY <1>8, ReservesTypes
  <2>3. SlotTypes' /\ reg' \in [Fds -> Slots \cup {NoSlot}]
    BY <1>2, <1>8, <2>1, <2>2, NewFdTypes
  <2>4. EpollTypes'
    BY <1>2, <1>6, <1>8, <2>3 DEF EpollTypes
  <2> QED
    BY <1>5, <1>6, <2>3, <2>4, TypeGroupsNext
<1>9. ASSUME NEW f \in Fds, NEW id \in Ids, NEW n, Reserves(id, n),
             alloc_id' = id, UNCHANGED epollout,
             sid' = [sid EXCEPT ![Hash(id)] = id],
             sfd' = [sfd EXCEPT ![Hash(id)] = NoFd],
             UNCHANGED <<type, out, reg, open>>
      PROVE  TypeOK'
  <2> DEFINE h == Hash(id)
  <2>1. h \in Slots /\ alloc_id' \in 0 .. MaxId /\ type[h] = "INVALID"
    BY <1>9, ReservesTypes DEF Reserves
  <2>2. sid' = [sid EXCEPT ![h] = id] /\ sfd' = [sfd EXCEPT ![h] = NoFd]
    BY <1>9
  <2> HIDE DEF h
  <2>3. SlotTypes'
    <3>1. sid' \in [Slots -> Ids \cup {NoId}] /\ sfd' \in [Slots -> Fds \cup {NoFd}]
      BY <1>2, <2>1, <2>2 DEF SlotTypes
    <3>2. \A l \in Slots : type[l] \notin Unowned => sfd'[l] = sfd[l]
      BY <1>2, <2>1, <2>2 DEF SlotTypes, Unowned
    <3> QED
      BY <1>2, <1>9, <2>1, <3>1, <3>2 DEF SlotTypes
  <2>4. EpollTypes'
    BY <1>2, <1>6, <1>9 DEF EpollTypes
  <2> QED
    BY <1>5, <1>6, <2>3, <2>4, TypeGroupsNext
<1>10. \/ /\ UNCHANGED <<slotVars, epollVars>>
          /\ \/ alloc_id' = alloc_id
             \/ ReserveFails /\ alloc_id' = alloc_id + MaxSocket
       \/ \E f \in Fds, id \in Ids, n \in 1 .. MaxSocket :
            /\ Reserves(id, n) /\ alloc_id' = id /\ UNCHANGED epollout
            /\ \/ new_fd(id, f, "PACCEPT", TRUE) /\ open' = open \cup {f}
               \/ /\ sid' = [sid EXCEPT ![Hash(id)] = id]
                  /\ sfd' = [sfd EXCEPT ![Hash(id)] = NoFd]
                  /\ UNCHANGED <<type, out, reg, open>>
  BY DEF report_accept
<1> HIDE DEF k, s
<1> QED
  BY <1>7, <1>8, <1>9, <1>10

\* forword_message_tcp keeps the types.
LEMMA ForwordTypes == TypeOK /\ forword_message_tcp => TypeOK'
<1> SUFFICES ASSUME TypeOK, forword_message_tcp PROVE TypeOK'
  OBVIOUS
<1> DEFINE s == {k \in Slots : type[k] # "LISTEN"}
           e == Head(evs)
           k == e.slot
           Again == IF e.write THEN <<[e EXCEPT !.read = FALSE]>> ELSE <<>>
<1>1. Dispatch(s) /\ UNCHANGED <<sid, sfd, alloc_id>>
  BY DEF forword_message_tcp
<1>2. k \in Slots /\ sid[k] \in Ids \cup {NoId} /\ e \in Event
  BY <1>1, DispatchTypes
<1>3. evs' \in Seq(Event) /\ Len(evs') =< MaxEvents
  <2>1. CASE evs' = Tail(evs)
    BY <1>1, <2>1, DispatchTypes
  <2>2. CASE evs' = <<[e EXCEPT !.read = FALSE]>> \o Tail(evs)
    <3>1. [e EXCEPT !.read = FALSE] \in Event
      BY <1>2 DEF Event
    <3>2. /\ <<[e EXCEPT !.read = FALSE]>> \in Seq(Event)
          /\ Len(<<[e EXCEPT !.read = FALSE]>>) = 1
      BY <3>1
    <3>3. Tail(evs) \in Seq(Event) /\ Len(Tail(evs)) + 1 =< MaxEvents
      BY <1>1, DispatchTypes
    <3>4. evs' \in Seq(Event) /\ Len(evs') = 1 + Len(Tail(evs))
      BY <2>2, <3>2, <3>3, ConcatProperties
    <3> QED
      BY <3>3, <3>4, LenProperties, BoundsAssumption
  <2>3. CASE evs' = <<>> \o Tail(evs)
    BY <1>1, <2>3, DispatchTypes, ConcatEmptySeq
  <2> QED
    BY <2>1, <2>2, <2>3 DEF forword_message_tcp
<1>4. (\E kind \in Kinds, id \in Ids \cup {NoId} : Return(kind, id)) \/ NoAnswer
  BY <1>2 DEF forword_message_tcp, Kinds
<1>5. aborted' \in Ends
  BY DEF forword_message_tcp, TypeOK, Ends
<1>6. UNCHANGED <<type, out, epollVars>> \/ force_close(k)
  BY DEF forword_message_tcp
<1> QED
  BY <1>1, <1>2, <1>3, <1>4, <1>5, <1>6, EventTypes

\* send_buffer keeps the types.
LEMMA SendBufferTypes == TypeOK /\ send_buffer => TypeOK'
<1> SUFFICES ASSUME TypeOK, send_buffer PROVE TypeOK'
  OBVIOUS
<1> DEFINE s == {k \in Slots : type[k] # "LISTEN"}
           k == Head(evs).slot
<1>1. Dispatch(s) /\ evs' = Tail(evs) /\ UNCHANGED <<sid, sfd, alloc_id>>
  BY DEF send_buffer, Killed, slotVars
<1>2. SlotTypes /\ EpollTypes /\ CallTypes /\ PollTypes
  BY TypeGroups
<1>3. k \in Slots /\ sid[k] \in Ids \cup {NoId}
  BY <1>1, DispatchTypes
<1>4. (\E kind \in Kinds, id \in Ids \cup {NoId} : Return(kind, id)) \/ NoAnswer
  BY <1>3 DEF send_buffer, Killed, Kinds
<1>5. aborted' \in Ends
  BY <1>2 DEF PollTypes, Ends, send_buffer, Killed
<1>6. evs' \in Seq(Event) /\ Len(evs') =< MaxEvents
  BY <1>1, DispatchTypes
<1>7. CASE force_close(k)
  BY <1>1, <1>3, <1>4, <1>5, <1>6, <1>7, EventTypes
<1>8. ASSUME NEW o \in SUBSET Priorities, out' = [out EXCEPT ![k] = o],
             type[k] \notin Unowned \/ o = {}, epollout' \subseteq epollout,
             UNCHANGED <<type, reg, open>>
      PROVE  TypeOK'
  <2> HIDE DEF k
  <2>1. SlotTypes' /\ EpollTypes'
    <3>1. SlotTypes'
      <4>1. out' \in [Slots -> SUBSET Priorities]
        BY <1>2, <1>8 DEF SlotTypes
      <4>2. \A l \in Slots : type[l] \in Unowned => out'[l] = {}
        BY <1>2, <1>3, <1>8 DEF SlotTypes
      <4> QED
        BY <1>1, <1>2, <1>8, <4>1, <4>2 DEF SlotTypes
    <3>2. EpollTypes'
      BY <1>1, <1>2, <1>8 DEF EpollTypes, Dispatch
    <3> QED
      BY <3>1, <3>2
  <2>2. PollTypes'
    BY <1>1, <1>2, <1>4, <1>5, <1>6, ReturnTypes DEF Dispatch
  <2>3. CallTypes'
    BY <1>1, <1>2 DEF CallTypes, Dispatch
  <2> QED
    BY <2>1, <2>2, <2>3, TypeGroupsNext
<1>9. \A o \in Left(out[k]) : /\ o \in SUBSET Priorities
                              /\ type[k] \notin Unowned \/ o = {}
  BY <1>2, <1>3 DEF SlotTypes, Left
<1>10. \/ force_close(k)
       \/ UNCHANGED <<slotVars, epollVars>>
       \/ \E o \in Left(out[k]) : /\ out' = [out EXCEPT ![k] = o]
                                  /\ UNCHANGED <<type, epollVars>>
       \/ /\ out' = [out EXCEPT ![k] = {}] /\ epollout' = epollout \ {sfd[k]}
          /\ UNCHANGED <<type, reg, open>>
  BY DEF send_buffer, Killed
<1>11. CASE \E o \in Left(out[k]) : /\ out' = [out EXCEPT ![k] = o]
                                    /\ UNCHANGED <<type, epollVars>>
  BY <1>8, <1>9, <1>11 DEF epollVars
<1>12. CASE /\ out' = [out EXCEPT ![k] = {}] /\ epollout' = epollout \ {sfd[k]}
            /\ UNCHANGED <<type, reg, open>>
  <2>1. {} \in SUBSET Priorities /\ epollout' \subseteq epollout
    BY <1>12
  <2> HIDE DEF k
  <2> QED
    BY <1>8, <1>12, <2>1
<1>13. CASE UNCHANGED <<slotVars, epollVars>>
  BY <1>1, <1>3, <1>4, <1>5, <1>6, <1>13, EventTypes DEF slotVars
<1> QED
  BY <1>7, <1>10, <1>11, <1>12, <1>13

-----------------------------------------------------------------------------
\* Every step keeps the types.
LEMMA TypeStep == TypeOK /\ [Next]_vars => TypeOK'
<1> SUFFICES ASSUME TypeOK, [Next]_vars PROVE TypeOK'
  OBVIOUS
<1>1. ASSUME NEW u \in Callers, Call(u) \/ send_request(u) PROVE TypeOK'
  BY <1>1, CallsTypes, SendRequestTypes
<1>2. CASE PollCall \/ clear_close_event \/ NoCmd \/ sp_wait_fails
  BY <1>2, PollStepTypes
<1>3. CASE \/ listen_socket \/ start_socket \/ send_socket
           \/ close_socket \/ open_socket \/ set_sockopt
  BY <1>3, ListenTypes, StartTypes, SendTypes, CloseTypes, OpenTypes, SetoptTypes
<1>4. CASE sp_wait \/ skip_null \/ report_accept \/ forword_message_tcp \/ send_buffer
  BY <1>4, WaitTypes, SkipTypes, AcceptTypes, ForwordTypes, SendBufferTypes
<1>5. CASE UNCHANGED vars
  BY <1>5 DEF TypeOK, vars, slotVars, epollVars, callVars, pollVars
<1> QED
  BY <1>1, <1>2, <1>3, <1>4, <1>5 DEF Next, Poll

\* Every variable of the socket server keeps its type, for any table, any number
\* of callers, descriptors and requests: no event index, list or request of the
\* code is ever out of its range.
THEOREM TypeCorrect == Spec => []TypeOK
  BY InitTypeOK, TypeStep, PTL DEF Spec

-----------------------------------------------------------------------------
(* The reservations.  The types alone do not imply that the assertion of   *)
(* new_fd holds; the invariant adds that the slot of every listen and open *)
(* request on its way is reserved for that request alone, from reserve_id  *)
(* in the caller to ctrl_cmd in the poller.                                *)

\* The slot of id is reserved for it after the step.
ReservedAfter(id) == type'[Hash(id)] = "RESERVE" /\ sid'[Hash(id)] = id

IInv == TypeOK /\ ReservedUntilHandled /\ NewFdAssertHolds

\* The initial state has no request, and has not failed.
LEMMA InitIInv == Init => IInv
<1> SUFFICES ASSUME Init PROVE IInv
  OBVIOUS
<1>1. Len(pipe) = 0 /\ \A u \in Callers : ~Opens(req[u])
  BY DEF Init, Opens, NoRequest
<1> QED
  BY <1>1, InitTypeOK DEF IInv, Init, ReservedUntilHandled, NewFdAssertHolds

\* The id of a request that opens is a number, so it has a slot.
LEMMA OpensTypes ==
  ASSUME TypeOK
  PROVE  /\ Len(pipe) \in Nat
         /\ \A i \in 1 .. Len(pipe) : pipe[i] \in Request
         /\ \A r \in Request : r.id \in Ids /\ Hash(r.id) \in Slots
         /\ \A u \in Callers : Opens(req[u]) => req[u] \in Request
<1>1. pipe \in Seq(Request) /\ req \in [Callers -> Request \cup {NoRequest}]
  BY DEF TypeOK
<1>2. Len(pipe) \in Nat /\ \A i \in 1 .. Len(pipe) : pipe[i] \in Request
  BY <1>1, LenProperties, ElementOfSeq
<1>3. \A r \in Request : r.id \in Ids /\ Hash(r.id) \in Slots
  BY HashInSlots, BoundsAssumption DEF Request, Ids
<1>4. \A u \in Callers : Opens(req[u]) => req[u] \in Request
  BY <1>1 DEF Opens, NoRequest
<1> QED
  BY <1>2, <1>3, <1>4

\* A step that leaves the requests alone and disturbs no reserved slot keeps
\* the reservations.
LEMMA KeepReserved ==
  ASSUME IInv, UNCHANGED <<pipe, req>>,
         \A k \in Slots : type[k] = "RESERVE" =>
                            type'[k] = "RESERVE" /\ sid'[k] = sid[k]
  PROVE  ReservedUntilHandled'
<1>1. \A r \in Request : Reserved(r.id) => ReservedAfter(r.id)
  BY OpensTypes DEF Reserved, ReservedAfter, IInv
<1>2. Len(pipe') = Len(pipe)
  OBVIOUS
<1>3. ASSUME NEW i \in 1 .. Len(pipe'), Opens(pipe'[i])
      PROVE  /\ ReservedAfter(pipe[i].id)
             /\ \A j \in 1 .. i - 1 : Opens(pipe'[j]) => pipe'[j].id # pipe'[i].id
  BY <1>1, <1>3, OpensTypes DEF IInv, ReservedUntilHandled
<1>4. ASSUME NEW u \in Callers, Opens(req'[u])
      PROVE  /\ ReservedAfter(req[u].id)
             /\ \A v \in Callers \ {u} : Opens(req'[v]) => req'[v].id # req'[u].id
             /\ \A i \in 1 .. Len(pipe') :
                  Opens(pipe'[i]) => pipe'[i].id # req'[u].id
  BY <1>1, <1>4, OpensTypes DEF IInv, ReservedUntilHandled
<1> QED
  BY <1>3, <1>4 DEF ReservedUntilHandled, Opens, Reserved, ReservedAfter

\* ctrl_cmd takes a request from the pipe.  It disturbs no reserved slot but
\* the one of that request, which no other request has.
LEMMA TakeReserved ==
  ASSUME IInv, NEW ops, Cmd(ops),
         \A k \in Slots : type[k] = "RESERVE" =>
           \/ type'[k] = "RESERVE" /\ sid'[k] = sid[k]
           \/ Opens(Head(pipe)) /\ k = Hash(Head(pipe).id)
  PROVE  ReservedUntilHandled'
<1>1. /\ pipe # <<>> /\ pipe' = Tail(pipe) /\ req' = req
      /\ pipe \in Seq(Request)
  BY DEF Cmd, IInv, TypeOK
<1>2. /\ Len(pipe) \in Nat /\ Len(pipe') = Len(pipe) - 1
      /\ \A i \in 1 .. Len(pipe') : pipe'[i] = pipe[i + 1]
      /\ 1 \in 1 .. Len(pipe) /\ Head(pipe) = pipe[1]
  BY <1>1, HeadTailProperties, LenProperties, EmptySeq
<1>3. ASSUME NEW r \in Request, Reserved(r.id),
             Opens(Head(pipe)) => Head(pipe).id # r.id
      PROVE  ReservedAfter(r.id)
  <2>1. Hash(r.id) \in Slots
    BY OpensTypes DEF IInv
  <2>2. type[Hash(r.id)] = "RESERVE" /\ sid[Hash(r.id)] = r.id
    BY <1>3 DEF Reserved
  <2>3. CASE Opens(Head(pipe)) /\ Hash(r.id) = Hash(Head(pipe).id)
    <3>1. sid[Hash(Head(pipe).id)] = Head(pipe).id
      BY <1>2, <2>3 DEF IInv, ReservedUntilHandled, Reserved
    <3> QED
      BY <1>3, <2>2, <2>3, <3>1
  <2>4. CASE ~(Opens(Head(pipe)) /\ Hash(r.id) = Hash(Head(pipe).id))
    BY <2>1, <2>2, <2>4 DEF Reserved, ReservedAfter
  <2> QED
    BY <2>3, <2>4
<1>4. ASSUME NEW i \in 1 .. Len(pipe'), Opens(pipe'[i])
      PROVE  /\ ReservedAfter(pipe[i + 1].id)
             /\ \A j \in 1 .. i - 1 : Opens(pipe'[j]) => pipe'[j].id # pipe'[i].id
  <2>1. i + 1 \in 1 .. Len(pipe) /\ 1 \in 1 .. (i + 1) - 1 /\ pipe'[i] = pipe[i + 1]
    BY <1>2
  <2>2. /\ Reserved(pipe[i + 1].id) /\ pipe[i + 1] \in Request
        /\ \A j \in 1 .. i : Opens(pipe[j]) => pipe[j].id # pipe[i + 1].id
    BY <1>4, <2>1, OpensTypes DEF IInv, ReservedUntilHandled
  <2>3. ReservedAfter(pipe[i + 1].id)
    BY <1>2, <1>3, <2>1, <2>2
  <2>4. ASSUME NEW j \in 1 .. i - 1, Opens(pipe'[j]) PROVE pipe'[j].id # pipe'[i].id
    <3>1. j \in 1 .. Len(pipe') /\ j + 1 \in 1 .. i
      BY <1>2
    <3> QED
      BY <1>2, <2>1, <2>2, <2>4, <3>1
  <2> QED
    BY <2>3, <2>4
<1>5. ASSUME NEW u \in Callers, Opens(req[u])
      PROVE  /\ ReservedAfter(req[u].id)
             /\ \A v \in Callers \ {u} : Opens(req[v]) => req[v].id # req[u].id
             /\ \A i \in 1 .. Len(pipe') : Opens(pipe'[i]) => pipe'[i].id # req[u].id
  <2>1. /\ Reserved(req[u].id) /\ req[u] \in Request
        /\ \A v \in Callers \ {u} : Opens(req[v]) => req[v].id # req[u].id
        /\ \A i \in 1 .. Len(pipe) : Opens(pipe[i]) => pipe[i].id # req[u].id
    BY <1>5, OpensTypes DEF IInv, ReservedUntilHandled
  <2>2. ReservedAfter(req[u].id)
    BY <1>2, <1>3, <2>1
  <2>3. \A i \in 1 .. Len(pipe') : i + 1 \in 1 .. Len(pipe)
    BY <1>2
  <2> QED
    BY <1>2, <2>1, <2>2, <2>3
<1>6. \A i \in 1 .. Len(pipe') : pipe'[i].id = pipe[i + 1].id
  BY <1>2
<1> QED
  BY <1>1, <1>4, <1>5, <1>6 DEF ReservedUntilHandled, Opens, Reserved, ReservedAfter

\* A call prepares a request that opens no slot, or one for a slot that it has
\* just reserved and that no other request can name.
LEMMA PrepareReserved ==
  ASSUME IInv, NEW u \in Callers, NEW r \in Request, Prepare(u, r),
         UNCHANGED pipe, req[u] = NoRequest,
         \/ ~Opens(r) /\ UNCHANGED <<type, sid>>
         \/ \E n \in 1 .. MaxSocket : Reserve(u, r, n)
  PROVE  ReservedUntilHandled'
<1>1. req' = [req EXCEPT ![u] = r] /\ req \in [Callers -> Request \cup {NoRequest}]
  BY DEF Prepare, IInv, TypeOK
<1>2. req'[u] = r /\ \A v \in Callers \ {u} : req'[v] = req[v]
  BY <1>1
<1>3. Opens(r) => ReservedAfter(r.id)
  <2>1. CASE \E n \in 1 .. MaxSocket : Reserve(u, r, n)
    <3> DEFINE k == Hash(r.id)
    <3>1. /\ type' = [type EXCEPT ![k] = "RESERVE"]
          /\ sid' = [sid EXCEPT ![k] = r.id]
      BY <2>1 DEF Reserve
    <3>2. k \in Slots /\ k \in DOMAIN type /\ k \in DOMAIN sid
      BY OpensTypes DEF IInv, TypeOK
    <3>3. type'[k] = "RESERVE" /\ sid'[k] = r.id
      <4> HIDE DEF k
      <4> QED
        BY <3>1, <3>2
    <3> QED
      BY <3>3 DEF Reserved, ReservedAfter
  <2> QED
    BY <2>1
<1>4. ASSUME NEW q \in Request, Reserved(q.id)
      PROVE  ReservedAfter(q.id) /\ (Opens(r) => q.id # r.id)
  <2>1. CASE \E n \in 1 .. MaxSocket : Reserve(u, r, n)
    <3> DEFINE k == Hash(r.id)
               l == Hash(q.id)
    <3>1. /\ type' = [type EXCEPT ![k] = "RESERVE"]
          /\ sid' = [sid EXCEPT ![k] = r.id] /\ type[k] = "INVALID"
      BY <2>1 DEF Reserve, Reserves
    <3>2. type[l] = "RESERVE" /\ sid[l] = q.id
      BY <1>4 DEF Reserved
    <3>3. l # k /\ q.id # r.id
      BY <3>1, <3>2
    <3>4. k \in Slots /\ l \in Slots /\ type \in [Slots -> Types]
          /\ sid \in [Slots -> Ids \cup {NoId}]
      BY OpensTypes DEF IInv, TypeOK
    <3>5. type'[l] = "RESERVE" /\ sid'[l] = q.id
      <4> HIDE DEF k, l
      <4> QED
        BY <3>1, <3>2, <3>3, <3>4
    <3> QED
      BY <3>3, <3>5 DEF Reserved, ReservedAfter
  <2>2. CASE ~Opens(r) /\ UNCHANGED <<type, sid>>
    BY <1>4, <2>2 DEF Reserved, ReservedAfter
  <2> QED
    BY <2>1, <2>2
<1>5. /\ Len(pipe) \in Nat /\ \A i \in 1 .. Len(pipe) : pipe[i] \in Request
      /\ \A v \in Callers : Opens(req[v]) => req[v] \in Request
  BY OpensTypes DEF IInv
<1>6. ASSUME NEW i \in 1 .. Len(pipe), Opens(pipe[i])
      PROVE  /\ ReservedAfter(pipe[i].id) /\ (Opens(r) => pipe[i].id # r.id)
             /\ \A j \in 1 .. i - 1 : Opens(pipe[j]) => pipe[j].id # pipe[i].id
  BY <1>4, <1>5, <1>6 DEF IInv, ReservedUntilHandled
<1>7. ASSUME NEW v \in Callers \ {u}, Opens(req[v])
      PROVE  /\ ReservedAfter(req[v].id) /\ (Opens(r) => req[v].id # r.id)
             /\ \A w \in Callers \ {u, v} : Opens(req[w]) => req[w].id # req[v].id
             /\ \A i \in 1 .. Len(pipe) : Opens(pipe[i]) => pipe[i].id # req[v].id
  BY <1>4, <1>5, <1>7 DEF IInv, ReservedUntilHandled
<1>8. ASSUME NEW v \in Callers, Opens(req'[v])
      PROVE  /\ ReservedAfter(req'[v].id)
             /\ \A w \in Callers \ {v} : Opens(req'[w]) => req'[w].id # req'[v].id
             /\ \A i \in 1 .. Len(pipe) : Opens(pipe[i]) => pipe[i].id # req'[v].id
  <2>1. CASE v = u
    BY <1>2, <1>3, <1>6, <1>7, <1>8, <2>1
  <2>2. CASE v # u
    BY <1>2, <1>7, <1>8, <2>2
  <2> QED
    BY <2>1, <2>2
<1> QED
  BY <1>6, <1>8 DEF ReservedUntilHandled, Opens, Reserved, ReservedAfter

\* Writing a request to the pipe moves it, with its reservation.
LEMMA SendReserved ==
  ASSUME IInv, NEW u \in Callers, send_request(u) PROVE ReservedUntilHandled'
<1>1. /\ pipe' = Append(pipe, req[u]) /\ req' = [req EXCEPT ![u] = NoRequest]
      /\ UNCHANGED <<type, sid>> /\ req[u] \in Request
      /\ pipe \in Seq(Request) /\ req \in [Callers -> Request \cup {NoRequest}]
  BY DEF send_request, IInv, TypeOK, slotVars
<1>2. /\ Len(pipe) \in Nat /\ Len(pipe') = Len(pipe) + 1
      /\ \A i \in 1 .. Len(pipe) : pipe'[i] = pipe[i]
      /\ pipe'[Len(pipe) + 1] = req[u]
  BY <1>1, AppendProperties, LenProperties
<1>3. \A id : Reserved(id) => ReservedAfter(id)
  BY <1>1 DEF Reserved, ReservedAfter
<1>4. ~Opens(req'[u]) /\ \A v \in Callers \ {u} : req'[v] = req[v]
  BY <1>1 DEF Opens, NoRequest
<1>5. ASSUME NEW i \in 1 .. Len(pipe'), Opens(pipe'[i])
      PROVE  /\ ReservedAfter(pipe'[i].id)
             /\ \A j \in 1 .. i - 1 : Opens(pipe'[j]) => pipe'[j].id # pipe'[i].id
  <2>1. CASE i \in 1 .. Len(pipe)
    BY <1>2, <1>3, <1>5, <2>1 DEF IInv, ReservedUntilHandled
  <2>2. CASE i = Len(pipe) + 1
    BY <1>2, <1>3, <1>5, <2>2 DEF IInv, ReservedUntilHandled
  <2> QED
    BY <1>2, <2>1, <2>2
<1>6. ASSUME NEW v \in Callers, Opens(req'[v])
      PROVE  /\ ReservedAfter(req'[v].id)
             /\ \A w \in Callers \ {v} : Opens(req'[w]) => req'[w].id # req'[v].id
             /\ \A i \in 1 .. Len(pipe') : Opens(pipe'[i]) => pipe'[i].id # req'[v].id
  <2>1. v \in Callers \ {u} /\ req'[v] = req[v]
    BY <1>4, <1>6
  <2>2. /\ ReservedAfter(req[v].id)
        /\ \A w \in Callers \ {v} : Opens(req[w]) => req[w].id # req[v].id
        /\ \A i \in 1 .. Len(pipe) : Opens(pipe[i]) => pipe[i].id # req[v].id
    BY <1>3, <1>6, <2>1 DEF IInv, ReservedUntilHandled
  <2>3. \A i \in 1 .. Len(pipe') : i \in 1 .. Len(pipe) \/ i = Len(pipe) + 1
    BY <1>2
  <2> QED
    BY <1>2, <1>4, <1>6, <2>1, <2>2, <2>3
<1> QED
  BY <1>5, <1>6 DEF ReservedUntilHandled, Opens, Reserved, ReservedAfter

-----------------------------------------------------------------------------
(* Who may disturb a reserved slot. *)

Undisturbed == \A k \in Slots : type[k] = "RESERVE" =>
                                  type'[k] = "RESERVE" /\ sid'[k] = sid[k]

\* force_close returns at once for a reserved slot.
LEMMA ForceCloseUndisturbed ==
  ASSUME TypeOK, NEW k \in Slots, force_close(k), UNCHANGED sid
  PROVE  Undisturbed
<1>1. type \in [Slots -> Types]
  BY DEF TypeOK
<1> QED
  BY <1>1 DEF Undisturbed, force_close, Freed, Unowned

\* Changing another slot does not disturb the reserved ones.
LEMMA OtherUndisturbed ==
  ASSUME TypeOK, NEW k \in Slots, type[k] # "RESERVE", NEW t, NEW id,
         type' = [type EXCEPT ![k] = t],
         sid' = [sid EXCEPT ![k] = id] \/ sid' = sid
  PROVE  Undisturbed
  BY DEF TypeOK, Undisturbed

\* The requests that take no reserved slot disturb none.
LEMMA CmdUndisturbed ==
  ASSUME TypeOK,
         start_socket \/ send_socket \/ close_socket \/ set_sockopt
  PROVE  Undisturbed
<1> DEFINE k == Hash(Head(pipe).id)
<1>1. k \in Slots
  BY CmdTypes DEF start_socket, send_socket, close_socket, set_sockopt
<1>2. sid' = sid
  BY DEF start_socket, send_socket, close_socket, set_sockopt, Killed, slotVars
<1>3. \/ type' = type \/ force_close(k)
      \/ type[k] # "RESERVE" /\ \E t : type' = [type EXCEPT ![k] = t]
  <2>1. CASE start_socket
    BY <2>1 DEF start_socket, slotVars
  <2>2. CASE send_socket \/ set_sockopt
    BY <2>2 DEF send_socket, set_sockopt, Killed, slotVars
  <2>3. CASE close_socket
    <3>1. Lingers(Head(pipe), {}) = {}
      BY DEF Lingers, Left
    <3>2. type[k] = "RESERVE" => out[k] = {}
      BY <1>1 DEF TypeOK, Unowned
    <3>3. CASE type[k] = "RESERVE"
      BY <2>3, <3>1, <3>2, <3>3 DEF close_socket, Killed, slotVars
    <3>4. CASE type[k] # "RESERVE"
      BY <2>3, <3>4 DEF close_socket, Killed, slotVars
    <3> QED
      BY <3>3, <3>4
  <2> QED
    BY <2>1, <2>2, <2>3
<1> HIDE DEF k
<1>4. CASE type' = type
  BY <1>2, <1>4 DEF Undisturbed
<1> QED
  BY <1>1, <1>2, <1>3, <1>4, ForceCloseUndisturbed, OtherUndisturbed

\* Neither do the events: report_accept reserves a slot that is INVALID.
LEMMA EventUndisturbed ==
  ASSUME TypeOK,
         skip_null \/ report_accept \/ forword_message_tcp \/ send_buffer
  PROVE  Undisturbed
<1> DEFINE k == Head(evs).slot
<1>1. CASE skip_null
  BY <1>1 DEF skip_null, slotVars, Undisturbed
<1>2. CASE forword_message_tcp \/ send_buffer
  <2>1. sid' = sid /\ (type' = type \/ force_close(k))
    BY <1>2 DEF forword_message_tcp, send_buffer, Killed, slotVars
  <2>2. k \in Slots
    BY <1>2 DEF forword_message_tcp, send_buffer, Dispatch
  <2>3. CASE type' = type
    BY <2>1, <2>3 DEF Undisturbed
  <2> QED
    BY <2>1, <2>2, <2>3, ForceCloseUndisturbed
<1>3. CASE report_accept
  <2>1. CASE UNCHANGED slotVars
    BY <2>1 DEF slotVars, Undisturbed
  <2>2. ASSUME NEW id \in Ids, NEW n, Reserves(id, n),
               sid' = [sid EXCEPT ![Hash(id)] = id],
               type' = [type EXCEPT ![Hash(id)] = "PACCEPT"] \/ type' = type
        PROVE  Undisturbed
    <3> DEFINE h == Hash(id)
    <3>1. h \in Slots /\ type[h] = "INVALID"
      BY <2>2, ReservesTypes DEF Reserves
    <3>2. /\ sid' = [sid EXCEPT ![h] = id]
          /\ type' = [type EXCEPT ![h] = "PACCEPT"] \/ type' = type
      BY <2>2
    <3> HIDE DEF h
    <3> QED
      BY <3>1, <3>2 DEF TypeOK, Undisturbed
  <2>3. \/ UNCHANGED slotVars
        \/ \E id \in Ids, n \in 1 .. MaxSocket :
             /\ Reserves(id, n) /\ sid' = [sid EXCEPT ![Hash(id)] = id]
             /\ type' = [type EXCEPT ![Hash(id)] = "PACCEPT"] \/ type' = type
    BY <1>3 DEF report_accept, new_fd
  <2> QED
    BY <2>1, <2>2, <2>3
<1> QED
  BY <1>1, <1>2, <1>3

\* A listen or open request finds its slot reserved: new_fd does not assert, and
\* takes the slot of that request and no other.
LEMMA OpenReserved ==
  ASSUME IInv, listen_socket \/ open_socket
  PROVE  ReservedUntilHandled' /\ aborted' \in {aborted, "ai_list"}
<1> DEFINE k == Hash(Head(pipe).id)
<1>1. PICK ops : Cmd(ops) /\ (\A op \in ops : op \in {"L", "O"})
  BY DEF listen_socket, open_socket
<1>2. Opens(Head(pipe)) /\ pipe # <<>> /\ pipe \in Seq(Request)
  BY <1>1 DEF Cmd, Opens, IInv, TypeOK
<1>3. 1 \in 1 .. Len(pipe) /\ Head(pipe) = pipe[1]
  BY <1>2, LenProperties, EmptySeq
<1>4. type[k] = "RESERVE"
  BY <1>2, <1>3 DEF IInv, ReservedUntilHandled, Reserved
<1>5. aborted' \in {aborted, "ai_list"}
  BY <1>4 DEF listen_socket, open_socket, Killed
<1>6. /\ type' = type \/ \E t : type' = [type EXCEPT ![k] = t]
      /\ sid' = sid \/ \E id : sid' = [sid EXCEPT ![k] = id]
  BY <1>4 DEF listen_socket, open_socket, Killed, new_fd, slotVars
<1>7. \A l \in Slots : type[l] = "RESERVE" =>
        (type'[l] = "RESERVE" /\ sid'[l] = sid[l]) \/ l = k
  <2> HIDE DEF k
  <2> QED
    BY <1>6 DEF IInv, TypeOK
<1> QED
  BY <1>1, <1>2, <1>5, <1>7, TakeReserved

\* A call leaves every other reservation alone.
LEMMA CallReserved ==
  ASSUME IInv, NEW u \in Callers, Call(u)
  PROVE  ReservedUntilHandled' /\ aborted' \in {aborted, "start", "ai_list"}
<1>1. TypeOK
  BY DEF IInv
<1>2. ASSUME \E r \in Request :
             /\ Prepare(u, r) /\ pipe' = pipe /\ req[u] = NoRequest
             /\ \/ ~Opens(r) /\ UNCHANGED <<type, sid>>
                \/ \E n \in 1 .. MaxSocket : Reserve(u, r, n)
      PROVE  ReservedUntilHandled'
  BY <1>2, PrepareReserved
<1>3. ASSUME UNCHANGED <<pipe, req, type, sid>> PROVE ReservedUntilHandled'
  BY <1>3, KeepReserved
<1>4. \/ \E r \in Request :
           /\ Prepare(u, r) /\ pipe' = pipe /\ req[u] = NoRequest
           /\ \/ ~Opens(r) /\ UNCHANGED <<type, sid>>
              \/ \E n \in 1 .. MaxSocket : Reserve(u, r, n)
      \/ UNCHANGED <<pipe, req, type, sid>>
  <2>1. CASE socket_server_listen(u)
    <3>1. \A f \in Fds, id \in Ids : [Req("L", id) EXCEPT !.fd = f] \in Request
      BY ReqTypes
    <3> QED
      BY <2>1, <3>1 DEF socket_server_listen, CanCall, Reserve
  <2>2. CASE socket_server_connect(u)
    <3>1. \A id \in Ids : Req("O", id) \in Request
      BY ReqTypes DEF Ops
    <3> QED
      BY <2>2, <3>1 DEF socket_server_connect, CanCall, Reserve
  <2>3. CASE socket_server_start(u)
    <3>1. \A id \in Ids : Req("S", id) \in Request /\ ~Opens(Req("S", id))
      BY ReqTypes DEF Ops, Opens, Req
    <3> QED
      BY <1>1, <2>3, <3>1, KnownIds DEF socket_server_start, CanCall, slotVars
  <2>4. CASE socket_server_send(u)
    <3>1. \A id \in Ids, op \in {"D", "P"} :
             Req(op, id) \in Request /\ ~Opens(Req(op, id))
      BY ReqTypes DEF Ops, Opens, Req
    <3> QED
      BY <1>1, <2>4, <3>1, KnownIds DEF socket_server_send, CanCall, slotVars
  <2>5. CASE socket_server_close(u)
    <3>1. \A id \in Ids, op \in {"K", "T"}, b \in BOOLEAN :
             /\ [Req(op, id) EXCEPT !.shutdown = b] \in Request
             /\ ~Opens([Req(op, id) EXCEPT !.shutdown = b])
      BY ReqTypes DEF Ops, Opens, Req
    <3> QED
      BY <1>1, <2>5, <3>1, KnownIds DEF socket_server_close, CanCall, slotVars
  <2> QED
    BY <2>1, <2>2, <2>3, <2>4, <2>5 DEF Call
<1>5. aborted' \in {aborted, "start", "ai_list"}
  BY DEF Call, socket_server_listen, socket_server_connect, socket_server_start,
         socket_server_send, socket_server_close
<1> QED
  BY <1>2, <1>3, <1>4, <1>5

-----------------------------------------------------------------------------
\* Every step keeps the invariant.
LEMMA IInvStep == IInv /\ [Next]_vars => IInv'
<1> SUFFICES ASSUME IInv, [Next]_vars
             PROVE  ReservedUntilHandled' /\ NewFdAssertHolds'
  BY TypeStep DEF IInv
<1>1. TypeOK /\ aborted # "new_fd"
  BY DEF IInv, NewFdAssertHolds
<1>2. ASSUME Undisturbed, UNCHANGED <<pipe, req>> PROVE ReservedUntilHandled'
  BY <1>2, KeepReserved DEF Undisturbed
<1>3. ASSUME NEW u \in Callers, Call(u)
      PROVE  ReservedUntilHandled' /\ NewFdAssertHolds'
  BY <1>1, <1>3, CallReserved DEF NewFdAssertHolds
<1>4. ASSUME NEW u \in Callers, send_request(u)
      PROVE  ReservedUntilHandled' /\ NewFdAssertHolds'
  BY <1>1, <1>4, SendReserved DEF NewFdAssertHolds, send_request
<1>5. CASE listen_socket \/ open_socket
  BY <1>1, <1>5, OpenReserved DEF NewFdAssertHolds
<1>6. CASE start_socket \/ send_socket \/ close_socket \/ set_sockopt
  <2>1. Undisturbed
    BY <1>1, <1>6, CmdUndisturbed
  <2>2. \E ops : Cmd(ops)
    BY <1>6 DEF start_socket, send_socket, close_socket, set_sockopt
  <2>3. aborted' \in {aborted, "SIGPIPE"}
    BY <1>6 DEF start_socket, send_socket, close_socket, set_sockopt, Killed
  <2> QED
    BY <1>1, <2>1, <2>2, <2>3, TakeReserved DEF Undisturbed, NewFdAssertHolds
<1>7. CASE skip_null \/ report_accept \/ forword_message_tcp \/ send_buffer
  <2>1. Undisturbed
    BY <1>1, <1>7, EventUndisturbed
  <2>2. UNCHANGED <<pipe, req>> /\ aborted' \in {aborted, "no", "double free", "SIGPIPE"}
    BY <1>7 DEF skip_null, report_accept, forword_message_tcp, send_buffer, Dispatch,
                Killed
  <2> QED
    BY <1>1, <1>2, <2>1, <2>2 DEF NewFdAssertHolds
<1>8. CASE \/ PollCall \/ clear_close_event \/ NoCmd \/ sp_wait \/ sp_wait_fails
           \/ UNCHANGED vars
  <2>1. UNCHANGED <<type, sid, pipe, req, aborted>>
    BY <1>8 DEF PollCall, clear_close_event, NoCmd, sp_wait, sp_wait_fails, vars,
                slotVars, callVars
  <2> QED
    BY <1>1, <1>2, <2>1 DEF Undisturbed, NewFdAssertHolds
<1> QED
  BY <1>3, <1>4, <1>5, <1>6, <1>7, <1>8 DEF Next, Poll

\* The invariant holds of every behaviour.
LEMMA Invariance == Spec => []IInv
  BY InitIInv, IInvStep, PTL DEF Spec

\* However many threads call the server, the slot of every listen and open
\* request on its way, in its caller's hands or in the pipe, is RESERVE for that
\* request alone.
THEOREM ReservationKept == Spec => []ReservedUntilHandled
<1>1. IInv => ReservedUntilHandled
  BY DEF IInv
<1> QED
  BY <1>1, Invariance, PTL

\* The assertion of new_fd (socket_server.c:302) never fails for such a request.
THEOREM NewFdNeverAsserts == Spec => []NewFdAssertHolds
<1>1. IInv => NewFdAssertHolds
  BY DEF IInv
<1> QED
  BY <1>1, Invariance, PTL

=============================================================================
