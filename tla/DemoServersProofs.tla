-------------------------- MODULE DemoServersProofs --------------------------
(* What the small servers can be relied on for, with any number of clients, *)
(* descriptors and events: every event of a batch is of the connection it   *)
(* was reported for, and only a reset ends a server that listens.           *)
EXTENDS DemoServers, SequenceTheorems, TLAPS

-----------------------------------------------------------------------------
(* The invariant. *)

Pair == [fd : {Listen} \cup Fds, in : BOOLEAN, for : Conns \cup {Nobody}]

PeerTypes == /\ link \in [Conns -> Links] /\ unread \in [Conns -> 0 .. MaxUnread]
             /\ full \subseteq Conns /\ failed \subseteq Conns
FdTypes == /\ owner \in [Fds -> Conns \cup {Nobody}]
           /\ watch \subseteq {Listen} \cup Fds
           /\ nonblock \subseteq Fds /\ lost \subseteq Fds
LoopTypes == /\ server \in Programs /\ limit \in Fds
             /\ batch \in Seq(Pair) /\ pc \in {"start", "loop", "reply"}
             /\ ended \in {"no", "returned", "sigpipe", "crashed"}
Types == PeerTypes /\ FdTypes /\ LoopTypes

\* A descriptor in use has a connection of its own, and only those are polled.
Owned ==
  /\ \A f \in Fds : owner[f] # Nobody => link[owner[f]] # "away"
  /\ \A f, g \in Fds : owner[f] # Nobody /\ owner[f] = owner[g] => f = g
  /\ \A f \in watch : f # Listen => owner[f] # Nobody

\* An event that is left is of the connection it was reported for, and an error
\* event of one that has been reset.
Current(e) ==
  IF e.fd = Listen THEN e.in
  ELSE /\ e.for \in Conns /\ owner[e.fd] = e.for
       /\ ~e.in => link[e.for] \in {"reset", "dead"}

BatchFits ==
  /\ \A i \in 1 .. Len(batch) : Current(batch[i])
  /\ \A i, j \in 1 .. Len(batch) : batch[i].fd = batch[j].fd => i = j
  /\ pc = "start" => batch = <<>>
  /\ pc = "reply" => batch # <<>> /\ sock # Listen

\* A connection whose error was reported by a write is kept, by those programs
\* that keep it, with that on record.
DeadKnown ==
  \A c \in Conns : link[c] = "dead" =>
    server \in {"sp_main", "k_server"} \/ (server # "server_demo_1" /\ c \in failed)

DInv == /\ Types /\ Owned /\ BatchFits /\ DeadKnown
        /\ OnlyResetsEnd /\ SignalOnlyAfterFailedReply

\* The type invariant of the runs is part of it.
LEMMA TypesImply == Types => TypeOK
<1> SUFFICES ASSUME Types PROVE TypeOK
  OBVIOUS
<1>1. \A i \in DOMAIN batch : batch[i] \in Pair
  BY DEF Types, LoopTypes
<1> QED
  BY <1>1 DEF Types, PeerTypes, FdTypes, LoopTypes, TypeOK, Pair

\* So are the events: none is of another connection.
LEMMA EventsImply == Types /\ BatchFits => EventsCurrent
<1> SUFFICES ASSUME Types, BatchFits PROVE EventsCurrent
  OBVIOUS
<1>1. DOMAIN batch = 1 .. Len(batch)
  BY LenProperties DEF Types, LoopTypes
<1> QED
  BY <1>1 DEF BatchFits, Current, EventsCurrent

\* A descriptor is not the listening socket, and nobody is not a client.
LEMMA Apart ==
  /\ Listen \notin Fds /\ Nobody \notin Conns /\ 0 \in 0 .. MaxUnread /\ MaxFd \in Nat \ {0}
  BY PeersAssumption, NobodyAssumption DEF Listen, Fds

\* The invariant holds at the start.
LEMMA InitDInv == Init => DInv
<1> SUFFICES ASSUME Init PROVE DInv
  OBVIOUS
<1> USE DEF Init, PeersInit
<1>1. Types
  <2>1. PeerTypes
    BY Apart DEF PeerTypes, Links
  <2>2. FdTypes
    BY DEF FdTypes
  <2>3. LoopTypes
    BY DEF LoopTypes
  <2> QED
    BY <2>1, <2>2, <2>3 DEF Types
<1>2. Owned /\ DeadKnown /\ OnlyResetsEnd /\ SignalOnlyAfterFailedReply
  BY DEF Owned, DeadKnown, OnlyResetsEnd, SignalOnlyAfterFailedReply
<1>3. BatchFits
  <2>1. Len(batch) = 0
    OBVIOUS
  <2> QED
    BY <2>1 DEF BatchFits
<1> QED
  BY <1>1, <1>2, <1>3 DEF DInv

-----------------------------------------------------------------------------
(* What a step does, to the connections and to the batch.  *)

Unmoved == UNCHANGED <<link, owner, watch, failed>>

\* A client has come, finished or reset its connection.
Moved(c) ==
  /\ UNCHANGED <<owner, watch, failed>>
  /\ \E l : /\ link' = [link EXCEPT ![c] = l]
            /\ <<link[c], l>> \in {<<"away", "up">>, <<"up", "fin">>,
                                   <<"up", "reset">>, <<"fin", "hung">>}

\* read, or a write that is on record, has reported the reset of connection c.
Told(c) ==
  /\ UNCHANGED <<owner, watch>>
  /\ link[c] = "reset" /\ link' = [link EXCEPT ![c] = "dead"]
  /\ \/ server \in {"sp_main", "k_server"} /\ failed' = failed
     \/ server # "server_demo_1" /\ failed' = failed \cup {c}

\* Descriptor f was closed, or given to connection c.
Shut(f) ==
  /\ owner' = [owner EXCEPT ![f] = Nobody] /\ watch' = watch \ {f}
  /\ link' = [link EXCEPT ![owner[f]] = "away"]
  /\ failed' = failed \ {owner[f]}
Given(f, c) ==
  /\ owner[f] = Nobody /\ c \in Queued /\ owner' = [owner EXCEPT ![f] = c]
  /\ watch' \in {watch, watch \cup {f}} /\ UNCHANGED <<link, failed>>

Still == UNCHANGED <<batch, pc>>
Next1 == batch # <<>> /\ batch' = Tail(batch) /\ pc' = "loop"
\* A program goes on to answer the event it handles.
Answers == batch # <<>> /\ sock # Listen /\ batch' = batch /\ pc' = "reply"

\* A program ends: by itself, after an error event, or by a signal.
Dies ==
  /\ Unmoved /\ Still /\ batch # <<>> /\ sock # Listen
  /\ \/ ~Head(batch).in /\ ended' = "returned"
     \/ /\ ended' = "sigpipe" /\ server # "sp_main" /\ link[conn] \in {"hung", "dead"}

Effect ==
  /\ UNCHANGED server
  /\ \/ /\ pc = "start" /\ UNCHANGED <<link, owner, failed, batch>>
        /\ watch' \in {watch, {Listen}}
        /\ \/ pc' = "loop" /\ UNCHANGED ended
           \/ pc' = "start" /\ ended' \in {"returned", "crashed"}
     \/ \E c \in Conns : Moved(c) /\ Still /\ UNCHANGED ended
     \/ Unmoved /\ Still /\ UNCHANGED ended
     \/ Unmoved /\ pc = "loop" /\ pc' = "loop" /\ batch' \in Batches /\ UNCHANGED ended
     \/ Unmoved /\ pc' = "loop" /\ batch' = <<>> /\ UNCHANGED ended
     \/ Unmoved /\ Next1 /\ ended' \in {ended, "crashed"}
     \/ Unmoved /\ Answers /\ UNCHANGED ended
     \/ Told(conn) /\ batch # <<>> /\ sock # Listen /\ (Next1 \/ Answers) /\ UNCHANGED ended
     \/ sock # Listen /\ Shut(sock) /\ Next1 /\ UNCHANGED ended
     \/ /\ \E f \in Fds, c \in Conns : Given(f, c)
        /\ Next1 /\ ended' \in {ended, "crashed"}
     \/ Dies
  /\ ended = "no"

\* The effects that leave every connection to the descriptor it has.
Calm ==
  /\ UNCHANGED <<link, owner, failed>> /\ watch' \in {watch, {Listen}}
  /\ \/ batch' \in Batches /\ pc' = "loop"
     \/ Still \/ Next1 \/ Answers \/ (batch' = <<>> /\ pc' \in {"start", "loop"})
     \/ pc = "start" /\ UNCHANGED batch /\ pc' \in {"start", "loop"}

-----------------------------------------------------------------------------
(* The batch after each effect. *)

\* The event at the head and those behind it.
LEMMA BatchHead ==
  ASSUME Types, BatchFits, batch # <<>>
  PROVE  /\ Len(batch) \in Nat /\ 1 \in 1 .. Len(batch) /\ Head(batch) = batch[1]
         /\ Head(batch) \in Pair /\ Current(Head(batch))
         /\ sock = Head(batch).fd /\ (sock # Listen => sock \in Fds /\ conn \in Conns)
         /\ Tail(batch) \in Seq(Pair) /\ Len(Tail(batch)) = Len(batch) - 1
         /\ \A i \in 1 .. Len(Tail(batch)) :
              /\ Tail(batch)[i] = batch[i + 1] /\ i + 1 \in 1 .. Len(batch)
              /\ Tail(batch)[i].fd # sock
<1>1. batch \in Seq(Pair)
  BY DEF Types, LoopTypes
<1>2. /\ Len(batch) \in Nat /\ Head(batch) = batch[1] /\ 1 \in 1 .. Len(batch)
      /\ Tail(batch) \in Seq(Pair) /\ Len(Tail(batch)) = Len(batch) - 1
      /\ \A i \in 1 .. Len(Tail(batch)) : Tail(batch)[i] = batch[i + 1]
  BY <1>1, HeadTailProperties, LenProperties, EmptySeq
<1>3. Head(batch) \in Pair
  BY <1>1, <1>2, ElementOfSeq
<1>4. Current(Head(batch)) /\ sock = Head(batch).fd
  BY <1>2 DEF BatchFits, sock
<1>5. sock # Listen => sock \in Fds /\ conn \in Conns
  BY <1>3, <1>4 DEF Current, Pair, conn
<1>6. \A i \in 1 .. Len(Tail(batch)) : i + 1 \in 1 .. Len(batch) /\ i + 1 # 1
  BY <1>2
<1>7. \A i \in 1 .. Len(Tail(batch)) : Tail(batch)[i].fd # sock
  BY <1>2, <1>4, <1>6 DEF BatchFits
<1> QED
  BY <1>2, <1>3, <1>4, <1>5, <1>6, <1>7

\* A batch of epoll is of descriptors in use, each with its connection.
LEMMA NewBatch ==
  ASSUME Types, Owned, NEW es \in Batches
  PROVE  /\ es \in Seq(Pair)
         /\ \A i \in 1 .. Len(es) : Current(es[i])
         /\ \A i, j \in 1 .. Len(es) : es[i].fd = es[j].fd => i = j
<1> DEFINE Seen == UNION {Events(f) : f \in {g \in {Listen} \cup Fds : Ready(g)}}
<1>1. ASSUME NEW e \in Seen PROVE e \in Pair /\ Current(e)
  <2>1. PICK f \in {Listen} \cup Fds : Ready(f) /\ e \in Events(f)
    OBVIOUS
  <2>2. CASE f = Listen
    <3>1. e = [fd |-> Listen, in |-> TRUE, for |-> Nobody]
      BY <2>1, <2>2 DEF Events
    <3> QED
      BY <3>1 DEF Pair, Current
  <2>3. CASE f # Listen
    <3>1. PICK i \in BOOLEAN : /\ e = [fd |-> f, in |-> i, for |-> owner[f]]
                               /\ ~i => link[owner[f]] = "reset"
      BY <2>1, <2>3 DEF Events
    <3>2. f \in Fds /\ owner[f] # Nobody
      BY <2>1, <2>3 DEF Ready, Owned
    <3>3. owner[f] \in Conns
      BY <3>2 DEF Types, FdTypes
    <3> QED
      BY <2>3, <3>1, <3>2, <3>3 DEF Pair, Current
  <2> QED
    BY <2>2, <2>3
<1>2. PICK n \in 1 .. MaxEvents : es \in [1 .. n -> Seen]
  BY DEF Batches
<1>3. n \in Nat /\ DOMAIN es = 1 .. n /\ \A i \in 1 .. n : es[i] \in Seen
  BY <1>2, PeersAssumption
<1> HIDE DEF Seen
<1>4. es \in Seq(Pair) /\ Len(es) = n
  <2>1. \A i \in 1 .. n : es[i] \in Pair
    BY <1>1, <1>3
  <2>2. es = [i \in 1 .. n |-> es[i]]
    BY <1>2
  <2>3. es \in Seq(Pair)
    BY <1>3, <2>1, <2>2
  <2> QED
    BY <1>3, <2>3, LenProperties
<1>5. \A i, j \in 1 .. n : es[i].fd = es[j].fd => i = j
  BY <1>3 DEF Batches
<1> QED
  BY <1>1, <1>3, <1>4, <1>5

-----------------------------------------------------------------------------
(* The invariant after each effect. *)

\* What Current will be after the step.
CurrentAfter(e) ==
  IF e.fd = Listen THEN e.in
  ELSE /\ e.for \in Conns /\ owner'[e.fd] = e.for
       /\ ~e.in => link'[e.for] \in {"reset", "dead"}

\* What is left of the batch still fits, if each event of it is still current.
LEMMA BatchKept ==
  ASSUME Types, BatchFits,
         Still \/ Next1 \/ Answers \/ (batch' = <<>> /\ pc' \in {"start", "loop"}),
         \A i \in 1 .. Len(batch) :
           batch' = batch \/ batch[i].fd # sock => CurrentAfter(batch[i])
  PROVE  BatchFits'
<1>1. \A e : Current(e)' <=> CurrentAfter(e)
  BY DEF Current, CurrentAfter
<1>2. CASE batch' = batch
  <2>1. Len(batch') = Len(batch) /\ sock' = sock
    BY <1>2 DEF sock
  <2>2. \A i \in 1 .. Len(batch') : CurrentAfter(batch'[i])
    BY <1>2
  <2>3. /\ pc' = "start" => batch' = <<>>
        /\ pc' = "reply" => batch' # <<>> /\ sock' # Listen
    BY <1>2, <2>1 DEF BatchFits, Still, Next1, Answers
  <2> QED
    BY <1>1, <1>2, <2>1, <2>2, <2>3 DEF BatchFits, CurrentAfter, Current
<1>3. CASE Next1
  <2>1. /\ Len(batch) \in Nat /\ Len(batch') = Len(batch) - 1
        /\ \A i \in 1 .. Len(batch') :
             /\ batch'[i] = batch[i + 1] /\ i + 1 \in 1 .. Len(batch)
             /\ batch'[i].fd # sock
    BY <1>3, BatchHead DEF Next1
  <2>2. \A i \in 1 .. Len(batch') : CurrentAfter(batch'[i])
    BY <2>1
  <2>3. \A i, j \in 1 .. Len(batch') : batch'[i].fd = batch'[j].fd => i = j
    <3> SUFFICES ASSUME NEW i \in 1 .. Len(batch'), NEW j \in 1 .. Len(batch'),
                        batch[i + 1].fd = batch[j + 1].fd
                 PROVE  i = j
      BY <2>1
    <3>1. i + 1 = j + 1
      BY <2>1 DEF BatchFits
    <3> QED
      BY <2>1, <3>1
  <2> QED
    BY <1>3, <2>2, <2>3 DEF BatchFits, Current, CurrentAfter, Next1
<1>4. CASE batch' = <<>> /\ pc' \in {"start", "loop"}
  <2>1. Len(batch') = 0
    BY <1>4
  <2> QED
    BY <1>4, <2>1 DEF BatchFits
<1> QED
  BY <1>2, <1>3, <1>4 DEF Still, Answers

\* Every effect keeps the descriptors owned, and the events of their owners.
LEMMA EffectOwned ==
  ASSUME DInv, Types', Effect PROVE Owned' /\ BatchFits' /\ DeadKnown'
<1>1. /\ Types /\ Owned /\ BatchFits /\ DeadKnown
      /\ link \in [Conns -> Links] /\ owner \in [Fds -> Conns \cup {Nobody}]
      /\ failed \subseteq Conns /\ watch \subseteq {Listen} \cup Fds
  BY DEF DInv, Types, PeerTypes, FdTypes
<1>2. UNCHANGED server
  BY DEF Effect
<1>3. \A i \in 1 .. Len(batch) : Current(batch[i]) /\ batch[i].fd \in {Listen} \cup Fds
  <2>1. \A i \in 1 .. Len(batch) : batch[i] \in Pair
    BY <1>1, LenProperties DEF Types, LoopTypes
  <2> QED
    BY <1>1, <2>1 DEF BatchFits, Pair
<1>4. CASE Calm
  <2>1. Owned' /\ DeadKnown'
    BY <1>1, <1>2, <1>4 DEF Calm, Owned, DeadKnown
  <2>2. \A e : CurrentAfter(e) <=> Current(e)
    BY <1>4 DEF Calm, CurrentAfter, Current
  <2>3. CASE batch' \in Batches /\ pc' = "loop"
    <3>1. /\ \A i \in 1 .. Len(batch') : Current(batch'[i])
          /\ \A i, j \in 1 .. Len(batch') : batch'[i].fd = batch'[j].fd => i = j
      BY <1>1, <2>3, NewBatch
    <3>2. \A i \in 1 .. Len(batch') : CurrentAfter(batch'[i])
      BY <2>2, <3>1
    <3> QED
      BY <2>1, <2>3, <3>1, <3>2 DEF BatchFits, Current, CurrentAfter
  <2>4. CASE Still \/ Next1 \/ Answers \/ (batch' = <<>> /\ pc' \in {"start", "loop"})
    BY <1>1, <1>3, <2>1, <2>2, <2>4, BatchKept
  <2>5. CASE pc = "start" /\ UNCHANGED batch /\ pc' \in {"start", "loop"}
    BY <2>4, <2>5 DEF DInv, BatchFits
  <2> QED
    BY <1>4, <2>3, <2>4, <2>5 DEF Calm
<1>5. ASSUME NEW c \in Conns, Moved(c), Still PROVE Owned' /\ BatchFits' /\ DeadKnown'
  <2>1. /\ UNCHANGED <<owner, watch, failed>>
        /\ \A d \in Conns : /\ link'[d] = link[d] \/ link'[d] \in {"up", "fin", "reset", "hung"}
                            /\ link[d] \in {"reset", "dead"} => link'[d] = link[d]
    BY <1>1, <1>5 DEF Moved
  <2>2. Owned' /\ DeadKnown'
    BY <1>1, <1>2, <2>1 DEF Owned, DeadKnown
  <2>3. \A i \in 1 .. Len(batch) : CurrentAfter(batch[i])
    BY <1>3, <2>1 DEF CurrentAfter, Current
  <2> QED
    BY <1>1, <1>5, <2>2, <2>3, BatchKept
<1>6. CASE Told(conn) /\ batch # <<>> /\ sock # Listen /\ (Next1 \/ Answers)
  <2>1. conn \in Conns
    BY <1>1, <1>6, BatchHead
  <2>2. /\ UNCHANGED <<owner, watch>> /\ link'[conn] = "dead"
        /\ \A d \in Conns \ {conn} : link'[d] = link[d]
        /\ failed \subseteq failed'
        /\ \/ server \in {"sp_main", "k_server"}
           \/ server # "server_demo_1" /\ conn \in failed'
    BY <1>1, <1>6, <2>1 DEF Told
  <2>3. Owned'
    BY <1>1, <2>1, <2>2 DEF Owned
  <2>4. DeadKnown'
    BY <1>1, <1>2, <2>1, <2>2 DEF DeadKnown
  <2>5. \A i \in 1 .. Len(batch) : CurrentAfter(batch[i])
    BY <1>3, <2>1, <2>2 DEF CurrentAfter, Current
  <2> QED
    BY <1>1, <1>6, <2>3, <2>4, <2>5, BatchKept
<1>7. CASE sock # Listen /\ Shut(sock) /\ Next1
  <2>1. sock \in Fds /\ conn \in Conns /\ conn = owner[sock] /\ batch # <<>>
    BY <1>1, <1>7, BatchHead DEF Next1, conn
  <2>2. /\ owner'[sock] = Nobody /\ \A f \in Fds \ {sock} : owner'[f] = owner[f]
        /\ link'[conn] = "away" /\ \A d \in Conns \ {conn} : link'[d] = link[d]
        /\ failed' = failed \ {conn} /\ watch' = watch \ {sock}
    BY <1>1, <1>7, <2>1 DEF Shut
  <2>3. \A f \in Fds \ {sock} : owner[f] # conn
    BY <1>1, <2>1, Apart DEF Owned
  <2>4. Owned'
    <3>1. \A f \in Fds : owner'[f] # Nobody => f # sock /\ owner[f] \in Conns \ {conn}
      BY <1>1, <2>1, <2>2, <2>3
    <3> QED
      BY <1>1, <2>1, <2>2, <3>1 DEF Owned
  <2>5. DeadKnown'
    BY <1>1, <1>2, <2>1, <2>2 DEF DeadKnown
  <2>6. \A i \in 1 .. Len(batch) : batch[i].fd # sock => CurrentAfter(batch[i])
    BY <1>3, <2>1, <2>2, <2>3 DEF CurrentAfter, Current
  <2>7. batch' # batch
    BY <1>1, <1>7, BatchHead DEF Next1
  <2> QED
    BY <1>1, <1>7, <2>4, <2>5, <2>6, <2>7, BatchKept
<1>8. ASSUME NEW f \in Fds, NEW c \in Conns, Given(f, c), Next1
      PROVE  Owned' /\ BatchFits' /\ DeadKnown'
  <2>1. /\ owner[f] = Nobody /\ link[c] # "away" /\ \A g \in Fds : owner[g] # c
        /\ owner'[f] = c /\ \A g \in Fds \ {f} : owner'[g] = owner[g]
        /\ UNCHANGED <<link, failed>> /\ watch' \in {watch, watch \cup {f}} /\ c # Nobody
    BY <1>1, <1>8, Apart DEF Given, Queued
  <2>2. Owned'
    BY <1>1, <2>1 DEF Owned
  <2>3. DeadKnown'
    BY <1>1, <1>2, <2>1 DEF DeadKnown
  <2>4. \A i \in 1 .. Len(batch) : CurrentAfter(batch[i])
    BY <1>3, <2>1, Apart DEF CurrentAfter, Current
  <2> QED
    BY <1>1, <1>8, <2>2, <2>3, <2>4, BatchKept
<1>9. \/ Calm
      \/ \E c \in Conns : Moved(c) /\ Still
      \/ Told(conn) /\ batch # <<>> /\ sock # Listen /\ (Next1 \/ Answers)
      \/ sock # Listen /\ Shut(sock) /\ Next1
      \/ (\E f \in Fds, c \in Conns : Given(f, c)) /\ Next1
  <2>1. Unmoved => UNCHANGED <<link, owner, failed>> /\ watch' \in {watch, {Listen}}
    BY DEF Unmoved
  <2>2. Dies => Unmoved /\ Still
    BY DEF Dies
  <2> QED
    BY <2>1, <2>2 DEF Effect, Calm
<1> QED
  BY <1>4, <1>5, <1>6, <1>7, <1>8, <1>9

\* A program that listens ends only in Dies, on account of a reset connection.
LEMMA EffectEnds ==
  ASSUME DInv, Effect PROVE OnlyResetsEnd' /\ SignalOnlyAfterFailedReply'
<1>1. CASE ended' \notin {"returned", "sigpipe"}
  BY <1>1 DEF OnlyResetsEnd, SignalOnlyAfterFailedReply
<1>2. CASE ended' = "returned" /\ pc' = "start"
  BY <1>2 DEF OnlyResetsEnd, SignalOnlyAfterFailedReply
<1>3. CASE Dies
  <2>1. /\ batch # <<>> /\ sock # Listen /\ conn' = conn /\ Types /\ BatchFits /\ DeadKnown
        /\ UNCHANGED <<link, failed, server>>
    BY <1>3 DEF Dies, Unmoved, Still, conn, sock, DInv, Effect
  <2>2. conn \in Conns /\ Current(Head(batch)) /\ sock = Head(batch).fd
    BY <2>1, BatchHead
  <2>3. ~Head(batch).in => link[conn] \in {"reset", "dead"}
    BY <2>1, <2>2 DEF Current, conn
  <2>4. \/ ended' = "returned" /\ link'[conn'] \in {"reset", "dead"}
        \/ /\ ended' = "sigpipe" /\ server # "sp_main" /\ link'[conn'] \in {"hung", "dead"}
    BY <1>3, <2>1, <2>3 DEF Dies
  <2>5. link[conn] = "dead" =>
          \/ server \in {"sp_main", "k_server"}
          \/ server # "server_demo_1" /\ conn \in failed
    BY <2>1, <2>2 DEF DeadKnown
  <2> QED
    BY <2>1, <2>4, <2>5 DEF OnlyResetsEnd, SignalOnlyAfterFailedReply
<1> QED
  BY <1>1, <1>2, <1>3 DEF Effect

-----------------------------------------------------------------------------
(* Every step has one of the effects, and keeps the types. *)

\* What the steps that serve an event do to the variables they share.
LEMMA Serving ==
  ASSUME DInv, batch # <<>>
  PROVE  /\ Types /\ Owned /\ BatchFits
         /\ sock # Listen =>
              /\ sock \in Fds /\ conn \in Conns /\ owner[sock] = conn
              /\ Head(batch).in \in BOOLEAN /\ Current(Head(batch))
         /\ sock = Listen => Head(batch).in
         /\ Tail(batch) \in Seq(Pair)
<1>1. Types /\ Owned /\ BatchFits
  BY DEF DInv
<1>2. /\ Head(batch) \in Pair /\ Current(Head(batch)) /\ sock = Head(batch).fd
      /\ sock # Listen => sock \in Fds /\ conn \in Conns
      /\ Tail(batch) \in Seq(Pair)
  BY <1>1, BatchHead
<1> QED
  BY <1>1, <1>2 DEF Current, conn, Pair


\* close(2) shuts the descriptor and keeps the types.
LEMMA ClosesShuts ==
  ASSUME Types, NEW f \in Fds, owner[f] \in Conns, Closes(f)
  PROVE  Shut(f) /\ PeerTypes' /\ FdTypes'
<1>1. Shut(f)
  BY DEF Closes, Shut
<1>2. PeerTypes'
  BY Apart DEF Types, PeerTypes, Closes, Links
<1>3. FdTypes'
  BY DEF Types, FdTypes, Closes
<1> QED
  BY <1>1, <1>2, <1>3

\* read(2) of data or an error keeps the types.
LEMMA ReadTypes ==
  ASSUME PeerTypes, NEW c \in Conns, UNCHANGED <<full, failed>>,
         \/ HasData(c) /\ TakeData(c) /\ UNCHANGED link
         \/ TakeError(c) /\ UNCHANGED unread
         \/ UNCHANGED <<link, unread>>
  PROVE  PeerTypes'
<1>1. CASE HasData(c) /\ TakeData(c) /\ UNCHANGED link
  <2>1. PICK n \in 0 .. unread[c] - 1 : unread' = [unread EXCEPT ![c] = n]
    BY <1>1 DEF TakeData
  <2>2. n \in 0 .. MaxUnread
    BY <2>1, PeersAssumption DEF PeerTypes
  <2> QED
    BY <1>1, <2>1, <2>2 DEF PeerTypes
<1>2. CASE TakeError(c) /\ UNCHANGED unread
  BY <1>2 DEF PeerTypes, TakeError, Links
<1>3. CASE UNCHANGED <<link, unread>>
  BY <1>3 DEF PeerTypes
<1> QED
  BY <1>1, <1>2, <1>3

\* write(2) keeps the types, and moves no connection but to report its reset.
LEMMA WritesTells ==
  ASSUME Types, NEW f \in Fds, owner[f] \in Conns, Writes(f), UNCHANGED fdVars
  PROVE  /\ PeerTypes'
         /\ \/ Unmoved
            \/ /\ UNCHANGED <<owner, watch>> /\ link[owner[f]] = "reset"
               /\ link' = [link EXCEPT ![owner[f]] = "dead"]
               /\ failed' = failed \cup {owner[f]}
<1>1. CASE Written(owner[f])
  BY <1>1 DEF Written, Types, PeerTypes, Unmoved, fdVars
<1>2. CASE NoRoom(f) /\ UNCHANGED <<peerVars, failed>>
  BY <1>2 DEF Types, PeerTypes, peerVars, Unmoved, fdVars
<1>3. CASE /\ link[owner[f]] = "reset" /\ TakeError(owner[f])
           /\ failed' = failed \cup {owner[f]} /\ UNCHANGED <<unread, full>>
  BY <1>3 DEF Types, PeerTypes, TakeError, Links, fdVars
<1> QED
  BY <1>1, <1>2, <1>3 DEF Writes

\* accept(2), O_NONBLOCK or not, and EPOLL_CTL_ADD give a descriptor away.
LEMMA AcceptedGiven ==
  ASSUME DInv, NEW f \in Fds, NEW c \in Conns, Accepted(f, c),
         \/ Added(f)
         \/ UNCHANGED <<watch, lost>>,
         nonblock' \in {nonblock, nonblock \cup {f}}, UNCHANGED <<link, failed>>
  PROVE  Given(f, c) /\ FdTypes'
<1>1. Types /\ limit \in Fds /\ FdTypes
  BY DEF DInv, Types, LoopTypes
<1>2. owner[f] = Nobody
  BY DEF Accepted, Open
<1>3. c \in Queued /\ owner' = [owner EXCEPT ![f] = c]
  BY DEF Accepted
<1>4. watch' \in {watch, watch \cup {f}} /\ lost' \in {lost, lost \cup {f}}
  BY DEF Added
<1> QED
  BY <1>1, <1>2, <1>3, <1>4 DEF Given, FdTypes

\* The variables of the loop keep their types whatever is done with the batch.
LEMMA LoopKept ==
  ASSUME Types, UNCHANGED <<server, limit>>,
         \/ Still \/ Next1 \/ Answers \/ (batch' = <<>> /\ pc' = "loop")
         \/ batch' = batch /\ pc' \in {"start", "loop"},
         ended' \in {"no", "returned", "sigpipe", "crashed"}
  PROVE  LoopTypes'
<1>1. batch' \in Seq(Pair)
  <2>1. <<>> \in Seq(Pair)
    OBVIOUS
  <2>2. batch # <<>> => Tail(batch) \in Seq(Pair)
    BY HeadTailProperties DEF Types, LoopTypes
  <2> QED
    BY <2>1, <2>2 DEF Types, LoopTypes, Still, Next1, Answers
<1>2. pc' \in {"start", "loop", "reply"}
  BY DEF Types, LoopTypes, Still, Next1, Answers
<1> QED
  BY <1>1, <1>2 DEF Types, LoopTypes

\* A step of a client.
LEMMA ClientStep ==
  ASSUME DInv, NEW c \in Conns, Client(c) PROVE Effect /\ Types'
<1>1. /\ Types /\ PeerTypes /\ FdTypes /\ LoopTypes
      /\ UNCHANGED <<server, limit, fdVars, batch, pc, failed, ended>> /\ ended = "no"
  BY DEF DInv, Types, Client
<1>2. FdTypes' /\ LoopTypes' /\ Still
  BY <1>1 DEF FdTypes, LoopTypes, fdVars, Still
<1>3. CASE Connect(c) \/ Finishes(c) \/ Resets(c)
  <2>1. Moved(c)
    BY <1>1, <1>3 DEF Connect, Finishes, Resets, Moved, PeerTypes, fdVars
  <2>2. PeerTypes'
    BY <1>1, <1>3, Apart DEF Connect, Finishes, Resets, PeerTypes, Links
  <2> QED
    BY <1>1, <1>2, <2>1, <2>2 DEF Types, Effect
<1>4. CASE Sends(c) \/ Receives(c)
  <2>1. Unmoved
    BY <1>1, <1>4 DEF Sends, Receives, Unmoved, fdVars
  <2>2. PeerTypes'
    <3>1. CASE Sends(c)
      <4>1. unread[c] + 1 \in 0 .. MaxUnread
        BY <1>1, <3>1, PeersAssumption DEF Sends, PeerTypes
      <4> QED
        BY <1>1, <3>1, <4>1 DEF Sends, PeerTypes
    <3>2. CASE Receives(c)
      BY <1>1, <3>2 DEF Receives, PeerTypes
    <3> QED
      BY <1>4, <3>1, <3>2
  <2> QED
    BY <1>1, <1>2, <2>1, <2>2 DEF Types, Effect
<1> QED
  BY <1>3, <1>4 DEF Client

\* A call of epoll_wait.
LEMMA WaitStep ==
  ASSUME DInv, epoll_wait PROVE Effect /\ Types'
<1>1. /\ Types /\ Owned /\ PeerTypes /\ FdTypes /\ LoopTypes
      /\ UNCHANGED <<server, limit, peerVars, fdVars, pc, failed, ended>>
      /\ batch' \in Batches /\ pc = "loop" /\ ended = "no"
  BY DEF DInv, Types, epoll_wait, Waits
<1>2. batch' \in Seq(Pair)
  BY <1>1, NewBatch
<1>3. Unmoved
  BY <1>1 DEF Unmoved, peerVars, fdVars
<1>4. PeerTypes' /\ FdTypes' /\ LoopTypes'
  BY <1>1, <1>2 DEF PeerTypes, FdTypes, LoopTypes, peerVars, fdVars
<1> QED
  BY <1>1, <1>3, <1>4 DEF Types, Effect

\* The set-up of a program.
LEMMA StartStep ==
  ASSUME DInv, NEW p, Starts(p),
         Listening \/ Deaf \/ Returns \/ (Crash /\ UNCHANGED <<pc, watch>>)
  PROVE  Effect /\ Types'
<1>1. /\ Types /\ PeerTypes /\ FdTypes /\ LoopTypes /\ pc = "start" /\ ended = "no"
      /\ UNCHANGED <<server, limit, link, unread, full, owner, nonblock, lost, batch, failed>>
  BY DEF DInv, Types, Starts, Runs, peerVars
<1>2. /\ watch' \in {watch, {Listen}}
      /\ \/ pc' = "loop" /\ UNCHANGED ended
         \/ pc' = "start" /\ ended' \in {"returned", "crashed"}
  BY <1>1 DEF Listening, Deaf, Returns, Crash
<1>3. PeerTypes' /\ FdTypes' /\ LoopTypes'
  BY <1>1, <1>2 DEF PeerTypes, FdTypes, LoopTypes
<1> QED
  BY <1>1, <1>2, <1>3 DEF Types, Effect

\* The callback of the listening socket.
LEMMA AcceptStep ==
  ASSUME DInv, ended = "no", batch # <<>>, Continue,
         UNCHANGED <<server, limit, peerVars, failed>>,
         ended' \in {ended, "crashed"},
         \/ UNCHANGED fdVars
         \/ \E f \in Fds, c \in Conns :
              /\ Accepted(f, c) /\ Added(f)
              /\ nonblock' \in {nonblock, nonblock \cup {f}}
  PROVE  Effect /\ Types'
<1>1. Types /\ PeerTypes /\ FdTypes /\ Next1
  BY DEF DInv, Types, Continue, Next1
<1>2. LoopTypes'
  BY <1>1, LoopKept
<1>3. UNCHANGED <<link, unread, full>> /\ PeerTypes'
  BY <1>1 DEF peerVars, PeerTypes
<1>4. CASE UNCHANGED fdVars
  <2>1. FdTypes' /\ Unmoved
    BY <1>1, <1>3, <1>4 DEF fdVars, FdTypes, Unmoved
  <2> QED
    BY <1>1, <1>2, <1>3, <2>1 DEF Effect, Types
<1>5. ASSUME NEW f \in Fds, NEW c \in Conns, Accepted(f, c), Added(f),
             nonblock' \in {nonblock, nonblock \cup {f}}
      PROVE  Effect /\ Types'
  <2>1. Given(f, c) /\ FdTypes'
    BY <1>3, <1>5, AcceptedGiven
  <2> QED
    BY <1>1, <1>2, <1>3, <2>1 DEF Effect, Types
<1> QED
  BY <1>4, <1>5

\* The end of a connection.
LEMMA CloseStep ==
  ASSUME DInv, ended = "no", batch # <<>>, sock # Listen, Closes(sock), Continue,
         UNCHANGED <<server, limit, ended>>
  PROVE  Effect /\ Types'
<1>1. Types /\ sock \in Fds /\ owner[sock] \in Conns /\ Next1
  BY Serving DEF Continue, Next1
<1>2. Shut(sock) /\ PeerTypes' /\ FdTypes'
  BY <1>1, ClosesShuts
<1>3. LoopTypes'
  BY <1>1, LoopKept
<1> QED
  BY <1>1, <1>2, <1>3 DEF Effect, Types

\* A read or a write that closes nothing, and what is done with the batch next.
LEMMA KeepStep ==
  ASSUME DInv, ended = "no", batch # <<>>, sock # Listen, PeerTypes', UNCHANGED fdVars,
         UNCHANGED <<server, limit, ended>>,
         Unmoved \/ Told(conn),
         Continue \/ Answer
  PROVE  Effect /\ Types'
<1>1. Types /\ FdTypes' /\ (Next1 \/ Answers)
  BY DEF DInv, Types, FdTypes, fdVars, Continue, Answer, Next1, Answers
<1>2. LoopTypes'
  BY <1>1, LoopKept DEF DInv, Types, LoopTypes
<1> QED
  BY <1>1, <1>2 DEF Effect, Types

\* The rest of a batch is dropped, or the program ends.
LEMMA LeaveStep ==
  ASSUME DInv, ended = "no", UNCHANGED <<server, limit, peerVars, fdVars, failed>>,
         Dies \/ (Break /\ UNCHANGED ended)
  PROVE  Effect /\ Types'
<1>1. Types /\ PeerTypes' /\ FdTypes' /\ Unmoved
  BY DEF DInv, Types, PeerTypes, FdTypes, peerVars, fdVars, Unmoved
<1>2. LoopTypes'
  BY <1>1, LoopKept DEF Dies, Break
<1> QED
  BY <1>1, <1>2 DEF Effect, Types, Break

\* The write that answers.
LEMMA ReplyStep ==
  ASSUME DInv, NEW p, p \notin {"sp_main", "server_demo_1"}, Reply(p) PROVE Effect /\ Types'
<1>1. /\ ended = "no" /\ server = p /\ pc = "reply" /\ UNCHANGED <<server, limit, fdVars>>
  BY DEF Reply, Runs
<1>2. Types /\ batch # <<>> /\ sock # Listen
  BY <1>1 DEF DInv, BatchFits
<1>3. sock \in Fds /\ conn \in Conns /\ owner[sock] = conn
  BY <1>2, Serving
<1>4. CASE Writes(sock) /\ Continue /\ UNCHANGED ended
  <2>1. PeerTypes' /\ (Unmoved \/ Told(conn))
    BY <1>1, <1>2, <1>3, <1>4, WritesTells DEF Told
  <2> QED
    BY <1>1, <1>2, <1>4, <2>1, KeepStep
<1>5. CASE Signalled(sock) /\ UNCHANGED <<peerVars, batch, pc, failed>>
  <2>1. Dies
    BY <1>1, <1>2, <1>3, <1>5
    DEF Signalled, Dies, Unmoved, Still, peerVars, fdVars
  <2> QED
    BY <1>1, <1>5, <2>1, LeaveStep
<1> QED
  BY <1>4, <1>5 DEF Reply

\* net_demo2/sp_main.c.
LEMMA SpMainStep ==
  ASSUME DInv, sp_main PROVE Effect /\ Types'
<1>1. CASE sp_main_start
  BY <1>1, StartStep DEF sp_main_start
<1>2. CASE sp_main_accept
  <2>1. /\ ended = "no" /\ batch # <<>> /\ Continue /\ UNCHANGED <<server, limit, peerVars, failed, ended>>
        /\ \/ UNCHANGED fdVars
           \/ \E f \in Fds, c \in Conns :
                Accepted(f, c) /\ Added(f) /\ nonblock' \in {nonblock, nonblock \cup {f}}
    BY <1>2 DEF sp_main_accept, accept_and_add, Event, Runs, sp_add, sp_noblocking
  <2> QED
    BY <2>1, AcceptStep
<1>3. CASE sp_main_recv
  <2>1. /\ ended = "no" /\ server = "sp_main" /\ batch # <<>> /\ sock # Listen /\ Continue
        /\ UNCHANGED <<server, limit, ended, full, fdVars, failed>> /\ recv_info(conn)
    BY <1>3 DEF sp_main_recv, Event, Runs, recv_info
  <2>2. Types /\ PeerTypes /\ conn \in Conns
    BY <2>1, Serving DEF Types
  <2>3. \/ HasData(conn) /\ TakeData(conn) /\ UNCHANGED link
        \/ Broken(conn) /\ TakeError(conn) /\ UNCHANGED unread
        \/ UNCHANGED <<link, unread>>
    BY <2>1 DEF recv_info, Unread
  <2>4. PeerTypes'
    BY <2>1, <2>2, <2>3, ReadTypes
  <2>5. Unmoved \/ Told(conn)
    BY <2>1, <2>3 DEF Unmoved, Told, Broken, TakeError, fdVars
  <2> QED
    BY <2>1, <2>4, <2>5, KeepStep
<1>4. CASE sp_main_error
  BY <1>4, LeaveStep DEF sp_main_error, Event, Runs
<1> QED
  BY <1>1, <1>2, <1>3, <1>4 DEF sp_main

\* net_demo2/k_server.c.
LEMMA KServerStep ==
  ASSUME DInv, k_server PROVE Effect /\ Types'
<1>1. CASE k_server_start
  BY <1>1, StartStep DEF k_server_start
<1>2. CASE k_server_accept
  <2>1. /\ ended = "no" /\ batch # <<>> /\ Continue /\ UNCHANGED <<server, limit, peerVars, failed, ended>>
        /\ \/ UNCHANGED fdVars
           \/ \E f \in Fds, c \in Conns :
                Accepted(f, c) /\ Added(f) /\ nonblock' \in {nonblock, nonblock \cup {f}}
    BY <1>2 DEF k_server_accept, accept_and_add, Event, Runs, sp_add, sp_noblocking
  <2> QED
    BY <2>1, AcceptStep
<1>3. CASE k_server_read
  <2>1. /\ ended = "no" /\ server = "k_server" /\ batch # <<>> /\ sock # Listen
        /\ UNCHANGED <<server, limit>>
    BY <1>3 DEF k_server_read, Event, Runs
  <2>2. Types /\ PeerTypes /\ conn \in Conns
    BY <2>1, Serving DEF Types
  <2>3. CASE k_server_end
    BY <2>1, <2>3, CloseStep DEF k_server_end, k_server_close
  <2>4. CASE Unread(conn) /\ Answer /\ UNCHANGED <<full, fdVars, failed, ended>>
    <3>1. PeerTypes'
      BY <2>2, <2>4, ReadTypes DEF Unread
    <3>2. Unmoved \/ Told(conn)
      BY <2>1, <2>4 DEF Unread, Unmoved, Told, Broken, TakeError, fdVars
    <3> QED
      BY <2>1, <2>4, <3>1, <3>2, KeepStep
  <2> QED
    BY <1>3, <2>3, <2>4 DEF k_server_read
<1>4. CASE k_server_error
  <2>1. /\ ended = "no" /\ batch # <<>> /\ sock # Listen /\ ~Head(batch).in
        /\ ended' = "returned"
        /\ UNCHANGED <<server, limit, peerVars, fdVars, batch, pc, failed>>
    BY <1>4 DEF k_server_error, Event, Runs
  <2>2. Dies
    BY <2>1 DEF Dies, Unmoved, Still, peerVars, fdVars
  <2> QED
    BY <2>1, <2>2, LeaveStep
<1>5. CASE Reply("k_server")
  BY <1>5, ReplyStep
<1> QED
  BY <1>1, <1>2, <1>3, <1>4, <1>5 DEF k_server

\* net/test_server.c.
LEMMA TestServerStep ==
  ASSUME DInv, test_server PROVE Effect /\ Types'
<1>1. CASE test_server_start
  BY <1>1, StartStep DEF test_server_start
<1>2. CASE test_server_accept
  <2>1. /\ ended = "no" /\ batch # <<>> /\ Continue /\ UNCHANGED <<server, limit, peerVars, failed, ended>>
        /\ \/ UNCHANGED fdVars
           \/ \E f \in Fds, c \in Conns :
                Accepted(f, c) /\ Added(f) /\ nonblock' \in {nonblock, nonblock \cup {f}}
    BY <1>2 DEF test_server_accept, accept_and_add, Event, Runs, sp_add, sp_noblocking
  <2> QED
    BY <2>1, AcceptStep
<1>3. CASE test_server_event
  <2>1. /\ ended = "no" /\ batch # <<>> /\ sock # Listen
        /\ UNCHANGED <<server, limit, ended>>
    BY <1>3 DEF test_server_event, Event, Runs
  <2>2. Types /\ PeerTypes /\ conn \in Conns
    BY <2>1, Serving DEF Types
  <2>3. CASE Closes(sock) /\ AfterClose
    BY <2>1, <2>3, CloseStep DEF AfterClose
  <2>4. CASE /\ ~CloseOn(conn) /\ Unread(conn) /\ Answer /\ UNCHANGED <<full, fdVars, failed>>
    <3>1. HasData(conn) /\ TakeData(conn) /\ UNCHANGED link
      BY <2>4 DEF CloseOn, Unread
    <3>2. PeerTypes'
      BY <2>2, <2>4, <3>1, ReadTypes
    <3>3. Unmoved
      BY <2>4, <3>1 DEF Unmoved, fdVars
    <3> QED
      BY <2>1, <2>4, <3>2, <3>3, KeepStep
  <2>5. CASE Answer /\ UNCHANGED <<peerVars, fdVars, failed>>
    <3>1. PeerTypes' /\ Unmoved
      BY <2>2, <2>5 DEF PeerTypes, Unmoved, peerVars, fdVars
    <3> QED
      BY <2>1, <2>5, <3>1, KeepStep
  <2> QED
    BY <1>3, <2>3, <2>4, <2>5 DEF test_server_event
<1>4. CASE Reply("test_server")
  BY <1>4, ReplyStep
<1> QED
  BY <1>1, <1>2, <1>3, <1>4 DEF test_server

\* event_net.
LEMMA EventNetStep ==
  ASSUME DInv, event_net PROVE Effect /\ Types'
<1>1. CASE event_net_start
  BY <1>1, StartStep DEF event_net_start
<1>2. CASE accept_sock
  <2>1. /\ ended = "no" /\ batch # <<>> /\ Continue /\ UNCHANGED <<server, limit, peerVars, failed>>
        /\ ended' \in {ended, "crashed"}
        /\ \/ UNCHANGED fdVars
           \/ \E f \in Fds, c \in Conns :
                Accepted(f, c) /\ Added(f) /\ nonblock' \in {nonblock, nonblock \cup {f}}
    BY <1>2 DEF accept_sock, Event, Runs, Crash, set_nonblocking, create_event
  <2> QED
    BY <2>1, AcceptStep
<1>3. CASE recv_handle
  <2>1. /\ ended = "no" /\ batch # <<>> /\ sock # Listen
        /\ UNCHANGED <<server, limit, ended>>
    BY <1>3 DEF recv_handle, Event, Runs
  <2>2. Types /\ PeerTypes /\ conn \in Conns
    BY <2>1, Serving DEF Types
  <2>3. CASE HasData(conn) /\ TakeData(conn) /\ Answer /\ UNCHANGED <<link, full, fdVars, failed>>
    <3>1. PeerTypes'
      BY <2>2, <2>3, ReadTypes
    <3>2. Unmoved
      BY <2>3 DEF Unmoved, fdVars
    <3> QED
      BY <2>1, <2>3, <3>1, <3>2, KeepStep
  <2>4. CASE event_force_close(sock) /\ Continue
    BY <2>1, <2>4, CloseStep DEF event_force_close
  <2> QED
    BY <1>3, <2>3, <2>4 DEF recv_handle
<1>4. CASE write_handle
  BY <1>4, ReplyStep DEF write_handle
<1>5. CASE event_net_error
  BY <1>5, LeaveStep DEF event_net_error, Event, Runs
<1> QED
  BY <1>1, <1>2, <1>3, <1>4, <1>5 DEF event_net

\* The callbacks the two libevent servers share.
LEMMA LibeventStep ==
  ASSUME DInv, NEW p,
         \/ \E s \in {Listen, -1} : libevent_start(p, s)
         \/ accept_cb(p)
         \/ socket_read_cb(p, Continue) \/ socket_read_cb(p, Answer)
  PROVE  Effect /\ Types'
<1>1. CASE \E s \in {Listen, -1} : libevent_start(p, s)
  BY <1>1, StartStep DEF libevent_start
<1>2. CASE accept_cb(p)
  <2>1. /\ ended = "no" /\ batch # <<>> /\ Continue /\ UNCHANGED <<server, limit, peerVars, failed, ended>>
        /\ \/ UNCHANGED fdVars
           \/ \E f \in Fds, c \in Conns :
                Accepted(f, c) /\ Added(f) /\ nonblock' \in {nonblock, nonblock \cup {f}}
    BY <1>2 DEF accept_cb, Event, Runs
  <2> QED
    BY <2>1, AcceptStep
<1>3. CASE socket_read_cb(p, Continue) \/ socket_read_cb(p, Answer)
  <2>1. /\ ended = "no" /\ batch # <<>> /\ sock # Listen
        /\ UNCHANGED <<server, limit, ended>>
    BY <1>3 DEF socket_read_cb, Event, Runs
  <2>2. Types /\ PeerTypes /\ conn \in Conns
    BY <2>1, Serving DEF Types
  <2>3. CASE /\ HasData(conn) /\ TakeData(conn) /\ (Continue \/ Answer)
             /\ UNCHANGED <<link, full, fdVars, failed>>
    <3>1. PeerTypes'
      BY <2>2, <2>3, ReadTypes
    <3>2. Unmoved
      BY <2>3 DEF Unmoved, fdVars
    <3> QED
      BY <2>1, <2>3, <3>1, <3>2, KeepStep
  <2>4. CASE Closes(sock) /\ Continue
    BY <2>1, <2>4, CloseStep
  <2> QED
    BY <1>3, <2>3, <2>4 DEF socket_read_cb
<1> QED
  BY <1>1, <1>2, <1>3

\* libevent_demo/server_demo_1.c, which closes at a failed write.
LEMMA Demo1Reply ==
  ASSUME DInv, demo_1_reply PROVE Effect /\ Types'
<1>1. /\ ended = "no" /\ server = "server_demo_1" /\ pc = "reply" /\ UNCHANGED <<server, limit>>
  BY DEF demo_1_reply, Runs
<1>2. Types /\ PeerTypes /\ batch # <<>> /\ sock # Listen
  BY <1>1 DEF DInv, BatchFits, Types
<1>3. sock \in Fds /\ conn \in Conns /\ owner[sock] = conn
  BY <1>2, Serving
<1>4. CASE Written(conn) /\ UNCHANGED fdVars /\ Continue /\ UNCHANGED ended
  <2>1. PeerTypes' /\ Unmoved
    BY <1>2, <1>3, <1>4 DEF Written, PeerTypes, Unmoved, fdVars
  <2> QED
    BY <1>1, <1>2, <1>4, <2>1, KeepStep
<1>5. CASE Closes(sock) /\ Continue /\ UNCHANGED ended
  BY <1>1, <1>2, <1>5, CloseStep
<1>6. CASE Signalled(sock) /\ UNCHANGED <<peerVars, fdVars, batch, pc, failed>>
  <2>1. Dies
    BY <1>1, <1>2, <1>3, <1>6 DEF Signalled, Dies, Unmoved, Still, peerVars, fdVars
  <2> QED
    BY <1>1, <1>6, <2>1, LeaveStep
<1> QED
  BY <1>4, <1>5, <1>6 DEF demo_1_reply, reply_or_close

\* Every step of the servers and of their clients.
LEMMA StepIsEffect ==
  ASSUME DInv, Next PROVE Effect /\ Types'
<1>1. server_c \/ server_demo_1 => Effect /\ Types'
  <2>1. server_c => Effect /\ Types'
    BY LibeventStep DEF server_c, server_c_main, tcp_server_init
  <2>2. server_demo_1 => Effect /\ Types'
    BY LibeventStep, Demo1Reply
    DEF server_demo_1, demo_1_main, demo_1_init, demo_1_accept, demo_1_read
  <2> QED
    BY <2>1, <2>2
<1> QED
  BY <1>1, SpMainStep, KServerStep, TestServerStep, EventNetStep, WaitStep, ClientStep
  DEF Next, Serve

-----------------------------------------------------------------------------
(* What the servers can be relied on for. *)

\* The invariant holds in every reachable state.
LEMMA Invariant == Spec => []DInv
<1>1. DInv /\ [Next]_vars => DInv'
  <2> SUFFICES ASSUME DInv, [Next]_vars PROVE DInv'
    OBVIOUS
  <2>1. CASE Next
    <3>1. Effect /\ Types'
      BY <2>1, StepIsEffect
    <3> QED
      BY <3>1, EffectOwned, EffectEnds DEF DInv
  <2>2. CASE UNCHANGED vars
    <3>1. UNCHANGED <<server, limit, link, unread, full, owner, nonblock, watch, lost,
                      batch, pc, failed, ended>>
      BY <2>2 DEF vars, peerVars, fdVars
    <3>2. Types'
      BY <3>1 DEF DInv, Types, PeerTypes, FdTypes, LoopTypes
    <3>3. Owned' /\ DeadKnown'
      BY <3>1 DEF DInv, Owned, DeadKnown
    <3>4. BatchFits'
      BY <3>1 DEF DInv, BatchFits, Current, sock
    <3>5. OnlyResetsEnd' /\ SignalOnlyAfterFailedReply'
      BY <3>1 DEF DInv, OnlyResetsEnd, SignalOnlyAfterFailedReply, conn, sock
    <3> QED
      BY <3>2, <3>3, <3>4, <3>5 DEF DInv
  <2> QED
    BY <2>1, <2>2
<1> QED
  BY <1>1, InitDInv, PTL DEF Spec

\* Every variable keeps its type, in every program and with any number of
\* clients and descriptors.
THEOREM TypesKept == Spec => []TypeOK
<1>1. DInv => TypeOK
  BY TypesImply DEF DInv
<1> QED
  BY <1>1, Invariant, PTL

\* No loop handles an event of a batch for a connection other than the one
\* epoll reported, although descriptors are closed and given out again while
\* the batch is worked off.
THEOREM BatchesCurrent == Spec => []EventsCurrent
<1>1. DInv => EventsCurrent
  BY EventsImply DEF DInv
<1> QED
  BY <1>1, Invariant, PTL

\* Once it listens a program ends, other than by a crash of its own, only on
\* account of a connection that was reset.
THEOREM OrderlyClientsHarmless == Spec => []OnlyResetsEnd
<1>1. DInv => OnlyResetsEnd
  BY DEF DInv
<1> QED
  BY <1>1, Invariant, PTL

\* Outside k_server, SIGPIPE needs a client that finished and then reset, or a
\* program that kept a connection a write had failed on.
THEOREM SignalNeedsFailure == Spec => []SignalOnlyAfterFailedReply
<1>1. DInv => SignalOnlyAfterFailedReply
  BY DEF DInv
<1> QED
  BY <1>1, Invariant, PTL

=============================================================================
