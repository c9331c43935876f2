-------------------------- MODULE SocketTableProofs --------------------------
(* Slots, descriptors, the epoll set and the leftover events of the socket  *)
(* server agree, for any number of slots, descriptors, callers and events.  *)
(* Each step has one of a few effects on the table; the parts of the        *)
(* invariant are shown for each effect, then for each step.  What a step    *)
(* may do to a socket, and say of it to the caller, follows from the same   *)
(* effects.                                                                 *)
EXTENDS SocketServerProofs

-----------------------------------------------------------------------------
(* The invariant. *)

Listens == {r \in InFlight : r.op = "L"}

\* A slot in use has an id, one that reserve_id gave to it, and no descriptor
\* while it is reserved.
IdsFit ==
  /\ \A k \in Slots : type[k] # "INVALID" => sid[k] # NoId
  /\ \A k \in Slots : sid[k] # NoId => sid[k] =< alloc_id /\ Hash(sid[k]) = k
  /\ \A k \in Slots : type[k] = "RESERVE" => sfd[k] = NoFd

\* FdOwnership, with what makes it inductive: a forgotten descriptor has no
\* owner, and no two listen requests carry the same one.
FdsOwned ==
  /\ \A f \in open : \/ f \in leaked \/ \E k \in Live : sfd[k] = f
                     \/ \E r \in Listens : r.fd = f
  /\ leaked \subseteq open
  /\ \A k \in Live : sfd[k] \in open \ leaked
  /\ \A r \in Listens : r.fd \in open \ leaked
  /\ \A k \in Live, r \in Listens : r.fd # sfd[k]
  /\ \A k, l \in Live : sfd[k] = sfd[l] => k = l
  /\ \A r, q \in Listens : r.fd = q.fd => r = q

\* The slot was closed under the id reported, and clear_close_event is next.
Closing(k) == pc = "clear" /\ type[k] = "INVALID" /\ sid[k] = result.id

\* What may have become of slot k since an event was reported for its id n.
Fit(k, n) ==
  /\ n \in Ids /\ n =< alloc_id
  /\ type[k] \in Unowned => sfd[k] = NoFd \/ Closing(k)
  /\ type[k] \in Unowned /\ sid[k] = n => Closing(k)
  /\ SameThread => sid[k] = n

\* No two events are of one slot, and the slot of each fits it.
EventsFit ==
  /\ pc = "clear" => result.id \in Ids
  /\ \A i, j \in 1 .. Len(evs) :
       evs[i].slot = evs[j].slot /\ evs[i].slot # NoSlot => i = j
  /\ \A i \in 1 .. Len(evs) :
       evs[i].slot # NoSlot => Fit(evs[i].slot, evs[i].for)

TableInv ==
  IInv /\ IdsFit /\ FdsOwned /\ EpollMatchesTable /\ WriteInterestKept /\ EventsFit

\* The invariant implies the ownership of descriptors.
LEMMA OwnedFds == TypeOK /\ FdsOwned => FdOwnership
<1> SUFFICES ASSUME TypeOK, FdsOwned, NEW f \in Fds
             PROVE  /\ f \in open <=> f \in leaked \/ Owners(f) # {} \/ Carriers(f) # {}
                    /\ Owners(f) # {} => Carriers(f) = {}
                    /\ \A k, l \in Owners(f) : k = l
  BY DEF FdOwnership
<1>1. /\ Owners(f) # {} <=> \E k \in Live : sfd[k] = f
      /\ Carriers(f) # {} <=> \E r \in Listens : r.fd = f
      /\ \A k \in Owners(f) : k \in Live /\ sfd[k] = f
  BY DEF Owners, Carriers, Listens
<1>2. f \in open <=> f \in leaked \/ Owners(f) # {} \/ Carriers(f) # {}
  BY <1>1 DEF FdsOwned
<1>3. Owners(f) # {} => Carriers(f) = {}
  BY <1>1 DEF FdsOwned
<1>4. \A k, l \in Owners(f) : k = l
  BY <1>1 DEF FdsOwned
<1> QED
  BY <1>2, <1>3, <1>4

-----------------------------------------------------------------------------
(* The effects of a step on the table, slot by slot. *)

Others(k) == \A l \in Slots \ {k} : /\ type'[l] = type[l] /\ sid'[l] = sid[l]
                                    /\ sfd'[l] = sfd[l] /\ out'[l] = out[l]
SameFds == UNCHANGED <<open, leaked>> /\ Listens' = Listens

\* Ids were used up, or nothing happened; a listening socket may be forgotten.
Spent ==
  /\ UNCHANGED <<slotVars, reg, epollout>>
  /\ alloc_id' >= alloc_id /\ Listens' = Listens
  /\ \/ UNCHANGED <<open, leaked>>
     \/ \E f \in Fds \ open : open' = open \cup {f} /\ leaked' = leaked \cup {f}

\* reserve_id took slot k for id, whose listening socket may be on its way;
\* the slot stays RESERVE, or report_accept gives it back.
Taken(k, id, t) ==
  /\ type[k] = "INVALID" /\ t \in Unowned /\ Others(k)
  /\ id > alloc_id /\ alloc_id' = id /\ Hash(id) = k
  /\ type'[k] = t /\ sid'[k] = id /\ sfd'[k] = NoFd /\ out'[k] = out[k]
  /\ UNCHANGED <<reg, epollout, leaked>>
  /\ \/ UNCHANGED open /\ Listens' = Listens
     \/ \E r \in Request : /\ r.op = "L" /\ r.fd \in Fds \ open
                           /\ open' = open \cup {r.fd}
                           /\ Listens' = Listens \cup {r}

\* A failed open gives the slot back.
GivenBack(k) ==
  /\ type[k] = "RESERVE" /\ Others(k)
  /\ type'[k] = "INVALID" /\ sid'[k] = sid[k] /\ sfd'[k] = sfd[k] /\ out'[k] = out[k]
  /\ UNCHANGED <<reg, epollout, alloc_id>> /\ SameFds

\* Slot k became the socket of id with descriptor f, in the epoll set unless it
\* is a listening socket that a request brought.
Opened(k, id, f) ==
  /\ type[k] \in Unowned /\ Others(k) /\ Hash(id) = k
  /\ alloc_id' >= alloc_id /\ id =< alloc_id'
  /\ sid'[k] = id /\ sfd'[k] = f /\ out'[k] = {}
  /\ UNCHANGED <<epollout, leaked>>
  /\ \/ /\ f \notin open /\ open' = open \cup {f} /\ Listens' = Listens
        /\ reg'[f] = k /\ \A g \in Fds \ {f} : reg'[g] = reg[g]
        /\ type'[k] \in {"CONNECTED", "PACCEPT"}
     \/ /\ UNCHANGED <<open, reg>>
        /\ \E r \in Listens : r.fd = f /\ Listens' = Listens \ {r}
        /\ type'[k] = "PLISTEN"

\* A socket that listens is in the epoll set from now on.
Started(k) ==
  /\ type[k] = "PLISTEN" /\ Others(k)
  /\ type'[k] = "LISTEN" /\ sid'[k] = sid[k] /\ sfd'[k] = sfd[k] /\ out'[k] = out[k]
  /\ reg[sfd[k]] = NoSlot /\ reg'[sfd[k]] = k
  /\ \A g \in Fds \ {sfd[k]} : reg'[g] = reg[g]
  /\ UNCHANGED <<epollout, alloc_id>> /\ SameFds

\* force_close of a slot with a socket.
Gone(k) ==
  /\ type[k] \notin Unowned /\ Others(k)
  /\ type'[k] = "INVALID" /\ sid'[k] = sid[k] /\ sfd'[k] = sfd[k] /\ out'[k] = {}
  /\ reg'[sfd[k]] = NoSlot /\ \A g \in Fds \ {sfd[k]} : reg'[g] = reg[g]
  /\ epollout' = epollout \ {sfd[k]} /\ open' = open \ {sfd[k]}
  /\ UNCHANGED <<alloc_id, leaked>> /\ Listens' = Listens

\* The lists of slot k changed, and somebody waits for them to drain.
Buffers(k) ==
  /\ Others(k) /\ sid'[k] = sid[k] /\ sfd'[k] = sfd[k]
  /\ \/ /\ out[k] # {} /\ UNCHANGED epollout
        /\ type'[k] \in {type[k], "HALFCLOSE"}
     \/ /\ type[k] = "CONNECTED" /\ type'[k] = type[k]
        /\ epollout' = epollout \cup {sfd[k]}
  /\ UNCHANGED <<reg, alloc_id>> /\ SameFds

\* They have drained.
Drained(k) ==
  /\ type[k] # "HALFCLOSE" /\ (type[k] \in Unowned => sfd[k] = NoFd)
  /\ Others(k) /\ out'[k] = {} /\ epollout' = epollout \ {sfd[k]}
  /\ type'[k] = type[k] /\ sid'[k] = sid[k] /\ sfd'[k] = sfd[k]
  /\ UNCHANGED <<reg, alloc_id>> /\ SameFds

\* No slot changes hands.
Quiet ==
  Spent \/ \E k \in Slots : Started(k) \/ Buffers(k) \/ Drained(k)

\* All of them but a close.
Mild ==
  \/ Quiet
  \/ \E k \in Slots : \/ \E id \in Ids, t \in Unowned : Taken(k, id, t)
                      \/ GivenBack(k)
                      \/ \E id \in Ids, f \in Fds : Opened(k, id, f)

\* A close leaves no event of the slot, or leaves it to clear_close_event.
Closes(k) ==
  /\ Gone(k)
  /\ \/ pc' = "clear" /\ result'.id = sid[k]
     \/ \A i \in 1 .. Len(evs') : evs'[i].slot # k

\* No slot gets another owner.
Kept == Quiet \/ \E k \in Slots : Closes(k)

\* report_accept took a slot for a new id.
NewSocket ==
  \E k \in Slots, id \in Ids :
    /\ id > alloc_id
    /\ Taken(k, id, "INVALID") \/ \E f \in Fds : Opened(k, id, f)

Effect == Mild \/ \E k \in Slots : Closes(k)

-----------------------------------------------------------------------------
(* The table after each effect. *)

\* What TypeOK says of the table.
TableTypes ==
  /\ alloc_id \in Nat
  /\ \A k \in Slots :
       /\ sid[k] \in Ids \cup {NoId} /\ sfd[k] \in Fds \cup {NoFd}
       /\ type[k] \in Types /\ out[k] \subseteq Priorities
       /\ type[k] \in Unowned => out[k] = {}
       /\ type[k] \notin Unowned => sfd[k] \in Fds
  /\ \A f \in Fds : reg[f] \in Slots \cup {NoSlot}
  /\ epollout \subseteq Fds /\ open \subseteq Fds /\ leaked \subseteq Fds

\* It follows from TypeOK.
LEMMA TableTyped == TypeOK => TableTypes
<1> SUFFICES ASSUME SlotTypes, EpollTypes PROVE TableTypes
  BY TypeGroups
<1>1. alloc_id \in Nat
  BY BoundsAssumption DEF SlotTypes
<1>2. ASSUME NEW k \in Slots
      PROVE  /\ sid[k] \in Ids \cup {NoId} /\ sfd[k] \in Fds \cup {NoFd}
             /\ type[k] \in Types /\ out[k] \subseteq Priorities
             /\ type[k] \in Unowned => out[k] = {}
             /\ type[k] \notin Unowned => sfd[k] \in Fds
  BY DEF SlotTypes
<1> QED
  BY <1>1, <1>2 DEF TableTypes, EpollTypes

\* Neither NoId, NoFd nor NoSlot is one of what it stands for the lack of.
LEMMA Nothing ==
  /\ Ids \subseteq Nat /\ NoId \notin Ids /\ NoFd \notin Fds /\ NoSlot \notin Slots
  /\ "INVALID" \in Unowned /\ "RESERVE" \in Unowned
  /\ Polled \subseteq Live
<1>1. MaxId \in Nat /\ MaxFd \in Nat /\ MaxSocket \in Nat
  BY BoundsAssumption, SlotsAssumption
<1>2. Ids \subseteq Nat /\ NoId \notin Ids
  BY <1>1 DEF Ids, NoId
<1>3. NoFd \notin Fds
  BY <1>1 DEF Fds, NoFd
<1>4. NoSlot \notin Slots
  BY <1>1 DEF Slots, NoSlot
<1> QED
  BY <1>2, <1>3, <1>4 DEF Unowned, Polled, Live

\* Ids stay with their slots.
LEMMA EffectIds == TableTypes /\ TableTypes' /\ IdsFit /\ Effect => IdsFit'
<1> DEFINE Fits(l) == /\ sid'[l] # NoId => sid'[l] =< alloc_id' /\ Hash(sid'[l]) = l
                      /\ type'[l] = "RESERVE" => sfd'[l] = NoFd
                      /\ type'[l] # "INVALID" => sid'[l] # NoId
<1> SUFFICES ASSUME TableTypes, TableTypes', IdsFit, Effect, NEW l \in Slots
             PROVE  Fits(l)
  BY DEF IdsFit, Hash
<1>1. /\ alloc_id \in Nat /\ alloc_id' \in Nat
      /\ sid[l] # NoId => sid[l] \in Nat
      /\ sid[l] # NoId => sid[l] =< alloc_id /\ Hash(sid[l]) = l
      /\ type[l] = "RESERVE" => sfd[l] = NoFd
      /\ type[l] # "INVALID" => sid[l] # NoId
      /\ type[l] = "INVALID" => out[l] = {}
  BY Nothing DEF TableTypes, IdsFit
<1>2. CASE Spent
  BY <1>1, <1>2 DEF Spent, slotVars
<1>3. ASSUME NEW k \in Slots, NEW id \in Ids, NEW t \in Unowned, Taken(k, id, t)
      PROVE  Fits(l)
  <2>1. id \in Nat /\ id # NoId
    BY Nothing
  <2> QED
    BY <1>1, <1>3, <2>1 DEF Taken, Others
<1>4. ASSUME NEW k \in Slots, GivenBack(k) \/ Started(k) \/ Gone(k) \/ Drained(k)
      PROVE  Fits(l)
  BY <1>1, <1>4 DEF GivenBack, Started, Gone, Drained, Others
<1>5. ASSUME NEW k \in Slots, NEW id \in Ids, NEW f \in Fds, Opened(k, id, f)
      PROVE  Fits(l)
  BY <1>1, <1>5, Nothing DEF Opened, Others
<1>6. ASSUME NEW k \in Slots, Buffers(k) PROVE Fits(l)
  BY <1>1, <1>6 DEF Buffers, Others
<1> QED
  BY <1>2, <1>3, <1>4, <1>5, <1>6 DEF Effect, Mild, Quiet, Closes

\* Descriptors stay with their owners.
LEMMA EffectFds == TableTypes /\ TableTypes' /\ IdsFit /\ FdsOwned /\ Effect => FdsOwned'
<1> SUFFICES ASSUME TableTypes, TableTypes', IdsFit, FdsOwned, Effect PROVE FdsOwned'
  OBVIOUS
<1>1. \A k \in Slots : /\ k \in Live <=> type[k] \notin Unowned
                       /\ k \in Live' <=> type'[k] \notin Unowned
                       /\ k \in Live => sfd[k] \in Fds
      /\ Live \subseteq Slots /\ Live' \subseteq Slots
  BY DEF Live, TableTypes
<1>2. CASE /\ Live' = Live /\ \A k \in Live : sfd'[k] = sfd[k]
           /\ SameFds
  BY <1>2 DEF FdsOwned, SameFds
<1>3. CASE Spent
  <2>1. Live' = Live /\ \A k \in Live : sfd'[k] = sfd[k]
    BY <1>3 DEF Spent, slotVars, Live
  <2>2. ASSUME NEW f \in Fds \ open, open' = open \cup {f}, leaked' = leaked \cup {f}
        PROVE  FdsOwned'
    <3>1. Listens' = Listens
      BY <1>3 DEF Spent
    <3> QED
      BY <2>1, <2>2, <3>1 DEF FdsOwned
  <2> QED
    BY <1>2, <1>3, <2>1, <2>2 DEF Spent, SameFds
<1>4. ASSUME NEW k \in Slots, NEW id \in Ids, NEW t \in Unowned, Taken(k, id, t)
      PROVE  FdsOwned'
  <2>1. Live' = Live /\ \A l \in Live : sfd'[l] = sfd[l]
    BY <1>1, <1>4, Nothing DEF Taken, Others, Live
  <2>2. ASSUME NEW r \in Request, r.op = "L", r.fd \in Fds \ open,
               open' = open \cup {r.fd}, Listens' = Listens \cup {r}
        PROVE  FdsOwned'
    <3>1. leaked' = leaked
      BY <1>4 DEF Taken
    <3> QED
      BY <2>1, <2>2, <3>1 DEF FdsOwned
  <2> QED
    BY <1>2, <1>4, <2>1, <2>2 DEF Taken, SameFds
<1>5. ASSUME NEW k \in Slots, NEW id \in Ids, NEW f \in Fds, Opened(k, id, f)
      PROVE  FdsOwned'
  <2>1. /\ Live' = Live \cup {k} /\ k \notin Live /\ sfd'[k] = f
        /\ \A l \in Live : sfd'[l] = sfd[l]
        /\ leaked' = leaked
    BY <1>1, <1>5 DEF Opened, Others, Live, Unowned
  <2>2. CASE f \notin open /\ open' = open \cup {f} /\ Listens' = Listens
    BY <2>1, <2>2 DEF FdsOwned
  <2>3. ASSUME NEW r \in Listens, r.fd = f, Listens' = Listens \ {r}, open' = open
        PROVE  FdsOwned'
    <3>1. f \in open \ leaked /\ (\A l \in Live : sfd[l] # f)
          /\ \A q \in Listens' : q.fd # f
      BY <2>3 DEF FdsOwned
    <3>2. \A g \in open' : \/ g \in leaked' \/ \E l \in Live' : sfd'[l] = g
                           \/ \E q \in Listens' : q.fd = g
      BY <2>1, <2>3, <3>1 DEF FdsOwned
    <3>3. \A l \in Live', q \in Listens' : q.fd # sfd'[l]
      BY <2>1, <2>3, <3>1 DEF FdsOwned
    <3>4. \A l, m \in Live' : sfd'[l] = sfd'[m] => l = m
      BY <2>1, <2>3, <3>1 DEF FdsOwned
    <3> QED
      BY <2>1, <2>3, <3>1, <3>2, <3>3, <3>4 DEF FdsOwned
  <2> QED
    BY <1>5, <2>2, <2>3 DEF Opened
<1>6. ASSUME NEW k \in Slots, Gone(k) PROVE FdsOwned'
  <2>1. /\ Live' = Live \ {k} /\ k \in Live /\ sfd[k] \in Fds
        /\ \A l \in Live : sfd'[l] = sfd[l]
        /\ open' = open \ {sfd[k]} /\ leaked' = leaked /\ Listens' = Listens
    BY <1>1, <1>6, Nothing DEF Gone, Others, Live
  <2> QED
    BY <2>1 DEF FdsOwned
<1>7. ASSUME NEW k \in Slots, GivenBack(k) \/ Started(k) \/ Buffers(k) \/ Drained(k)
      PROVE  FdsOwned'
  <2>1. Live' = Live /\ \A l \in Live : sfd'[l] = sfd[l]
    <3>1. ASSUME Buffers(k) PROVE type[k] \notin Unowned /\ type'[k] \notin Unowned
      BY <3>1 DEF Buffers, TableTypes, Unowned
    <3> QED
      BY <1>1, <1>7, <3>1, Nothing
      DEF GivenBack, Started, Buffers, Drained, Others, Live, Unowned
  <2> QED
    BY <1>2, <1>7, <2>1 DEF GivenBack, Started, Buffers, Drained
<1> QED
  BY <1>3, <1>4, <1>5, <1>6, <1>7 DEF Effect, Mild, Quiet, Closes

\* The epoll set stays in agreement with the table, and EPOLLOUT stays on for
\* those who wait for it.
LEMMA EffectEpoll ==
  ASSUME TableTypes, TableTypes', IdsFit, FdsOwned, EpollMatchesTable,
         WriteInterestKept, Effect
  PROVE  EpollMatchesTable' /\ WriteInterestKept'
<1>1. /\ \A k \in Slots : k \in Live <=> type[k] \notin Unowned
      /\ \A k \in Live : sfd[k] \in open /\ sfd[k] \in Fds
      /\ \A k, l \in Live : sfd[k] = sfd[l] => k = l
      /\ \A f \in Fds : reg[f] # NoSlot => reg[f] \in Polled /\ sfd[reg[f]] = f
      /\ \A k \in Polled : reg[sfd[k]] = k
      /\ \A f \in epollout : f \in Fds /\ reg[f] # NoSlot
      /\ Live \subseteq Slots /\ Polled \subseteq Live
  BY Nothing DEF Live, TableTypes, FdsOwned, EpollMatchesTable
<1>2. \A k \in Slots :
        /\ k \in Polled <=> type[k] \in {"LISTEN", "PACCEPT", "CONNECTED", "HALFCLOSE"}
        /\ k \in Polled' <=> type'[k] \in {"LISTEN", "PACCEPT", "CONNECTED", "HALFCLOSE"}
        /\ (out[k] # {} \/ type[k] = "HALFCLOSE") =>
             (type[k] \in {"CONNECTED", "HALFCLOSE"} /\ sfd[k] \in epollout)
  BY DEF Polled, WriteInterestKept
<1>3. Polled' \subseteq Slots
  BY DEF Polled
<1> DEFINE Matches == /\ \A f \in Fds : reg'[f] # NoSlot =>
                                          reg'[f] \in Polled' /\ sfd'[reg'[f]] = f
                      /\ \A k \in Polled' : reg'[sfd'[k]] = k
                      /\ \A f \in epollout' : f \in Fds /\ reg'[f] # NoSlot
           Woken == \A k \in Slots :
                      (out'[k] # {} \/ type'[k] = "HALFCLOSE") =>
                        (type'[k] \in {"CONNECTED", "HALFCLOSE"} /\ sfd'[k] \in epollout')
<1> SUFFICES Matches /\ Woken
  BY DEF EpollMatchesTable, WriteInterestKept
<1>4. CASE Spent
  BY <1>1, <1>2, <1>3, <1>4 DEF Spent, slotVars
<1>5. ASSUME NEW k \in Slots,
             GivenBack(k) \/ \E id \in Ids, t \in Unowned : Taken(k, id, t)
      PROVE  Matches /\ Woken
  <2>1. /\ Others(k) /\ type[k] \in Unowned /\ type'[k] \in Unowned /\ out'[k] = out[k]
        /\ UNCHANGED <<reg, epollout>>
    BY <1>5, Nothing DEF GivenBack, Taken
  <2>2. out'[k] = {} /\ k \notin Polled /\ k \notin Polled' /\ Polled' = Polled
    BY <1>2, <1>3, <2>1, <1>1 DEF TableTypes, Others, Unowned
  <2>3. Matches
    BY <1>1, <1>2, <1>3, <2>1, <2>2 DEF Others
  <2>4. Woken
    BY <1>2, <2>1, <2>2 DEF Others, Unowned
  <2> QED
    BY <2>3, <2>4
<1>6. ASSUME NEW k \in Slots, NEW id \in Ids, NEW f \in Fds, Opened(k, id, f)
      PROVE  Matches /\ Woken
  <2>1. /\ k \notin Polled /\ out'[k] = {} /\ sfd'[k] = f /\ epollout' = epollout
        /\ type'[k] # "HALFCLOSE" /\ Others(k)
    BY <1>1, <1>6 DEF Opened
  <2>2. Woken
    BY <1>2, <2>1 DEF Others
  <2>3. CASE /\ f \notin open /\ type'[k] \in {"CONNECTED", "PACCEPT"}
             /\ reg'[f] = k /\ \A g \in Fds \ {f} : reg'[g] = reg[g]
    <3>1. reg[f] = NoSlot
      BY <1>1, <2>3
    <3>2. Polled' = Polled \cup {k} /\ \A l \in Polled : sfd[l] # f
      BY <1>1, <1>2, <1>3, <2>1, <2>3 DEF Others
    <3>3. k # NoSlot /\ \A l \in Polled : sfd'[l] = sfd[l]
      BY <1>1, <2>1, Nothing DEF Others
    <3>4. \A g \in Fds : reg'[g] # NoSlot => reg'[g] \in Polled' /\ sfd'[reg'[g]] = g
      BY <1>1, <2>1, <2>3, <3>1, <3>2, <3>3
    <3>5. \A l \in Polled' : reg'[sfd'[l]] = l
      BY <1>1, <2>1, <2>3, <3>2, <3>3
    <3>6. \A g \in epollout' : g \in Fds /\ reg'[g] # NoSlot
      BY <1>1, <2>1, <2>3, <3>3
    <3> QED
      BY <2>2, <3>4, <3>5, <3>6
  <2>4. CASE type'[k] = "PLISTEN" /\ reg' = reg
    <3>1. Polled' = Polled
      BY <1>1, <1>2, <1>3, <2>1, <2>4 DEF Others
    <3> QED
      BY <1>1, <2>1, <2>2, <2>4, <3>1 DEF Others
  <2> QED
    BY <1>6, <2>3, <2>4 DEF Opened
<1>7. ASSUME NEW k \in Slots, Started(k) PROVE Matches /\ Woken
  <2>1. /\ Polled' = Polled \cup {k} /\ k \in Live /\ k \notin Polled /\ Others(k)
        /\ sfd[k] \in Fds /\ k # NoSlot
    BY <1>1, <1>2, <1>3, <1>7, Nothing DEF Started, Others, Unowned
  <2>2. /\ \A l \in Slots : sfd'[l] = sfd[l]
        /\ \A l \in Polled : sfd[l] # sfd[k]
    BY <1>1, <1>7, <2>1 DEF Started, Others
  <2>3. reg'[sfd[k]] = k /\ \A g \in Fds \ {sfd[k]} : reg'[g] = reg[g]
    BY <1>7 DEF Started
  <2>4. Matches
    BY <1>1, <1>7, <2>1, <2>2, <2>3 DEF Started
  <2>5. Woken
    BY <1>2, <1>7, <2>1 DEF Started, Others
  <2> QED
    BY <2>4, <2>5
<1>8. ASSUME NEW k \in Slots, Gone(k) PROVE Matches /\ Woken
  <2>1. /\ Polled' = Polled \ {k} /\ k \in Live /\ Others(k) /\ sfd[k] \in Fds
        /\ out'[k] = {} /\ type'[k] = "INVALID"
    BY <1>1, <1>2, <1>3, <1>8 DEF Gone, Others
  <2>2. /\ \A l \in Slots : sfd'[l] = sfd[l]
        /\ \A l \in Live \ {k} : sfd[l] # sfd[k]
    BY <1>1, <1>8, <2>1 DEF Gone, Others
  <2>3. /\ reg'[sfd[k]] = NoSlot /\ \A g \in Fds \ {sfd[k]} : reg'[g] = reg[g]
        /\ epollout' = epollout \ {sfd[k]}
    BY <1>8 DEF Gone
  <2>4. Matches
    BY <1>1, <2>1, <2>2, <2>3
  <2>5. Woken
    <3>1. \A l \in Slots : type[l] \in {"CONNECTED", "HALFCLOSE"} => l \in Live
      BY <1>1 DEF Unowned
    <3> QED
      BY <1>2, <2>1, <2>2, <2>3, <3>1 DEF Others
  <2> QED
    BY <2>4, <2>5
<1>9. ASSUME NEW k \in Slots, Buffers(k) PROVE Matches /\ Woken
  <2>1. /\ Others(k) /\ reg' = reg /\ \A l \in Slots : sfd'[l] = sfd[l]
        /\ type[k] \in {"CONNECTED", "HALFCLOSE"} /\ type'[k] \in {type[k], "HALFCLOSE"}
    BY <1>2, <1>9 DEF Buffers, Others
  <2>2. Polled' = Polled /\ k \in Polled /\ sfd[k] \in Fds
    BY <1>1, <1>2, <1>3, <2>1 DEF Others
  <2>3. epollout' = epollout \cup {sfd[k]}
    BY <1>2, <1>9 DEF Buffers
  <2>4. Matches
    BY <1>1, <2>1, <2>2, <2>3, Nothing
  <2>5. Woken
    BY <1>2, <2>1, <2>3 DEF Others
  <2> QED
    BY <2>4, <2>5
<1>10. ASSUME NEW k \in Slots, Drained(k) PROVE Matches /\ Woken
  <2>1. /\ Others(k) /\ reg' = reg /\ \A l \in Slots : sfd'[l] = sfd[l] /\ type'[l] = type[l]
        /\ epollout' = epollout \ {sfd[k]} /\ out'[k] = {} /\ type[k] # "HALFCLOSE"
    BY <1>10 DEF Drained, Others
  <2>2. \A l \in Live \ {k} : sfd[l] # sfd[k]
    BY <1>1, <1>10, Nothing DEF Drained
  <2>3. Polled' = Polled
    BY <1>2, <1>3, <1>1, <2>1
  <2>4. Matches
    BY <1>1, <2>1, <2>3
  <2>5. Woken
    <3>1. \A l \in Slots : type[l] \in {"CONNECTED", "HALFCLOSE"} => l \in Live
      BY <1>1 DEF Unowned
    <3> QED
      BY <1>2, <2>1, <2>2, <3>1 DEF Others
  <2> QED
    BY <2>4, <2>5
<1> QED
  BY <1>4, <1>5, <1>6, <1>7, <1>8, <1>9, <1>10 DEF Effect, Mild, Quiet, Closes

-----------------------------------------------------------------------------
(* The requests on their way. *)

\* What is on its way, element by element.
LEMMA OnTheWay ==
  ASSUME TypeOK, NEW r, r # NoRequest
  PROVE  r \in InFlight <=> \/ \E i \in 1 .. Len(pipe) : pipe[i] = r
                            \/ \E u \in Callers : req[u] = r
  BY DEF InFlight

\* ctrl_cmd takes the request at the head, and that request only; one that takes
\* a slot is on its way once.
LEMMA CmdInFlight ==
  ASSUME IInv, NEW ops, Cmd(ops)
  PROVE  /\ Head(pipe) \in InFlight /\ InFlight' \subseteq InFlight
         /\ InFlight \ {Head(pipe)} \subseteq InFlight'
         /\ Opens(Head(pipe)) => Head(pipe) \notin InFlight'
<1>1. pipe \in Seq(Request) /\ pipe # <<>> /\ pipe' = Tail(pipe) /\ req' = req
  BY DEF Cmd, IInv, TypeOK
<1>2. /\ Len(pipe) \in Nat /\ Len(pipe') = Len(pipe) - 1
      /\ \A i \in 1 .. Len(pipe') : pipe'[i] = pipe[i + 1]
      /\ 1 \in 1 .. Len(pipe) /\ Head(pipe) = pipe[1]
  BY <1>1, HeadTailProperties, LenProperties, EmptySeq
<1>3. Head(pipe) # NoRequest
  <2>1. Head(pipe) \in Request
    BY CmdTypes DEF IInv
  <2> QED
    BY <2>1 DEF Request, Ops, NoRequest
<1>4. \A i \in 1 .. Len(pipe') : i + 1 \in 1 .. Len(pipe) /\ 1 \in 1 .. (i + 1) - 1
  BY <1>2
<1>5. \A i \in 1 .. Len(pipe) : i = 1 \/ (i - 1 \in 1 .. Len(pipe') /\ pipe'[i - 1] = pipe[i])
  BY <1>2
<1>6. \A r : r \in InFlight <=>
        /\ r # NoRequest
        /\ (\E i \in 1 .. Len(pipe) : pipe[i] = r) \/ (\E u \in Callers : req[u] = r)
  BY DEF InFlight
<1>7. \A r : r \in InFlight' <=>
        /\ r # NoRequest
        /\ (\E i \in 1 .. Len(pipe') : pipe'[i] = r) \/ (\E u \in Callers : req[u] = r)
  BY <1>1 DEF InFlight
<1>8. Head(pipe) \in InFlight
  BY <1>2, <1>3, <1>6
<1>9. InFlight' \subseteq InFlight
  BY <1>2, <1>4, <1>6, <1>7
<1>10. InFlight \ {Head(pipe)} \subseteq InFlight'
  BY <1>2, <1>5, <1>6, <1>7
<1>11. ASSUME Opens(Head(pipe)), Head(pipe) \in InFlight' PROVE FALSE
  <2>1. \A i \in 1 .. Len(pipe') : pipe'[i] # Head(pipe)
    BY <1>2, <1>4, <1>11 DEF IInv, ReservedUntilHandled
  <2>2. \A u \in Callers : req[u] # Head(pipe)
    BY <1>2, <1>11 DEF IInv, ReservedUntilHandled
  <2> QED
    BY <1>7, <1>11, <2>1, <2>2
<1> QED
  BY <1>8, <1>9, <1>10, <1>11

\* A listen request leaves the pipe with its descriptor; the others carry none.
LEMMA CmdListens ==
  ASSUME IInv, NEW ops, Cmd(ops)
  PROVE  /\ "L" \notin ops => Listens' = Listens
         /\ ops = {"L"} => /\ Head(pipe) \in Listens
                           /\ Listens' = Listens \ {Head(pipe)}
<1>1. Head(pipe).op \in ops
  BY DEF Cmd
<1> QED
  BY <1>1, CmdInFlight DEF Listens, Opens

\* A call adds the request it prepares.
LEMMA PrepareInFlight ==
  ASSUME IInv, NEW u \in Callers, NEW r \in Request, Prepare(u, r), UNCHANGED pipe,
         req[u] = NoRequest
  PROVE  InFlight' = InFlight \cup {r}
<1>1. req' = [req EXCEPT ![u] = r] /\ req \in [Callers -> Request \cup {NoRequest}]
  BY DEF Prepare, IInv, TypeOK
<1>2. req'[u] = r /\ r # NoRequest /\ \A v \in Callers \ {u} : req'[v] = req[v]
  BY <1>1 DEF Request, Ops, NoRequest
<1>3. \A q : q \in InFlight <=>
        /\ q # NoRequest
        /\ (\E i \in 1 .. Len(pipe) : pipe[i] = q) \/ (\E v \in Callers : req[v] = q)
  BY DEF InFlight
<1>4. \A q : q \in InFlight' <=>
        /\ q # NoRequest
        /\ (\E i \in 1 .. Len(pipe) : pipe[i] = q) \/ (\E v \in Callers : req'[v] = q)
  BY DEF InFlight
<1> QED
  BY <1>2, <1>3, <1>4

\* Writing a request to the pipe leaves it on its way.
LEMMA SendInFlight ==
  ASSUME IInv, NEW u \in Callers, send_request(u) PROVE InFlight' = InFlight
<1>1. /\ pipe' = Append(pipe, req[u]) /\ req' = [req EXCEPT ![u] = NoRequest]
      /\ req[u] \in Request
      /\ pipe \in Seq(Request) /\ req \in [Callers -> Request \cup {NoRequest}]
  BY DEF send_request, IInv, TypeOK
<1>2. /\ Len(pipe) \in Nat /\ Len(pipe') = Len(pipe) + 1
      /\ \A i \in 1 .. Len(pipe) : pipe'[i] = pipe[i]
      /\ pipe'[Len(pipe) + 1] = req[u]
  BY <1>1, AppendProperties, LenProperties
<1>3. req'[u] = NoRequest /\ \A v \in Callers \ {u} : req'[v] = req[v]
  BY <1>1
<1>4. \A q : q \in InFlight <=>
        /\ q # NoRequest
        /\ (\E i \in 1 .. Len(pipe) : pipe[i] = q) \/ (\E v \in Callers : req[v] = q)
  BY DEF InFlight
<1>5. \A q : q \in InFlight' <=>
        /\ q # NoRequest
        /\ (\E i \in 1 .. Len(pipe') : pipe'[i] = q) \/ (\E v \in Callers : req'[v] = q)
  BY DEF InFlight
<1>6. \A i \in 1 .. Len(pipe') : i \in 1 .. Len(pipe) \/ i = Len(pipe) + 1
  BY <1>2
<1>7. Len(pipe) + 1 \in 1 .. Len(pipe') /\ 1 .. Len(pipe) \subseteq 1 .. Len(pipe')
  BY <1>2
<1>8. InFlight' \subseteq InFlight
  BY <1>2, <1>3, <1>4, <1>5, <1>6
<1>9. InFlight \subseteq InFlight'
  BY <1>2, <1>3, <1>4, <1>5, <1>7
<1> QED
  BY <1>8, <1>9

\* A step that touches neither pipe nor callers leaves them alone.
LEMMA SameInFlight ==
  UNCHANGED <<pipe, req>> => InFlight' = InFlight /\ Listens' = Listens
  BY DEF InFlight, Listens

-----------------------------------------------------------------------------
(* The effect of each step. *)

\* force_close closes the slot, unless it has no socket.
LEMMA ForceCloseEffect ==
  ASSUME TableTypes, NEW k \in Slots, force_close(k),
         UNCHANGED <<sid, sfd, alloc_id, leaked>>, Listens' = Listens,
         type \in [Slots -> Types], out \in [Slots -> SUBSET Priorities]
  PROVE  Spent \/ Gone(k)
<1>1. CASE type[k] \in Unowned
  BY <1>1 DEF force_close, Spent, slotVars, TableTypes
<1>2. CASE type[k] \notin Unowned
  <2>1. Freed(k, "INVALID")
    BY <1>2 DEF force_close
  <2>2. /\ \A l \in Slots \ {k} : type'[l] = type[l] /\ out'[l] = out[l]
        /\ type'[k] = "INVALID" /\ out'[k] = {}
    BY <2>1 DEF Freed
  <2>3. reg'[sfd[k]] = NoSlot /\ \A g \in Fds \ {sfd[k]} : reg'[g] = reg[g]
    BY <1>2, <2>1 DEF Freed, TableTypes
  <2> QED
    BY <1>2, <2>1, <2>2, <2>3 DEF Gone, Others, Freed
<1> QED
  BY <1>1, <1>2

\* A table that nothing was done to.
LEMMA Untouched ==
  ASSUME TableTypes, UNCHANGED <<slotVars, alloc_id, epollVars, leaked>>,
         Listens' = Listens
  PROVE  Spent
  BY DEF TableTypes, Spent, epollVars

\* A call uses up ids, or takes a slot.
LEMMA CallEffect ==
  ASSUME TableInv, TableTypes, NEW u \in Callers, Call(u)
  PROVE  /\ Spent \/ \E k \in Slots, id \in Ids : Taken(k, id, "RESERVE")
         /\ UNCHANGED pollVars /\ (SameThread => pc = "out")
<1>1. IInv /\ TypeOK
  BY DEF TableInv, IInv
<1>2. /\ type \in [Slots -> Types] /\ sid \in [Slots -> Ids \cup {NoId}]
      /\ sfd \in [Slots -> Fds \cup {NoFd}]
  BY <1>1 DEF TypeOK
<1>3. UNCHANGED <<pollVars, out, reg, epollout, pipe>> /\ CanCall(u)
  BY DEF Call, socket_server_listen, socket_server_connect, socket_server_start,
         socket_server_send, socket_server_close, slotVars, epollVars
<1>4. ASSUME NEW r \in Request, NEW n \in 1 .. MaxSocket, Reserve(u, r, n),
             UNCHANGED leaked,
             \/ r.op = "L" /\ r.fd \in Fds \ open /\ open' = open \cup {r.fd}
             \/ r.op # "L" /\ UNCHANGED open
      PROVE  \E k \in Slots, id \in Ids : Taken(k, id, "RESERVE")
  <2>1. PICK id \in Ids : r.id = id
    BY DEF Request
  <2> DEFINE k == Hash(id)
  <2>2. k \in Slots /\ id > alloc_id
    BY <1>1, <1>4, <2>1, ReservesTypes DEF Reserve, Reserves, TableTypes
  <2>3. /\ type[k] = "INVALID" /\ alloc_id' = id
        /\ type' = [type EXCEPT ![k] = "RESERVE"]
        /\ sid' = [sid EXCEPT ![k] = id] /\ sfd' = [sfd EXCEPT ![k] = NoFd]
    BY <1>4, <2>1 DEF Reserve, Reserves
  <2>4. InFlight' = InFlight \cup {r}
    BY <1>1, <1>3, <1>4, PrepareInFlight DEF Reserve, CanCall
  <2>5. Listens' = IF r.op = "L" THEN Listens \cup {r} ELSE Listens
    BY <2>4 DEF Listens
  <2>6. Hash(id) = k
    OBVIOUS
  <2> HIDE DEF k
  <2>7. /\ Others(k) /\ type'[k] = "RESERVE" /\ sid'[k] = id /\ sfd'[k] = NoFd
        /\ out'[k] = out[k]
    BY <1>2, <1>3, <2>2, <2>3 DEF Others
  <2>8. \/ UNCHANGED open /\ Listens' = Listens
        \/ \E q \in Request : /\ q.op = "L" /\ q.fd \in Fds \ open
                              /\ open' = open \cup {q.fd}
                              /\ Listens' = Listens \cup {q}
    BY <1>4, <2>5
  <2>9. Taken(k, id, "RESERVE")
    BY <1>3, <1>4, <2>2, <2>3, <2>6, <2>7, <2>8, Nothing DEF Taken
  <2> QED
    BY <2>2, <2>9
<1>5. CASE socket_server_listen(u)
  <2>1. \/ UNCHANGED <<type, sid, sfd, alloc_id, open, req, leaked>>
        \/ \E f \in Fds \ open :
             /\ open' = open \cup {f}
             /\ \/ /\ \E id \in Ids, n \in 1 .. MaxSocket :
                        Reserve(u, [Req("L", id) EXCEPT !.fd = f], n)
                   /\ UNCHANGED leaked
                \/ /\ alloc_id' \in {alloc_id, alloc_id + MaxSocket}
                   /\ leaked' = leaked \cup {f} /\ UNCHANGED <<type, sid, sfd, req>>
    BY <1>5 DEF socket_server_listen, NewFd
  <2>2. ASSUME NEW f \in Fds, NEW id \in Ids
        PROVE  /\ [Req("L", id) EXCEPT !.fd = f] \in Request
               /\ [Req("L", id) EXCEPT !.fd = f].op = "L"
               /\ [Req("L", id) EXCEPT !.fd = f].fd = f
    BY ReqTypes DEF Req
  <2>3. ASSUME NEW f \in Fds \ open, open' = open \cup {f},
               leaked' = leaked \cup {f}, UNCHANGED <<type, sid, sfd, req>>,
               alloc_id' \in {alloc_id, alloc_id + MaxSocket}
        PROVE  Spent
    <3>1. alloc_id' >= alloc_id
      BY <2>3, SlotsAssumption DEF TableTypes
    <3> QED
      BY <1>3, <2>3, <3>1, SameInFlight DEF Spent, slotVars, CanCall
  <2>4. CASE UNCHANGED <<type, sid, sfd, alloc_id, open, req, leaked>>
    <3>1. alloc_id' >= alloc_id
      BY <2>4 DEF TableTypes
    <3> QED
      BY <1>3, <2>4, <3>1, SameInFlight DEF Spent, slotVars, CanCall
  <2> QED
    BY <1>3, <1>4, <2>1, <2>2, <2>3, <2>4 DEF CanCall
<1>6. CASE socket_server_connect(u)
  <2>1. \A id \in Ids : Req("O", id) \in Request /\ Req("O", id).op # "L"
    BY ReqTypes DEF Req, Ops
  <2>2. UNCHANGED <<open, leaked>>
    BY <1>6 DEF socket_server_connect, epollVars
  <2>3. CASE alloc_id' = alloc_id + MaxSocket /\ UNCHANGED <<type, sid, sfd, req>>
    <3>1. alloc_id' >= alloc_id
      BY <2>3, SlotsAssumption DEF TableTypes
    <3> QED
      BY <1>3, <2>2, <2>3, <3>1, SameInFlight DEF Spent, slotVars, CanCall
  <2> QED
    BY <1>3, <1>4, <1>6, <2>1, <2>2, <2>3 DEF CanCall, socket_server_connect
<1>7. CASE socket_server_start(u) \/ socket_server_send(u) \/ socket_server_close(u)
  <2>1. UNCHANGED <<slotVars, alloc_id, epollVars, leaked>>
    BY <1>7 DEF socket_server_start, socket_server_send, socket_server_close
  <2>2. UNCHANGED req \/ \E r \in Request : Prepare(u, r) /\ r.op # "L"
    <3>1. \A id \in Ids, op \in {"S", "D", "P"} :
             Req(op, id) \in Request /\ Req(op, id).op = op
      BY ReqTypes DEF Ops, Req
    <3>2. \A id \in Ids, op \in {"K", "T"}, b \in BOOLEAN :
             /\ [Req(op, id) EXCEPT !.shutdown = b] \in Request
             /\ [Req(op, id) EXCEPT !.shutdown = b].op = op
      BY ReqTypes DEF Ops, Req
    <3>3. Known \subseteq Ids
      BY <1>1, KnownIds
    <3>4. CASE socket_server_start(u)
      BY <3>1, <3>3, <3>4 DEF socket_server_start
    <3>5. CASE socket_server_send(u)
      BY <3>1, <3>3, <3>5 DEF socket_server_send
    <3>6. CASE socket_server_close(u)
      BY <3>2, <3>3, <3>6 DEF socket_server_close
    <3> QED
      BY <1>7, <3>4, <3>5, <3>6
  <2>3. Listens' = Listens
    <3>1. ASSUME NEW r \in Request, Prepare(u, r), r.op # "L" PROVE Listens' = Listens
      BY <1>1, <1>3, <3>1, PrepareInFlight DEF CanCall, Listens
    <3> QED
      BY <1>3, <2>2, <3>1, SameInFlight
  <2> QED
    BY <1>3, <2>1, <2>3, Untouched DEF CanCall
<1> QED
  BY <1>5, <1>6, <1>7 DEF Call

\* A listen or open request takes its reserved slot, or gives it back.
LEMMA OpenEffect ==
  ASSUME TableInv, TableTypes, listen_socket \/ open_socket
  PROVE  Mild /\ pc' # "clear"
<1> DEFINE r == Head(pipe)
           k == Hash(r.id)
<1>1. IInv /\ TypeOK
  BY DEF TableInv, IInv
<1>2. PICK ops : Cmd(ops) /\ ops \in {{"L"}, {"O"}}
  BY DEF listen_socket, open_socket
<1>3. /\ r \in Request /\ r.id \in Ids /\ k \in Slots /\ Hash(r.id) = k
      /\ UNCHANGED <<alloc_id, leaked>> /\ Opens(r)
  BY <1>1, <1>2, CmdTypes DEF Cmd, Opens
<1>4. type[k] = "RESERVE" /\ sid[k] = r.id
  <2>1. 1 \in 1 .. Len(pipe) /\ r = pipe[1]
    BY <1>1, <1>2, LenProperties, EmptySeq DEF Cmd, TypeOK
  <2> QED
    BY <1>1, <1>3, <2>1 DEF IInv, ReservedUntilHandled, Reserved
<1>5. r.id =< alloc_id /\ alloc_id' >= alloc_id
  BY <1>3, <1>4, Nothing DEF TableInv, IdsFit, TableTypes
<1>6. /\ type \in [Slots -> Types] /\ sid \in [Slots -> Ids \cup {NoId}]
      /\ sfd \in [Slots -> Fds \cup {NoFd}] /\ out \in [Slots -> SUBSET Priorities]
      /\ reg \in [Fds -> Slots \cup {NoSlot}]
  BY <1>1 DEF TypeOK
<1>7. ASSUME NEW f \in Fds, NEW t, NEW add \in BOOLEAN, new_fd(r.id, f, t, add)
      PROVE  /\ Others(k) /\ type'[k] = t /\ sid'[k] = r.id /\ sfd'[k] = f
             /\ out'[k] = {}
             /\ add => reg'[f] = k /\ \A g \in Fds \ {f} : reg'[g] = reg[g]
             /\ ~add => reg' = reg
  <2>1. /\ type' = [type EXCEPT ![k] = t] /\ sid' = [sid EXCEPT ![k] = r.id]
        /\ sfd' = [sfd EXCEPT ![k] = f] /\ out' = [out EXCEPT ![k] = {}]
        /\ reg' = IF add THEN [reg EXCEPT ![f] = k] ELSE reg
    BY <1>7 DEF new_fd
  <2> HIDE DEF k
  <2> QED
    BY <1>3, <1>6, <2>1 DEF Others
<1>8. CASE listen_socket
  <2>1. /\ new_fd(r.id, r.fd, "PLISTEN", FALSE) /\ NoAnswer
        /\ UNCHANGED <<epollout, open>>
    BY <1>4, <1>8 DEF listen_socket
  <2>2. r.fd \in Fds /\ FALSE \in BOOLEAN /\ r.op = "L" /\ Cmd({"L"})
    BY <1>3, <1>8 DEF listen_socket, Cmd, Request
  <2>3. r \in Listens /\ Listens' = Listens \ {r}
    BY <1>1, <2>2, CmdListens
  <2>4. /\ Others(k) /\ type'[k] = "PLISTEN" /\ sid'[k] = r.id /\ sfd'[k] = r.fd
        /\ out'[k] = {} /\ reg' = reg
    BY <1>7, <2>1, <2>2
  <2> HIDE DEF k
  <2>5. Opened(k, r.id, r.fd)
    BY <1>3, <1>4, <1>5, <2>1, <2>3, <2>4, Nothing DEF Opened
  <2> QED
    BY <1>3, <2>1, <2>2, <2>5 DEF Mild, Quiet, NoAnswer
<1>9. CASE open_socket
  <2>1. Listens' = Listens
    BY <1>1, <1>9, CmdListens DEF open_socket
  <2>2. pc' # "clear"
    BY <1>4, <1>9 DEF open_socket, NoAnswer, Answer, Killed
  <2>3. CASE UNCHANGED <<slotVars, epollVars>>
    BY <1>3, <2>1, <2>2, <2>3, Untouched DEF Mild, Quiet
  <2>4. ASSUME NEW f \in Fds \ open, new_fd(r.id, f, "CONNECTED", TRUE),
               open' = open \cup {f}, UNCHANGED epollout
        PROVE  Mild
    <3>1. /\ Others(k) /\ type'[k] = "CONNECTED" /\ sid'[k] = r.id /\ sfd'[k] = f
          /\ out'[k] = {} /\ reg'[f] = k /\ \A g \in Fds \ {f} : reg'[g] = reg[g]
      BY <1>7, <2>4
    <3> HIDE DEF k
    <3>2. Opened(k, r.id, f)
      BY <1>3, <1>4, <1>5, <2>1, <2>4, <3>1, Nothing DEF Opened
    <3> QED
      BY <1>3, <3>2 DEF Mild, Quiet
  <2>5. CASE /\ type' = [type EXCEPT ![k] = "INVALID"]
             /\ UNCHANGED <<sid, sfd, out, reg, open, epollout>>
    <3> HIDE DEF k
    <3>1. GivenBack(k)
      BY <1>3, <1>4, <1>6, <2>1, <2>5 DEF GivenBack, Others, SameFds
    <3> QED
      BY <1>3, <2>2, <3>1 DEF Mild, Quiet
  <2>6. \/ UNCHANGED <<slotVars, epollVars>>
        \/ \E f \in Fds \ open : /\ new_fd(r.id, f, "CONNECTED", TRUE)
                                 /\ open' = open \cup {f} /\ UNCHANGED epollout
        \/ /\ type' = [type EXCEPT ![k] = "INVALID"]
           /\ UNCHANGED <<sid, sfd, out, reg, open, epollout>>
    BY <1>4, <1>9 DEF open_socket, NewFd, Killed
  <2> QED
    BY <2>2, <2>3, <2>4, <2>5, <2>6
<1> QED
  BY <1>8, <1>9

\* The other requests change the slot of their socket, or close it and leave its
\* event to clear_close_event.
LEMMA CmdEffect ==
  ASSUME TableInv, TableTypes,
         start_socket \/ send_socket \/ close_socket \/ set_sockopt
  PROVE  /\ Kept /\ (pc' = "clear" => result'.id \in Ids)
         /\ UNCHANGED evs /\ pc = "loop"
<1> DEFINE r == Head(pipe)
           k == Hash(r.id)
<1>1. IInv /\ TypeOK
  BY DEF TableInv, IInv
<1>2. PICK ops : Cmd(ops) /\ "L" \notin ops
  BY DEF start_socket, send_socket, close_socket, set_sockopt
<1>3. /\ r.id \in Ids /\ k \in Slots /\ Hash(r.id) = k
      /\ UNCHANGED <<alloc_id, leaked, evs>> /\ pc = "loop"
  BY <1>1, <1>2, CmdTypes DEF Cmd
<1>4. Listens' = Listens
  BY <1>1, <1>2, CmdListens
<1>5. /\ type \in [Slots -> Types] /\ out \in [Slots -> SUBSET Priorities]
      /\ reg \in [Fds -> Slots \cup {NoSlot}]
  BY <1>1 DEF TypeOK
<1>6. pc' = "clear" => result'.id \in Ids
  BY <1>3 DEF start_socket, send_socket, close_socket, set_sockopt,
              NoAnswer, Answer, Report, Killed
<1>7. CASE UNCHANGED <<slotVars, epollVars>>
  BY <1>3, <1>4, <1>6, <1>7, Untouched DEF Kept, Quiet
<1>8. ASSUME force_close(k), UNCHANGED <<sid, sfd>>, sid[k] = r.id,
             Answer("close", r.id) \/ Answer("error", r.id)
      PROVE  Kept
  <2>1. Spent \/ Gone(k)
    BY <1>3, <1>4, <1>5, <1>8, ForceCloseEffect
  <2>2. pc' = "clear" /\ result'.id = sid[k]
    BY <1>8 DEF Answer, Report
  <2> QED
    BY <1>3, <2>1, <2>2 DEF Kept, Quiet, Closes
<1>9. ASSUME NEW o, out' = [out EXCEPT ![k] = o], UNCHANGED <<sid, sfd, reg, open>>,
             \/ out[k] # {} /\ UNCHANGED epollout /\ UNCHANGED type
             \/ /\ out[k] # {} /\ UNCHANGED epollout
                /\ type' = [type EXCEPT ![k] = "HALFCLOSE"]
             \/ /\ type[k] = "CONNECTED" /\ UNCHANGED type
                /\ epollout' = epollout \cup {sfd[k]}
      PROVE  Kept
  <2> HIDE DEF k
  <2>1. Buffers(k)
    BY <1>3, <1>4, <1>5, <1>9 DEF Buffers, Others, SameFds
  <2> QED
    BY <1>3, <2>1 DEF Kept, Quiet
<1>10. CASE start_socket
  <2>1. ASSUME type[k] \in {"PLISTEN", "PACCEPT"}, SpAddSucceeds(sfd[k]),
               reg' = [reg EXCEPT ![sfd[k]] = k],
               type' = [type EXCEPT ![k] =
                          IF @ = "PACCEPT" THEN "CONNECTED" ELSE "LISTEN"],
               UNCHANGED <<sid, sfd, out, epollout, open>>
        PROVE  Kept
    <3> HIDE DEF k
    <3>1. reg[sfd[k]] = NoSlot /\ sfd[k] \in Fds
      BY <1>3, <2>1 DEF SpAddSucceeds, TableTypes, Unowned
    <3>2. type[k] = "PLISTEN"
      BY <1>3, <2>1, <3>1, Nothing DEF TableInv, EpollMatchesTable, Polled
    <3>3. Started(k)
      BY <1>3, <1>4, <1>5, <2>1, <3>1, <3>2 DEF Started, Others, SameFds
    <3> QED
      BY <1>3, <3>3 DEF Kept, Quiet
  <2> QED
    BY <1>3, <1>6, <1>7, <1>8, <1>10, <2>1 DEF start_socket
<1>11. CASE send_socket
  BY <1>3, <1>6, <1>7, <1>8, <1>9, <1>11 DEF send_socket, Sendable, epollVars, Killed
<1>12. CASE close_socket
  <2>1. \A o \in Lingers(r, out[k]) : out[k] # {}
    BY DEF Lingers, Left
  <2> QED
    BY <1>3, <1>6, <1>7, <1>8, <1>9, <1>12, <2>1 DEF close_socket, epollVars, Killed
<1>13. CASE set_sockopt
  BY <1>3, <1>6, <1>7, <1>13 DEF set_sockopt
<1> QED
  BY <1>10, <1>11, <1>12, <1>13

\* Nor do the steps of socket_server_poll between requests and events do
\* anything to the table.
LEMMA PollEffect ==
  ASSUME TableTypes,
         PollCall \/ clear_close_event \/ NoCmd \/ sp_wait \/ sp_wait_fails
  PROVE  Spent
<1>1. UNCHANGED <<slotVars, alloc_id, epollVars, leaked, pipe, req>>
  BY DEF PollCall, clear_close_event, NoCmd, sp_wait, sp_wait_fails, callVars
<1> QED
  BY <1>1, SameInFlight, Untouched

\* The events behind the first are of other slots.
LEMMA TailEvents ==
  ASSUME TableInv, NEW s, Dispatch(s)
  PROVE  /\ Len(evs) \in Nat /\ Len(Tail(evs)) = Len(evs) - 1
         /\ 1 \in 1 .. Len(evs) /\ Head(evs) = evs[1]
         /\ \A i \in 1 .. Len(Tail(evs)) :
              i + 1 \in 1 .. Len(evs) /\ Tail(evs)[i] = evs[i + 1]
         /\ \A i \in 1 .. Len(Tail(evs)) :
              Tail(evs)[i].slot = Head(evs).slot => Head(evs).slot = NoSlot
<1>1. evs # <<>> /\ evs \in Seq(Event)
  BY DEF Dispatch, TableInv, IInv, TypeOK
<1>2. /\ Len(evs) \in Nat /\ Len(Tail(evs)) = Len(evs) - 1
      /\ 1 \in 1 .. Len(evs) /\ Head(evs) = evs[1]
      /\ \A i \in 1 .. Len(Tail(evs)) : Tail(evs)[i] = evs[i + 1]
  BY <1>1, HeadTailProperties, LenProperties, EmptySeq
<1>3. \A i \in 1 .. Len(Tail(evs)) : i + 1 \in 1 .. Len(evs) /\ i + 1 # 1
  BY <1>2
<1> QED
  BY <1>2, <1>3 DEF TableInv, EventsFit

\* What remains of the events after one was handled: all but the first, which
\* may have its write event left.
Remain == \/ evs' = Tail(evs)
          \/ \E e \in Event : /\ e.slot = Head(evs).slot /\ e.for = Head(evs).for
                              /\ evs' = <<e>> \o Tail(evs)

\* An event changes its slot, closes it with no event of it left, or takes
\* another slot for an accepted connection.
LEMMA EventEffect ==
  ASSUME TableInv, TableTypes,
         skip_null \/ report_accept \/ forword_message_tcp \/ send_buffer
  PROVE  (Kept \/ NewSocket) /\ Remain /\ pc = "dispatch" /\ pc' # "clear" /\ \E s : Dispatch(s)
<1> DEFINE k == Head(evs).slot
<1>1. IInv /\ TypeOK
  BY DEF TableInv, IInv
<1>2. PICK s : Dispatch(s)
  BY DEF skip_null, report_accept, forword_message_tcp, send_buffer
<1>3. UNCHANGED <<pipe, req, leaked>> /\ pc = "dispatch" /\ Listens' = Listens
  BY <1>2, SameInFlight DEF Dispatch
<1>4. pc' # "clear"
  BY DEF skip_null, report_accept, forword_message_tcp, send_buffer, NoAnswer, Return,
      Killed
<1>5. /\ type \in [Slots -> Types] /\ sid \in [Slots -> Ids \cup {NoId}]
      /\ sfd \in [Slots -> Fds \cup {NoFd}] /\ out \in [Slots -> SUBSET Priorities]
      /\ reg \in [Fds -> Slots \cup {NoSlot}]
  BY <1>1 DEF TypeOK
<1>6. Head(evs) \in Event
  BY <1>1, <1>2, DispatchTypes
<1>7. ASSUME k \in Slots, force_close(k), UNCHANGED <<sid, sfd, alloc_id>>,
             evs' = Tail(evs)
      PROVE  Kept
  <2>1. Spent \/ Gone(k)
    BY <1>3, <1>5, <1>7, ForceCloseEffect
  <2>2. \A i \in 1 .. Len(evs') : evs'[i].slot # k
    BY <1>2, <1>7, TailEvents, Nothing
  <2> HIDE DEF k
  <2> QED
    BY <1>7, <2>1, <2>2 DEF Kept, Quiet, Closes
<1>8. CASE skip_null
  <2>1. Remain
    BY <1>8 DEF skip_null, Remain
  <2>2. Spent
    BY <1>3, <1>8, Untouched DEF skip_null
  <2> QED
    BY <1>2, <1>3, <1>4, <2>1, <2>2 DEF Kept, Quiet
<1>9. CASE report_accept
  <2>1. Remain
    BY <1>9 DEF report_accept, Remain
  <2>2. CASE UNCHANGED <<slotVars, epollVars>> /\ alloc_id' \in {alloc_id, alloc_id + MaxSocket}
    <3>1. alloc_id' >= alloc_id
      BY <2>2, SlotsAssumption DEF TableTypes
    <3> QED
      BY <1>2, <1>3, <1>4, <2>1, <2>2, <3>1 DEF Kept, Quiet, Spent, epollVars
  <2>3. ASSUME NEW f \in Fds \ open, NEW id \in Ids, NEW n, Reserves(id, n),
               alloc_id' = id, UNCHANGED epollout,
               \/ new_fd(id, f, "PACCEPT", TRUE) /\ open' = open \cup {f}
               \/ /\ sid' = [sid EXCEPT ![Hash(id)] = id]
                  /\ sfd' = [sfd EXCEPT ![Hash(id)] = NoFd]
                  /\ UNCHANGED <<type, out, reg, open>>
        PROVE  NewSocket
    <3> DEFINE h == Hash(id)
    <3>1. /\ h \in Slots /\ type[h] = "INVALID" /\ Hash(id) = h
          /\ id > alloc_id /\ id \in Nat /\ alloc_id \in Nat
      BY <1>1, <2>3, ReservesTypes, Nothing DEF Reserves, TableTypes
    <3>2. CASE new_fd(id, f, "PACCEPT", TRUE) /\ open' = open \cup {f}
      <4>1. /\ type' = [type EXCEPT ![h] = "PACCEPT"] /\ sid' = [sid EXCEPT ![h] = id]
            /\ sfd' = [sfd EXCEPT ![h] = f] /\ out' = [out EXCEPT ![h] = {}]
            /\ reg' = [reg EXCEPT ![f] = h]
        BY <3>2 DEF new_fd
      <4> HIDE DEF h
      <4>2. /\ Others(h) /\ type'[h] = "PACCEPT" /\ sid'[h] = id /\ sfd'[h] = f
            /\ out'[h] = {} /\ reg'[f] = h /\ \A g \in Fds \ {f} : reg'[g] = reg[g]
        BY <1>5, <3>1, <4>1 DEF Others
      <4>3. Opened(h, id, f)
        BY <1>3, <2>3, <3>1, <3>2, <4>2, Nothing DEF Opened
      <4> QED
        BY <2>3, <3>1, <4>3 DEF NewSocket
    <3>3. CASE /\ sid' = [sid EXCEPT ![h] = id] /\ sfd' = [sfd EXCEPT ![h] = NoFd]
               /\ UNCHANGED <<type, out, reg, open>>
      <4> HIDE DEF h
      <4>1. /\ Others(h) /\ type'[h] = "INVALID" /\ sid'[h] = id /\ sfd'[h] = NoFd
            /\ out'[h] = out[h]
        BY <1>5, <3>1, <3>3 DEF Others
      <4>2. Taken(h, id, "INVALID")
        BY <1>3, <2>3, <3>1, <3>3, <4>1, Nothing DEF Taken
      <4> QED
        BY <2>3, <3>1, <4>2 DEF NewSocket
    <3> QED
      BY <2>3, <3>2, <3>3
  <2>4. \/ UNCHANGED <<slotVars, epollVars>> /\ alloc_id' \in {alloc_id, alloc_id + MaxSocket}
        \/ \E f \in Fds \ open, id \in Ids, n \in 1 .. MaxSocket :
             /\ Reserves(id, n) /\ alloc_id' = id /\ UNCHANGED epollout
             /\ \/ new_fd(id, f, "PACCEPT", TRUE) /\ open' = open \cup {f}
                \/ /\ sid' = [sid EXCEPT ![Hash(id)] = id]
                   /\ sfd' = [sfd EXCEPT ![Hash(id)] = NoFd]
                   /\ UNCHANGED <<type, out, reg, open>>
    BY <1>9 DEF report_accept, NewFd
  <2>5. CASE NewSocket
    BY <1>2, <1>3, <1>4, <2>1, <2>5
  <2> HIDE DEF k
  <2> QED
    BY <2>2, <2>3, <2>4, <2>5
<1>10. CASE forword_message_tcp
  <2>1. k \in Slots /\ UNCHANGED <<sid, sfd, alloc_id>>
    <3>1. Dispatch({l \in Slots : type[l] # "LISTEN"})
      BY <1>10 DEF forword_message_tcp
    <3> QED
      BY <1>10, <3>1 DEF forword_message_tcp, Dispatch
  <2>2. Remain
    <3> DEFINE e == [Head(evs) EXCEPT !.read = FALSE]
    <3>1. e \in Event /\ e.slot = Head(evs).slot /\ e.for = Head(evs).for
      BY <1>6 DEF Event
    <3>2. <<>> \o Tail(evs) = Tail(evs)
      BY <1>1, <1>2, DispatchTypes, ConcatEmptySeq
    <3>3. evs' \in {Tail(evs), <<>> \o Tail(evs), <<e>> \o Tail(evs)}
      BY <1>10 DEF forword_message_tcp
    <3> HIDE DEF e
    <3> QED
      BY <3>1, <3>2, <3>3 DEF Remain
  <2>3. \/ UNCHANGED <<type, out, epollVars>>
        \/ force_close(k) /\ evs' = Tail(evs)
    BY <1>10 DEF forword_message_tcp
  <2>4. CASE UNCHANGED <<type, out, epollVars>>
    BY <1>2, <1>3, <1>4, <2>1, <2>2, <2>4, Untouched DEF Kept, Quiet, slotVars
  <2> QED
    BY <1>2, <1>3, <1>4, <1>7, <2>1, <2>2, <2>3, <2>4
<1>11. CASE send_buffer
  <2>1. k \in Slots /\ UNCHANGED <<sid, sfd, alloc_id>> /\ evs' = Tail(evs)
    <3>1. Dispatch({l \in Slots : type[l] # "LISTEN"})
      BY <1>11 DEF send_buffer
    <3> QED
      BY <1>11, <3>1 DEF send_buffer, Dispatch, Killed, slotVars
  <2>2. Remain
    BY <2>1 DEF Remain
  <2>3. \/ force_close(k)
        \/ \E o \in Left(out[k]) : /\ o # {} \/ "low" \in out[k]
                                   /\ out' = [out EXCEPT ![k] = o]
                                   /\ UNCHANGED <<type, epollVars>>
        \/ /\ type[k] # "HALFCLOSE" /\ out' = [out EXCEPT ![k] = {}]
           /\ epollout' = epollout \ {sfd[k]} /\ UNCHANGED <<type, reg, open>>
        \/ UNCHANGED <<type, out, epollVars>>
    BY <1>11 DEF send_buffer, Killed, slotVars
  <2>4. ASSUME NEW o \in Left(out[k]), o # {} \/ "low" \in out[k],
               out' = [out EXCEPT ![k] = o], UNCHANGED <<type, epollVars>>
        PROVE  Kept
    <3>1. out[k] # {}
      BY <2>4 DEF Left
    <3> HIDE DEF k
    <3>2. Buffers(k)
      BY <1>3, <1>5, <2>1, <2>4, <3>1 DEF Buffers, Others, SameFds, epollVars
    <3> QED
      BY <2>1, <3>2 DEF Kept, Quiet
  <2>5. ASSUME type[k] # "HALFCLOSE", out' = [out EXCEPT ![k] = {}],
               epollout' = epollout \ {sfd[k]}, UNCHANGED <<type, reg, open>>
        PROVE  Kept
    <3>1. type[k] \in Unowned => sfd[k] = NoFd
      <4>1. Fit(k, Head(evs).for)
        BY <1>2, <2>1, TailEvents, Nothing DEF TableInv, EventsFit
      <4> HIDE DEF k
      <4> QED
        BY <1>3, <4>1 DEF Fit, Closing
    <3> HIDE DEF k
    <3>2. Drained(k)
      BY <1>3, <1>5, <2>1, <2>5, <3>1 DEF Drained, Others, SameFds
    <3> QED
      BY <2>1, <3>2 DEF Kept, Quiet
  <2>6. ASSUME UNCHANGED <<type, out, epollVars>>
        PROVE  Kept
    <3>1. Spent
      BY <1>3, <2>1, <2>6, Untouched DEF slotVars
    <3> QED
      BY <3>1 DEF Kept, Quiet
  <2>7. Kept
    <3>1. force_close(k) => Kept
      BY <1>7, <2>1
    <3> QED
      BY <2>3, <2>4, <2>5, <2>6, <3>1
  <2> QED
    BY <1>2, <1>3, <1>4, <2>2, <2>7
<1> QED
  BY <1>8, <1>9, <1>10, <1>11

-----------------------------------------------------------------------------
(* The events after each step. *)

\* The slot k fits its event of id n after the step.
ClosingAfter(k) == pc' = "clear" /\ type'[k] = "INVALID" /\ sid'[k] = result'.id
FitAfter(k, n) ==
  /\ n \in Ids /\ n =< alloc_id'
  /\ type'[k] \in Unowned => sfd'[k] = NoFd \/ ClosingAfter(k)
  /\ type'[k] \in Unowned /\ sid'[k] = n => ClosingAfter(k)
  /\ SameThread => sid'[k] = n

\* The events fit after a step that leaves some of them, moved by d places or
\* nulled, each fit for its slot.
LEMMA MovedEvents ==
  ASSUME EventsFit, NEW d \in Nat, Len(evs') \in Nat, Len(evs) \in Nat,
         pc' = "clear" => result'.id \in Ids,
         \A i \in 1 .. Len(evs') : /\ i + d \in 1 .. Len(evs)
                                   /\ evs'[i].slot \in {NoSlot, evs[i + d].slot}
                                   /\ evs'[i].for = evs[i + d].for,
         \A i \in 1 .. Len(evs') : evs'[i].slot # NoSlot =>
                                     FitAfter(evs'[i].slot, evs'[i].for)
  PROVE  EventsFit'
<1>1. ASSUME NEW i \in 1 .. Len(evs'), NEW j \in 1 .. Len(evs'),
             evs'[i].slot = evs'[j].slot, evs'[i].slot # NoSlot
      PROVE  i = j
  <2>1. i + d = j + d
    BY <1>1 DEF EventsFit
  <2> QED
    BY <2>1
<1> QED
  BY <1>1 DEF EventsFit, Fit, Closing, FitAfter, ClosingAfter

\* Each effect of a step of the poller leaves a slot fit for its event, unless it
\* closes the slot.
LEMMA MildFit ==
  ASSUME TableTypes, TableTypes', IdsFit, Mild, NEW k \in Slots, NEW n, Fit(k, n),
         pc # "clear"
  PROVE  FitAfter(k, n)
<1>1. /\ n \in Ids /\ n \in Nat /\ n =< alloc_id /\ alloc_id \in Nat /\ alloc_id' \in Nat
      /\ type[k] \in Unowned => sfd[k] = NoFd /\ sid[k] # n
      /\ SameThread => sid[k] = n
  BY Nothing DEF Fit, Closing, TableTypes
<1> DEFINE Change ==
             /\ alloc_id' >= alloc_id
             /\ \/ /\ sid'[k] = sid[k] /\ sfd'[k] = sfd[k]
                   /\ type'[k] \in Unowned => type[k] \in Unowned
                \/ type[k] \in Unowned /\ type'[k] \notin Unowned
                \/ type[k] \in Unowned /\ sfd'[k] = NoFd /\ sid'[k] > alloc_id
<1>2. Change
  <2>1. CASE Spent
    BY <1>1, <2>1 DEF Spent, slotVars
  <2>2. ASSUME NEW l \in Slots, NEW id \in Ids, NEW t \in Unowned, Taken(l, id, t)
        PROVE  Change
    <3>1. id \in Nat
      BY Nothing
    <3> QED
      BY <1>1, <2>2, <3>1, Nothing DEF Taken, Others
  <2>3. ASSUME NEW l \in Slots, NEW id \in Ids, NEW f \in Fds, Opened(l, id, f)
        PROVE  Change
    BY <1>1, <2>3 DEF Opened, Others, Unowned
  <2>4. ASSUME NEW l \in Slots, GivenBack(l) \/ Started(l) \/ Buffers(l) \/ Drained(l)
        PROVE  Change
    BY <1>1, <2>4 DEF GivenBack, Started, Buffers, Drained, Others, Unowned
  <2> QED
    BY <2>1, <2>2, <2>3, <2>4 DEF Mild, Quiet
<1> QED
  BY <1>1, <1>2 DEF FitAfter

\* So does a close of another slot; a close of its own leaves the slot to
\* clear_close_event.
LEMMA ClosesFit ==
  ASSUME TableTypes, NEW l \in Slots, Closes(l), NEW k \in Slots, NEW n, Fit(k, n),
         pc # "clear", \E i \in 1 .. Len(evs') : evs'[i].slot = k
  PROVE  FitAfter(k, n)
<1>1. /\ n \in Ids /\ n =< alloc_id
      /\ type[k] \in Unowned => sfd[k] = NoFd /\ sid[k] # n
      /\ SameThread => sid[k] = n
  BY DEF Fit, Closing
<1>2. CASE k # l
  BY <1>1, <1>2 DEF Closes, Gone, Others, FitAfter
<1>3. CASE k = l
  <2>1. type'[k] = "INVALID" /\ sid'[k] = sid[k] /\ alloc_id' = alloc_id
    BY <1>3 DEF Closes, Gone
  <2>2. ClosingAfter(k)
    BY <1>3, <2>1 DEF Closes, ClosingAfter
  <2> QED
    BY <1>1, <2>1, <2>2 DEF FitAfter
<1> QED
  BY <1>2, <1>3

\* A step that only uses up ids, or takes a slot in another thread, fits at any
\* time.
LEMMA CallFit ==
  ASSUME TableTypes, TableTypes', NEW k \in Slots, NEW n, Fit(k, n),
         UNCHANGED <<pc, result>>,
         \/ Spent
         \/ ~SameThread /\ \E l \in Slots, id \in Ids : Taken(l, id, "RESERVE")
  PROVE  FitAfter(k, n)
<1>1. n \in Nat /\ n \in Ids /\ n =< alloc_id /\ alloc_id \in Nat /\ alloc_id' \in Nat
  BY Nothing DEF Fit, TableTypes
<1>2. CASE Spent
  BY <1>1, <1>2 DEF Spent, slotVars, Fit, FitAfter, Closing, ClosingAfter
<1>3. ASSUME ~SameThread, NEW l \in Slots, NEW id \in Ids, Taken(l, id, "RESERVE")
      PROVE  FitAfter(k, n)
  <2>1. alloc_id' = id /\ id > alloc_id /\ id \in Nat
    BY <1>3, Nothing DEF Taken
  <2>2. CASE k # l
    BY <1>1, <1>3, <2>1, <2>2 DEF Taken, Others, Fit, FitAfter, Closing, ClosingAfter
  <2>3. CASE k = l
    BY <1>1, <1>3, <2>1, <2>3 DEF Taken, FitAfter
  <2> QED
    BY <2>2, <2>3
<1> QED
  BY <1>2, <1>3

\* The slots of events are slots.
LEMMA EventSlots ==
  TypeOK => /\ Len(evs) \in Nat
            /\ \A i \in 1 .. Len(evs) : evs[i] \in Event /\ evs[i].slot \in Slots \cup {NoSlot}
<1> SUFFICES ASSUME TypeOK
             PROVE  /\ Len(evs) \in Nat
                    /\ \A i \in 1 .. Len(evs) :
                         evs[i] \in Event /\ evs[i].slot \in Slots \cup {NoSlot}
  OBVIOUS
<1>1. evs \in Seq(Event)
  BY DEF TypeOK
<1>2. Len(evs) \in Nat /\ \A i \in 1 .. Len(evs) : evs[i] \in Event
  BY <1>1, LenProperties, ElementOfSeq
<1> QED
  BY <1>2 DEF Event

\* The calls, the requests and the steps that only move the poller on leave the
\* events where they are.
LEMMA SameEvents ==
  ASSUME TableInv, TableTypes, TableTypes', UNCHANGED evs,
         pc' = "clear" => result'.id \in Ids,
         \/ Effect /\ pc # "clear"
         \/ /\ UNCHANGED <<pc, result>>
            /\ \/ Spent
               \/ ~SameThread /\ \E l \in Slots, id \in Ids : Taken(l, id, "RESERVE")
  PROVE  EventsFit'
<1>1. TypeOK /\ IdsFit /\ EventsFit
  BY DEF TableInv, IInv
<1>2. ASSUME NEW i \in 1 .. Len(evs), evs[i].slot # NoSlot
      PROVE  FitAfter(evs[i].slot, evs[i].for)
  <2>1. evs[i].slot \in Slots /\ Fit(evs[i].slot, evs[i].for)
    BY <1>1, <1>2, EventSlots DEF EventsFit
  <2>2. \E j \in 1 .. Len(evs') : evs'[j].slot = evs[i].slot
    OBVIOUS
  <2> QED
    BY <1>1, <2>1, <2>2, MildFit, ClosesFit, CallFit DEF Effect
<1>3. Len(evs) \in Nat /\ evs' = evs /\ 0 \in Nat
  BY <1>1, EventSlots
<1>4. \A i \in 1 .. Len(evs') : i + 0 = i
  BY <1>3
<1> QED
  BY <1>1, <1>2, <1>3, <1>4, MovedEvents

\* So do the events that are handled, but the first.
LEMMA HandledEvents ==
  ASSUME TableInv, TableTypes, TableTypes', TypeOK', Effect, Remain,
         pc = "dispatch", pc' # "clear", NEW s, Dispatch(s)
  PROVE  EventsFit'
<1>1. TypeOK /\ IdsFit /\ EventsFit
  BY DEF TableInv, IInv
<1>2. Len(evs) \in Nat /\ Len(evs') \in Nat
  BY <1>1, EventSlots, LenProperties DEF TypeOK
<1>3. PICK d \in {0, 1} :
        \A i \in 1 .. Len(evs') : /\ i + d \in 1 .. Len(evs)
                                  /\ evs'[i].slot = evs[i + d].slot
                                  /\ evs'[i].for = evs[i + d].for
  <2>1. CASE evs' = Tail(evs)
    BY <1>1, <1>2, <2>1, TailEvents
  <2>2. ASSUME NEW e \in Event, e.slot = Head(evs).slot, e.for = Head(evs).for,
               evs' = <<e>> \o Tail(evs)
        PROVE  \A i \in 1 .. Len(evs') : /\ i + 0 \in 1 .. Len(evs)
                                         /\ evs'[i].slot = evs[i + 0].slot
                                         /\ evs'[i].for = evs[i + 0].for
    <3>1. Tail(evs) \in Seq(Event) /\ <<e>> \in Seq(Event) /\ Len(<<e>>) = 1
      BY <1>1, DispatchTypes
    <3>2. /\ Len(evs') = 1 + Len(Tail(evs)) /\ evs'[1] = e
          /\ \A i \in 2 .. Len(evs') : evs'[i] = Tail(evs)[i - 1]
      BY <2>2, <3>1, ConcatProperties, LenProperties
    <3>3. Len(evs') = Len(evs)
      BY <1>1, <1>2, <3>2, TailEvents
    <3>4. \A i \in 2 .. Len(evs') : /\ i - 1 \in 1 .. Len(Tail(evs))
                                    /\ (i - 1) + 1 = i /\ i + 0 = i
      BY <1>2, <3>2, <3>3, TailEvents
    <3>5. \A i \in 2 .. Len(evs') : evs'[i] = evs[i]
      BY <3>2, <3>4, TailEvents
    <3> QED
      BY <1>2, <2>2, <3>2, <3>3, <3>5, TailEvents
  <2> QED
    BY <2>1, <2>2 DEF Remain
<1>4. ASSUME NEW i \in 1 .. Len(evs'), evs'[i].slot # NoSlot
      PROVE  FitAfter(evs'[i].slot, evs'[i].for)
  <2>1. evs'[i].slot \in Slots /\ Fit(evs'[i].slot, evs'[i].for)
    BY <1>1, <1>3, <1>4, EventSlots DEF EventsFit
  <2> QED
    BY <1>1, <2>1, MildFit, ClosesFit DEF Effect
<1> QED
  BY <1>1, <1>2, <1>3, <1>4, MovedEvents

\* clear_close_event nulls the one event of the slot that was closed.
LEMMA ClearedEvents == ASSUME TableInv, clear_close_event PROVE EventsFit'
<1> DEFINE Stale(i) == /\ evs[i].slot # NoSlot
                       /\ type[evs[i].slot] = "INVALID"
                       /\ sid[evs[i].slot] = result.id
<1>1. TypeOK /\ IdsFit /\ EventsFit
  BY DEF TableInv, IInv
<1>2. /\ pc = "clear" /\ pc' = "out" /\ UNCHANGED <<type, sid, sfd, alloc_id, result>>
      /\ evs' = [i \in DOMAIN evs |->
                   IF Stale(i) /\ \A j \in 1 .. i - 1 : ~Stale(j)
                   THEN [evs[i] EXCEPT !.slot = NoSlot] ELSE evs[i]]
  BY DEF clear_close_event, slotVars
<1>3. /\ Len(evs) \in Nat /\ DOMAIN evs = 1 .. Len(evs)
      /\ \A i \in 1 .. Len(evs) : evs[i] \in Event /\ evs[i].slot \in Slots \cup {NoSlot}
  BY <1>1, EventSlots, LenProperties DEF TypeOK
<1>4. ASSUME NEW i \in 1 .. Len(evs), NEW j \in 1 .. Len(evs), Stale(i), Stale(j)
      PROVE  i = j
  <2>1. result.id # NoId
    BY <1>1, <1>2, Nothing DEF EventsFit
  <2>2. evs[i].slot = Hash(result.id) /\ evs[j].slot = Hash(result.id)
    BY <1>1, <1>3, <1>4, <2>1 DEF IdsFit
  <2> QED
    BY <1>1, <1>4, <2>2 DEF EventsFit
<1>5. \A i \in 1 .. Len(evs) : \A j \in 1 .. i - 1 : j \in 1 .. Len(evs) /\ j # i
  BY <1>3
<1>6. ASSUME NEW i \in 1 .. Len(evs)
      PROVE  /\ evs'[i].slot = IF Stale(i) THEN NoSlot ELSE evs[i].slot
             /\ evs'[i].for = evs[i].for
  <2>1. Stale(i) => \A j \in 1 .. i - 1 : ~Stale(j)
    BY <1>4, <1>5
  <2> HIDE DEF Stale
  <2>2. evs'[i] = IF Stale(i) THEN [evs[i] EXCEPT !.slot = NoSlot] ELSE evs[i]
    BY <1>2, <1>3, <2>1
  <2> QED
    BY <1>3, <2>2 DEF Event
<1>7. ASSUME NEW i \in 1 .. Len(evs), evs'[i].slot # NoSlot
      PROVE  FitAfter(evs'[i].slot, evs'[i].for)
  <2>1. evs'[i].slot = evs[i].slot /\ evs'[i].for = evs[i].for /\ ~Stale(i)
    BY <1>6, <1>7
  <2>2. Fit(evs[i].slot, evs[i].for) /\ ~Closing(evs[i].slot)
    BY <1>1, <1>7, <2>1 DEF EventsFit, Closing
  <2> QED
    BY <1>2, <2>1, <2>2 DEF Fit, FitAfter
<1>8. Len(evs') = Len(evs)
  <2>1. DOMAIN evs' = 1 .. Len(evs)
    BY <1>2, <1>3
  <2>2. evs' = [i \in 1 .. Len(evs) |-> evs'[i]]
    BY <1>2, <1>3
  <2>3. evs' \in [1 .. Len(evs) -> {evs'[i] : i \in 1 .. Len(evs)}]
    BY <2>2
  <2> QED
    BY <1>3, <2>3, FunctionSeq
<1>9. \A i \in 1 .. Len(evs') : i + 0 = i /\ i \in 1 .. Len(evs)
  BY <1>3, <1>8
<1>10. \A i \in 1 .. Len(evs') : /\ i + 0 \in 1 .. Len(evs)
                                 /\ evs'[i].slot \in {NoSlot, evs[i + 0].slot}
                                 /\ evs'[i].for = evs[i + 0].for
  BY <1>6, <1>9
<1>11. 0 \in Nat /\ Len(evs') \in Nat /\ pc' # "clear"
  BY <1>2, <1>3, <1>8
<1> HIDE DEF Stale
<1> QED
  BY <1>1, <1>3, <1>7, <1>9, <1>10, <1>11, MovedEvents

\* sp_wait returns one event at most of a descriptor, so of a slot, for the id
\* the slot has.
LEMMA WaitEvents == ASSUME TableInv, TypeOK', sp_wait PROVE EventsFit'
<1>1. TypeOK /\ IdsFit /\ EpollMatchesTable
  BY DEF TableInv, IInv
<1>2. pc = "dispatch" /\ UNCHANGED <<type, sid, sfd, alloc_id, result, pc>>
  BY DEF sp_wait, slotVars
<1>3. PICK n \in 1 .. MaxEvents :
        \E fs \in [1 .. n -> {f \in Fds : reg[f] # NoSlot}
                             \cup (IF pipe = <<>> THEN {} ELSE {0})] :
          /\ \A i, j \in 1 .. n : fs[i] = fs[j] => i = j
          /\ evs' \in {es \in [1 .. n -> UNION {IF fs[i] = 0 THEN {PipeReady}
                                                ELSE Ready(fs[i]) : i \in 1 .. n}] :
                         \A i \in 1 .. n :
                           es[i] \in IF fs[i] = 0 THEN {PipeReady} ELSE Ready(fs[i])}
  BY DEF sp_wait
<1>4. PICK fs \in [1 .. n -> {f \in Fds : reg[f] # NoSlot}
                             \cup (IF pipe = <<>> THEN {} ELSE {0})] :
          /\ \A i, j \in 1 .. n : fs[i] = fs[j] => i = j
          /\ evs' \in {es \in [1 .. n -> UNION {IF fs[i] = 0 THEN {PipeReady}
                                                ELSE Ready(fs[i]) : i \in 1 .. n}] :
                         \A i \in 1 .. n :
                           es[i] \in IF fs[i] = 0 THEN {PipeReady} ELSE Ready(fs[i])}
  BY <1>3
<1>5. \A i \in 1 .. n : fs[i] # 0 => fs[i] \in Fds /\ reg[fs[i]] # NoSlot
  BY <1>4
<1>6. \A i \in 1 .. n : evs'[i] \in IF fs[i] = 0 THEN {PipeReady} ELSE Ready(fs[i])
  BY <1>4
<1>7. n = Len(evs')
  <2>1. DOMAIN evs' = 1 .. n
    BY <1>4
  <2>2. evs' \in Seq(Event)
    BY DEF TypeOK
  <2>3. n \in Nat
    BY BoundsAssumption
  <2> QED
    BY <2>1, <2>2, <2>3, LenProperties
<1>8. ASSUME NEW i \in 1 .. n, evs'[i].slot # NoSlot
      PROVE  /\ fs[i] \in Fds /\ sfd[evs'[i].slot] = fs[i]
             /\ evs'[i].slot \in Polled /\ evs'[i].for = sid[evs'[i].slot]
  <2>1. fs[i] # 0
    BY <1>6, <1>8 DEF PipeReady
  <2>2. /\ fs[i] \in Fds /\ reg[fs[i]] # NoSlot
        /\ evs'[i].slot = reg[fs[i]] /\ evs'[i].for = sid[reg[fs[i]]]
    BY <1>5, <1>6, <2>1 DEF Ready
  <2> QED
    BY <1>1, <2>2 DEF EpollMatchesTable
<1>9. ASSUME NEW i \in 1 .. n, NEW j \in 1 .. n,
             evs'[i].slot = evs'[j].slot, evs'[i].slot # NoSlot
      PROVE  i = j
  BY <1>4, <1>8, <1>9
<1>10. ASSUME NEW i \in 1 .. n, evs'[i].slot # NoSlot
       PROVE  FitAfter(evs'[i].slot, evs'[i].for)
  <2>1. PICK k \in Slots : /\ evs'[i].slot = k /\ evs'[i].for = sid[k]
                           /\ type[k] \notin Unowned /\ type[k] # "INVALID"
    BY <1>8, <1>10, Nothing DEF Live, Unowned, Polled
  <2>2. sid[k] \in Ids /\ sid[k] =< alloc_id
    BY <1>1, <2>1, TableTyped DEF TableTypes, IdsFit
  <2> QED
    BY <1>2, <2>1, <2>2 DEF FitAfter
<1>11. pc' # "clear"
  BY <1>2
<1> QED
  BY <1>7, <1>9, <1>10, <1>11 DEF EventsFit, Fit, Closing, FitAfter, ClosingAfter

-----------------------------------------------------------------------------
(* The invariant. *)

\* It holds initially.
LEMMA InitTable == Init => TableInv
<1> SUFFICES ASSUME Init PROVE TableInv
  OBVIOUS
<1>1. IInv
  BY InitIInv
<1>2. Live = {} /\ Polled = {} /\ Len(evs) = 0 /\ Len(pipe) = 0
  BY DEF Init, Live, Polled, Unowned
<1>3. IdsFit
  BY DEF Init, IdsFit
<1>4. InFlight = {}
  BY <1>2 DEF Init, InFlight
<1>5. FdsOwned
  BY <1>2, <1>4 DEF Init, FdsOwned, Listens
<1>6. EpollMatchesTable /\ WriteInterestKept
  BY <1>2 DEF Init, EpollMatchesTable, WriteInterestKept
<1>7. EventsFit
  BY <1>2 DEF Init, EventsFit
<1> QED
  BY <1>1, <1>3, <1>5, <1>6, <1>7 DEF TableInv

\* Every step has one of the effects, and leaves the events fit.
LEMMA StepEffect ==
  ASSUME TableInv, [Next]_vars
  PROVE  IInv' /\ TableTypes /\ TableTypes' /\ Effect /\ EventsFit'
<1>1. IInv /\ TypeOK /\ IdsFit /\ FdsOwned /\ EpollMatchesTable /\ WriteInterestKept
  BY DEF TableInv, IInv
<1>2. IInv' /\ TypeOK'
  BY <1>1, IInvStep, TypeStep
<1>3. TableTypes /\ TableTypes'
  <2>1. ASSUME TypeOK' PROVE TableTypes'
    BY <2>1, TableTyped, PTL
  <2> QED
    BY <1>1, <1>2, <2>1, TableTyped
<1>4. Effect /\ EventsFit'
  <2>1. ASSUME NEW u \in Callers, Call(u) PROVE Effect /\ EventsFit'
    <3>1. /\ Spent \/ \E k \in Slots, id \in Ids : Taken(k, id, "RESERVE")
          /\ UNCHANGED pollVars /\ (SameThread => pc = "out")
      BY <1>3, <2>1, CallEffect
    <3>2. Effect
      BY <3>1, Nothing DEF Effect, Mild, Quiet
    <3>3. UNCHANGED <<evs, pc, result>> /\ (pc' = "clear" => result'.id \in Ids)
      BY <3>1 DEF pollVars, TableInv, EventsFit
    <3> QED
      BY <1>3, <3>1, <3>2, <3>3, SameEvents
  <2>2. ASSUME \/ \E u \in Callers : send_request(u)
               \/ UNCHANGED vars
        PROVE  Effect /\ EventsFit'
    <3>1. UNCHANGED <<slotVars, alloc_id, epollVars, leaked, evs, pc, result>>
      BY <2>2 DEF send_request, vars, pollVars
    <3>2. Listens' = Listens
      <4>1. ASSUME NEW u \in Callers, send_request(u) PROVE Listens' = Listens
        BY <1>1, <4>1, SendInFlight DEF Listens
      <4>2. CASE UNCHANGED vars
        BY <4>2, SameInFlight DEF vars, callVars
      <4> QED
        BY <2>2, <4>1, <4>2
    <3>3. Spent
      BY <1>3, <3>1, <3>2, Untouched
    <3>4. pc' = "clear" => result'.id \in Ids
      BY <3>1 DEF TableInv, EventsFit
    <3> QED
      BY <1>3, <3>1, <3>3, <3>4, SameEvents DEF Effect, Mild, Quiet
  <2>3. CASE listen_socket \/ open_socket
    <3>1. Mild /\ pc' # "clear"
      BY <1>3, <2>3, OpenEffect
    <3>2. evs' = evs /\ pc # "clear"
      BY <2>3 DEF listen_socket, open_socket, Cmd
    <3> QED
      BY <1>3, <3>1, <3>2, SameEvents DEF Effect
  <2>4. CASE start_socket \/ send_socket \/ close_socket \/ set_sockopt
    <3>1. /\ Kept /\ (pc' = "clear" => result'.id \in Ids)
          /\ UNCHANGED evs /\ pc = "loop"
      BY <1>3, <2>4, CmdEffect
    <3> QED
      BY <1>3, <3>1, SameEvents DEF Effect, Kept, Mild
  <2>5. CASE PollCall \/ NoCmd \/ sp_wait_fails
    <3>1. Spent
      BY <1>3, <2>5, PollEffect
    <3>2. evs' = evs /\ pc # "clear" /\ pc' # "clear"
      BY <2>5 DEF PollCall, NoCmd, sp_wait_fails
    <3> QED
      BY <1>3, <3>1, <3>2, SameEvents DEF Effect, Mild, Quiet
  <2>6. CASE clear_close_event
    BY <1>3, <2>6, PollEffect, ClearedEvents DEF Effect, Mild, Quiet
  <2>7. CASE sp_wait
    BY <1>2, <1>3, <2>7, PollEffect, WaitEvents DEF Effect, Mild, Quiet
  <2>8. CASE skip_null \/ report_accept \/ forword_message_tcp \/ send_buffer
    <3>1. /\ (Kept \/ NewSocket) /\ Remain /\ pc = "dispatch" /\ pc' # "clear"
          /\ \E s : Dispatch(s)
      BY <1>3, <2>8, EventEffect
    <3>2. Effect
      BY <3>1, Nothing DEF Effect, Kept, Mild, NewSocket
    <3> QED
      BY <1>2, <1>3, <3>1, <3>2, HandledEvents
  <2> QED
    BY <2>1, <2>2, <2>3, <2>4, <2>5, <2>6, <2>7, <2>8 DEF Next, Poll
<1> QED
  BY <1>2, <1>3, <1>4

\* So every step keeps the invariant.
LEMMA TableStep == TableInv /\ [Next]_vars => TableInv'
<1> SUFFICES ASSUME TableInv, [Next]_vars PROVE TableInv'
  OBVIOUS
<1>1. IInv /\ TypeOK /\ IdsFit /\ FdsOwned /\ EpollMatchesTable /\ WriteInterestKept
  BY DEF TableInv, IInv
<1>2. IInv' /\ TableTypes /\ TableTypes' /\ Effect /\ EventsFit'
  BY StepEffect
<1>3. IdsFit'
  BY <1>1, <1>2, EffectIds
<1>4. FdsOwned'
  BY <1>1, <1>2, EffectFds
<1>5. EpollMatchesTable' /\ WriteInterestKept'
  BY <1>1, <1>2, EffectEpoll
<1> QED
  BY <1>2, <1>3, <1>4, <1>5 DEF TableInv

\* So it holds of every behaviour.
LEMMA TableInvariance == Spec => []TableInv
  BY InitTable, TableStep, PTL DEF Spec

-----------------------------------------------------------------------------
\* However many callers, requests and events there are, every open descriptor
\* has exactly one owner, a socket of the table or a listen request on its way,
\* unless socket_server_listen has forgotten it: force_close, new_fd and
\* report_accept neither lose nor share one.
THEOREM DescriptorsOwnedOnce == Spec => []FdOwnership
<1>1. TableInv => FdOwnership
  BY OwnedFds DEF TableInv, IInv
<1> QED
  BY <1>1, TableInvariance, PTL

\* sp_add, sp_del and close keep the epoll set and the table in agreement.
THEOREM EpollAgrees == Spec => []EpollMatchesTable
<1>1. TableInv => EpollMatchesTable
  BY DEF TableInv
<1> QED
  BY <1>1, TableInvariance, PTL

\* Whoever waits for an EPOLLOUT event has it switched on.
THEOREM WritersWoken == Spec => []WriteInterestKept
<1>1. TableInv => WriteInterestKept
  BY DEF TableInv
<1> QED
  BY <1>1, TableInvariance, PTL

\* A leftover event outlives its socket only when reserve_id, in another thread,
\* has taken the slot before clear_close_event looked at it.
THEOREM StaleEvents == Spec => []StaleOnlyIfTaken
<1>1. TableInv => StaleOnlyIfTaken
  BY DEF TableInv, EventsFit, Fit, Closing, StaleOnlyIfTaken
<1> QED
  BY <1>1, TableInvariance, PTL

\* If the polling thread makes the calls too, none does: socket_server_poll
\* never handles an event of a socket that is gone.
THEOREM NoStaleEvents == SameThread => (Spec => []NoStaleDispatch)
<1> SUFFICES ASSUME SameThread PROVE Spec => []NoStaleDispatch
  OBVIOUS
<1>1. TableInv => NoStaleDispatch
  BY Nothing DEF TableInv, EventsFit, Fit, Closing, NoStaleDispatch, Unowned
<1> QED
  BY <1>1, TableInvariance, PTL

-----------------------------------------------------------------------------
(* What one step may do to a socket, and what it may say of it: the action *)
(* properties of SocketServer.                                             *)

(* What a step may do to a slot follows from its effect. *)

\* An accepted connection stays one until it is closed: the request that starts
\* it finds it registered in the epoll set.
LEMMA AcceptedStep ==
  ASSUME TableInv, [Next]_vars, NEW k \in Slots, type[k] = "PACCEPT"
  PROVE  type'[k] \in {"PACCEPT", "INVALID"}
<1>1. TableTypes /\ Effect /\ WriteInterestKept
  BY StepEffect DEF TableInv
<1>2. out[k] = {}
  BY <1>1 DEF WriteInterestKept
<1>3. CASE Quiet
  BY <1>1, <1>2, <1>3 DEF Quiet, Spent, slotVars, Started, Buffers, Drained, Others
<1>4. ASSUME NEW l \in Slots, Gone(l) PROVE type'[k] \in {"PACCEPT", "INVALID"}
  BY <1>4 DEF Gone, Others
<1>5. ASSUME NEW l \in Slots,
             \/ \E id \in Ids, t \in Unowned : Taken(l, id, t)
             \/ GivenBack(l)
             \/ \E id \in Ids, f \in Fds : Opened(l, id, f)
      PROVE  type'[k] = type[k]
  BY <1>5 DEF Taken, GivenBack, Opened, Others, Unowned
<1> QED
  BY <1>1, <1>3, <1>4, <1>5 DEF Effect, Mild, Closes

\* So does a half-closed socket.
LEMMA HalfClosedStep ==
  ASSUME TableInv, [Next]_vars, NEW k \in Slots, type[k] = "HALFCLOSE"
  PROVE  type'[k] \in {"HALFCLOSE", "INVALID"}
<1>1. TableTypes /\ Effect
  BY StepEffect
<1>2. CASE Quiet
  BY <1>2 DEF Quiet, Spent, slotVars, Started, Buffers, Drained, Others
<1>3. ASSUME NEW l \in Slots, Gone(l) PROVE type'[k] \in {"HALFCLOSE", "INVALID"}
  BY <1>3 DEF Gone, Others
<1>4. ASSUME NEW l \in Slots,
             \/ \E id \in Ids, t \in Unowned : Taken(l, id, t)
             \/ GivenBack(l)
             \/ \E id \in Ids, f \in Fds : Opened(l, id, f)
      PROVE  type'[k] = type[k]
  BY <1>4 DEF Taken, GivenBack, Opened, Others, Unowned
<1> QED
  BY <1>1, <1>2, <1>3, <1>4 DEF Effect, Mild, Closes

\* No step of a kind that gives no slot another owner does anything to the owner
\* of a slot, nor wakes one without a socket.
LEMMA KeptOwners ==
  ASSUME TableTypes, TableTypes', Kept, NEW k \in Slots
  PROVE  /\ sid'[k] = sid[k] /\ alloc_id' >= alloc_id
         /\ type[k] \in Unowned => type'[k] = type[k]
<1>1. alloc_id \in Nat
  BY DEF TableTypes
<1>2. CASE Spent
  BY <1>2 DEF Spent, slotVars
<1>3. ASSUME NEW l \in Slots, Started(l) \/ Drained(l) \/ Gone(l)
      PROVE  /\ sid'[k] = sid[k] /\ alloc_id' >= alloc_id
             /\ type[k] \in Unowned => type'[k] = type[k]
  BY <1>1, <1>3 DEF Started, Drained, Gone, Others, Unowned
<1>4. ASSUME NEW l \in Slots, Buffers(l)
      PROVE  /\ sid'[k] = sid[k] /\ alloc_id' >= alloc_id
             /\ type[k] \in Unowned => type'[k] = type[k]
  BY <1>1, <1>4 DEF Buffers, Others, Unowned, TableTypes
<1> QED
  BY <1>2, <1>3, <1>4 DEF Kept, Quiet, Closes

\* The request that ctrl_cmd takes is one of the requests on their way; if it
\* opens, it has its slot reserved.
LEMMA OpenerReserved ==
  ASSUME IInv, listen_socket \/ open_socket
  PROVE  /\ Opens(Head(pipe)) /\ Head(pipe) \in InFlight
         /\ Head(pipe).id \in Ids /\ Hash(Head(pipe).id) \in Slots
         /\ type[Hash(Head(pipe).id)] = "RESERVE"
         /\ sid[Hash(Head(pipe).id)] = Head(pipe).id
<1>1. TypeOK
  BY DEF IInv
<1>2. PICK ops : Cmd(ops) /\ ops \in {{"L"}, {"O"}}
  BY DEF listen_socket, open_socket
<1>3. /\ Opens(Head(pipe)) /\ Head(pipe) \in InFlight
      /\ Head(pipe).id \in Ids /\ Hash(Head(pipe).id) \in Slots
  BY <1>1, <1>2, CmdTypes, CmdInFlight DEF Cmd, Opens
<1>4. 1 \in 1 .. Len(pipe) /\ Head(pipe) = pipe[1]
  BY <1>1, <1>2, LenProperties, EmptySeq DEF Cmd, TypeOK
<1> QED
  BY <1>3, <1>4 DEF IInv, ReservedUntilHandled, Reserved

\* A listen or open request changes the slot of its id and no other.
LEMMA OpenerSlot ==
  ASSUME IInv, listen_socket \/ open_socket,
         NEW k \in Slots, k # Hash(Head(pipe).id)
  PROVE  type'[k] = type[k] /\ sid'[k] = sid[k] /\ sfd'[k] = sfd[k] /\ out'[k] = out[k]
<1> DEFINE h == Hash(Head(pipe).id)
<1>1. type[h] = "RESERVE" /\ h \in Slots
  BY OpenerReserved
<1>2. /\ type' = type \/ \E t : type' = [type EXCEPT ![h] = t]
      /\ sid' = sid \/ \E id : sid' = [sid EXCEPT ![h] = id]
      /\ sfd' = sfd \/ \E f : sfd' = [sfd EXCEPT ![h] = f]
      /\ out' = out \/ out' = [out EXCEPT ![h] = {}]
  BY <1>1 DEF listen_socket, open_socket, new_fd, slotVars, Killed
<1>3. /\ type \in [Slots -> Types] /\ sid \in [Slots -> Ids \cup {NoId}]
      /\ sfd \in [Slots -> Fds \cup {NoFd}] /\ out \in [Slots -> SUBSET Priorities]
  BY DEF IInv, TypeOK
<1>4. k # h
  OBVIOUS
<1> HIDE DEF h
<1> QED
  BY <1>1, <1>2, <1>3, <1>4

\* A slot whose request has left the pipe without opening it stays reserved.
LEMMA FailedOpenStep ==
  ASSUME TableInv, [Next]_vars, NEW k \in Slots, type[k] = "RESERVE",
         ~\E r \in InFlight : Opens(r) /\ r.id = sid[k]
  PROVE  type'[k] = "RESERVE"
<1>1. IInv /\ TypeOK
  BY DEF TableInv, IInv
<1>2. ASSUME NEW u \in Callers, Call(u) PROVE type'[k] = "RESERVE"
  <2>1. TableTypes
    BY StepEffect
  <2>2. Spent \/ \E l \in Slots, id \in Ids : Taken(l, id, "RESERVE")
    BY <1>2, <2>1, CallEffect
  <2> QED
    BY <2>2 DEF Spent, slotVars, Taken, Others
<1>3. CASE listen_socket \/ open_socket
  <2>1. k # Hash(Head(pipe).id)
    BY <1>1, <1>3, OpenerReserved
  <2> QED
    BY <1>1, <1>3, <2>1, OpenerSlot
<1>4. CASE \/ start_socket \/ send_socket \/ close_socket \/ set_sockopt
           \/ skip_null \/ report_accept \/ forword_message_tcp \/ send_buffer
  BY <1>1, <1>4, CmdUndisturbed, EventUndisturbed DEF Undisturbed
<1>5. CASE \/ PollCall \/ clear_close_event \/ NoCmd \/ sp_wait \/ sp_wait_fails
           \/ UNCHANGED vars \/ \E u \in Callers : send_request(u)
  BY <1>5 DEF PollCall, clear_close_event, NoCmd, sp_wait, sp_wait_fails,
              send_request, vars, slotVars
<1> QED
  BY <1>2, <1>3, <1>4, <1>5 DEF Next, Poll

\* ctrl_cmd is the only reader of the pipe.
LEMMA OnlyRequestsLeave ==
  ASSUME TypeOK, [Next]_vars, Len(pipe') < Len(pipe)
  PROVE  \/ listen_socket \/ open_socket
         \/ start_socket \/ send_socket \/ close_socket \/ set_sockopt
<1>1. pipe \in Seq(Request) /\ Len(pipe) \in Nat
  BY LenProperties DEF TypeOK
<1>2. ASSUME NEW u \in Callers, send_request(u) PROVE FALSE
  <2>1. req[u] \in Request /\ pipe' = Append(pipe, req[u])
    BY <1>2 DEF send_request, TypeOK
  <2>2. Len(pipe') = Len(pipe) + 1
    BY <1>1, <2>1, AppendProperties
  <2> QED
    BY <1>1, <2>2
<1>3. pipe' # pipe
  BY <1>1
<1>4. CASE \/ (\E u \in Callers : Call(u)) \/ PollCall
           \/ clear_close_event \/ NoCmd \/ sp_wait \/ sp_wait_fails
           \/ skip_null \/ report_accept \/ forword_message_tcp \/ send_buffer
           \/ UNCHANGED vars
  BY <1>3, <1>4
  DEF Call, socket_server_listen, socket_server_connect, socket_server_start,
      socket_server_send, socket_server_close, PollCall, clear_close_event, NoCmd,
      sp_wait, sp_wait_fails, skip_null, report_accept, forword_message_tcp,
      send_buffer, Dispatch, vars, callVars
<1> QED
  BY <1>2, <1>4 DEF Next, Poll

\* Closing a slot changes no other.
LEMMA ForceCloseOthers ==
  ASSUME TypeOK, NEW h \in Slots, force_close(h), NEW k \in Slots, k # h
  PROVE  type'[k] = type[k] /\ out'[k] = out[k]
<1>1. type \in [Slots -> Types] /\ out \in [Slots -> SUBSET Priorities]
  BY DEF TypeOK
<1> QED
  BY <1>1 DEF force_close, Freed

\* A request changes the slot of its own id, and no other.
LEMMA RequestStep ==
  ASSUME IInv, NEW k \in Slots, sid[k] # Head(pipe).id,
         \/ listen_socket \/ open_socket
         \/ start_socket \/ send_socket \/ close_socket \/ set_sockopt
  PROVE  type'[k] = type[k] /\ sid'[k] = sid[k] /\ sfd'[k] = sfd[k] /\ out'[k] = out[k]
<1> DEFINE h == Hash(Head(pipe).id)
<1>1. TypeOK
  BY DEF IInv
<1>2. CASE listen_socket \/ open_socket
  BY <1>2, OpenerReserved, OpenerSlot
<1>3. CASE start_socket \/ send_socket \/ close_socket \/ set_sockopt
  <2>1. h \in Slots
    BY <1>1, <1>3, CmdTypes DEF start_socket, send_socket, close_socket, set_sockopt
  <2>2. sid' = sid /\ sfd' = sfd
    BY <1>3 DEF start_socket, send_socket, close_socket, set_sockopt, slotVars, Killed
  <2>3. \/ type' = type /\ out' = out
        \/ /\ sid[h] = Head(pipe).id
           /\ \/ force_close(h)
              \/ /\ type' = type \/ \E t : type' = [type EXCEPT ![h] = t]
                 /\ out' = out \/ \E o : out' = [out EXCEPT ![h] = o]
    <3>1. CASE start_socket
      BY <3>1 DEF start_socket, slotVars
    <3>2. CASE send_socket
      BY <3>2 DEF send_socket, slotVars, Sendable, Killed
    <3>3. CASE close_socket
      BY <3>3 DEF close_socket, slotVars, Killed
    <3>4. CASE set_sockopt
      BY <3>4 DEF set_sockopt, slotVars
    <3> QED
      BY <1>3, <3>1, <3>2, <3>3, <3>4
  <2>4. type \in [Slots -> Types] /\ out \in [Slots -> SUBSET Priorities]
    BY <1>1 DEF TypeOK
  <2>5. sid[h] = Head(pipe).id => k # h
    OBVIOUS
  <2> HIDE DEF h
  <2> QED
    BY <1>1, <2>1, <2>2, <2>3, <2>4, <2>5, ForceCloseOthers
<1> QED
  BY <1>2, <1>3

-----------------------------------------------------------------------------
(* What a step says of a socket. *)

Loud(k) == /\ result'.kind \in {"close", "error"} /\ result'.id = sid[k]
           /\ pc' \in {"out", "clear"}

\* A slot that is not closed by force_close keeps its socket.
LEMMA SocketStays ==
  ASSUME TypeOK, NEW k \in Live, NEW h \in Slots, NEW t,
         type' = type \/ (type' = [type EXCEPT ![h] = t]
                            /\ (t # "INVALID" \/ type[h] \in Unowned))
  PROVE  type'[k] # "INVALID"
<1>1. type \in [Slots -> Types] /\ k \in Slots /\ type[k] \notin Unowned
  BY DEF TypeOK, Live
<1> QED
  BY <1>1, Nothing

\* A step that takes the socket of a slot away has a close or error message for
\* its id.
LEMMA LoudClose ==
  ASSUME TableInv, [Next]_vars, NEW k \in Live, type'[k] = "INVALID"
  PROVE  Loud(k)
<1>1. IInv /\ TypeOK /\ k \in Slots /\ type[k] \notin Unowned
  BY DEF TableInv, IInv, Live
<1>2. type \in [Slots -> Types] /\ type[k] # "INVALID" /\ type[k] # "RESERVE"
  BY <1>1, Nothing DEF TypeOK
<1>3. ASSUME NEW h \in Slots, force_close(h), Loud(h) PROVE Loud(k)
  BY <1>1, <1>2, <1>3, ForceCloseOthers
<1>4. CASE \E u \in Callers : Call(u)
  <2>1. TableTypes
    BY StepEffect
  <2>2. Spent \/ \E l \in Slots, id \in Ids : Taken(l, id, "RESERVE")
    BY <1>4, <2>1, CallEffect
  <2> QED
    BY <1>1, <1>2, <2>2 DEF Spent, slotVars, Taken, Others
<1>5. CASE listen_socket \/ open_socket
  <2> DEFINE h == Hash(Head(pipe).id)
  <2>1. h \in Slots /\ type[h] = "RESERVE" /\ h # k
    BY <1>1, <1>2, <1>5, OpenerReserved
  <2> QED
    BY <1>1, <1>2, <1>5, <2>1, OpenerSlot
<1>6. CASE start_socket \/ send_socket \/ close_socket \/ set_sockopt
  <2> DEFINE h == Hash(Head(pipe).id)
  <2>1. h \in Slots
    BY <1>1, <1>6, CmdTypes DEF start_socket, send_socket, close_socket, set_sockopt
  <2>2. CASE start_socket
    <3>1. \/ force_close(h) /\ Loud(h)
          \/ type' = type \/ \E t : t # "INVALID" /\ type' = [type EXCEPT ![h] = t]
      BY <2>2 DEF start_socket, slotVars, Loud, Answer, Report
    <3> HIDE DEF h
    <3> QED
      BY <1>1, <1>3, <2>1, <3>1, SocketStays
  <2>3. CASE send_socket
    <3>1. (force_close(h) /\ Loud(h)) \/ type' = type
      BY <2>3 DEF send_socket, Sendable, slotVars, Loud, Answer, Report, Killed
    <3> HIDE DEF h
    <3> QED
      BY <1>2, <1>3, <2>1, <3>1
  <2>4. CASE close_socket
    <3>1. \/ force_close(h) /\ Loud(h)
          \/ type' = type \/ type' = [type EXCEPT ![h] = "HALFCLOSE"]
      BY <2>4 DEF close_socket, slotVars, Loud, Answer, Report, Killed
    <3> HIDE DEF h
    <3> QED
      BY <1>1, <1>3, <2>1, <3>1, SocketStays
  <2>5. CASE set_sockopt
    BY <1>2, <2>5 DEF set_sockopt, slotVars
  <2> QED
    BY <1>6, <2>2, <2>3, <2>4, <2>5
<1>7. CASE skip_null \/ report_accept \/ forword_message_tcp \/ send_buffer
  <2> DEFINE h == Head(evs).slot
  <2>1. CASE skip_null
    BY <1>2, <2>1 DEF skip_null, slotVars
  <2>2. CASE report_accept
    <3>1. \/ type' = type
          \/ \E id \in Ids : type' = [type EXCEPT ![Hash(id)] = "PACCEPT"]
      BY <2>2 DEF report_accept, new_fd, slotVars
    <3> QED
      BY <1>1, <3>1, ReservesTypes, SocketStays
  <2>3. CASE forword_message_tcp \/ send_buffer
    <3>1. Dispatch({l \in Slots : type[l] # "LISTEN"})
      BY <2>3 DEF forword_message_tcp, send_buffer
    <3>2. h \in Slots
      BY <3>1 DEF Dispatch
    <3>3. CASE forword_message_tcp
      <4>0. \/ force_close(h) /\ \E kind \in {"close", "error"} : Return(kind, sid[h])
            \/ type' = type
        BY <3>3 DEF forword_message_tcp
      <4>1. (force_close(h) /\ Loud(h)) \/ type' = type
        BY <4>0 DEF Loud, Return, Report
      <4> HIDE DEF h
      <4> QED
        BY <1>2, <1>3, <3>2, <4>1
    <3>4. CASE send_buffer
      <4>0. \/ force_close(h) /\ Return("close", sid[h])
            \/ UNCHANGED <<type, epollVars>>
            \/ IF type[h] = "HALFCLOSE"
               THEN force_close(h) /\ Return("close", sid[h])
               ELSE UNCHANGED <<type, reg, open>>
        BY <3>4 DEF send_buffer, Killed, slotVars
      <4>1. (force_close(h) /\ Return("close", sid[h])) \/ type' = type
        BY <4>0
      <4>2. (force_close(h) /\ Loud(h)) \/ type' = type
        BY <4>1 DEF Loud, Return, Report
      <4> HIDE DEF h
      <4> QED
        BY <1>2, <1>3, <3>2, <4>2
    <3> QED
      BY <2>3, <3>3, <3>4
  <2> QED
    BY <1>7, <2>1, <2>2, <2>3
<1>8. CASE \/ PollCall \/ clear_close_event \/ NoCmd \/ sp_wait \/ sp_wait_fails
           \/ UNCHANGED vars \/ \E u \in Callers : send_request(u)
  BY <1>2, <1>8 DEF PollCall, clear_close_event, NoCmd, sp_wait, sp_wait_fails,
                    send_request, vars, slotVars
<1> QED
  BY <1>4, <1>5, <1>6, <1>7, <1>8 DEF Next, Poll

\* A socket never disappears in silence.
THEOREM NoLostClose == Spec => NoSilentClose
<1>1. TableInv /\ [Next]_vars =>
        \A k \in Live : type'[k] = "INVALID" =>
          /\ result'.kind \in {"close", "error"} /\ result'.id = sid[k]
          /\ pc' \in {"out", "clear"}
  BY LoudClose DEF Loud
<1> QED
  BY <1>1, TableInvariance, PTL DEF Spec, NoSilentClose

\* A request changes no slot but that of its own id.
THEOREM RequestsToTheirId == Spec => RequestsKeepToTheirId
<1>1. TableInv /\ [Next]_vars =>
        (Len(pipe') < Len(pipe) =>
           \A k \in Slots :
             \/ sid[k] = Head(pipe).id
             \/ /\ type'[k] = type[k] /\ sid'[k] = sid[k]
                /\ sfd'[k] = sfd[k] /\ out'[k] = out[k])
  <2> SUFFICES ASSUME TableInv, [Next]_vars, Len(pipe') < Len(pipe),
                      NEW k \in Slots, sid[k] # Head(pipe).id
               PROVE  /\ type'[k] = type[k] /\ sid'[k] = sid[k]
                      /\ sfd'[k] = sfd[k] /\ out'[k] = out[k]
    OBVIOUS
  <2>1. IInv /\ TypeOK
    BY DEF TableInv, IInv
  <2> QED
    BY <2>1, OnlyRequestsLeave, RequestStep
<1> QED
  BY <1>1, TableInvariance, PTL DEF Spec, RequestsKeepToTheirId

\* Starting an accepted connection can only close it.
THEOREM AcceptedStays == Spec => AcceptedNeverConnected
<1>1. TableInv /\ [Next]_vars =>
        \A k \in Slots : type[k] = "PACCEPT" => type'[k] \in {"PACCEPT", "INVALID"}
  BY AcceptedStep
<1> QED
  BY <1>1, TableInvariance, PTL DEF Spec, AcceptedNeverConnected

\* A slot whose open failed stays reserved for ever.
THEOREM FailedOpenStays == Spec => FailedOpenKeepsSlot
<1>1. TableInv /\ [Next]_vars =>
        \A k \in Slots :
          /\ type[k] = "RESERVE"
          /\ ~\E r \in InFlight : Opens(r) /\ r.id = sid[k]
          => type'[k] = "RESERVE"
  BY FailedOpenStep
<1> QED
  BY <1>1, TableInvariance, PTL DEF Spec, FailedOpenKeepsSlot

-----------------------------------------------------------------------------
(* The messages. *)

\* What Closed will be after the step.
ClosedAfter(id) == sid'[Hash(id)] # id \/ type'[Hash(id)] \in Unowned

\* The message speaks of a socket that may have something to say, and still has
\* when the step is over.
Speaks(m) ==
  /\ m.id \in Ids /\ sid[Hash(m.id)] = m.id /\ type[Hash(m.id)] # "HALFCLOSE"
  /\ ~ClosedAfter(m.id)

\* What a step may put in the message it returns.
Heard == \/ result' = result \/ result' = Silence
         \/ result'.kind \in {"close", "error"}
         \/ result'.kind \in {"open", "accept", "data"} /\ Speaks(result')

\* A slot in use speaks for its id if it is in use after the step.
LEMMA SlotSpeaks ==
  ASSUME TableInv, NEW k \in Slots, NEW kind, type[k] \notin Unowned \cup {"HALFCLOSE"},
         result' = [kind |-> kind, id |-> sid[k]],
         sid'[k] = sid[k], type'[k] \notin Unowned
  PROVE  Speaks(result')
<1>1. sid[k] # NoId /\ sid[k] \in Ids /\ Hash(sid[k]) = k
  BY Nothing DEF TableInv, IInv, TypeOK, IdsFit
<1> QED
  BY <1>1 DEF Speaks, ClosedAfter

\* An open message is of a socket that a request has just opened or started.
LEMMA CmdSpeaks ==
  ASSUME TableInv,
         \/ listen_socket \/ open_socket
         \/ start_socket \/ send_socket \/ close_socket \/ set_sockopt
  PROVE  Heard
<1>1. IInv /\ TypeOK
  BY DEF TableInv, IInv
<1>2. CASE listen_socket \/ send_socket \/ close_socket \/ set_sockopt
  <2>1. CASE listen_socket
    BY <2>1 DEF listen_socket, NoAnswer, Heard, Killed
  <2>2. CASE send_socket \/ close_socket \/ set_sockopt
    <3>1. NoAnswer \/ \E id : Answer("close", id)
      BY <2>2 DEF send_socket, close_socket, set_sockopt, Killed
    <3> QED
      BY <3>1 DEF NoAnswer, Answer, Report, Heard
  <2> QED
    BY <1>2, <2>1, <2>2
<1>3. CASE open_socket
  <2> DEFINE id == Head(pipe).id
             h == Hash(id)
  <2>1. /\ id \in Ids /\ h \in Slots /\ type[h] = "RESERVE" /\ sid[h] = id /\ Hash(id) = h
    BY <1>1, <1>3, OpenerReserved
  <2>2. CASE result' = result
    BY <2>2 DEF Heard
  <2>3. CASE /\ result' = [kind |-> "open", id |-> id]
             /\ \E f : new_fd(id, f, "CONNECTED", TRUE)
    <3>1. /\ type' = [type EXCEPT ![h] = "CONNECTED"]
          /\ sid' = [sid EXCEPT ![h] = id]
      BY <2>3 DEF new_fd
    <3>2. type \in [Slots -> Types] /\ sid \in [Slots -> Ids \cup {NoId}]
      BY <1>1 DEF TypeOK
    <3>3. result'.kind = "open" /\ result'.id = id
      BY <2>3
    <3> HIDE DEF id, h
    <3>4. type'[h] = "CONNECTED" /\ sid'[h] = id
      BY <2>1, <3>1, <3>2
    <3> QED
      BY <2>1, <3>3, <3>4 DEF Heard, Speaks, ClosedAfter, Unowned
  <2>4. \/ result' = result
        \/ /\ result' = [kind |-> "open", id |-> id]
           /\ \E f : new_fd(id, f, "CONNECTED", TRUE)
    BY <1>3 DEF open_socket, NoAnswer, Answer, Report, Killed
  <2> QED
    BY <2>2, <2>3, <2>4
<1>4. CASE start_socket
  <2> DEFINE id == Head(pipe).id
             h == Hash(id)
  <2>1. h \in Slots
    BY <1>1, <1>4, CmdTypes DEF start_socket
  <2>2. \/ result' = result \/ result'.kind = "error"
        \/ /\ result' = [kind |-> "open", id |-> id] /\ sid[h] = id /\ sid' = sid
           /\ \/ /\ type[h] \in {"PLISTEN", "PACCEPT"}
                 /\ type' = [type EXCEPT ![h] =
                               IF @ = "PACCEPT" THEN "CONNECTED" ELSE "LISTEN"]
              \/ type[h] = "CONNECTED" /\ type' = type
    BY <1>4 DEF start_socket, NoAnswer, Answer, Report, slotVars
  <2>3. type \in [Slots -> Types]
    BY <1>1 DEF TypeOK
  <2> HIDE DEF id, h
  <2>4. ASSUME result' = [kind |-> "open", id |-> id], sid[h] = id, sid' = sid,
               \/ /\ type[h] \in {"PLISTEN", "PACCEPT"}
                  /\ type' = [type EXCEPT ![h] =
                                IF @ = "PACCEPT" THEN "CONNECTED" ELSE "LISTEN"]
               \/ type[h] = "CONNECTED" /\ type' = type
        PROVE  Heard
    <3>1. /\ result' = [kind |-> "open", id |-> sid[h]] /\ sid'[h] = sid[h]
          /\ type[h] \notin Unowned \cup {"HALFCLOSE"} /\ type'[h] \notin Unowned
      BY <2>1, <2>3, <2>4 DEF Unowned
    <3>2. Speaks(result')
      BY <2>1, <3>1, SlotSpeaks
    <3> QED
      BY <3>1, <3>2 DEF Heard
  <2> QED
    BY <2>2, <2>4 DEF Heard
<1> QED
  BY <1>2, <1>3, <1>4

\* A data message is of a socket that stays, an accept message of the one that
\* listens.
LEMMA EventSpeaks ==
  ASSUME TableInv,
         skip_null \/ report_accept \/ forword_message_tcp \/ send_buffer
  PROVE  Heard
<1> DEFINE h == Head(evs).slot
<1>1. IInv /\ TypeOK
  BY DEF TableInv, IInv
<1>2. CASE skip_null \/ send_buffer
  BY <1>2 DEF skip_null, send_buffer, NoAnswer, Return, Report, Heard, Killed
<1>3. CASE report_accept
  <2>1. h \in Slots /\ type[h] = "LISTEN"
    BY <1>3 DEF report_accept, Dispatch
  <2>2. \/ result'.kind = "error"
        \/ \E id \in Ids : \E n, f : /\ Reserves(id, n) /\ new_fd(id, f, "PACCEPT", TRUE)
                                     /\ result' = [kind |-> "accept", id |-> sid[h]]
    <3>1. \/ \E id : Return("error", id)
          \/ \E id \in Ids : \E n, f : /\ Reserves(id, n) /\ new_fd(id, f, "PACCEPT", TRUE)
                                       /\ Return("accept", sid[h])
      BY <1>3 DEF report_accept
    <3>2. /\ \A id : Return("error", id) => result'.kind = "error"
          /\ Return("accept", sid[h]) => result' = [kind |-> "accept", id |-> sid[h]]
      BY DEF Return, Report
    <3> QED
      BY <3>1, <3>2, Zenon
  <2>3. type \in [Slots -> Types] /\ sid \in [Slots -> Ids \cup {NoId}]
    BY <1>1 DEF TypeOK
  <2>4. ASSUME NEW id \in Ids, NEW n, NEW f, Reserves(id, n),
               new_fd(id, f, "PACCEPT", TRUE),
               result' = [kind |-> "accept", id |-> sid[h]]
        PROVE  Heard
    <3>1. /\ type' = [type EXCEPT ![Hash(id)] = "PACCEPT"]
          /\ sid' = [sid EXCEPT ![Hash(id)] = id] /\ type[Hash(id)] = "INVALID"
      BY <2>4 DEF Reserves, new_fd
    <3> HIDE DEF h
    <3>2. /\ type[h] \notin Unowned \cup {"HALFCLOSE"} /\ type'[h] \notin Unowned
          /\ sid'[h] = sid[h] /\ result'.kind = "accept"
      BY <2>1, <2>3, <2>4, <3>1 DEF Unowned
    <3>3. Speaks(result')
      BY <2>1, <2>4, <3>2, SlotSpeaks
    <3> QED
      BY <3>2, <3>3 DEF Heard
  <2> QED
    BY <2>2, <2>4 DEF Heard
<1>4. CASE forword_message_tcp
  <2>1. h \in Slots
    BY <1>4 DEF forword_message_tcp, Dispatch
  <2>2. \/ result' = result \/ result'.kind \in {"close", "error"}
        \/ /\ result' = [kind |-> "data", id |-> sid[h]] /\ type[h] \in Delivering
           /\ sid' = sid /\ type' = type
    <3>1. \/ NoAnswer \/ Return("close", sid[h]) \/ Return("error", sid[h])
          \/ Return("data", sid[h]) /\ type[h] \in Delivering /\ sid' = sid /\ type' = type
      BY <1>4 DEF forword_message_tcp
    <3> QED
      BY <3>1 DEF NoAnswer, Return, Report
  <2> HIDE DEF h
  <2>3. ASSUME result' = [kind |-> "data", id |-> sid[h]], type[h] \in Delivering,
               sid' = sid, type' = type
        PROVE  Heard
    <3>1. type[h] \notin Unowned \cup {"HALFCLOSE"} /\ result'.kind = "data"
      BY <2>3 DEF Delivering, Connected, Unowned
    <3>2. Speaks(result')
      BY <2>1, <2>3, <3>1, SlotSpeaks
    <3> QED
      BY <3>1, <3>2 DEF Heard
  <2> QED
    BY <2>2, <2>3 DEF Heard
<1> QED
  BY <1>2, <1>3, <1>4

\* So a step that reports anything but an end reports it of a socket that has not
\* begun to close.
LEMMA NewMessage == ASSUME TableInv, [Next]_vars PROVE Heard
<1>1. CASE \/ (\E u \in Callers : Call(u) \/ send_request(u)) \/ PollCall
           \/ clear_close_event \/ NoCmd \/ sp_wait \/ sp_wait_fails \/ UNCHANGED vars
  BY <1>1
  DEF Heard, Call, socket_server_listen, socket_server_connect, socket_server_start,
      socket_server_send, socket_server_close, send_request, PollCall,
      clear_close_event, NoCmd, sp_wait, sp_wait_fails, vars, pollVars
<1> QED
  BY <1>1, CmdSpeaks, EventSpeaks DEF Next, Poll

\* What is left of a list by force_close, send_buffer or a step that leaves it
\* alone is among what send_list may leave.
LEMMA ListsDrain ==
  ASSUME TypeOK, NEW h \in Slots, NEW k \in Slots,
         \/ out' = out \/ force_close(h)
         \/ \E o \in Left(out[h]) : out' = [out EXCEPT ![h] = o]
  PROVE  out'[k] \in Left(out[k])
<1>1. out \in [Slots -> SUBSET Priorities]
  BY DEF TypeOK
<1>2. out[k] \in Left(out[k]) /\ {} \in Left(out[k])
  BY <1>1 DEF Left
<1>3. CASE force_close(h)
  BY <1>1, <1>2, <1>3 DEF force_close, Freed
<1>4. ASSUME NEW o \in Left(out[h]), out' = [out EXCEPT ![h] = o]
      PROVE  out'[k] \in Left(out[k])
  BY <1>1, <1>2, <1>4
<1> QED
  BY <1>2, <1>3, <1>4

\* The write lists of a half-closed socket only drain.
LEMMA HalfClosedLists ==
  ASSUME TableInv, [Next]_vars, NEW k \in Slots, type[k] = "HALFCLOSE"
  PROVE  out'[k] \in Left(out[k])
<1>1. IInv /\ TypeOK
  BY DEF TableInv, IInv
<1>2. ASSUME out'[k] = out[k] PROVE out'[k] \in Left(out[k])
  BY <1>1, <1>2 DEF TypeOK, Left
<1>3. CASE \E u \in Callers : Call(u)
  <2>1. TableTypes
    BY StepEffect
  <2>2. Spent \/ \E l \in Slots, id \in Ids : Taken(l, id, "RESERVE")
    BY <1>3, <2>1, CallEffect
  <2> QED
    BY <1>2, <2>2 DEF Spent, slotVars, Taken, Others
<1>4. CASE listen_socket \/ open_socket
  <2>1. k # Hash(Head(pipe).id)
    BY <1>1, <1>4, OpenerReserved
  <2> QED
    BY <1>1, <1>2, <1>4, <2>1, OpenerSlot
<1>5. CASE start_socket \/ send_socket \/ close_socket \/ set_sockopt
  <2> DEFINE h == Hash(Head(pipe).id)
  <2>1. h \in Slots
    BY <1>1, <1>5, CmdTypes DEF start_socket, send_socket, close_socket, set_sockopt
  <2>2. CASE start_socket \/ set_sockopt
    <3>1. out' = out \/ force_close(h)
      BY <2>2 DEF start_socket, set_sockopt, slotVars
    <3> HIDE DEF h
    <3> QED
      BY <1>1, <2>1, <3>1, ListsDrain
  <2>3. CASE send_socket
    <3>1. CASE h = k
      <4>1. out' = out
        BY <2>3, <3>1 DEF send_socket, Sendable, slotVars
      <4> QED
        BY <1>2, <4>1
    <3>2. CASE h # k
      <4>1. out' = out \/ force_close(h) \/ \E o : out' = [out EXCEPT ![h] = o]
        BY <2>3 DEF send_socket, slotVars, Killed
      <4>2. out \in [Slots -> SUBSET Priorities]
        BY <1>1 DEF TypeOK
      <4> HIDE DEF h
      <4> QED
        BY <1>1, <1>2, <2>1, <3>2, <4>1, <4>2, ForceCloseOthers
    <3> QED
      BY <3>1, <3>2
  <2>4. CASE close_socket
    <3>1. Lingers(Head(pipe), out[h]) \subseteq Left(out[h])
      <4>1. {} \in Left(out[h])
        BY DEF Left
      <4> QED
        BY <4>1 DEF Lingers
    <3>2. \/ out' = out \/ force_close(h)
          \/ \E o \in Lingers(Head(pipe), out[h]) : out' = [out EXCEPT ![h] = o]
      BY <2>4 DEF close_socket, slotVars, Killed
    <3> HIDE DEF h
    <3> QED
      BY <1>1, <2>1, <3>1, <3>2, ListsDrain
  <2> QED
    BY <1>5, <2>2, <2>3, <2>4
<1>6. CASE skip_null \/ report_accept
  <2>1. CASE skip_null
    BY <1>2, <2>1 DEF skip_null, slotVars
  <2>2. CASE report_accept
    <3>1. \/ out' = out
          \/ \E id \in Ids, n \in 1 .. MaxSocket :
               Reserves(id, n) /\ out' = [out EXCEPT ![Hash(id)] = {}]
      BY <2>2 DEF report_accept, new_fd, slotVars
    <3>2. ASSUME NEW id \in Ids, NEW n, Reserves(id, n),
                 out' = [out EXCEPT ![Hash(id)] = {}]
          PROVE  out'[k] = out[k]
      <4>1. Hash(id) # k /\ out \in [Slots -> SUBSET Priorities]
        BY <1>1, <3>2 DEF Reserves, TypeOK
      <4> QED
        BY <3>2, <4>1
    <3> QED
      BY <1>2, <3>1, <3>2
  <2> QED
    BY <1>6, <2>1, <2>2
<1>7. CASE forword_message_tcp \/ send_buffer
  <2> DEFINE h == Head(evs).slot
  <2>1. Dispatch({l \in Slots : type[l] # "LISTEN"})
    BY <1>7 DEF forword_message_tcp, send_buffer
  <2>2. h \in Slots /\ {} \in Left(out[h])
    BY <2>1 DEF Dispatch, Left
  <2>3. CASE forword_message_tcp
    <3>1. out' = out \/ force_close(h)
      BY <2>3 DEF forword_message_tcp
    <3> HIDE DEF h
    <3> QED
      BY <1>1, <2>2, <3>1, ListsDrain
  <2>4. CASE send_buffer
    <3>1. \/ out' = out \/ force_close(h)
          \/ \E o \in Left(out[h]) : out' = [out EXCEPT ![h] = o]
          \/ out' = [out EXCEPT ![h] = {}]
      BY <2>4 DEF send_buffer, Killed, slotVars
    <3> HIDE DEF h
    <3> QED
      BY <1>1, <2>2, <3>1, ListsDrain
  <2> QED
    BY <1>7, <2>3, <2>4
<1>8. CASE \/ PollCall \/ clear_close_event \/ NoCmd \/ sp_wait \/ sp_wait_fails
           \/ UNCHANGED vars \/ \E u \in Callers : send_request(u)
  BY <1>2, <1>8 DEF PollCall, clear_close_event, NoCmd, sp_wait, sp_wait_fails,
                    send_request, vars, slotVars
<1> QED
  BY <1>3, <1>4, <1>5, <1>6, <1>7, <1>8 DEF Next, Poll

\* A send request that finds a half-closed socket leaves it alone.
LEMMA HalfClosedRefuses ==
  ASSUME TableInv, [Next]_vars, NEW k \in Slots, type[k] = "HALFCLOSE",
         Len(pipe') < Len(pipe), Head(pipe).op \in {"D", "P"}
  PROVE  type'[k] = "HALFCLOSE" /\ out'[k] = out[k]
<1>1. IInv /\ TypeOK
  BY DEF TableInv, IInv
<1>2. send_socket
  BY <1>1, OnlyRequestsLeave
  DEF listen_socket, open_socket, start_socket, close_socket, set_sockopt, Cmd
<1>3. CASE sid[k] # Head(pipe).id
  BY <1>1, <1>2, <1>3, RequestStep
<1>4. CASE sid[k] = Head(pipe).id
  <2>1. sid[k] \in Ids /\ Hash(Head(pipe).id) = k
    BY <1>1, <1>2, <1>4, CmdTypes, Nothing DEF send_socket, TableInv, IdsFit
  <2>2. ~Sendable(Head(pipe).id)
    BY <2>1 DEF Sendable
  <2> QED
    BY <1>2, <2>2 DEF send_socket, slotVars
<1> QED
  BY <1>3, <1>4

\* A half-closed socket can only be closed, reports nothing else, and is left
\* alone by later sends.
THEOREM HalfClosedOnlyClose == Spec => HalfCloseOnlyCloses
<1>1. TableInv /\ [Next]_vars =>
        \A k \in Slots : type[k] = "HALFCLOSE" =>
          /\ type'[k] \in {"HALFCLOSE", "INVALID"}
          /\ out'[k] \in Left(out[k])
          /\ Len(pipe') < Len(pipe) /\ Head(pipe).op \in {"D", "P"} =>
               type'[k] = "HALFCLOSE" /\ out'[k] = out[k]
          /\ result' # result /\ result'.id = sid[k] =>
               result'.kind \in {"none", "close", "error"}
  <2> SUFFICES ASSUME TableInv, [Next]_vars, NEW k \in Slots, type[k] = "HALFCLOSE",
                      result' # result, result'.id = sid[k]
               PROVE  result'.kind \in {"none", "close", "error"}
    BY HalfClosedStep, HalfClosedLists, HalfClosedRefuses
  <2>1. sid[k] \in Ids => Hash(sid[k]) = k
    BY Nothing DEF TableInv, IdsFit
  <2>2. ~Speaks(result')
    BY <2>1 DEF Speaks
  <2>3. Silence.kind = "none"
    BY DEF Silence
  <2> QED
    BY <2>2, <2>3, NewMessage DEF Heard
<1> QED
  BY <1>1, TableInvariance, PTL DEF Spec, HalfCloseOnlyCloses

-----------------------------------------------------------------------------
(* The requests on their way, in order: none of them precedes the one that   *)
(* opens its id, so a request that closes an id is the end of it.            *)

InOrder ==
  /\ \A r \in InFlight : r.id =< alloc_id
  /\ \A i \in 1 .. Len(pipe) : ~Opens(pipe[i]) =>
       /\ \A j \in 1 .. Len(pipe) :
            j > i /\ Opens(pipe[j]) => pipe[j].id # pipe[i].id
       /\ \A u \in Callers : Opens(req[u]) => req[u].id # pipe[i].id
  /\ \A u, v \in Callers :
       req[u] # NoRequest /\ ~Opens(req[u]) /\ Opens(req[v]) => req[v].id # req[u].id

\* What a call adds to the requests: nothing, one that opens a new id, or one for
\* an id that no caller is still opening.
Requested(u) ==
  /\ UNCHANGED pipe /\ req[u] = NoRequest /\ alloc_id' >= alloc_id
  /\ \/ req' = req
     \/ \E r \in Request :
          /\ Prepare(u, r) /\ r.id =< alloc_id'
          /\ IF Opens(r) THEN r.id > alloc_id
             ELSE /\ r.id =< alloc_id
                  /\ \A v \in Callers : Opens(req[v]) => req[v].id # r.id

\* Every call does one of these.
LEMMA CallRequests ==
  ASSUME TableInv, TableTypes, NEW u \in Callers, Call(u) PROVE Requested(u)
<1>1. TypeOK /\ alloc_id \in Nat /\ MaxSocket \in Nat
  BY SlotsAssumption DEF TableInv, IInv, TableTypes
<1>2. UNCHANGED pipe /\ req[u] = NoRequest
  BY DEF Call, socket_server_listen, socket_server_connect, socket_server_start,
         socket_server_send, socket_server_close, CanCall
<1>3. ASSUME NEW r \in Request, NEW n, Reserve(u, r, n), Opens(r) PROVE Requested(u)
  <2>1. /\ n \in 1 .. MaxSocket /\ r.id = alloc_id + n /\ alloc_id' = r.id
        /\ Prepare(u, r)
    BY <1>3 DEF Reserve, Reserves
  <2>2. r.id > alloc_id /\ r.id =< alloc_id' /\ alloc_id' >= alloc_id
    BY <1>1, <2>1
  <2> QED
    BY <1>2, <1>3, <2>1, <2>2 DEF Requested
<1>4. CASE alloc_id' \in {alloc_id, alloc_id + MaxSocket} /\ req' = req
  BY <1>1, <1>2, <1>4 DEF Requested
<1>5. ASSUME NEW id \in Known, NEW r \in Request, ~Opens(r), r.id = id,
             Prepare(u, r), alloc_id' = alloc_id
      PROVE  Requested(u)
  <2>1. id =< alloc_id /\ \A v \in Callers : Opens(req[v]) => req[v].id # id
    BY <1>1, <1>5 DEF Known, Opens, NoRequest
  <2> QED
    BY <1>1, <1>2, <1>5, <2>1 DEF Requested
<1>6. CASE socket_server_listen(u)
  <2>1. ASSUME NEW id \in Ids, NEW f \in Fds
        PROVE  /\ [Req("L", id) EXCEPT !.fd = f] \in Request
               /\ Opens([Req("L", id) EXCEPT !.fd = f])
    BY ReqTypes DEF Req, Opens
  <2>2. \/ \E f \in Fds, id \in Ids : \E n : Reserve(u, [Req("L", id) EXCEPT !.fd = f], n)
        \/ alloc_id' \in {alloc_id, alloc_id + MaxSocket} /\ req' = req
    BY <1>6 DEF socket_server_listen
  <2> QED
    BY <1>3, <1>4, <2>1, <2>2
<1>7. CASE socket_server_connect(u)
  <2>1. ASSUME NEW id \in Ids PROVE Req("O", id) \in Request /\ Opens(Req("O", id))
    BY ReqTypes DEF Req, Opens, Ops
  <2>2. \/ \E id \in Ids : \E n : Reserve(u, Req("O", id), n)
        \/ alloc_id' = alloc_id + MaxSocket /\ req' = req
    BY <1>7 DEF socket_server_connect
  <2> QED
    BY <1>3, <1>4, <2>1, <2>2
<1>8. CASE socket_server_start(u) \/ socket_server_send(u)
  <2>1. ASSUME NEW id \in Known, NEW op \in {"S", "D", "P"}
        PROVE  Req(op, id) \in Request /\ ~Opens(Req(op, id)) /\ Req(op, id).id = id
    BY <1>1, KnownIds, ReqTypes DEF Req, Opens, Ops
  <2>2. CASE req' = req /\ alloc_id' = alloc_id
    BY <1>1, <1>2, <2>2 DEF Requested
  <2>3. /\ alloc_id' = alloc_id
        /\ \/ req' = req
           \/ \E id \in Known, op \in {"S", "D", "P"} : Prepare(u, Req(op, id))
    BY <1>8 DEF socket_server_start, socket_server_send
  <2> QED
    BY <1>5, <2>1, <2>2, <2>3
<1>9. CASE socket_server_close(u)
  <2>1. PICK id \in Known, r \in [shutdown : BOOLEAN, op : {"K", "T"}] :
          /\ Prepare(u, [Req(r.op, id) EXCEPT !.shutdown = r.shutdown])
          /\ alloc_id' = alloc_id
    BY <1>9 DEF socket_server_close
  <2> DEFINE q == [Req(r.op, id) EXCEPT !.shutdown = r.shutdown]
  <2>2. r.op \in {"K", "T"} /\ r.shutdown \in BOOLEAN
    OBVIOUS
  <2>3. q \in Request
    BY <1>1, <2>2, KnownIds, ReqTypes DEF Ops
  <2>4. ~Opens(q) /\ q.id = id
    BY <2>2 DEF Req, Opens
  <2> QED
    BY <1>5, <2>1, <2>3, <2>4
<1> QED
  BY <1>6, <1>7, <1>8, <1>9 DEF Call

\* A request on its way is a request; its id is a number.
LEMMA InFlightTypes ==
  ASSUME TypeOK
  PROVE  /\ InFlight \subseteq Request /\ \A r \in InFlight : r.id \in Nat
         /\ \A i \in 1 .. Len(pipe) : pipe[i] \in InFlight
         /\ \A u \in Callers : req[u] # NoRequest => req[u] \in InFlight
         /\ ~Opens(NoRequest) /\ \A r \in Request : r.id \in Nat /\ r # NoRequest
<1>1. /\ \A i \in 1 .. Len(pipe) : pipe[i] \in Request
      /\ \A u \in Callers : req[u] \in Request \cup {NoRequest}
  BY OpensTypes DEF TypeOK
<1>2. ASSUME NEW r \in Request PROVE r.id \in Nat /\ r # NoRequest
  <2>1. r.id \in Ids /\ r.op \in Ops
    BY DEF Request
  <2>2. NoRequest.op \notin Ops
    BY DEF NoRequest, Ops
  <2> QED
    BY <2>1, <2>2, Nothing
<1>3. ~Opens(NoRequest)
  BY DEF Opens, NoRequest
<1> QED
  BY <1>1, <1>2, <1>3 DEF InFlight

\* The order is kept when a call adds a request.
LEMMA CallInOrder ==
  ASSUME TableInv, TableTypes, TableTypes', InOrder, NEW u \in Callers, Requested(u)
  PROVE  InOrder'
<1>1. /\ IInv /\ TypeOK /\ alloc_id \in Nat /\ alloc_id' \in Nat
      /\ req \in [Callers -> Request \cup {NoRequest}]
  BY DEF TableInv, IInv, TypeOK, TableTypes
<1>2. /\ pipe' = pipe /\ Len(pipe') = Len(pipe) /\ req[u] = NoRequest
      /\ alloc_id' >= alloc_id
  BY DEF Requested
<1>3. \A r \in InFlight : r.id \in Nat /\ r.id =< alloc_id'
  BY <1>1, <1>2, InFlightTypes DEF InOrder
<1>4. CASE req' = req
  <2>1. InFlight' = InFlight
    BY <1>2, <1>4, SameInFlight
  <2> QED
    BY <1>2, <1>3, <1>4, <2>1 DEF InOrder
<1>5. ASSUME NEW r \in Request, Prepare(u, r), r.id =< alloc_id',
             Opens(r) => r.id > alloc_id,
             ~Opens(r) => \A v \in Callers : Opens(req[v]) => req[v].id # r.id
      PROVE  InOrder'
  <2>1. InFlight' = InFlight \cup {r}
    BY <1>1, <1>2, <1>5, PrepareInFlight
  <2>2. req'[u] = r /\ \A v \in Callers \ {u} : req'[v] = req[v]
    BY <1>1, <1>5 DEF Prepare
  <2>3. /\ r.id \in Nat
        /\ \A i \in 1 .. Len(pipe) : pipe[i].id \in Nat /\ pipe[i].id =< alloc_id
        /\ \A v \in Callers : req[v] # NoRequest =>
                                req[v].id \in Nat /\ req[v].id =< alloc_id
        /\ ~Opens(NoRequest)
    BY <1>1, InFlightTypes DEF InOrder
  <2>4. Opens(r) => /\ \A i \in 1 .. Len(pipe) : r.id # pipe[i].id
                    /\ \A v \in Callers : req[v] # NoRequest => r.id # req[v].id
    BY <1>1, <1>5, <2>3
  <2>5. \A q \in InFlight' : q.id =< alloc_id'
    BY <1>3, <1>5, <2>1
  <2>6. \A i \in 1 .. Len(pipe) : ~Opens(pipe[i]) =>
          \A v \in Callers : Opens(req'[v]) => req'[v].id # pipe[i].id
    BY <2>2, <2>4 DEF InOrder
  <2>7. \A v, w \in Callers :
          req'[v] # NoRequest /\ ~Opens(req'[v]) /\ Opens(req'[w]) => req'[w].id # req'[v].id
    BY <1>2, <1>5, <2>2, <2>3, <2>4 DEF InOrder
  <2> QED
    BY <1>2, <2>5, <2>6, <2>7 DEF InOrder
<1> QED
  BY <1>4, <1>5 DEF Requested

\* It is kept when a request is written to the pipe.
LEMMA SendInOrder ==
  ASSUME TableInv, InOrder, NEW u \in Callers, send_request(u) PROVE InOrder'
<1>1. IInv /\ TypeOK
  BY DEF TableInv, IInv
<1>2. /\ pipe' = Append(pipe, req[u]) /\ req' = [req EXCEPT ![u] = NoRequest]
      /\ req[u] # NoRequest /\ alloc_id' = alloc_id
      /\ pipe \in Seq(Request) /\ req \in [Callers -> Request \cup {NoRequest}]
  BY <1>1 DEF send_request, TypeOK
<1>3. req[u] \in Request
  BY <1>2
<1>4. /\ Len(pipe) \in Nat /\ Len(pipe') = Len(pipe) + 1
      /\ \A i \in 1 .. Len(pipe) : pipe'[i] = pipe[i]
      /\ pipe'[Len(pipe) + 1] = req[u]
  BY <1>2, <1>3, AppendProperties, LenProperties
<1>5. req'[u] = NoRequest /\ (\A v \in Callers \ {u} : req'[v] = req[v]) /\ ~Opens(NoRequest)
  BY <1>1, <1>2, InFlightTypes
<1>6. InFlight' = InFlight
  BY <1>1, SendInFlight
<1>7. ASSUME NEW i \in 1 .. Len(pipe'), ~Opens(pipe'[i]),
             NEW j \in 1 .. Len(pipe'), j > i, Opens(pipe'[j])
      PROVE  pipe'[j].id # pipe'[i].id
  <2>1. i \in 1 .. Len(pipe) /\ (j \in 1 .. Len(pipe) \/ j = Len(pipe) + 1)
    BY <1>4, <1>7
  <2>2. pipe'[i] = pipe[i]
    BY <1>4, <2>1
  <2>3. CASE j \in 1 .. Len(pipe)
    BY <1>4, <1>7, <2>1, <2>2, <2>3 DEF InOrder
  <2>4. CASE j = Len(pipe) + 1
    BY <1>4, <1>7, <2>1, <2>2, <2>4 DEF InOrder
  <2> QED
    BY <2>1, <2>3, <2>4
<1>8. ASSUME NEW i \in 1 .. Len(pipe'), ~Opens(pipe'[i]),
             NEW v \in Callers, Opens(req'[v])
      PROVE  req'[v].id # pipe'[i].id
  <2>1. v # u /\ req'[v] = req[v]
    BY <1>5, <1>8
  <2>2. CASE i \in 1 .. Len(pipe)
    BY <1>4, <1>8, <2>1, <2>2 DEF InOrder
  <2>3. CASE i = Len(pipe) + 1
    BY <1>2, <1>4, <1>8, <2>1, <2>3 DEF InOrder
  <2> QED
    BY <1>4, <2>2, <2>3
<1>9. \A v, w \in Callers :
        req'[v] # NoRequest /\ ~Opens(req'[v]) /\ Opens(req'[w]) => req'[w].id # req'[v].id
  BY <1>5 DEF InOrder
<1> QED
  BY <1>2, <1>6, <1>7, <1>8, <1>9 DEF InOrder

\* It is kept when ctrl_cmd takes one from it.
LEMMA CmdInOrder ==
  ASSUME TableInv, InOrder, NEW ops, Cmd(ops)
  PROVE  InOrder'
<1>1. IInv /\ TypeOK
  BY DEF TableInv, IInv
<1>2. pipe \in Seq(Request) /\ pipe # <<>> /\ pipe' = Tail(pipe)
      /\ req' = req /\ alloc_id' = alloc_id
  BY <1>1 DEF Cmd, TypeOK
<1>3. /\ Len(pipe) \in Nat /\ Len(pipe') = Len(pipe) - 1
      /\ \A i \in 1 .. Len(pipe') : pipe'[i] = pipe[i + 1]
  BY <1>2, HeadTailProperties, LenProperties, EmptySeq
<1>4. InFlight' \subseteq InFlight
  BY <1>1, CmdInFlight
<1>5. \A i \in 1 .. Len(pipe') : i + 1 \in 1 .. Len(pipe)
  BY <1>3
<1>6. \A i, j \in 1 .. Len(pipe') :
        ~Opens(pipe'[i]) /\ j > i /\ Opens(pipe'[j]) => pipe'[j].id # pipe'[i].id
  <2> SUFFICES ASSUME NEW i \in 1 .. Len(pipe'), NEW j \in 1 .. Len(pipe'), j > i,
                      ~Opens(pipe[i + 1]), Opens(pipe[j + 1])
               PROVE  pipe[j + 1].id # pipe[i + 1].id
    BY <1>3
  <2>1. j + 1 > i + 1
    BY <1>3
  <2> QED
    BY <1>5, <2>1 DEF InOrder
<1>7. \A i \in 1 .. Len(pipe'), v \in Callers :
        ~Opens(pipe'[i]) /\ Opens(req'[v]) => req'[v].id # pipe'[i].id
  BY <1>2, <1>3, <1>5 DEF InOrder
<1> QED
  BY <1>2, <1>4, <1>6, <1>7 DEF InOrder

\* So it is an invariant.
LEMMA InOrderStep == ASSUME TableInv, InOrder, [Next]_vars PROVE InOrder'
<1>1. IInv /\ TypeOK /\ TableTypes /\ TableTypes' /\ alloc_id \in Nat /\ alloc_id' \in Nat
  BY StepEffect DEF TableInv, IInv, TableTypes
<1>2. ASSUME NEW u \in Callers, Call(u) PROVE InOrder'
  BY <1>1, <1>2, CallRequests, CallInOrder
<1>3. ASSUME NEW u \in Callers, send_request(u) PROVE InOrder'
  BY <1>3, SendInOrder
<1>4. CASE \/ listen_socket \/ open_socket
           \/ start_socket \/ send_socket \/ close_socket \/ set_sockopt
  <2>1. \E ops : Cmd(ops)
    BY <1>4 DEF listen_socket, open_socket, start_socket, send_socket, close_socket,
                set_sockopt
  <2> QED
    BY <2>1, CmdInOrder
<1>5. CASE \/ PollCall \/ clear_close_event \/ NoCmd \/ sp_wait \/ sp_wait_fails
           \/ skip_null \/ report_accept \/ forword_message_tcp \/ send_buffer
           \/ UNCHANGED vars
  <2>1. UNCHANGED <<pipe, req>>
    BY <1>5 DEF PollCall, clear_close_event, NoCmd, sp_wait, sp_wait_fails, skip_null,
                report_accept, forword_message_tcp, send_buffer, Dispatch, vars, callVars
  <2>2. InFlight' = InFlight /\ Len(pipe') = Len(pipe)
    BY <2>1, SameInFlight
  <2>3. alloc_id' >= alloc_id
    <3>1. alloc_id' = alloc_id \/ report_accept
      BY <1>5 DEF PollCall, clear_close_event, NoCmd, sp_wait, sp_wait_fails,
                  skip_null, forword_message_tcp, send_buffer, vars
    <3>2. CASE report_accept
      <4>1. \/ alloc_id' = alloc_id \/ alloc_id' = alloc_id + MaxSocket
            \/ \E id, n : Reserves(id, n) /\ alloc_id' = id
        BY <3>2 DEF report_accept
      <4> QED
        BY <1>1, <4>1, SlotsAssumption DEF Reserves
    <3> QED
      BY <1>1, <3>1, <3>2
  <2>4. \A r \in InFlight : r.id =< alloc_id'
    BY <1>1, <2>3, InFlightTypes DEF InOrder
  <2> QED
    BY <2>1, <2>2, <2>4 DEF InOrder
<1> QED
  BY <1>2, <1>3, <1>4, <1>5 DEF Next, Poll

-----------------------------------------------------------------------------
(* A close message is the last word on its id. *)

\* What Finished will be after the step.
FinishedAfter(id) == /\ id =< alloc_id' /\ ClosedAfter(id)
                     /\ \A r \in InFlight' : Opens(r) => r.id # id

\* No step brings a request to open an id that was given out before.
LEMMA NewRequests ==
  ASSUME TableInv, [Next]_vars
  PROVE  /\ alloc_id' >= alloc_id
         /\ \A r \in InFlight' : Opens(r) => r \in InFlight \/ r.id > alloc_id
<1>1. IInv /\ TypeOK /\ TableTypes /\ TableTypes' /\ alloc_id \in Nat /\ Effect
  BY StepEffect DEF TableInv, IInv, TableTypes
<1>2. alloc_id' >= alloc_id
  <2>1. CASE Spent
    BY <2>1 DEF Spent
  <2>2. ASSUME NEW k, GivenBack(k) \/ Started(k) \/ Gone(k) \/ Buffers(k) \/ Drained(k)
        PROVE  alloc_id' >= alloc_id
    BY <1>1, <2>2 DEF GivenBack, Started, Gone, Buffers, Drained
  <2>3. ASSUME NEW k, NEW id, NEW t, Taken(k, id, t) PROVE alloc_id' >= alloc_id
    BY <1>1, <2>3 DEF Taken, TableTypes
  <2>4. ASSUME NEW k, NEW id, NEW f, Opened(k, id, f) PROVE alloc_id' >= alloc_id
    BY <2>4 DEF Opened
  <2> QED
    BY <1>1, <2>1, <2>2, <2>3, <2>4 DEF Effect, Mild, Quiet, Closes
<1>3. ASSUME NEW u \in Callers, Call(u)
      PROVE  \A r \in InFlight' : Opens(r) => r \in InFlight \/ r.id > alloc_id
  <2>1. Requested(u)
    BY <1>1, <1>3, CallRequests
  <2>2. CASE req' = req
    BY <2>1, <2>2, SameInFlight DEF Requested
  <2>3. ASSUME NEW r \in Request, Prepare(u, r), Opens(r) => r.id > alloc_id
        PROVE  \A q \in InFlight' : Opens(q) => q \in InFlight \/ q.id > alloc_id
    BY <1>1, <2>1, <2>3, PrepareInFlight DEF Requested
  <2> QED
    BY <2>1, <2>2, <2>3 DEF Requested
<1>4. ASSUME NEW u \in Callers, send_request(u) PROVE InFlight' = InFlight
  BY <1>1, <1>4, SendInFlight
<1>5. CASE \/ listen_socket \/ open_socket
           \/ start_socket \/ send_socket \/ close_socket \/ set_sockopt
  <2>1. \E ops : Cmd(ops)
    BY <1>5 DEF listen_socket, open_socket, start_socket, send_socket, close_socket,
                set_sockopt
  <2>2. InFlight' \subseteq InFlight
    BY <1>1, <2>1, CmdInFlight
  <2> QED
    BY <1>2, <2>2
<1>6. CASE \/ PollCall \/ clear_close_event \/ NoCmd \/ sp_wait \/ sp_wait_fails
           \/ skip_null \/ report_accept \/ forword_message_tcp \/ send_buffer
           \/ UNCHANGED vars
  <2>1. UNCHANGED <<pipe, req>>
    BY <1>6 DEF PollCall, clear_close_event, NoCmd, sp_wait, sp_wait_fails, skip_null,
                report_accept, forword_message_tcp, send_buffer, Dispatch, vars, callVars
  <2>2. InFlight' = InFlight
    BY <2>1, SameInFlight
  <2> QED
    BY <1>2, <2>2
<1> QED
  BY <1>2, <1>3, <1>4, <1>5, <1>6 DEF Next, Poll

\* An id without a socket and without a request to open it never gets one.
LEMMA StaysFinished ==
  ASSUME TableInv, [Next]_vars, NEW id \in Ids, Finished(id)
  PROVE  FinishedAfter(id)
<1> DEFINE h == Hash(id)
<1>1. /\ IInv /\ TypeOK /\ TableTypes /\ TableTypes'
      /\ alloc_id \in Nat /\ alloc_id' \in Nat /\ id \in Nat
  BY StepEffect, Nothing DEF TableInv, IInv, TableTypes
<1>2. /\ id =< alloc_id /\ (sid[h] # id \/ type[h] \in Unowned) /\ h \in Slots
      /\ \A r \in InFlight : Opens(r) => r.id # id
  BY <1>1, HashInSlots DEF Finished, Closed
<1>3. id =< alloc_id' /\ \A r \in InFlight' : Opens(r) => r.id # id
  BY <1>1, <1>2, NewRequests
<1>4. SUFFICES ClosedAfter(id)
  BY <1>3 DEF FinishedAfter
<1>5. CASE Kept
  BY <1>1, <1>2, <1>5, KeptOwners DEF ClosedAfter
<1>6. ASSUME NEW k \in Slots, NEW n \in Ids, NEW t \in Unowned, Taken(k, n, t)
      PROVE  ClosedAfter(id)
  BY <1>2, <1>6 DEF Taken, Others, ClosedAfter
<1>7. CASE NewSocket
  <2>1. PICK k \in Slots, n \in Ids :
          /\ n > alloc_id
          /\ Taken(k, n, "INVALID") \/ \E f \in Fds : Opened(k, n, f)
    BY <1>7 DEF NewSocket
  <2>2. n # id
    BY <1>1, <1>2, <2>1
  <2>3. CASE \E f \in Fds : Opened(k, n, f)
    BY <1>2, <2>2, <2>3 DEF Opened, Others, ClosedAfter
  <2> QED
    BY <1>6, <2>1, <2>3, Nothing
<1>8. CASE listen_socket \/ open_socket
  <2> DEFINE n == Head(pipe).id
             k == Hash(n)
  <2>1. n # id /\ k \in Slots /\ type[k] = "RESERVE" /\ sid[k] = n
    BY <1>1, <1>2, <1>8, OpenerReserved
  <2>2. CASE h # k
    BY <1>1, <1>2, <1>8, <2>2, OpenerSlot DEF ClosedAfter
  <2>3. CASE h = k
    <3>1. sid' = sid \/ sid' = [sid EXCEPT ![k] = n]
      BY <1>8, <2>1 DEF listen_socket, open_socket, new_fd, slotVars, Killed
    <3>2. sid \in [Slots -> Ids \cup {NoId}] /\ ClosedAfter(id) = (sid'[h] # id \/ type'[h] \in Unowned)
      BY <1>1 DEF TypeOK, ClosedAfter
    <3> HIDE DEF h, n, k
    <3>3. sid'[k] = n
      BY <2>1, <3>1, <3>2
    <3> QED
      BY <2>1, <2>3, <3>2, <3>3
  <2> QED
    BY <2>2, <2>3
<1>9. ASSUME NEW u \in Callers, Call(u) PROVE ClosedAfter(id)
  <2>1. Spent \/ \E k \in Slots, n \in Ids : Taken(k, n, "RESERVE")
    BY <1>1, <1>9, CallEffect
  <2> QED
    BY <1>5, <1>6, <2>1, Nothing DEF Kept, Quiet
<1>10. CASE start_socket \/ send_socket \/ close_socket \/ set_sockopt
  BY <1>1, <1>5, <1>10, CmdEffect
<1>11. CASE skip_null \/ report_accept \/ forword_message_tcp \/ send_buffer
  BY <1>1, <1>5, <1>7, <1>11, EventEffect
<1>12. CASE PollCall \/ clear_close_event \/ NoCmd \/ sp_wait \/ sp_wait_fails
  BY <1>1, <1>5, <1>12, PollEffect DEF Kept, Quiet
<1>13. CASE UNCHANGED vars \/ \E u \in Callers : send_request(u)
  BY <1>2, <1>13 DEF send_request, vars, slotVars, ClosedAfter
<1> QED
  BY <1>8, <1>9, <1>10, <1>11, <1>12, <1>13 DEF Next, Poll

\* A close message is for an id that no longer has a socket, nor a request to
\* open one: force_close has freed the slot, or close_socket found it gone.
LEMMA CloseMessage ==
  ASSUME TableInv, InOrder, [Next]_vars, result' # result, result'.kind = "close"
  PROVE  result'.id \in Ids /\ \E id \in Ids : result'.id = id /\ FinishedAfter(id)
<1>1. /\ IInv /\ TypeOK /\ alloc_id \in Nat /\ type \in [Slots -> Types]
      /\ Silence.kind = "none"
  BY StepEffect DEF TableInv, IInv, TableTypes, TypeOK, Silence
<1>2. ASSUME NEW h \in Slots, force_close(h) PROVE type'[h] \in Unowned
  BY <1>1, <1>2 DEF force_close, Freed, Unowned
<1>3. CASE send_socket \/ close_socket
  <2> DEFINE r == Head(pipe)
             h == Hash(r.id)
  <2>1. PICK ops : Cmd(ops) /\ ops \in {{"D", "P"}, {"K"}}
    BY <1>3 DEF send_socket, close_socket
  <2>2. h \in Slots /\ r.id \in Ids /\ ~Opens(r) /\ alloc_id' = alloc_id
    BY <1>1, <2>1, CmdTypes DEF Cmd, Opens
  <2>3. r \in InFlight /\ InFlight' \subseteq InFlight
    BY <1>1, <2>1, CmdInFlight
  <2>4. \A q \in InFlight : Opens(q) => q.id # r.id
    <3>1. 1 \in 1 .. Len(pipe) /\ r = pipe[1] /\ Len(pipe) \in Nat
      BY <1>1, <2>1, LenProperties, EmptySeq DEF Cmd, TypeOK
    <3>2. ASSUME NEW q \in InFlight, Opens(q) PROVE q.id # r.id
      <4>1. CASE \E u \in Callers : q = req[u]
        BY <2>2, <3>1, <3>2, <4>1 DEF InOrder
      <4>2. ASSUME NEW j \in 1 .. Len(pipe), q = pipe[j] PROVE q.id # r.id
        <5>1. j > 1
          BY <2>2, <3>1, <3>2, <4>2
        <5> QED
          BY <2>2, <3>1, <3>2, <4>2, <5>1 DEF InOrder
      <4> QED
        BY <4>1, <4>2 DEF InFlight
    <3> QED
      BY <3>2
  <2>5. r.id =< alloc_id'
    BY <2>2, <2>3 DEF InOrder
  <2>6. /\ NoAnswer \/ Answer("close", r.id)
        /\ \/ NoAnswer \/ force_close(h)
           \/ (type[h] = "INVALID" \/ sid[h] # r.id) /\ UNCHANGED slotVars
    BY <1>3 DEF send_socket, close_socket, Killed
  <2>7. result' = [kind |-> "close", id |-> r.id] /\ ~NoAnswer
    BY <2>6 DEF NoAnswer, Answer, Report
  <2>8. ClosedAfter(r.id)
    BY <1>2, <2>2, <2>6, <2>7 DEF ClosedAfter, slotVars, Unowned
  <2>9. FinishedAfter(r.id) /\ result'.id = r.id
    BY <2>3, <2>4, <2>5, <2>7, <2>8 DEF FinishedAfter
  <2> QED
    BY <2>2, <2>9
<1>4. CASE forword_message_tcp \/ send_buffer
  <2> DEFINE h == Head(evs).slot
  <2>1. Dispatch({l \in Slots : type[l] # "LISTEN"})
    BY <1>4 DEF forword_message_tcp, send_buffer
  <2>2. h \in Slots /\ UNCHANGED <<pipe, req>>
    BY <2>1 DEF Dispatch
  <2>3. \/ NoAnswer \/ \E kind \in {"data", "error"} : Return(kind, sid[h])
        \/ /\ Return("close", sid[h]) /\ force_close(h)
           /\ type[h] \in Connected \/ out[h] # {}
    <3>1. CASE forword_message_tcp
      BY <3>1 DEF forword_message_tcp
    <3>2. CASE send_buffer
      <4>1. "HALFCLOSE" \in Connected
        BY DEF Connected
      <4>2. \/ out[h] # {} /\ force_close(h) /\ Return("close", sid[h])
            \/ NoAnswer
            \/ IF type[h] = "HALFCLOSE"
               THEN force_close(h) /\ Return("close", sid[h]) ELSE NoAnswer
        BY <3>2 DEF send_buffer, Killed
      <4> QED
        BY <4>1, <4>2
    <3> QED
      BY <1>4, <3>1, <3>2
  <2>4. /\ result' = [kind |-> "close", id |-> sid[h]] /\ force_close(h)
        /\ type[h] \in Connected \/ out[h] # {}
    <3>1. ~NoAnswer
      BY DEF NoAnswer
    <3>2. \A kind \in {"data", "error"} : ~Return(kind, sid[h])
      BY DEF Return, Report
    <3>3. Return("close", sid[h]) => result' = [kind |-> "close", id |-> sid[h]]
      BY DEF Return, Report
    <3> QED
      BY <2>3, <3>1, <3>2, <3>3
  <2>5. type[h] \notin Unowned
    BY <2>2, <2>4 DEF TableInv, WriteInterestKept, Connected, Unowned
  <2>6. PICK id \in Ids : sid[h] = id /\ id =< alloc_id /\ Hash(id) = h
    BY <1>1, <2>2, <2>5 DEF TableInv, IdsFit, TypeOK, Unowned
  <2>7. InFlight' = InFlight /\ \A r \in InFlight : Opens(r) => r.id # id
    <3>1. ASSUME NEW r \in InFlight, Opens(r) PROVE Reserved(r.id)
      BY <1>1, <3>1 DEF InFlight, IInv, ReservedUntilHandled
    <3> QED
      BY <2>2, <2>5, <2>6, <3>1, SameInFlight, Nothing DEF Reserved
  <2>8. alloc_id' = alloc_id /\ ClosedAfter(id)
    <3>1. alloc_id' = alloc_id
      BY <1>4 DEF forword_message_tcp, send_buffer
    <3> QED
      BY <1>2, <2>2, <2>4, <2>6, <3>1 DEF ClosedAfter
  <2>9. FinishedAfter(id) /\ result'.id = id
    BY <2>4, <2>6, <2>7, <2>8 DEF FinishedAfter
  <2> QED
    BY <2>9
<1>5. CASE listen_socket \/ set_sockopt \/ open_socket \/ start_socket
  <2>1. NoAnswer \/ \E id : Answer("open", id) \/ Answer("error", id)
    BY <1>5 DEF listen_socket, set_sockopt, open_socket, start_socket, Killed
  <2> QED
    BY <2>1 DEF NoAnswer, Answer, Report
<1>6. CASE skip_null \/ report_accept
  <2>1. NoAnswer \/ \E id : Return("accept", id) \/ Return("error", id)
    BY <1>6 DEF skip_null, report_accept
  <2> QED
    BY <2>1 DEF NoAnswer, Return, Report
<1>7. CASE \/ (\E u \in Callers : Call(u) \/ send_request(u)) \/ PollCall
           \/ clear_close_event \/ NoCmd \/ sp_wait \/ sp_wait_fails \/ UNCHANGED vars
  <2>1. result' = result \/ result' = Silence
    BY <1>7
    DEF Call, socket_server_listen, socket_server_connect, socket_server_start,
        socket_server_send, socket_server_close, send_request, PollCall,
        clear_close_event, NoCmd, sp_wait, sp_wait_fails, vars, pollVars
  <2> QED
    BY <1>1, <2>1
<1> QED
  BY <1>3, <1>4, <1>5, <1>6, <1>7 DEF Next, Poll

\* The message socket_server_poll has filled in is true of its id as long as it
\* stands there.
Told ==
  /\ pc \in {"loop", "dispatch"} => result = Silence
  /\ result.kind \in {"open", "accept", "data", "close"} => result.id \in Ids
  /\ \A id \in Ids : result.id = id =>
       /\ result.kind \in {"open", "accept", "data"} => ~Closed(id)
       /\ result.kind = "close" => Finished(id)

\* A message that a step leaves standing is still true.
LEMMA StillTold ==
  ASSUME TableInv, [Next]_vars, Told, result' = result,
         result.kind \in {"open", "accept", "data"}, NEW id \in Ids, result.id = id
  PROVE  ~ClosedAfter(id)
<1> DEFINE h == Hash(id)
<1>1. TableTypes /\ h \in Slots
  BY StepEffect, HashInSlots, Nothing
<1>2. sid[h] = id /\ type[h] \notin Unowned
  BY DEF Told, Closed
<1>3. pc \notin {"loop", "dispatch"} /\ result # Silence
  BY DEF Told, Silence
<1>4. ASSUME NEW u \in Callers, Call(u) PROVE ~ClosedAfter(id)
  <2>1. Spent \/ \E k \in Slots, n \in Ids : Taken(k, n, "RESERVE")
    BY <1>1, <1>4, CallEffect
  <2> QED
    BY <1>1, <1>2, <2>1, Nothing DEF Spent, slotVars, Taken, Others, ClosedAfter
<1>5. CASE clear_close_event \/ UNCHANGED vars \/ \E u \in Callers : send_request(u)
  <2>1. UNCHANGED slotVars
    BY <1>5 DEF clear_close_event, send_request, vars
  <2> QED
    BY <1>2, <2>1 DEF slotVars, ClosedAfter
<1>6. CASE PollCall
  BY <1>3, <1>6 DEF PollCall
<1>7. CASE \/ listen_socket \/ open_socket
           \/ start_socket \/ send_socket \/ close_socket \/ set_sockopt
  <2>1. \E ops : Cmd(ops)
    BY <1>7 DEF listen_socket, open_socket, start_socket, send_socket, close_socket,
                set_sockopt
  <2> QED
    BY <1>3, <2>1 DEF Cmd
<1>8. CASE skip_null \/ report_accept \/ forword_message_tcp \/ send_buffer
  <2>1. \E s : Dispatch(s)
    BY <1>8 DEF skip_null, report_accept, forword_message_tcp, send_buffer
  <2> QED
    BY <1>3, <2>1 DEF Dispatch
<1>9. CASE NoCmd \/ sp_wait \/ sp_wait_fails
  BY <1>3, <1>9 DEF NoCmd, sp_wait, sp_wait_fails
<1> QED
  BY <1>4, <1>5, <1>6, <1>7, <1>8, <1>9 DEF Next, Poll

\* socket_server_poll goes on only as long as there is nothing to report.
LEMMA QuietLoop ==
  ASSUME Told, [Next]_vars, pc' \in {"loop", "dispatch"} PROVE result' = Silence
<1>1. CASE \/ listen_socket \/ open_socket
           \/ start_socket \/ send_socket \/ close_socket \/ set_sockopt
  <2>1. \E ops : Cmd(ops)
    BY <1>1 DEF listen_socket, open_socket, start_socket, send_socket, close_socket,
                set_sockopt
  <2>2. NoAnswer \/ \E kind, id : Answer(kind, id)
    BY <1>1 DEF listen_socket, open_socket, start_socket, send_socket, close_socket,
                set_sockopt, Killed
  <2> QED
    BY <2>1, <2>2 DEF Told, Cmd, NoAnswer, Answer
<1>2. CASE skip_null \/ report_accept \/ forword_message_tcp \/ send_buffer
  <2>1. \E s : Dispatch(s)
    BY <1>2 DEF skip_null, report_accept, forword_message_tcp, send_buffer
  <2>2. NoAnswer \/ \E kind, id : Return(kind, id)
    BY <1>2 DEF skip_null, report_accept, forword_message_tcp, send_buffer, Killed
  <2> QED
    BY <2>1, <2>2 DEF Told, Dispatch, NoAnswer, Return
<1>3. CASE \/ (\E u \in Callers : Call(u) \/ send_request(u)) \/ PollCall
           \/ clear_close_event \/ NoCmd \/ sp_wait \/ sp_wait_fails \/ UNCHANGED vars
  BY <1>3
  DEF Told, Call, socket_server_listen, socket_server_connect, socket_server_start,
      socket_server_send, socket_server_close, send_request, PollCall,
      clear_close_event, NoCmd, sp_wait, sp_wait_fails, vars, pollVars
<1> QED
  BY <1>1, <1>2, <1>3 DEF Next, Poll

\* So every message is true when it is returned, and stays true.
LEMMA ToldStep == ASSUME TableInv, InOrder, Told, [Next]_vars PROVE Told'
<1>1. result'.kind = "close" => \E id \in Ids : result'.id = id /\ FinishedAfter(id)
  <2>1. CASE result' = result
    BY <2>1, StaysFinished DEF Told
  <2> QED
    BY <2>1, CloseMessage
<1>2. result'.kind \in {"open", "accept", "data"} =>
        \E id \in Ids : result'.id = id /\ ~ClosedAfter(id)
  <2>1. CASE result' = result
    BY <2>1, StillTold DEF Told
  <2>2. Silence.kind = "none"
    BY DEF Silence
  <2> QED
    BY <2>1, <2>2, NewMessage DEF Heard, Speaks
<1>3. ASSUME NEW id \in Ids
      PROVE  /\ FinishedAfter(id) => Finished(id)'
             /\ ClosedAfter(id) <=> Closed(id)'
  BY DEF FinishedAfter, ClosedAfter, Finished, Closed, Hash
<1>4. pc' \in {"loop", "dispatch"} => result' = Silence
  BY QuietLoop
<1> QED
  BY <1>1, <1>2, <1>3, <1>4 DEF Told

\* The last two hold at the start.
LEMMA InitMessages == Init => InOrder /\ Told
<1> SUFFICES ASSUME Init PROVE InOrder /\ Told
  OBVIOUS
<1>1. Len(pipe) = 0 /\ \A u \in Callers : req[u] = NoRequest
  BY DEF Init
<1>2. \A r : r \notin InFlight
  BY <1>1 DEF InFlight
<1>3. InOrder
  BY <1>1, <1>2 DEF InOrder
<1>4. Told
  BY DEF Init, Told, Silence
<1> QED
  BY <1>3, <1>4

\* SOCKET_CLOSE is the last word on an id.
THEOREM LastWord == Spec => CloseIsFinal
<1> DEFINE Inv == TableInv /\ InOrder /\ Told
<1>1. Inv /\ [Next]_vars => InOrder' /\ Told'
  BY InOrderStep, ToldStep
<1>2. Spec => []Inv
  BY <1>1, InitMessages, TableInvariance, PTL DEF Spec
<1>3. Inv /\ [Next]_vars =>
        \A id \in Ids :
          /\ Finished(id) => /\ Finished(id)'
                             /\ result'.id = id =>
                                  result'.kind \notin {"open", "accept", "data"}
          /\ result' = [kind |-> "close", id |-> id] => Finished(id)'
  <2> SUFFICES ASSUME Inv, [Next]_vars, NEW id \in Ids
               PROVE  /\ Finished(id) => /\ Finished(id)'
                                         /\ result'.id = id =>
                                              result'.kind \notin {"open", "accept", "data"}
                      /\ result' = [kind |-> "close", id |-> id] => Finished(id)'
    OBVIOUS
  <2>1. /\ FinishedAfter(id) => Finished(id)'
        /\ ClosedAfter(id) <=> Closed(id)'
        /\ FinishedAfter(id) => ClosedAfter(id)
    BY DEF FinishedAfter, ClosedAfter, Finished, Closed, Hash
  <2>2. Finished(id) => FinishedAfter(id)
    BY StaysFinished
  <2>3. Told'
    BY <1>1
  <2>4. /\ result'.id = id /\ result'.kind \in {"open", "accept", "data"} => ~Closed(id)'
        /\ result' = [kind |-> "close", id |-> id] => Finished(id)'
    BY <2>3 DEF Told
  <2> QED
    BY <2>1, <2>2, <2>4
<1> QED
  BY <1>2, <1>3, PTL DEF Spec, CloseIsFinal

=============================================================================
