------------------------------ MODULE ReserveId ------------------------------
(***************************************************************************)
(* reserve_id of skynet_net_demo/socket_server.c, one atomic operation at  *)
(* a time, as threads that listen, connect and accept run it at once: the  *)
(* increment of alloc_id, its wrap back from the negative numbers, the     *)
(* look at the slot's type, the compare-and-swap, and the two plain stores *)
(* that give the slot its id and descriptor.                               *)
(***************************************************************************)
EXTENDS Integers

CONSTANTS
  Threads,
  MaxSocket,    \* slots
  MaxInt        \* the largest int, 2^31 - 1 in the code

ASSUME SocketAssumption == MaxSocket \in Nat \ {0}
ASSUME IntAssumption    == MaxInt \in Nat

Slots   == 0 .. MaxSocket - 1
Int32   == -MaxInt - 1 .. MaxInt
Hash(id) == id % MaxSocket

VARIABLES
  alloc_id,
  type,         \* INVALID or RESERVE; a later type of the slot is RESERVE here
  sid,          \* s->id
  pc,           \* where each thread is in reserve_id
  id,           \* the local id of each thread
  i             \* the loop counter of each thread
vars == <<alloc_id, type, sid, pc, id, i>>

Init ==
  /\ alloc_id = 0
  /\ type = [k \in Slots |-> "INVALID"]
  /\ sid = [k \in Slots |-> -1]
  /\ pc = [t \in Threads |-> "idle"]
  /\ id = [t \in Threads |-> 0]
  /\ i = [t \in Threads |-> 0]

Goto(t, from, to) == pc[t] = from /\ pc' = [pc EXCEPT ![t] = to]

\* int arithmetic of __sync_add_and_fetch, which wraps, and of the mask.
Inc(n)  == IF n = MaxInt THEN -MaxInt - 1 ELSE n + 1
Mask_not(n) == n                                 \* mutant: & 0xffffffff
Mask(n) == IF n < 0 THEN n + MaxInt + 1 ELSE n

Begin(t) ==
  /\ Goto(t, "idle", "inc")
  /\ i' = [i EXCEPT ![t] = 0]
  /\ UNCHANGED <<alloc_id, type, sid, id>>

AtomInc(t) ==
  /\ Goto(t, "inc", IF Inc(alloc_id) < 0 THEN "and" ELSE "look")
  /\ alloc_id' = Inc(alloc_id)
  /\ id' = [id EXCEPT ![t] = Inc(alloc_id)]
  /\ UNCHANGED <<type, sid, i>>

AtomAnd(t) ==
  /\ Goto(t, "and", "look")
  /\ alloc_id' = Mask(alloc_id)
  /\ id' = [id EXCEPT ![t] = Mask(alloc_id)]
  /\ UNCHANGED <<type, sid, i>>

\* The slot is taken: the next try, or -1 after the last.
Look(t) ==
  /\ \/ /\ type[Hash(id[t])] = "INVALID"
        /\ Goto(t, "look", "cas") /\ UNCHANGED i
     \/ /\ type[Hash(id[t])] # "INVALID"
        /\ \/ /\ i[t] + 1 < MaxSocket
              /\ Goto(t, "look", "inc") /\ i' = [i EXCEPT ![t] = @ + 1]
           \/ /\ i[t] + 1 = MaxSocket
              /\ Goto(t, "look", "idle") /\ UNCHANGED i
  /\ UNCHANGED <<alloc_id, type, sid, id>>

\* The compare-and-swap; when another thread was faster, the try is not counted.
AtomCas_store(t) ==                              \* mutant: a plain store
  /\ Goto(t, "cas", "setid")
  /\ type' = [type EXCEPT ![Hash(id[t])] = "RESERVE"]
  /\ UNCHANGED <<alloc_id, sid, id, i>>
AtomCas(t) ==
  /\ \/ /\ type[Hash(id[t])] = "INVALID"
        /\ type' = [type EXCEPT ![Hash(id[t])] = "RESERVE"]
        /\ Goto(t, "cas", "setid")
     \/ /\ type[Hash(id[t])] # "INVALID"
        /\ Goto(t, "cas", "inc") /\ UNCHANGED type
  /\ UNCHANGED <<alloc_id, sid, id, i>>

\* s->id = id; s->fd = -1; return id.
SetId(t) ==
  /\ Goto(t, "setid", "done")
  /\ sid' = [sid EXCEPT ![Hash(id[t])] = id[t]]
  /\ UNCHANGED <<alloc_id, type, id, i>>

\* The socket that got the slot is closed: s->type = SOCKET_TYPE_INVALID.
Release(t) ==
  /\ Goto(t, "done", "idle")
  /\ type' = [type EXCEPT ![Hash(id[t])] = "INVALID"]
  /\ UNCHANGED <<alloc_id, sid, id, i>>

Step(t) ==
  \/ Begin(t) \/ AtomInc(t) \/ AtomAnd(t) \/ Look(t) \/ AtomCas(t)
  \/ SetId(t) \/ Release(t)

Next == \E t \in Threads : Step(t)

Spec == Init /\ [][Next]_vars

-----------------------------------------------------------------------------
Owns(t) == pc[t] \in {"setid", "done"}

\* Every variable has its type; an id under test is never negative.
TypeOK ==
  /\ alloc_id \in Int32
  /\ type \in [Slots -> {"INVALID", "RESERVE"}]
  /\ sid \in [Slots -> Int32]
  /\ pc \in [Threads -> {"idle", "inc", "and", "look", "cas", "setid", "done"}]
  /\ id \in [Threads -> Int32]
  /\ i \in [Threads -> 0 .. MaxSocket - 1]
  /\ \A t \in Threads : pc[t] \in {"look", "cas", "setid", "done"} => id[t] >= 0

\* No two threads are given the same slot at once, however their increments,
\* wraps, looks and swaps interleave.
SlotsExclusive ==
  \A t, u \in Threads : t # u /\ Owns(t) /\ Owns(u) => Hash(id[t]) # Hash(id[u])

\* An id that was returned is not negative, is the one its slot carries, and
\* its slot is not free, until the socket is closed: handlers that look the id
\* up find it.
IdMatchesSlot ==
  \A t \in Threads :
    /\ pc[t] = "done" => id[t] >= 0 /\ sid[Hash(id[t])] = id[t]
    /\ Owns(t) => type[Hash(id[t])] = "RESERVE"

\* The invariant the proofs are about.
IInv == TypeOK /\ SlotsExclusive /\ IdMatchesSlot

=============================================================================
