--------------------------- MODULE ReserveIdProofs ---------------------------
(* reserve_id never gives two threads the same slot, for any number of     *)
(* threads and slots and any width of int.                                 *)
EXTENDS ReserveId, TLAPS

\* HASH_ID of an id that is not negative is an index of the table.
LEMMA HashInSlots ==
  \A n \in Nat : Hash(n) \in Slots
  BY SocketAssumption, SMT DEF Hash, Slots

\* The increment and the mask stay within an int, and the mask is not negative.
LEMMA IntSteps ==
  \A n \in Int32 : /\ Inc(n) \in Int32
                   /\ Mask(n) \in Int32 /\ Mask(n) >= 0
  BY IntAssumption, SMT DEF Int32, Inc, Mask

\* Initially no thread holds a slot, and every slot is free.
LEMMA InitIInv == Init => IInv
<1> SUFFICES ASSUME Init PROVE IInv
  OBVIOUS
<1> USE DEF Init
<1>1. TypeOK
  BY IntAssumption, SocketAssumption, SMT DEF TypeOK, Int32
<1>2. SlotsExclusive /\ IdMatchesSlot
  BY SMT DEF SlotsExclusive, IdMatchesSlot, Owns
<1> QED
  BY <1>1, <1>2 DEF IInv

\* Types, and the sign of ids under test, are kept by every step.
LEMMA TypeStep == TypeOK /\ [Next]_vars => TypeOK'
<1> SUFFICES ASSUME TypeOK, [Next]_vars PROVE TypeOK'
  OBVIOUS
<1> USE SocketAssumption DEF TypeOK, Goto
<1>1. ASSUME NEW t \in Threads, Begin(t) PROVE TypeOK'
  BY <1>1, SMT DEF Begin
<1>2. ASSUME NEW t \in Threads, AtomInc(t) PROVE TypeOK'
  <2> DEFINE n == Inc(alloc_id)
  <2>1. n \in Int32
    BY IntSteps
  <2> HIDE DEF n
  <2>2. /\ alloc_id' = n /\ id' = [id EXCEPT ![t] = n]
        /\ pc' = [pc EXCEPT ![t] = IF n < 0 THEN "and" ELSE "look"]
        /\ UNCHANGED <<type, sid, i>>
    BY <1>2 DEF AtomInc, n
  <2> QED
    BY <2>1, <2>2, IntAssumption, SMT DEF Int32
<1>3. ASSUME NEW t \in Threads, AtomAnd(t) PROVE TypeOK'
  <2> DEFINE n == Mask(alloc_id)
  <2>1. n \in Int32 /\ n >= 0
    BY IntSteps
  <2> HIDE DEF n
  <2>2. /\ alloc_id' = n /\ id' = [id EXCEPT ![t] = n]
        /\ pc' = [pc EXCEPT ![t] = "look"]
        /\ UNCHANGED <<type, sid, i>>
    BY <1>3 DEF AtomAnd, n
  <2> QED
    BY <2>1, <2>2, SMT
<1>4. ASSUME NEW t \in Threads, Look(t) PROVE TypeOK'
  BY <1>4, SMT DEF Look
<1>5. ASSUME NEW t \in Threads, AtomCas(t) PROVE TypeOK'
  BY <1>5, SMT DEF AtomCas
<1>6. ASSUME NEW t \in Threads, SetId(t) PROVE TypeOK'
  <2> DEFINE k == Hash(id[t])
  <2> HIDE DEF k
  <2>1. /\ sid' = [sid EXCEPT ![k] = id[t]]
        /\ pc[t] = "setid" /\ pc' = [pc EXCEPT ![t] = "done"]
        /\ UNCHANGED <<alloc_id, type, id, i>>
    BY <1>6 DEF SetId, k
  <2>2. \A u \in Threads :
          pc'[u] \in {"look", "cas", "setid", "done"} => id'[u] >= 0
    BY <2>1
  <2>3. pc' \in [Threads -> {"idle", "inc", "and", "look", "cas", "setid", "done"}]
    BY <2>1
  <2>4. type' \in [Slots -> {"INVALID", "RESERVE"}] /\ sid' \in [Slots -> Int32]
    BY <2>1
  <2> QED
    BY <2>1, <2>2, <2>3, <2>4
<1>7. ASSUME NEW t \in Threads, Release(t) PROVE TypeOK'
  <2> DEFINE k == Hash(id[t])
  <2> HIDE DEF k
  <2>1. /\ type' = [type EXCEPT ![k] = "INVALID"]
        /\ pc[t] = "done" /\ pc' = [pc EXCEPT ![t] = "idle"]
        /\ UNCHANGED <<alloc_id, sid, id, i>>
    BY <1>7 DEF Release, k
  <2>2. \A u \in Threads :
          pc'[u] \in {"look", "cas", "setid", "done"} => id'[u] >= 0
    BY <2>1
  <2>3. pc' \in [Threads -> {"idle", "inc", "and", "look", "cas", "setid", "done"}]
    BY <2>1
  <2>4. type' \in [Slots -> {"INVALID", "RESERVE"}] /\ sid' \in [Slots -> Int32]
    BY <2>1
  <2> QED
    BY <2>1, <2>2, <2>3, <2>4
<1>8. CASE UNCHANGED vars
  BY <1>8, SMT DEF vars
<1> QED
  BY <1>1, <1>2, <1>3, <1>4, <1>5, <1>6, <1>7, <1>8 DEF Next, Step

\* What the slots of the threads that own one look like after any step.
LEMMA OwnersStep ==
  IInv /\ [Next]_vars => SlotsExclusive' /\ IdMatchesSlot'
<1> SUFFICES ASSUME IInv, [Next]_vars PROVE SlotsExclusive' /\ IdMatchesSlot'
  OBVIOUS
<1>t. TypeOK /\ SlotsExclusive /\ IdMatchesSlot
  BY DEF IInv
<1>h. \A t \in Threads : Owns(t) \/ pc[t] = "cas" =>
        id[t] \in Nat /\ Hash(id[t]) \in Slots
  <2> SUFFICES ASSUME NEW t \in Threads, Owns(t) \/ pc[t] = "cas"
               PROVE id[t] \in Nat /\ Hash(id[t]) \in Slots
    OBVIOUS
  <2>1. id[t] \in Nat
    BY <1>t, IntAssumption, SMT DEF TypeOK, Owns, Int32
  <2> QED
    BY <2>1, HashInSlots
<1> USE DEF Goto, SlotsExclusive, IdMatchesSlot, Owns
\* Steps of a thread that owns no slot before or after, and touches no slot.
<1>1. ASSUME NEW t \in Threads, Begin(t) \/ AtomInc(t) \/ AtomAnd(t) \/ Look(t)
      PROVE SlotsExclusive' /\ IdMatchesSlot'
  <2>1. /\ UNCHANGED <<type, sid>>
        /\ pc[t] \notin {"setid", "done"} /\ pc'[t] \notin {"setid", "done"}
        /\ \A u \in Threads \ {t} : pc'[u] = pc[u] /\ id'[u] = id[u]
    BY <1>1, <1>t, SMT DEF Begin, AtomInc, AtomAnd, Look, TypeOK
  <2>2. \A u \in Threads : Owns(u)' => Owns(u) /\ pc'[u] = pc[u] /\ id'[u] = id[u]
    BY <2>1
  <2> QED
    BY <2>1, <2>2, <1>t, SMT DEF Hash
<1>5. ASSUME NEW t \in Threads, AtomCas(t)
      PROVE SlotsExclusive' /\ IdMatchesSlot'
  <2>1. CASE type[Hash(id[t])] = "INVALID"
    <3> DEFINE k == Hash(id[t])
    <3>1. k \in Slots /\ type[k] = "INVALID"
      BY <1>5, <1>h, <2>1 DEF AtomCas
    <3>2. \A u \in Threads : Owns(u) => Hash(id[u]) # k
      BY <3>1, <1>t
    <3> HIDE DEF k
    <3>3. /\ UNCHANGED <<sid, id>>
          /\ type' = [type EXCEPT ![k] = "RESERVE"]
          /\ pc' = [pc EXCEPT ![t] = "setid"]
      BY <1>5, <2>1 DEF AtomCas, k
    <3>4. \A u \in Threads : Owns(u)' => Hash(id[u])' \in Slots
      BY <3>1, <3>3, <1>t, <1>h, <2>1, SMT DEF TypeOK, k, Hash
    <3>5. SlotsExclusive'
      BY <3>2, <3>3, <1>t, SMT DEF TypeOK, Hash, k
    <3>6. IdMatchesSlot'
      BY <3>1, <3>3, <3>4, <1>t, <1>h, SMT DEF TypeOK, Hash, k
    <3> QED
      BY <3>5, <3>6
  <2>2. CASE type[Hash(id[t])] # "INVALID"
    BY <1>5, <1>t, <2>2, SMT DEF AtomCas, TypeOK, Hash
  <2> QED
    BY <2>1, <2>2
<1>6. ASSUME NEW t \in Threads, SetId(t)
      PROVE SlotsExclusive' /\ IdMatchesSlot'
  <2> DEFINE k == Hash(id[t])
  <2>1. k \in Slots /\ id[t] >= 0
    BY <1>6, <1>h DEF SetId
  <2>2. \A u \in Threads \ {t} : Owns(u) => Hash(id[u]) # k
    BY <1>6, <1>t DEF SetId
  <2>3. /\ UNCHANGED <<type, id>>
        /\ sid' = [sid EXCEPT ![k] = id[t]]
        /\ pc[t] = "setid" /\ pc' = [pc EXCEPT ![t] = "done"]
    BY <1>6 DEF SetId
  <2>4. SlotsExclusive'
    BY <2>3, <1>t, SMT DEF TypeOK, Hash
  <2>5. ASSUME NEW u \in Threads
        PROVE /\ (pc[u] = "done" => id[u] >= 0 /\ sid[Hash(id[u])] = id[u])'
              /\ (Owns(u) => type[Hash(id[u])] = "RESERVE")'
    <3>1. CASE u = t
      BY <3>1, <2>1, <2>3, <1>t, SMT DEF TypeOK, Hash
    <3>2. CASE u # t
      <4> DEFINE j == Hash(id[u])
      <4>1. Hash(id[u])' = j /\ pc'[u] = pc[u]
        BY <3>2, <2>3, <1>t DEF Hash, TypeOK
      <4>2. Owns(u) => j # k /\ j \in Slots
        BY <3>2, <2>2, <1>h
      <4> HIDE DEF j, k
      <4>3. Owns(u) => sid'[j] = sid[j]
        BY <4>2, <2>3, <1>t DEF TypeOK
      <4> QED
        BY <4>1, <4>2, <4>3, <2>3, <1>t DEF j
    <3> QED
      BY <3>1, <3>2
  <2> QED
    BY <2>4, <2>5
<1>7. ASSUME NEW t \in Threads, Release(t)
      PROVE SlotsExclusive' /\ IdMatchesSlot'
  <2> DEFINE k == Hash(id[t])
  <2>2. \A u \in Threads \ {t} : Owns(u) => Hash(id[u]) # k
    BY <1>7, <1>t DEF Release
  <2> HIDE DEF k
  <2>3. /\ UNCHANGED <<sid, id>>
        /\ type' = [type EXCEPT ![k] = "INVALID"]
        /\ pc' = [pc EXCEPT ![t] = "idle"]
    BY <1>7 DEF Release, k
  <2>4. SlotsExclusive'
    BY <2>3, <1>t, SMT DEF TypeOK, Hash
  <2>5. IdMatchesSlot'
    BY <2>2, <2>3, <1>t, <1>h, SMT DEF TypeOK, Hash
  <2> QED
    BY <2>4, <2>5
<1>8. CASE UNCHANGED vars
  BY <1>8, <1>t, SMT DEF vars, Hash
<1> QED
  BY <1>1, <1>5, <1>6, <1>7, <1>8 DEF Next, Step

\* The invariant holds in every reachable state.
THEOREM Invariance == Spec => []IInv
<1>1. IInv /\ [Next]_vars => IInv'
  BY TypeStep, OwnersStep DEF IInv
<1> QED
  BY InitIInv, <1>1, PTL DEF Spec

\* reserve_id keeps its variables in their types: ids never leave an int and
\* the ones it returns are not negative.
THEOREM TypeCorrect == Spec => []TypeOK
  BY Invariance, PTL DEF IInv

\* No two threads that reserve_id has given a slot have the same one.
THEOREM Exclusion == Spec => []SlotsExclusive
  BY Invariance, PTL DEF IInv

\* The slot of an id that reserve_id returned carries that id and is not free.
THEOREM ReservedSlot == Spec => []IdMatchesSlot
  BY Invariance, PTL DEF IInv

=============================================================================
