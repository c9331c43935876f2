-------------------------- MODULE TurnTakingProofs --------------------------
(* The threads of thread_main.c write their ids in turn, for any number of  *)
(* threads and rounds.                                                      *)
EXTENDS TurnTaking, TLAPS

\* The remainder of a sum whose first term is a multiple.
LEMMA Remainder ==
  ASSUME NEW n \in Nat \ {0}, NEW q \in Nat, NEW r \in 0 .. n - 1
  PROVE  (n * q + r) % n = r
  BY SMT

\* Following moves on by one modulo N.
LEMMA FollowingCounts ==
  ASSUME NEW x \in Nat PROVE Following(x % N) = (x + 1) % N
<1> DEFINE q == x \div N
           r == x % N
<1>1. N \in Nat \ {0}
  BY ThreadAssumption
<1>2. x = N * q + r
  BY <1>1, Z3T(30)
<1>3. r \in 0 .. N - 1 /\ q \in Nat
  BY <1>1, SMT
<1>4. Following(x % N) = (r + 1) % N
  BY DEF Following
<1> HIDE DEF q, r
<1>5. CASE r + 1 < N
  <2>1. r + 1 \in 0 .. N - 1 /\ x + 1 = N * q + (r + 1)
    BY <1>1, <1>2, <1>3, <1>5, SMT
  <2>2. (x + 1) % N = r + 1
    BY <1>1, <1>3, <2>1, Remainder
  <2>3. (N * 0 + (r + 1)) % N = r + 1 /\ N * 0 + (r + 1) = r + 1
    BY <1>1, <2>1, Remainder, SMT
  <2> QED
    BY <1>4, <2>2, <2>3
<1>6. CASE r + 1 = N
  <2>1. x + 1 = N * (q + 1) + 0 /\ r + 1 = N * 1 + 0 /\ 0 \in 0 .. N - 1 /\ q + 1 \in Nat
    BY <1>1, <1>2, <1>3, <1>6, SMT
  <2>2. (x + 1) % N = 0 /\ (r + 1) % N = 0
    BY <1>1, <2>1, Remainder
  <2> QED
    BY <1>4, <2>2
<1> QED
  BY <1>1, <1>3, <1>5, <1>6, SMT

-----------------------------------------------------------------------------
(* The invariant: global_id counts the ids in the log, whoever is between    *)
(* pthread_mutex_lock and the unlock holds the mutex, and only the thread    *)
(* whose turn it is writes.                                                  *)

Counts == global_id = (First + printed) % N

\* The mutex protects the test of global_id and the write.
Protected == \A t \in Threads : pc[t] \in {"test", "turn"} => mutex = t

\* No thread starts a round it does not have.
InRound == \A t \in Threads : pc[t] # "done" => i[t] < Rounds

\* A thread that saw its turn still has it.
TurnHeld == \A t \in Threads : pc[t] = "turn" => global_id = t

TInv == TypeOK /\ Counts /\ Protected /\ InRound /\ TurnHeld

\* It is what InTurn says, and more.
LEMMA TurnsImply == TInv => InTurn
  BY DEF TInv, InTurn, Counts, Protected, TurnHeld

\* It holds at the start.
LEMMA InitTurns == Init => TInv
<1> SUFFICES ASSUME Init PROVE TInv
  OBVIOUS
<1>1. /\ N \in Nat \ {0} /\ First \in 0 .. N - 1 /\ Rounds \in Nat /\ 0 \in Nat
  BY ThreadAssumption, RoundAssumption
<1>2. TypeOK
  BY <1>1 DEF Init, TypeOK, Threads, Nobody
<1>3. Counts
  <2>1. (N * 0 + First) % N = First /\ N * 0 + First = First + 0
    BY <1>1, Remainder
  <2> QED
    BY <2>1 DEF Init, Counts
<1>4. Protected /\ InRound /\ TurnHeld
  BY <1>1 DEF Init, Protected, InRound, TurnHeld
<1> QED
  BY <1>2, <1>3, <1>4 DEF TInv

\* Every variable keeps its type.
LEMMA TypeStep == TInv /\ [Next]_vars => TypeOK'
<1> SUFFICES ASSUME TInv, [Next]_vars PROVE TypeOK'
  OBVIOUS
<1> USE DEF TInv, TypeOK, Goto
<1>1. ASSUME NEW t \in Threads, Lock(t) \/ Wait(t) \/ Wake(t) \/ Enter(t) \/ Spurious(t)
      PROVE  TypeOK'
  BY <1>1 DEF Lock, Wait, Wake, Enter, Spurious, Retest
<1>2. ASSUME NEW t \in Threads, Turn(t) PROVE TypeOK'
  <2>1. Following(global_id) \in Threads
    BY ThreadAssumption DEF Following, Threads
  <2> QED
    BY <1>2, <2>1 DEF Turn
<1>3. ASSUME NEW t \in Threads, Broadcast(t) PROVE TypeOK'
  <2>1. i[t] + 1 \in 0 .. Rounds
    BY <1>3, RoundAssumption DEF Broadcast, InRound
  <2> QED
    BY <1>3, <2>1 DEF Broadcast, Signalled
<1>4. CASE UNCHANGED vars
  BY <1>4 DEF vars
<1> QED
  BY <1>1, <1>2, <1>3, <1>4 DEF Next, Thread, Finished

\* The rest of the invariant is kept too.
LEMMA TurnStep == TInv /\ [Next]_vars => TInv'
<1> SUFFICES ASSUME TInv, [Next]_vars
             PROVE  Counts' /\ Protected' /\ InRound' /\ TurnHeld'
  BY TypeStep DEF TInv
<1>1. /\ pc \in [Threads -> {"lock", "test", "asleep", "turn", "broadcast", "done"}]
      /\ i \in [Threads -> 0 .. Rounds] /\ Rounds \in Nat /\ Nobody \notin Threads
  BY RoundAssumption DEF TInv, TypeOK, Threads, Nobody
<1>2. ASSUME NEW t \in Threads, Lock(t) \/ Wait(t) \/ Wake(t) \/ Enter(t) \/ Spurious(t)
      PROVE  Counts' /\ Protected' /\ InRound' /\ TurnHeld'
  <2>1. UNCHANGED <<global_id, printed, i>>
    BY <1>2 DEF Lock, Wait, Wake, Enter, Spurious
  <2>2. Protected' /\ TurnHeld'
    BY <1>1, <1>2, <2>1
    DEF Lock, Wait, Wake, Enter, Spurious, Goto, Retest, TInv, Protected, TurnHeld
  <2>3. InRound'
    BY <1>1, <1>2, <2>1
    DEF Lock, Wait, Wake, Enter, Spurious, Goto, Retest, TInv, InRound
  <2> QED
    BY <2>1, <2>2, <2>3 DEF TInv, Counts
<1>3. ASSUME NEW t \in Threads, Turn(t)
      PROVE  Counts' /\ Protected' /\ InRound' /\ TurnHeld'
  <2>1. /\ pc[t] = "turn" /\ pc' = [pc EXCEPT ![t] = "broadcast"] /\ i' = i
        /\ global_id' = Following(global_id) /\ printed' = printed + 1
    BY <1>3 DEF Turn, Goto
  <2>2. \A u \in Threads \ {t} : pc[u] \notin {"test", "turn"}
    BY <2>1 DEF TInv, Protected
  <2>3. Counts'
    <3>1. First + printed \in Nat /\ First + (printed + 1) = (First + printed) + 1
      BY ThreadAssumption DEF TInv, TypeOK
    <3> QED
      BY <2>1, <3>1, FollowingCounts DEF TInv, Counts
  <2>4. Protected' /\ TurnHeld' /\ InRound'
    BY <1>1, <2>1, <2>2 DEF TInv, Protected, TurnHeld, InRound
  <2> QED
    BY <2>3, <2>4
<1>4. ASSUME NEW t \in Threads, Broadcast(t)
      PROVE  Counts' /\ Protected' /\ InRound' /\ TurnHeld'
  <2>1. /\ UNCHANGED <<global_id, mutex, printed>>
        /\ i' = [i EXCEPT ![t] = i[t] + 1]
        /\ pc' = [pc EXCEPT ![t] = IF i[t] + 1 < Rounds THEN "lock" ELSE "done"]
    BY <1>4 DEF Broadcast, Goto
  <2>2. Protected' /\ TurnHeld'
    BY <1>1, <2>1 DEF TInv, Protected, TurnHeld
  <2>3. InRound'
    BY <1>1, <2>1 DEF TInv, InRound
  <2> QED
    BY <2>1, <2>2, <2>3 DEF TInv, Counts
<1>5. CASE UNCHANGED vars
  BY <1>5 DEF vars, TInv, Counts, Protected, InRound, TurnHeld
<1> QED
  BY <1>2, <1>3, <1>4, <1>5 DEF Next, Thread, Finished

\* However many threads there are and however the scheduler runs them, the ids
\* in the log go round in order: the thread about to write has the mutex, it is
\* its turn, and no other is there.
THEOREM TakesTurns == Spec => []InTurn
<1>1. Spec => []TInv
  BY InitTurns, TurnStep, PTL DEF Spec
<1> QED
  BY <1>1, TurnsImply, PTL

=============================================================================
