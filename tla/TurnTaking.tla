----------------------------- MODULE TurnTaking -----------------------------
(***************************************************************************)
(* thread_demo/thread_main.c: threads that take turns, by a mutex, a       *)
(* condition variable and global_id, the thread whose turn it is.          *)
(***************************************************************************)
EXTENDS Integers

CONSTANTS
  N,        \* threads (THREAD_COUNT and the 4 of "% 4")
  First,    \* the initial global_id (3)
  Rounds    \* turns each thread takes (10)

ASSUME ThreadAssumption == N \in Nat \ {0} /\ First \in 0 .. N - 1
ASSUME RoundAssumption == Rounds \in Nat

Threads == 0 .. N - 1
Nobody  == -1

VARIABLES
  global_id,
  mutex,     \* the thread that holds it, or Nobody
  waiting,   \* the threads asleep in pthread_cond_wait
  pc, i,     \* where each thread is in thread_func, and its loop counter
  printed    \* history: how many ids are in the log file
vars == <<global_id, mutex, waiting, pc, i, printed>>

Init ==
  /\ global_id = First
  /\ mutex = Nobody /\ waiting = {}
  /\ pc = [t \in Threads |-> IF Rounds = 0 THEN "done" ELSE "lock"]
  /\ i = [t \in Threads |-> 0]
  /\ printed = 0

Goto(t, from, to) == pc[t] = from /\ pc' = [pc EXCEPT ![t] = to]

\* pthread_mutex_lock.
Lock(t) ==
  /\ Goto(t, "lock", "test")
  /\ mutex = Nobody /\ mutex' = t
  /\ UNCHANGED <<global_id, waiting, i, printed>>

\* Not its turn: the mutex is released and the thread sleeps, in one step.
Wait(t) ==
  /\ t # global_id
  /\ Goto(t, "test", "asleep")
  /\ mutex' = Nobody
  /\ waiting' = waiting \cup {t}
  /\ UNCHANGED <<global_id, i, printed>>

\* pthread_cond_wait may return on its own.
Spurious(t) ==
  /\ t \in waiting
  /\ waiting' = waiting \ {t}
  /\ UNCHANGED <<global_id, mutex, pc, i, printed>>

Retest_not == "turn"                          \* mutant: if instead of while
Retest == "test"                              \* the while loop
\* Woken, it takes the mutex again before it looks.
Wake(t) ==
  /\ t \notin waiting
  /\ Goto(t, "asleep", Retest)
  /\ mutex = Nobody /\ mutex' = t
  /\ UNCHANGED <<global_id, waiting, i, printed>>

Enter(t) ==
  /\ t = global_id
  /\ Goto(t, "test", "turn")
  /\ UNCHANGED <<global_id, mutex, waiting, i, printed>>

Following(id) == (id + 1) % N
\* global_id moves on, the id is appended to the log, the mutex is released.
Turn(t) ==
  /\ Goto(t, "turn", "broadcast")
  /\ global_id' = Following(global_id)
  /\ printed' = printed + 1
  /\ mutex' = Nobody
  /\ UNCHANGED <<waiting, i>>

Signalled_one == IF waiting = {} THEN {{}}
                 ELSE {waiting \ {t} : t \in waiting}    \* mutant: cond_signal
\* The threads that stay asleep.
Signalled == {{}}
\* pthread_cond_broadcast, after the mutex is released, then the next round.
Broadcast(t) ==
  /\ Goto(t, "broadcast", IF i[t] + 1 < Rounds THEN "lock" ELSE "done")
  /\ waiting' \in Signalled
  /\ i' = [i EXCEPT ![t] = @ + 1]
  /\ UNCHANGED <<global_id, mutex, printed>>

\* main has joined every thread.
Finished == (\A t \in Threads : pc[t] = "done") /\ UNCHANGED vars

Thread(t) == Lock(t) \/ Wait(t) \/ Wake(t) \/ Enter(t) \/ Turn(t) \/ Broadcast(t)

Next == Finished \/ \E t \in Threads : Thread(t) \/ Spurious(t)
Spec == Init /\ [][Next]_vars

\* Every thread is scheduled.  A mutex promises no order to those who wait for
\* it, but not to pass one over for ever.
FairSpec == Spec /\ \A t \in Threads : SF_vars(Thread(t))

-----------------------------------------------------------------------------
\* Every variable has its type.
TypeOK ==
  /\ global_id \in Threads /\ mutex \in Threads \cup {Nobody}
  /\ waiting \subseteq Threads
  /\ pc \in [Threads -> {"lock", "test", "asleep", "turn", "broadcast", "done"}]
  /\ i \in [Threads -> 0 .. Rounds]
  /\ printed \in Nat

\* The log is First, First + 1, ... modulo N: the thread about to write the next
\* id is the one whose turn it is, and it alone is there; and every variable has
\* its type.
InTurn ==
  /\ TypeOK
  /\ \A t \in Threads :
       pc[t] = "turn" => /\ t = (First + printed) % N
                         /\ mutex = t /\ global_id = t
                         /\ \A u \in Threads : pc[u] = "turn" => u = t

\* No wake-up is lost, though the broadcast comes after the mutex is released:
\* every thread takes all its turns and main ends.
Terminates == <>(printed = N * Rounds /\ \A t \in Threads : pc[t] = "done")

==============================================================================
