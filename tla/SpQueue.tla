------------------------------- MODULE SpQueue -------------------------------
(***************************************************************************)
(* The message queue of net/sp_queue.c: a ring of cap cells that doubles   *)
(* when a push fills it.  Every function holds the lock of its queue       *)
(* throughout, so each is an operator on the queue's value.  Messages are  *)
(* whatever the user puts in.                                              *)
(***************************************************************************)
EXTENDS Integers, Sequences

CONSTANTS
  MinQueueSize,    \* cells of a new queue (MIN_QUEUE_SIZE, 64 in the code)
  Junk             \* what malloc leaves in a cell

ASSUME SizeAssumption == MinQueueSize \in Nat \ {0}

Ring(Msg) ==
  UNION {[head : 0 .. c - 1, tail : 0 .. c - 1, cap : {c},
          queue : [0 .. c - 1 -> Msg \cup {Junk}]] : c \in Nat \ {0}}

create_message_queue ==
  [head |-> 0, tail |-> 0, cap |-> MinQueueSize,
   queue |-> [i \in 0 .. MinQueueSize - 1 |-> Junk]]

\* The index after i in the ring of mq.
After(mq, i) == IF i + 1 >= mq.cap THEN 0 ELSE i + 1

Copied_straight(mq, i) == mq.queue[i]        \* mutant: head is not added
\* What expand_queue copies to cell i.
Copied(mq, i) == mq.queue[(mq.head + i) % mq.cap]

expand_queue(mq) ==
  [head |-> 0, tail |-> mq.cap, cap |-> 2 * mq.cap,
   queue |-> [i \in 0 .. 2 * mq.cap - 1 |->
                IF i < mq.cap THEN Copied(mq, i) ELSE Junk]]

Stored(mq, m) ==
  [mq EXCEPT !.queue = [@ EXCEPT ![mq.tail] = m], !.tail = After(mq, mq.tail)]

sp_mq_push(mq, m) ==
  IF Stored(mq, m).tail = mq.head THEN expand_queue(Stored(mq, m))
                                  ELSE Stored(mq, m)

\* sp_mq_pop hands out First and advances head; it never looks whether the queue
\* is empty.
First(mq) == mq.queue[mq.head]
sp_mq_pop(mq) == [mq EXCEPT !.head = After(mq, mq.head)]

sp_mq_length(mq) ==
  IF mq.tail < mq.head THEN mq.tail - mq.head + mq.cap ELSE mq.tail - mq.head

\* The messages in the queue, the next to be popped first.
Contents(mq) ==
  [i \in 1 .. sp_mq_length(mq) |->
     mq.queue[IF mq.head + i - 1 < mq.cap THEN mq.head + i - 1
              ELSE mq.head + i - 1 - mq.cap]]

==============================================================================
