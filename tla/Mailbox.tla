------------------------------- MODULE Mailbox -------------------------------
(***************************************************************************)
(* What net/ promises about the data it reads, whatever its two threads    *)
(* do: each connection has a mailbox, a read puts a message at its end,    *)
(* and the message thread takes each message once, in the order of the     *)
(* reads, and sooner or later all of them, unless the process is ended:    *)
(* a client can do that once something was read from it, by closing its    *)
(* connection and resetting it before the reply.                           *)
(***************************************************************************)
EXTENDS Naturals, Sequences

CONSTANT Conns

VARIABLES
  posted,   \* how many messages were read from each connection
  box,      \* its messages not yet taken; message n of c is <<c, n>>
  taken,    \* the last message taken from it
  ended     \* the process is no more
mvars == <<posted, box, taken, ended>>

MInit ==
  /\ posted = [c \in Conns |-> 0]
  /\ box = [c \in Conns |-> <<>>]
  /\ taken = [c \in Conns |-> <<c, 0>>]
  /\ ended = FALSE

Post(c) ==
  /\ ~ended
  /\ posted' = [posted EXCEPT ![c] = @ + 1]
  /\ box' = [box EXCEPT ![c] = Append(@, <<c, posted[c] + 1>>)]
  /\ UNCHANGED <<taken, ended>>

Take(c) ==
  /\ ~ended /\ box[c] # <<>>
  /\ taken' = [taken EXCEPT ![c] = Head(box[c])]
  /\ box' = [box EXCEPT ![c] = Tail(@)]
  /\ UNCHANGED <<posted, ended>>

\* The reply to a message read from c raises SIGPIPE.
End(c) ==
  /\ ~ended /\ posted[c] > 0 /\ ended' = TRUE
  /\ UNCHANGED <<posted, box, taken>>

MNext == \E c \in Conns : Post(c) \/ Take(c) \/ End(c)

MSpec == MInit /\ [][MNext]_mvars
MFairSpec == MSpec /\ \A c \in Conns : WF_mvars(Take(c))

==============================================================================
