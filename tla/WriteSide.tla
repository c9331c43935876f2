------------------------------ MODULE WriteSide ------------------------------
(***************************************************************************)
(* What SocketServer assumes of the write side of one socket: the steps of *)
(* its send_socket, close_socket, send_buffer and forword_message_tcp that *)
(* touch the write buffer lists, for a single slot.  WriteQueue, which has *)
(* the contents of the lists, implements it.                               *)
(***************************************************************************)
EXTENDS WriteLists

VARIABLES
  type,        \* CONNECTED, HALFCLOSE or INVALID
  out,         \* which of the two lists are not empty
  epollout     \* EPOLLOUT is asked for
view == <<type, out, epollout>>

Fresh == type = "CONNECTED" /\ out = {} /\ epollout = FALSE

Closes == type # "INVALID" /\ type' = "INVALID" /\ out' = {} /\ epollout' = FALSE

\* With both lists empty a send writes at once and keeps the rest in high.
Sends ==
  /\ type = "CONNECTED"
  /\ \/ out = {} /\ out' = {"high"} /\ epollout' = TRUE
     \/ out # {} /\ \E p \in Priorities : out' = out \cup {p} /\ UNCHANGED epollout
  /\ UNCHANGED type

Lingering ==
  /\ type # "INVALID" /\ type' = "HALFCLOSE"
  /\ out' \in Lingers([shutdown |-> FALSE], out)
  /\ UNCHANGED epollout

\* On a write event.  The drained socket loses its EPOLLOUT only when low was
\* empty before.
Flushes ==
  /\ type # "INVALID" /\ epollout
  /\ out' \in Left(out)
  /\ out' # {} \/ "low" \in out
  /\ UNCHANGED <<type, epollout>>

Drains ==
  /\ type = "CONNECTED" /\ epollout /\ "low" \notin out
  /\ out' = {} /\ epollout' = FALSE
  /\ UNCHANGED type

WriteSideSpec ==
  Fresh /\ [][Closes \/ Sends \/ Lingering \/ Flushes \/ Drains]_view

==============================================================================
