--------------------------- MODULE MCSocketServer ---------------------------
(* Instances of SocketServer for TLC. *)
EXTENDS SocketServer, TLC

\* No action tells two callers apart.  Not for liveness.
Symmetry == Permutations(Callers)

\* A bound: a state in which a descriptor was lost, or the process has stopped,
\* is checked and then not explored on from.  Not for liveness.
NothingLost == leaked = {} /\ aborted = "no"
=============================================================================
