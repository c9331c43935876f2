---------------------------- MODULE MCWriteQueue ----------------------------
(* WriteQueue with messages of 2, 1, 2, 3 and 1 bytes: some that a short   *)
(* write can cut, and some that it cannot.                                 *)
EXTENDS WriteQueue

MCSize(m) == <<2, 1, 2, 3, 1>>[m]
=============================================================================
