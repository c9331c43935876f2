---------------------------- MODULE MCTurnTaking ----------------------------
(* The four threads of the program, with two rounds each.                  *)
EXTENDS TurnTaking
=============================================================================
