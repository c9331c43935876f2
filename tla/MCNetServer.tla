----------------------------- MODULE MCNetServer -----------------------------
(* Three slots, one of them the listening socket's, for three connections,  *)
(* the third in the slot of the first; a fourth descriptor, so that an      *)
(* accept may find no slot; and rings that start with two cells and grow,   *)
(* wrapped or not, at the second message.                                   *)
EXTENDS NetServer
==============================================================================
