----------------------------- MODULE MCCtrlPipe -----------------------------
(* Chars of 3 bits and a pipe of eight bytes: lengths that fit a signed char, *)
(* and the lengths open_request lets through.                               *)
EXTENDS CtrlPipe
MCShort == 1 .. CharMax
MCUpTo == 1 .. 2 * CharMax + 1
==============================================================================
