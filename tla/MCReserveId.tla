----------------------------- MODULE MCReserveId -----------------------------
(* Two or three threads, two slots and 3-bit integers, so that alloc_id    *)
(* wraps many times.                                                       *)
EXTENDS ReserveId, TLC
CONSTANTS t1, t2, t3
MCThreads == {t1, t2, t3}
Symmetry == Permutations(MCThreads)
=============================================================================
