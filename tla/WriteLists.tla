----------------------------- MODULE WriteLists -----------------------------
(***************************************************************************)
(* The two write buffer lists of a socket of socket_server.c, seen from    *)
(* outside: only whether each is empty.  A value is the set of the lists   *)
(* that are not.                                                           *)
(***************************************************************************)
Priorities == {"high", "low"}

\* What is left of the lists o after send_list on high and, if high drained,
\* on low.  A low buffer cut short is raised to high, so that anything may be
\* left once low was not empty.
Left(o) == IF "low" \in o THEN SUBSET Priorities ELSE SUBSET o

Lingers_empty(r, o) == IF r.shutdown THEN {} ELSE Left(o)  \* mutant: no data
Lingers_shut(r, o)  == Left(o) \ {{}}               \* mutant: shutdown ignored
\* What makes close_socket wait: data left, and no shutdown asked for.
Lingers(r, o) == IF r.shutdown THEN {} ELSE Left(o) \ {{}}

=============================================================================
