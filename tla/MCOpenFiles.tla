---------------------------- MODULE MCOpenFiles ----------------------------
(* Two processes, each with a terminal, and one regular file. *)
EXTENDS OpenFiles

CONSTANTS p1, p2, f1

MCProcs == {p1, p2}
MCLogins == <<p1, p2>>
MCFile == {f1}

\* How long the lists of the two processes may get.
MC44 == [p \in Procs |-> 4]

\* How far they read.
Far10 == [p \in Procs |-> IF p = p1 THEN 1 ELSE 0]

\* No process calls dup with a descriptor that does not exist.
NoGarbage == [p \in Procs |-> {}]

=============================================================================
