------------------------------ MODULE MCShell ------------------------------
(* Two terminals and one file besides users.txt and a program. *)
EXTENDS Shell

CONSTANTS p1, p2, c1, c2, f1, us, im

MCProcs == {p1, p2, c1, c2}
MCLogins == <<p1, p2>>
MCFiles == {f1, us, im}
MCReadable == {f1, us}
MCWritable == {f1}
MCEntries == [p \in Procs |-> IF p = c1 THEN 8 ELSE IF p = c2 THEN 6 ELSE 4]
MCOffsets == [p \in Procs |-> 0]
NoGarbage == [p \in Procs |-> {}]

=============================================================================
