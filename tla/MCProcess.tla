----------------------------- MODULE MCProcess -----------------------------
(* A small instance of Process for TLC: two login processes and one more *)
(* descriptor.  A login process that exits leaves a second one for calls  *)
(* of execute, which makes chains of three.                               *)
EXTENDS Process

CONSTANTS p1, p2, p3

MCProcs == {p1, p2, p3}
MCLogins == <<p1, p2>>
MCUids == {0, 1}

=============================================================================
