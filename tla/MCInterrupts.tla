---------------------------- MODULE MCInterrupts ----------------------------
(* Two login processes, and one more that either of them can execute. *)
EXTENDS Interrupts

CONSTANTS p1, p2, p3

MCProcs == {p1, p2, p3}
MCLogins == {p1, p2}

=============================================================================
