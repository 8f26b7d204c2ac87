---------------------------- MODULE MCSystemCall ----------------------------
(* Two processes that make all calls. *)
EXTENDS SystemCall, TLC

CONSTANTS p1, p2

MCCallers == {p1, p2}
MCSymmetry == Permutations(MCCallers)

=============================================================================
