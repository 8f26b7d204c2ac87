----------------------------- MODULE MCKeyboard -----------------------------
(* Two processes that read, on two screens. *)
EXTENDS Keyboard, TLC

CONSTANTS p1, p2

MCProcs == {p1, p2}
MCTwoScreens == p1 :> 0 @@ p2 :> 1

MCAllKeys == {"LSHIFT", "LCTRL", "LALT"}

=============================================================================
