------------------------------ MODULE MCScreen ------------------------------
(* Two screens of one row and three columns, and one process. *)
EXTENDS Screen

CONSTANTS
  p1,
  FARTHEST  \* bound: how far a screen is scrolled, either way

MCProcs == {p1}
MCTexts == {<<"newline", "x">>, <<"x">>}
MCLines == -2 .. 1

(* Bound: once output has been misdirected, scrolling may go on for ever. *)
(* Nothing that is printed depends on it.  So it may with the cursor in   *)
(* the first line and the display above it.                               *)
Bounded ==
  /\ ~misdirected
  /\ \A s \in Screens : screen_list[s].scroll \in -FARTHEST .. FARTHEST

=============================================================================
