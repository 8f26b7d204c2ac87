----------------------------- MODULE Terminals -----------------------------
(***************************************************************************)
(* What virtual terminals are: a picture each, of which one is shown.      *)
(* Output goes to the terminal it is for, whether that is shown or not, in *)
(* whatever order switches come, except that output during which another   *)
(* terminal is shown may go to that one or be lost.                        *)
(***************************************************************************)
EXTENDS Integers, Sequences

CONSTANTS
  Procs, Screens, NULL,
  COLUMNS,
  Texts,        \* what is printed: sequences of "x", "newline" and "backspace"
  Cells         \* the cells a screen has

VARIABLES
  terminal,     \* the characters of each terminal and its cursor
  shown,        \* the terminal on the display
  request       \* the output a process is about to make

vars == <<terminal, shown, request>>

\* A character c put at the cursor.
Put(t, c) ==
  CASE c = "newline" -> [t EXCEPT !.cursor = @ + COLUMNS - (@ % COLUMNS)]
    [] c = "backspace" -> [cells |-> [t.cells EXCEPT ![t.cursor - 1] = "blank"],
                    cursor |-> t.cursor - 1]
    [] OTHER    -> [cells |-> [t.cells EXCEPT ![t.cursor] = c],
                    cursor |-> t.cursor + 1]

\* A text put there, and a blank under the cursor after it.
PutAll(t, text) ==
  LET after[i \in 0 .. Len(text)] == IF i = 0 THEN t ELSE Put(after[i - 1], text[i])
      end == after[Len(text)]
  IN  [end EXCEPT !.cells[end.cursor] = "blank"]

-----------------------------------------------------------------------------

Init ==
  /\ terminal = [s \in Screens |-> [cells |-> [c \in Cells |-> "blank"], cursor |-> 0]]
  /\ shown = 0
  /\ request = [p \in Procs |-> NULL]

Request(p) ==
  /\ request[p] = NULL
  /\ \E s \in Screens, text \in Texts :
       request' = [request EXCEPT ![p] = [screen |-> s, text |-> text, switched |-> FALSE]]
  /\ UNCHANGED <<terminal, shown>>

Output(p) ==
  /\ request[p] # NULL
  /\ LET PutOn(s) == terminal' = [terminal EXCEPT ![s] = PutAll(@, request[p].text)]
     IN  \/ PutOn(request[p].screen)
         \/ request[p].switched /\ PutOn(shown)
         \/ request[p].switched /\ UNCHANGED terminal
  /\ request' = [request EXCEPT ![p] = NULL]
  /\ UNCHANGED shown

\* What is typed, and what the kernel says, appears on the display.
Echo ==
  /\ \E text \in Texts :
       terminal' = [terminal EXCEPT ![shown] = PutAll(@, text)]
  /\ UNCHANGED <<shown, request>>

Switch ==
  /\ shown' \in Screens
  /\ request' = [p \in Procs |->
       IF request[p] = NULL THEN NULL ELSE [request[p] EXCEPT !.switched = TRUE]]
  /\ UNCHANGED terminal

Next == Switch \/ Echo \/ \E p \in Procs : Request(p) \/ Output(p)

Spec == Init /\ [][Next]_vars

=============================================================================
