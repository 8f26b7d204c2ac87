------------------------------- MODULE Screen -------------------------------
(***************************************************************************)
(* The screens of drivers/screen.c, as terminals (kernel/tty.c), keys and  *)
(* the kernel's own messages use them.                                     *)
(*                                                                         *)
(* One screen is in the video memory, with the hardware's cursor and the   *)
(* address the display starts at; the others are copies.  A switch stores  *)
(* the one and loads the other.  The scroll of a screen, the line the      *)
(* display starts at, is kept in its descriptor also while it is shown.    *)
(*                                                                         *)
(* print and switch_screen are masked; print_to_other_screen looks at the  *)
(* index of the screen that is shown before it masks, and keys may come in *)
(* between.  Colours, tabs and to_print, which nothing sets, are left out. *)
(***************************************************************************)
EXTENDS Integers, Sequences

CONSTANTS
  Procs, NULL,
  SCREENS,      \* how many screens there are
  ROWS, COLUMNS,
  WORD,         \* one more than the hardware's registers can hold
  Texts,        \* what is printed: sequences of "x" and "newline"
  PROMPT,       \* bound: the cells users do not erase
  MAX_CURSOR,   \* bound: how far screens are filled
  Lines         \* bound: the lines users scroll to, also negative ones

ASSUME SizesAssumption ==
  /\ SCREENS \in Nat \ {0} /\ ROWS \in Nat \ {0} /\ COLUMNS \in Nat \ {0}
  /\ WORD \in Nat \ {0} /\ WORD % 2 = 0
ASSUME TextsAssumption == Texts \subseteq Seq({"x", "newline"})
ASSUME BoundsAssumption ==
  /\ PROMPT \in Nat /\ MAX_CURSOR \in 0 .. WORD \div 2 - 1 /\ Lines \subseteq Int

VARIABLES
  screen_list,           \* the descriptors
  current_screen_index,
  video,                 \* the video memory and the cursor
  start,                 \* the start address register
  request,               \* what a process has looked up in print_to_other_screen
  misdirected            \* has output for the screen that is shown changed its copy?
                         \* (history)

vars == <<screen_list, current_screen_index, video, start, request, misdirected>>

-----------------------------------------------------------------------------

Screens == 0 .. SCREENS - 1

Cells == 0 .. MAX_CURSOR

Character == {"blank", "x"}

Blank == [cells |-> [c \in Cells |-> "blank"], cursor |-> 0]

Picture == [cells : [Cells -> Character], cursor : Cells]

screen_descriptor == [screen : Picture, scroll : Int]

\* hidden is the outcome of the comparison; switched says that screens have
\* been switched since (it is not in the code).
Request == [screen : Screens, text : Texts, hidden : BOOLEAN, switched : BOOLEAN]

\* NULL is no request, neither here nor in Terminals.
ASSUME NULLAssumption ==
  NULL \notin Request \cup [screen : Screens, text : Texts, switched : BOOLEAN]

TypeOK ==
  /\ screen_list \in [Screens -> screen_descriptor]
  /\ current_screen_index \in Screens
  /\ video \in Picture
  /\ start \in 0 .. WORD - 1
  /\ request \in [Procs -> Request \cup {NULL}]
  /\ misdirected \in BOOLEAN

-----------------------------------------------------------------------------
(* Printing. *)

\* Where the cursor is after a character.
Moved(cursor, c) ==
  CASE c = "newline" -> cursor + COLUMNS - (cursor % COLUMNS)
    [] c = "backspace" -> cursor - 1
    [] OTHER    -> cursor + 1

\* The loop of print and print_to_other_screen: the cursor after i characters,
\* the characters in their cells, and a blank under the cursor at the end.
Printed(picture, text) ==
  LET at[i \in 0 .. Len(text)] ==
        IF i = 0 THEN picture.cursor ELSE Moved(at[i - 1], text[i])
      end == at[Len(text)]
      Writes(i, c) == \/ text[i] = "x" /\ c = at[i - 1]
                      \/ text[i] = "backspace" /\ c = at[i]
  IN  [cursor |-> end,
       cells |-> [c \in Cells |->
         IF c = end THEN "blank"
         ELSE IF \E i \in 1 .. Len(text) : Writes(i, c)
           THEN LET i == CHOOSE i \in 1 .. Len(text) :
                           Writes(i, c) /\ \A j \in i + 1 .. Len(text) : ~Writes(j, c)
                IN  IF text[i] = "x" THEN "x" ELSE "blank"
         ELSE picture.cells[c]]]

Fits(picture, text) == Printed(picture, text).cursor \in Cells

\* Division as in C.
Div(a, b) == IF a >= 0 THEN a \div b ELSE -((-a) \div b)

\* scroll_lines: the descriptor of the screen that is shown and the register.
scroll_lines(list, current, n) ==
  /\ screen_list' = [list EXCEPT ![current].scroll = @ + n]
  /\ start' = (start + n * COLUMNS) % WORD

\* Mutant: it never scrolls up.
ScrollAfter_NoUp(cursor) ==
  IF start + ROWS * COLUMNS < cursor
    THEN Div(cursor - start - ROWS * COLUMNS, COLUMNS) + 1
  ELSE 0

\* How print scrolls: down when the cursor is behind the display, and up when
\* it is before it.
ScrollAfter(cursor) ==
  IF start + ROWS * COLUMNS < cursor
    THEN Div(cursor - start - ROWS * COLUMNS, COLUMNS) + 1
  ELSE IF start > cursor THEN Div(cursor - start, COLUMNS) - 1
  ELSE 0

print(text) ==
  /\ Fits(video, text)
  /\ video' = Printed(video, text)
  /\ scroll_lines(screen_list, current_screen_index, ScrollAfter(video'.cursor))
  /\ UNCHANGED <<current_screen_index, misdirected>>

\* A key that is typed, a backspace after one, or a message of the kernel.  In
\* front of what a user types stands a prompt.
Echo(text) ==
  /\ text = <<"backspace">> => video.cursor > PROMPT
  /\ print(text)
  /\ UNCHANGED request

\* A process writes to its terminal: is it the one that is shown?
CompareScreen(p, s, text) ==
  /\ request[p] = NULL
  /\ request' = [request EXCEPT ![p] =
       [screen |-> s, text |-> text, hidden |-> s # current_screen_index,
        switched |-> FALSE]]
  /\ UNCHANGED <<screen_list, current_screen_index, video, start, misdirected>>

PrintShown(p) ==
  /\ request[p] # NULL /\ ~request[p].hidden
  /\ print(request[p].text)
  /\ request' = [request EXCEPT ![p] = NULL]

\* How print_to_other_screen scrolls, from the length of the text.
ScrollHidden(sd, text) ==
  LET n == (sd.screen.cursor + Len(text)) \div COLUMNS - sd.scroll - ROWS
  IN  IF n > 0 THEN n ELSE 0

\* Mutant: the cursor of the screen is not stored.
PrintHidden_CursorKept(p) ==
  LET s == request[p].screen
      text == request[p].text
      sd == screen_list[s]
  IN  /\ request[p] # NULL /\ request[p].hidden
      /\ Fits(sd.screen, text)
      /\ screen_list' = [screen_list EXCEPT ![s] =
           [screen |-> [Printed(sd.screen, text) EXCEPT !.cursor = sd.screen.cursor],
            scroll |-> sd.scroll + ScrollHidden(sd, text)]]
      /\ request' = [request EXCEPT ![p] = NULL]
      /\ misdirected' = (misdirected \/ s = current_screen_index)
      /\ UNCHANGED <<current_screen_index, video, start>>

PrintHidden(p) ==
  LET s == request[p].screen
      text == request[p].text
      sd == screen_list[s]
  IN  /\ request[p] # NULL /\ request[p].hidden
      /\ Fits(sd.screen, text)
      /\ screen_list' = [screen_list EXCEPT ![s] =
           [screen |-> Printed(sd.screen, text),
            scroll |-> sd.scroll + ScrollHidden(sd, text)]]
      /\ request' = [request EXCEPT ![p] = NULL]
      /\ misdirected' = (misdirected \/ s = current_screen_index)
      /\ UNCHANGED <<current_screen_index, video, start>>

-----------------------------------------------------------------------------
(* Keys. *)

\* Mutant: what scroll_lines adds to the new screen's scroll stays there.
switch_screen_ScrollAdded(s) ==
  LET stored == [screen_list EXCEPT ![current_screen_index].screen = video]
      n == stored[s].scroll - stored[current_screen_index].scroll
  IN  /\ screen_list' = [stored EXCEPT ![s].scroll = @ + n]
      /\ video' = stored[s].screen
      /\ current_screen_index' = s
      /\ start' = (start + n * COLUMNS) % WORD
      /\ request' = [p \in Procs |->
           IF request[p] = NULL THEN NULL ELSE [request[p] EXCEPT !.switched = TRUE]]
      /\ UNCHANGED misdirected

\* The picture is stored and the new one loaded.  scroll_lines, which is for
\* the screen that is shown, moves the display by the difference; what it adds
\* to the new screen's scroll is taken away again.
switch_screen(s) ==
  LET stored == [screen_list EXCEPT ![current_screen_index].screen = video]
      n == stored[s].scroll - stored[current_screen_index].scroll
  IN  /\ screen_list' = stored
      /\ video' = stored[s].screen
      /\ current_screen_index' = s
      /\ start' = (start + n * COLUMNS) % WORD
      /\ request' = [p \in Procs |->
           IF request[p] = NULL THEN NULL ELSE [request[p] EXCEPT !.switched = TRUE]]
      /\ UNCHANGED misdirected

\* Arrows scroll a line, page keys ROWS lines.
ScrollKey(n) ==
  /\ screen_list[current_screen_index].scroll + n \in Lines
  /\ scroll_lines(screen_list, current_screen_index, n)
  /\ UNCHANGED <<current_screen_index, video, request, misdirected>>

-----------------------------------------------------------------------------

Init ==
  /\ screen_list = [s \in Screens |-> [screen |-> Blank, scroll |-> 0]]
  /\ current_screen_index = 0
  /\ video = Blank
  /\ start = 0
  /\ request = [p \in Procs |-> NULL]
  /\ misdirected = FALSE

Next ==
  \/ \E text \in Texts \cup {<<"backspace">>} : Echo(text)
  \/ \E s \in Screens : switch_screen(s)
  \/ \E n \in {-ROWS, -1, 1, ROWS} : ScrollKey(n)
  \/ \E p \in Procs :
       \/ \E s \in Screens, text \in Texts : CompareScreen(p, s, text)
       \/ PrintShown(p)
       \/ PrintHidden(p)

Spec == Init /\ [][Next]_vars

-----------------------------------------------------------------------------
(* Properties. *)

\* The register of the display and the scroll of the screen that is shown, which
\* are changed apart, agree modulo the register's width: through switches,
\* output to hidden screens and keys in between, a switch finds the right lines.
\* It ends for good when a switch comes between the comparison in
\* print_to_other_screen and what follows, and the text scrolls.
StartIsScroll ==
  ~misdirected =>
    start = (screen_list[current_screen_index].scroll * COLUMNS) % WORD

\* The display starts at the line its screen's scroll names: it is not above
\* the first line, and the register holds it without wrapping.
OnLine ==
  LET line == screen_list[current_screen_index].scroll
  IN  line >= 0 /\ line * COLUMNS < WORD

\* "print to current screen and move the cursor and scroll position accordingly"
\* (screen.c:138): after it the cursor is on the display, or in the cell behind,
\* wherever the user, output and switches had left the display, above the first
\* line too: the test for that, of an unsigned number (screen.c:115), never
\* holds, the register wraps, and print scrolls up from there.  What is not
\* shown is a cursor in the first line when the display was scrolled above it,
\* which print then scrolls to again, and one that is back in the first cell.
PrintShowsCursor ==
  [][(/\ ~misdirected
      /\ video'.cursor # video.cursor
      /\ current_screen_index' = current_screen_index
      /\ video'.cursor >= COLUMNS \/ (video'.cursor > 0 /\ OnLine))
       => video'.cursor \in start' .. start' + ROWS * COLUMNS]_vars

\* The screens, wherever they are kept, are terminals.
VirtualTerminals == INSTANCE Terminals WITH
  Texts <- Texts \cup {<<"backspace">>},
  shown <- current_screen_index,
  terminal <- [s \in Screens |-> IF s = current_screen_index THEN video
                                 ELSE screen_list[s].screen],
  request <- [p \in Procs |->
    IF request[p] = NULL THEN NULL
    ELSE [screen |-> request[p].screen, text |-> request[p].text,
          switched |-> request[p].switched]]

ImplementsTerminals == VirtualTerminals!Spec

=============================================================================
