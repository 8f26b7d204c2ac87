------------------------------ MODULE Keyboard ------------------------------
(***************************************************************************)
(* Reading a line from the keyboard: input() and the interrupt handler of  *)
(* drivers/keyboard.c, under the terminals of kernel/tty.c.                *)
(*                                                                         *)
(* A process that reads puts a buffer into the list keyboard_buffers and   *)
(* halts until the handler has put a line, or as many characters as it has *)
(* asked for, into it.  The handler fills all the buffers of the screen    *)
(* that is shown.  It is one step here (Interrupts says when it is not);   *)
(* the list operations of input() are two each, for interrupts are enabled *)
(* between finding the place in the list and changing it.                  *)
(*                                                                         *)
(* A node of the list is named by the process whose buffer is its value.   *)
(* What is printed, and scrolling, are left out.                           *)
(***************************************************************************)
EXTENDS Integers, SequencesExt, FiniteSets

CONSTANTS
  Procs,         \* processes that read, each from its own terminal
  screen_index,  \* the screen of each process
  NULL,          \* no node
  ATOMIC,        \* are operations on the list never interleaved?
  SLOW,          \* does a reader always wake before the next key?
  CommandKeys,   \* the command keys that are used, of "LSHIFT", "LCTRL", "LALT"
  LENGTH,        \* how many characters a process asks for
  MAX_LENGTH     \* bound: what is written behind them

ASSUME ProcsAssumption == IsFiniteSet(Procs)
ASSUME NULLAssumption == NULL \notin Procs
ASSUME SwitchAssumption == ATOMIC \in BOOLEAN /\ SLOW \in BOOLEAN
ASSUME KeysAssumption == CommandKeys \subseteq {"LSHIFT", "LCTRL", "LALT"}
ASSUME ScreenAssumption == screen_index \in [Procs -> 0 .. 3]
ASSUME BoundsAssumption == LENGTH \in Nat \ {0} /\ MAX_LENGTH \in Nat

VARIABLES
  first, next, length,   \* the list keyboard_buffers
  step,                  \* where a process is in input()
  place,                 \* the node it has found in the list
  keyboard_buffer,       \* its buffer: what it holds, and need_to_buffer
  current_screen_index,  \* the screen shown
  COMMAND_KEYS,          \* the command keys that are down
  state,                 \* whether the next scan code is a release
  status,                \* of the keyboard's initialization
  line                   \* what should be in the buffer (not in the code)

listVars == <<first, next, length, place>>
handlerVars == <<current_screen_index, COMMAND_KEYS, state, status>>
vars == <<listVars, step, keyboard_buffer, handlerVars, line>>

-----------------------------------------------------------------------------

\* The keys that print, digits for all the others, and what they mean
\* with a shift key.  Enter ends the line only without one.
SHIFT_ASCII == [c \in {"1", "2", "enter"} |->
                  CASE c = "1" -> "!" [] c = "2" -> "@" [] c = "enter" -> "ENTER"]

CharKeys == DOMAIN SHIFT_ASCII

Chars == CharKeys \cup {SHIFT_ASCII[c] : c \in CharKeys}

\* There is a terminal for each, whether somebody reads from it or not.
Screens == 0 .. 3

EmptyBuffer == [text |-> <<>>, need_to_buffer |-> TRUE]

TypeOK ==
  /\ first \in Procs \cup {NULL}
  /\ next \in [Procs -> Procs \cup {NULL}]
  /\ length \in 0 .. Cardinality(Procs)
  /\ step \in [Procs -> {"user", "add", "link", "wait", "remove", "unlink"}]
  /\ place \in [Procs -> Procs \cup {NULL}]
  /\ \A p \in Procs :
       /\ keyboard_buffer[p].text \in Seq(Chars)
       /\ Len(keyboard_buffer[p].text) <= MAX_LENGTH
       /\ line[p] \in Seq(Chars)
  /\ current_screen_index \in Screens
  /\ ToSet(COMMAND_KEYS) \subseteq CommandKeys /\ IsInjective(COMMAND_KEYS)
  /\ state \in {"KEY_UP", "KEY_DOWN"}
  /\ status \in 1 .. 3

\* The nodes from the first on.
Listed ==
  LET reach[n \in 0 .. Cardinality(Procs)] ==
        IF n = 0 THEN {first} \ {NULL}
        ELSE reach[n - 1] \cup ({next[p] : p \in reach[n - 1]} \ {NULL})
  IN  reach[Cardinality(Procs)]

\* No other process is in an operation on the list.
Alone(p) == ATOMIC => \A q \in Procs \ {p} : step[q] \notin {"link", "unlink"}

\* Mutant: both conditions must hold.
Ready_Both(p) ==
  Len(keyboard_buffer[p].text) >= LENGTH /\ ~keyboard_buffer[p].need_to_buffer

\* The condition input() waits for.
Ready(p) ==
  Len(keyboard_buffer[p].text) >= LENGTH \/ ~keyboard_buffer[p].need_to_buffer

-----------------------------------------------------------------------------
(* input() *)

input(p) ==
  /\ step[p] = "user"
  /\ status = 3
  /\ step' = [step EXCEPT ![p] = "add"]
  /\ next' = [next EXCEPT ![p] = NULL]
  /\ UNCHANGED <<first, length, place, keyboard_buffer, handlerVars, line>>

\* The first half of add_to_list: the last node, if there is one.
FindLast(p) ==
  /\ step[p] = "add"
  /\ Alone(p)
  /\ IF first = NULL THEN place' = [place EXCEPT ![p] = NULL]
     ELSE \E q \in Listed :
            next[q] = NULL /\ place' = [place EXCEPT ![p] = q]
  /\ step' = [step EXCEPT ![p] = "link"]
  /\ UNCHANGED <<first, next, length, keyboard_buffer, handlerVars, line>>

\* The second half; from now on the handler finds the buffer.
Link(p) ==
  /\ step[p] = "link"
  /\ IF place[p] = NULL
       THEN /\ first' = p
            /\ length' = 1
            /\ UNCHANGED next
       ELSE /\ next' = [next EXCEPT ![place[p]] = p]
            /\ length' = length + 1
            /\ UNCHANGED first
  /\ step' = [step EXCEPT ![p] = "wait"]
  /\ UNCHANGED <<place, keyboard_buffer, handlerVars, line>>

\* The line is copied; what is put into the buffer later nobody reads.
Wake(p) ==
  /\ step[p] = "wait"
  /\ Ready(p)
  /\ step' = [step EXCEPT ![p] = "remove"]
  /\ keyboard_buffer' = [keyboard_buffer EXCEPT ![p] = EmptyBuffer]
  /\ line' = [line EXCEPT ![p] = <<>>]
  /\ UNCHANGED <<listVars, handlerVars>>

\* The first half of remove_from_list: the node before, p itself if it is first.
FindPrevious(p) ==
  /\ step[p] = "remove"
  /\ Alone(p)
  /\ \/ /\ length # 0 /\ first = p
        /\ place' = [place EXCEPT ![p] = p]
     \/ /\ length # 0 /\ first # p
        /\ \E q \in Listed : next[q] = p /\ place' = [place EXCEPT ![p] = q]
     \/ /\ length = 0 \/ p \notin Listed
        /\ place' = [place EXCEPT ![p] = NULL]
  /\ step' = [step EXCEPT ![p] = "unlink"]
  /\ UNCHANGED <<first, next, length, keyboard_buffer, handlerVars, line>>

\* The second half; nothing is removed that was not found.
Unlink(p) ==
  /\ step[p] = "unlink"
  /\ first' = IF place[p] = p THEN next[p] ELSE first
  /\ next' = IF place[p] \in {p, NULL} THEN next
             ELSE [next EXCEPT ![place[p]] = next[p]]
  /\ length' = IF place[p] = NULL THEN length ELSE length - 1
  /\ step' = [step EXCEPT ![p] = "user"]
  /\ place' = [place EXCEPT ![p] = NULL]
  /\ UNCHANGED <<keyboard_buffer, handlerVars, line>>

-----------------------------------------------------------------------------
(* The handler. *)

\* Mutant: the buffers of all screens are filled.
Shown_All == {p \in Listed : step[p] = "wait"}

\* The buffers of the screen that is shown, and that are still read.
Shown ==
  {p \in Listed : screen_index[p] = current_screen_index /\ step[p] = "wait"}

\* What a key puts into a buffer b, if anything.
buffer_char(b, c) ==
  IF COMMAND_KEYS = <<>>
    THEN [text |-> Append(b.text, c), need_to_buffer |-> b.need_to_buffer /\ c # "enter"]
  ELSE IF COMMAND_KEYS[1] = "LSHIFT"
    THEN [b EXCEPT !.text = Append(@, SHIFT_ASCII[c])]
  ELSE b

\* The newline can be taken back, too.
keyboard_backspace_command(b) == [b EXCEPT !.text = IF @ = <<>> THEN @ ELSE Front(@)]

\* The screen after a digit is released, with control and alt down.
switch_screens_command(k) ==
  IF Len(COMMAND_KEYS) >= 2 /\ {COMMAND_KEYS[1], COMMAND_KEYS[2]} = {"LCTRL", "LALT"}
    THEN CASE k = "1" -> 0 [] k = "2" -> 1 [] OTHER -> current_screen_index
    ELSE current_screen_index

\* What a terminal promises of line l when a character is typed or erased, until
\* the line is complete (not in the code).
Complete(l) == Len(l) >= LENGTH \/ (l # <<>> /\ Last(l) = "enter")

Typed(l, c) == IF Complete(l) THEN l ELSE Append(l, c)

Erased(l) == IF Complete(l) \/ l = <<>> THEN l ELSE Front(l)

\* The lines of those who wait for the screen shown, after Op.
LinesAfter(Op(_)) ==
  [p \in Procs |-> IF step[p] = "wait" /\ screen_index[p] = current_screen_index
                     THEN Op(line[p]) ELSE line[p]]

\* A key is handled, and what comes next is a press again.
Handled ==
  /\ status = 3
  /\ SLOW => \A p \in Procs : step[p] = "wait" => ~Ready(p)
  /\ state' = "KEY_DOWN"
  /\ UNCHANGED <<listVars, step, status>>

CharKey(c) ==
  LET meant == IF COMMAND_KEYS = <<>> THEN c ELSE SHIFT_ASCII[c]
      buffered == COMMAND_KEYS = <<>> \/ COMMAND_KEYS[1] = "LSHIFT"
  IN  /\ Handled
      /\ state = "KEY_DOWN"
      /\ \A p \in Shown : Len(keyboard_buffer[p].text) < MAX_LENGTH
      /\ keyboard_buffer' = [p \in Procs |->
           IF p \in Shown THEN buffer_char(keyboard_buffer[p], c)
           ELSE keyboard_buffer[p]]
      /\ line' = IF buffered THEN LinesAfter(LAMBDA l : Typed(l, meant)) ELSE line
      /\ UNCHANGED <<current_screen_index, COMMAND_KEYS>>

CharKeyReleased(c) ==
  /\ Handled
  /\ state = "KEY_UP"
  /\ current_screen_index' = switch_screens_command(c)
  /\ UNCHANGED <<keyboard_buffer, COMMAND_KEYS, line>>

Backspace ==
  /\ Handled
  /\ IF state = "KEY_DOWN"
       THEN /\ keyboard_buffer' = [p \in Procs |->
                 IF p \in Shown THEN keyboard_backspace_command(keyboard_buffer[p])
                 ELSE keyboard_buffer[p]]
            /\ line' = LinesAfter(Erased)
       ELSE UNCHANGED <<keyboard_buffer, line>>
  /\ UNCHANGED <<current_screen_index, COMMAND_KEYS>>

\* A command key is pressed once and released once.
keyboard_command_char(k) ==
  /\ Handled
  /\ k \in ToSet(COMMAND_KEYS) <=> state = "KEY_UP"
  /\ IF state = "KEY_DOWN" THEN COMMAND_KEYS' = Append(COMMAND_KEYS, k)
     ELSE \E i \in DOMAIN COMMAND_KEYS :
            COMMAND_KEYS[i] = k /\ COMMAND_KEYS' = RemoveAt(COMMAND_KEYS, i)
  /\ UNCHANGED <<keyboard_buffer, current_screen_index, line>>

\* The scan code 0xF0.
ReleaseCode ==
  /\ status = 3
  /\ state' = "KEY_UP"
  /\ UNCHANGED <<listVars, step, keyboard_buffer, current_screen_index,
                 COMMAND_KEYS, status, line>>

\* The keyboard acknowledges a command of its initialization.
Acknowledge ==
  /\ status < 3
  /\ status' = status + 1
  /\ UNCHANGED <<listVars, step, keyboard_buffer, current_screen_index,
                 COMMAND_KEYS, state, line>>

-----------------------------------------------------------------------------

Init ==
  /\ first = NULL
  /\ next = [p \in Procs |-> NULL]
  /\ length = 0
  /\ step = [p \in Procs |-> "user"]
  /\ place = [p \in Procs |-> NULL]
  /\ keyboard_buffer = [p \in Procs |-> EmptyBuffer]
  /\ current_screen_index = 0
  /\ COMMAND_KEYS = <<>>
  /\ state = "KEY_DOWN"
  /\ status = 1
  /\ line = [p \in Procs |-> <<>>]

\* A step of a process in input().
Step(p) ==
  FindLast(p) \/ Link(p) \/ Wake(p) \/ FindPrevious(p) \/ Unlink(p)

Next ==
  \/ \E p \in Procs : input(p) \/ Step(p)
  \/ \E c \in CharKeys : CharKey(c) \/ CharKeyReleased(c)
  \/ \E k \in CommandKeys : keyboard_command_char(k)
  \/ Backspace
  \/ ReleaseCode
  \/ Acknowledge

Spec == Init /\ [][Next]_vars

\* A process is scheduled again and again.
FairSpec == Spec /\ \A p \in Procs : SF_vars(Step(p))

-----------------------------------------------------------------------------
(* Properties. *)

\* "get input from keyboard" (keyboard.c:35): what a process reads is what was
\* typed on its screen since it began to, as edited, up to the end of the line
\* or the number of characters it has asked for.
InputIsTyped ==
  \A p \in Procs : step[p] = "wait" => keyboard_buffer[p].text = line[p]

\* "get input from keyboard" (keyboard.c:35): a process whose line is complete
\* gets it.
LineIsRead ==
  \A p \in Procs : step[p] = "wait" /\ Complete(line[p]) ~> step[p] = "user"

=============================================================================
