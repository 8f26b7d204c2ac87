---------------------------- MODULE ScreenProofs ----------------------------
(***************************************************************************)
(* Proofs about module Screen, for any number of screens and processes and *)
(* any size of the display and of the registers.                           *)
(*                                                                         *)
(* The start address and the scroll of the shown screen are changed        *)
(* together by print and by the scroll keys; a switch moves the one by the *)
(* difference of two scrolls, which is what it has to be if they agreed    *)
(* before, modulo the width of the register.                               *)
(*                                                                         *)
(* That the screens implement Terminals is about texts of any length: the  *)
(* picture print makes is what its characters put on a terminal one after  *)
(* the other.  Such induction over a text is over sets of natural numbers  *)
(* here, which have least elements (UpTo).                                 *)
(*                                                                         *)
(* That the cursor is shown is arithmetic: print moves the start address   *)
(* by lines to just before the cursor, or to just before it leaves the     *)
(* display, and the register does not wrap on the way.                     *)
(***************************************************************************)
EXTENDS Screen, WellFoundedInduction, TLAPS

(* Remainders are unique.                                                     *)
LEMMA RemainderUnique ==
  ASSUME NEW w \in Int, w > 0, NEW d \in Int, NEW r \in Int, NEW s \in Int,
         0 <= r, r < w, 0 <= s, s < w, w * d = s - r
  PROVE  r = s
<1>1. CASE d >= 1
  <2>1. w * d >= w
    BY <1>1
  <2>2. QED
    BY <2>1
<1>2. CASE d <= -1
  <2>1. w * d <= -w
    BY <1>2
  <2>2. QED
    BY <2>1
<1>3. CASE d = 0
  <2>1. w * d = 0
    BY <1>3
  <2>2. QED
    BY <2>1
<1>4. QED
  BY <1>1, <1>2, <1>3

(* What the remainder is.                                                     *)
LEMMA Remainder ==
  ASSUME NEW w \in Int, w > 0, NEW a \in Int
  PROVE  \E q \in Int : a = w * q + (a % w) /\ a % w \in Int /\ 0 <= a % w /\ a % w < w
<1>1. a \div w \in Int /\ a = w * (a \div w) + (a % w)
  OBVIOUS
<1>2. a % w \in Int /\ 0 <= a % w /\ a % w < w
  OBVIOUS
<1>3. QED
  BY <1>1, <1>2

(* What is added to a remainder may be added before.                          *)
LEMMA ModAdd ==
  ASSUME NEW w \in Int, w > 0, NEW a \in Int, NEW b \in Int
  PROVE  ((a % w) + b) % w = (a + b) % w
<1> DEFINE ra == a % w
           x == (ra + b) % w
           y == (a + b) % w
<1>1. PICK q \in Int : a = w * q + ra /\ ra \in Int
  BY Remainder
<1>2. PICK m \in Int : ra + b = w * m + x /\ x \in Int /\ 0 <= x /\ x < w
  BY <1>1, Remainder
<1>3. PICK n \in Int : a + b = w * n + y /\ y \in Int /\ 0 <= y /\ y < w
  <2>1. a + b \in Int
    OBVIOUS
  <2>2. QED
    BY <2>1, Remainder
<1> HIDE DEF ra, x, y
<1>4. w * (q + m - n) = y - x
  <2>1. w * (q + m - n) = w * q + w * m - w * n
    BY <1>1, <1>2, <1>3
  <2>2. w * q \in Int /\ w * m \in Int /\ w * n \in Int
    BY <1>1, <1>2, <1>3
  <2>3. QED
    BY <1>1, <1>2, <1>3, <2>1, <2>2
<1>5. q + m - n \in Int
  BY <1>1, <1>2, <1>3
<1>6. x = y
  BY <1>2, <1>3, <1>4, <1>5, RemainderUnique
<1>7. QED
  BY <1>6 DEF x, y, ra

(* The register follows a scroll.                                             *)
LEMMA ScrollAdds ==
  ASSUME NEW scroll \in Int, NEW n \in Int
  PROVE  (((scroll * COLUMNS) % WORD) + n * COLUMNS) % WORD
           = ((scroll + n) * COLUMNS) % WORD
<1>1. /\ COLUMNS \in Int /\ WORD \in Nat \ {0}
      /\ scroll * COLUMNS \in Int /\ n * COLUMNS \in Int
  BY SizesAssumption
<1>2. scroll * COLUMNS + n * COLUMNS = (scroll + n) * COLUMNS
  BY <1>1
<1>3. QED
  BY <1>1, <1>2, ModAdd

-----------------------------------------------------------------------------

\* The types that scrolling depends on.
ListOK ==
  /\ screen_list \in [Screens -> screen_descriptor]
  /\ current_screen_index \in Screens
  /\ video \in Picture
  /\ start \in Int
  /\ request \in [Procs -> Request \cup {NULL}]

IInv == ListOK /\ StartIsScroll

(* Printing gives a picture, if there is room for the text.                   *)
LEMMA PrintedType ==
  ASSUME NEW picture \in Picture, NEW text, Fits(picture, text)
  PROVE  Printed(picture, text) \in Picture
<1> DEFINE cells == Printed(picture, text).cells
<1>1. Printed(picture, text).cursor \in Cells
  BY DEF Fits
<1>2. cells \in [Cells -> Character]
  BY DEF Printed, Picture, Character
<1>3. Printed(picture, text) = [cursor |-> Printed(picture, text).cursor, cells |-> cells]
  BY DEF Printed
<1> HIDE DEF cells
<1>4. QED
  BY <1>1, <1>2, <1>3 DEF Picture

(* print and the scroll keys.                                                 *)
LEMMA ScrollInv ==
  ASSUME IInv, NEW n \in Int, scroll_lines(screen_list, current_screen_index, n),
         current_screen_index' = current_screen_index,
         misdirected' = misdirected, video' \in Picture,
         request' \in [Procs -> Request \cup {NULL}]
  PROVE  IInv'
<1>1. /\ screen_list[current_screen_index] \in screen_descriptor
      /\ screen_list[current_screen_index].scroll \in Int
  BY DEF IInv, ListOK, screen_descriptor
<1>2. screen_list' = [screen_list EXCEPT ![current_screen_index].scroll =
                        screen_list[current_screen_index].scroll + n]
  BY DEF scroll_lines
<1>3. ListOK'
  <2>1. screen_list' \in [Screens -> screen_descriptor]
    BY <1>1, <1>2 DEF IInv, ListOK, screen_descriptor
  <2>2. start' \in Int
    BY SizesAssumption DEF scroll_lines, IInv, ListOK
  <2>3. QED
    BY <2>1, <2>2 DEF IInv, ListOK
<1>4. StartIsScroll'
  <2> SUFFICES ASSUME ~misdirected
               PROVE  start' = (screen_list'[current_screen_index].scroll * COLUMNS) % WORD
    BY DEF StartIsScroll
  <2>1. start = (screen_list[current_screen_index].scroll * COLUMNS) % WORD
    BY DEF IInv, StartIsScroll
  <2>2. screen_list'[current_screen_index].scroll
          = screen_list[current_screen_index].scroll + n
    BY <1>1, <1>2 DEF IInv, ListOK, screen_descriptor
  <2>3. QED
    BY <1>1, <2>1, <2>2, ScrollAdds DEF scroll_lines
<1>5. QED
  BY <1>3, <1>4 DEF IInv

(* Nothing but switched changes in a request when screens are switched.       *)
LEMMA RequestSwitched ==
  ASSUME NEW r \in Request
  PROVE  [r EXCEPT !.switched = TRUE] \in Request
BY DEF Request

LEMMA InitInv == Init => IInv
<1> SUFFICES ASSUME Init PROVE IInv
  OBVIOUS
<1>1. Blank \in Picture
  BY BoundsAssumption, SizesAssumption DEF Blank, Picture, Cells, Character
<1>2. 0 \in Screens
  BY SizesAssumption DEF Screens
<1>3. ListOK
  BY <1>1, <1>2 DEF Init, ListOK, screen_descriptor
<1>4. 0 = (0 * COLUMNS) % WORD
  BY SizesAssumption
<1>5. StartIsScroll
  BY <1>2, <1>4 DEF Init, StartIsScroll
<1>6. QED
  BY <1>3, <1>5 DEF IInv

LEMMA PrintInv ==
  ASSUME IInv, NEW text, print(text), request' \in [Procs -> Request \cup {NULL}]
  PROVE  IInv'
<1>1. video' \in Picture
  BY PrintedType DEF print, IInv, ListOK
<1>2. ScrollAfter(video'.cursor) \in Int
  <2>1. start \in Int /\ video'.cursor \in Int /\ ROWS * COLUMNS \in Int
        /\ COLUMNS \in Nat \ {0}
    BY <1>1, BoundsAssumption, SizesAssumption DEF IInv, ListOK, Picture, Cells
  <2>2. QED
    BY <2>1 DEF ScrollAfter, Div
<1>3. QED
  BY <1>1, <1>2, ScrollInv DEF print

LEMMA SwitchInv ==
  ASSUME IInv, NEW s \in Screens, switch_screen(s)
  PROVE  IInv'
<1> DEFINE c == current_screen_index
           stored == [screen_list EXCEPT ![c].screen = video]
           n == stored[s].scroll - stored[c].scroll
<1>1. /\ screen_list' = stored /\ video' = stored[s].screen
      /\ current_screen_index' = s /\ misdirected' = misdirected
      /\ start' = (start + n * COLUMNS) % WORD
  BY DEF switch_screen
<1>2. stored \in [Screens -> screen_descriptor] /\ c \in Screens
  BY DEF IInv, ListOK, screen_descriptor
<1>3. stored[c].scroll = screen_list[c].scroll
  BY DEF IInv, ListOK, screen_descriptor
<1> HIDE DEF stored
<1>4. stored[s].scroll \in Int /\ stored[c].scroll \in Int /\ stored[s].screen \in Picture
  BY <1>2 DEF screen_descriptor
<1>5. n \in Int /\ stored[c].scroll + n = stored[s].scroll
  BY <1>4
<1> HIDE DEF n
<1>6. ListOK'
  <2>1. start' \in Int
    BY <1>1, <1>5, SizesAssumption DEF IInv, ListOK
  <2>2. request' \in [Procs -> Request \cup {NULL}]
    BY RequestSwitched DEF switch_screen, IInv, ListOK
  <2>3. QED
    BY <1>1, <1>2, <1>4, <2>1, <2>2 DEF ListOK
<1>7. StartIsScroll'
  <2> SUFFICES ASSUME ~misdirected
               PROVE  start' = (stored[s].scroll * COLUMNS) % WORD
    BY <1>1 DEF StartIsScroll
  <2>1. start = (stored[c].scroll * COLUMNS) % WORD
    BY <1>3 DEF IInv, StartIsScroll
  <2>2. QED
    BY <1>1, <1>4, <1>5, <2>1, ScrollAdds
<1>8. QED
  BY <1>6, <1>7 DEF IInv

LEMMA HiddenInv ==
  ASSUME IInv, NEW p \in Procs, PrintHidden(p)
  PROVE  IInv'
<1> DEFINE s == request[p].screen
           text == request[p].text
           sd == screen_list[s]
           new == [screen |-> Printed(sd.screen, text),
                   scroll |-> sd.scroll + ScrollHidden(sd, text)]
<1>1. /\ screen_list' = [screen_list EXCEPT ![s] = new]
      /\ Fits(sd.screen, text)
      /\ UNCHANGED <<current_screen_index, video, start>>
  BY DEF PrintHidden
<1>2. misdirected \/ s = current_screen_index => misdirected'
  BY DEF PrintHidden
<1>3. s \in Screens /\ text \in Seq({"x", "newline"})
  <2>1. request[p] \in Request
    BY DEF PrintHidden, IInv, ListOK
  <2>2. QED
    BY <2>1, TextsAssumption DEF Request
<1>4. new \in screen_descriptor
  <2>1. sd.screen \in Picture /\ sd.scroll \in Int
    BY <1>3 DEF IInv, ListOK, screen_descriptor
  <2>2. ScrollHidden(sd, text) \in Int
    <3>1. sd.screen.cursor \in Int /\ Len(text) \in Int
      BY <1>3, <2>1, BoundsAssumption DEF Picture, Cells
    <3>2. (sd.screen.cursor + Len(text)) \div COLUMNS \in Int /\ ROWS \in Int
      BY <3>1, SizesAssumption
    <3>3. QED
      BY <2>1, <3>2 DEF ScrollHidden
  <2>3. QED
    BY <1>1, <2>1, <2>2, PrintedType DEF screen_descriptor
<1>5. request' \in [Procs -> Request \cup {NULL}]
  BY DEF PrintHidden, IInv, ListOK
<1> HIDE DEF new, s
<1>6. ListOK'
  BY <1>1, <1>3, <1>4, <1>5 DEF IInv, ListOK
<1>7. StartIsScroll'
  <2>1. CASE s = current_screen_index
    BY <1>2, <2>1 DEF StartIsScroll
  <2>2. CASE s # current_screen_index
    <3>1. screen_list'[current_screen_index] = screen_list[current_screen_index]
      BY <1>1, <2>2 DEF IInv, ListOK
    <3>2. QED
      BY <1>1, <1>2, <3>1 DEF IInv, StartIsScroll
  <2>3. QED
    BY <2>1, <2>2
<1>8. QED
  BY <1>6, <1>7 DEF IInv

LEMMA NextInv == IInv /\ [Next]_vars => IInv'
<1> SUFFICES ASSUME IInv, [Next]_vars PROVE IInv'
  OBVIOUS
<1> DEFINE Requests == [Procs -> Request \cup {NULL}]
<1>1. CASE UNCHANGED vars
  BY <1>1 DEF vars, IInv, ListOK, StartIsScroll
<1>2. ASSUME NEW text, Echo(text) PROVE IInv'
  <2>1. print(text) /\ request' \in Requests
    BY <1>2 DEF Echo, IInv, ListOK
  <2>2. QED
    BY <2>1, PrintInv
<1>3. ASSUME NEW s \in Screens, switch_screen(s) PROVE IInv'
  BY <1>3, SwitchInv
<1>4. ASSUME NEW n \in {-ROWS, -1, 1, ROWS}, ScrollKey(n) PROVE IInv'
  <2>1. n \in Int
    BY SizesAssumption
  <2>2. /\ scroll_lines(screen_list, current_screen_index, n)
        /\ UNCHANGED <<current_screen_index, video, request, misdirected>>
    BY <1>4 DEF ScrollKey
  <2>3. video' \in Picture /\ request' \in Requests
    BY <2>2 DEF IInv, ListOK
  <2>4. QED
    BY <2>1, <2>2, <2>3, ScrollInv
<1>5. ASSUME NEW p \in Procs, NEW s \in Screens, NEW text \in Texts,
             CompareScreen(p, s, text)
      PROVE  IInv'
  <2>1. request' \in Requests
    <3> DEFINE r == [screen |-> s, text |-> text, hidden |-> s # current_screen_index,
                     switched |-> FALSE]
    <3>1. r \in Request
      BY Zenon DEF Request
    <3> HIDE DEF r
    <3>2. QED
      BY <1>5, <3>1 DEF CompareScreen, IInv, ListOK, r
  <2>2. QED
    BY <1>5, <2>1 DEF CompareScreen, IInv, ListOK, StartIsScroll
<1>6. ASSUME NEW p \in Procs, PrintShown(p) PROVE IInv'
  <2>1. print(request[p].text) /\ request' \in Requests
    BY <1>6 DEF PrintShown, IInv, ListOK
  <2>2. QED
    BY <2>1, PrintInv
<1>7. ASSUME NEW p \in Procs, PrintHidden(p) PROVE IInv'
  BY <1>7, HiddenInv
<1>8. QED
  BY <1>1, <1>2, <1>3, <1>4, <1>5, <1>6, <1>7 DEF Next

-----------------------------------------------------------------------------

(* As long as no output for the shown screen has gone to its copy, the        *)
(* display starts where the descriptor of the screen says, whatever has been  *)
(* printed, scrolled and switched.                                            *)
THEOREM StartFollowsScroll == Spec => []StartIsScroll
<1>1. IInv => StartIsScroll
  BY DEF IInv
<1>2. QED
  BY <1>1, InitInv, NextInv, PTL DEF Spec

-----------------------------------------------------------------------------
(* Texts of any length: what is defined character by character.              *)

(* A non-empty set of natural numbers has a least element.                    *)
LEMMA LeastExists ==
  ASSUME NEW T \in SUBSET Nat, T # {}
  PROVE  \E x \in T : \A y \in T : x <= y
<1> DEFINE Less == {ss \in Nat \X Nat : ss[1] < ss[2]}
<1>1. IsWellFoundedOn(Less, Nat)
  BY NatLessThanWellFounded, Zenon DEF OpToRel
<1>2. PICK x \in T : \A y \in T : ~(<<y, x>> \in Less)
  <2> HIDE DEF Less
  <2> QED
    BY <1>1, WFMin, Zenon
<1>3. \A y \in T : x <= y
  <2> SUFFICES ASSUME NEW y \in T PROVE x <= y
    OBVIOUS
  <2>1. <<y, x>> \in Nat \X Nat /\ ~(<<y, x>> \in Less)
    BY <1>2
  <2>2. ~(<<y, x>>[1] < <<y, x>>[2])
    BY <2>1
  <2>3. QED
    BY <2>2
<1>4. QED
  BY <1>3

(* What holds of no characters, and of one more if of those before, holds of  *)
(* all.                                                                       *)
LEMMA UpTo ==
  ASSUME NEW n \in Nat, NEW S \in SUBSET (0 .. n), 0 \in S,
         \A i \in 1 .. n : i - 1 \in S => i \in S
  PROVE  S = 0 .. n
<1> DEFINE T == (0 .. n) \ S
<1> SUFFICES ASSUME T # {} PROVE FALSE
  OBVIOUS
<1>1. T \in SUBSET Nat
  OBVIOUS
<1>2. PICK x \in T : \A y \in T : x <= y
  <2> HIDE DEF T
  <2>1. QED
    BY <1>1, LeastExists
<1>3. x \in 1 .. n /\ x - 1 \in 0 .. n /\ ~(x <= x - 1)
  OBVIOUS
<1>4. x - 1 \in S
  BY <1>2, <1>3
<1>5. QED
  BY <1>3, <1>4

\* g starts with a, and G gives each value from the one before.
Iterates(g, n, a, G) == g = [i \in 0 .. n |-> IF i = 0 THEN a ELSE G[g[i - 1]][i]]

(* There are such functions.                                                  *)
LEMMA Recursion ==
  ASSUME NEW n \in Nat, NEW S, NEW a \in S, NEW G \in [S -> [1 .. n -> S]]
  PROVE  \E g \in [0 .. n -> S] : Iterates(g, n, a, G)
<1> DEFINE Follows(g, k) == g = [i \in 0 .. k |-> IF i = 0 THEN a ELSE G[g[i - 1]][i]]
           K == {k \in 0 .. n : \E g \in [0 .. k -> S] : Follows(g, k)}
<1>1. 0 \in K
  <2> DEFINE g == [i \in 0 .. 0 |-> a]
  <2>1. g \in [0 .. 0 -> S] /\ Follows(g, 0)
    OBVIOUS
  <2> HIDE DEF g
  <2>2. QED
    BY <2>1
<1>2. ASSUME NEW k \in 1 .. n, k - 1 \in K PROVE k \in K
  <2>1. PICK h \in [0 .. k - 1 -> S] : Follows(h, k - 1)
    BY <1>2
  <2> DEFINE g == [i \in 0 .. k |-> IF i = k THEN G[h[k - 1]][k] ELSE h[i]]
  <2>2. g \in [0 .. k -> S]
    <3>1. h[k - 1] \in S
      BY <2>1
    <3>2. G[h[k - 1]][k] \in S
      BY <3>1
    <3>3. ASSUME NEW i \in 0 .. k, i # k PROVE h[i] \in S
      BY <3>3
    <3>4. QED
      BY <3>2, <3>3
  <2>3. ASSUME NEW i \in 0 .. k
        PROVE  g[i] = IF i = 0 THEN a ELSE G[g[i - 1]][i]
    <3>1. CASE i = k
      <4>1. i - 1 \in 0 .. k /\ i - 1 # k /\ i # 0
        BY <3>1
      <4>2. g[i - 1] = h[k - 1]
        BY <3>1, <4>1
      <4>3. QED
        BY <3>1, <4>1, <4>2
    <3>2. CASE i # k
      <4>1. g[i] = h[i] /\ i \in 0 .. k - 1
        BY <3>2
      <4>2. h[i] = IF i = 0 THEN a ELSE G[h[i - 1]][i]
        BY <2>1, <4>1
      <4>3. i # 0 => g[i - 1] = h[i - 1]
        BY <3>2
      <4>4. QED
        BY <4>1, <4>2, <4>3
    <3>3. QED
      BY <3>1, <3>2
  <2>4. Follows(g, k)
    <3> HIDE DEF g
    <3>1. DOMAIN g = 0 .. k
      BY <2>2
    <3>2. QED
      BY <2>2, <2>3, <3>1
  <2> HIDE DEF g, Follows
  <2>5. QED
    BY <2>2, <2>4
<1>3. n \in K
  <2>1. K \in SUBSET (0 .. n)
    OBVIOUS
  <2> HIDE DEF K
  <2>2. K = 0 .. n
    BY <1>1, <1>2, <2>1, UpTo
  <2>3. QED
    BY <2>2
<1>4. QED
  BY <1>3 DEF Iterates

-----------------------------------------------------------------------------
(* print's loop, character by character.                                     *)

Keys == {"x", "newline", "backspace"}

\* Where the cursor is after i characters.
Cursors(picture, text) ==
  LET at[i \in 0 .. Len(text)] ==
        IF i = 0 THEN picture.cursor ELSE Moved(at[i - 1], text[i])
  IN  at

LEMMA MovedType ==
  ASSUME NEW x \in Int, NEW c
  PROVE  Moved(x, c) \in Int
<1>1. x % COLUMNS \in Int /\ COLUMNS \in Int
  BY SizesAssumption
<1>2. QED
  BY <1>1 DEF Moved

LEMMA CursorsFacts ==
  ASSUME NEW picture, picture.cursor \in Int, NEW text \in Seq(Keys)
  PROVE  /\ Cursors(picture, text) \in [0 .. Len(text) -> Int]
         /\ Cursors(picture, text)[0] = picture.cursor
         /\ \A i \in 1 .. Len(text) :
              Cursors(picture, text)[i] = Moved(Cursors(picture, text)[i - 1], text[i])
<1> DEFINE n == Len(text)
           a == picture.cursor
           Is(g) == g = [i \in 0 .. n |-> IF i = 0 THEN a ELSE Moved(g[i - 1], text[i])]
           G == [x \in Int |-> [i \in 1 .. n |-> Moved(x, text[i])]]
<1>1. n \in Nat
  OBVIOUS
<1>2. \A x \in Int, i \in 1 .. n : G[x][i] = Moved(x, text[i])
  OBVIOUS
<1>a. G \in [Int -> [1 .. n -> Int]]
  BY MovedType
<1> HIDE DEF G, n, a
<1>b. a \in Int
  BY DEF a
<1>3. PICK g \in [0 .. n -> Int] : Iterates(g, n, a, G)
  BY <1>1, <1>a, <1>b, Recursion
<1>4. Is(g)
  <2>1. ASSUME NEW i \in 0 .. n
        PROVE  g[i] = IF i = 0 THEN a ELSE Moved(g[i - 1], text[i])
    <3>1. g[i] = IF i = 0 THEN a ELSE G[g[i - 1]][i]
      BY <1>3 DEF Iterates
    <3>2. i # 0 => i \in 1 .. n /\ g[i - 1] \in Int
      BY <1>1, <1>3
    <3>3. QED
      BY <1>2, <3>1, <3>2
  <2>2. DOMAIN g = 0 .. n
    BY <1>3
  <2>3. QED
    BY <1>3, <2>1, <2>2
<1>5. Cursors(picture, text) = CHOOSE h : Is(h)
  BY DEF Cursors, n, a
<1>6. Is(Cursors(picture, text))
  <2> HIDE DEF Is
  <2>1. QED
    BY <1>4, <1>5, Zenon
<1>7. PICK h : h = Cursors(picture, text) /\ Is(h)
  BY <1>6
<1>8. h[0] = a /\ \A i \in 1 .. n : h[i] = Moved(h[i - 1], text[i])
  <2>1. DOMAIN h = 0 .. n /\ \A i \in 0 .. n : h[i] = IF i = 0 THEN a ELSE Moved(h[i - 1], text[i])
    BY <1>7
  <2>2. h[0] = a
    BY <1>1, <2>1
  <2>3. ASSUME NEW i \in 1 .. n PROVE h[i] = Moved(h[i - 1], text[i])
    <3>1. i \in 0 .. n /\ i # 0
      BY <1>1
    <3>2. QED
      BY <2>1, <3>1, Zenon
  <2> QED
    BY <2>2, <2>3
<1>9. h \in [0 .. n -> Int]
  <2> DEFINE S == {i \in 0 .. n : h[i] \in Int}
  <2>1. S \in SUBSET (0 .. n) /\ 0 \in S
    BY <1>1, <1>8, <1>b
  <2>2. ASSUME NEW i \in 1 .. n, i - 1 \in S PROVE i \in S
    BY <1>1, <1>8, <2>2, MovedType
  <2> HIDE DEF S
  <2>3. S = 0 .. n
    BY <1>1, <2>1, <2>2, UpTo
  <2>4. \A i \in 0 .. n : h[i] \in Int
    BY <2>3 DEF S
  <2>5. QED
    BY <1>7, <2>4
<1>10. QED
  BY <1>7, <1>8, <1>9 DEF n, a

-----------------------------------------------------------------------------
(* print and print_to_other_screen put a text on a terminal.                 *)

\* A picture whose cursor may be anywhere.
Sheet == [cells : [Cells -> Character], cursor : Int]

\* What one character does.
IsPut(t, c, r) ==
  /\ r \in Sheet
  /\ r.cursor = Moved(t.cursor, c)
  /\ \A x \in Cells : r.cells[x] =
       IF c = "x" /\ x = t.cursor THEN "x"
       ELSE IF c = "backspace" /\ x = r.cursor THEN "blank"
       ELSE t.cells[x]

LEMMA PutFacts ==
  ASSUME NEW t \in Sheet, NEW c \in Keys
  PROVE  IsPut(t, c, VirtualTerminals!Put(t, c))
<1>0. PICK r : r = VirtualTerminals!Put(t, c)
  OBVIOUS
<1>1. t.cells \in [Cells -> Character] /\ t.cursor \in Int
  BY DEF Sheet
<1>2. Moved(t.cursor, c) \in Int /\ "x" \in Character /\ "blank" \in Character
  BY <1>1, MovedType DEF Character
<1>3. CASE c = "newline"
  <2>1. r = [t EXCEPT !.cursor = Moved(t.cursor, c)]
    BY <1>0, <1>1, <1>3 DEF VirtualTerminals!Put, Moved, Sheet
  <2>2. QED
    BY <1>0, <1>1, <1>2, <1>3, <2>1 DEF Sheet, IsPut
<1>4. ASSUME NEW k \in Int, NEW y \in Character, NEW m \in Int,
             r = [cells |-> [t.cells EXCEPT ![k] = y], cursor |-> m]
      PROVE  /\ r \in Sheet /\ r.cursor = m
             /\ \A x \in Cells : r.cells[x] = IF x = k THEN y ELSE t.cells[x]
  BY <1>1, <1>4 DEF Sheet
<1>5. CASE c = "backspace"
  <2>1. r = [cells |-> [t.cells EXCEPT ![t.cursor - 1] = "blank"], cursor |-> t.cursor - 1]
    BY <1>0, <1>5 DEF VirtualTerminals!Put
  <2>2. Moved(t.cursor, c) = t.cursor - 1 /\ t.cursor - 1 \in Int
    BY <1>1, <1>5 DEF Moved
  <2>3. /\ r \in Sheet /\ r.cursor = t.cursor - 1
        /\ \A x \in Cells : r.cells[x] = IF x = t.cursor - 1 THEN "blank" ELSE t.cells[x]
    BY <1>2, <1>4, <2>1, <2>2
  <2>4. QED
    BY <1>0, <1>5, <2>2, <2>3 DEF IsPut
<1>6. CASE c = "x"
  <2>1. r = [cells |-> [t.cells EXCEPT ![t.cursor] = "x"], cursor |-> t.cursor + 1]
    BY <1>0, <1>6 DEF VirtualTerminals!Put
  <2>2. Moved(t.cursor, c) = t.cursor + 1 /\ t.cursor + 1 \in Int
    BY <1>1, <1>6 DEF Moved
  <2>3. /\ r \in Sheet /\ r.cursor = t.cursor + 1
        /\ \A x \in Cells : r.cells[x] = IF x = t.cursor THEN "x" ELSE t.cells[x]
    BY <1>1, <1>2, <1>4, <2>1, <2>2
  <2>4. QED
    BY <1>0, <1>6, <2>2, <2>3 DEF IsPut
<1>7. QED
  BY <1>3, <1>5, <1>6 DEF Keys

\* The picture after i characters.
Sheets(picture, text) ==
  LET after[i \in 0 .. Len(text)] ==
        IF i = 0 THEN picture ELSE VirtualTerminals!Put(after[i - 1], text[i])
  IN  after

LEMMA SheetsFacts ==
  ASSUME NEW picture \in Sheet, NEW text \in Seq(Keys)
  PROVE  /\ Sheets(picture, text) \in [0 .. Len(text) -> Sheet]
         /\ Sheets(picture, text)[0] = picture
         /\ \A i \in 1 .. Len(text) :
              Sheets(picture, text)[i] =
                VirtualTerminals!Put(Sheets(picture, text)[i - 1], text[i])
<1> DEFINE n == Len(text)
           Is(g) == g = [i \in 0 .. n |-> IF i = 0 THEN picture
                                          ELSE VirtualTerminals!Put(g[i - 1], text[i])]
           G == [x \in Sheet |-> [i \in 1 .. n |-> VirtualTerminals!Put(x, text[i])]]
<1>1. n \in Nat
  OBVIOUS
<1>2. \A x \in Sheet, i \in 1 .. n : G[x][i] = VirtualTerminals!Put(x, text[i])
  OBVIOUS
<1>3. \A i \in 1 .. n : text[i] \in Keys
  OBVIOUS
<1>4. G \in [Sheet -> [1 .. n -> Sheet]]
  <2>1. \A x \in Sheet, i \in 1 .. n : VirtualTerminals!Put(x, text[i]) \in Sheet
    BY <1>3, PutFacts DEF IsPut
  <2>2. QED
    BY <2>1
<1> HIDE DEF G, n
<1>5. PICK g \in [0 .. n -> Sheet] : Iterates(g, n, picture, G)
  BY <1>1, <1>4, Recursion, Zenon
<1>6. Is(g)
  <2>1. ASSUME NEW i \in 0 .. n
        PROVE  g[i] = IF i = 0 THEN picture ELSE VirtualTerminals!Put(g[i - 1], text[i])
    <3>1. g[i] = IF i = 0 THEN picture ELSE G[g[i - 1]][i]
      BY <1>5 DEF Iterates
    <3>2. i # 0 => i \in 1 .. n /\ g[i - 1] \in Sheet
      BY <1>1, <1>5
    <3>3. QED
      BY <1>2, <3>1, <3>2
  <2>2. DOMAIN g = 0 .. n
    BY <1>5
  <2>3. QED
    BY <1>5, <2>1, <2>2
<1>7. Sheets(picture, text) = CHOOSE h : Is(h)
  BY DEF Sheets, n
<1>8. Is(Sheets(picture, text))
  <2> HIDE DEF Is
  <2>1. QED
    BY <1>6, <1>7, Zenon
<1>9. PICK h : h = Sheets(picture, text) /\ Is(h)
  BY <1>8
<1>10. /\ h[0] = picture
       /\ \A i \in 1 .. n : h[i] = VirtualTerminals!Put(h[i - 1], text[i])
  <2>1. /\ DOMAIN h = 0 .. n
        /\ \A i \in 0 .. n :
             h[i] = IF i = 0 THEN picture ELSE VirtualTerminals!Put(h[i - 1], text[i])
    BY <1>9
  <2>2. h[0] = picture
    BY <1>1, <2>1
  <2>3. ASSUME NEW i \in 1 .. n PROVE h[i] = VirtualTerminals!Put(h[i - 1], text[i])
    <3>1. i \in 0 .. n /\ i # 0
      BY <1>1
    <3>2. QED
      BY <2>1, <3>1, Zenon
  <2>4. QED
    BY <2>2, <2>3
<1>11. h \in [0 .. n -> Sheet]
  <2> DEFINE S == {i \in 0 .. n : h[i] \in Sheet}
  <2>1. S \in SUBSET (0 .. n) /\ 0 \in S
    BY <1>1, <1>10
  <2>2. ASSUME NEW i \in 1 .. n, i - 1 \in S PROVE i \in S
    <3>1. h[i - 1] \in Sheet /\ text[i] \in Keys /\ i \in 0 .. n
      BY <1>1, <1>3, <2>2
    <3>2. QED
      <4>1. VirtualTerminals!Put(h[i - 1], text[i]) \in Sheet
        BY <3>1, PutFacts DEF IsPut
      <4>2. h[i] \in Sheet
        BY <1>10, <4>1
      <4>3. QED
        BY <3>1, <4>2
  <2> HIDE DEF S
  <2>3. S = 0 .. n
    BY <1>1, <2>1, <2>2, UpTo
  <2>4. \A i \in 0 .. n : h[i] \in Sheet
    BY <2>3 DEF S
  <2>5. DOMAIN h = 0 .. n
    BY <1>9
  <2>6. QED
    BY <1>9, <2>4, <2>5
<1>12. QED
  BY <1>9, <1>10, <1>11 DEF n

\* The ith character of a text changes cell c.
WritesTo(h, text, i, c) ==
  \/ text[i] = "x" /\ c = h[i - 1]
  \/ text[i] = "backspace" /\ c = h[i]

\* Cell c of s, i characters after picture, is as the last one that changed it
\* has left it; h is where the cursor was.
CellIs(picture, h, text, i, c, s) ==
  \/ /\ \A j \in 1 .. i : ~WritesTo(h, text, j, c)
     /\ s.cells[c] = picture.cells[c]
  \/ \E j \in 1 .. i :
       /\ WritesTo(h, text, j, c)
       /\ \A k \in j + 1 .. i : ~WritesTo(h, text, k, c)
       /\ s.cells[c] = IF text[j] = "x" THEN "x" ELSE "blank"

LEMMA CellStep ==
  ASSUME NEW picture, NEW h, NEW text \in Seq(Keys), NEW i \in 1 .. Len(text), NEW c \in Cells,
         NEW t \in Sheet, NEW s, h[i - 1] = t.cursor, h[i] = Moved(t.cursor, text[i]),
         CellIs(picture, h, text, i - 1, c, t), IsPut(t, text[i], s)
  PROVE  CellIs(picture, h, text, i, c, s)
<1>0. i \in Int /\ \A j \in 1 .. i : j = i \/ j \in 1 .. i - 1
  OBVIOUS
<1>1. CASE WritesTo(h, text, i, c)
  <2>1. s.cells[c] = IF text[i] = "x" THEN "x" ELSE "blank"
    BY <1>1 DEF WritesTo, IsPut
  <2>2. i \in 1 .. i /\ i + 1 .. i = {}
    BY <1>0
  <2>3. QED
    BY <1>1, <2>1, <2>2 DEF CellIs
<1>2. CASE ~WritesTo(h, text, i, c)
  <2>1. s.cells[c] = t.cells[c]
    BY <1>2 DEF WritesTo, IsPut
  <2>2. CASE /\ \A j \in 1 .. i - 1 : ~WritesTo(h, text, j, c)
             /\ t.cells[c] = picture.cells[c]
    <3>1. \A j \in 1 .. i : ~WritesTo(h, text, j, c)
      BY <1>0, <1>2, <2>2
    <3>2. QED
      BY <2>1, <2>2, <3>1 DEF CellIs
  <2>3. ASSUME NEW j \in 1 .. i - 1, WritesTo(h, text, j, c),
               \A k \in j + 1 .. i - 1 : ~WritesTo(h, text, k, c),
               t.cells[c] = IF text[j] = "x" THEN "x" ELSE "blank"
        PROVE  CellIs(picture, h, text, i, c, s)
    <3>1. j \in 1 .. i /\ \A k \in j + 1 .. i : k = i \/ k \in j + 1 .. i - 1
      BY <1>0
    <3>2. \A k \in j + 1 .. i : ~WritesTo(h, text, k, c)
      BY <1>2, <2>3, <3>1
    <3>3. s.cells[c] = IF text[j] = "x" THEN "x" ELSE "blank"
      BY <2>1, <2>3
    <3>4. QED
      BY <2>3, <3>1, <3>2, <3>3, Zenon DEF CellIs
  <2>4. QED
    BY <2>2, <2>3, Zenon DEF CellIs
<1>3. QED
  BY <1>1, <1>2

(* The cursor, and every cell, after any number of characters.                *)
LEMMA SheetIs ==
  ASSUME NEW picture \in Sheet, NEW text \in Seq(Keys), NEW i \in 0 .. Len(text)
  PROVE  /\ Sheets(picture, text)[i].cursor = Cursors(picture, text)[i]
         /\ \A c \in Cells :
              CellIs(picture, Cursors(picture, text), text, i, c, Sheets(picture, text)[i])
<1> DEFINE n == Len(text)
           Good(h, g, k) == /\ g[k].cursor = h[k]
                            /\ \A c \in Cells : CellIs(picture, h, text, k, c, g[k])
<1>1. n \in Nat /\ picture.cursor \in Int
  BY DEF Sheet
<1>2. PICK h \in [0 .. n -> Int] :
        /\ h = Cursors(picture, text) /\ h[0] = picture.cursor
        /\ \A k \in 1 .. n : h[k] = Moved(h[k - 1], text[k])
  BY <1>1, CursorsFacts
<1>3. PICK g \in [0 .. n -> Sheet] :
        /\ g = Sheets(picture, text) /\ g[0] = picture
        /\ \A k \in 1 .. n : g[k] = VirtualTerminals!Put(g[k - 1], text[k])
  BY SheetsFacts
<1> DEFINE S == {k \in 0 .. n : Good(h, g, k)}
<1>4. S \in SUBSET (0 .. n)
  OBVIOUS
<1>5. 0 \in S
  <2>1. 0 \in 0 .. n /\ 1 .. 0 = {}
    BY <1>1
  <2>2. \A c \in Cells : CellIs(picture, h, text, 0, c, g[0])
    BY <1>3, <2>1 DEF CellIs
  <2>3. QED
    BY <1>2, <1>3, <2>1, <2>2
<1>6. ASSUME NEW k \in 1 .. n, k - 1 \in S PROVE k \in S
  <2>1. /\ k \in 0 .. n /\ g[k - 1] \in Sheet /\ text[k] \in Keys
        /\ g[k - 1].cursor = h[k - 1]
    <3>1. k \in 0 .. n /\ k - 1 \in 0 .. n
      BY <1>1
    <3>2. text[k] \in Keys
      OBVIOUS
    <3>3. g[k - 1].cursor = h[k - 1]
      BY <1>6
    <3>4. QED
      BY <1>3, <3>1, <3>2, <3>3
  <2>2. IsPut(g[k - 1], text[k], g[k])
    BY <1>3, <2>1, PutFacts
  <2>3. h[k] = Moved(g[k - 1].cursor, text[k])
    BY <1>2, <2>1
  <2>4. g[k].cursor = h[k]
    BY <2>2, <2>3 DEF IsPut
  <2>5. ASSUME NEW c \in Cells PROVE CellIs(picture, h, text, k, c, g[k])
    <3>1. CellIs(picture, h, text, k - 1, c, g[k - 1])
      BY <1>6
    <3>2. h[k - 1] = g[k - 1].cursor
      BY <2>1
    <3>3. QED
      BY <2>1, <2>2, <2>3, <3>1, <3>2, CellStep
  <2>6. QED
    BY <2>1, <2>4, <2>5
<1> HIDE DEF S
<1>7. S = 0 .. n
  BY <1>1, <1>4, <1>5, <1>6, UpTo
<1>8. i \in S
  BY <1>7
<1>9. QED
  BY <1>2, <1>3, <1>8 DEF S

(* Printed is what Terminals puts on a terminal.                              *)
LEMMA PrintedIsPut ==
  ASSUME NEW picture \in Picture, NEW text \in Seq(Keys), Fits(picture, text)
  PROVE  Printed(picture, text) = VirtualTerminals!PutAll(picture, text)
<1> DEFINE n == Len(text)
<1>1. n \in Nat /\ n \in 0 .. n /\ picture \in Sheet
  <2>1. MAX_CURSOR \in Int
    BY BoundsAssumption, SizesAssumption
  <2>2. Cells \subseteq Int
    BY <2>1 DEF Cells
  <2>3. picture \in Sheet
    BY <2>2 DEF Picture, Sheet
  <2>4. QED
    BY <2>3
<1>2. PICK h : h = Cursors(picture, text)
  OBVIOUS
<1>3. PICK s : s = Sheets(picture, text)[n]
  OBVIOUS
<1>4. /\ s \in Sheet /\ s.cursor = h[n]
      /\ \A c \in Cells : CellIs(picture, h, text, n, c, s)
  BY <1>1, <1>2, <1>3, SheetsFacts, SheetIs
<1>5. VirtualTerminals!PutAll(picture, text) = [s EXCEPT !.cells[s.cursor] = "blank"]
  BY <1>3 DEF VirtualTerminals!PutAll, Sheets
<1> DEFINE last(c) == CHOOSE i \in 1 .. n : /\ WritesTo(h, text, i, c)
                                            /\ \A j \in i + 1 .. n : ~WritesTo(h, text, j, c)
           cell(c) == IF c = h[n] THEN "blank"
                      ELSE IF \E i \in 1 .. n : WritesTo(h, text, i, c)
                        THEN IF text[last(c)] = "x" THEN "x" ELSE "blank"
                      ELSE picture.cells[c]
<1>6. Printed(picture, text) = [cursor |-> h[n], cells |-> [c \in Cells |-> cell(c)]]
  BY <1>2 DEF Printed, Cursors, WritesTo
<1>7. h[n] \in Cells
  BY <1>6 DEF Fits
<1>8. ASSUME NEW c \in Cells, c # h[n]
      PROVE  s.cells[c] = cell(c)
  <2>1. CellIs(picture, h, text, n, c, s)
    BY <1>4
  <2>2. CASE /\ \A j \in 1 .. n : ~WritesTo(h, text, j, c)
             /\ s.cells[c] = picture.cells[c]
    BY <1>8, <2>2
  <2>3. ASSUME NEW j \in 1 .. n, WritesTo(h, text, j, c),
               \A k \in j + 1 .. n : ~WritesTo(h, text, k, c),
               s.cells[c] = IF text[j] = "x" THEN "x" ELSE "blank"
        PROVE  s.cells[c] = cell(c)
    <3>1. PICK i \in 1 .. n : /\ i = last(c) /\ WritesTo(h, text, i, c)
                              /\ \A k \in i + 1 .. n : ~WritesTo(h, text, k, c)
      BY <2>3
    <3>2. i = j
      <4>1. ~(i < j) /\ ~(j < i)
        BY <1>1, <2>3, <3>1
      <4>2. QED
        BY <1>1, <4>1
    <3>3. QED
      BY <1>8, <2>3, <3>1, <3>2
  <2>4. QED
    BY <2>1, <2>2, <2>3, Zenon DEF CellIs
<1>9. [s EXCEPT !.cells[s.cursor] = "blank"]
        = [cursor |-> h[n], cells |-> [c \in Cells |-> cell(c)]]
  <2>1. PICK d \in [Cells -> Character], m \in Int : s = [cells |-> d, cursor |-> m]
    BY <1>4 DEF Sheet
  <2>2. d = s.cells /\ m = h[n]
    BY <1>4, <2>1
  <2>3. [s EXCEPT !.cells[s.cursor] = "blank"]
          = [cells |-> [d EXCEPT ![m] = "blank"], cursor |-> m]
    BY <2>1
  <2>4. \A c \in Cells : [d EXCEPT ![m] = "blank"][c] = cell(c)
    BY <1>7, <1>8, <2>2
  <2> HIDE DEF cell
  <2>5. [d EXCEPT ![m] = "blank"] = [c \in Cells |-> cell(c)]
    BY <2>4
  <2>6. QED
    BY <2>2, <2>3, <2>5
<1>10. QED
  BY <1>5, <1>6, <1>9

-----------------------------------------------------------------------------
(* Screen implements Terminals.                                              *)

\* What a request has found out is true until screens are switched.
RequestsSound ==
  \A p \in Procs : request[p] # NULL =>
    \/ request[p].switched
    \/ request[p].hidden <=> request[p].screen # current_screen_index

\* The variables of Terminals.
Terminal == [s \in Screens |-> IF s = current_screen_index THEN video
                               ELSE screen_list[s].screen]

Requested == [p \in Procs |->
  IF request[p] = NULL THEN NULL
  ELSE [screen |-> request[p].screen, text |-> request[p].text,
        switched |-> request[p].switched]]

(* What is printed is a text of keys.                                         *)
LEMMA TextsOfKeys == Texts \cup {<<"backspace">>} \subseteq Seq(Keys)
<1>1. \A text \in Texts : text \in Seq(Keys)
  BY TextsAssumption DEF Keys
<1>2. <<"backspace">> \in Seq(Keys)
  BY DEF Keys
<1>3. QED
  BY <1>1, <1>2

(* print puts the text on the terminal that is shown.                         *)
LEMMA PrintPuts ==
  ASSUME IInv, NEW text \in Texts \cup {<<"backspace">>}, print(text)
  PROVE  /\ Terminal' = [Terminal EXCEPT ![current_screen_index] =
                           VirtualTerminals!PutAll(@, text)]
         /\ current_screen_index' = current_screen_index
<1>1. /\ video \in Picture /\ current_screen_index \in Screens
      /\ screen_list \in [Screens -> screen_descriptor]
  BY DEF IInv, ListOK
<1>2. /\ Fits(video, text) /\ video' = Printed(video, text)
      /\ current_screen_index' = current_screen_index
      /\ scroll_lines(screen_list, current_screen_index, ScrollAfter(video'.cursor))
  BY DEF print
<1>3. video' = VirtualTerminals!PutAll(video, text)
  BY <1>1, <1>2, TextsOfKeys, PrintedIsPut
<1>4. ASSUME NEW s \in Screens PROVE screen_list'[s].screen = screen_list[s].screen
  BY <1>1, <1>2 DEF scroll_lines, screen_descriptor
<1>5. QED
  BY <1>1, <1>2, <1>3, <1>4 DEF Terminal

LEMMA InitTerminals == Init => VirtualTerminals!Init
<1> SUFFICES ASSUME Init PROVE VirtualTerminals!Init
  OBVIOUS
<1>1. Terminal = [s \in Screens |-> Blank]
  BY DEF Init, Terminal
<1>2. Requested = [p \in Procs |-> NULL]
  BY DEF Init, Requested
<1>3. QED
  BY <1>1, <1>2 DEF Init, VirtualTerminals!Init, Terminal, Requested, Blank

LEMMA SoundStep == ASSUME IInv, RequestsSound, [Next]_vars PROVE RequestsSound'
<1>0. request \in [Procs -> Request \cup {NULL}]
  BY DEF IInv, ListOK
<1>1. CASE UNCHANGED <<request, current_screen_index>>
  BY <1>1 DEF RequestsSound
<1>2. ASSUME NEW p \in Procs, request' = [request EXCEPT ![p] = NULL],
             UNCHANGED current_screen_index
      PROVE  RequestsSound'
  BY <1>0, <1>2 DEF RequestsSound
<1>3. ASSUME NEW s \in Screens, switch_screen(s) PROVE RequestsSound'
  <2> SUFFICES ASSUME NEW p \in Procs, request'[p] # NULL PROVE request'[p].switched
    BY DEF RequestsSound
  <2>1. request'[p] = [request[p] EXCEPT !.switched = TRUE] /\ request[p] \in Request
    BY <1>0, <1>3 DEF switch_screen
  <2>2. QED
    BY <2>1 DEF Request
<1>4. ASSUME NEW p \in Procs, NEW s \in Screens, NEW text \in Texts,
             CompareScreen(p, s, text)
      PROVE  RequestsSound'
  <2> DEFINE r == [screen |-> s, text |-> text, hidden |-> s # current_screen_index,
                   switched |-> FALSE]
  <2>1. /\ request' = [request EXCEPT ![p] = r]
        /\ current_screen_index' = current_screen_index
    BY <1>4 DEF CompareScreen
  <2>2. r.hidden <=> r.screen # current_screen_index
    OBVIOUS
  <2> HIDE DEF r
  <2>3. QED
    BY <1>0, <2>1, <2>2 DEF RequestsSound
<1>5. QED
  BY <1>1, <1>2, <1>3, <1>4
     DEF Next, vars, Echo, print, ScrollKey, PrintShown, PrintHidden

LEMMA EchoPuts ==
  ASSUME IInv, NEW text \in Texts \cup {<<"backspace">>}, Echo(text)
  PROVE  VirtualTerminals!Echo
<1>1. print(text) /\ UNCHANGED request
  BY DEF Echo
<1>2. /\ Terminal' = [Terminal EXCEPT ![current_screen_index] =
                        VirtualTerminals!PutAll(@, text)]
      /\ current_screen_index' = current_screen_index
  BY <1>1, PrintPuts
<1>3. Requested' = Requested
  BY <1>1 DEF Requested
<1>4. QED
  BY <1>2, <1>3 DEF VirtualTerminals!Echo, Terminal, Requested

LEMMA SwitchSwitches ==
  ASSUME IInv, NEW s \in Screens, switch_screen(s)
  PROVE  VirtualTerminals!Switch
<1> DEFINE c == current_screen_index
           stored == [screen_list EXCEPT ![c].screen = video]
<1>1. /\ screen_list' = stored /\ video' = stored[s].screen /\ current_screen_index' = s
      /\ request' = [p \in Procs |->
           IF request[p] = NULL THEN NULL ELSE [request[p] EXCEPT !.switched = TRUE]]
  BY DEF switch_screen
<1>2. \A r \in Screens : stored[r].screen = IF r = c THEN video ELSE screen_list[r].screen
  BY DEF IInv, ListOK, screen_descriptor
<1>3. Terminal' = Terminal
  BY <1>1, <1>2 DEF Terminal
<1>4. Requested' = [p \in Procs |-> IF Requested[p] = NULL THEN NULL
                                    ELSE [Requested[p] EXCEPT !.switched = TRUE]]
  <2>1. ASSUME NEW p \in Procs
        PROVE  Requested'[p] = IF Requested[p] = NULL THEN NULL
                               ELSE [Requested[p] EXCEPT !.switched = TRUE]
    <3>1. CASE request[p] = NULL
      BY <1>1, <3>1 DEF Requested
    <3>2. CASE request[p] # NULL
      <4>1. PICK r \in Request : r = request[p]
        BY <3>2 DEF IInv, ListOK
      <4>2. Requested[p] = [screen |-> r.screen, text |-> r.text, switched |-> r.switched]
        BY <3>2, <4>1 DEF Requested
      <4>3. Requested[p] # NULL
        BY <4>2, NULLAssumption DEF Request
      <4>4. request'[p] = [r EXCEPT !.switched = TRUE] /\ request'[p] # NULL
        BY <1>1, <3>2, <4>1, NULLAssumption DEF Request
      <4>5. Requested'[p] = [screen |-> r.screen, text |-> r.text, switched |-> TRUE]
        BY <4>4 DEF Requested, Request
      <4>6. PICK q, z : q = Requested[p] /\ z = Requested'[p]
        OBVIOUS
      <4>7. [q EXCEPT !.switched = TRUE] = z
        <5> DEFINE R == [screen : Screens, text : Texts, switched : BOOLEAN]
        <5>1. q \in R /\ q.screen = r.screen /\ q.text = r.text
          BY <4>2, <4>6 DEF Request
        <5>2. z \in R /\ z.screen = r.screen /\ z.text = r.text /\ z.switched = TRUE
          BY <4>5, <4>6 DEF Request
        <5>3. PICK y : y = [q EXCEPT !.switched = TRUE]
          OBVIOUS
        <5>4. /\ y \in R /\ y.screen = q.screen /\ y.text = q.text
              /\ y.switched = TRUE
          BY <5>1, <5>3
        <5>5. y = z
          BY <5>1, <5>2, <5>4
        <5>6. QED
          BY <5>3, <5>5
      <4>8. QED
        BY <4>3, <4>6, <4>7
    <3>3. QED
      BY <3>1, <3>2
  <2>2. QED
    BY <2>1 DEF Requested
<1>5. QED
  BY <1>1, <1>3, <1>4 DEF VirtualTerminals!Switch, Terminal, Requested

LEMMA CompareRequests ==
  ASSUME IInv, NEW p \in Procs, NEW s \in Screens, NEW text \in Texts,
         CompareScreen(p, s, text)
  PROVE  VirtualTerminals!Request(p)
<1> DEFINE r == [screen |-> s, text |-> text, hidden |-> s # current_screen_index,
                 switched |-> FALSE]
           q == [screen |-> s, text |-> text, switched |-> FALSE]
<1>1. /\ request[p] = NULL /\ request' = [request EXCEPT ![p] = r]
      /\ UNCHANGED <<screen_list, current_screen_index, video>>
  BY DEF CompareScreen
<1>2. r # NULL
  <2>1. r \in Request
    BY Zenon DEF Request
  <2> HIDE DEF r
  <2>2. QED
    BY <2>1, NULLAssumption
<1>3. q = [screen |-> r.screen, text |-> r.text, switched |-> r.switched]
  OBVIOUS
<1>4. Terminal' = Terminal
  BY <1>1 DEF Terminal
<1> HIDE DEF r, q
<1>5. Requested[p] = NULL
  BY <1>1 DEF Requested
<1>6. Requested' = [Requested EXCEPT ![p] = q]
  BY <1>1, <1>2, <1>3 DEF Requested, IInv, ListOK
<1>7. text \in Texts \cup {<<"backspace">>}
  OBVIOUS
<1>8. QED
  BY <1>1, <1>4, <1>5, <1>6, <1>7 DEF VirtualTerminals!Request, Terminal, Requested, q

\* What a process prints it has requested.
LEMMA RequestFacts ==
  ASSUME IInv, NEW p \in Procs, request[p] # NULL
  PROVE  /\ request[p].screen \in Screens
         /\ request[p].text \in Texts \cup {<<"backspace">>}
         /\ Requested[p] # NULL
         /\ Requested[p].screen = request[p].screen
         /\ Requested[p].text = request[p].text
         /\ Requested[p].switched = request[p].switched
<1>1. PICK r \in Request : r = request[p]
  BY DEF IInv, ListOK
<1>2. /\ r.screen \in Screens /\ r.text \in Texts /\ r.switched \in BOOLEAN
  BY DEF Request
<1>3. Requested[p] = [screen |-> r.screen, text |-> r.text, switched |-> r.switched]
  BY <1>1 DEF Requested
<1>4. Requested[p] # NULL
  BY <1>2, <1>3, NULLAssumption
<1>5. QED
  BY <1>1, <1>2, <1>3, <1>4

LEMMA ShownOutputs ==
  ASSUME IInv, RequestsSound, NEW p \in Procs, PrintShown(p)
  PROVE  VirtualTerminals!Output(p)
<1> DEFINE text == request[p].text
<1>1. /\ request[p] # NULL /\ ~request[p].hidden
      /\ print(text) /\ request' = [request EXCEPT ![p] = NULL]
  BY DEF PrintShown
<1>2. /\ Terminal' = [Terminal EXCEPT ![current_screen_index] =
                        VirtualTerminals!PutAll(@, text)]
      /\ current_screen_index' = current_screen_index
  BY <1>1, RequestFacts, PrintPuts
<1>3. Requested' = [Requested EXCEPT ![p] = NULL]
  BY <1>1 DEF Requested, IInv, ListOK
<1>4. request[p].switched \/ request[p].screen = current_screen_index
  BY <1>1 DEF RequestsSound
<1>5. /\ Requested[p] # NULL /\ Requested[p].screen = request[p].screen
      /\ Requested[p].text = text /\ Requested[p].switched = request[p].switched
  BY <1>1, RequestFacts
<1>6. QED
  BY <1>2, <1>3, <1>4, <1>5 DEF VirtualTerminals!Output, Terminal, Requested

LEMMA HiddenOutputs ==
  ASSUME IInv, RequestsSound, NEW p \in Procs, PrintHidden(p)
  PROVE  VirtualTerminals!Output(p)
<1> DEFINE text == request[p].text
           s == request[p].screen
           sd == screen_list[s]
<1>1. /\ request[p] # NULL /\ request[p].hidden /\ Fits(sd.screen, text)
      /\ screen_list' = [screen_list EXCEPT ![s] =
           [screen |-> Printed(sd.screen, text),
            scroll |-> sd.scroll + ScrollHidden(sd, text)]]
      /\ request' = [request EXCEPT ![p] = NULL]
      /\ UNCHANGED <<current_screen_index, video>>
  BY DEF PrintHidden
<1>2. /\ Requested[p] # NULL /\ Requested[p].screen = s
      /\ Requested[p].text = text /\ Requested[p].switched = request[p].switched
      /\ s \in Screens /\ text \in Seq(Keys)
  BY <1>1, RequestFacts, TextsOfKeys
<1>3. Requested' = [Requested EXCEPT ![p] = NULL]
  BY <1>1 DEF Requested, IInv, ListOK
<1>4. Printed(sd.screen, text) = VirtualTerminals!PutAll(sd.screen, text)
  <2>1. sd.screen \in Picture
    BY <1>2 DEF IInv, ListOK, screen_descriptor
  <2>2. QED
    BY <1>1, <1>2, <2>1, PrintedIsPut
<1>5. CASE s = current_screen_index
  <2>1. Terminal' = Terminal
    BY <1>1, <1>5 DEF Terminal, IInv, ListOK
  <2>2. request[p].switched
    BY <1>1, <1>5 DEF RequestsSound
  <2>3. QED
    BY <1>1, <1>2, <1>3, <2>1, <2>2 DEF VirtualTerminals!Output, Terminal, Requested
<1>6. CASE s # current_screen_index
  <2>1. Terminal' = [Terminal EXCEPT ![s] = VirtualTerminals!PutAll(@, text)]
    BY <1>1, <1>2, <1>4, <1>6 DEF Terminal, IInv, ListOK
  <2>2. QED
    BY <1>1, <1>2, <1>3, <2>1 DEF VirtualTerminals!Output, Terminal, Requested
<1>7. QED
  BY <1>5, <1>6

(* Every step is one of Terminals or changes nothing there.                   *)
LEMMA NextTerminals ==
  ASSUME IInv, RequestsSound, [Next]_vars
  PROVE  [VirtualTerminals!Next]_VirtualTerminals!vars
<1>1. CASE Terminal' = Terminal /\ UNCHANGED <<current_screen_index, request>>
  <2>1. Requested' = Requested
    BY <1>1 DEF Requested
  <2>2. QED
    BY <1>1, <2>1 DEF VirtualTerminals!vars, Terminal, Requested
<1>2. CASE UNCHANGED vars
  BY <1>1, <1>2 DEF vars, Terminal
<1>3. ASSUME NEW n \in {-ROWS, -1, 1, ROWS}, ScrollKey(n)
      PROVE  Terminal' = Terminal /\ UNCHANGED <<current_screen_index, request>>
  <2>1. \A s \in Screens : screen_list'[s].screen = screen_list[s].screen
    BY <1>3 DEF ScrollKey, scroll_lines, IInv, ListOK, screen_descriptor
  <2>2. UNCHANGED <<current_screen_index, request, video>>
    BY <1>3 DEF ScrollKey
  <2>3. QED
    BY <2>1, <2>2 DEF Terminal
<1>4. ASSUME NEW text \in Texts \cup {<<"backspace">>}, Echo(text)
      PROVE  VirtualTerminals!Next
  BY <1>4, EchoPuts DEF VirtualTerminals!Next
<1>5. ASSUME NEW s \in Screens, switch_screen(s) PROVE VirtualTerminals!Next
  BY <1>5, SwitchSwitches DEF VirtualTerminals!Next
<1>6. ASSUME NEW p \in Procs,
             \/ \E s \in Screens, text \in Texts : CompareScreen(p, s, text)
             \/ PrintShown(p)
             \/ PrintHidden(p)
      PROVE  VirtualTerminals!Next
  BY <1>6, CompareRequests, ShownOutputs, HiddenOutputs DEF VirtualTerminals!Next
<1>7. QED
  BY <1>1, <1>2, <1>3, <1>4, <1>5, <1>6 DEF Next

(* The screens, in the video memory and in their copies, behave like          *)
(* terminals: output appears on the one it is for whoever prints and whatever *)
(* is shown, unless screens are switched while it is made (screen.c:72,       *)
(* :138 and :179).                                                            *)
THEOREM TerminalsImplemented == Spec => ImplementsTerminals
<1>1. Init => IInv /\ RequestsSound /\ VirtualTerminals!Init
  <2>1. Init => RequestsSound
    BY DEF Init, RequestsSound
  <2>2. QED
    BY <2>1, InitInv, InitTerminals
<1>2. IInv /\ RequestsSound /\ [Next]_vars =>
        IInv' /\ RequestsSound' /\ [VirtualTerminals!Next]_VirtualTerminals!vars
  BY NextInv, SoundStep, NextTerminals
<1>3. QED
  BY <1>1, <1>2, PTL DEF Spec, ImplementsTerminals, VirtualTerminals!Spec

-----------------------------------------------------------------------------
(* The cursor is on the display after print.                                 *)

LEMMA Sizes ==
  /\ COLUMNS \in Nat \ {0} /\ WORD \in Nat \ {0} /\ ROWS \in Nat \ {0}
  /\ ROWS * COLUMNS \in Nat /\ ROWS * COLUMNS >= COLUMNS
  /\ MAX_CURSOR \in Nat /\ MAX_CURSOR < WORD
<1>1. COLUMNS \in Nat \ {0} /\ WORD \in Nat \ {0} /\ ROWS \in Nat \ {0}
  BY SizesAssumption
<1>2. ROWS * COLUMNS \in Nat /\ ROWS * COLUMNS >= COLUMNS
  BY <1>1
<1>3. MAX_CURSOR \in 0 .. WORD \div 2 - 1 /\ WORD \div 2 <= WORD /\ WORD \div 2 \in Int
  BY <1>1, BoundsAssumption
<1>4. QED
  BY <1>1, <1>2, <1>3

(* What the register can hold it holds.                                       *)
LEMMA Held ==
  ASSUME NEW x \in 0 .. WORD - 1
  PROVE  x % WORD = x
<1>1. WORD \in Nat \ {0}
  BY Sizes
<1>2. QED
  BY <1>1

LEMMA Division ==
  ASSUME NEW w \in Int, w > 0, NEW d \in Nat
  PROVE  \E q \in Nat : /\ d \div w = q /\ q * w \in Nat
                        /\ q * w <= d /\ d < q * w + w
<1>1. d \div w \in Int /\ d = w * (d \div w) + (d % w) /\ d \div w >= 0
  OBVIOUS
<1>2. d % w \in Int /\ 0 <= d % w /\ d % w < w
  OBVIOUS
<1>3. PICK q \in Nat : q = d \div w
  BY <1>1
<1>4. PICK r \in Int : r = d % w /\ 0 <= r /\ r < w
  BY <1>2
<1>5. q * w \in Nat /\ q * w = w * q /\ d = w * q + r
  BY <1>1, <1>3, <1>4
<1>6. QED
  BY <1>3, <1>4, <1>5

LEMMA Quotient ==
  ASSUME NEW d \in Nat
  PROVE  \E q \in Nat : /\ d \div COLUMNS = q /\ q * COLUMNS \in Nat
                        /\ q * COLUMNS <= d /\ d < q * COLUMNS + COLUMNS
<1>1. COLUMNS \in Int /\ COLUMNS > 0
  BY Sizes
<1>2. QED
  BY <1>1, Division

(* print scrolls to the cursor, whichever way, and the register does not wrap  *)
(* on the way: not if the cursor is behind the first line, wherever the        *)
(* display started, and not in the first line if it started at a line.         *)
LEMMA ScrollsToCursor ==
  ASSUME start \in 0 .. WORD - 1, NEW c \in 0 .. MAX_CURSOR,
         c >= COLUMNS \/ (c > 0 /\ \E k \in Nat : start = k * COLUMNS)
  PROVE  LET p == start + ScrollAfter(c) * COLUMNS
         IN  /\ p \in 0 .. WORD - 1
             /\ c \in p .. p + ROWS * COLUMNS
<1>1. start \in Nat /\ start < WORD /\ c \in Nat /\ c < WORD
  BY Sizes
<1>2. PICK R \in Nat : R = ROWS * COLUMNS /\ R >= COLUMNS
  BY Sizes
<1>4. CASE start + R < c
  <2>1. PICK d \in Nat : d = c - start - R /\ d >= 0
    BY <1>1, <1>2, <1>4
  <2>2. PICK q \in Nat : /\ d \div COLUMNS = q /\ q * COLUMNS \in Nat
                         /\ q * COLUMNS <= d /\ d < q * COLUMNS + COLUMNS
    BY Quotient
  <2>3. ScrollAfter(c) = q + 1
    BY <1>2, <1>4, <2>1, <2>2 DEF ScrollAfter, Div
  <2>4. (q + 1) * COLUMNS = q * COLUMNS + COLUMNS
    BY Sizes
  <2>5. QED
    BY <1>1, <1>2, <2>1, <2>2, <2>3, <2>4, Sizes
<1>5. CASE start > c
  <2>1. PICK d \in Nat : d = start - c /\ c - start < 0 /\ -(c - start) = d
    BY <1>1, <1>2, <1>5
  <2>2. PICK q \in Nat : /\ d \div COLUMNS = q /\ q * COLUMNS \in Nat
                         /\ q * COLUMNS <= d /\ d < q * COLUMNS + COLUMNS
    BY Quotient
  <2>3. ScrollAfter(c) = -q - 1
    <3>1. ~(start + R < c)
      BY <1>1, <1>2, <1>5
    <3>2. ScrollAfter(c) = Div(c - start, COLUMNS) - 1
      BY <1>2, <1>5, <3>1 DEF ScrollAfter
    <3>3. ~(c - start >= 0)
      BY <1>1, <2>1
    <3>4. Div(c - start, COLUMNS) = -(d \div COLUMNS)
      BY <2>1, <3>3 DEF Div
    <3>5. QED
      BY <2>2, <3>2, <3>4
  <2>4. (-q - 1) * COLUMNS = -(q * COLUMNS) - COLUMNS
    BY Sizes
  <2>5. start - q * COLUMNS - COLUMNS >= 0
    <3>1. CASE c >= COLUMNS
      BY <1>1, <2>1, <2>2, <3>1, Sizes
    <3>2. ASSUME c > 0, NEW k \in Nat, start = k * COLUMNS
          PROVE  start - q * COLUMNS - COLUMNS >= 0
      <4>1. q < k
        <5> SUFFICES ASSUME k <= q PROVE FALSE
          OBVIOUS
        <5>1. k * COLUMNS <= q * COLUMNS
          BY Sizes
        <5>2. QED
          BY <1>1, <2>1, <2>2, <3>2, <5>1
      <4>2. k * COLUMNS >= (q + 1) * COLUMNS /\ (q + 1) * COLUMNS = q * COLUMNS + COLUMNS
        BY <4>1, Sizes
      <4>3. QED
        BY <1>1, <2>2, <3>2, <4>2, Sizes
    <3>3. QED
      BY <3>1, <3>2
  <2>6. QED
    BY <1>1, <1>2, <2>1, <2>2, <2>3, <2>4, <2>5, Sizes
<1>6. CASE ~(start + R < c) /\ ~(start > c)
  <2>1. ScrollAfter(c) = 0
    BY <1>2, <1>6 DEF ScrollAfter
  <2>2. QED
    BY <1>1, <1>2, <1>6, <2>1, Sizes
<1>7. QED
  BY <1>4, <1>5, <1>6

\* What PrintShowsCursor says of a step.
Shows ==
  (/\ ~misdirected
   /\ video'.cursor # video.cursor
   /\ current_screen_index' = current_screen_index
   /\ video'.cursor >= COLUMNS \/ (video'.cursor > 0 /\ OnLine))
    => video'.cursor \in start' .. start' + ROWS * COLUMNS

LEMMA PrintShows ==
  ASSUME IInv, NEW text, print(text)
  PROVE  Shows
<1> SUFFICES ASSUME ~misdirected,
                    video'.cursor >= COLUMNS \/ (video'.cursor > 0 /\ OnLine)
             PROVE  video'.cursor \in start' .. start' + ROWS * COLUMNS
  BY DEF Shows
<1>1. PICK line \in Int : line = screen_list[current_screen_index].scroll
  BY DEF IInv, ListOK, screen_descriptor
<1>2. line * COLUMNS \in Int /\ WORD \in Nat \ {0}
  BY Sizes
<1>3. start = (line * COLUMNS) % WORD
  BY <1>1 DEF IInv, StartIsScroll
<1>4. start \in 0 .. WORD - 1
  BY <1>2, <1>3
<1>5. OnLine => line \in Nat /\ start = line * COLUMNS
  <2> SUFFICES ASSUME line >= 0, line * COLUMNS < WORD
               PROVE  line \in Nat /\ start = line * COLUMNS
    BY <1>1 DEF OnLine
  <2>1. line \in Nat /\ line * COLUMNS \in Nat
    BY Sizes
  <2>2. line * COLUMNS \in 0 .. WORD - 1
    BY <1>2, <2>1
  <2>3. QED
    BY <1>3, <2>1, <2>2, Held
<1>6. PICK c \in 0 .. MAX_CURSOR : c = video'.cursor
  BY DEF print, Fits, Cells
<1>7. c >= COLUMNS \/ (c > 0 /\ \E k \in Nat : start = k * COLUMNS)
  BY <1>5, <1>6
<1>8. PICK p : p = start + ScrollAfter(c) * COLUMNS
  OBVIOUS
<1>9. p \in 0 .. WORD - 1 /\ c \in p .. p + ROWS * COLUMNS
  BY <1>4, <1>7, <1>8, ScrollsToCursor
<1>10. start' = p % WORD
  BY <1>6, <1>8 DEF print, scroll_lines
<1>11. QED
  BY <1>6, <1>9, <1>10, Held

LEMMA StepShows ==
  ASSUME IInv, [Next]_vars
  PROVE  Shows
<1>1. CASE UNCHANGED video
  BY <1>1 DEF Shows
<1>2. ASSUME NEW text \in Texts \cup {<<"backspace">>}, Echo(text) PROVE Shows
  BY <1>2, PrintShows DEF Echo
<1>3. ASSUME NEW s \in Screens, switch_screen(s) PROVE Shows
  <2> SUFFICES ASSUME current_screen_index' = current_screen_index
               PROVE  UNCHANGED video
    BY <1>1 DEF Shows
  <2>1. current_screen_index \in Screens
    BY DEF IInv, ListOK
  <2>2. QED
    BY <1>3, <2>1 DEF switch_screen, IInv, ListOK, screen_descriptor
<1>4. ASSUME NEW p \in Procs, PrintShown(p) PROVE Shows
  BY <1>4, PrintShows DEF PrintShown
<1>5. ASSUME \/ vars' = vars
             \/ \E n \in {-ROWS, -1, 1, ROWS} : ScrollKey(n)
             \/ \E p \in Procs : \/ \E s \in Screens, text \in Texts :
                                      CompareScreen(p, s, text)
                                \/ PrintHidden(p)
      PROVE  Shows
  BY <1>1, <1>5 DEF vars, ScrollKey, CompareScreen, PrintHidden
<1>6. QED
  BY <1>2, <1>3, <1>4, <1>5 DEF Next

(* Wherever users, other screens and earlier output have left the display,    *)
(* above the first line too, the cursor is on it after something has been     *)
(* printed, but for a cursor that is in the first line when the display was   *)
(* above it (screen.c:115 and :171), or in the first cell.                    *)
THEOREM CursorIsShown == Spec => PrintShowsCursor
<1>1. Init => IInv
  BY InitInv
<1>2. IInv /\ [Next]_vars => IInv' /\ Shows
  BY NextInv, StepShows
<1>3. Spec => [][Shows]_vars
  <2> HIDE DEF Shows
  <2>1. QED
    BY <1>1, <1>2, PTL DEF Spec
<1>4. QED
  BY <1>3 DEF PrintShowsCursor, Shows

=============================================================================
