---------------------------- MODULE MemoryProofs ----------------------------
(***************************************************************************)
(* Proofs about module Memory, for every memory map of sorted areas that   *)
(* do not overlap, every number of page tables and pages, and programs of  *)
(* every size.                                                             *)
(*                                                                         *)
(* Allocating and freeing replace a few neighbours of the list by others,  *)
(* and Window says what that does to the sums over a list.  The functions  *)
(* that allocate_memory and FreeBlocks call again and again have a lemma   *)
(* for one call, and Recursion makes it one for any number.                *)
(*                                                                         *)
(* The inductive invariant adds to the accounting that blocks fit: those   *)
(* before a block are not larger, together, than its base says.  It holds  *)
(* also when the list is out of order, and is why no address gets negative.*)
(***************************************************************************)
EXTENDS Memory, FiniteSetTheorems, SequenceTheorems, WellFoundedInduction, TLAPS

-----------------------------------------------------------------------------
(* Lemmas about numbers, recursive functions and sequences. *)

(* A non-empty set of natural numbers has a minimum, which Min chooses. *)
LEMMA MinExists ==
  ASSUME NEW T \in SUBSET Nat, T # {}
  PROVE  Min(T) \in T /\ \A y \in T : Min(T) <= y
<1> DEFINE Less == {ss \in Nat \X Nat : ss[1] < ss[2]}
<1>1. IsWellFoundedOn(Less, Nat)
  BY NatLessThanWellFounded, Zenon DEF OpToRel
<1>2. PICK x \in T : \A y \in T : ~(<<y, x>> \in Less)
  <2> HIDE DEF Less
  <2> QED
    BY <1>1, WFMin, Zenon
<1>3. \A y \in T : x <= y
  <2> SUFFICES ASSUME NEW y \in T PROVE x <= y
    OBVIOUS
  <2>1. <<y, x>> \in Nat \X Nat /\ ~(<<y, x>> \in Less)
    BY <1>2
  <2>2. ~(<<y, x>>[1] < <<y, x>>[2])
    BY <2>1
  <2>3. QED
    BY <2>2
<1>4. QED
  BY <1>3, Zenon DEF Min

(* What holds of 0, and of a number if of the one before it, holds up to n.   *)
LEMMA UpTo ==
  ASSUME NEW n \in Nat, NEW S \in SUBSET (0 .. n), 0 \in S,
         \A i \in 1 .. n : i - 1 \in S => i \in S
  PROVE  S = 0 .. n
<1> DEFINE T == (0 .. n) \ S
<1> SUFFICES ASSUME T # {} PROVE FALSE
  OBVIOUS
<1>1. T \in SUBSET Nat
  OBVIOUS
<1>2. PICK x \in T : \A y \in T : x <= y
  <2> HIDE DEF T
  <2>1. QED
    BY <1>1, MinExists
<1>3. x \in 1 .. n /\ x - 1 \in 0 .. n /\ ~(x <= x - 1)
  OBVIOUS
<1>4. x - 1 \in S
  BY <1>2, <1>3
<1>5. QED
  BY <1>3, <1>4

\* g starts with a, and G gives each value from the one before.
Iterates(g, n, a, G) == g = [i \in 0 .. n |-> IF i = 0 THEN a ELSE G[g[i - 1]][i]]

(* There are such functions.                                                  *)
LEMMA Recursion ==
  ASSUME NEW n \in Nat, NEW S, NEW a \in S, NEW G \in [S -> [1 .. n -> S]]
  PROVE  \E g \in [0 .. n -> S] : Iterates(g, n, a, G)
<1> DEFINE Follows(g, k) == g = [i \in 0 .. k |-> IF i = 0 THEN a ELSE G[g[i - 1]][i]]
           K == {k \in 0 .. n : \E g \in [0 .. k -> S] : Follows(g, k)}
<1>1. 0 \in K
  <2> DEFINE g == [i \in 0 .. 0 |-> a]
  <2>1. g \in [0 .. 0 -> S] /\ Follows(g, 0)
    OBVIOUS
  <2> HIDE DEF g
  <2>2. QED
    BY <2>1
<1>2. ASSUME NEW k \in 1 .. n, k - 1 \in K PROVE k \in K
  <2>1. PICK h \in [0 .. k - 1 -> S] : Follows(h, k - 1)
    BY <1>2
  <2> DEFINE g == [i \in 0 .. k |-> IF i = k THEN G[h[k - 1]][k] ELSE h[i]]
  <2>2. g \in [0 .. k -> S]
    <3>1. h[k - 1] \in S
      BY <2>1
    <3>2. G[h[k - 1]][k] \in S
      BY <3>1
    <3>3. ASSUME NEW i \in 0 .. k, i # k PROVE h[i] \in S
      BY <3>3
    <3>4. QED
      BY <3>2, <3>3
  <2>3. ASSUME NEW i \in 0 .. k
        PROVE  g[i] = IF i = 0 THEN a ELSE G[g[i - 1]][i]
    <3>1. CASE i = k
      <4>1. i - 1 \in 0 .. k /\ i - 1 # k /\ i # 0
        BY <3>1
      <4>2. g[i - 1] = h[k - 1]
        BY <3>1, <4>1
      <4>3. QED
        BY <3>1, <4>1, <4>2
    <3>2. CASE i # k
      <4>1. g[i] = h[i] /\ i \in 0 .. k - 1
        BY <3>2
      <4>2. h[i] = IF i = 0 THEN a ELSE G[h[i - 1]][i]
        BY <2>1, <4>1
      <4>3. i # 0 => g[i - 1] = h[i - 1]
        BY <3>2
      <4>4. QED
        BY <4>1, <4>2, <4>3
    <3>3. QED
      BY <3>1, <3>2
  <2>4. Follows(g, k)
    <3> HIDE DEF g
    <3>1. DOMAIN g = 0 .. k
      BY <2>2
    <3>2. QED
      BY <2>2, <2>3, <3>1
  <2> HIDE DEF g, Follows
  <2>5. QED
    BY <2>2, <2>4
<1>3. n \in K
  <2>1. K \in SUBSET (0 .. n)
    OBVIOUS
  <2> HIDE DEF K
  <2>2. K = 0 .. n
    BY <1>1, <1>2, <2>1, UpTo
  <2>3. QED
    BY <2>2
<1>4. QED
  BY <1>3 DEF Iterates

(* The parts of a sequence.                                                   *)
LEMMA SubSeqFacts ==
  ASSUME NEW S, NEW s \in Seq(S), NEW a \in 1 .. Len(s) + 1, NEW b \in a - 1 .. Len(s)
  PROVE  /\ SubSeq(s, a, b) \in Seq(S)
         /\ Len(SubSeq(s, a, b)) = b - a + 1
         /\ \A i \in 1 .. b - a + 1 : SubSeq(s, a, b)[i] = s[a + i - 1]
<1>1. \A i \in a .. b : s[i] \in S
  BY ElementOfSeq
<1>2. a \in Int /\ b \in Int
  OBVIOUS
<1>3. QED
  BY <1>1, <1>2, SubSeqProperties

LEMMA RemoveAtFacts ==
  ASSUME NEW S, NEW s \in Seq(S), NEW k \in 1 .. Len(s)
  PROVE  /\ RemoveAt(s, k) \in Seq(S)
         /\ Len(RemoveAt(s, k)) = Len(s) - 1
         /\ \A j \in 1 .. Len(s) - 1 :
              RemoveAt(s, k)[j] = IF j < k THEN s[j] ELSE s[j + 1]
<1> DEFINE front == SubSeq(s, 1, k - 1)
           back == SubSeq(s, k + 1, Len(s))
<1>1. /\ front \in Seq(S) /\ Len(front) = k - 1
      /\ \A i \in 1 .. k - 1 : front[i] = s[i]
  <2>1. 1 \in 1 .. Len(s) + 1 /\ k - 1 \in 1 - 1 .. Len(s)
    OBVIOUS
  <2>2. /\ front \in Seq(S) /\ Len(front) = (k - 1) - 1 + 1
        /\ \A i \in 1 .. (k - 1) - 1 + 1 : front[i] = s[1 + i - 1]
    BY <2>1, SubSeqFacts
  <2> HIDE DEF front
  <2>3. QED
    BY <2>2
<1>2. /\ back \in Seq(S) /\ Len(back) = Len(s) - k
      /\ \A i \in 1 .. Len(s) - k : back[i] = s[k + i]
  <2>1. k + 1 \in 1 .. Len(s) + 1 /\ Len(s) \in (k + 1) - 1 .. Len(s)
    OBVIOUS
  <2>2. /\ back \in Seq(S) /\ Len(back) = Len(s) - (k + 1) + 1
        /\ \A i \in 1 .. Len(s) - (k + 1) + 1 : back[i] = s[(k + 1) + i - 1]
    BY <2>1, SubSeqFacts
  <2> HIDE DEF back
  <2>3. QED
    BY <2>2
<1>3. RemoveAt(s, k) = front \o back
  BY DEF RemoveAt
<1> HIDE DEF front, back
<1>4. /\ front \o back \in Seq(S) /\ Len(front \o back) = Len(front) + Len(back)
      /\ \A i \in 1 .. Len(front) + Len(back) :
           (front \o back)[i] = IF i <= Len(front) THEN front[i] ELSE back[i - Len(front)]
  BY <1>1, <1>2, ConcatProperties
<1>5. Len(s) \in Nat /\ k \in 1 .. Len(s)
  OBVIOUS
<1>6. ASSUME NEW j \in 1 .. Len(s) - 1
      PROVE  (front \o back)[j] = IF j < k THEN s[j] ELSE s[j + 1]
  <2>0. /\ Len(front) = k - 1 /\ Len(back) = Len(s) - k
        /\ Len(front) + Len(back) = Len(s) - 1
    BY <1>1, <1>2, <1>5
  <2>1. (front \o back)[j] = IF j <= k - 1 THEN front[j] ELSE back[j - (k - 1)]
    BY <2>0, <1>4
  <2>2. CASE j < k
    BY <2>1, <2>2, <1>1, <1>5
  <2>3. CASE ~(j < k)
    <3>1. j - (k - 1) \in 1 .. Len(s) - k /\ k + (j - (k - 1)) = j + 1 /\ ~(j <= k - 1)
      BY <2>3, <1>5
    <3>2. QED
      BY <3>1, <2>1, <2>3, <1>2
  <2>4. QED
    BY <2>2, <2>3
<1>7. QED
  BY <1>1, <1>2, <1>3, <1>4, <1>5, <1>6

LEMMA InsertAtFacts ==
  ASSUME NEW S, NEW s \in Seq(S), NEW k \in 1 .. Len(s), NEW e \in S
  PROVE  /\ InsertAt(s, k, e) \in Seq(S)
         /\ Len(InsertAt(s, k, e)) = Len(s) + 1
         /\ \A j \in 1 .. Len(s) + 1 :
              InsertAt(s, k, e)[j] = IF j < k THEN s[j]
                                     ELSE IF j = k THEN e ELSE s[j - 1]
<1> DEFINE front == SubSeq(s, 1, k - 1)
           back == SubSeq(s, k, Len(s))
           mid == <<e>>
<1>1. /\ front \in Seq(S) /\ Len(front) = k - 1
      /\ \A i \in 1 .. k - 1 : front[i] = s[i]
  <2>1. 1 \in 1 .. Len(s) + 1 /\ k - 1 \in 1 - 1 .. Len(s)
    OBVIOUS
  <2>2. /\ front \in Seq(S) /\ Len(front) = (k - 1) - 1 + 1
        /\ \A i \in 1 .. (k - 1) - 1 + 1 : front[i] = s[1 + i - 1]
    BY <2>1, SubSeqFacts
  <2> HIDE DEF front
  <2>3. QED
    BY <2>2
<1>2. /\ back \in Seq(S) /\ Len(back) = Len(s) - k + 1
      /\ \A i \in 1 .. Len(s) - k + 1 : back[i] = s[k + i - 1]
  <2>1. k \in 1 .. Len(s) + 1 /\ Len(s) \in k - 1 .. Len(s)
    OBVIOUS
  <2>2. QED
    BY <2>1, SubSeqFacts
<1>3. InsertAt(s, k, e) = (front \o mid) \o back
  BY DEF InsertAt
<1>a. mid \in Seq(S) /\ Len(mid) = 1 /\ mid[1] = e
  OBVIOUS
<1> HIDE DEF front, back, mid
<1>4. /\ front \o mid \in Seq(S) /\ Len(front \o mid) = Len(front) + Len(mid)
      /\ \A i \in 1 .. Len(front) + Len(mid) :
           (front \o mid)[i] = IF i <= Len(front) THEN front[i] ELSE mid[i - Len(front)]
  BY <1>1, <1>a, ConcatProperties
<1>b. PICK most \in Seq(S) :
        /\ most = front \o mid /\ Len(most) = Len(front) + Len(mid)
        /\ \A i \in 1 .. Len(front) + Len(mid) :
             most[i] = IF i <= Len(front) THEN front[i] ELSE mid[i - Len(front)]
  BY <1>4
<1>5. /\ most \o back \in Seq(S) /\ Len(most \o back) = Len(most) + Len(back)
      /\ \A i \in 1 .. Len(most) + Len(back) :
           (most \o back)[i] = IF i <= Len(most) THEN most[i] ELSE back[i - Len(most)]
  <2>1. most \in Seq(S) /\ back \in Seq(S)
    BY <1>2, <1>b
  <2>2. QED
    BY <2>1, ConcatProperties
<1>6. Len(s) \in Nat /\ k \in 1 .. Len(s)
  OBVIOUS
<1>7. Len(most) = k
  BY <1>1, <1>a, <1>b, <1>6
<1>8. ASSUME NEW j \in 1 .. Len(s) + 1
      PROVE  (most \o back)[j] = IF j < k THEN s[j] ELSE IF j = k THEN e ELSE s[j - 1]
  <2>1. (most \o back)[j] = IF j <= k THEN most[j] ELSE back[j - k]
    BY <1>2, <1>5, <1>6, <1>7
  <2>2. CASE j < k
    BY <2>1, <2>2, <1>1, <1>a, <1>b, <1>6
  <2>3. CASE j = k
    BY <2>1, <2>3, <1>1, <1>a, <1>b, <1>6
  <2>4. CASE j > k
    <3>1. j - k \in 1 .. Len(s) - k + 1 /\ k + (j - k) - 1 = j - 1
      BY <2>4, <1>6
    <3>2. ~(j <= k) /\ ~(j < k) /\ j # k
      BY <2>4, <1>6
    <3>3. back[j - k] = s[j - 1]
      BY <3>1, <1>2
    <3>4. QED
      BY <3>2, <3>3, <2>1
  <2>5. QED
    <3>1. j < k \/ j = k \/ j > k
      BY <1>6
    <3>2. j > k => ~(j < k) /\ j # k
      BY <1>6
    <3>3. QED
      BY <2>2, <2>3, <2>4, <3>1, <3>2
<1>c. Len(most \o back) = Len(s) + 1
  <2>1. Len(most \o back) = Len(most) + Len(back) /\ Len(back) = Len(s) - k + 1
    BY <1>2, <1>5, Zenon
  <2>2. Len(most \o back) = k + (Len(s) - k + 1)
    BY <2>1, <1>7
  <2>3. QED
    BY <2>2, <1>6
<1>9. QED
  BY <1>3, <1>5, <1>8, <1>b, <1>c

-----------------------------------------------------------------------------
(* Sums over the list. *)

\* The sums that Limits adds up.
Sums(map, S) ==
  LET sum[n \in 0 .. Len(map)] ==
        IF n = 0 THEN 0 ELSE sum[n - 1] + (IF n \in S THEN map[n].limit ELSE 0)
  IN  sum

\* The blocks that name one of the page tables Q.
Naming(map, Q) == {i \in 1 .. Len(map) : map[i].page_table \in Q}

\* The pages in them, and in those before the n-th block and it.
UpToBlock(map, Q) == Sums(map, Naming(map, Q))

PagesNaming(map, Q) == UpToBlock(map, Q)[Len(map)]

Share(b, Q) == IF b.page_table \in Q THEN b.limit ELSE 0

LEMMA BlockFacts ==
  ASSUME NEW map \in Seq(Block), NEW i \in 1 .. Len(map)
  PROVE  /\ map[i] \in Block
         /\ map[i].bound \in BOOLEAN /\ map[i].base \in Nat /\ map[i].limit \in Nat
         /\ map[i].page_table \in 0 .. MAX_TABLES
<1>1. map[i] \in Block
  BY ElementOfSeq
<1>2. QED
  BY <1>1 DEF Block

LEMMA SumsFacts ==
  ASSUME NEW map \in Seq(Block), NEW S
  PROVE  /\ Sums(map, S) \in [0 .. Len(map) -> Nat]
         /\ Sums(map, S)[0] = 0
         /\ \A i \in 1 .. Len(map) :
              Sums(map, S)[i] = Sums(map, S)[i - 1] + (IF i \in S THEN map[i].limit ELSE 0)
<1> DEFINE n == Len(map)
           w == [i \in 1 .. n |-> IF i \in S THEN map[i].limit ELSE 0]
           G == [x \in Nat |-> [i \in 1 .. n |-> x + w[i]]]
           Is(h) == h = [i \in 0 .. n |-> IF i = 0 THEN 0
                           ELSE h[i - 1] + (IF i \in S THEN map[i].limit ELSE 0)]
<1>1. n \in Nat
  OBVIOUS
<1>2. w \in [1 .. n -> Nat] /\ \A i \in 1 .. n : w[i] = IF i \in S THEN map[i].limit ELSE 0
  BY BlockFacts
<1>3. G \in [Nat -> [1 .. n -> Nat]]
  <2> HIDE DEF w, n
  <2>1. QED
    BY <1>2
<1>4. \A x \in Nat : \A i \in 1 .. n : G[x][i] = x + w[i]
  OBVIOUS
<1> HIDE DEF n, w, G
<1>5. PICK g \in [0 .. n -> Nat] : Iterates(g, n, 0, G)
  <2>1. 0 \in Nat
    OBVIOUS
  <2>2. QED
    BY <1>1, <1>3, <2>1, Recursion, Zenon
<1>6. Is(g)
  <2>1. ASSUME NEW i \in 0 .. n
        PROVE  g[i] = IF i = 0 THEN 0
                      ELSE g[i - 1] + (IF i \in S THEN map[i].limit ELSE 0)
    <3>1. g[i] = IF i = 0 THEN 0 ELSE G[g[i - 1]][i]
      BY <1>5 DEF Iterates
    <3>2. i # 0 => i \in 1 .. n /\ g[i - 1] \in Nat
      BY <1>1, <1>5
    <3>3. QED
      BY <1>2, <1>4, <3>1, <3>2
  <2>2. DOMAIN g = 0 .. n
    BY <1>5
  <2>3. QED
    BY <1>5, <2>1, <2>2
<1>7. Sums(map, S) = CHOOSE h : Is(h)
  BY DEF Sums, n
<1>8. Is(Sums(map, S))
  <2> HIDE DEF Is
  <2>1. QED
    BY <1>6, <1>7, Zenon
<1>9. PICK h : h = Sums(map, S) /\ Is(h)
  BY <1>8
<1>10. h[0] = 0 /\ DOMAIN h = 0 .. n /\ \A i \in 1 .. n : h[i] = h[i - 1] + w[i]
  <2>1. DOMAIN h = 0 .. n
        /\ \A i \in 0 .. n : h[i] = IF i = 0 THEN 0
                                    ELSE h[i - 1] + (IF i \in S THEN map[i].limit ELSE 0)
    BY <1>9
  <2>2. h[0] = 0
    <3>1. 0 \in 0 .. n
      BY <1>1
    <3>2. QED
      BY <2>1, <3>1, Zenon
  <2>3. ASSUME NEW i \in 1 .. n PROVE h[i] = h[i - 1] + w[i]
    <3>1. i \in 0 .. n /\ i # 0
      BY <1>1
    <3>2. h[i] = h[i - 1] + (IF i \in S THEN map[i].limit ELSE 0)
      BY <2>1, <3>1, Zenon
    <3>3. QED
      BY <1>2, <3>2
  <2> QED
    BY <2>1, <2>2, <2>3
<1>11. h \in [0 .. n -> Nat]
  <2> DEFINE T == {i \in 0 .. n : h[i] \in Nat}
  <2>1. T \in SUBSET (0 .. n) /\ 0 \in T
    BY <1>1, <1>10
  <2>2. ASSUME NEW i \in 1 .. n, i - 1 \in T PROVE i \in T
    BY <1>1, <1>2, <1>10, <2>2
  <2> HIDE DEF T
  <2>3. T = 0 .. n
    BY <1>1, <2>1, <2>2, UpTo
  <2>4. \A i \in 0 .. n : h[i] \in Nat
    BY <2>3 DEF T
  <2>5. h = [i \in 0 .. n |-> h[i]]
    BY <1>9
  <2>6. QED
    BY <2>4, <2>5
<1>12. QED
  BY <1>2, <1>9, <1>10, <1>11 DEF n

LEMMA LimitsIsSum ==
  ASSUME NEW map, NEW S
  PROVE  Limits(map, S) = Sums(map, S)[Len(map)]
BY DEF Limits, Sums

(* The sum up to a block is what it was before the block and its share.       *)
LEMMA UpToFacts ==
  ASSUME NEW map \in Seq(Block), NEW Q
  PROVE  /\ UpToBlock(map, Q) \in [0 .. Len(map) -> Nat]
         /\ UpToBlock(map, Q)[0] = 0
         /\ \A i \in 1 .. Len(map) :
              UpToBlock(map, Q)[i] = UpToBlock(map, Q)[i - 1] + Share(map[i], Q)
<1>1. \A i \in 1 .. Len(map) :
        (IF i \in Naming(map, Q) THEN map[i].limit ELSE 0) = Share(map[i], Q)
  BY DEF Naming, Share
<1>2. QED
  BY <1>1, SumsFacts DEF UpToBlock

-----------------------------------------------------------------------------
(* Some neighbours in the list replaced by others. *)

\* new is map with the a blocks from the k-th on replaced by b blocks.
Replaced(map, new, k, a, b) ==
  /\ map \in Seq(Block) /\ new \in Seq(Block)
  /\ a \in Nat /\ b \in Nat /\ k \in 1 .. Len(map) + 1 - a
  /\ Len(new) = Len(map) - a + b
  /\ \A j \in 1 .. k - 1 : new[j] = map[j]
  /\ \A j \in k + a .. Len(map) : new[j - a + b] = map[j]

(* Sums before them stay, and those after them change as they do.             *)
LEMMA Window ==
  ASSUME NEW map, NEW new, NEW k, NEW a, NEW b, Replaced(map, new, k, a, b), NEW Q
  PROVE  /\ \A j \in 0 .. k - 1 : UpToBlock(new, Q)[j] = UpToBlock(map, Q)[j]
         /\ \A e \in Int :
              UpToBlock(new, Q)[k - 1 + b] = UpToBlock(map, Q)[k - 1 + a] + e =>
                \A j \in k - 1 + a .. Len(map) :
                  UpToBlock(new, Q)[j - a + b] = UpToBlock(map, Q)[j] + e
<1> DEFINE P == UpToBlock(map, Q)
           N == UpToBlock(new, Q)
<1>1. /\ a \in Nat /\ b \in Nat /\ k \in 1 .. Len(map) + 1 - a
      /\ Len(map) \in Nat /\ Len(new) = Len(map) - a + b
  BY DEF Replaced
<1>2. /\ P \in [0 .. Len(map) -> Nat] /\ P[0] = 0
      /\ \A i \in 1 .. Len(map) : P[i] = P[i - 1] + Share(map[i], Q)
  BY UpToFacts DEF Replaced
<1>3. /\ N \in [0 .. Len(new) -> Nat] /\ N[0] = 0
      /\ \A i \in 1 .. Len(new) : N[i] = N[i - 1] + Share(new[i], Q)
  BY UpToFacts DEF Replaced
<1> HIDE DEF P, N
<1>4. \A j \in 0 .. k - 1 : N[j] = P[j]
  <2> DEFINE T == {j \in 0 .. k - 1 : N[j] = P[j]}
  <2>1. k - 1 \in Nat /\ T \in SUBSET (0 .. k - 1) /\ 0 \in T
    BY <1>1, <1>2, <1>3
  <2>2. ASSUME NEW j \in 1 .. k - 1, j - 1 \in T PROVE j \in T
    <3>1. j \in 1 .. Len(map) /\ j \in 1 .. Len(new)
      BY <1>1
    <3>2. new[j] = map[j]
      BY DEF Replaced
    <3>3. N[j - 1] = P[j - 1]
      BY <2>2
    <3>4. N[j] = P[j]
      BY <3>1, <3>2, <3>3, <1>2, <1>3
    <3>5. QED
      BY <3>4
  <2> HIDE DEF T
  <2>3. T = 0 .. k - 1
    BY <2>1, <2>2, UpTo
  <2>4. QED
    BY <2>3 DEF T
<1>5. ASSUME NEW e \in Int, N[k - 1 + b] = P[k - 1 + a] + e,
             NEW j \in k - 1 + a .. Len(map)
      PROVE  N[j - a + b] = P[j] + e
  <2> DEFINE m == Len(map) - (k - 1 + a)
             T == {i \in 0 .. m : N[k - 1 + b + i] = P[k - 1 + a + i] + e}
  <2>1. m \in Nat /\ T \in SUBSET (0 .. m) /\ 0 \in T
    BY <1>1, <1>5
  <2>2. ASSUME NEW i \in 1 .. m, i - 1 \in T PROVE i \in T
    <3>1. k - 1 + a + i \in 1 .. Len(map) /\ k - 1 + b + i \in 1 .. Len(new)
      BY <1>1
    <3>2. new[k - 1 + b + i] = map[k - 1 + a + i]
      <4>1. /\ k - 1 + a + i \in k + a .. Len(map)
            /\ (k - 1 + a + i) - a + b = k - 1 + b + i
        BY <1>1
      <4>2. QED
        BY <4>1 DEF Replaced
    <3>3. N[k - 1 + b + (i - 1)] = P[k - 1 + a + (i - 1)] + e
      BY <2>2
    <3>4. /\ N[k - 1 + b + i] = N[(k - 1 + b + i) - 1] + Share(new[k - 1 + b + i], Q)
          /\ P[k - 1 + a + i] = P[(k - 1 + a + i) - 1] + Share(map[k - 1 + a + i], Q)
      BY <3>1, <1>2, <1>3
    <3>5. /\ (k - 1 + b + i) - 1 = k - 1 + b + (i - 1)
          /\ (k - 1 + a + i) - 1 = k - 1 + a + (i - 1)
      BY <1>1
    <3>6. Share(map[k - 1 + a + i], Q) \in Int
      <4>1. \A x \in 1 .. Len(map) : map[x].limit \in Nat
        BY BlockFacts DEF Replaced
      <4>2. QED
        BY <3>1, <4>1 DEF Share
    <3>7. P[k - 1 + a + (i - 1)] \in Int
      <4>1. k - 1 + a + (i - 1) \in 0 .. Len(map)
        BY <1>1
      <4>2. QED
        BY <4>1, <1>2
    <3>8. N[k - 1 + b + i] = P[k - 1 + a + i] + e
      BY <3>2, <3>3, <3>4, <3>5, <3>6, <3>7
    <3>9. QED
      BY <3>8
  <2>m. m \in Int
    BY <2>1
  <2>j. j - (k - 1 + a) \in 0 .. m
    BY <1>1
  <2> HIDE DEF T, m
  <2>3. T = 0 .. m
    BY <2>1, <2>2, UpTo
  <2>4. N[k - 1 + b + (j - (k - 1 + a))] = P[k - 1 + a + (j - (k - 1 + a))] + e
    BY <2>3, <2>j DEF T
  <2>5. /\ k - 1 + b + (j - (k - 1 + a)) = j - a + b
        /\ k - 1 + a + (j - (k - 1 + a)) = j
    BY <1>1
  <2>6. QED
    BY <2>4, <2>5
<1>6. QED
  BY <1>4, <1>5 DEF P, N

-----------------------------------------------------------------------------
(* What is always true of the list. *)

AllTables == 0 .. MAX_TABLES

\* The blocks before a block are not larger, together, than its base.
Fits(map) ==
  \A i \in 1 .. Len(map) : UpToBlock(map, AllTables)[i - 1] <= map[i].base

IsReserved(b) == b.bound /\ b.page_table = KERNEL_PAGE_TABLE

\* The first block and the last two are reserved.
Ends(map) ==
  /\ Len(map) >= 3
  /\ IsReserved(map[1]) /\ IsReserved(map[Len(map) - 1]) /\ IsReserved(map[Len(map)])

\* A usable block is the kernel's; it is not empty, nor is one of a process.
FilledBlock(b, maybe_empty) ==
  /\ ~b.bound => b.page_table = KERNEL_PAGE_TABLE
  /\ (~b.bound \/ b.page_table # KERNEL_PAGE_TABLE) => (maybe_empty \/ b.limit > 0)

\* All of them but for the k-th.
Filled(map, k) == \A i \in 1 .. Len(map) : FilledBlock(map[i], i = k)

Sound(map, k) == map \in Seq(Block) /\ Ends(map) /\ Filled(map, k) /\ Fits(map)

\* Tiled, of any list.
Contiguous(map) ==
  \A i \in 2 .. (Len(map) - 2) : map[i].base + map[i].limit = map[i + 1].base

\* The pages in the blocks of I that name page table q.
HeldIn(map, q, I) == UNION {Extent(map[i]) : i \in {j \in I : map[j].page_table = q}}

Held(map, q) == HeldIn(map, q, 1 .. Len(map))

(* What replacing blocks k to k + a - 1 of a list by others does to this.     *)

LEMMA WindowTotal ==
  ASSUME NEW map, NEW new, NEW k, NEW a, NEW b, Replaced(map, new, k, a, b), NEW Q,
         NEW e \in Int, UpToBlock(new, Q)[k - 1 + b] = UpToBlock(map, Q)[k - 1 + a] + e
  PROVE  PagesNaming(new, Q) = PagesNaming(map, Q) + e
<1>1. Len(map) \in k - 1 + a .. Len(map) /\ Len(new) = Len(map) - a + b
  BY DEF Replaced
<1>2. UpToBlock(new, Q)[Len(map) - a + b] = UpToBlock(map, Q)[Len(map)] + e
  BY <1>1, Window
<1>3. QED
  BY <1>1, <1>2 DEF PagesNaming

LEMMA WindowFits ==
  ASSUME NEW map, NEW new, NEW k, NEW a, NEW b, Replaced(map, new, k, a, b), Fits(map),
         UpToBlock(new, AllTables)[k - 1 + b] = UpToBlock(map, AllTables)[k - 1 + a],
         \A i \in k .. k + b - 1 : UpToBlock(new, AllTables)[i - 1] <= new[i].base
  PROVE  Fits(new)
<1> DEFINE P == UpToBlock(map, AllTables)
           N == UpToBlock(new, AllTables)
<1>1. /\ a \in Nat /\ b \in Nat /\ k \in 1 .. Len(map) + 1 - a
      /\ Len(map) \in Nat /\ Len(new) = Len(map) - a + b
  BY DEF Replaced
<1>2. P \in [0 .. Len(map) -> Nat] /\ N \in [0 .. Len(new) -> Nat]
  BY UpToFacts DEF Replaced
<1>3. \A j \in 0 .. k - 1 : N[j] = P[j]
  BY Window
<1>4. \A j \in k - 1 + a .. Len(map) : N[j - a + b] = P[j]
  <2>1. P[k - 1 + a] \in Nat
    BY <1>1, <1>2
  <2>2. N[k - 1 + b] = P[k - 1 + a] + 0
    BY <2>1
  <2>3. \A j \in k - 1 + a .. Len(map) : N[j - a + b] = P[j] + 0
    BY <2>2, Window
  <2>4. \A j \in k - 1 + a .. Len(map) : P[j] \in Nat
    BY <1>1, <1>2
  <2> HIDE DEF P, N
  <2>5. QED
    BY <2>3, <2>4
<1>5. \A i \in 1 .. Len(map) : P[i - 1] <= map[i].base
  BY DEF Fits
<1>6. \A i \in k .. k + b - 1 : N[i - 1] <= new[i].base
  OBVIOUS
<1> HIDE DEF P, N
<1>7. ASSUME NEW i \in 1 .. Len(new) PROVE N[i - 1] <= new[i].base
  <2>1. CASE i < k
    <3>1. i \in 1 .. Len(map) /\ i \in 1 .. k - 1 /\ i - 1 \in 0 .. k - 1
      BY <1>1, <2>1
    <3>2. new[i] = map[i]
      BY <3>1 DEF Replaced
    <3>3. QED
      BY <3>1, <3>2, <1>3, <1>5
  <2>2. CASE i \in k .. k + b - 1
    BY <2>2, <1>6
  <2>3. CASE i > k + b - 1
    <3> DEFINE j == i + a - b
    <3>1. /\ j \in 1 .. Len(map) /\ j \in k + a .. Len(map) /\ j - a + b = i
          /\ j - 1 \in k - 1 + a .. Len(map) /\ (j - 1) - a + b = i - 1
      BY <1>1, <2>3
    <3> HIDE DEF j
    <3>2. new[j - a + b] = map[j]
      BY <3>1 DEF Replaced
    <3>3. N[(j - 1) - a + b] = P[j - 1]
      BY <3>1, <1>4
    <3>4. P[j - 1] <= map[j].base
      BY <3>1, <1>5
    <3>5. QED
      BY <3>1, <3>2, <3>3, <3>4
  <2>4. QED
    BY <1>1, <2>1, <2>2, <2>3
<1>8. QED
  BY <1>7 DEF Fits, P, N

LEMMA WindowEnds ==
  ASSUME NEW map, NEW new, NEW k, NEW a, NEW b, Replaced(map, new, k, a, b),
         Ends(map), Len(new) >= 3,
         k = 1 => b >= 1 /\ IsReserved(new[1]),
         k + a - 1 < Len(map),
         k + a - 1 = Len(map) - 1 => b >= 1 /\ IsReserved(new[k + b - 1])
  PROVE  Ends(new)
<1>1. /\ a \in Nat /\ b \in Nat /\ k \in 1 .. Len(map) + 1 - a
      /\ Len(map) \in Nat /\ Len(new) = Len(map) - a + b
  BY DEF Replaced
<1>2. IsReserved(new[1])
  <2>1. CASE k = 1
    BY <2>1
  <2>2. CASE k # 1
    <3>1. 1 \in 1 .. k - 1
      BY <1>1, <2>2
    <3>2. new[1] = map[1]
      BY <3>1 DEF Replaced
    <3>3. QED
      BY <3>2 DEF Ends
  <2>3. QED
    BY <2>1, <2>2
<1>3. IsReserved(new[Len(new)])
  <2>1. Len(map) \in k + a .. Len(map) /\ Len(map) - a + b = Len(new)
    BY <1>1
  <2>2. new[Len(map) - a + b] = map[Len(map)]
    BY <2>1 DEF Replaced
  <2>3. QED
    BY <2>1, <2>2 DEF Ends
<1>4. IsReserved(new[Len(new) - 1])
  <2>1. CASE k + a - 1 = Len(map) - 1
    <3>1. k + b - 1 = Len(new) - 1
      BY <1>1, <2>1
    <3>2. QED
      BY <2>1, <3>1
  <2>2. CASE k + a - 1 # Len(map) - 1
    <3>1. Len(map) - 1 \in k + a .. Len(map) /\ (Len(map) - 1) - a + b = Len(new) - 1
      BY <1>1, <2>2
    <3>2. new[(Len(map) - 1) - a + b] = map[Len(map) - 1]
      BY <3>1 DEF Replaced
    <3>3. QED
      BY <3>1, <3>2 DEF Ends
  <2>3. QED
    BY <2>1, <2>2
<1>5. QED
  BY <1>2, <1>3, <1>4 DEF Ends

LEMMA WindowFilled ==
  ASSUME NEW map, NEW new, NEW k, NEW a, NEW b, Replaced(map, new, k, a, b),
         NEW x, NEW y, Filled(map, x),
         x = 0 \/ x \in k .. k + a - 1,
         \A i \in k .. k + b - 1 : FilledBlock(new[i], i = y)
  PROVE  Filled(new, y)
<1>1. /\ a \in Nat /\ b \in Nat /\ k \in 1 .. Len(map) + 1 - a
      /\ Len(map) \in Nat /\ Len(new) = Len(map) - a + b
  BY DEF Replaced
<1>2. ASSUME NEW i \in 1 .. Len(new) PROVE FilledBlock(new[i], i = y)
  <2>1. CASE i < k
    <3>1. i \in 1 .. Len(map) /\ i \in 1 .. k - 1 /\ i # x
      BY <1>1, <2>1
    <3>2. new[i] = map[i]
      BY <3>1 DEF Replaced
    <3>3. QED
      BY <3>1, <3>2 DEF Filled, FilledBlock
  <2>2. CASE i \in k .. k + b - 1
    BY <2>2
  <2>3. CASE i > k + b - 1
    <3> DEFINE j == i + a - b
    <3>1. j \in 1 .. Len(map) /\ j \in k + a .. Len(map) /\ j - a + b = i /\ j # x
      BY <1>1, <2>3
    <3> HIDE DEF j
    <3>2. new[j - a + b] = map[j]
      BY <3>1 DEF Replaced
    <3>3. QED
      BY <3>1, <3>2 DEF Filled, FilledBlock
  <2>4. QED
    BY <1>1, <2>1, <2>2, <2>3
<1>3. QED
  BY <1>2 DEF Filled

LEMMA WindowContiguous ==
  ASSUME NEW map, NEW new, NEW k, NEW a, NEW b, Replaced(map, new, k, a, b),
         Contiguous(map), a >= 1, k < Len(map),
         k >= 3 => new[k].base = map[k].base,
         \A i \in k .. k + b - 1 : i \in 2 .. Len(new) - 2 =>
           new[i].base + new[i].limit = new[i + 1].base
  PROVE  Contiguous(new)
<1>1. /\ a \in Nat /\ b \in Nat /\ k \in 1 .. Len(map) + 1 - a
      /\ Len(map) \in Nat /\ Len(new) = Len(map) - a + b
  BY DEF Replaced
<1>2. ASSUME NEW i \in 2 .. (Len(new) - 2)
      PROVE  new[i].base + new[i].limit = new[i + 1].base
  <2>1. CASE i < k - 1
    <3>1. i \in 2 .. (Len(map) - 2) /\ i \in 1 .. k - 1 /\ i + 1 \in 1 .. k - 1
      <4>1. i \in Nat /\ k \in Nat /\ k < Len(map) /\ i >= 2
        BY <1>1
      <4>2. i <= Len(map) - 2 /\ i <= k - 1 /\ i + 1 <= k - 1
        BY <4>1, <1>1, <2>1
      <4>3. QED
        BY <4>1, <4>2, <1>1
    <3>2. new[i] = map[i] /\ new[i + 1] = map[i + 1]
      BY <3>1 DEF Replaced
    <3>3. QED
      BY <3>1, <3>2 DEF Contiguous
  <2>2. CASE i = k - 1
    <3>1. i \in 2 .. (Len(map) - 2) /\ i \in 1 .. k - 1 /\ i + 1 = k /\ k >= 3
      BY <1>1, <2>2
    <3>2. new[i] = map[i]
      BY <3>1 DEF Replaced
    <3>3. QED
      BY <3>1, <3>2 DEF Contiguous
  <2>3. CASE i \in k .. k + b - 1
    BY <2>3, <1>2
  <2>4. CASE i > k + b - 1
    <3> DEFINE j == i + a - b
    <3>1. /\ j \in 2 .. (Len(map) - 2) /\ j \in k + a .. Len(map) /\ j - a + b = i
          /\ j + 1 \in k + a .. Len(map) /\ (j + 1) - a + b = i + 1
      BY <1>1, <2>4
    <3> HIDE DEF j
    <3>2. new[j - a + b] = map[j] /\ new[(j + 1) - a + b] = map[j + 1]
      BY <3>1 DEF Replaced
    <3>3. QED
      BY <3>1, <3>2 DEF Contiguous
  <2>5. QED
    BY <1>1, <2>1, <2>2, <2>3, <2>4
<1>3. QED
  BY <1>2 DEF Contiguous

\* The lists differ in blocks I of the one and J of the other.
SameElsewhere(map, new, q, I, J) ==
  \E O : /\ Held(map, q) = O \cup HeldIn(map, q, I)
         /\ Held(new, q) = O \cup HeldIn(new, q, J)

LEMMA WindowHeld ==
  ASSUME NEW map, NEW new, NEW k, NEW a, NEW b, Replaced(map, new, k, a, b), NEW q
  PROVE  SameElsewhere(map, new, q, k .. k + a - 1, k .. k + b - 1)
<1> DEFINE O == HeldIn(map, q, 1 .. k - 1) \cup HeldIn(map, q, k + a .. Len(map))
<1>1. /\ a \in Nat /\ b \in Nat /\ k \in 1 .. Len(map) + 1 - a
      /\ Len(map) \in Nat /\ Len(new) = Len(map) - a + b
  BY DEF Replaced
<1>2. Held(map, q) = O \cup HeldIn(map, q, k .. k + a - 1)
  <2>1. 1 .. Len(map) = (1 .. k - 1) \cup (k + a .. Len(map)) \cup (k .. k + a - 1)
    BY <1>1
  <2>2. QED
    BY <2>1 DEF Held, HeldIn
<1>3. Held(new, q) = O \cup HeldIn(new, q, k .. k + b - 1)
  <2>1. 1 .. Len(new) = (1 .. k - 1) \cup (k + b .. Len(new)) \cup (k .. k + b - 1)
    BY <1>1
  <2>2. HeldIn(new, q, 1 .. k - 1) = HeldIn(map, q, 1 .. k - 1)
    <3>1. \A j \in 1 .. k - 1 : new[j] = map[j]
      BY DEF Replaced
    <3>2. QED
      BY <3>1 DEF HeldIn
  <2>3. HeldIn(new, q, k + b .. Len(new)) = HeldIn(map, q, k + a .. Len(map))
    <3>1. \A j \in k + a .. Len(map) : j - a + b \in k + b .. Len(new) /\ new[j - a + b] = map[j]
      <4>1. \A j \in k + a .. Len(map) : j - a + b \in k + b .. Len(new)
        BY <1>1
      <4>2. \A j \in k + a .. Len(map) : new[j - a + b] = map[j]
        BY DEF Replaced
      <4>3. QED
        BY <4>1, <4>2
    <3>2. ASSUME NEW i \in k + b .. Len(new)
          PROVE  i - b + a \in k + a .. Len(map) /\ new[i] = map[i - b + a]
      <4>1. i - b + a \in k + a .. Len(map) /\ (i - b + a) - a + b = i
        BY <1>1
      <4>2. QED
        BY <4>1, <3>1
    <3>3. QED
      BY <3>1, <3>2 DEF HeldIn
  <2>4. QED
    BY <2>1, <2>2, <2>3 DEF Held, HeldIn
<1>4. QED
  BY <1>2, <1>3 DEF SameElsewhere

-----------------------------------------------------------------------------
(* Taking a page. *)

LEMMA MinTables == KERNEL_PAGE_TABLE = 0 /\ MAX_TABLES \in Nat /\ 0 \in AllTables
                   /\ \A q \in Tables : q \in AllTables /\ q # 0 /\ q \in Nat
BY SizesAssumption DEF KERNEL_PAGE_TABLE, AllTables, Tables

\* The share of a block of the kernel, and of a process.
LEMMA Shares ==
  ASSUME NEW b \in Block
  PROVE  /\ Share(b, AllTables) = b.limit
         /\ \A q \in Tables : Share(b, {q}) = IF b.page_table = q THEN b.limit ELSE 0
         /\ \A Q : Share(b, Q) \in Nat
BY DEF Share, Block, AllTables

LEMMA MovedBorders ==
  ASSUME NEW b \in Block
  PROVE  /\ b.limit > 0 => LoseLast(b) \in Block /\ LoseFirst(b) \in Block
         /\ b.base > 0 => GainBefore(b) \in Block
         /\ GainAfter(b) \in Block
         /\ LoseLast(b).limit = b.limit - 1 /\ LoseLast(b).base = b.base
         /\ LoseLast(b).bound = b.bound /\ LoseLast(b).page_table = b.page_table
         /\ LoseFirst(b).limit = b.limit - 1 /\ LoseFirst(b).base = b.base + 1
         /\ LoseFirst(b).bound = b.bound /\ LoseFirst(b).page_table = b.page_table
         /\ GainBefore(b).limit = b.limit + 1 /\ GainBefore(b).base = b.base - 1
         /\ GainBefore(b).bound = b.bound /\ GainBefore(b).page_table = b.page_table
         /\ GainAfter(b).limit = b.limit + 1 /\ GainAfter(b).base = b.base
         /\ GainAfter(b).bound = b.bound /\ GainAfter(b).page_table = b.page_table
<1>0. /\ b = [bound |-> b.bound, base |-> b.base, limit |-> b.limit,
              page_table |-> b.page_table]
      /\ b.bound \in BOOLEAN /\ b.base \in Nat /\ b.limit \in Nat
      /\ b.page_table \in 0 .. MAX_TABLES
  BY DEF Block
<1>1. LoseLast(b) = [bound |-> b.bound, base |-> b.base, limit |-> b.limit - 1,
                     page_table |-> b.page_table]
  BY DEF LoseLast, Block
<1>2. LoseFirst(b) = [bound |-> b.bound, base |-> b.base + 1, limit |-> b.limit - 1,
                      page_table |-> b.page_table]
  <2> DEFINE m == [b EXCEPT !.base = b.base + 1]
  <2>1. m = [bound |-> b.bound, base |-> b.base + 1, limit |-> b.limit,
             page_table |-> b.page_table]
    BY DEF Block
  <2>2. LoseFirst(b) = [m EXCEPT !.limit = b.limit - 1]
    BY DEF LoseFirst, Block
  <2> HIDE DEF m
  <2>3. QED
    BY <2>1, <2>2
<1>3. GainBefore(b) = [bound |-> b.bound, base |-> b.base - 1, limit |-> b.limit + 1,
                       page_table |-> b.page_table]
  <2> DEFINE m == [b EXCEPT !.base = b.base - 1]
  <2>1. m = [bound |-> b.bound, base |-> b.base - 1, limit |-> b.limit,
             page_table |-> b.page_table]
    BY DEF Block
  <2>2. GainBefore(b) = [m EXCEPT !.limit = b.limit + 1]
    BY DEF GainBefore, Block
  <2> HIDE DEF m
  <2>3. QED
    BY <2>1, <2>2
<1>4. GainAfter(b) = [bound |-> b.bound, base |-> b.base, limit |-> b.limit + 1,
                      page_table |-> b.page_table]
  BY DEF GainAfter, Block
<1>5. b.limit > 0 => b.limit - 1 \in Nat
  BY <1>0
<1>6. b.base > 0 => b.base - 1 \in Nat
  BY <1>0
<1>7. b.base + 1 \in Nat /\ b.limit + 1 \in Nat
  BY <1>0
<1>8. /\ LoseLast(b).limit = b.limit - 1 /\ LoseLast(b).base = b.base
      /\ LoseLast(b).bound = b.bound /\ LoseLast(b).page_table = b.page_table
      /\ LoseFirst(b).limit = b.limit - 1 /\ LoseFirst(b).base = b.base + 1
      /\ LoseFirst(b).bound = b.bound /\ LoseFirst(b).page_table = b.page_table
      /\ b.limit > 0 => LoseLast(b) \in Block /\ LoseFirst(b) \in Block
  BY <1>0, <1>1, <1>2, <1>5, <1>7 DEF Block
<1>9. /\ GainBefore(b).limit = b.limit + 1 /\ GainBefore(b).base = b.base - 1
      /\ GainBefore(b).bound = b.bound /\ GainBefore(b).page_table = b.page_table
      /\ GainAfter(b).limit = b.limit + 1 /\ GainAfter(b).base = b.base
      /\ GainAfter(b).bound = b.bound /\ GainAfter(b).page_table = b.page_table
      /\ b.base > 0 => GainBefore(b) \in Block
      /\ GainAfter(b) \in Block
  BY <1>0, <1>3, <1>4, <1>6, <1>7 DEF Block
<1>10. QED
  BY <1>8, <1>9

LEMMA PagesTyped ==
  ASSUME NEW map \in Seq(Block), NEW Q
  PROVE  PagesNaming(map, Q) \in Nat
<1>1. UpToBlock(map, Q) \in [0 .. Len(map) -> Nat] /\ Len(map) \in 0 .. Len(map)
  BY UpToFacts
<1>2. QED
  BY <1>1 DEF PagesNaming

\* The share of a blocks, two at most, from the k-th on.
Part(map, k, a, Q) == (IF a >= 1 THEN Share(map[k], Q) ELSE 0)
                      + (IF a >= 2 THEN Share(map[k + 1], Q) ELSE 0)

LEMMA Parts ==
  ASSUME NEW map \in Seq(Block), NEW k \in Nat, NEW a \in 0 .. 2,
         k >= 1, k - 1 + a <= Len(map), NEW Q
  PROVE  UpToBlock(map, Q)[k - 1 + a] = UpToBlock(map, Q)[k - 1] + Part(map, k, a, Q)
<1> DEFINE P == UpToBlock(map, Q)
<1>1. /\ P \in [0 .. Len(map) -> Nat]
      /\ \A i \in 1 .. Len(map) : P[i] = P[i - 1] + Share(map[i], Q)
  BY UpToFacts
<1>2. \A i \in 1 .. Len(map) : Share(map[i], Q) \in Nat
  BY BlockFacts, Shares
<1>3. Len(map) \in Nat
  OBVIOUS
<1> HIDE DEF P
<1>4. k - 1 \in 0 .. Len(map) /\ P[k - 1] \in Nat
  <2>1. k - 1 \in 0 .. Len(map)
    BY <1>3
  <2>2. QED
    BY <2>1, <1>1
<1>5. CASE a = 0
  <2>1. Part(map, k, a, Q) = 0 /\ k - 1 + a = k - 1
    BY <1>5 DEF Part
  <2>2. QED
    BY <1>4, <2>1 DEF P
<1>6. CASE a = 1
  <2>1. k \in 1 .. Len(map) /\ k - 1 + a = k
    BY <1>3, <1>6
  <2>2. P[k] = P[k - 1] + Share(map[k], Q) /\ Share(map[k], Q) \in Nat
    BY <1>1, <1>2, <2>1
  <2>3. Part(map, k, a, Q) = Share(map[k], Q)
    BY <1>6, <2>2 DEF Part
  <2>4. QED
    BY <2>1, <2>2, <2>3 DEF P
<1>7. CASE a = 2
  <2>1. k \in 1 .. Len(map) /\ k + 1 \in 1 .. Len(map) /\ k - 1 + a = k + 1 /\ (k + 1) - 1 = k
    BY <1>3, <1>7
  <2>2. /\ P[k] = P[k - 1] + Share(map[k], Q) /\ Share(map[k], Q) \in Nat
        /\ P[k + 1] = P[k] + Share(map[k + 1], Q) /\ Share(map[k + 1], Q) \in Nat
    BY <1>1, <1>2, <2>1
  <2>3. Part(map, k, a, Q) = Share(map[k], Q) + Share(map[k + 1], Q)
    BY <1>7 DEF Part
  <2>4. P[k + 1] = P[k - 1] + (Share(map[k], Q) + Share(map[k + 1], Q))
    BY <1>4, <2>2
  <2>5. QED
    BY <2>1, <2>3, <2>4 DEF P
<1>8. QED
  BY <1>5, <1>6, <1>7

\* The windows differ by e pages.
Grows(map, new, k, a, b, Q, e) == Part(new, k, b, Q) = Part(map, k, a, Q) + e

\* So do the sums.
SumsMove(map, new, k, a, b, Q, e) ==
  /\ PagesNaming(new, Q) = PagesNaming(map, Q) + e
  /\ UpToBlock(new, Q)[k - 1 + b] = UpToBlock(map, Q)[k - 1 + a] + e
  /\ UpToBlock(new, Q)[k - 1] = UpToBlock(map, Q)[k - 1]
  /\ b >= 1 => UpToBlock(new, Q)[k] = UpToBlock(map, Q)[k - 1] + Share(new[k], Q)

LEMMA SmallWindow ==
  ASSUME NEW map, NEW new, NEW k, NEW a \in 0 .. 2, NEW b \in 0 .. 2,
         Replaced(map, new, k, a, b), NEW Q, NEW e \in Int,
         Grows(map, new, k, a, b, Q, e)
  PROVE  SumsMove(map, new, k, a, b, Q, e)
<1>1. /\ map \in Seq(Block) /\ new \in Seq(Block) /\ Len(map) \in Nat
      /\ k \in 1 .. Len(map) + 1 - a /\ Len(new) = Len(map) - a + b
  BY DEF Replaced
<1>2. /\ k \in Nat /\ k >= 1 /\ k - 1 + a <= Len(map) /\ k - 1 + b <= Len(new)
      /\ k - 1 \in 0 .. k - 1 /\ k - 1 \in 0 .. Len(map)
  BY <1>1
<1>3. UpToBlock(new, Q)[k - 1] = UpToBlock(map, Q)[k - 1]
  BY <1>2, Window
<1>4. UpToBlock(map, Q)[k - 1 + a] = UpToBlock(map, Q)[k - 1] + Part(map, k, a, Q)
  BY <1>1, <1>2, Parts
<1>5. UpToBlock(new, Q)[k - 1 + b] = UpToBlock(new, Q)[k - 1] + Part(new, k, b, Q)
  BY <1>1, <1>2, Parts
<1>6. UpToBlock(map, Q)[k - 1] \in Nat
  <2>1. UpToBlock(map, Q) \in [0 .. Len(map) -> Nat]
    BY <1>1, UpToFacts
  <2>2. QED
    BY <1>2, <2>1
<1>7. Part(map, k, a, Q) \in Nat
  <2>1. \A i \in 1 .. Len(map) : Share(map[i], Q) \in Nat
    BY <1>1, BlockFacts, Shares
  <2>2. (a >= 1 => k \in 1 .. Len(map)) /\ (a >= 2 => k + 1 \in 1 .. Len(map))
    BY <1>1
  <2>3. (a >= 1 => Share(map[k], Q) \in Nat) /\ (a >= 2 => Share(map[k + 1], Q) \in Nat)
    BY <2>1, <2>2
  <2>4. QED
    BY <2>3 DEF Part
<1>8. UpToBlock(new, Q)[k - 1 + b] = UpToBlock(map, Q)[k - 1 + a] + e
  <2>1. Part(new, k, b, Q) = Part(map, k, a, Q) + e
    BY DEF Grows
  <2>2. QED
    BY <2>1, <1>3, <1>4, <1>5, <1>6, <1>7
<1>9. PagesNaming(new, Q) = PagesNaming(map, Q) + e
  BY <1>8, WindowTotal
<1>10. ASSUME b >= 1
       PROVE  UpToBlock(new, Q)[k] = UpToBlock(map, Q)[k - 1] + Share(new[k], Q)
  <2>1. k \in 1 .. Len(new)
    BY <1>1, <1>2, <1>10
  <2>2. UpToBlock(new, Q)[k] = UpToBlock(new, Q)[k - 1] + Share(new[k], Q)
    BY <1>1, <2>1, UpToFacts
  <2>3. QED
    BY <1>3, <2>2
<1>11. QED
  BY <1>3, <1>8, <1>9, <1>10 DEF SumsMove

LEMMA TwoByTwo ==
  ASSUME NEW map, NEW new, NEW k, Replaced(map, new, k, 2, 2), NEW Q, NEW e \in Int,
         Share(new[k], Q) + Share(new[k + 1], Q) = Share(map[k], Q) + Share(map[k + 1], Q) + e
  PROVE  /\ PagesNaming(new, Q) = PagesNaming(map, Q) + e
         /\ UpToBlock(new, Q)[k - 1 + 2] = UpToBlock(map, Q)[k - 1 + 2] + e
         /\ UpToBlock(new, Q)[k - 1] = UpToBlock(map, Q)[k - 1]
         /\ UpToBlock(new, Q)[k] = UpToBlock(map, Q)[k - 1] + Share(new[k], Q)
<1>1. PICK a \in 0 .. 2 : a = 2
  OBVIOUS
<1>2. Replaced(map, new, k, a, a)
  BY <1>1
<1>3. Grows(map, new, k, a, a, Q, e)
  BY <1>1 DEF Part, Grows
<1>4. SumsMove(map, new, k, a, a, Q, e)
  BY <1>1, <1>2, <1>3, SmallWindow
<1>5. QED
  BY <1>1, <1>4 DEF SumsMove

\* What a list is after a page has been taken for p, but for cleaning up.
AfterTake(map, new, x, p, frame) ==
  /\ Sound(new, x)
  /\ frame \in Nat
  /\ PagesNaming(new, AllTables) = PagesNaming(map, AllTables)
  /\ \A q \in Tables :
       PagesNaming(new, {q}) = PagesNaming(map, {q}) + (IF q = p THEN 1 ELSE 0)
  /\ Contiguous(map) =>
       /\ Contiguous(new)
       /\ \A q \in Tables :
            Held(new, q) = Held(map, q) \cup (IF q = p THEN {frame} ELSE {})

\* The border between blocks k and k + 1 is moved for p.
BorderMove(map, new, k, x, p, frame) ==
  /\ new[k].limit + new[k + 1].limit = map[k].limit + map[k + 1].limit
  /\ new[k].base = map[k].base
  /\ new[k + 1].base + map[k].limit = map[k + 1].base + new[k].limit
  /\ \A q \in Tables : Share(new[k], {q}) + Share(new[k + 1], {q})
       = Share(map[k], {q}) + Share(map[k + 1], {q}) + (IF q = p THEN 1 ELSE 0)
  /\ \A i \in k .. k + 1 : FilledBlock(new[i], i = x)
  /\ Contiguous(map) => \A q \in Tables :
       HeldIn(new, q, k .. k + 1)
         = HeldIn(map, q, k .. k + 1) \cup (IF q = p THEN {frame} ELSE {})

LEMMA BorderMoved ==
  ASSUME NEW map, NEW new, NEW k, Replaced(map, new, k, 2, 2), Sound(map, 0),
         k >= 2, k + 1 <= Len(map) - 2, NEW p \in Tables, NEW frame \in Nat, NEW x,
         BorderMove(map, new, k, x, p, frame)
  PROVE  AfterTake(map, new, x, p, frame)
<1>0. /\ new[k].limit + new[k + 1].limit = map[k].limit + map[k + 1].limit
      /\ new[k].base = map[k].base
      /\ new[k + 1].base + map[k].limit = map[k + 1].base + new[k].limit
  BY DEF BorderMove
<1>1. /\ map \in Seq(Block) /\ new \in Seq(Block) /\ Len(map) \in Nat
      /\ k \in 1 .. Len(map) + 1 - 2 /\ Len(new) = Len(map) - 2 + 2
  BY DEF Replaced
<1>2. /\ k \in 1 .. Len(map) /\ k + 1 \in 1 .. Len(map)
      /\ k \in 1 .. Len(new) /\ k + 1 \in 1 .. Len(new)
      /\ k - 1 + 2 = k + 1 /\ k + 2 - 1 = k + 1 /\ (k + 1) - 1 = k /\ k \in Int
      /\ k - 1 \in 0 .. Len(map)
  BY <1>1
<1>3. map \in Seq(Block) /\ Fits(map) /\ Ends(map) /\ Filled(map, 0)
  BY DEF Sound
<1>4. /\ map[k] \in Block /\ map[k + 1] \in Block /\ new[k] \in Block /\ new[k + 1] \in Block
  BY <1>1, <1>2, BlockFacts
<1>5. /\ map[k].limit \in Nat /\ map[k + 1].limit \in Nat
      /\ new[k].limit \in Nat /\ new[k + 1].limit \in Nat
      /\ map[k].base \in Nat /\ map[k + 1].base \in Nat
      /\ new[k].base \in Nat /\ new[k + 1].base \in Nat
  BY <1>4 DEF Block
<1>r. PICK xl \in Nat, yl \in Nat, cl \in Nat, dl \in Nat,
           xb \in Nat, yb \in Nat, cb \in Nat, db \in Nat :
        /\ xl = map[k].limit /\ yl = map[k + 1].limit
        /\ cl = new[k].limit /\ dl = new[k + 1].limit
        /\ xb = map[k].base /\ yb = map[k + 1].base
        /\ cb = new[k].base /\ db = new[k + 1].base
  BY <1>5
<1>s. cl + dl = xl + yl /\ cb = xb /\ db + xl = yb + cl
  BY <1>0, <1>r
<1>6. /\ Share(map[k], AllTables) = map[k].limit /\ Share(map[k + 1], AllTables) = map[k + 1].limit
      /\ Share(new[k], AllTables) = new[k].limit /\ Share(new[k + 1], AllTables) = new[k + 1].limit
  BY <1>4, Shares
<1>7. /\ PagesNaming(new, AllTables) = PagesNaming(map, AllTables) + 0
      /\ UpToBlock(new, AllTables)[k - 1 + 2] = UpToBlock(map, AllTables)[k - 1 + 2] + 0
      /\ UpToBlock(new, AllTables)[k - 1] = UpToBlock(map, AllTables)[k - 1]
      /\ UpToBlock(new, AllTables)[k] = UpToBlock(map, AllTables)[k - 1] + Share(new[k], AllTables)
  <2>1. Share(new[k], AllTables) + Share(new[k + 1], AllTables)
          = Share(map[k], AllTables) + Share(map[k + 1], AllTables) + 0
    BY <1>0, <1>5, <1>6
  <2>2. 0 \in Int
    OBVIOUS
  <2>3. QED
    BY <2>1, <2>2, TwoByTwo
<1>8. ASSUME NEW q \in Tables
      PROVE  PagesNaming(new, {q}) = PagesNaming(map, {q}) + (IF q = p THEN 1 ELSE 0)
  <2>1. (IF q = p THEN 1 ELSE 0) \in Int
    OBVIOUS
  <2>2. Share(new[k], {q}) + Share(new[k + 1], {q})
          = Share(map[k], {q}) + Share(map[k + 1], {q}) + (IF q = p THEN 1 ELSE 0)
    BY DEF BorderMove
  <2>3. QED
    BY <2>1, <2>2, TwoByTwo
<1>9. /\ UpToBlock(map, AllTables) \in [0 .. Len(map) -> Nat]
      /\ \A i \in 1 .. Len(map) :
           UpToBlock(map, AllTables)[i] = UpToBlock(map, AllTables)[i - 1] + Share(map[i], AllTables)
  BY <1>1, UpToFacts
<1>10. UpToBlock(map, AllTables)[k - 1] \in Nat /\ UpToBlock(map, AllTables)[k + 1] \in Nat
  <2>1. k - 1 \in 0 .. Len(map) /\ k + 1 \in 0 .. Len(map)
    BY <1>1
  <2>2. UpToBlock(map, AllTables) \in [0 .. Len(map) -> Nat]
    BY <1>9
  <2>3. QED
    BY <2>1, <2>2
<1>11. PagesNaming(map, AllTables) \in Nat
  BY <1>1, PagesTyped
<1>12. /\ UpToBlock(map, AllTables)[k - 1] <= map[k].base
       /\ UpToBlock(map, AllTables)[k - 1] + map[k].limit <= map[k + 1].base
  <2>1. \A i \in 1 .. Len(map) : UpToBlock(map, AllTables)[i - 1] <= map[i].base
    BY <1>3 DEF Fits
  <2>2. /\ UpToBlock(map, AllTables)[k - 1] <= map[k].base
        /\ UpToBlock(map, AllTables)[(k + 1) - 1] <= map[k + 1].base
    BY <1>2, <2>1
  <2>3. UpToBlock(map, AllTables)[k] = UpToBlock(map, AllTables)[k - 1] + map[k].limit
    BY <1>2, <1>6, <1>9
  <2>4. QED
    BY <1>2, <2>2, <2>3
<1>13. Fits(new)
  <2>1. UpToBlock(new, AllTables)[k - 1 + 2] = UpToBlock(map, AllTables)[k - 1 + 2]
    BY <1>2, <1>7, <1>10
  <2>2. ASSUME NEW j \in k .. k + 2 - 1
        PROVE  UpToBlock(new, AllTables)[j - 1] <= new[j].base
    <3>1. CASE j = k
      BY <3>1, <1>0, <1>7, <1>12
    <3>2. CASE j = k + 1
      <4>1. j - 1 = k
        BY <1>2, <3>2
      <4>2. UpToBlock(new, AllTables)[k] = UpToBlock(map, AllTables)[k - 1] + new[k].limit
        BY <1>6, <1>7
      <4>3. UpToBlock(new, AllTables)[k] <= new[k + 1].base
        <5>1. PICK u \in Nat : u = UpToBlock(map, AllTables)[k - 1]
          BY <1>10
        <5>2. u + xl <= yb
          BY <5>1, <1>12, <1>r
        <5>3. u + cl <= db
          BY <5>2, <1>s
        <5>4. QED
          BY <5>1, <5>3, <4>2, <1>r
      <4>4. QED
        BY <3>2, <4>1, <4>3
    <3>3. QED
      BY <1>2, <3>1, <3>2
  <2>3. QED
    BY <1>3, <2>1, <2>2, WindowFits
<1>14. Ends(new)
  <2>1. k # 1 /\ k + 2 - 1 # Len(map) - 1 /\ k + 2 - 1 < Len(map) /\ Len(new) >= 3
    BY <1>1, <1>3 DEF Ends
  <2>2. QED
    BY <2>1, <1>3, WindowEnds
<1>15. Filled(new, x)
  <2>1. \A j \in k .. k + 2 - 1 : FilledBlock(new[j], j = x)
    BY <1>2 DEF BorderMove
  <2>2. QED
    BY <2>1, <1>3, WindowFilled
<1>16. ASSUME Contiguous(map) PROVE Contiguous(new)
  <2>1. /\ map[k].base + map[k].limit = map[k + 1].base
        /\ map[k + 1].base + map[k + 1].limit = map[k + 2].base
    <3>1. k \in 2 .. (Len(map) - 2) /\ k + 1 \in 2 .. (Len(map) - 2) /\ (k + 1) + 1 = k + 2
      BY <1>1
    <3>2. QED
      BY <3>1, <1>16 DEF Contiguous
  <2>2. ASSUME NEW j \in k .. k + 2 - 1
        PROVE  new[j].base + new[j].limit = new[j + 1].base
    <3>1. CASE j = k
      <4>1. new[k].base + new[k].limit = new[k + 1].base
        <5>1. xb + xl = yb
          BY <2>1, <1>r
        <5>2. cb + cl = db
          BY <5>1, <1>s
        <5>3. QED
          BY <5>2, <1>r
      <4>2. QED
        BY <3>1, <4>1
    <3>2. CASE j = k + 1
      <4>1. k + 2 \in k + 2 .. Len(map) /\ (k + 2) - 2 + 2 = k + 2 /\ j + 1 = k + 2
        BY <1>1, <3>2
      <4>2. new[k + 2] = map[k + 2]
        BY <4>1 DEF Replaced
      <4>3. new[k + 1].base + new[k + 1].limit = map[k + 2].base
        <5>1. PICK z : z = map[k + 2].base
          OBVIOUS
        <5>2. xb + xl = yb /\ yb + yl = z
          BY <2>1, <5>1, <1>r
        <5>3. db + dl = yb + yl
          BY <1>s
        <5>4. QED
          BY <5>1, <5>2, <5>3, <1>r
      <4>4. QED
        BY <3>2, <4>1, <4>2, <4>3
    <3>3. QED
      BY <1>2, <3>1, <3>2
  <2>3. 2 >= 1 /\ k < Len(map) /\ new[k].base = map[k].base
    BY <1>0, <1>1
  <2>4. QED
    BY <1>16, <2>2, <2>3, WindowContiguous
<1>17. ASSUME Contiguous(map), NEW q \in Tables
       PROVE  Held(new, q) = Held(map, q) \cup (IF q = p THEN {frame} ELSE {})
  <2>1. PICK O : /\ Held(map, q) = O \cup HeldIn(map, q, k .. k + 2 - 1)
                 /\ Held(new, q) = O \cup HeldIn(new, q, k .. k + 2 - 1)
    <3>1. Replaced(map, new, k, 2, 2)
      OBVIOUS
    <3>2. SameElsewhere(map, new, q, k .. k + 2 - 1, k .. k + 2 - 1)
      BY <3>1, WindowHeld
    <3>3. QED
      BY <3>2 DEF SameElsewhere
  <2>2. HeldIn(new, q, k .. k + 1)
          = HeldIn(map, q, k .. k + 1) \cup (IF q = p THEN {frame} ELSE {})
    BY <1>17 DEF BorderMove
  <2>3. QED
    BY <1>2, <2>1, <2>2
<1>18. PagesNaming(new, AllTables) = PagesNaming(map, AllTables)
  BY <1>7, <1>11
<1>19. Sound(new, x)
  BY <1>1, <1>13, <1>14, <1>15 DEF Sound
<1>20. QED
  BY <1>8, <1>16, <1>17, <1>18, <1>19 DEF AfterTake

(* The first usable block is not empty and not at the ends of the list.       *)
LEMMA UsableFacts ==
  ASSUME NEW map, Sound(map, 0), UsableBlock(map) # 0
  PROVE  /\ UsableBlock(map) \in 2 .. Len(map) - 2
         /\ ~map[UsableBlock(map)].bound
         /\ map[UsableBlock(map)].page_table = KERNEL_PAGE_TABLE
         /\ map[UsableBlock(map)].limit > 0
<1> DEFINE I == {i \in 1 .. Len(map) : ~map[i].bound}
<1>1. UsableBlock(map) = IF I # {} THEN Min(I) ELSE 0
  BY DEF UsableBlock, SelectInSeq
<1>2. I \in SUBSET Nat /\ I # {}
  BY <1>1
<1>3. Min(I) \in I
  <2> HIDE DEF I
  <2>1. QED
    BY <1>2, MinExists
<1>4. PICK i \in 1 .. Len(map) : i = UsableBlock(map) /\ ~map[i].bound
  BY <1>1, <1>2, <1>3
<1>5. i # 1 /\ i # Len(map) - 1 /\ i # Len(map) /\ Len(map) \in Nat
  BY <1>4 DEF Sound, Ends, IsReserved
<1>6. i # 0 /\ i \in 2 .. Len(map) - 2
  BY <1>5
<1>7. map[i].page_table = KERNEL_PAGE_TABLE /\ map[i].limit > 0
  BY <1>4, <1>6 DEF Sound, Filled, FilledBlock
<1>8. QED
  BY <1>4, <1>6, <1>7

(* No block has an address below the pages of the one before it.              *)
LEMMA FitsNext ==
  ASSUME NEW map \in Seq(Block), Fits(map), NEW i \in 1 .. Len(map) - 1
  PROVE  map[i].limit <= map[i + 1].base
<1> DEFINE P == UpToBlock(map, AllTables)
<1>1. /\ P \in [0 .. Len(map) -> Nat]
      /\ \A j \in 1 .. Len(map) : P[j] = P[j - 1] + Share(map[j], AllTables)
  BY UpToFacts
<1>2. \A j \in 1 .. Len(map) : P[j - 1] <= map[j].base
  BY DEF Fits
<1> HIDE DEF P
<1>3. /\ i \in 1 .. Len(map) /\ i + 1 \in 1 .. Len(map) /\ i - 1 \in 0 .. Len(map)
      /\ (i + 1) - 1 = i
  OBVIOUS
<1>4. P[i] = P[i - 1] + Share(map[i], AllTables) /\ P[i - 1] \in Nat /\ P[i] <= map[i + 1].base
  BY <1>1, <1>2, <1>3
<1>5. map[i] \in Block /\ map[i + 1] \in Block
  BY <1>3, BlockFacts
<1>6. /\ Share(map[i], AllTables) = map[i].limit
      /\ map[i].limit \in Nat /\ map[i + 1].base \in Nat
  <2>1. Share(map[i], AllTables) = map[i].limit
    BY <1>5, Shares
  <2>2. QED
    BY <1>5, <2>1 DEF Block
<1>7. QED
  BY <1>4, <1>6

\* A page is taken from the usable block i.
Usable(map, i) ==
  /\ i \in 2 .. Len(map) - 2
  /\ map[i].page_table = KERNEL_PAGE_TABLE /\ ~map[i].bound /\ map[i].limit > 0

\* From its end, for the block after it.
TakenAfter(map, new, p, i) ==
  /\ Usable(map, i) /\ map[i + 1].page_table = p
  /\ new \in Seq(Block) /\ Len(new) = Len(map)
  /\ new[i] = LoseLast(map[i]) /\ new[i + 1] = GainBefore(map[i + 1])
  /\ \A j \in 1 .. Len(map) : j # i /\ j # i + 1 => new[j] = map[j]

LEMMA TakeAfter ==
  ASSUME NEW map, NEW new, NEW p \in Tables, NEW i, Sound(map, 0), TakenAfter(map, new, p, i)
  PROVE  AfterTake(map, new, i, p, map[i + 1].base - 1)
<1>1. /\ map \in Seq(Block) /\ Len(map) \in Nat /\ new \in Seq(Block) /\ Len(new) = Len(map) /\ i \in Nat /\ i >= 2
      /\ i \in 1 .. Len(map) /\ i + 1 \in 1 .. Len(map) /\ i + 1 <= Len(map) - 2
      /\ i \in 1 .. Len(map) - 1
  <2>1. map \in Seq(Block) /\ Len(map) \in Nat
    BY DEF Sound
  <2>0. new \in Seq(Block) /\ Len(new) = Len(map) /\ i \in 2 .. Len(map) - 2
    BY DEF TakenAfter, Usable
  <2>2. i + 1 # Len(map) - 1
    BY MinTables DEF Sound, Ends, IsReserved, TakenAfter
  <2>3. QED
    BY <2>0, <2>1, <2>2
<1>2. PICK x \in Block, y \in Block : x = map[i] /\ y = map[i + 1]
  BY <1>1, BlockFacts
<1>3. PICK c \in Block, d \in Block : c = new[i] /\ d = new[i + 1]
  BY <1>1, BlockFacts
<1>4. /\ x.page_table = 0 /\ ~x.bound /\ x.limit > 0 /\ y.page_table = p
      /\ c = LoseLast(x) /\ d = GainBefore(y)
  BY <1>2, <1>3, MinTables DEF TakenAfter, Usable
<1>5. Replaced(map, new, i, 2, 2)
  <2>1. i \in 1 .. Len(map) + 1 - 2 /\ Len(new) = Len(map) - 2 + 2
    BY <1>1
  <2>2. \A j \in 1 .. i - 1 : new[j] = map[j]
    <3>1. \A j \in 1 .. i - 1 : j \in 1 .. Len(map) /\ j # i /\ j # i + 1
      BY <1>1
    <3>2. QED
      BY <3>1 DEF TakenAfter
  <2>3. \A j \in i + 2 .. Len(map) : j - 2 + 2 = j /\ new[j] = map[j]
    BY <1>1 DEF TakenAfter
  <2>4. QED
    BY <1>1, <2>1, <2>2, <2>3 DEF Replaced
<1>6. /\ c.limit = x.limit - 1 /\ c.base = x.base /\ c.bound = x.bound
      /\ c.page_table = x.page_table
      /\ d.limit = y.limit + 1 /\ d.base = y.base - 1 /\ d.bound = y.bound
      /\ d.page_table = y.page_table
  BY <1>4, MovedBorders
<1>7. /\ x.limit \in Nat /\ x.base \in Nat /\ y.limit \in Nat /\ y.base \in Nat
      /\ c.limit \in Nat /\ c.base \in Nat /\ d.limit \in Nat /\ d.base \in Nat
  BY <1>2, <1>3 DEF Block
<1>8. y.page_table # 0 /\ y.bound
  <2>1. p # KERNEL_PAGE_TABLE
    BY MinTables
  <2>2. ~y.bound => y.page_table = KERNEL_PAGE_TABLE
    BY <1>1, <1>2 DEF Sound, Filled, FilledBlock
  <2>3. QED
    BY <1>4, <2>1, <2>2, MinTables
<1>9. d.base = y.base - 1 /\ y.base > 0 /\ y.base - 1 \in Nat
  BY <1>6, <1>7
<1>10. BorderMove(map, new, i, i, p, y.base - 1)
  <2>1. c.limit + d.limit = x.limit + y.limit
    BY <1>6, <1>7
  <2>2. c.base = x.base /\ d.base + x.limit = y.base + c.limit
    BY <1>6, <1>7
  <2>3. ASSUME NEW q \in Tables
        PROVE  Share(c, {q}) + Share(d, {q})
                 = Share(x, {q}) + Share(y, {q}) + (IF q = p THEN 1 ELSE 0)
    <3>1. /\ Share(x, {q}) = 0 /\ Share(c, {q}) = 0
      BY <1>4, <1>6, MinTables DEF Share
    <3>2. /\ Share(y, {q}) = IF p = q THEN y.limit ELSE 0
          /\ Share(d, {q}) = IF p = q THEN y.limit + 1 ELSE 0
      BY <1>4, <1>6 DEF Share
    <3>3. QED
      BY <3>1, <3>2, <1>7
  <2>4. ASSUME NEW j \in i .. i + 1 PROVE FilledBlock(new[j], j = i)
    <3>1. j = i \/ j = i + 1
      BY <1>1
    <3>2. d.bound /\ d.limit > 0 /\ c.page_table = KERNEL_PAGE_TABLE
      BY <1>4, <1>6, <1>7, <1>8, MinTables
    <3>3. QED
      BY <3>1, <3>2, <1>3 DEF FilledBlock
  <2>5. ASSUME NEW q \in Tables
        PROVE  HeldIn(new, q, i .. i + 1)
                 = HeldIn(map, q, i .. i + 1) \cup (IF q = p THEN {y.base - 1} ELSE {})
    <3>1. i .. i + 1 = {i, i + 1}
      BY <1>1
    <3>2. x.page_table # q /\ c.page_table # q
      BY <1>4, <1>6, MinTables
    <3>3. HeldIn(map, q, {i, i + 1}) = IF p = q THEN Extent(y) ELSE {}
      BY <3>2, <1>2, <1>4 DEF HeldIn
    <3>4. HeldIn(new, q, {i, i + 1}) = IF p = q THEN Extent(d) ELSE {}
      BY <3>2, <1>3, <1>4, <1>6 DEF HeldIn
    <3>5. Extent(d) = Extent(y) \cup {y.base - 1}
      <4>1. d.base + d.limit - 1 = y.base + y.limit - 1 /\ y.base <= y.base + y.limit
        BY <1>6, <1>7
      <4>2. Extent(d) = (y.base - 1) .. (y.base + y.limit - 1)
        BY <1>6, <4>1 DEF Extent
      <4>3. (y.base - 1) .. (y.base + y.limit - 1)
              = (y.base .. (y.base + y.limit - 1)) \cup {y.base - 1}
        BY <1>7
      <4>4. QED
        BY <4>2, <4>3 DEF Extent
    <3>6. QED
      BY <3>1, <3>3, <3>4, <3>5
  <2>6. QED
    BY <2>1, <2>2, <2>3, <2>4, <2>5, <1>2, <1>3 DEF BorderMove
<1>11. AfterTake(map, new, i, p, y.base - 1)
  <2>1. i >= 2 /\ i + 1 <= Len(map) - 2
    BY <1>1
  <2>2. QED
    BY <1>5, <1>9, <1>10, <2>1, BorderMoved
<1>12. QED
  BY <1>2, <1>11

\* From its start, for the block before it.
TakenBefore(map, new, p, i) ==
  /\ Usable(map, i) /\ map[i - 1].page_table = p
  /\ new \in Seq(Block) /\ Len(new) = Len(map)
  /\ new[i] = LoseFirst(map[i]) /\ new[i - 1] = GainAfter(map[i - 1])
  /\ \A j \in 1 .. Len(map) : j # i /\ j # i - 1 => new[j] = map[j]

LEMMA TakeBefore ==
  ASSUME NEW map, NEW new, NEW p \in Tables, NEW i, Sound(map, 0), TakenBefore(map, new, p, i)
  PROVE  AfterTake(map, new, i, p, map[i].base)
<1> DEFINE k == i - 1
<1>1. /\ map \in Seq(Block) /\ Len(map) \in Nat /\ new \in Seq(Block) /\ Len(new) = Len(map) /\ k \in Nat /\ k + 1 = i /\ i \in Nat
      /\ i \in 1 .. Len(map) /\ k \in 1 .. Len(map) /\ i <= Len(map) - 2 /\ k >= 2
  <2>1. map \in Seq(Block) /\ Len(map) \in Nat
    BY DEF Sound
  <2>0. new \in Seq(Block) /\ Len(new) = Len(map) /\ i \in 2 .. Len(map) - 2
    BY DEF TakenBefore, Usable
  <2>2. i - 1 # 1
    BY MinTables DEF Sound, Ends, IsReserved, TakenBefore
  <2>3. QED
    BY <2>0, <2>1, <2>2
<1>0. map[k].page_table = p /\ new[k] = GainAfter(map[k])
      /\ \A j \in 1 .. Len(map) : j # i /\ j # k => new[j] = map[j]
  BY DEF TakenBefore
<1> HIDE DEF k
<1>2. PICK x \in Block, y \in Block : x = map[k] /\ y = map[i]
  BY <1>1, BlockFacts
<1>3. PICK c \in Block, d \in Block : c = new[k] /\ d = new[i]
  BY <1>1, BlockFacts
<1>4. /\ y.page_table = 0 /\ ~y.bound /\ y.limit > 0 /\ x.page_table = p
      /\ c = GainAfter(x) /\ d = LoseFirst(y)
  BY <1>0, <1>2, <1>3, MinTables DEF TakenBefore, Usable
<1>5. Replaced(map, new, k, 2, 2)
  <2>1. k \in 1 .. Len(map) + 1 - 2 /\ Len(new) = Len(map) - 2 + 2
    BY <1>1
  <2>2. \A j \in 1 .. k - 1 : new[j] = map[j]
    BY <1>0, <1>1
  <2>3. \A j \in k + 2 .. Len(map) : j - 2 + 2 = j /\ new[j] = map[j]
    BY <1>0, <1>1
  <2>4. QED
    BY <1>1, <2>1, <2>2, <2>3 DEF Replaced
<1>6. /\ c.limit = x.limit + 1 /\ c.base = x.base /\ c.bound = x.bound
      /\ c.page_table = x.page_table
      /\ d.limit = y.limit - 1 /\ d.base = y.base + 1 /\ d.bound = y.bound
      /\ d.page_table = y.page_table
  BY <1>4, MovedBorders
<1>7. /\ x.limit \in Nat /\ x.base \in Nat /\ y.limit \in Nat /\ y.base \in Nat
      /\ c.limit \in Nat /\ c.base \in Nat /\ d.limit \in Nat /\ d.base \in Nat
  BY <1>2, <1>3 DEF Block
<1>8. x.page_table # 0 /\ x.bound
  <2>1. p # KERNEL_PAGE_TABLE
    BY MinTables
  <2>2. ~x.bound => x.page_table = KERNEL_PAGE_TABLE
    BY <1>1, <1>2 DEF Sound, Filled, FilledBlock
  <2>3. QED
    BY <1>4, <2>1, <2>2, MinTables
<1>10. BorderMove(map, new, k, i, p, y.base)
  <2>1. c.limit + d.limit = x.limit + y.limit
    BY <1>6, <1>7
  <2>2. c.base = x.base /\ d.base + x.limit = y.base + c.limit
    BY <1>6, <1>7
  <2>3. ASSUME NEW q \in Tables
        PROVE  Share(c, {q}) + Share(d, {q})
                 = Share(x, {q}) + Share(y, {q}) + (IF q = p THEN 1 ELSE 0)
    <3>1. /\ Share(y, {q}) = 0 /\ Share(d, {q}) = 0
      BY <1>4, <1>6, MinTables DEF Share
    <3>2. /\ Share(x, {q}) = IF p = q THEN x.limit ELSE 0
          /\ Share(c, {q}) = IF p = q THEN x.limit + 1 ELSE 0
      BY <1>4, <1>6 DEF Share
    <3>3. QED
      BY <3>1, <3>2, <1>7
  <2>4. ASSUME NEW j \in k .. k + 1 PROVE FilledBlock(new[j], j = i)
    <3>1. j = k \/ j = i
      BY <1>1
    <3>2. c.bound /\ c.limit > 0 /\ d.page_table = KERNEL_PAGE_TABLE
      BY <1>4, <1>6, <1>7, <1>8, MinTables
    <3>3. QED
      BY <3>1, <3>2, <1>3 DEF FilledBlock
  <2>5. ASSUME NEW q \in Tables, Contiguous(map)
        PROVE  HeldIn(new, q, k .. k + 1)
                 = HeldIn(map, q, k .. k + 1) \cup (IF q = p THEN {y.base} ELSE {})
    <3>1. k .. k + 1 = {k, i}
      BY <1>1
    <3>2. y.page_table # q /\ d.page_table # q
      BY <1>4, <1>6, MinTables
    <3>3. HeldIn(map, q, {k, i}) = IF p = q THEN Extent(x) ELSE {}
      BY <3>2, <1>2, <1>4 DEF HeldIn
    <3>4. HeldIn(new, q, {k, i}) = IF p = q THEN Extent(c) ELSE {}
      BY <3>2, <1>3, <1>4, <1>6 DEF HeldIn
    <3>5. x.base + x.limit = y.base
      <4>1. k \in 2 .. (Len(map) - 2)
        BY <1>1
      <4>2. QED
        BY <4>1, <2>5, <1>1, <1>2 DEF Contiguous
    <3>6. Extent(c) = Extent(x) \cup {y.base}
      <4>1. c.base + c.limit - 1 = x.base + x.limit
        BY <1>6, <1>7
      <4>2. Extent(c) = x.base .. (x.base + x.limit)
        BY <1>6, <4>1 DEF Extent
      <4>3. x.base .. (x.base + x.limit)
              = (x.base .. (x.base + x.limit - 1)) \cup {x.base + x.limit}
        BY <1>7
      <4>4. QED
        BY <4>2, <4>3, <3>5 DEF Extent
    <3>7. QED
      BY <3>1, <3>3, <3>4, <3>6
  <2>6. QED
    BY <2>1, <2>2, <2>3, <2>4, <2>5, <1>1, <1>2, <1>3 DEF BorderMove
<1>11. AfterTake(map, new, i, p, y.base)
  <2>1. k + 1 <= Len(map) - 2
    BY <1>1
  <2>2. QED
    BY <1>1, <1>5, <1>7, <1>10, <2>1, BorderMoved
<1>12. QED
  BY <1>2, <1>11

\* From its start, as a new block.
TakenNew(map, new, p, i) ==
  /\ Usable(map, i)
  /\ new \in Seq(Block) /\ Len(new) = Len(map) + 1
  /\ new[i] = NewBlock(p, map[i].base) /\ new[i + 1] = LoseFirst(map[i])
  /\ \A j \in 1 .. Len(map) :
       (j < i => new[j] = map[j]) /\ (j > i => new[j + 1] = map[j])

LEMMA TakeNew ==
  ASSUME NEW map, NEW new, NEW p \in Tables, NEW i, Sound(map, 0), TakenNew(map, new, p, i)
  PROVE  AfterTake(map, new, i + 1, p, map[i].base)
<1>1. /\ map \in Seq(Block) /\ Len(map) \in Nat /\ new \in Seq(Block)
      /\ Len(new) = Len(map) + 1 /\ i \in Nat /\ i >= 2 /\ i <= Len(map) - 2
      /\ i \in 1 .. Len(map) /\ i \in 1 .. Len(new) /\ i + 1 \in 1 .. Len(new)
      /\ i - 1 \in 0 .. Len(map) /\ i - 1 + 2 = i + 1 /\ i - 1 + 1 = i
      /\ i + 2 - 1 = i + 1 /\ i + 1 - 1 = i
  <2>1. map \in Seq(Block) /\ Len(map) \in Nat
    BY DEF Sound
  <2>2. new \in Seq(Block) /\ Len(new) = Len(map) + 1 /\ i \in 2 .. Len(map) - 2
    BY DEF TakenNew, Usable
  <2>3. QED
    BY <2>1, <2>2
<1>2. PICK x \in Block : x = map[i]
  BY <1>1, BlockFacts
<1>3. PICK c \in Block, d \in Block : c = new[i] /\ d = new[i + 1]
  BY <1>1, BlockFacts
<1>4. /\ x.page_table = 0 /\ ~x.bound /\ x.limit > 0
      /\ c = NewBlock(p, x.base) /\ d = LoseFirst(x)
  BY <1>2, <1>3, MinTables DEF TakenNew, Usable
<1>5. Replaced(map, new, i, 1, 2)
  <2>1. i \in 1 .. Len(map) + 1 - 1 /\ Len(new) = Len(map) - 1 + 2
    BY <1>1
  <2>2. \A j \in 1 .. i - 1 : new[j] = map[j]
    <3>1. \A j \in 1 .. i - 1 : j \in 1 .. Len(map) /\ j < i
      BY <1>1
    <3>2. QED
      BY <3>1 DEF TakenNew
  <2>3. \A j \in i + 1 .. Len(map) : new[j - 1 + 2] = map[j]
    <3>1. \A j \in i + 1 .. Len(map) : j \in 1 .. Len(map) /\ j > i /\ j - 1 + 2 = j + 1
      BY <1>1
    <3>2. QED
      BY <3>1 DEF TakenNew
  <2>4. QED
    BY <1>1, <2>1, <2>2, <2>3 DEF Replaced
<1>6. /\ c.limit = 1 /\ c.base = x.base /\ c.bound /\ c.page_table = p
      /\ d.limit = x.limit - 1 /\ d.base = x.base + 1 /\ d.bound = x.bound
      /\ d.page_table = x.page_table
  BY <1>4, MovedBorders DEF NewBlock
<1>7. /\ x.limit \in Nat /\ x.base \in Nat
      /\ c.limit \in Nat /\ c.base \in Nat /\ d.limit \in Nat /\ d.base \in Nat
  BY <1>2, <1>3 DEF Block
<1>8. map \in Seq(Block) /\ Fits(map) /\ Ends(map) /\ Filled(map, 0)
  BY DEF Sound
<1>a. PICK a \in 0 .. 2, b \in 0 .. 2 : a = 1 /\ b = 2
  OBVIOUS
<1>9. \A Q : Part(map, i, 1, Q) = Share(x, Q) /\ Part(new, i, 2, Q) = Share(c, Q) + Share(d, Q)
  <2>1. \A Q : Share(x, Q) \in Nat
    BY <1>2, Shares
  <2>2. QED
    BY <2>1, <1>2, <1>3 DEF Part
<1>10. SumsMove(map, new, i, 1, 2, AllTables, 0)
  <2>1. /\ Share(x, AllTables) = x.limit /\ Share(c, AllTables) = c.limit
        /\ Share(d, AllTables) = d.limit
    BY <1>2, <1>3, Shares
  <2>2. Share(c, AllTables) + Share(d, AllTables) = Share(x, AllTables) + 0
    BY <2>1, <1>6, <1>7
  <2>3. Grows(map, new, i, 1, 2, AllTables, 0)
    BY <1>9, <2>2 DEF Grows
  <2>4. Grows(map, new, i, a, b, AllTables, 0) /\ Replaced(map, new, i, a, b) /\ 0 \in Int
    BY <1>5, <1>a, <2>3
  <2>5. SumsMove(map, new, i, a, b, AllTables, 0)
    BY <1>a, <2>4, SmallWindow
  <2>6. QED
    BY <1>a, <2>5
<1>11. ASSUME NEW q \in Tables
       PROVE  SumsMove(map, new, i, 1, 2, {q}, IF q = p THEN 1 ELSE 0)
  <2>1. Share(x, {q}) = 0 /\ Share(d, {q}) = 0
    BY <1>4, <1>6, MinTables DEF Share
  <2>2. Share(c, {q}) = IF q = p THEN 1 ELSE 0
    BY <1>6 DEF Share
  <2>3. Share(c, {q}) + Share(d, {q}) = Share(x, {q}) + (IF q = p THEN 1 ELSE 0)
    BY <2>1, <2>2
  <2>4. PICK e \in Int : e = IF q = p THEN 1 ELSE 0
    OBVIOUS
  <2>5. Grows(map, new, i, 1, 2, {q}, e)
    BY <1>9, <2>3, <2>4 DEF Grows
  <2>6. Grows(map, new, i, a, b, {q}, e) /\ Replaced(map, new, i, a, b) /\ e \in Int
    BY <1>5, <1>a, <2>4, <2>5
  <2>7. SumsMove(map, new, i, a, b, {q}, e)
    BY <1>a, <2>6, SmallWindow
  <2>8. QED
    BY <1>a, <2>4, <2>7
<1>12. PICK u \in Nat : u = UpToBlock(map, AllTables)[i - 1] /\ u <= x.base
  <2>1. UpToBlock(map, AllTables) \in [0 .. Len(map) -> Nat]
    BY <1>1, UpToFacts
  <2>2. UpToBlock(map, AllTables)[i - 1] \in Nat
    BY <1>1, <2>1
  <2>3. UpToBlock(map, AllTables)[i - 1] <= x.base
    BY <1>1, <1>2, <1>8 DEF Fits
  <2>4. QED
    BY <2>2, <2>3
<1>13. Fits(new)
  <2>1. UpToBlock(new, AllTables)[i - 1 + 2] = UpToBlock(map, AllTables)[i - 1 + 1]
    <3>1. UpToBlock(new, AllTables)[i - 1 + 2] = UpToBlock(map, AllTables)[i - 1 + 1] + 0
      BY <1>10 DEF SumsMove
    <3>2. UpToBlock(map, AllTables)[i - 1 + 1] \in Nat
      <4>1. UpToBlock(map, AllTables) \in [0 .. Len(map) -> Nat]
        BY <1>1, UpToFacts
      <4>2. i - 1 + 1 \in 0 .. Len(map)
        BY <1>1
      <4>3. QED
        BY <4>1, <4>2
    <3>3. QED
      BY <3>1, <3>2
  <2>2. ASSUME NEW j \in i .. i + 2 - 1
        PROVE  UpToBlock(new, AllTables)[j - 1] <= new[j].base
    <3>1. CASE j = i
      <4>1. UpToBlock(new, AllTables)[i - 1] = u
        BY <1>10, <1>12 DEF SumsMove
      <4>2. QED
        BY <3>1, <4>1, <1>3, <1>6, <1>12
    <3>2. CASE j = i + 1
      <4>1. UpToBlock(new, AllTables)[i] = u + Share(c, AllTables) /\ Share(c, AllTables) = 1
        BY <1>3, <1>6, <1>10, <1>12, Shares DEF SumsMove
      <4>2. j - 1 = i /\ new[j] = d
        BY <1>1, <1>3, <3>2
      <4>3. u + 1 <= d.base
        BY <1>6, <1>7, <1>12
      <4>4. QED
        BY <4>1, <4>2, <4>3
    <3>3. QED
      BY <1>1, <3>1, <3>2
  <2>3. QED
    BY <1>5, <1>8, <2>1, <2>2, WindowFits
<1>14. Ends(new)
  <2>1. i # 1 /\ i + 1 - 1 # Len(map) - 1 /\ i + 1 - 1 < Len(map) /\ Len(new) >= 3
    BY <1>1, <1>8 DEF Ends
  <2>2. QED
    BY <2>1, <1>5, <1>8, WindowEnds
<1>15. Filled(new, i + 1)
  <2>1. ASSUME NEW j \in i .. i + 2 - 1 PROVE FilledBlock(new[j], j = i + 1)
    <3>1. j = i \/ j = i + 1
      BY <1>1
    <3>2. c.bound /\ c.limit > 0 /\ d.page_table = KERNEL_PAGE_TABLE
      BY <1>4, <1>6, MinTables
    <3>3. QED
      BY <3>1, <3>2, <1>3 DEF FilledBlock
  <2>2. QED
    BY <2>1, <1>5, <1>8, WindowFilled
<1>16. ASSUME Contiguous(map) PROVE Contiguous(new)
  <2>1. x.base + x.limit = map[i + 1].base
    <3>1. i \in 2 .. (Len(map) - 2)
      BY <1>1
    <3>2. QED
      BY <3>1, <1>2, <1>16 DEF Contiguous
  <2>2. ASSUME NEW j \in i .. i + 2 - 1
        PROVE  new[j].base + new[j].limit = new[j + 1].base
    <3>1. CASE j = i
      BY <3>1, <1>3, <1>6, <1>7
    <3>2. CASE j = i + 1
      <4>1. i + 1 \in i + 1 .. Len(map) /\ (i + 1) - 1 + 2 = j + 1
        BY <1>1, <3>2
      <4>2. new[(i + 1) - 1 + 2] = map[i + 1]
        BY <4>1, <1>5 DEF Replaced
      <4>3. d.base + d.limit = x.base + x.limit
        BY <1>6, <1>7
      <4>4. QED
        BY <3>2, <4>1, <4>2, <4>3, <2>1, <1>3
    <3>3. QED
      BY <1>1, <3>1, <3>2
  <2>3. 1 >= 1 /\ i < Len(map) /\ new[i].base = map[i].base
    BY <1>1, <1>2, <1>3, <1>6
  <2>4. QED
    BY <1>5, <1>16, <2>2, <2>3, WindowContiguous
<1>17. ASSUME NEW q \in Tables
       PROVE  Held(new, q) = Held(map, q) \cup (IF q = p THEN {x.base} ELSE {})
  <2>1. SameElsewhere(map, new, q, i .. i + 1 - 1, i .. i + 2 - 1)
    BY <1>5, WindowHeld
  <2>2. i .. i + 1 - 1 = {i} /\ i .. i + 2 - 1 = {i, i + 1}
    BY <1>1
  <2>3. x.page_table # q /\ d.page_table # q
    BY <1>4, <1>6, MinTables
  <2>4. HeldIn(map, q, {i}) = {}
    BY <2>3, <1>2 DEF HeldIn
  <2>5. HeldIn(new, q, {i, i + 1}) = IF q = p THEN Extent(c) ELSE {}
    BY <2>3, <1>3, <1>6 DEF HeldIn
  <2>6. Extent(c) = {x.base}
    <3>1. c.base + c.limit - 1 = x.base
      BY <1>6, <1>7
    <3>2. Extent(c) = x.base .. x.base
      BY <1>6, <3>1 DEF Extent
    <3>3. QED
      BY <3>2, <1>7
  <2>7. QED
    BY <2>1, <2>2, <2>4, <2>5, <2>6 DEF SameElsewhere
<1>18. PagesNaming(new, AllTables) = PagesNaming(map, AllTables)
  <2>1. PagesNaming(new, AllTables) = PagesNaming(map, AllTables) + 0
    BY <1>10 DEF SumsMove
  <2>2. QED
    BY <1>1, <2>1, PagesTyped
<1>19. \A q \in Tables :
         PagesNaming(new, {q}) = PagesNaming(map, {q}) + (IF q = p THEN 1 ELSE 0)
  BY <1>11 DEF SumsMove
<1>20. Sound(new, i + 1)
  BY <1>1, <1>13, <1>14, <1>15 DEF Sound
<1>21. AfterTake(map, new, i + 1, p, x.base)
  BY <1>7, <1>16, <1>17, <1>18, <1>19, <1>20 DEF AfterTake
<1>22. QED
  BY <1>2, <1>21

(* An emptied block is removed; the others stay as they are.                  *)
LEMMA Cleaned ==
  ASSUME NEW old, NEW map, NEW x, NEW p \in Tables, NEW frame,
         AfterTake(old, map, x, p, frame), x \in 2 .. Len(map) - 2, ~map[x].bound
  PROVE  AfterTake(old, CleanUp(map, x), 0, p, frame)
<1>0. map \in Seq(Block) /\ Fits(map) /\ Ends(map) /\ Filled(map, x)
  BY DEF AfterTake, Sound
<1>1. /\ Len(map) \in Nat /\ x \in Nat /\ x \in 1 .. Len(map) /\ x >= 2 /\ x <= Len(map) - 2
  BY <1>0
<1>2. PICK c \in Block : c = map[x]
  BY <1>0, <1>1, BlockFacts
<1>3. c.limit \in Nat /\ ~c.bound /\ c.page_table = 0 /\ c.base \in Nat
  BY <1>0, <1>1, <1>2, MinTables DEF Filled, FilledBlock, Block
<1>4. CASE c.limit > 0
  <2>1. CleanUp(map, x) = map
    BY <1>2, <1>3, <1>4 DEF CleanUp
  <2>2. Filled(map, 0)
    BY <1>0, <1>2, <1>4 DEF Filled, FilledBlock
  <2>3. Sound(map, 0)
    BY <1>0, <2>2 DEF Sound
  <2>4. QED
    BY <2>1, <2>3 DEF AfterTake
<1>5. CASE ~(c.limit > 0)
  <2> DEFINE new == RemoveAt(map, x)
  <2>1. CleanUp(map, x) = new
    BY <1>2, <1>3, <1>5 DEF CleanUp
  <2>2. c.limit = 0
    BY <1>3, <1>5
  <2>3. /\ new \in Seq(Block) /\ Len(new) = Len(map) - 1
        /\ \A j \in 1 .. Len(map) - 1 : new[j] = IF j < x THEN map[j] ELSE map[j + 1]
    BY <1>0, <1>1, RemoveAtFacts
  <2> HIDE DEF new
  <2>4. Replaced(map, new, x, 1, 0)
    <3>1. x \in 1 .. Len(map) + 1 - 1 /\ Len(new) = Len(map) - 1 + 0
      BY <1>1, <2>3
    <3>2. \A j \in 1 .. x - 1 : new[j] = map[j]
      BY <1>1, <2>3
    <3>3. ASSUME NEW j \in x + 1 .. Len(map) PROVE new[j - 1 + 0] = map[j]
      <4>1. j - 1 \in 1 .. Len(map) - 1 /\ ~(j - 1 < x) /\ (j - 1) + 1 = j /\ j - 1 + 0 = j - 1
        BY <1>1
      <4>2. QED
        BY <4>1, <2>3
    <3>4. QED
      BY <1>0, <2>3, <3>1, <3>2, <3>3 DEF Replaced
  <2>a. PICK a \in 0 .. 2, b \in 0 .. 2 : a = 1 /\ b = 0
    OBVIOUS
  <2>5. \A Q : SumsMove(map, new, x, 1, 0, Q, 0)
    <3> TAKE Q
    <3>1. Share(c, Q) = 0
      BY <2>2 DEF Share
    <3>2. Part(map, x, 1, Q) = 0 /\ Part(new, x, 0, Q) = 0
      BY <1>2, <3>1 DEF Part
    <3>3. Grows(map, new, x, a, b, Q, 0) /\ Replaced(map, new, x, a, b) /\ 0 \in Int
      BY <2>4, <2>a, <3>2 DEF Grows
    <3>4. SumsMove(map, new, x, a, b, Q, 0)
      BY <2>a, <3>3, SmallWindow
    <3>5. QED
      BY <2>a, <3>4
  <2>6. \A Q : PagesNaming(new, Q) = PagesNaming(map, Q)
    <3> TAKE Q
    <3>1. PagesNaming(new, Q) = PagesNaming(map, Q) + 0
      BY <2>5 DEF SumsMove
    <3>2. PagesNaming(map, Q) \in Nat
      BY <1>0, PagesTyped
    <3>3. QED
      BY <3>1, <3>2
  <2>7. Fits(new)
    <3>1. UpToBlock(new, AllTables)[x - 1 + 0] = UpToBlock(map, AllTables)[x - 1 + 1]
      <4>1. UpToBlock(new, AllTables)[x - 1 + 0] = UpToBlock(map, AllTables)[x - 1 + 1] + 0
        BY <2>5 DEF SumsMove
      <4>2. x - 1 + 1 \in 0 .. Len(map)
        BY <1>1
      <4>3. UpToBlock(map, AllTables)[x - 1 + 1] \in Nat
        BY <1>0, <4>2, UpToFacts
      <4>4. QED
        BY <4>1, <4>3
    <3>2. x .. x + 0 - 1 = {}
      BY <1>1
    <3>3. QED
      BY <1>0, <2>4, <3>1, <3>2, WindowFits
  <2>8. Ends(new)
    <3>1. x # 1 /\ x + 1 - 1 # Len(map) - 1 /\ x + 1 - 1 < Len(map) /\ Len(new) >= 3
      BY <1>1, <2>3
    <3>2. QED
      BY <3>1, <1>0, <2>4, WindowEnds
  <2>9. Filled(new, 0)
    <3>1. x .. x + 0 - 1 = {} /\ x \in x .. x + 1 - 1
      BY <1>1
    <3>2. QED
      BY <3>1, <1>0, <2>4, WindowFilled
  <2>10. Sound(new, 0)
    BY <2>3, <2>7, <2>8, <2>9 DEF Sound
  <2>11. ASSUME Contiguous(map) PROVE Contiguous(new)
    <3>1. x .. x + 0 - 1 = {} /\ 1 >= 1 /\ x < Len(map)
      BY <1>1
    <3>2. new[x].base = map[x].base
      <4>1. x \in 2 .. (Len(map) - 2) /\ x \in 1 .. Len(map) - 1 /\ ~(x < x)
        BY <1>1
      <4>2. c.base + c.limit = map[x + 1].base
        BY <4>1, <2>11, <1>2 DEF Contiguous
      <4>3. new[x] = map[x + 1]
        BY <2>3, <4>1
      <4>4. QED
        BY <4>2, <4>3, <2>2, <1>2, <1>3
    <3>3. QED
      BY <3>1, <3>2, <2>4, <2>11, WindowContiguous
  <2>12. ASSUME NEW q \in Tables PROVE Held(new, q) = Held(map, q)
    <3>1. SameElsewhere(map, new, q, x .. x + 1 - 1, x .. x + 0 - 1)
      BY <2>4, WindowHeld
    <3>2. x .. x + 1 - 1 = {x} /\ x .. x + 0 - 1 = {}
      BY <1>1
    <3>3. HeldIn(map, q, {x}) = {} /\ HeldIn(new, q, {}) = {}
      BY <1>2, <1>3, MinTables DEF HeldIn
    <3>4. QED
      BY <3>1, <3>2, <3>3 DEF SameElsewhere
  <2>13. QED
    BY <2>1, <2>6, <2>10, <2>11, <2>12 DEF AfterTake
<1>6. QED
  BY <1>4, <1>5

LEMMA TwoBlocksSet ==
  ASSUME NEW map \in Seq(Block), NEW i \in 1 .. Len(map), NEW j \in 1 .. Len(map), i # j,
         NEW x \in Block, NEW y \in Block, NEW new, new = [map EXCEPT ![i] = x, ![j] = y]
  PROVE  /\ new \in Seq(Block) /\ Len(new) = Len(map) /\ new[i] = x /\ new[j] = y
         /\ \A k \in 1 .. Len(map) : k # i /\ k # j => new[k] = map[k]
OBVIOUS

(* TakePage, when there is a usable block.                                    *)
LEMMA PageTaken ==
  ASSUME NEW map, NEW p \in Tables, Sound(map, 0), UsableBlock(map) # 0
  PROVE  AfterTake(map, TakePage(map, p).map, 0, p, TakePage(map, p).frame)
<1> DEFINE i == UsableBlock(map)
<1>1. Usable(map, i)
  BY UsableFacts DEF Usable
<1>2. TakePage(map, p) =
        IF i < Len(map) /\ map[i + 1].page_table = p THEN
          [map |-> CleanUp([map EXCEPT ![i] = LoseLast(map[i]),
                                       ![i + 1] = GainBefore(map[i + 1])], i),
           frame |-> map[i + 1].base - 1]
        ELSE IF i > 1 /\ map[i - 1].page_table = p THEN
          [map |-> CleanUp([map EXCEPT ![i] = LoseFirst(map[i]),
                                       ![i - 1] = GainAfter(map[i - 1])], i),
           frame |-> map[i].base]
        ELSE
          [map |-> CleanUp(InsertAt([map EXCEPT ![i] = LoseFirst(map[i])], i,
                                    NewBlock(p, map[i].base)), i + 1),
           frame |-> map[i].base]
  BY DEF TakePage
<1> HIDE DEF i
<1>3. /\ map \in Seq(Block) /\ Len(map) \in Nat /\ i \in 2 .. Len(map) - 2
      /\ i \in 1 .. Len(map) /\ i + 1 \in 1 .. Len(map) /\ i - 1 \in 1 .. Len(map)
      /\ i \in 1 .. Len(map) - 1 /\ i \in Nat /\ ~map[i].bound /\ map[i].limit > 0
  BY <1>1 DEF Usable, Sound
<1>4. map[i] \in Block /\ map[i + 1] \in Block /\ map[i - 1] \in Block
  BY <1>3, BlockFacts
<1>5. LoseLast(map[i]) \in Block /\ LoseFirst(map[i]) \in Block
      /\ LoseLast(map[i]).bound = map[i].bound /\ LoseFirst(map[i]).bound = map[i].bound
      /\ GainAfter(map[i - 1]) \in Block
  BY <1>3, <1>4, MovedBorders
<1>6. CASE i < Len(map) /\ map[i + 1].page_table = p
  <2> DEFINE new == [map EXCEPT ![i] = LoseLast(map[i]), ![i + 1] = GainBefore(map[i + 1])]
  <2>1. TakePage(map, p).map = CleanUp(new, i) /\ TakePage(map, p).frame = map[i + 1].base - 1
    BY <1>2, <1>6
  <2>2. GainBefore(map[i + 1]) \in Block
    <3>1. map[i].limit <= map[i + 1].base
      BY <1>3, FitsNext DEF Sound
    <3>2. PICK l \in Nat : l = map[i].limit
      BY <1>4 DEF Block
    <3>3. PICK b \in Nat : b = map[i + 1].base
      BY <1>4 DEF Block
    <3>4. map[i + 1].base > 0
      <4>1. l <= b /\ l > 0
        BY <3>1, <3>2, <3>3, <1>3
      <4>2. b > 0
        BY <4>1
      <4>3. QED
        BY <4>2, <3>3
    <3>5. QED
      BY <3>4, <1>4, MovedBorders
  <2>3. /\ new \in Seq(Block) /\ Len(new) = Len(map)
        /\ new[i] = LoseLast(map[i]) /\ new[i + 1] = GainBefore(map[i + 1])
        /\ \A k \in 1 .. Len(map) : k # i /\ k # i + 1 => new[k] = map[k]
    BY <1>3, <1>5, <2>2, TwoBlocksSet
  <2> HIDE DEF new
  <2>4. TakenAfter(map, new, p, i)
    BY <1>1, <1>6, <2>3 DEF TakenAfter
  <2>5. AfterTake(map, new, i, p, map[i + 1].base - 1)
    BY <2>4, TakeAfter
  <2>6. i \in 2 .. Len(new) - 2 /\ ~new[i].bound
    BY <1>3, <1>5, <2>3
  <2>7. QED
    BY <2>1, <2>5, <2>6, Cleaned
<1>7. CASE ~(i < Len(map) /\ map[i + 1].page_table = p) /\ i > 1 /\ map[i - 1].page_table = p
  <2> DEFINE new == [map EXCEPT ![i] = LoseFirst(map[i]), ![i - 1] = GainAfter(map[i - 1])]
  <2>1. TakePage(map, p).map = CleanUp(new, i) /\ TakePage(map, p).frame = map[i].base
    BY <1>2, <1>7
  <2>2. i # i - 1
    BY <1>3
  <2>3. /\ new \in Seq(Block) /\ Len(new) = Len(map)
        /\ new[i] = LoseFirst(map[i]) /\ new[i - 1] = GainAfter(map[i - 1])
        /\ \A k \in 1 .. Len(map) : k # i /\ k # i - 1 => new[k] = map[k]
    BY <1>3, <1>5, <2>2, TwoBlocksSet
  <2> HIDE DEF new
  <2>4. TakenBefore(map, new, p, i)
    BY <1>1, <1>7, <2>3 DEF TakenBefore
  <2>5. AfterTake(map, new, i, p, map[i].base)
    BY <2>4, TakeBefore
  <2>6. i \in 2 .. Len(new) - 2 /\ ~new[i].bound
    BY <1>3, <1>5, <2>3
  <2>7. QED
    BY <2>1, <2>5, <2>6, Cleaned
<1>8. CASE /\ ~(i < Len(map) /\ map[i + 1].page_table = p)
           /\ ~(i > 1 /\ map[i - 1].page_table = p)
  <2> DEFINE less == [map EXCEPT ![i] = LoseFirst(map[i])]
             e == NewBlock(p, map[i].base)
             new == InsertAt(less, i, e)
  <2>1. TakePage(map, p).map = CleanUp(new, i + 1) /\ TakePage(map, p).frame = map[i].base
    BY <1>2, <1>8
  <2>2. /\ less \in Seq(Block) /\ Len(less) = Len(map) /\ less[i] = LoseFirst(map[i])
        /\ \A k \in 1 .. Len(map) : k # i => less[k] = map[k]
    BY <1>3, <1>5
  <2>3. e \in Block
    BY <1>4, MinTables DEF NewBlock, Block, AllTables
  <2> HIDE DEF less, e
  <2>4. /\ new \in Seq(Block) /\ Len(new) = Len(less) + 1
        /\ \A j \in 1 .. Len(less) + 1 :
             new[j] = IF j < i THEN less[j] ELSE IF j = i THEN e ELSE less[j - 1]
    <3>1. less \in Seq(Block) /\ i \in 1 .. Len(less)
      BY <1>3, <2>2
    <3>2. \A x \in Block :
            /\ InsertAt(less, i, x) \in Seq(Block)
            /\ Len(InsertAt(less, i, x)) = Len(less) + 1
            /\ \A j \in 1 .. Len(less) + 1 :
                 InsertAt(less, i, x)[j] = IF j < i THEN less[j]
                                           ELSE IF j = i THEN x ELSE less[j - 1]
      BY <3>1, InsertAtFacts
    <3>3. QED
      BY <3>2, <2>3
  <2> HIDE DEF new
  <2>5. new[i] = e /\ new[i + 1] = LoseFirst(map[i])
    <3>1. /\ i \in 1 .. Len(map) + 1 /\ i + 1 \in 1 .. Len(map) + 1
          /\ (i + 1) - 1 = i /\ ~(i < i) /\ ~(i + 1 < i) /\ i + 1 # i
      BY <1>3
    <3>2. \A j \in 1 .. Len(map) + 1 :
            new[j] = IF j < i THEN less[j] ELSE IF j = i THEN e ELSE less[j - 1]
      BY <2>2, <2>4
    <3>3. new[i] = e /\ new[i + 1] = less[(i + 1) - 1]
      BY <3>1, <3>2
    <3>4. QED
      BY <3>1, <3>3, <2>2
  <2>6. ASSUME NEW j \in 1 .. Len(map)
        PROVE  (j < i => new[j] = map[j]) /\ (j > i => new[j + 1] = map[j])
    <3>1. j \in 1 .. Len(less) + 1 /\ j + 1 \in 1 .. Len(less) + 1 /\ (j + 1) - 1 = j
      BY <1>3, <2>2
    <3>2. ASSUME j < i PROVE new[j] = map[j]
      BY <3>1, <3>2, <1>3, <2>2, <2>4
    <3>3. ASSUME j > i PROVE new[j + 1] = map[j]
      <4>1. ~(j + 1 < i) /\ j + 1 # i /\ j # i
        BY <1>3, <3>3
      <4>2. new[j + 1] = less[(j + 1) - 1]
        BY <3>1, <4>1, <2>4
      <4>3. QED
        BY <4>1, <4>2, <3>1, <2>2
    <3>4. QED
      BY <3>2, <3>3
  <2>7. TakenNew(map, new, p, i)
    BY <1>1, <2>2, <2>4, <2>5, <2>6 DEF TakenNew, e
  <2>8. AfterTake(map, new, i + 1, p, map[i].base)
    BY <2>7, TakeNew
  <2>9. i + 1 \in 2 .. Len(new) - 2 /\ ~new[i + 1].bound
    BY <1>3, <1>5, <2>2, <2>4, <2>5
  <2>10. QED
    BY <2>1, <2>8, <2>9, Cleaned
<1>9. QED
  BY <1>6, <1>7, <1>8

-----------------------------------------------------------------------------
(* Allocation. *)

PageEntries == [Pages -> Nat \cup {Ignored}]

Mapped(pages) == {v \in Pages : pages[v] # Ignored}

FramesIn(pages) == {pages[v] : v \in Pages} \ {Ignored}

Memories == [map : Seq(Block), pages : PageEntries]

\* What pages allocated to p have made of the memory m.
AfterPages(m, new, p) ==
  /\ new \in Memories /\ Sound(new.map, 0)
  /\ PagesNaming(new.map, AllTables) = PagesNaming(m.map, AllTables)
  /\ \A q \in Tables : q # p => PagesNaming(new.map, {q}) = PagesNaming(m.map, {q})
  /\ PagesNaming(new.map, {p}) + Cardinality(Mapped(m.pages))
       = PagesNaming(m.map, {p}) + Cardinality(Mapped(new.pages))
  /\ Contiguous(m.map) =>
       /\ Contiguous(new.map)
       /\ \A q \in Tables : q # p => Held(new.map, q) = Held(m.map, q)
       /\ Held(m.map, p) = FramesIn(m.pages) => Held(new.map, p) = FramesIn(new.pages)

LEMMA CountTyped ==
  ASSUME NEW pages
  PROVE  IsFiniteSet(Mapped(pages)) /\ Cardinality(Mapped(pages)) \in Nat
<1>1. IsFiniteSet(Pages)
  BY SizesAssumption, FS_Interval DEF Pages
<1>2. IsFiniteSet(Mapped(pages))
  BY <1>1, FS_Subset DEF Mapped
<1>3. QED
  BY <1>2, FS_CardinalityType

(* A page more is mapped.                                                     *)
LEMMA OneMorePage ==
  ASSUME NEW pages \in PageEntries, NEW v \in Pages, pages[v] = Ignored,
         NEW f \in Nat, NEW new, new = [pages EXCEPT ![v] = f]
  PROVE  /\ new \in PageEntries
         /\ Cardinality(Mapped(new)) = Cardinality(Mapped(pages)) + 1
         /\ FramesIn(new) = FramesIn(pages) \cup {f}
<1>1. f # Ignored
  BY DEF Ignored
<1>2. new \in PageEntries /\ new[v] = f /\ \A u \in Pages : u # v => new[u] = pages[u]
  BY DEF PageEntries
<1>3. Mapped(new) = Mapped(pages) \cup {v} /\ v \notin Mapped(pages)
  BY <1>1, <1>2 DEF Mapped
<1>4. IsFiniteSet(Mapped(pages)) /\ Cardinality(Mapped(pages)) \in Nat
  BY CountTyped
<1>5. Cardinality(Mapped(new)) = Cardinality(Mapped(pages)) + 1
  BY <1>3, <1>4, FS_AddElement
<1>6. FramesIn(new) = FramesIn(pages) \cup {f}
  <2>1. ASSUME NEW x \in FramesIn(new) PROVE x \in FramesIn(pages) \cup {f}
    BY <1>1, <1>2 DEF FramesIn
  <2>2. ASSUME NEW x \in FramesIn(pages) PROVE x \in FramesIn(new)
    <3>1. PICK u \in Pages : x = pages[u] /\ x # Ignored
      BY DEF FramesIn
    <3>2. new[u] = x
      BY <3>1, <1>2
    <3>3. QED
      BY <3>1, <3>2 DEF FramesIn
  <2>3. f \in FramesIn(new)
    BY <1>1, <1>2 DEF FramesIn
  <2>4. QED
    BY <2>1, <2>2, <2>3
<1>7. QED
  BY <1>2, <1>5, <1>6

LEMMA NoPages ==
  ASSUME NEW m \in Memories, Sound(m.map, 0), NEW p
  PROVE  AfterPages(m, m, p)
BY DEF AfterPages

LEMMA MorePages ==
  ASSUME NEW m \in Memories, NEW n, NEW new, NEW p,
         AfterPages(m, n, p), AfterPages(n, new, p)
  PROVE  AfterPages(m, new, p)
<1>1. PICK a \in Nat : a = PagesNaming(m.map, {p})
  BY PagesTyped DEF Memories
<1>2. PICK b \in Nat : b = PagesNaming(n.map, {p})
  BY PagesTyped DEF Memories, AfterPages
<1>3. PICK c \in Nat : c = PagesNaming(new.map, {p})
  BY PagesTyped DEF Memories, AfterPages
<1>4. PICK x \in Nat : x = Cardinality(Mapped(m.pages))
  BY CountTyped
<1>5. PICK y \in Nat : y = Cardinality(Mapped(n.pages))
  BY CountTyped
<1>6. PICK z \in Nat : z = Cardinality(Mapped(new.pages))
  BY CountTyped
<1>7. b + x = a + y /\ c + y = b + z
  BY <1>1, <1>2, <1>3, <1>4, <1>5, <1>6 DEF AfterPages
<1>8. c + x = a + z
  BY <1>7
<1>9. PagesNaming(new.map, {p}) + Cardinality(Mapped(m.pages))
       = PagesNaming(m.map, {p}) + Cardinality(Mapped(new.pages))
  BY <1>8, <1>1, <1>3, <1>4, <1>6
<1>10. QED
  BY <1>9 DEF AfterPages

LEMMA PageAllocated ==
  ASSUME NEW m \in Memories, Sound(m.map, 0), NEW p \in Tables, NEW v \in Pages
  PROVE  AfterPages(m, AllocatePage(m, p, v), p)
<1>1. CASE m.pages[v] # Ignored \/ UsableBlock(m.map) = 0
  BY <1>1, NoPages DEF AllocatePage
<1>2. CASE m.pages[v] = Ignored /\ UsableBlock(m.map) # 0
  <2> DEFINE new == TakePage(m.map, p).map
             f == TakePage(m.map, p).frame
             pages == [m.pages EXCEPT ![v] = f]
  <2>1. AllocatePage(m, p, v) = [map |-> new, pages |-> pages]
    BY <1>2 DEF AllocatePage
  <2>2. AfterTake(m.map, new, 0, p, f)
    BY <1>2, PageTaken
  <2> HIDE DEF new, f
  <2>3. m.map \in Seq(Block) /\ m.pages \in PageEntries
    BY DEF Memories
  <2>4. f \in Nat /\ Sound(new, 0) /\ new \in Seq(Block)
    BY <2>2 DEF AfterTake, Sound
  <2>5. /\ pages \in PageEntries
        /\ Cardinality(Mapped(pages)) = Cardinality(Mapped(m.pages)) + 1
        /\ FramesIn(pages) = FramesIn(m.pages) \cup {f}
    BY <1>2, <2>3, <2>4, OneMorePage
  <2> HIDE DEF pages
  <2>6. PICK r : r = AllocatePage(m, p, v)
    OBVIOUS
  <2>7. r \in Memories /\ r.map = new /\ r.pages = pages
    BY <2>1, <2>4, <2>5, <2>6 DEF Memories
  <2>8. ASSUME NEW q \in Tables, q # p PROVE PagesNaming(new, {q}) = PagesNaming(m.map, {q})
    <3>1. PagesNaming(new, {q}) = PagesNaming(m.map, {q}) + 0
      BY <2>2, <2>8 DEF AfterTake
    <3>2. PagesNaming(m.map, {q}) \in Nat
      BY <2>3, PagesTyped
    <3>3. QED
      BY <3>1, <3>2
  <2>9. PagesNaming(new, {p}) + Cardinality(Mapped(m.pages))
         = PagesNaming(m.map, {p}) + Cardinality(Mapped(pages))
    <3>1. PagesNaming(new, {p}) = PagesNaming(m.map, {p}) + 1
      BY <2>2 DEF AfterTake
    <3>2. PagesNaming(m.map, {p}) \in Nat /\ Cardinality(Mapped(m.pages)) \in Nat
      BY <2>3, PagesTyped, CountTyped
    <3>3. QED
      BY <3>1, <3>2, <2>5
  <2>10. ASSUME Contiguous(m.map)
         PROVE  /\ Contiguous(new)
                /\ \A q \in Tables : q # p => Held(new, q) = Held(m.map, q)
                /\ Held(m.map, p) = FramesIn(m.pages) => Held(new, p) = FramesIn(pages)
    BY <2>2, <2>5, <2>10 DEF AfterTake
  <2>11. AfterPages(m, r, p)
    BY <2>2, <2>4, <2>7, <2>8, <2>9, <2>10 DEF AfterPages, AfterTake
  <2>12. QED
    BY <2>6, <2>11
<1>3. QED
  BY <1>1, <1>2

(* allocate_memory.                                                           *)
LEMMA MemoryAllocated ==
  ASSUME NEW m \in Memories, Sound(m.map, 0), NEW p \in Tables,
         NEW n \in Nat, NEW range \in [1 .. n -> Pages]
  PROVE  AfterPages(m, allocate_memory(m, p, range), p)
<1> DEFINE S == {x \in Memories : AfterPages(m, x, p)}
           G == [x \in S |-> [i \in 1 .. n |-> AllocatePage(x, p, range[i])]]
           Is(h) == h = [i \in 0 .. n |->
                           IF i = 0 THEN m ELSE AllocatePage(h[i - 1], p, range[i])]
<1>1. m \in S
  BY NoPages
<1>2. ASSUME NEW x \in S, NEW i \in 1 .. n PROVE AllocatePage(x, p, range[i]) \in S
  <2>1. x \in Memories /\ AfterPages(m, x, p) /\ range[i] \in Pages
    OBVIOUS
  <2>2. Sound(x.map, 0)
    BY <2>1 DEF AfterPages
  <2>3. AfterPages(x, AllocatePage(x, p, range[i]), p)
    BY <2>1, <2>2, PageAllocated
  <2>4. AfterPages(m, AllocatePage(x, p, range[i]), p)
    BY <2>1, <2>3, MorePages
  <2>5. AllocatePage(x, p, range[i]) \in Memories
    BY <2>4 DEF AfterPages
  <2>6. QED
    BY <2>4, <2>5
<1>3. G \in [S -> [1 .. n -> S]]
  <2> HIDE DEF S
  <2>1. QED
    BY <1>2
<1>4. \A x \in S : \A i \in 1 .. n : G[x][i] = AllocatePage(x, p, range[i])
  OBVIOUS
<1> HIDE DEF S, G
<1>5. PICK g \in [0 .. n -> S] : Iterates(g, n, m, G)
  BY <1>1, <1>3, Recursion, Zenon
<1>6. Is(g)
  <2>1. ASSUME NEW i \in 0 .. n
        PROVE  g[i] = IF i = 0 THEN m ELSE AllocatePage(g[i - 1], p, range[i])
    <3>1. g[i] = IF i = 0 THEN m ELSE G[g[i - 1]][i]
      BY <1>5 DEF Iterates
    <3>2. i # 0 => i \in 1 .. n /\ g[i - 1] \in S
      BY <1>5
    <3>3. QED
      BY <1>4, <3>1, <3>2
  <2>2. DOMAIN g = 0 .. n
    BY <1>5
  <2>3. QED
    BY <1>5, <2>1, <2>2
<1>7. Len(range) = n
  BY LenProperties, SeqDef
<1>8. allocate_memory(m, p, range) = (CHOOSE h : Is(h))[n]
  BY <1>7 DEF allocate_memory
<1>9. PICK h : Is(h) /\ h = CHOOSE f : Is(f)
  <2> HIDE DEF Is
  <2>1. QED
    BY <1>6, Zenon
<1>10. DOMAIN h = 0 .. n /\ h[0] = m
       /\ \A i \in 1 .. n : h[i] = AllocatePage(h[i - 1], p, range[i])
  <2>1. DOMAIN h = 0 .. n
        /\ \A i \in 0 .. n : h[i] = IF i = 0 THEN m
                                    ELSE AllocatePage(h[i - 1], p, range[i])
    BY <1>9
  <2>2. 0 \in 0 .. n /\ \A i \in 1 .. n : i \in 0 .. n /\ i # 0
    OBVIOUS
  <2>3. QED
    BY <2>1, <2>2, Zenon
<1>11. h[n] \in S
  <2> DEFINE T == {i \in 0 .. n : h[i] \in S}
  <2>1. T \in SUBSET (0 .. n) /\ 0 \in T
    BY <1>1, <1>10
  <2>2. ASSUME NEW i \in 1 .. n, i - 1 \in T PROVE i \in T
    <3>1. h[i - 1] \in S
      BY <2>2
    <3>2. AllocatePage(h[i - 1], p, range[i]) \in S
      BY <1>2, <3>1 DEF S
    <3>3. QED
      BY <1>10, <3>2
  <2> HIDE DEF T
  <2>3. T = 0 .. n
    BY <2>1, <2>2, UpTo
  <2>4. n \in T
    BY <2>3
  <2>5. QED
    BY <2>4 DEF T
<1>12. h[n] = allocate_memory(m, p, range)
  BY <1>8, <1>9
<1>13. QED
  BY <1>11, <1>12 DEF S

-----------------------------------------------------------------------------
(* Freeing. *)

\* What the walk that frees p has made of the list, up to some block.
AfterFree(map, new, p) ==
  /\ Sound(new, 0)
  /\ PagesNaming(new, AllTables) = PagesNaming(map, AllTables)
  /\ \A q \in Tables : q # p => PagesNaming(new, {q}) = PagesNaming(map, {q})
                                /\ Held(new, q) = Held(map, q)

\* Blocks k and k + 1, one of p and the d-th of the kernel, are made one.
BlocksMerged(map, new, k, d, p) ==
  /\ Replaced(map, new, k, 2, 1)
  /\ k + 1 <= Len(map) - 1 /\ Len(map) >= 4
  /\ d \in {k, k + 1} /\ map[d].page_table = 0
  /\ \A i \in {k, k + 1} : i # d => map[i].page_table = p
  /\ new[k].page_table = 0 /\ new[k].bound = map[d].bound
  /\ new[k].limit = map[k].limit + map[k + 1].limit
  /\ new[k].base \in {map[k].base, map[k + 1].base}

LEMMA MergeSound ==
  ASSUME NEW map, NEW new, NEW k, NEW d, NEW p \in Tables, Sound(map, 0),
         BlocksMerged(map, new, k, d, p)
  PROVE  /\ AfterFree(map, new, p)
         /\ Contiguous(map) /\ new[k].base = map[k].base => Contiguous(new)
<1>1. /\ map \in Seq(Block) /\ Len(map) \in Nat /\ new \in Seq(Block)
      /\ Len(new) = Len(map) - 1 /\ Len(map) >= 4 /\ Len(new) >= 3
      /\ k \in Nat /\ k >= 1 /\ k + 1 <= Len(map) - 1
      /\ k \in 1 .. Len(map) /\ k + 1 \in 1 .. Len(map) /\ k \in 1 .. Len(new)
      /\ k - 1 \in 0 .. Len(map) /\ k - 1 + 2 = k + 1 /\ k + 2 - 1 = k + 1 /\ k + 1 - 1 = k
      /\ k - 1 + 1 = k /\ k - 1 + 1 \in 1 .. Len(map) /\ (k + 1) - 1 = k
      /\ k - 1 + 2 \in 0 .. Len(map)
  <2>1. Replaced(map, new, k, 2, 1) /\ k + 1 <= Len(map) - 1 /\ Len(map) >= 4
    BY DEF BlocksMerged
  <2>2. /\ map \in Seq(Block) /\ Len(map) \in Nat /\ new \in Seq(Block)
        /\ Len(new) = Len(map) - 2 + 1 /\ k \in 1 .. Len(map) + 1 - 2
    BY <2>1 DEF Replaced
  <2>3. QED
    BY <2>1, <2>2
<1>2. PICK x \in Block, y \in Block : x = map[k] /\ y = map[k + 1]
  BY <1>1, BlockFacts
<1>3. PICK z \in Block : z = new[k]
  BY <1>1, BlockFacts
<1>4. /\ z.page_table = 0 /\ z.limit = x.limit + y.limit /\ z.base \in {x.base, y.base}
      /\ \/ x.page_table = 0 /\ y.page_table = p /\ z.bound = x.bound
         \/ x.page_table = p /\ y.page_table = 0 /\ z.bound = y.bound
  <2>1. k # k + 1
    BY <1>1
  <2>2. QED
    BY <1>2, <1>3, <2>1 DEF BlocksMerged
<1>5. /\ x.limit \in Nat /\ y.limit \in Nat /\ z.limit \in Nat
      /\ x.base \in Nat /\ y.base \in Nat /\ z.base \in Nat
  BY <1>2, <1>3 DEF Block
<1>6. map \in Seq(Block) /\ Fits(map) /\ Ends(map) /\ Filled(map, 0)
  BY DEF Sound
<1>7. Replaced(map, new, k, 2, 1)
  BY DEF BlocksMerged
<1>8. \A Q : Part(map, k, 2, Q) = Share(x, Q) + Share(y, Q) /\ Part(new, k, 1, Q) = Share(z, Q)
  <2>1. \A Q : Share(z, Q) \in Nat
    BY <1>3, Shares
  <2>2. QED
    BY <2>1, <1>2, <1>3 DEF Part
<1>a. PICK a \in 0 .. 2, b \in 0 .. 2 : a = 2 /\ b = 1
  OBVIOUS
<1>9. ASSUME NEW Q, Share(z, Q) = Share(x, Q) + Share(y, Q) PROVE SumsMove(map, new, k, 2, 1, Q, 0)
  <2>1. Share(z, Q) \in Nat
    BY <1>3, Shares
  <2>2. Share(z, Q) = Share(x, Q) + Share(y, Q) + 0
    BY <2>1, <1>9
  <2>3. Grows(map, new, k, 2, 1, Q, 0)
    BY <1>8, <2>2 DEF Grows
  <2>4. Grows(map, new, k, a, b, Q, 0) /\ Replaced(map, new, k, a, b) /\ 0 \in Int
    BY <1>7, <1>a, <2>3
  <2>5. SumsMove(map, new, k, a, b, Q, 0)
    BY <1>a, <2>4, SmallWindow
  <2>6. QED
    BY <1>a, <2>5
<1>10. SumsMove(map, new, k, 2, 1, AllTables, 0)
  <2>1. Share(z, AllTables) = Share(x, AllTables) + Share(y, AllTables)
    BY <1>2, <1>3, <1>4, Shares
  <2>2. QED
    BY <2>1, <1>9
<1>11. ASSUME NEW q \in Tables, q # p PROVE SumsMove(map, new, k, 2, 1, {q}, 0)
  <2>1. Share(x, {q}) = 0 /\ Share(y, {q}) = 0 /\ Share(z, {q}) = 0
    BY <1>4, <1>11, MinTables DEF Share
  <2>2. Share(z, {q}) = Share(x, {q}) + Share(y, {q})
    BY <2>1
  <2>3. QED
    BY <2>2, <1>9
<1>12. ASSUME NEW Q, SumsMove(map, new, k, 2, 1, Q, 0)
       PROVE  PagesNaming(new, Q) = PagesNaming(map, Q)
  <2>1. PagesNaming(new, Q) = PagesNaming(map, Q) + 0
    BY <1>12 DEF SumsMove
  <2>2. PagesNaming(map, Q) \in Nat
    BY <1>1, PagesTyped
  <2>3. QED
    BY <2>1, <2>2
<1>13. Fits(new)
  <2> DEFINE P == UpToBlock(map, AllTables)
             N == UpToBlock(new, AllTables)
  <2>1. P \in [0 .. Len(map) -> Nat] /\ \A i \in 1 .. Len(map) : P[i - 1] <= map[i].base
    BY <1>1, <1>6, UpToFacts DEF Fits
  <2>2. N[k - 1 + 1] = P[k - 1 + 2] + 0 /\ N[k - 1] = P[k - 1]
    BY <1>10 DEF SumsMove
  <2>3. P[k] = P[k - 1] + x.limit
    <3>1. P[k] = P[k - 1] + Share(map[k], AllTables)
      BY <1>1, UpToFacts
    <3>2. QED
      BY <3>1, <1>2, Shares
  <2> HIDE DEF P, N
  <2>4. N[k - 1 + 1] = P[k - 1 + 2]
    <3>1. P[k - 1 + 2] \in Nat
      BY <1>1, <2>1
    <3>2. QED
      BY <3>1, <2>2
  <2>5. PICK u \in Nat, v \in Nat : u = P[k - 1] /\ v = P[k]
    <3>1. P[k - 1] \in Nat /\ P[k] \in Nat
      <4>1. k \in 0 .. Len(map) /\ k - 1 \in 0 .. Len(map)
        BY <1>1
      <4>2. QED
        BY <4>1, <2>1
    <3>2. QED
      BY <3>1
  <2>6. u <= x.base
    BY <1>1, <1>2, <2>1, <2>5
  <2>7. v <= y.base
    <3>1. P[(k + 1) - 1] <= map[k + 1].base
      BY <1>1, <2>1
    <3>2. QED
      BY <3>1, <1>1, <1>2, <2>5
  <2>8. u <= z.base
    <3>1. v = u + x.limit
      BY <2>3, <2>5
    <3>2. u <= y.base
      BY <3>1, <2>7, <1>5
    <3>3. QED
      BY <3>2, <2>6, <1>4
  <2>9. \A i \in k .. k + 1 - 1 : N[i - 1] <= new[i].base
    <3>1. \A i \in k .. k + 1 - 1 : i = k
      BY <1>1
    <3>2. N[k - 1] <= new[k].base
      BY <2>2, <2>5, <2>8, <1>3
    <3>3. QED
      BY <3>1, <3>2
  <2>10. QED
    BY <1>6, <1>7, <2>4, <2>9, WindowFits DEF P, N
<1>14. Ends(new)
  <2>1. k = 1 => IsReserved(new[1])
    <3>1. ASSUME k = 1 PROVE IsReserved(z)
      <4>1. IsReserved(x)
        BY <1>2, <1>6, <3>1 DEF Ends
      <4>2. QED
        BY <4>1, <1>4, MinTables DEF IsReserved
    <3>2. QED
      BY <3>1, <1>3
  <2>2. k + 2 - 1 = Len(map) - 1 => IsReserved(new[k + 1 - 1])
    <3>1. ASSUME k + 1 = Len(map) - 1 PROVE IsReserved(z)
      <4>1. IsReserved(y)
        BY <1>2, <1>6, <3>1 DEF Ends
      <4>2. QED
        BY <4>1, <1>4, MinTables DEF IsReserved
    <3>2. QED
      BY <3>1, <1>3, <1>1
  <2>3. k + 2 - 1 < Len(map) /\ Len(new) >= 3 /\ 1 >= 1
    BY <1>1
  <2>4. QED
    BY <2>1, <2>2, <2>3, <1>6, <1>7, WindowEnds
<1>15. Filled(new, 0)
  <2>1. FilledBlock(x, FALSE) /\ FilledBlock(y, FALSE)
    <3>1. k # 0 /\ k + 1 # 0
      BY <1>1
    <3>2. QED
      BY <3>1, <1>1, <1>2, <1>6 DEF Filled, FilledBlock
  <2>2. FilledBlock(z, FALSE)
    <3>1. ~z.bound => z.limit > 0
      BY <2>1, <1>4, <1>5 DEF FilledBlock
    <3>2. QED
      BY <3>1, <1>4, MinTables DEF FilledBlock
  <2>3. \A i \in k .. k + 1 - 1 : FilledBlock(new[i], i = 0)
    <3>1. \A i \in k .. k + 1 - 1 : i = k
      BY <1>1
    <3>2. QED
      BY <3>1, <2>2, <1>3 DEF FilledBlock
  <2>4. QED
    BY <2>3, <1>6, <1>7, WindowFilled
<1>16. Sound(new, 0)
  BY <1>1, <1>13, <1>14, <1>15 DEF Sound
<1>17. ASSUME NEW q \in Tables, q # p PROVE Held(new, q) = Held(map, q)
  <2>1. SameElsewhere(map, new, q, k .. k + 2 - 1, k .. k + 1 - 1)
    BY <1>7, WindowHeld
  <2>2. \A i \in k .. k + 2 - 1 : map[i].page_table # q
    <3>1. \A i \in k .. k + 2 - 1 : i = k \/ i = k + 1
      BY <1>1
    <3>2. QED
      BY <3>1, <1>2, <1>4, <1>17, MinTables
  <2>3. \A i \in k .. k + 1 - 1 : new[i].page_table # q
    <3>1. \A i \in k .. k + 1 - 1 : i = k
      BY <1>1
    <3>2. QED
      BY <3>1, <1>3, <1>4, MinTables
  <2>4. HeldIn(map, q, k .. k + 2 - 1) = {} /\ HeldIn(new, q, k .. k + 1 - 1) = {}
    BY <2>2, <2>3 DEF HeldIn
  <2>5. QED
    BY <2>1, <2>4 DEF SameElsewhere
<1>18. ASSUME Contiguous(map), new[k].base = map[k].base PROVE Contiguous(new)
  <2>1. \A i \in k .. k + 1 - 1 : i \in 2 .. Len(new) - 2 =>
           new[i].base + new[i].limit = new[i + 1].base
    <3>1. \A i \in k .. k + 1 - 1 : i = k
      BY <1>1
    <3>2. ASSUME k \in 2 .. Len(new) - 2 PROVE z.base + z.limit = new[k + 1].base
      <4>1. k \in 2 .. Len(map) - 2 /\ k + 1 \in 2 .. Len(map) - 2 /\ k + 1 + 1 = k + 2
            /\ k + 2 \in k + 2 .. Len(map) /\ k + 2 - 2 + 1 = k + 1 /\ k + 2 \in 1 .. Len(map)
        BY <1>1, <3>2
      <4>2. x.base + x.limit = y.base
        BY <4>1, <1>2, <1>18 DEF Contiguous
      <4>3. y.base + y.limit = map[k + 2].base
        <5>1. map[k + 1].base + map[k + 1].limit = map[k + 1 + 1].base
          BY <4>1, <1>18 DEF Contiguous
        <5>2. QED
          BY <5>1, <4>1, <1>2
      <4>4. new[k + 1] = map[k + 2]
        <5>1. new[k + 2 - 2 + 1] = map[k + 2]
          BY <4>1, <1>7 DEF Replaced
        <5>2. QED
          BY <5>1, <4>1
      <4>5. z.base = x.base
        BY <1>2, <1>3, <1>18
      <4>6. z.base + z.limit = y.base + y.limit
        BY <4>2, <4>5, <1>4, <1>5
      <4>7. QED
        BY <4>3, <4>4, <4>6
    <3>3. QED
      BY <3>1, <3>2, <1>3
  <2>2. k < Len(map) /\ 2 >= 1
    BY <1>1
  <2>3. QED
    BY <2>1, <2>2, <1>7, <1>18, WindowContiguous
<1>19. QED
  BY <1>10, <1>11, <1>12, <1>16, <1>17, <1>18 DEF AfterFree

\* Block c, of p, is removed, and its neighbour d, of the kernel, becomes z.
Absorbs(map, new, c, d, z, p) ==
  /\ c \in 1 .. Len(map) /\ d \in 1 .. Len(map) /\ d \in {c - 1, c + 1}
  /\ map[c].page_table = p /\ map[d].page_table = 0
  /\ z \in Block /\ z.page_table = 0 /\ z.bound = map[d].bound
  /\ z.limit = map[c].limit + map[d].limit
  /\ z.base \in {map[c].base, map[d].base}
  /\ new = RemoveAt([map EXCEPT ![d] = z], c)

Lower(c, d) == IF d < c THEN d ELSE c

\* The new list is z at the lower of the two, and the other blocks.
Absorbed(map, new, c, d, z, p) ==
  /\ BlocksMerged(map, new, Lower(c, d), d, p)
  /\ new[Lower(c, d)] = z
  /\ \A j \in 1 .. Len(new) : j # Lower(c, d) =>
       \E i \in 1 .. Len(map) : i # c /\ new[j] = map[i] /\ (j < c => i = j)

LEMMA OneBlockLess ==
  ASSUME NEW map, NEW new, NEW c, NEW d, NEW z, NEW p \in Tables, Sound(map, 0),
         Absorbs(map, new, c, d, z, p)
  PROVE  Absorbed(map, new, c, d, z, p)
<1>1. map \in Seq(Block) /\ Len(map) \in Nat /\ Ends(map)
  BY DEF Sound
<1>2. /\ c \in 1 .. Len(map) /\ d \in 1 .. Len(map) /\ d \in {c - 1, c + 1}
      /\ map[c].page_table = p /\ map[d].page_table = 0
      /\ z \in Block /\ z.page_table = 0 /\ z.bound = map[d].bound
      /\ z.limit = map[c].limit + map[d].limit
      /\ z.base \in {map[c].base, map[d].base}
      /\ new = RemoveAt([map EXCEPT ![d] = z], c)
  BY DEF Absorbs
<1>3. c # 1 /\ c # Len(map) - 1 /\ c # Len(map) /\ p # 0
  <2>1. p # 0
    BY MinTables
  <2>2. /\ map[1].page_table = 0 /\ map[Len(map) - 1].page_table = 0
        /\ map[Len(map)].page_table = 0
    BY <1>1, MinTables DEF Ends, IsReserved
  <2>3. QED
    BY <2>1, <2>2, <1>2
<1>4. c >= 2 /\ c <= Len(map) - 2 /\ Len(map) >= 4 /\ c \in Nat /\ d \in Nat /\ c # d
  BY <1>1, <1>2, <1>3
<1> DEFINE mid == [map EXCEPT ![d] = z]
<1>5. /\ mid \in Seq(Block) /\ Len(mid) = Len(map) /\ mid[d] = z
      /\ \A i \in 1 .. Len(map) : i # d => mid[i] = map[i]
  BY <1>1, <1>2
<1>6. /\ new \in Seq(Block) /\ Len(new) = Len(map) - 1
      /\ \A j \in 1 .. Len(map) - 1 : new[j] = IF j < c THEN mid[j] ELSE mid[j + 1]
  <2>1. new = RemoveAt(mid, c)
    BY <1>2
  <2> HIDE DEF mid
  <2>2. c \in 1 .. Len(mid)
    BY <1>2, <1>5
  <2>3. QED
    BY <2>1, <2>2, <1>5, RemoveAtFacts
<1> HIDE DEF mid
<1>7. PICK k \in Nat : k = Lower(c, d)
  BY <1>4 DEF Lower
<1>8. (d = c - 1 /\ k = d /\ k + 1 = c) \/ (d = c + 1 /\ k = c /\ k + 1 = d)
  BY <1>2, <1>4, <1>7 DEF Lower
<1>9. k \in 1 .. Len(map) - 1 /\ k + 1 <= Len(map) - 1
      /\ k \in 1 .. Len(map) /\ k + 1 \in 1 .. Len(map)
  BY <1>1, <1>2, <1>4, <1>8
<1>10. new[k] = z
  <2>1. CASE d = c - 1 /\ k = d /\ k + 1 = c
    <3>1. k < c
      BY <2>1, <1>4
    <3>2. QED
      BY <2>1, <3>1, <1>5, <1>6, <1>9
  <2>2. CASE d = c + 1 /\ k = c /\ k + 1 = d
    <3>1. ~(k < c)
      BY <2>2, <1>4
    <3>2. QED
      BY <2>2, <3>1, <1>5, <1>6, <1>9
  <2>3. QED
    BY <1>8, <2>1, <2>2
<1>11. ASSUME NEW j \in 1 .. Len(map) - 1, j < k PROVE new[j] = map[j]
  <2>1. j < c /\ j # d /\ j \in 1 .. Len(map)
    BY <1>8, <1>11, <1>1, <1>4
  <2>2. QED
    BY <2>1, <1>5, <1>6
<1>12. ASSUME NEW j \in 1 .. Len(map) - 1, j > k
       PROVE  new[j] = map[j + 1] /\ j + 1 \in 1 .. Len(map) /\ j + 1 # c /\ ~(j < c)
  <2>1. ~(j < c) /\ j + 1 # d /\ j + 1 # c /\ j + 1 \in 1 .. Len(map)
    BY <1>8, <1>12, <1>1, <1>4
  <2>2. QED
    BY <2>1, <1>5, <1>6
<1>13. Replaced(map, new, k, 2, 1)
  <2>1. k \in 1 .. Len(map) + 1 - 2 /\ Len(new) = Len(map) - 2 + 1
    BY <1>1, <1>6, <1>9
  <2>2. ASSUME NEW j \in 1 .. k - 1 PROVE new[j] = map[j]
    <3>1. j \in 1 .. Len(map) - 1 /\ j < k
      BY <1>1, <1>9
    <3>2. QED
      BY <3>1, <1>11
  <2>3. ASSUME NEW j \in k + 2 .. Len(map) PROVE new[j - 2 + 1] = map[j]
    <3>1. PICK i \in 1 .. Len(map) - 1 : i = j - 2 + 1 /\ i > k /\ i + 1 = j
      <4>1. j - 2 + 1 \in 1 .. Len(map) - 1 /\ j - 2 + 1 > k /\ j - 2 + 1 + 1 = j
        BY <1>1, <1>9
      <4>2. QED
        BY <4>1
    <3>2. new[i] = map[i + 1]
      BY <3>1, <1>12
    <3>3. QED
      BY <3>1, <3>2
  <2>4. QED
    BY <1>1, <1>6, <2>1, <2>2, <2>3 DEF Replaced
<1>14. BlocksMerged(map, new, k, d, p)
  <2>1. d \in {k, k + 1} /\ \A i \in {k, k + 1} : i # d => i = c
    BY <1>8
  <2>2. map[k].limit \in Nat /\ map[k + 1].limit \in Nat
    BY <1>1, <1>9, BlockFacts
  <2>3. z.limit = map[k].limit + map[k + 1].limit
    BY <1>2, <1>8, <2>2
  <2>4. z.base \in {map[k].base, map[k + 1].base}
    BY <1>2, <1>8
  <2>5. QED
    BY <1>2, <1>4, <1>9, <1>10, <1>13, <2>1, <2>3, <2>4 DEF BlocksMerged
<1>15. ASSUME NEW j \in 1 .. Len(new), j # k
       PROVE  \E i \in 1 .. Len(map) : i # c /\ new[j] = map[i] /\ (j < c => i = j)
  <2>1. j \in 1 .. Len(map) - 1
    BY <1>6
  <2>2. CASE j < k
    <3>1. j \in 1 .. Len(map) /\ j # c
      BY <2>1, <2>2, <1>1, <1>8, <1>4
    <3>2. new[j] = map[j]
      BY <2>1, <2>2, <1>11
    <3>3. QED
      BY <3>1, <3>2
  <2>3. CASE j > k
    <3>1. new[j] = map[j + 1] /\ j + 1 \in 1 .. Len(map) /\ j + 1 # c /\ ~(j < c)
      BY <2>1, <2>3, <1>12
    <3>2. QED
      BY <3>1
  <2>4. j < k \/ j > k
    BY <2>1, <1>1, <1>9, <1>15
  <2>5. QED
    BY <2>2, <2>3, <2>4
<1>16. QED
  BY <1>7, <1>10, <1>14, <1>15 DEF Absorbed

NoneOf(map, p) == \A i \in 1 .. Len(map) : map[i].page_table # p

AtMostOneOf(map, p) ==
  \A i, j \in 1 .. Len(map) : map[i].page_table = p /\ map[j].page_table = p => i = j

Walks == [map : Seq(Block), current : Nat, prev : Nat]

\* The walk through map that frees p has come to w.  Its two pointers are
\* neighbours; while p has a single block, prev is the one before current.
WalkedTo(map, w, p) ==
  /\ w \in Walks /\ w.current >= 1
  /\ w.prev \in {0, w.current - 1, w.current, w.current + 1}
  /\ \A i \in 1 .. Len(w.map) : i < w.current => w.map[i].page_table # p
  /\ AfterFree(map, w.map, p)
  /\ Contiguous(map) /\ AtMostOneOf(map, p) =>
       /\ Contiguous(w.map)
       /\ NoneOf(w.map, p) \/ (AtMostOneOf(w.map, p) /\ w.prev = w.current - 1)

LEMMA FreeMore ==
  ASSUME NEW map, NEW mid, NEW new, NEW p, AfterFree(map, mid, p), AfterFree(mid, new, p)
  PROVE  AfterFree(map, new, p)
BY DEF AfterFree

\* The turn of the loop that merges.
Merging(w, next, d, z, p) ==
  /\ Absorbs(w.map, next.map, w.current, d, z, p)
  /\ next \in Walks
  /\ next.current = w.current \/ (next.current = w.current + 1 /\ d = w.current + 1)
  /\ next.prev \in {0, next.current - 1, next.current, next.current + 1}
  /\ w.prev = w.current - 1 => z.base = w.map[Lower(w.current, d)].base

LEMMA WalkMerges ==
  ASSUME NEW map, NEW w, NEW next, NEW d, NEW z, NEW p \in Tables,
         WalkedTo(map, w, p), Merging(w, next, d, z, p)
  PROVE  WalkedTo(map, next, p)
<1>1. /\ w \in Walks /\ w.current >= 1 /\ next \in Walks
      /\ AfterFree(map, w.map, p) /\ Sound(w.map, 0)
      /\ Absorbs(w.map, next.map, w.current, d, z, p)
  BY DEF WalkedTo, Merging, AfterFree
<1>2. PICK list \in Seq(Block) : list = w.map
  BY <1>1 DEF Walks
<1>3. PICK new \in Seq(Block) : new = next.map
  BY <1>1 DEF Walks
<1>4. PICK c \in Nat : c = w.current
  BY <1>1 DEF Walks
<1>5. PICK k : k = Lower(c, d)
  OBVIOUS
<1>6. Absorbed(list, new, c, d, z, p)
  BY <1>1, <1>2, <1>3, <1>4, OneBlockLess
<1>7. /\ BlocksMerged(list, new, k, d, p) /\ new[k] = z
      /\ \A j \in 1 .. Len(new) : j # k =>
           \E i \in 1 .. Len(list) : i # c /\ new[j] = list[i] /\ (j < c => i = j)
  BY <1>5, <1>6 DEF Absorbed
<1>8. /\ AfterFree(list, new, p)
      /\ Contiguous(list) /\ new[k].base = list[k].base => Contiguous(new)
  BY <1>1, <1>2, <1>7, MergeSound
<1>9. AfterFree(map, new, p)
  BY <1>1, <1>2, <1>8, FreeMore
<1>10. z.page_table # p /\ c \in 1 .. Len(list) /\ list[c].page_table = p
  BY <1>1, <1>2, <1>4, MinTables DEF Absorbs
<1>11. ASSUME NEW j \in 1 .. Len(new), j < next.current PROVE new[j].page_table # p
  <2>1. CASE j = k
    BY <2>1, <1>7, <1>10
  <2>2. CASE j # k
    <3>1. j < c
      <4>1. next.current = c \/ (next.current = c + 1 /\ d = c + 1)
        BY <1>4 DEF Merging
      <4>2. d = c + 1 => k = c
        BY <1>5 DEF Lower
      <4>3. QED
        BY <4>1, <4>2, <1>11, <2>2
    <3>2. j \in 1 .. Len(list) /\ new[j] = list[j]
      BY <3>1, <2>2, <1>7
    <3>3. list[j].page_table # p
      BY <3>1, <3>2, <1>2, <1>4 DEF WalkedTo
    <3>4. QED
      BY <3>2, <3>3
  <2>3. QED
    BY <2>1, <2>2
<1>12. ASSUME Contiguous(map), AtMostOneOf(map, p)
       PROVE  Contiguous(new) /\ NoneOf(new, p)
  <2>1. Contiguous(list) /\ ~NoneOf(list, p)
    BY <1>2, <1>10, <1>12 DEF WalkedTo, NoneOf
  <2>2. AtMostOneOf(list, p) /\ w.prev = w.current - 1
    BY <1>2, <1>12, <2>1 DEF WalkedTo
  <2>3. new[k].base = list[k].base
    BY <2>2, <1>2, <1>4, <1>5, <1>7 DEF Merging
  <2>4. ASSUME NEW j \in 1 .. Len(new) PROVE new[j].page_table # p
    <3>1. CASE j = k
      BY <3>1, <1>7, <1>10
    <3>2. CASE j # k
      <4>1. PICK i \in 1 .. Len(list) : i # c /\ new[j] = list[i]
        BY <3>2, <1>7
      <4>2. QED
        BY <4>1, <2>2, <1>10 DEF AtMostOneOf
    <3>3. QED
      BY <3>1, <3>2
  <2>5. QED
    BY <2>1, <2>3, <2>4, <1>8 DEF NoneOf
<1>13. next.current >= 1 /\ next.prev \in {0, next.current - 1, next.current, next.current + 1}
  <2>1. next.current = c \/ next.current = c + 1
    BY <1>4 DEF Merging
  <2>2. QED
    BY <2>1, <1>1, <1>4 DEF Merging
<1>14. QED
  BY <1>1, <1>3, <1>9, <1>11, <1>12, <1>13 DEF WalkedTo

(* A block that is not p's, or is made usable.                                *)
LEMMA BlockPassed ==
  ASSUME NEW map, NEW w, NEW p \in Tables, WalkedTo(map, w, p),
         w.current <= Len(w.map), w.map[w.current].page_table # p
  PROVE  WalkedTo(map, PassBlock(w, w.map[w.current]), p)
<1>1. w \in Walks /\ w.current >= 1
  BY DEF WalkedTo
<1>2. PICK c \in Nat : c = w.current
  BY <1>1 DEF Walks
<1>3. PICK list \in Seq(Block) : list = w.map
  BY <1>1 DEF Walks
<1>4. PICK next : next = PassBlock(w, w.map[w.current])
  OBVIOUS
<1>5. c >= 1 /\ c \in 1 .. Len(list) /\ list[c].page_table # p
  BY <1>1, <1>2, <1>3
<1>6. [list EXCEPT ![c] = list[c]] = list
  BY <1>5
<1>7. next = [map |-> list, current |-> c + 1, prev |-> c]
  BY <1>2, <1>3, <1>4, <1>6 DEF PassBlock
<1>8. next \in Walks /\ next.current = c + 1 /\ next.prev = c /\ next.map = list
  BY <1>7 DEF Walks
<1>9. c + 1 >= 1 /\ c = (c + 1) - 1
  OBVIOUS
<1>10. \A i \in 1 .. Len(list) : i < c + 1 => list[i].page_table # p
  <2>1. \A i \in 1 .. Len(list) : i < c => list[i].page_table # p
    BY <1>2, <1>3 DEF WalkedTo
  <2>2. \A i \in 1 .. Len(list) : i < c + 1 => i < c \/ i = c
    OBVIOUS
  <2>3. QED
    BY <2>1, <2>2, <1>5
<1>11. AfterFree(map, list, p)
       /\ (Contiguous(map) /\ AtMostOneOf(map, p) =>
             Contiguous(list) /\ (NoneOf(list, p) \/ AtMostOneOf(list, p)))
  BY <1>3 DEF WalkedTo
<1>12. next.prev \in {0, next.current - 1, next.current, next.current + 1}
       /\ next.prev = next.current - 1 /\ next.current >= 1
  BY <1>8, <1>9
<1>13. \A i \in 1 .. Len(next.map) : i < next.current => next.map[i].page_table # p
  BY <1>8, <1>10
<1>14. AfterFree(map, next.map, p)
  BY <1>8, <1>11
<1>15. Contiguous(map) /\ AtMostOneOf(map, p) =>
       /\ Contiguous(next.map)
       /\ NoneOf(next.map, p) \/ (AtMostOneOf(next.map, p) /\ next.prev = next.current - 1)
  BY <1>8, <1>11, <1>12
<1>16. WalkedTo(map, next, p)
  BY <1>8, <1>12, <1>13, <1>14, <1>15 DEF WalkedTo
<1>17. QED
  BY <1>4, <1>16

\* Block c, of p, is made usable.
Unbound(map, new, c, p) ==
  /\ c \in 1 .. Len(map) /\ map[c].page_table = p
  /\ new = [map EXCEPT ![c] = Unbind(map[c])]

(* One block of p becomes the kernel's, and nothing else changes.             *)
LEMMA UnbindSound ==
  ASSUME NEW map, NEW new, NEW c, NEW p \in Tables, Sound(map, 0), Unbound(map, new, c, p)
  PROVE  /\ AfterFree(map, new, p)
         /\ new \in Seq(Block) /\ Len(new) = Len(map) /\ new[c].page_table = 0
         /\ \A i \in 1 .. Len(map) : i # c => new[i] = map[i]
         /\ Contiguous(map) => Contiguous(new)
<1>1. map \in Seq(Block) /\ Len(map) \in Nat /\ Fits(map) /\ Ends(map) /\ Filled(map, 0)
  BY DEF Sound
<1>0. c \in 1 .. Len(map) /\ map[c].page_table = p
  BY DEF Unbound
<1>2. PICK x \in Block : x = map[c]
  BY <1>0, <1>1, BlockFacts
<1>3. PICK z : z = Unbind(x)
  OBVIOUS
<1>4. /\ z \in Block /\ z.page_table = 0 /\ ~z.bound /\ z.base = x.base /\ z.limit = x.limit
  <2> DEFINE m == [x EXCEPT !.bound = FALSE]
  <2>1. m \in Block /\ m.bound = FALSE /\ m.base = x.base /\ m.limit = x.limit
    BY DEF Block
  <2>2. z = [m EXCEPT !.page_table = KERNEL_PAGE_TABLE]
    BY <1>3 DEF Unbind
  <2> HIDE DEF m
  <2>3. KERNEL_PAGE_TABLE = 0 /\ 0 \in 0 .. MAX_TABLES
    BY MinTables DEF AllTables
  <2>4. QED
    BY <2>1, <2>2, <2>3 DEF Block
<1>5. /\ new \in Seq(Block) /\ Len(new) = Len(map) /\ new[c] = z
      /\ \A i \in 1 .. Len(map) : i # c => new[i] = map[i]
  BY <1>0, <1>1, <1>2, <1>3, <1>4 DEF Unbound
<1>6. x.page_table = p /\ p # 0 /\ x.limit > 0
  <2>1. x.page_table = p /\ p # 0
    BY <1>0, <1>2, MinTables
  <2>2. c # 0 /\ FilledBlock(map[c], c = 0)
    BY <1>0, <1>1 DEF Filled
  <2>3. QED
    BY <2>1, <2>2, <1>2, MinTables DEF FilledBlock
<1>7. /\ c \in Nat /\ c >= 1 /\ c + 1 - 1 = c /\ c - 1 + 1 = c /\ c - 1 \in 0 .. Len(map)
      /\ c \in 1 .. Len(map) /\ c \in 0 .. Len(map) /\ c + 1 - 1 \in 1 .. Len(map)
  BY <1>0, <1>1
<1>8. Replaced(map, new, c, 1, 1)
  <2>1. c \in 1 .. Len(map) + 1 - 1 /\ Len(new) = Len(map) - 1 + 1
    BY <1>1, <1>5, <1>7
  <2>2. \A j \in 1 .. c - 1 : j \in 1 .. Len(map) /\ j # c
    BY <1>1, <1>7
  <2>3. \A j \in c + 1 .. Len(map) : j \in 1 .. Len(map) /\ j # c /\ j - 1 + 1 = j
    BY <1>1, <1>7
  <2>4. QED
    BY <1>1, <1>5, <2>1, <2>2, <2>3 DEF Replaced
<1>9. c # 1 /\ c # Len(map) - 1 /\ c # Len(map)
  <2>1. /\ map[1].page_table = 0 /\ map[Len(map) - 1].page_table = 0
        /\ map[Len(map)].page_table = 0
    BY <1>1, MinTables DEF Ends, IsReserved
  <2>2. QED
    BY <2>1, <1>2, <1>6
<1>a. PICK a \in 0 .. 2 : a = 1
  OBVIOUS
<1>10. ASSUME NEW Q, Share(z, Q) = Share(x, Q) PROVE SumsMove(map, new, c, 1, 1, Q, 0)
  <2>1. Share(z, Q) \in Nat /\ Share(x, Q) \in Nat
    BY <1>2, <1>4, Shares
  <2>2. Part(map, c, 1, Q) = Share(x, Q) /\ Part(new, c, 1, Q) = Share(z, Q)
    BY <2>1, <1>2, <1>5 DEF Part
  <2>3. Grows(map, new, c, 1, 1, Q, 0)
    BY <2>1, <2>2, <1>10 DEF Grows
  <2>4. Grows(map, new, c, a, a, Q, 0) /\ Replaced(map, new, c, a, a) /\ 0 \in Int
    BY <1>8, <1>a, <2>3
  <2>5. SumsMove(map, new, c, a, a, Q, 0)
    BY <1>a, <2>4, SmallWindow
  <2>6. QED
    BY <1>a, <2>5
<1>11. SumsMove(map, new, c, 1, 1, AllTables, 0)
  <2>1. Share(z, AllTables) = Share(x, AllTables)
    BY <1>2, <1>4, Shares
  <2>2. QED
    BY <2>1, <1>10
<1>12. ASSUME NEW q \in Tables, q # p PROVE SumsMove(map, new, c, 1, 1, {q}, 0)
  <2>1. Share(z, {q}) = Share(x, {q})
    BY <1>4, <1>6, <1>12, MinTables DEF Share
  <2>2. QED
    BY <2>1, <1>10
<1>13. ASSUME NEW Q, SumsMove(map, new, c, 1, 1, Q, 0)
       PROVE  PagesNaming(new, Q) = PagesNaming(map, Q)
  <2>1. PagesNaming(new, Q) = PagesNaming(map, Q) + 0
    BY <1>13 DEF SumsMove
  <2>2. PagesNaming(map, Q) \in Nat
    BY <1>1, PagesTyped
  <2>3. QED
    BY <2>1, <2>2
<1>14. Fits(new)
  <2>1. UpToBlock(new, AllTables)[c - 1 + 1] = UpToBlock(map, AllTables)[c - 1 + 1]
    <3>1. UpToBlock(new, AllTables)[c - 1 + 1] = UpToBlock(map, AllTables)[c - 1 + 1] + 0
      BY <1>11 DEF SumsMove
    <3>2. UpToBlock(map, AllTables)[c - 1 + 1] \in Nat
      BY <1>1, <1>7, UpToFacts
    <3>3. QED
      BY <3>1, <3>2
  <2>2. UpToBlock(new, AllTables)[c - 1] <= z.base
    <3>1. UpToBlock(new, AllTables)[c - 1] = UpToBlock(map, AllTables)[c - 1]
      BY <1>11 DEF SumsMove
    <3>2. UpToBlock(map, AllTables)[c - 1] <= map[c].base
      BY <1>1, <1>7 DEF Fits
    <3>3. QED
      BY <3>1, <3>2, <1>2, <1>4
  <2>3. \A i \in c .. c + 1 - 1 : UpToBlock(new, AllTables)[i - 1] <= new[i].base
    <3>1. \A i \in c .. c + 1 - 1 : i = c
      BY <1>7
    <3>2. QED
      BY <3>1, <2>2, <1>5
  <2>4. QED
    BY <2>1, <2>3, <1>1, <1>8, WindowFits
<1>15. Ends(new)
  <2>0. Len(new) >= 3
    BY <1>1, <1>5 DEF Ends
  <2>1. c # 1 /\ c + 1 - 1 # Len(map) - 1 /\ c + 1 - 1 < Len(map) /\ Len(new) >= 3
    BY <2>0, <1>1, <1>7, <1>9
  <2>2. /\ c # 1 /\ c + a - 1 # Len(map) - 1 /\ c + a - 1 < Len(map)
        /\ Len(new) >= 3 /\ Replaced(map, new, c, a, a) /\ Ends(map)
    BY <2>1, <1>1, <1>8, <1>a
  <2>3. QED
    BY <2>2, WindowEnds
<1>16. Filled(new, 0)
  <2>1. FilledBlock(z, FALSE)
    BY <1>4, <1>6, MinTables DEF FilledBlock
  <2>2. \A i \in c .. c + 1 - 1 : FilledBlock(new[i], i = 0)
    <3>1. \A i \in c .. c + 1 - 1 : i = c
      BY <1>7
    <3>2. QED
      BY <3>1, <2>1, <1>5 DEF FilledBlock
  <2>3. QED
    <3>1. PICK x0 : x0 = 0
      OBVIOUS
    <3>2. /\ Filled(map, x0) /\ Replaced(map, new, c, a, a)
          /\ \A i \in c .. c + a - 1 : FilledBlock(new[i], i = x0)
      BY <3>1, <2>2, <1>1, <1>8, <1>a
    <3>3. Filled(new, x0)
      BY <3>1, <3>2, WindowFilled
    <3>4. QED
      BY <3>1, <3>3
<1>17. Sound(new, 0)
  BY <1>5, <1>14, <1>15, <1>16 DEF Sound
<1>18. ASSUME NEW q \in Tables, q # p PROVE Held(new, q) = Held(map, q)
  <2>1. SameElsewhere(map, new, q, c .. c + 1 - 1, c .. c + 1 - 1)
    BY <1>8, WindowHeld
  <2>2. c .. c + 1 - 1 = {c}
    BY <1>7
  <2>3. HeldIn(map, q, {c}) = {} /\ HeldIn(new, q, {c}) = {}
    BY <1>2, <1>4, <1>5, <1>6, <1>18, MinTables DEF HeldIn
  <2>4. QED
    BY <2>1, <2>2, <2>3 DEF SameElsewhere
<1>19. ASSUME Contiguous(map) PROVE Contiguous(new)
  <2>1. \A i \in 1 .. Len(map) : new[i].base = map[i].base /\ new[i].limit = map[i].limit
    BY <1>2, <1>4, <1>5
  <2>2. \A i \in 2 .. Len(map) - 2 : i \in 1 .. Len(map) /\ i + 1 \in 1 .. Len(map)
    BY <1>1
  <2>3. QED
    BY <2>1, <2>2, <1>5, <1>19 DEF Contiguous
<1>20. QED
  BY <1>4, <1>5, <1>11, <1>12, <1>13, <1>17, <1>18, <1>19 DEF AfterFree

\* A block that gets the pages of another.
WithPages(x, y) == [x EXCEPT !.limit = x.limit + y.limit]

LEMMA MergedBlocks ==
  ASSUME NEW x \in Block, NEW y \in Block
  PROVE  /\ WithPages(x, y) \in Block /\ WithPages(x, y).limit = y.limit + x.limit
         /\ WithPages(x, y).base = x.base
         /\ WithPages(x, y).page_table = x.page_table /\ WithPages(x, y).bound = x.bound
         /\ TakeOver(x, y) \in Block /\ TakeOver(x, y).limit = y.limit + x.limit
         /\ TakeOver(x, y).base = y.base
         /\ TakeOver(x, y).page_table = x.page_table /\ TakeOver(x, y).bound = x.bound
<1>1. x.limit \in Nat /\ y.limit \in Nat /\ y.base \in Nat
  BY DEF Block
<1>2. PICK l \in Nat : l = x.limit + y.limit /\ l = y.limit + x.limit
  BY <1>1
<1>3. PICK z : z = WithPages(x, y)
  OBVIOUS
<1>4. /\ z \in Block /\ z.limit = l /\ z.base = x.base
      /\ z.page_table = x.page_table /\ z.bound = x.bound
  BY <1>2, <1>3 DEF Block, WithPages
<1>5. TakeOver(x, y) = [z EXCEPT !.base = y.base]
  BY <1>3 DEF Block, WithPages, TakeOver
<1>6. PICK v \in Block : v = z
  BY <1>4
<1>7. PICK u : u = TakeOver(x, y)
  OBVIOUS
<1>8. u = [v EXCEPT !.base = y.base]
  BY <1>5, <1>6, <1>7
<1>9. u \in Block /\ u.limit = v.limit /\ u.base = y.base
      /\ u.page_table = v.page_table /\ u.bound = v.bound
  BY <1>1, <1>8 DEF Block
<1>10. QED
  BY <1>2, <1>3, <1>4, <1>6, <1>7, <1>9

OfKernel(map, i) == i \in 1 .. Len(map) /\ map[i].page_table = KERNEL_PAGE_TABLE

\* The walk has ended or is nearer to its end.
Nearer(w, next) ==
  IF w.current > Len(w.map) THEN next = w
  ELSE Len(next.map) + w.current + 1 <= Len(w.map) + next.current

\* The current block is p's.
AtBlock(map, w, p) ==
  /\ WalkedTo(map, w, p) /\ w.current \in 1 .. Len(w.map)
  /\ w.map[w.current].page_table = p

LEMMA MergedIsNearer ==
  ASSUME NEW w \in Walks, NEW next, NEW d, NEW z, NEW p \in Tables, Sound(w.map, 0),
         Merging(w, next, d, z, p)
  PROVE  Nearer(w, next)
<1>1. Absorbed(w.map, next.map, w.current, d, z, p) /\ w.current \in Nat
  BY OneBlockLess DEF Merging, Walks
<1>2. Len(next.map) = Len(w.map) - 2 + 1 /\ Len(w.map) \in Nat
  BY <1>1 DEF Absorbed, BlocksMerged, Replaced, Walks
<1>3. next.current = w.current \/ next.current = w.current + 1
  BY DEF Merging
<1>4. Len(next.map) + w.current + 1 <= Len(w.map) + next.current
  BY <1>1, <1>2, <1>3
<1>5. w.current \in 1 .. Len(w.map)
  BY DEF Merging, Absorbs
<1>6. ~(w.current > Len(w.map))
  BY <1>1, <1>2, <1>5
<1>7. QED
  BY <1>4, <1>6 DEF Nearer

LEMMA MergesPrevious ==
  ASSUME NEW map, NEW w, NEW p \in Tables, AtBlock(map, w, p), OfKernel(w.map, w.prev)
  PROVE  WalkedTo(map, MergeIntoPrevious(w), p) /\ Nearer(w, MergeIntoPrevious(w))
<1>1. /\ w \in Walks /\ w.current >= 1 /\ Sound(w.map, 0)
      /\ w.prev \in {0, w.current - 1, w.current, w.current + 1}
  BY DEF AtBlock, WalkedTo, AfterFree
<1>2. PICK list \in Seq(Block) : list = w.map
  BY <1>1 DEF Walks
<1>3. PICK c \in Nat : c = w.current
  BY <1>1 DEF Walks
<1>4. PICK d \in Nat : d = w.prev
  BY <1>1 DEF Walks
<1>5. PICK next : next = MergeIntoPrevious(w)
  OBVIOUS
<1>6. /\ c \in 1 .. Len(list) /\ d \in 1 .. Len(list)
      /\ list[c].page_table = p /\ list[d].page_table = 0 /\ c # d
  BY <1>2, <1>3, <1>4, MinTables DEF AtBlock, OfKernel
<1>7. d \in {c - 1, c + 1}
  BY <1>1, <1>3, <1>4, <1>6
<1>8. PICK x \in Block, y \in Block : x = list[d] /\ y = list[c]
  BY <1>6, BlockFacts
<1>9. PICK z : z = WithPages(x, y)
  OBVIOUS
<1>10. /\ z \in Block /\ z.limit = y.limit + x.limit /\ z.base = x.base
       /\ z.page_table = x.page_table /\ z.bound = x.bound
  BY <1>9, MergedBlocks
<1>11. PICK new : new = RemoveAt([list EXCEPT ![d] = z], c)
  OBVIOUS
<1>12. next = [map |-> new, current |-> c, prev |-> IF d > c THEN d - 1 ELSE d]
  <2>1. [list EXCEPT ![d].limit = list[d].limit + list[c].limit] = [list EXCEPT ![d] = z]
    BY <1>6, <1>8, <1>9 DEF WithPages
  <2>2. QED
    BY <2>1, <1>2, <1>3, <1>4, <1>5, <1>11 DEF MergeIntoPrevious
<1>13. Absorbs(list, new, c, d, z, p)
  BY <1>6, <1>7, <1>8, <1>10, <1>11 DEF Absorbs
<1>14. new \in Seq(Block)
  BY <1>1, <1>2, <1>13, OneBlockLess DEF Absorbed, BlocksMerged, Replaced
<1>15. next \in Walks /\ next.map = new /\ next.current = c
       /\ next.prev \in {0, next.current - 1, next.current, next.current + 1}
  <2>1. PICK e \in Nat : e = IF d > c THEN d - 1 ELSE d
    <3>1. (IF d > c THEN d - 1 ELSE d) \in Nat
      OBVIOUS
    <3>2. QED
      BY <3>1
  <2>2. e \in {0, c - 1, c, c + 1}
    BY <2>1, <1>7
  <2>3. QED
    BY <2>1, <2>2, <1>12, <1>14 DEF Walks
<1>16. w.prev = w.current - 1 => z.base = w.map[Lower(w.current, d)].base
  <2>1. d = c - 1 => Lower(c, d) = d
    BY DEF Lower
  <2>2. QED
    BY <2>1, <1>2, <1>3, <1>4, <1>8, <1>10
<1>17. Merging(w, next, d, z, p)
  BY <1>2, <1>3, <1>13, <1>15, <1>16 DEF Merging
<1>18. QED
  BY <1>1, <1>5, <1>17, WalkMerges, MergedIsNearer DEF AtBlock

LEMMA MergesNext ==
  ASSUME NEW map, NEW w, NEW p \in Tables, AtBlock(map, w, p), OfKernel(w.map, w.current + 1)
  PROVE  WalkedTo(map, MergeIntoNext(w), p) /\ Nearer(w, MergeIntoNext(w))
<1>1. w \in Walks /\ w.current >= 1 /\ Sound(w.map, 0)
  BY DEF AtBlock, WalkedTo, AfterFree
<1>2. PICK list \in Seq(Block) : list = w.map
  BY <1>1 DEF Walks
<1>3. PICK c \in Nat : c = w.current
  BY <1>1 DEF Walks
<1>4. PICK d \in Nat : d = c + 1
  OBVIOUS
<1>5. PICK next : next = MergeIntoNext(w)
  OBVIOUS
<1>6. /\ c \in 1 .. Len(list) /\ d \in 1 .. Len(list)
      /\ list[c].page_table = p /\ list[d].page_table = 0
  BY <1>2, <1>3, <1>4, MinTables DEF AtBlock, OfKernel
<1>8. PICK x \in Block, y \in Block : x = list[d] /\ y = list[c]
  BY <1>6, BlockFacts
<1>9. PICK z : z = TakeOver(x, y)
  OBVIOUS
<1>10. /\ z \in Block /\ z.limit = y.limit + x.limit /\ z.base = y.base
       /\ z.page_table = x.page_table /\ z.bound = x.bound
  BY <1>9, MergedBlocks
<1>11. PICK new : new = RemoveAt([list EXCEPT ![d] = z], c)
  OBVIOUS
<1>12. next = [map |-> new, current |-> c + 1,
               prev |-> IF c + 2 <= Len(new) THEN c + 2 ELSE 0]
  <2> DEFINE left == RemoveAt([w.map EXCEPT ![w.current + 1] =
                       TakeOver(w.map[w.current + 1], w.map[w.current])], w.current)
  <2>1. MergeIntoNext(w) = [map |-> left, current |-> w.current + 1,
                            prev |-> IF w.current + 2 <= Len(left)
                                     THEN w.current + 2 ELSE 0]
    BY DEF MergeIntoNext
  <2>2. left = new
    BY <1>2, <1>3, <1>4, <1>8, <1>9, <1>11
  <2> HIDE DEF left
  <2>3. QED
    BY <2>1, <2>2, <1>3, <1>5
<1>13. Absorbs(list, new, c, d, z, p)
  BY <1>4, <1>6, <1>8, <1>10, <1>11 DEF Absorbs
<1>14. new \in Seq(Block)
  BY <1>1, <1>2, <1>13, OneBlockLess DEF Absorbed, BlocksMerged, Replaced
<1>15. next \in Walks /\ next.map = new /\ next.current = c + 1
       /\ next.prev \in {0, next.current - 1, next.current, next.current + 1}
  <2>1. PICK e \in Nat : e = (IF c + 2 <= Len(new) THEN c + 2 ELSE 0)
    OBVIOUS
  <2>2. e \in {0, c + 1 + 1}
    BY <2>1
  <2>3. c + 1 \in Nat
    OBVIOUS
  <2>4. QED
    BY <2>1, <2>2, <2>3, <1>12, <1>14 DEF Walks
<1>16. w.prev = w.current - 1 => z.base = w.map[Lower(w.current, d)].base
  <2>1. Lower(c, d) = c
    BY <1>4 DEF Lower
  <2>2. QED
    BY <2>1, <1>2, <1>3, <1>8, <1>10
<1>17. Merging(w, next, d, z, p)
  BY <1>2, <1>3, <1>4, <1>13, <1>15, <1>16 DEF Merging
<1>18. QED
  BY <1>1, <1>5, <1>17, WalkMerges, MergedIsNearer DEF AtBlock

LEMMA Unbinds ==
  ASSUME NEW map, NEW w, NEW p \in Tables, AtBlock(map, w, p)
  PROVE  /\ WalkedTo(map, PassBlock(w, Unbind(w.map[w.current])), p)
         /\ Nearer(w, PassBlock(w, Unbind(w.map[w.current])))
<1>1. w \in Walks /\ w.current >= 1 /\ Sound(w.map, 0) /\ AfterFree(map, w.map, p)
  BY DEF AtBlock, WalkedTo, AfterFree
<1>2. PICK list \in Seq(Block) : list = w.map
  BY <1>1 DEF Walks
<1>3. PICK c \in Nat : c = w.current
  BY <1>1 DEF Walks
<1>4. PICK next : next = PassBlock(w, Unbind(w.map[w.current]))
  OBVIOUS
<1>5. PICK new : new = [list EXCEPT ![c] = Unbind(list[c])]
  OBVIOUS
<1>6. c \in 1 .. Len(list) /\ list[c].page_table = p /\ c >= 1
  BY <1>1, <1>2, <1>3 DEF AtBlock
<1>7. next = [map |-> new, current |-> c + 1, prev |-> c]
  BY <1>2, <1>3, <1>4, <1>5 DEF PassBlock
<1>8. Unbound(list, new, c, p)
  BY <1>5, <1>6 DEF Unbound
<1>9. /\ AfterFree(list, new, p)
      /\ new \in Seq(Block) /\ Len(new) = Len(list) /\ new[c].page_table = 0
      /\ \A i \in 1 .. Len(list) : i # c => new[i] = list[i]
      /\ Contiguous(list) => Contiguous(new)
  BY <1>1, <1>2, <1>8, UnbindSound
<1>10. next \in Walks /\ next.map = new /\ next.current = c + 1 /\ next.prev = c
  BY <1>7, <1>9 DEF Walks
<1>11. AfterFree(map, new, p)
  BY <1>1, <1>2, <1>9, FreeMore
<1>12. c + 1 >= 1 /\ c = (c + 1) - 1 /\ p # 0
  BY MinTables
<1>13. ASSUME NEW i \in 1 .. Len(new), i < c + 1 PROVE new[i].page_table # p
  <2>1. CASE i = c
    BY <2>1, <1>9, <1>12
  <2>2. CASE i # c
    <3>1. i < c
      BY <2>2, <1>13
    <3>2. i \in 1 .. Len(list) /\ new[i] = list[i]
      BY <2>2, <1>9
    <3>3. list[i].page_table # p
      BY <3>1, <3>2, <1>2, <1>3 DEF AtBlock, WalkedTo
    <3>4. QED
      BY <3>2, <3>3
  <2>3. QED
    BY <2>1, <2>2
<1>14. ASSUME Contiguous(map), AtMostOneOf(map, p)
       PROVE  Contiguous(new) /\ NoneOf(new, p)
  <2>1. ~NoneOf(list, p)
    BY <1>6 DEF NoneOf
  <2>2. Contiguous(list) /\ AtMostOneOf(list, p)
    BY <2>1, <1>2, <1>14 DEF AtBlock, WalkedTo
  <2>3. ASSUME NEW i \in 1 .. Len(new) PROVE new[i].page_table # p
    <3>1. CASE i = c
      BY <3>1, <1>9, <1>12
    <3>2. CASE i # c
      BY <3>2, <2>2, <1>6, <1>9 DEF AtMostOneOf
    <3>3. QED
      BY <3>1, <3>2
  <2>4. QED
    BY <2>2, <2>3, <1>9 DEF NoneOf
<1>15. next.prev \in {0, next.current - 1, next.current, next.current + 1}
       /\ next.current >= 1
  BY <1>10, <1>12
<1>16. WalkedTo(map, next, p)
  BY <1>10, <1>11, <1>13, <1>14, <1>15 DEF WalkedTo
<1>17. Nearer(w, next)
  <2>1. ~(c > Len(list)) /\ Len(new) + c + 1 <= Len(list) + (c + 1)
    BY <1>6, <1>9
  <2>2. QED
    BY <2>1, <1>2, <1>3, <1>10 DEF Nearer
<1>18. QED
  BY <1>4, <1>16, <1>17

(* One turn of the loop.                                                      *)
LEMMA WalkGoesOn ==
  ASSUME NEW map, NEW w, NEW p \in Tables, WalkedTo(map, w, p)
  PROVE  WalkedTo(map, FreeBlock(w, p), p) /\ Nearer(w, FreeBlock(w, p))
<1>1. FreeBlock(w, p) =
        IF w.current > Len(w.map) THEN w
        ELSE IF w.map[w.current].page_table # p THEN PassBlock(w, w.map[w.current])
        ELSE IF OfKernel(w.map, w.prev) THEN MergeIntoPrevious(w)
        ELSE IF OfKernel(w.map, w.current + 1) THEN MergeIntoNext(w)
        ELSE PassBlock(w, Unbind(w.map[w.current]))
  BY DEF FreeBlock, OfKernel
<1>2. w \in Walks /\ w.current >= 1
  BY DEF WalkedTo
<1>3. w.current \in Nat /\ w.map \in Seq(Block) /\ Len(w.map) \in Nat
  BY <1>2 DEF Walks
<1>4. CASE w.current > Len(w.map)
  <2>1. FreeBlock(w, p) = w
    BY <1>1, <1>4
  <2>2. QED
    BY <2>1, <1>4 DEF Nearer
<1>5. CASE ~(w.current > Len(w.map))
  <2>1. w.current <= Len(w.map) /\ w.current \in 1 .. Len(w.map)
    BY <1>2, <1>3, <1>5
  <2>2. CASE w.map[w.current].page_table # p
    <3>1. FreeBlock(w, p) = PassBlock(w, w.map[w.current])
      BY <1>1, <1>5, <2>2
    <3>2. WalkedTo(map, PassBlock(w, w.map[w.current]), p)
      BY <2>1, <2>2, BlockPassed
    <3>3. PICK next : next = PassBlock(w, w.map[w.current])
      OBVIOUS
    <3>4. Len(next.map) = Len(w.map) /\ next.current = w.current + 1
      BY <3>3, <2>1, <1>3 DEF PassBlock
    <3>5. Len(w.map) + w.current + 1 <= Len(w.map) + (w.current + 1)
      BY <1>3
    <3>6. Nearer(w, next)
      BY <3>4, <3>5, <1>5 DEF Nearer
    <3>7. QED
      BY <3>1, <3>2, <3>3, <3>6
  <2>3. CASE w.map[w.current].page_table = p
    <3>1. AtBlock(map, w, p)
      BY <2>1, <2>3 DEF AtBlock
    <3>2. CASE OfKernel(w.map, w.prev)
      <4>1. FreeBlock(w, p) = MergeIntoPrevious(w)
        BY <1>1, <1>5, <2>3, <3>2
      <4>2. QED
        BY <4>1, <3>1, <3>2, MergesPrevious
    <3>3. CASE ~OfKernel(w.map, w.prev) /\ OfKernel(w.map, w.current + 1)
      <4>1. FreeBlock(w, p) = MergeIntoNext(w)
        BY <1>1, <1>5, <2>3, <3>3
      <4>2. QED
        BY <4>1, <3>1, <3>3, MergesNext
    <3>4. CASE ~OfKernel(w.map, w.prev) /\ ~OfKernel(w.map, w.current + 1)
      <4>1. FreeBlock(w, p) = PassBlock(w, Unbind(w.map[w.current]))
        BY <1>1, <1>5, <2>3, <3>4
      <4>2. QED
        BY <4>1, <3>1, Unbinds
    <3>5. QED
      BY <3>2, <3>3, <3>4
  <2>4. QED
    BY <2>2, <2>3
<1>6. QED
  BY <1>4, <1>5

(* The whole walk: p has no block left.                                       *)
LEMMA BlocksFreed ==
  ASSUME NEW map, NEW p \in Tables, Sound(map, 0)
  PROVE  /\ AfterFree(map, FreeBlocks(map, p), p)
         /\ NoneOf(FreeBlocks(map, p), p)
         /\ Contiguous(map) /\ AtMostOneOf(map, p) => Contiguous(FreeBlocks(map, p))
<1> DEFINE n == Len(map)
           m == [map |-> map, current |-> 1, prev |-> 0]
           S == {w \in Walks : WalkedTo(map, w, p)}
           G == [w \in S |-> [i \in 1 .. n |-> FreeBlock(w, p)]]
           Is(h) == h = [i \in 0 .. n |-> IF i = 0 THEN m ELSE FreeBlock(h[i - 1], p)]
<1>1. n \in Nat /\ map \in Seq(Block)
  BY DEF Sound
<1>2. m \in S
  <2>1. PICK w : w = m
    OBVIOUS
  <2>2. w \in Walks /\ w.map = map /\ w.current = 1 /\ w.prev = 0
    BY <2>1, <1>1 DEF Walks
  <2>3. \A i \in 1 .. Len(map) : ~(i < 1)
    BY <1>1
  <2>4. AfterFree(map, map, p)
    BY DEF AfterFree
  <2>5. w.prev = w.current - 1 /\ w.current >= 1
    BY <2>2
  <2>6. WalkedTo(map, w, p)
    BY <2>2, <2>3, <2>4, <2>5 DEF WalkedTo
  <2>7. QED
    BY <2>1, <2>2, <2>6
<1>3. \A w \in S : FreeBlock(w, p) \in S /\ Nearer(w, FreeBlock(w, p))
  <2> SUFFICES ASSUME NEW w \in S PROVE FreeBlock(w, p) \in S /\ Nearer(w, FreeBlock(w, p))
    OBVIOUS
  <2>1. WalkedTo(map, w, p)
    OBVIOUS
  <2>2. WalkedTo(map, FreeBlock(w, p), p) /\ Nearer(w, FreeBlock(w, p))
    BY <2>1, WalkGoesOn
  <2>3. FreeBlock(w, p) \in Walks
    BY <2>2 DEF WalkedTo
  <2>4. QED
    BY <2>2, <2>3
<1> HIDE DEF S, m
<1>4. G \in [S -> [1 .. n -> S]] /\ \A w \in S : \A i \in 1 .. n : G[w][i] = FreeBlock(w, p)
  BY <1>3
<1> HIDE DEF G, n
<1>5. PICK g \in [0 .. n -> S] : Iterates(g, n, m, G)
  BY <1>1, <1>2, <1>4, Recursion, Zenon
<1>6. Is(g)
  <2>1. ASSUME NEW i \in 0 .. n
        PROVE  g[i] = IF i = 0 THEN m ELSE FreeBlock(g[i - 1], p)
    <3>1. g[i] = IF i = 0 THEN m ELSE G[g[i - 1]][i]
      BY <1>5 DEF Iterates
    <3>2. i # 0 => i \in 1 .. n /\ g[i - 1] \in S
      BY <1>1, <1>5
    <3>3. QED
      BY <1>4, <3>1, <3>2
  <2>2. DOMAIN g = 0 .. n
    BY <1>5
  <2>3. QED
    BY <1>5, <2>1, <2>2
<1>7. FreeBlocks(map, p) = (CHOOSE h : Is(h))[n].map
  BY DEF FreeBlocks, n, m
<1>8. PICK h : Is(h) /\ h = CHOOSE f : Is(f)
  <2> HIDE DEF Is
  <2>1. QED
    BY <1>6, Zenon
<1>9. DOMAIN h = 0 .. n /\ h[0] = m /\ \A i \in 1 .. n : h[i] = FreeBlock(h[i - 1], p)
  <2>1. DOMAIN h = 0 .. n
        /\ \A i \in 0 .. n : h[i] = IF i = 0 THEN m ELSE FreeBlock(h[i - 1], p)
    BY <1>8
  <2>2. 0 \in 0 .. n /\ \A i \in 1 .. n : i \in 0 .. n /\ i # 0
    BY <1>1
  <2>3. QED
    BY <2>1, <2>2, Zenon
<1> DEFINE Near(w, i) == w.current > Len(w.map) \/ Len(w.map) + i + 1 <= n + w.current
           T == {i \in 0 .. n : h[i] \in S /\ Near(h[i], i)}
<1>10. \A w \in S : w.current \in Nat /\ Len(w.map) \in Nat
  BY DEF S, Walks
<1>11. T \in SUBSET (0 .. n) /\ 0 \in T
  <2>1. Near(m, 0)
    BY <1>1 DEF m, n
  <2>2. QED
    BY <2>1, <1>1, <1>2, <1>9
<1>12. ASSUME NEW i \in 1 .. n, i - 1 \in T PROVE i \in T
  <2>1. PICK w \in S : w = h[i - 1] /\ Near(w, i - 1)
    BY <1>12
  <2>2. PICK x \in S : x = FreeBlock(w, p) /\ Nearer(w, x)
    BY <1>3
  <2>3. h[i] = x
    BY <1>9, <2>1, <2>2
  <2>4. Near(x, i)
    <3>1. /\ w.current \in Nat /\ Len(w.map) \in Nat /\ x.current \in Nat /\ Len(x.map) \in Nat
          /\ n \in Nat /\ i \in Nat
      BY <1>1, <1>10
    <3>2. CASE w.current > Len(w.map)
      BY <3>2, <2>2 DEF Nearer
    <3>3. CASE ~(w.current > Len(w.map))
      <4>1. Len(w.map) + (i - 1) + 1 <= n + w.current
        BY <2>1, <3>3
      <4>2. Len(x.map) + w.current + 1 <= Len(w.map) + x.current
        BY <2>2, <3>3 DEF Nearer
      <4>3. PICK a \in Nat, b \in Nat, c \in Nat, d \in Nat, k \in Nat, j \in Nat :
              a = Len(w.map) /\ b = w.current /\ c = Len(x.map) /\ d = x.current
              /\ k = n /\ j = i
        BY <3>1
      <4>4. a + (j - 1) + 1 <= k + b /\ c + b + 1 <= a + d
        BY <4>1, <4>2, <4>3
      <4>5. c + j + 1 <= k + d
        BY <4>4
      <4>6. QED
        BY <4>3, <4>5
    <3>4. QED
      BY <3>2, <3>3
  <2>5. QED
    BY <1>1, <2>3, <2>4
<1>13. n \in T
  <2> HIDE DEF T
  <2>1. T = 0 .. n
    BY <1>1, <1>11, <1>12, UpTo
  <2>2. QED
    BY <2>1, <1>1
<1>14. PICK w \in S : w = h[n] /\ Near(w, n)
  BY <1>13
<1>15. w.current > Len(w.map)
  BY <1>1, <1>10, <1>14
<1>16. WalkedTo(map, w, p)
  BY DEF S
<1>17. NoneOf(w.map, p)
  <2>1. \A i \in 1 .. Len(w.map) : i < w.current
    BY <1>10, <1>15
  <2>2. QED
    BY <2>1, <1>16 DEF WalkedTo, NoneOf
<1>18. FreeBlocks(map, p) = w.map
  BY <1>7, <1>8, <1>14
<1>19. QED
  BY <1>16, <1>17, <1>18 DEF WalkedTo

-----------------------------------------------------------------------------
(* The invariant. *)

TableLists == [Tables -> [bound : BOOLEAN, pages : PageEntries]]

\* The list is sound, has as many pages as in the beginning, and, naming each
\* page table, as many as there are in the table.
MemoryInv(map, tables) ==
  /\ Sound(map, 0)
  /\ tables \in TableLists
  /\ PagesNaming(map, AllTables) = PagesNaming(MEMORY_MAP, AllTables)
  /\ \A p \in Tables : PagesNaming(map, {p}) = Cardinality(Mapped(tables[p].pages))
  /\ \A p \in Tables : ~tables[p].bound => NoneOf(map, p) /\ tables[p].pages = Empty

IInv == MemoryInv(memory_page_map, page_table_list)

\* Owned, of any list and page tables.
OwnedIn(map, tables) ==
  \A p \in Tables : tables[p].bound => FramesIn(tables[p].pages) = Held(map, p)

LEMMA NothingMapped ==
  /\ Empty \in PageEntries /\ Cardinality(Mapped(Empty)) = 0 /\ FramesIn(Empty) = {}
<1>1. Empty \in PageEntries
  BY DEF Empty, PageEntries
<1>2. Mapped(Empty) = {} /\ FramesIn(Empty) = {}
  BY DEF Mapped, FramesIn, Empty
<1>3. QED
  BY <1>1, <1>2, FS_EmptySet

LEMMA NothingHeld ==
  ASSUME NEW map \in Seq(Block), NEW p, NoneOf(map, p)
  PROVE  PagesNaming(map, {p}) = 0 /\ Held(map, p) = {}
<1>1. Held(map, p) = {}
  BY DEF NoneOf, Held, HeldIn
<1>2. PagesNaming(map, {p}) = 0
  <2> DEFINE P == UpToBlock(map, {p})
             T == {i \in 0 .. Len(map) : P[i] = 0}
  <2>1. P[0] = 0 /\ \A i \in 1 .. Len(map) : P[i] = P[i - 1] + Share(map[i], {p})
    BY UpToFacts
  <2>2. \A i \in 1 .. Len(map) : Share(map[i], {p}) = 0
    BY DEF NoneOf, Share
  <2> HIDE DEF P
  <2>3. T \in SUBSET (0 .. Len(map)) /\ 0 \in T
    BY <2>1
  <2>4. ASSUME NEW i \in 1 .. Len(map), i - 1 \in T PROVE i \in T
    <3>1. P[i - 1] = 0
      BY <2>4
    <3>2. P[i] = P[i - 1] + Share(map[i], {p})
      BY <2>1
    <3>3. Share(map[i], {p}) = 0
      BY <2>2
    <3>4. P[i] = 0
      BY <3>1, <3>2, <3>3
    <3>5. QED
      BY <3>4
  <2> HIDE DEF T
  <2>5. Len(map) \in Nat
    OBVIOUS
  <2>6. T = 0 .. Len(map)
    BY <2>3, <2>4, <2>5, UpTo
  <2>7. Len(map) \in T
    BY <2>5, <2>6
  <2>8. QED
    BY <2>7 DEF T, P, PagesNaming
<1>3. QED
  BY <1>1, <1>2

(* The areas are sorted and do not overlap, so those before one fit below it. *)
LEMMA BootFits == Fits(MEMORY_MAP)
<1> DEFINE map == MEMORY_MAP
           n == Len(map) - 1
           P == UpToBlock(map, AllTables)
           T == {i \in 0 .. n : P[i] <= map[i + 1].base}
<1>1. map \in Seq(Block) /\ n \in Nat
      /\ \A i \in 1 .. n : map[i].base + map[i].limit <= map[i + 1].base
  BY MemoryMapAssumption
<1>2. /\ P \in [0 .. Len(map) -> Nat] /\ P[0] = 0
      /\ \A i \in 1 .. Len(map) : P[i] = P[i - 1] + Share(map[i], AllTables)
  BY <1>1, UpToFacts
<1>3. \A i \in 1 .. Len(map) : map[i].base \in Nat /\ map[i].limit \in Nat
                               /\ Share(map[i], AllTables) = map[i].limit
  BY <1>1, BlockFacts, Shares
<1>4. Len(map) \in Nat /\ Len(map) >= 3
  BY MemoryMapAssumption
<1> HIDE DEF P, map
<1>5. T \in SUBSET (0 .. n) /\ 0 \in T
  <2>1. 0 + 1 \in 1 .. Len(map) /\ 0 \in 0 .. n
    BY <1>4
  <2>2. QED
    BY <2>1, <1>2, <1>3
<1>6. ASSUME NEW i \in 1 .. n, i - 1 \in T PROVE i \in T
  <2>1. i \in 1 .. Len(map) /\ i + 1 \in 1 .. Len(map) /\ i - 1 \in 0 .. Len(map)
        /\ (i - 1) + 1 = i /\ i \in 0 .. n
    BY <1>4
  <2>2. PICK a \in Nat, b \in Nat, l \in Nat, d \in Nat :
          a = P[i - 1] /\ b = map[i].base /\ l = map[i].limit /\ d = map[i + 1].base
    <3>1. P[i - 1] \in Nat
      BY <2>1, <1>2
    <3>2. map[i].base \in Nat /\ map[i].limit \in Nat /\ map[i + 1].base \in Nat
      BY <2>1, <1>3
    <3>3. QED
      BY <3>1, <3>2
  <2>3. a <= b
    BY <1>6, <2>1, <2>2
  <2>4. b + l <= d
    BY <1>1, <2>2
  <2>5. P[i] = a + l
    BY <1>2, <1>3, <2>1, <2>2
  <2>6. a + l <= d
    BY <2>3, <2>4
  <2>7. QED
    BY <2>1, <2>2, <2>5, <2>6
<1> HIDE DEF T
<1>7. T = 0 .. n
  BY <1>1, <1>5, <1>6, UpTo
<1>8. ASSUME NEW i \in 1 .. Len(map) PROVE P[i - 1] <= map[i].base
  <2>1. i - 1 \in 0 .. n /\ (i - 1) + 1 = i
    BY <1>4
  <2>2. i - 1 \in T
    BY <2>1, <1>7
  <2>3. QED
    BY <2>1, <2>2 DEF T
<1>9. QED
  BY <1>8 DEF Fits, P, map

LEMMA BootInv ==
  ASSUME NEW tables, tables = [p \in Tables |-> [bound |-> FALSE, pages |-> Empty]]
  PROVE  MemoryInv(MEMORY_MAP, tables)
<1>1. MEMORY_MAP \in Seq(Block) /\ Len(MEMORY_MAP) \in Nat /\ Len(MEMORY_MAP) >= 3
  BY MemoryMapAssumption
<1>2. \A i \in 1 .. Len(MEMORY_MAP) :
        /\ MEMORY_MAP[i].page_table = KERNEL_PAGE_TABLE
        /\ MEMORY_MAP[i].bound \/ MEMORY_MAP[i].limit > 0
  BY MemoryMapAssumption
<1>3. Ends(MEMORY_MAP)
  <2>1. 1 \in 1 .. Len(MEMORY_MAP) /\ Len(MEMORY_MAP) - 1 \in 1 .. Len(MEMORY_MAP)
        /\ Len(MEMORY_MAP) \in 1 .. Len(MEMORY_MAP)
    BY <1>1
  <2>2. \A i \in {1, Len(MEMORY_MAP) - 1, Len(MEMORY_MAP)} : MEMORY_MAP[i].bound
    BY MemoryMapAssumption
  <2>3. QED
    BY <2>1, <2>2, <1>1, <1>2 DEF Ends, IsReserved
<1>4. Filled(MEMORY_MAP, 0)
  BY <1>2 DEF Filled, FilledBlock
<1>5. Sound(MEMORY_MAP, 0)
  BY <1>1, <1>3, <1>4, BootFits DEF Sound
<1>6. ASSUME NEW p \in Tables
      PROVE  NoneOf(MEMORY_MAP, p) /\ PagesNaming(MEMORY_MAP, {p}) = 0
  <2>1. NoneOf(MEMORY_MAP, p)
    BY <1>2, MinTables DEF NoneOf
  <2>2. QED
    BY <2>1, <1>1, NothingHeld
<1>7. tables \in TableLists
  BY NothingMapped DEF TableLists
<1>8. \A p \in Tables : tables[p].pages = Empty
  OBVIOUS
<1>9. QED
  BY <1>5, <1>6, <1>7, <1>8, NothingMapped DEF MemoryInv

(* A process has no empty block, so one without pages has none.               *)
LEMMA EmptyHasNone ==
  ASSUME NEW map, Sound(map, 0), NEW q \in Tables, PagesNaming(map, {q}) = 0
  PROVE  NoneOf(map, q)
<1> SUFFICES ASSUME NEW i \in 1 .. Len(map), map[i].page_table = q PROVE FALSE
  BY DEF NoneOf
<1> DEFINE P == UpToBlock(map, {q})
           T == {j \in 0 .. Len(map) : j >= i => P[j] > 0}
<1>1. map \in Seq(Block) /\ Len(map) \in Nat
  BY DEF Sound
<1>2. /\ P \in [0 .. Len(map) -> Nat]
      /\ \A j \in 1 .. Len(map) : P[j] = P[j - 1] + Share(map[j], {q})
  BY <1>1, UpToFacts
<1>3. \A j \in 1 .. Len(map) : Share(map[j], {q}) \in Nat
  BY <1>1, BlockFacts, Shares
<1>4. Share(map[i], {q}) > 0
  <2>1. i # 0 /\ FilledBlock(map[i], i = 0)
    <3>1. Filled(map, 0)
      BY DEF Sound
    <3>2. QED
      BY <3>1, <1>1 DEF Filled
  <2>2. map[i].limit > 0
    BY <2>1, MinTables DEF FilledBlock
  <2>3. QED
    BY <2>2 DEF Share
<1>5. T \in SUBSET (0 .. Len(map)) /\ 0 \in T
  BY <1>1
<1> HIDE DEF P
<1>6. ASSUME NEW j \in 1 .. Len(map), j - 1 \in T PROVE j \in T
  <2>0. j - 1 \in 0 .. Len(map)
    BY <1>1
  <2>1. j - 1 \in 0 .. Len(map) /\ P[j - 1] \in Nat
    BY <2>0, <1>2
  <2>2. P[j] = P[j - 1] + Share(map[j], {q}) /\ Share(map[j], {q}) \in Nat
    BY <1>2, <1>3
  <2>3. ASSUME j >= i PROVE P[j] > 0
    <3>1. CASE j = i
      BY <3>1, <2>1, <2>2, <1>4
    <3>2. CASE j # i
      <4>1. j - 1 >= i
        BY <2>3, <3>2
      <4>2. P[j - 1] > 0
        BY <4>1, <1>6
      <4>3. QED
        BY <4>2, <2>1, <2>2
    <3>3. QED
      BY <3>1, <3>2
  <2>4. QED
    BY <2>3, <1>1
<1> HIDE DEF T
<1>7. T = 0 .. Len(map)
  BY <1>1, <1>5, <1>6, UpTo
<1>8. Len(map) \in T /\ Len(map) >= i
  BY <1>1, <1>7
<1>9. P[Len(map)] > 0
  BY <1>8 DEF T
<1>10. QED
  BY <1>9 DEF P, PagesNaming

(* Pages are allocated to p, which is bound or becomes so.                    *)
LEMMA AllocationKeeps ==
  ASSUME NEW map, NEW tables, MemoryInv(map, tables), NEW p \in Tables, NEW m \in Memories,
         m.map = map, m.pages = tables[p].pages, NEW x, AfterPages(m, x, p),
         NEW new \in TableLists, \A q \in Tables : q # p => new[q] = tables[q],
         new[p].bound, new[p].pages = x.pages
  PROVE  /\ MemoryInv(x.map, new)
         /\ Contiguous(map) => Contiguous(x.map)
         /\ Contiguous(map) /\ OwnedIn(map, tables) => OwnedIn(x.map, new)
<1>1. map \in Seq(Block) /\ x.map \in Seq(Block) /\ tables \in TableLists
  BY DEF MemoryInv, AfterPages, Sound
<1>2. ASSUME NEW q \in Tables
      PROVE  PagesNaming(x.map, {q}) = Cardinality(Mapped(new[q].pages))
  <2>1. CASE q # p
    BY <2>1 DEF MemoryInv, AfterPages
  <2>2. CASE q = p
    <3>1. PICK a \in Nat, b \in Nat, c \in Nat :
            a = PagesNaming(x.map, {p}) /\ b = Cardinality(Mapped(m.pages))
            /\ c = Cardinality(Mapped(x.pages))
      <4>1. PagesNaming(x.map, {p}) \in Nat
        BY <1>1, PagesTyped
      <4>2. Cardinality(Mapped(m.pages)) \in Nat /\ Cardinality(Mapped(x.pages)) \in Nat
        BY CountTyped
      <4>3. QED
        BY <4>1, <4>2
    <3>2. PagesNaming(map, {p}) = b
      BY <3>1 DEF MemoryInv
    <3>3. a + b = b + c
      BY <3>1, <3>2 DEF AfterPages
    <3>4. a = c
      BY <3>3
    <3>5. QED
      BY <2>2, <3>1, <3>4
  <2>3. QED
    BY <2>1, <2>2
<1>3. ASSUME NEW q \in Tables, ~new[q].bound
      PROVE  NoneOf(x.map, q) /\ new[q].pages = Empty
  <2>1. q # p /\ new[q] = tables[q]
    BY <1>3
  <2>2. NoneOf(map, q) /\ new[q].pages = Empty
    BY <1>3, <2>1 DEF MemoryInv
  <2>3. PagesNaming(x.map, {q}) = 0
    <3>1. PagesNaming(map, {q}) = 0
      BY <2>2, <1>1, NothingHeld
    <3>2. QED
      BY <2>1, <3>1 DEF AfterPages
  <2>4. Sound(x.map, 0)
    BY DEF AfterPages
  <2>5. NoneOf(x.map, q)
    BY <2>3, <2>4, EmptyHasNone
  <2>6. QED
    BY <2>2, <2>5
<1>4. MemoryInv(x.map, new)
  BY <1>2, <1>3 DEF MemoryInv, AfterPages
<1>5. ASSUME Contiguous(map), OwnedIn(map, tables) PROVE OwnedIn(x.map, new)
  <2> SUFFICES ASSUME NEW q \in Tables, new[q].bound
               PROVE  FramesIn(new[q].pages) = Held(x.map, q)
    BY DEF OwnedIn
  <2>1. CASE q # p
    <3>1. FramesIn(tables[q].pages) = Held(map, q)
      BY <2>1, <1>5 DEF OwnedIn
    <3>2. QED
      BY <2>1, <3>1, <1>5 DEF AfterPages
  <2>2. CASE q = p
    <3>1. Held(map, p) = FramesIn(m.pages)
      <4>1. CASE tables[p].bound
        BY <4>1, <1>5 DEF OwnedIn
      <4>2. CASE ~tables[p].bound
        <5>1. NoneOf(map, p) /\ m.pages = Empty
          BY <4>2 DEF MemoryInv
        <5>2. QED
          BY <5>1, <1>1, NothingHeld, NothingMapped
      <4>3. QED
        BY <4>1, <4>2
    <3>2. QED
      BY <2>2, <3>1, <1>5 DEF AfterPages
  <2>3. QED
    BY <2>1, <2>2
<1>6. QED
  BY <1>4, <1>5 DEF AfterPages

(* The page table p is freed.                                                 *)
LEMMA FreeingKeeps ==
  ASSUME NEW map, NEW tables, MemoryInv(map, tables), NEW p \in Tables,
         NEW new \in TableLists, \A q \in Tables : q # p => new[q] = tables[q],
         ~new[p].bound, new[p].pages = Empty
  PROVE  /\ MemoryInv(FreeBlocks(map, p), new)
         /\ Contiguous(map) /\ AtMostOneOf(map, p) => Contiguous(FreeBlocks(map, p))
         /\ OwnedIn(map, tables) => OwnedIn(FreeBlocks(map, p), new)
<1>1. PICK left : left = FreeBlocks(map, p)
  OBVIOUS
<1>2. Sound(map, 0)
  BY DEF MemoryInv
<1>3. /\ AfterFree(map, left, p) /\ NoneOf(left, p)
      /\ Contiguous(map) /\ AtMostOneOf(map, p) => Contiguous(left)
  BY <1>1, <1>2, BlocksFreed
<1>4. left \in Seq(Block) /\ Sound(left, 0)
  BY <1>3 DEF AfterFree, Sound
<1>5. PagesNaming(left, {p}) = 0
  BY <1>3, <1>4, NothingHeld
<1>6. ASSUME NEW q \in Tables
      PROVE  PagesNaming(left, {q}) = Cardinality(Mapped(new[q].pages))
  <2>1. CASE q # p
    BY <2>1, <1>3 DEF MemoryInv, AfterFree
  <2>2. CASE q = p
    BY <2>2, <1>5, NothingMapped
  <2>3. QED
    BY <2>1, <2>2
<1>7. ASSUME NEW q \in Tables, ~new[q].bound PROVE NoneOf(left, q) /\ new[q].pages = Empty
  <2>1. CASE q # p
    <3>1. NoneOf(map, q) /\ new[q].pages = Empty
      BY <2>1, <1>7 DEF MemoryInv
    <3>2. map \in Seq(Block)
      BY <1>2 DEF Sound
    <3>3. PagesNaming(map, {q}) = 0
      BY <3>1, <3>2, NothingHeld
    <3>4. PagesNaming(left, {q}) = 0
      BY <2>1, <3>3, <1>3 DEF AfterFree
    <3>5. QED
      BY <3>1, <3>4, <1>4, EmptyHasNone
  <2>2. CASE q = p
    BY <2>2, <1>3
  <2>3. QED
    BY <2>1, <2>2
<1>8. MemoryInv(left, new)
  BY <1>3, <1>6, <1>7 DEF MemoryInv, AfterFree
<1>9. ASSUME OwnedIn(map, tables) PROVE OwnedIn(left, new)
  <2> SUFFICES ASSUME NEW q \in Tables, new[q].bound
               PROVE  FramesIn(new[q].pages) = Held(left, q)
    BY DEF OwnedIn
  <2>1. q # p
    OBVIOUS
  <2>2. FramesIn(tables[q].pages) = Held(map, q)
    BY <2>1, <1>9 DEF OwnedIn
  <2>3. QED
    BY <2>1, <2>2, <1>3 DEF AfterFree
<1>10. QED
  BY <1>1, <1>3, <1>8, <1>9

-----------------------------------------------------------------------------
(* The steps. *)

LEMMA TablesTyped ==
  ASSUME IInv
  PROVE  /\ page_table_list \in TableLists /\ memory_page_map \in Seq(Block)
         /\ Sound(memory_page_map, 0)
BY DEF IInv, MemoryInv, Sound

\* What a step of the system does to the list, in the terms of the lemmas.
StepKeeps ==
  /\ IInv'
  /\ Contiguous(memory_page_map) =>
       \/ Contiguous(memory_page_map')
       \/ \E p \in Bound : p \notin Bound' /\ ~AtMostOneOf(memory_page_map, p)
  /\ Contiguous(memory_page_map) /\ OwnedIn(memory_page_map, page_table_list) =>
       OwnedIn(memory_page_map', page_table_list')
       \/ ~Contiguous(memory_page_map')

LEMMA CreateKeeps ==
  ASSUME IInv, NEW n \in CODE_PAGES, create_process(n)
  PROVE  StepKeeps
<1> DEFINE p == create_page_table
           m == [map |-> memory_page_map, pages |-> page_table_list[p].pages]
           r == [i \in 1 .. n |-> i]
           code == allocate_memory(m, p, r)
           all == allocate_memory(code, p, <<VPAGES>>)
<1>1. /\ Tables \ Bound # {}
      /\ memory_page_map' = all.map
      /\ page_table_list' = [page_table_list EXCEPT
                               ![p] = [bound |-> TRUE, pages |-> all.pages]]
  BY DEF create_process
<1>2. p \in Tables \ Bound
  <2>1. Tables \ Bound \in SUBSET Nat
    BY MinTables
  <2>2. QED
    BY <2>1, <1>1, MinExists DEF create_page_table
<1> HIDE DEF p
<1>3. m \in Memories /\ m.map = memory_page_map /\ m.pages = page_table_list[p].pages
  BY <1>2, TablesTyped DEF Memories, TableLists
<1>4. Sound(m.map, 0)
  BY <1>3, TablesTyped
<1> HIDE DEF m
<1>5. n \in Nat /\ n \in 1 .. VPAGES - 1 /\ VPAGES \in Nat
  BY SizesAssumption
<1>6. r \in [1 .. n -> Pages]
  BY <1>5 DEF Pages
<1> HIDE DEF r
<1>7. AfterPages(m, code, p)
  BY <1>2, <1>3, <1>4, <1>5, <1>6, MemoryAllocated
<1>8. code \in Memories /\ Sound(code.map, 0)
  BY <1>7 DEF AfterPages
<1> HIDE DEF code
<1>9. <<VPAGES>> \in [1 .. 1 -> Pages]
  BY <1>5 DEF Pages
<1>10. AfterPages(code, all, p)
  <2>1. PICK k \in Nat : k = 1
    OBVIOUS
  <2>2. <<VPAGES>> \in [1 .. k -> Pages]
    BY <2>1, <1>9
  <2>3. QED
    BY <2>2, <1>2, <1>8, MemoryAllocated
<1> HIDE DEF all
<1>11. AfterPages(m, all, p)
  BY <1>3, <1>7, <1>10, MorePages
<1>12. all.pages \in PageEntries
  BY <1>10 DEF AfterPages, Memories
<1>13. /\ page_table_list' \in TableLists
       /\ \A q \in Tables : q # p => page_table_list'[q] = page_table_list[q]
       /\ page_table_list'[p].bound /\ page_table_list'[p].pages = all.pages
  BY <1>1, <1>2, <1>12, TablesTyped DEF TableLists
<1>14. /\ MemoryInv(all.map, page_table_list')
       /\ Contiguous(memory_page_map) => Contiguous(all.map)
       /\ Contiguous(memory_page_map) /\ OwnedIn(memory_page_map, page_table_list) =>
            OwnedIn(all.map, page_table_list')
  BY <1>2, <1>3, <1>11, <1>13, AllocationKeeps DEF IInv
<1>15. QED
  BY <1>1, <1>14 DEF StepKeeps, IInv

LEMMA FaultKeeps ==
  ASSUME IInv, NEW p \in Tables, NEW v \in Pages, handle_page_fault(p, v)
  PROVE  StepKeeps
<1> DEFINE m == [map |-> memory_page_map, pages |-> page_table_list[p].pages]
           all == allocate_memory(m, p, <<v>>)
<1>1. /\ p \in Bound
      /\ memory_page_map' = all.map
      /\ page_table_list' = [page_table_list EXCEPT ![p].pages = all.pages]
  BY DEF handle_page_fault
<1>3. m \in Memories /\ m.map = memory_page_map /\ m.pages = page_table_list[p].pages
  BY TablesTyped DEF Memories, TableLists
<1>4. Sound(m.map, 0)
  BY <1>3, TablesTyped
<1> HIDE DEF m
<1>9. <<v>> \in [1 .. 1 -> Pages]
  OBVIOUS
<1>11. AfterPages(m, all, p)
  <2>1. PICK k \in Nat : k = 1
    OBVIOUS
  <2>2. <<v>> \in [1 .. k -> Pages]
    BY <2>1, <1>9
  <2>3. QED
    BY <2>2, <1>3, <1>4, MemoryAllocated
<1> HIDE DEF all
<1>12. all.pages \in PageEntries
  BY <1>11 DEF AfterPages, Memories
<1>13. /\ page_table_list' \in TableLists
       /\ \A q \in Tables : q # p => page_table_list'[q] = page_table_list[q]
       /\ page_table_list'[p].bound /\ page_table_list'[p].pages = all.pages
  BY <1>1, <1>12, TablesTyped DEF TableLists, Bound
<1>14. /\ MemoryInv(all.map, page_table_list')
       /\ Contiguous(memory_page_map) => Contiguous(all.map)
       /\ Contiguous(memory_page_map) /\ OwnedIn(memory_page_map, page_table_list) =>
            OwnedIn(all.map, page_table_list')
  BY <1>3, <1>11, <1>13, AllocationKeeps DEF IInv
<1>15. QED
  BY <1>1, <1>14 DEF StepKeeps, IInv

LEMMA ExitKeeps ==
  ASSUME IInv, NEW p \in Tables, exit_process(p)
  PROVE  StepKeeps
<1>1. /\ p \in Bound
      /\ memory_page_map' = FreeBlocks(memory_page_map, p)
      /\ page_table_list' = [page_table_list EXCEPT
                               ![p] = [bound |-> FALSE, pages |-> Empty]]
  BY DEF exit_process, free_page_table
<1>2. /\ page_table_list' \in TableLists
      /\ \A q \in Tables : q # p => page_table_list'[q] = page_table_list[q]
      /\ ~page_table_list'[p].bound /\ page_table_list'[p].pages = Empty
  BY <1>1, TablesTyped, NothingMapped DEF TableLists
<1>3. PICK left : left = FreeBlocks(memory_page_map, p)
  OBVIOUS
<1>4. /\ MemoryInv(left, page_table_list')
      /\ Contiguous(memory_page_map) /\ AtMostOneOf(memory_page_map, p) => Contiguous(left)
      /\ OwnedIn(memory_page_map, page_table_list) => OwnedIn(left, page_table_list')
  BY <1>2, <1>3, FreeingKeeps DEF IInv
<1>5. p \in Bound /\ p \notin Bound'
  BY <1>1, <1>2 DEF Bound
<1>6. QED
  BY <1>1, <1>3, <1>4, <1>5 DEF StepKeeps, IInv

LEMMA InitInv == Init => IInv
<1> SUFFICES ASSUME Init PROVE IInv
  OBVIOUS
<1>1. page_table_list = [p \in Tables |-> [bound |-> FALSE, pages |-> Empty]]
      /\ memory_page_map = MEMORY_MAP
  BY DEF Init
<1>2. QED
  BY <1>1, BootInv DEF IInv

LEMMA NextKeeps ==
  ASSUME IInv, Next
  PROVE  StepKeeps
<1>1. ASSUME NEW n \in CODE_PAGES, create_process(n) PROVE StepKeeps
  BY <1>1, CreateKeeps
<1>2. ASSUME NEW p \in Tables, NEW v \in Pages, handle_page_fault(p, v) PROVE StepKeeps
  BY <1>2, FaultKeeps
<1>3. ASSUME NEW p \in Tables, exit_process(p) PROVE StepKeeps
  BY <1>3, ExitKeeps
<1>4. QED
  BY <1>1, <1>2, <1>3 DEF Next

LEMMA InvKept == IInv /\ [Next]_vars => IInv'
<1> SUFFICES ASSUME IInv, [Next]_vars PROVE IInv'
  OBVIOUS
<1>1. CASE Next
  BY <1>1, NextKeeps DEF StepKeeps
<1>2. CASE UNCHANGED vars
  BY <1>2 DEF vars, IInv
<1>3. QED
  BY <1>1, <1>2

(* The blocks of a process, and of all, are those the sums are about.         *)
LEMMA BlocksNamed ==
  ASSUME IInv
  PROVE  /\ \A p \in Tables : BlocksOf(p) = Naming(memory_page_map, {p})
         /\ 1 .. Len(memory_page_map) = Naming(memory_page_map, AllTables)
         /\ 1 .. Len(MEMORY_MAP) = Naming(MEMORY_MAP, AllTables)
<1>1. memory_page_map \in Seq(Block) /\ MEMORY_MAP \in Seq(Block)
  BY TablesTyped, MemoryMapAssumption
<1>2. \A map \in Seq(Block) : 1 .. Len(map) = Naming(map, AllTables)
  BY BlockFacts DEF Naming, AllTables
<1>3. \A p \in Tables : BlocksOf(p) = Naming(memory_page_map, {p})
  BY DEF BlocksOf, Naming
<1>4. QED
  BY <1>1, <1>2, <1>3

LEMMA InvImplies == IInv => TypeOK /\ MemoryAccounted /\ FreedCompletely
<1> SUFFICES ASSUME IInv PROVE TypeOK /\ MemoryAccounted /\ FreedCompletely
  OBVIOUS
<1>1. TypeOK
  BY TablesTyped DEF TypeOK, TableLists, PageEntries
<1>2. MemoryConserved
  <2>1. /\ Limits(memory_page_map, 1 .. Len(memory_page_map))
             = PagesNaming(memory_page_map, AllTables)
        /\ Limits(MEMORY_MAP, 1 .. Len(MEMORY_MAP)) = PagesNaming(MEMORY_MAP, AllTables)
    BY BlocksNamed, LimitsIsSum DEF PagesNaming, UpToBlock
  <2>2. QED
    BY <2>1 DEF IInv, MemoryInv, MemoryConserved
<1>3. PagesAccounted
  <2> SUFFICES ASSUME NEW p \in Bound
               PROVE  Limits(memory_page_map, BlocksOf(p))
                        = Cardinality({v \in Pages : page_table_list[p].pages[v] # Ignored})
    BY DEF PagesAccounted
  <2>1. p \in Tables
    BY DEF Bound
  <2>2. Limits(memory_page_map, BlocksOf(p)) = PagesNaming(memory_page_map, {p})
    BY <2>1, BlocksNamed, LimitsIsSum DEF PagesNaming, UpToBlock
  <2>3. PagesNaming(memory_page_map, {p}) = Cardinality(Mapped(page_table_list[p].pages))
    BY <2>1 DEF IInv, MemoryInv
  <2>4. QED
    BY <2>2, <2>3 DEF Mapped
<1>4. FreedCompletely
  <2> SUFFICES ASSUME NEW p \in Tables \ Bound PROVE BlocksOf(p) = {} /\ Frames(p) = {}
    BY DEF FreedCompletely
  <2>1. p \in Tables /\ ~page_table_list[p].bound
    BY DEF Bound
  <2>2. NoneOf(memory_page_map, p) /\ page_table_list[p].pages = Empty
    BY <2>1 DEF IInv, MemoryInv
  <2>3. BlocksOf(p) = {}
    BY <2>2 DEF NoneOf, BlocksOf
  <2>4. Frames(p) = FramesIn(page_table_list[p].pages)
    BY DEF Frames, FramesIn
  <2>5. QED
    BY <2>2, <2>3, <2>4, NothingMapped
<1>5. QED
  BY <1>1, <1>2, <1>3, <1>4 DEF MemoryAccounted

LEMMA AlwaysInv == Spec => []IInv
BY InitInv, InvKept, PTL DEF Spec

(* The variables have their types: no block gets a negative base or limit.    *)
THEOREM Typed == Spec => []TypeOK
<1>1. IInv => TypeOK
  BY InvImplies
<1>2. QED
  BY <1>1, AlwaysInv, PTL

(* No page is lost or invented, in the machine and in each process: the       *)
(* blocks, taken from, split, merged and removed by allocate_memory and       *)
(* free_page_table, add up to the memory map of the machine, and those that   *)
(* name a page table to the pages that are present in it.  This holds also    *)
(* after free_page_table has put the list out of order.                       *)
THEOREM Accounted == Spec => []MemoryAccounted
<1>1. IInv => MemoryAccounted
  BY InvImplies
<1>2. QED
  BY <1>1, AlwaysInv, PTL

(* exit_process gives back every block: a page table that is not bound has    *)
(* none and maps nothing, although the walk moves its two pointers on their   *)
(* own and skips blocks.                                                      *)
THEOREM AllFreed == Spec => []FreedCompletely
<1>1. IInv => FreedCompletely
  BY InvImplies
<1>2. QED
  BY <1>1, AlwaysInv, PTL

LEMMA TiledIsContiguous == Tiled <=> Contiguous(memory_page_map)
BY DEF Tiled, Contiguous

LEMMA OwnedIsIn ==
  ASSUME page_table_list \in TableLists
  PROVE  Owned <=> OwnedIn(memory_page_map, page_table_list)
<1>1. \A p : Frames(p) = FramesIn(page_table_list[p].pages)
  BY DEF Frames, FramesIn
<1>2. \A p : UNION {Extent(memory_page_map[i]) : i \in BlocksOf(p)} = Held(memory_page_map, p)
  BY DEF Held, HeldIn, BlocksOf
<1>3. QED
  BY <1>1, <1>2 DEF Owned, OwnedIn, Bound

(* More than one block has two.                                               *)
LEMMA TwoBlocks ==
  ASSUME NEW p, ~AtMostOneOf(memory_page_map, p), memory_page_map \in Seq(Block)
  PROVE  Cardinality(BlocksOf(p)) > 1
<1>1. PICK i \in BlocksOf(p), j \in BlocksOf(p) : i # j
  BY DEF AtMostOneOf, BlocksOf
<1>2. Len(memory_page_map) \in Nat
  OBVIOUS
<1>3. IsFiniteSet(1 .. Len(memory_page_map))
  BY <1>2, FS_Interval
<1>4. IsFiniteSet(BlocksOf(p)) /\ Cardinality(BlocksOf(p)) \in Nat
  BY <1>3, FS_Subset, FS_CardinalityType DEF BlocksOf
<1>5. Cardinality({i, j}) = 2
  <2>1. IsFiniteSet({i}) /\ Cardinality({i}) = 1
    BY FS_Singleton
  <2>2. {i, j} = {i} \cup {j} /\ j \notin {i}
    BY <1>1
  <2>3. Cardinality({i, j}) = 1 + 1
    BY <2>1, <2>2, FS_AddElement
  <2>4. QED
    BY <2>3
<1>6. Cardinality({i, j}) <= Cardinality(BlocksOf(p))
  <2>1. {i, j} \in SUBSET BlocksOf(p)
    BY <1>1
  <2>2. QED
    BY <2>1, <1>4, FS_Subset
<1>7. QED
  BY <1>4, <1>5, <1>6

(* Taking pages, whichever of its three ways, and freeing a process that has  *)
(* one block keep the blocks in order and without holes.                      *)
THEOREM ListKept == Spec => TilingKept
<1> DEFINE A == Tiled => \/ Tiled'
                         \/ \E p \in Bound : p \notin Bound' /\ Cardinality(BlocksOf(p)) > 1
<1>1. IInv /\ [Next]_vars => [A]_vars
  <2> SUFFICES ASSUME IInv, Next, Tiled
               PROVE  \/ Tiled'
                      \/ \E p \in Bound : p \notin Bound' /\ Cardinality(BlocksOf(p)) > 1
    OBVIOUS
  <2>1. StepKeeps
    BY NextKeeps
  <2>2. Contiguous(memory_page_map)
    BY TiledIsContiguous
  <2>3. CASE Contiguous(memory_page_map')
    BY <2>3 DEF Tiled, Contiguous
  <2>4. CASE \E p \in Bound : p \notin Bound' /\ ~AtMostOneOf(memory_page_map, p)
    BY <2>4, TwoBlocks, TablesTyped
  <2>5. QED
    BY <2>1, <2>2, <2>3, <2>4 DEF StepKeeps
<1> HIDE DEF A
<1>2. Spec => [][A]_vars
  BY <1>1, AlwaysInv, PTL DEF Spec
<1>3. QED
  BY <1>2 DEF A, TilingKept

(* While the list is in order, every step keeps each process to the pages of  *)
(* its own blocks, so no two use the same page.                               *)
THEOREM OwnershipIsKept == Spec => OwnershipKept
<1> DEFINE A == Tiled /\ Owned /\ Tiled' => Owned'
<1>1. IInv /\ [Next]_vars => [A]_vars
  <2> SUFFICES ASSUME IInv, Next, Tiled, Owned, Tiled' PROVE Owned'
    OBVIOUS
  <2>1. StepKeeps
    BY NextKeeps
  <2>2. page_table_list \in TableLists /\ page_table_list' \in TableLists
    BY <2>1, TablesTyped DEF StepKeeps, IInv, MemoryInv
  <2>3. Contiguous(memory_page_map) /\ OwnedIn(memory_page_map, page_table_list)
    BY <2>2, TiledIsContiguous, OwnedIsIn
  <2>4. Contiguous(memory_page_map')
    BY DEF Tiled, Contiguous
  <2>5. OwnedIn(memory_page_map', page_table_list')
    BY <2>1, <2>3, <2>4 DEF StepKeeps
  <2>6. \A p : Frames(p)' = FramesIn(page_table_list'[p].pages)
    BY DEF Frames, FramesIn
  <2>7. \A p : (UNION {Extent(memory_page_map[i]) : i \in BlocksOf(p)})'
                 = Held(memory_page_map', p)
    BY DEF Held, HeldIn, BlocksOf
  <2>8. QED
    BY <2>5, <2>6, <2>7 DEF Owned, OwnedIn, Bound
<1> HIDE DEF A
<1>2. Spec => [][A]_vars
  BY <1>1, AlwaysInv, PTL DEF Spec
<1>3. QED
  BY <1>2 DEF A, OwnershipKept

=============================================================================
