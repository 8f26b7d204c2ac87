---------------------------- MODULE EntryProofs ----------------------------
(***************************************************************************)
(* Proofs about the two entries of the kernel: the gate of system calls    *)
(* (module SystemCall) and the keyboard's interrupt with the calls that    *)
(* wait for it (module Keyboard), for any number of processes.             *)
(*                                                                         *)
(* OwnInv says where the result of a call is at each step of a process     *)
(* nobody has disturbed.  It is inductive because a step of another        *)
(* process either finds this one where its result is not in a static       *)
(* variable - in its own code, in the function it has called, or with the  *)
(* result in EAX - or makes it disturbed.                                  *)
(*                                                                         *)
(* ListInv says that the list of buffers is one: some sequence of the      *)
(* processes whose buffers are in it that next and first run through, and  *)
(* in which the place a process has found is where it was.  LinesInv is    *)
(* about what is in the buffers; with it the condition input() waits for   *)
(* is that the line is complete.                                           *)
(***************************************************************************)
EXTENDS SystemCall, Keyboard, SequenceTheorems, FiniteSetTheorems,
        WellFoundedInduction, TLAPS

-----------------------------------------------------------------------------
(* The gate. *)

\* The calls that take an argument, or return a result, through a variable.
Takes == DOMAIN ArgumentSlot
Returns == DOMAIN ResultSlot

\* The steps at which a variable of all processes holds the result of one.
Shared == {"fetch", "return"}

CallInv ==
  \A p \in Callers :
    /\ at[p] = "load" => call[p] \in Takes
    /\ at[p] \in {"fetch", "store", "return"} => call[p] \in Returns

OwnInv ==
  \A p \in Callers \ disturbed :
    /\ at[p] \in {"load", "body"} => eax[p] = <<p, "user">>
    /\ at[p] = "fetch" => slot[ResultSlot[call[p]]] = <<p, "result">>
    /\ at[p] = "store" => eax[p] = <<p, "result">>
    /\ at[p] = "return" => return_data = <<p, "result">>
    /\ at[p] = "user" =>
         eax[p] = <<p, IF call[p] \in Returns THEN "result" ELSE "user">>

GateInv == GateTyped /\ CallInv /\ OwnInv

-----------------------------------------------------------------------------

(* The variables that arguments and results go through are static ones of     *)
(* system_call_interrupt.                                                     *)
LEMMA SlotFacts ==
  /\ Takes \subseteq SYSTEM_CALL /\ Returns \subseteq SYSTEM_CALL
  /\ \A c \in Takes : ArgumentSlot[c] \in Slots
  /\ \A c \in Returns : ResultSlot[c] \in Slots
  /\ "PRINT" \in SYSTEM_CALL /\ "PRINT" \notin Returns
BY DEF Takes, Returns, SYSTEM_CALL, ArgumentSlot, ResultSlot, Slots

(* The values of a process are values.                                        *)
LEMMA ValueFacts ==
  \A p \in Callers, k \in {"user", "argument", "result"} : <<p, k>> \in Value
BY DEF Value

(* At the start no process is between two instructions of the gate.           *)
LEMMA GateInitInv == GateInit => GateInv
<1> SUFFICES ASSUME GateInit PROVE GateInv
  OBVIOUS
<1>1. GateTyped
  BY SlotFacts, ValueFacts DEF GateInit, GateTyped, Value
<1>2. CallInv
  BY DEF GateInit, CallInv
<1>3. OwnInv
  BY SlotFacts DEF GateInit, OwnInv
<1>4. QED
  BY <1>1, <1>2, <1>3 DEF GateInv

(* Whoever takes a step disturbs those who are between two instructions.      *)
LEMMA DisturbFacts ==
  ASSUME NEW p \in Callers, GateTyped, Disturb(p)
  PROVE  /\ disturbed' \subseteq Callers
         /\ \A q \in Callers \ disturbed' : q # p =>
              q \notin disturbed /\ at[q] \notin Shared
         /\ p \notin disturbed' => p \notin disturbed \/ at[p] = "user"
BY DEF Disturb, GateTyped, Shared

(* What a process has to show at a step is not changed by others.             *)
LEMMA OthersKept ==
  ASSUME NEW p \in Callers, NEW q \in Callers \ disturbed', q # p, GateInv, Disturb(p),
         at'[q] = at[q], call'[q] = call[q], eax'[q] = eax[q]
  PROVE  /\ at'[q] \notin Shared
         /\ at'[q] \in {"load", "body"} => eax'[q] = <<q, "user">>
         /\ at'[q] = "store" => eax'[q] = <<q, "result">>
         /\ at'[q] = "user" =>
              eax'[q] = <<q, IF call'[q] \in Returns THEN "result" ELSE "user">>
<1>1. q \notin disturbed /\ at[q] \notin Shared
  BY DisturbFacts DEF GateInv
<1>2. QED
  BY <1>1 DEF GateInv, OwnInv

-----------------------------------------------------------------------------
(* One lemma for each step.                                                   *)

LEMMA EnterInv ==
  ASSUME GateInv, NEW p \in Callers, NEW c \in SYSTEM_CALL, Enter(p, c)
  PROVE  GateInv'
<1>1. /\ at[p] = "user"
      /\ call' = [call EXCEPT ![p] = c]
      /\ eax' = [eax EXCEPT ![p] = <<p, "user">>]
      /\ argument' = [argument EXCEPT ![p] = <<p, "argument">>]
      /\ return_data' = return_data
      /\ Disturb(p)
      /\ \/ /\ c \in Takes
            /\ slot' = [slot EXCEPT ![ArgumentSlot[c]] = <<p, "argument">>]
            /\ at' = [at EXCEPT ![p] = "load"]
         \/ slot' = slot /\ at' = [at EXCEPT ![p] = "body"]
  BY DEF Enter, Takes
<1>2. GateTyped'
  <2>1. <<p, "user">> \in Value /\ <<p, "argument">> \in Value
    BY ValueFacts
  <2>2. slot' \in [Slots -> Value]
    BY <1>1, <2>1, SlotFacts DEF GateInv, GateTyped
  <2>3. disturbed' \subseteq Callers
    BY <1>1, DisturbFacts DEF GateInv
  <2>4. QED
    BY <1>1, <2>1, <2>2, <2>3 DEF GateInv, GateTyped
<1>3. CallInv'
  BY <1>1 DEF GateInv, GateTyped, CallInv
<1>4. OwnInv'
  <2> SUFFICES ASSUME NEW q \in Callers \ disturbed' PROVE OwnInv!(q)'
    BY DEF OwnInv
  <2>1. CASE q = p
    BY <1>1, <2>1, SlotFacts DEF GateInv, GateTyped
  <2>2. CASE q # p
    BY <1>1, <2>2, OthersKept DEF GateInv, GateTyped, Shared
  <2>3. QED
    BY <2>1, <2>2
<1>5. QED
  BY <1>2, <1>3, <1>4 DEF GateInv

(* The argument is loaded from the static variable it was assigned to.        *)
LEMMA LoadInv ==
  ASSUME GateInv, NEW p \in Callers, Load(p)
  PROVE  GateInv'
<1>1. GateTyped'
  BY SlotFacts, DisturbFacts DEF Load, GateInv, GateTyped, CallInv
<1>2. CallInv'
  BY DEF Load, GateInv, GateTyped, CallInv
<1>3. OwnInv'
  <2> SUFFICES ASSUME NEW q \in Callers \ disturbed' PROVE OwnInv!(q)'
    BY DEF OwnInv
  <2>1. CASE q = p
    BY <2>1, DisturbFacts DEF Load, GateInv, GateTyped, OwnInv
  <2>2. CASE q # p
    BY <2>2, OthersKept DEF Load, GateInv, GateTyped, Shared
  <2>3. QED
    BY <2>1, <2>2
<1>4. QED
  BY <1>1, <1>2, <1>3 DEF GateInv

(* The function called returns, and its result is assigned.                   *)
LEMMA AssignInv ==
  ASSUME GateInv, NEW p \in Callers, Assign(p)
  PROVE  GateInv'
<1>1. /\ at[p] = "body" /\ Disturb(p)
      /\ UNCHANGED <<return_data, call, argument, eax>>
      /\ \/ /\ call[p] \in Returns
            /\ slot' = [slot EXCEPT ![ResultSlot[call[p]]] = <<p, "result">>]
            /\ at' = [at EXCEPT ![p] = "fetch"]
         \/ /\ call[p] \notin Returns
            /\ slot' = slot /\ at' = [at EXCEPT ![p] = "user"]
  BY DEF Assign, Returns
<1>2. GateTyped'
  <2>1. <<p, "result">> \in Value
    BY ValueFacts
  <2>2. slot' \in [Slots -> Value]
    BY <1>1, <2>1, SlotFacts DEF GateInv, GateTyped
  <2>3. disturbed' \subseteq Callers
    BY <1>1, DisturbFacts DEF GateInv
  <2>4. QED
    BY <1>1, <2>2, <2>3 DEF GateInv, GateTyped
<1>3. CallInv'
  BY <1>1 DEF GateInv, GateTyped, CallInv
<1>4. OwnInv'
  <2> SUFFICES ASSUME NEW q \in Callers \ disturbed' PROVE OwnInv!(q)'
    BY DEF OwnInv
  <2>1. CASE q = p
    BY <1>1, <2>1, SlotFacts, DisturbFacts DEF GateInv, GateTyped, OwnInv
  <2>2. CASE q # p
    BY <1>1, <2>2, OthersKept DEF GateInv, GateTyped, Shared
  <2>3. QED
    BY <2>1, <2>2
<1>5. QED
  BY <1>2, <1>3, <1>4 DEF GateInv

(* The result is moved from its static variable to EAX.                       *)
LEMMA FetchInv ==
  ASSUME GateInv, NEW p \in Callers, Fetch(p)
  PROVE  GateInv'
<1>1. GateTyped'
  BY SlotFacts, DisturbFacts DEF Fetch, GateInv, GateTyped, CallInv
<1>2. CallInv'
  BY DEF Fetch, GateInv, GateTyped, CallInv
<1>3. OwnInv'
  <2> SUFFICES ASSUME NEW q \in Callers \ disturbed' PROVE OwnInv!(q)'
    BY DEF OwnInv
  <2>1. CASE q = p
    BY <2>1, DisturbFacts DEF Fetch, GateInv, GateTyped, OwnInv
  <2>2. CASE q # p
    BY <2>2, OthersKept DEF Fetch, GateInv, GateTyped, Shared
  <2>3. QED
    BY <2>1, <2>2
<1>4. QED
  BY <1>1, <1>2, <1>3 DEF GateInv

(* The result is moved from EAX to return_data.                               *)
LEMMA StoreInv ==
  ASSUME GateInv, NEW p \in Callers, Store(p)
  PROVE  GateInv'
<1>1. GateTyped'
  BY DisturbFacts DEF Store, GateInv, GateTyped
<1>2. CallInv'
  BY DEF Store, GateInv, GateTyped, CallInv
<1>3. OwnInv'
  <2> SUFFICES ASSUME NEW q \in Callers \ disturbed' PROVE OwnInv!(q)'
    BY DEF OwnInv
  <2>1. CASE q = p
    BY <2>1, DisturbFacts DEF Store, GateInv, GateTyped, OwnInv
  <2>2. CASE q # p
    BY <2>2, OthersKept DEF Store, GateInv, GateTyped, Shared
  <2>3. QED
    BY <2>1, <2>2
<1>4. QED
  BY <1>1, <1>2, <1>3 DEF GateInv

(* The result is moved back to EAX, and the program goes on with it.          *)
LEMMA ReturnInv ==
  ASSUME GateInv, NEW p \in Callers, Return(p)
  PROVE  GateInv'
<1>1. GateTyped'
  BY DisturbFacts DEF Return, GateInv, GateTyped
<1>2. CallInv'
  BY DEF Return, GateInv, GateTyped, CallInv
<1>3. OwnInv'
  <2> SUFFICES ASSUME NEW q \in Callers \ disturbed' PROVE OwnInv!(q)'
    BY DEF OwnInv
  <2>1. CASE q = p
    BY <2>1, DisturbFacts DEF Return, GateInv, GateTyped, OwnInv, CallInv
  <2>2. CASE q # p
    BY <2>2, OthersKept DEF Return, GateInv, GateTyped, Shared
  <2>3. QED
    BY <2>1, <2>2
<1>4. QED
  BY <1>1, <1>2, <1>3 DEF GateInv

(* No step of a process ends the invariant of the gate.                       *)
LEMMA GateNextInv == GateInv /\ [GateNext]_gateVars => GateInv'
<1> SUFFICES ASSUME GateInv, [GateNext]_gateVars PROVE GateInv'
  OBVIOUS
<1>1. CASE UNCHANGED gateVars
  BY <1>1 DEF gateVars, GateInv, GateTyped, CallInv, OwnInv
<1>2. ASSUME NEW p \in Callers, NEW c \in SYSTEM_CALL, Enter(p, c) PROVE GateInv'
  BY <1>2, EnterInv
<1>3. ASSUME NEW p \in Callers, Load(p) PROVE GateInv'
  BY <1>3, LoadInv
<1>4. ASSUME NEW p \in Callers, Assign(p) PROVE GateInv'
  BY <1>4, AssignInv
<1>5. ASSUME NEW p \in Callers, Fetch(p) PROVE GateInv'
  BY <1>5, FetchInv
<1>6. ASSUME NEW p \in Callers, Store(p) PROVE GateInv'
  BY <1>6, StoreInv
<1>7. ASSUME NEW p \in Callers, Return(p) PROVE GateInv'
  BY <1>7, ReturnInv
<1>8. QED
  BY <1>1, <1>2, <1>3, <1>4, <1>5, <1>6, <1>7 DEF GateNext

-----------------------------------------------------------------------------

(* The inductive invariant holds in every reachable state of the gate.        *)
THEOREM GateInvariance == GateSpec => []GateInv
BY GateInitInv, GateNextInv, PTL DEF GateSpec

(* A call gets its own result through the static variables if no other        *)
(* process is in the handler while one of them holds it, however long the     *)
(* call takes and whatever the others do while the function it calls runs.    *)
THEOREM ResultsAreOwn == GateSpec => []ResultIsOwn
<1>1. GateInv => ResultIsOwn
  BY DEF GateInv, OwnInv, ResultIsOwn, Returns
<1>2. QED
  BY <1>1, GateInvariance, PTL

-----------------------------------------------------------------------------
(* Sequences without repetitions. *)

(* A part of a sequence.                                                      *)
LEMMA SubSeqFacts ==
  ASSUME NEW S, NEW s \in Seq(S), NEW a \in 1 .. Len(s) + 1, NEW b \in a - 1 .. Len(s)
  PROVE  /\ SubSeq(s, a, b) \in Seq(S)
         /\ Len(SubSeq(s, a, b)) = b - a + 1
         /\ \A i \in 1 .. b - a + 1 : SubSeq(s, a, b)[i] = s[a + i - 1]
<1>1. \A i \in a .. b : s[i] \in S
  BY ElementOfSeq
<1>2. a \in Int /\ b \in Int
  OBVIOUS
<1>3. QED
  BY <1>1, <1>2, SubSeqProperties

(* A sequence without its k-th element.                                       *)
LEMMA RemoveAtFacts ==
  ASSUME NEW S, NEW s \in Seq(S), NEW k \in 1 .. Len(s)
  PROVE  /\ RemoveAt(s, k) \in Seq(S)
         /\ Len(RemoveAt(s, k)) = Len(s) - 1
         /\ \A j \in 1 .. Len(s) - 1 :
              RemoveAt(s, k)[j] = IF j < k THEN s[j] ELSE s[j + 1]
<1> DEFINE front == SubSeq(s, 1, k - 1)
           back == SubSeq(s, k + 1, Len(s))
<1>1. /\ front \in Seq(S) /\ Len(front) = k - 1
      /\ \A i \in 1 .. k - 1 : front[i] = s[i]
  <2>1. 1 \in 1 .. Len(s) + 1 /\ k - 1 \in 1 - 1 .. Len(s)
    OBVIOUS
  <2>2. /\ front \in Seq(S) /\ Len(front) = (k - 1) - 1 + 1
        /\ \A i \in 1 .. (k - 1) - 1 + 1 : front[i] = s[1 + i - 1]
    BY <2>1, SubSeqFacts
  <2> HIDE DEF front
  <2>3. QED
    BY <2>2
<1>2. /\ back \in Seq(S) /\ Len(back) = Len(s) - k
      /\ \A i \in 1 .. Len(s) - k : back[i] = s[k + i]
  <2>1. k + 1 \in 1 .. Len(s) + 1 /\ Len(s) \in (k + 1) - 1 .. Len(s)
    OBVIOUS
  <2>2. /\ back \in Seq(S) /\ Len(back) = Len(s) - (k + 1) + 1
        /\ \A i \in 1 .. Len(s) - (k + 1) + 1 : back[i] = s[(k + 1) + i - 1]
    BY <2>1, SubSeqFacts
  <2> HIDE DEF back
  <2>3. QED
    BY <2>2
<1>3. RemoveAt(s, k) = front \o back
  BY DEF RemoveAt
<1> HIDE DEF front, back
<1>4. /\ front \o back \in Seq(S) /\ Len(front \o back) = Len(front) + Len(back)
      /\ \A i \in 1 .. Len(front) + Len(back) :
           (front \o back)[i] = IF i <= Len(front) THEN front[i] ELSE back[i - Len(front)]
  BY <1>1, <1>2, ConcatProperties
<1>5. Len(s) \in Nat /\ k \in 1 .. Len(s)
  OBVIOUS
<1>6. ASSUME NEW j \in 1 .. Len(s) - 1
      PROVE  (front \o back)[j] = IF j < k THEN s[j] ELSE s[j + 1]
  <2>0. /\ Len(front) = k - 1 /\ Len(back) = Len(s) - k
        /\ Len(front) + Len(back) = Len(s) - 1
    BY <1>1, <1>2, <1>5
  <2>1. (front \o back)[j] = IF j <= k - 1 THEN front[j] ELSE back[j - (k - 1)]
    BY <2>0, <1>4
  <2>2. CASE j < k
    BY <2>1, <2>2, <1>1, <1>5
  <2>3. CASE ~(j < k)
    <3>1. j - (k - 1) \in 1 .. Len(s) - k /\ k + (j - (k - 1)) = j + 1 /\ ~(j <= k - 1)
      BY <2>3, <1>5
    <3>2. QED
      BY <3>1, <2>1, <2>3, <1>2
  <2>4. QED
    BY <2>2, <2>3
<1>7. QED
  BY <1>1, <1>2, <1>3, <1>4, <1>5, <1>6

\* No element is there twice.
Unrepeated(s) == \A i, j \in 1 .. Len(s) : s[i] = s[j] => i = j

(* Without one of its elements.                                               *)
LEMMA RemovedIs ==
  ASSUME NEW S, NEW s \in Seq(S), NEW k \in 1 .. Len(s), Unrepeated(s)
  PROVE  /\ Unrepeated(RemoveAt(s, k))
         /\ ToSet(RemoveAt(s, k)) = ToSet(s) \ {s[k]}
<1> DEFINE n == Len(s)
           t == RemoveAt(s, k)
<1>1. /\ t \in Seq(S) /\ Len(t) = n - 1
      /\ \A i \in 1 .. n - 1 : t[i] = IF i < k THEN s[i] ELSE s[i + 1]
  BY RemoveAtFacts
<1> HIDE DEF t
<1>2. n \in Nat /\ k \in 1 .. n /\ DOMAIN s = 1 .. n /\ DOMAIN t = 1 .. n - 1
  BY <1>1
<1>3. \A i, j \in 1 .. n : s[i] = s[j] => i = j
  BY DEF Unrepeated
<1> HIDE DEF n
<1>4. \A i \in 1 .. n - 1 : (i < k => i \in 1 .. n) /\ i + 1 \in 1 .. n
  BY <1>2
<1>5. ASSUME NEW i \in 1 .. n - 1, NEW j \in 1 .. n - 1, t[i] = t[j]
      PROVE  i = j
  <2> DEFINE In(x) == IF x < k THEN x ELSE x + 1
  <2>1. In(i) \in 1 .. n /\ In(j) \in 1 .. n /\ t[i] = s[In(i)] /\ t[j] = s[In(j)]
    BY <1>1, <1>4
  <2>2. In(i) = In(j)
    BY <1>3, <1>5, <2>1
  <2>3. QED
    BY <1>2, <2>2
<1>6. ASSUME NEW i \in 1 .. n - 1 PROVE t[i] \in ToSet(s) \ {s[k]}
  <2>1. PICK j \in 1 .. n : j # k /\ t[i] = s[j]
    <3>1. CASE i < k
      <4>1. i \in 1 .. n /\ i # k
        BY <1>4, <3>1
      <4>2. QED
        BY <1>1, <3>1, <4>1
    <3>2. CASE ~(i < k)
      <4>1. i + 1 \in 1 .. n /\ i + 1 # k
        BY <1>2, <1>4, <3>2
      <4>2. QED
        BY <1>1, <3>2, <4>1
    <3>3. QED
      BY <3>1, <3>2
  <2>2. QED
    BY <1>2, <1>3, <2>1 DEF ToSet
<1>7. ASSUME NEW j \in 1 .. n, s[j] # s[k] PROVE s[j] \in ToSet(t)
  <2>1. CASE j < k
    <3>1. j \in 1 .. n - 1
      BY <1>2, <2>1
    <3>2. QED
      BY <1>1, <1>2, <2>1, <3>1 DEF ToSet
  <2>2. CASE j > k
    <3>1. j - 1 \in 1 .. n - 1 /\ ~(j - 1 < k) /\ j - 1 + 1 = j
      BY <1>2, <2>2
    <3>2. t[j - 1] = s[j]
      BY <1>1, <3>1
    <3>3. QED
      BY <1>2, <3>1, <3>2 DEF ToSet
  <2>3. j < k \/ j > k
    BY <1>2, <1>7
  <2>4. QED
    BY <2>1, <2>2, <2>3
<1>8. ToSet(t) = ToSet(s) \ {s[k]}
  <2>1. \A x \in ToSet(t) : x \in ToSet(s) \ {s[k]}
    BY <1>2, <1>6 DEF ToSet
  <2>2. \A x \in ToSet(s) \ {s[k]} : x \in ToSet(t)
    BY <1>2, <1>7 DEF ToSet
  <2>3. QED
    BY <2>1, <2>2
<1>9. QED
  BY <1>1, <1>5, <1>8 DEF Unrepeated, t

(* With a new element.                                                        *)
LEMMA AppendedIs ==
  ASSUME NEW S, NEW s \in Seq(S), NEW x \in S, x \notin ToSet(s), Unrepeated(s)
  PROVE  /\ Unrepeated(Append(s, x))
         /\ ToSet(Append(s, x)) = ToSet(s) \cup {x}
<1> DEFINE n == Len(s)
           t == Append(s, x)
<1>1. /\ t \in Seq(S) /\ Len(t) = n + 1 /\ n \in Nat
      /\ t[n + 1] = x /\ \A i \in 1 .. n : t[i] = s[i]
  BY AppendProperties
<1>2. DOMAIN s = 1 .. n /\ DOMAIN t = 1 .. n + 1
  BY <1>1
<1> HIDE DEF t
<1>3. \A i \in 1 .. n : s[i] # x
  BY <1>2 DEF ToSet
<1>4. ASSUME NEW i \in 1 .. n + 1, NEW j \in 1 .. n + 1, t[i] = t[j]
      PROVE  i = j
  <2>1. i \in 1 .. n \/ i = n + 1
    BY <1>1
  <2>2. j \in 1 .. n \/ j = n + 1
    BY <1>1
  <2>3. QED
    BY <1>1, <1>3, <1>4, <2>1, <2>2 DEF Unrepeated
<1>5. ToSet(t) = ToSet(s) \cup {x}
  BY <1>1, <1>2 DEF ToSet
<1>6. QED
  BY <1>1, <1>4, <1>5 DEF Unrepeated, t

-----------------------------------------------------------------------------
(* The list of buffers. *)

(* A non-empty set of natural numbers has a least element.                    *)
LEMMA LeastExists ==
  ASSUME NEW T \in SUBSET Nat, T # {}
  PROVE  \E x \in T : \A y \in T : x <= y
<1> DEFINE Less == {ss \in Nat \X Nat : ss[1] < ss[2]}
<1>1. IsWellFoundedOn(Less, Nat)
  BY NatLessThanWellFounded, Zenon DEF OpToRel
<1>2. PICK x \in T : \A y \in T : ~(<<y, x>> \in Less)
  <2> HIDE DEF Less
  <2> QED
    BY <1>1, WFMin, Zenon
<1>3. \A y \in T : x <= y
  <2> SUFFICES ASSUME NEW y \in T PROVE x <= y
    OBVIOUS
  <2>1. <<y, x>> \in Nat \X Nat /\ ~(<<y, x>> \in Less)
    BY <1>2
  <2>2. ~(<<y, x>>[1] < <<y, x>>[2])
    BY <2>1
  <2>3. QED
    BY <2>2
<1>4. QED
  BY <1>3

(* What holds of 0, and of each number if of the one before, holds of all.     *)
LEMMA UpTo ==
  ASSUME NEW n \in Nat, NEW S \in SUBSET (0 .. n), 0 \in S,
         \A i \in 1 .. n : i - 1 \in S => i \in S
  PROVE  S = 0 .. n
<1> DEFINE T == (0 .. n) \ S
<1> SUFFICES ASSUME T # {} PROVE FALSE
  OBVIOUS
<1>1. T \in SUBSET Nat
  OBVIOUS
<1>2. PICK x \in T : \A y \in T : x <= y
  <2> HIDE DEF T
  <2>1. QED
    BY <1>1, LeastExists
<1>3. x \in 1 .. n /\ x - 1 \in 0 .. n /\ ~(x <= x - 1)
  OBVIOUS
<1>4. x - 1 \in S
  BY <1>2, <1>3
<1>5. QED
  BY <1>3, <1>4

\* The processes whose buffers are in the list.
Held == {p \in Procs : step[p] \in {"wait", "remove", "unlink"}}

\* first and next run through s.
Chain(s) ==
  /\ Unrepeated(s)
  /\ first = IF s = <<>> THEN NULL ELSE s[1]
  /\ \A i \in 1 .. Len(s) : next[s[i]] = IF i = Len(s) THEN NULL ELSE s[i + 1]

\* What was found in the list is where it was found.
PlacesRight(s) ==
  /\ \A p \in Procs :
       step[p] = "link" => place[p] = IF s = <<>> THEN NULL ELSE s[Len(s)]
  /\ \A i \in 1 .. Len(s) :
       step[s[i]] = "unlink" => place[s[i]] = IF i = 1 THEN s[i] ELSE s[i - 1]

IsList(s) ==
  /\ Chain(s)
  /\ ToSet(s) = Held
  /\ length = Len(s)
  /\ PlacesRight(s)

ListTyped ==
  /\ first \in Procs \cup {NULL}
  /\ next \in [Procs -> Procs \cup {NULL}]
  /\ place \in [Procs -> Procs \cup {NULL}]
  /\ step \in [Procs -> {"user", "add", "link", "wait", "remove", "unlink"}]

\* One process at a time is in an operation on the list.
OneChanges ==
  \A p, q \in Procs :
    step[p] \in {"link", "unlink"} /\ step[q] \in {"link", "unlink"} => p = q

\* A node that is put into the list is the last one.
NewIsLast == \A p \in Procs : step[p] \in {"add", "link"} => next[p] = NULL

ListInv == ListTyped /\ OneChanges /\ NewIsLast /\ \E s \in Seq(Procs) : IsList(s)

(* A list is not longer than there are processes.                             *)
LEMMA ShortEnough ==
  ASSUME NEW s \in Seq(Procs), Unrepeated(s)
  PROVE  Cardinality(Procs) \in Nat /\ Len(s) \in Nat /\ Len(s) <= Cardinality(Procs)
<1> DEFINE n == Cardinality(Procs)
<1>1. IsFiniteSet(Procs)
  BY ProcsAssumption
<1>2. n \in Nat
  BY <1>1, FS_CardinalityType
<1>3. s \in Injection(1 .. Len(s), Procs)
  <2>1. s \in [1 .. Len(s) -> Procs]
    OBVIOUS
  <2>2. QED
    BY <2>1 DEF Unrepeated, Injection, IsInjective
<1>4. Cardinality(1 .. Len(s)) <= n
  BY <1>1, <1>3, FS_Injection
<1>5. Cardinality(1 .. Len(s)) = Len(s)
  <2>1. Len(s) \in Nat
    OBVIOUS
  <2>2. Cardinality(1 .. Len(s)) = IF 1 > Len(s) THEN 0 ELSE Len(s) - 1 + 1
    BY <2>1, FS_Interval
  <2>3. QED
    BY <2>1, <2>2
<1>6. QED
  BY <1>2, <1>4, <1>5

(* The loops that go through the list find its nodes, and all of them.        *)
LEMMA ListedIs ==
  ASSUME ListTyped, NEW s \in Seq(Procs), Chain(s)
  PROVE  Listed = ToSet(s)
<1> DEFINE n == Cardinality(Procs)
           Part(k) == {s[i] : i \in {j \in 1 .. Len(s) : j <= k + 1}}
           After(X) == X \cup ({next[p] : p \in X} \ {NULL})
           Is(f) == f = [k \in 0 .. n |-> IF k = 0 THEN {first} \ {NULL}
                           ELSE f[k - 1] \cup ({next[p] : p \in f[k - 1]} \ {NULL})]
<1>1. n \in Nat /\ Len(s) \in Nat /\ Len(s) <= n
  BY ShortEnough DEF Chain
<1>2. \A i \in 1 .. Len(s) : s[i] \in Procs /\ s[i] # NULL
  BY NULLAssumption
<1>3. Part(0) = {first} \ {NULL}
  <2>1. CASE s = <<>>
    BY <2>1 DEF Chain
  <2>2. CASE s # <<>>
    <3>1. 1 \in 1 .. Len(s)
      BY <2>2
    <3>2. first = s[1] /\ first # NULL
      BY <1>2, <2>2, <3>1 DEF Chain
    <3>3. {j \in 1 .. Len(s) : j <= 0 + 1} = {1}
      BY <3>1
    <3>4. QED
      BY <3>2, <3>3
  <2>3. QED
    BY <2>1, <2>2
<1>4. ASSUME NEW k \in 1 .. n PROVE Part(k) = After(Part(k - 1))
  <2>1. Part(k) \subseteq After(Part(k - 1))
    <3> SUFFICES ASSUME NEW i \in 1 .. Len(s), i <= k + 1
                 PROVE  s[i] \in After(Part(k - 1))
      OBVIOUS
    <3>1. CASE i <= k
      <4>1. i <= k - 1 + 1
        BY <3>1
      <4>2. s[i] \in Part(k - 1)
        BY <4>1
      <4>3. QED
        BY <4>2
    <3>2. CASE i = k + 1
      <4>1. i - 1 \in 1 .. Len(s) /\ i - 1 <= k - 1 + 1 /\ i - 1 # Len(s)
        BY <1>1, <3>2
      <4>2. s[i - 1] \in Part(k - 1)
        BY <4>1
      <4>3. next[s[i - 1]] = s[i - 1 + 1] /\ i - 1 + 1 = i
        BY <1>1, <4>1 DEF Chain
      <4>4. QED
        BY <1>2, <4>2, <4>3
    <3>3. i <= k \/ i = k + 1
      BY <1>1
    <3>4. QED
      BY <3>1, <3>2, <3>3
  <2>2. Part(k - 1) \subseteq Part(k)
    OBVIOUS
  <2>3. ASSUME NEW p \in Part(k - 1), next[p] # NULL PROVE next[p] \in Part(k)
    <3>1. PICK i \in 1 .. Len(s) : i <= k - 1 + 1 /\ p = s[i]
      OBVIOUS
    <3>2. i # Len(s) /\ next[p] = s[i + 1]
      BY <2>3, <3>1 DEF Chain
    <3>3. i + 1 \in 1 .. Len(s) /\ i + 1 <= k + 1
      BY <1>1, <3>1, <3>2
    <3>4. QED
      BY <3>2, <3>3
  <2>4. QED
    BY <2>1, <2>2, <2>3
<1>5. Part(n) = ToSet(s)
  <2>1. {j \in 1 .. Len(s) : j <= n + 1} = 1 .. Len(s)
    BY <1>1
  <2>2. DOMAIN s = 1 .. Len(s)
    OBVIOUS
  <2>3. QED
    BY <2>1, <2>2 DEF ToSet
<1> DEFINE g == [k \in 0 .. n |-> Part(k)]
<1>6. Is(g)
  <2> HIDE DEF Part
  <2>1. ASSUME NEW k \in 0 .. n
        PROVE  g[k] = IF k = 0 THEN {first} \ {NULL}
                      ELSE g[k - 1] \cup ({next[p] : p \in g[k - 1]} \ {NULL})
    <3>1. CASE k = 0
      BY <1>3, <3>1
    <3>2. CASE k # 0
      <4>1. k \in 1 .. n /\ k - 1 \in 0 .. n
        BY <1>1, <3>2
      <4>2. g[k] = After(g[k - 1])
        BY <1>4, <4>1
      <4>3. QED
        BY <3>2, <4>2
    <3>3. QED
      BY <3>1, <3>2
  <2>2. DOMAIN g = 0 .. n
    OBVIOUS
  <2> HIDE DEF g
  <2>3. QED
    BY <2>1, <2>2 DEF g
<1>7. Listed = (CHOOSE f : Is(f))[n]
  BY DEF Listed
<1>8. PICK h : Is(h) /\ Listed = h[n]
  <2> HIDE DEF Is
  <2>1. Is(CHOOSE f : Is(f))
    BY <1>6, Zenon
  <2>2. QED
    BY <1>7, <2>1
<1>9. ASSUME NEW k \in 0 .. n
      PROVE  h[k] = IF k = 0 THEN {first} \ {NULL} ELSE After(h[k - 1])
  BY <1>8
<1>10. h[n] = Part(n)
  <2> DEFINE S == {k \in 0 .. n : h[k] = Part(k)}
  <2> HIDE DEF Part, After
  <2>1. S \in SUBSET (0 .. n) /\ 0 \in S
    <3>1. 0 \in 0 .. n
      BY <1>1
    <3>2. h[0] = Part(0)
      BY <1>3, <1>9, <3>1
    <3>3. QED
      BY <3>1, <3>2
  <2>2. ASSUME NEW k \in 1 .. n, k - 1 \in S PROVE k \in S
    <3>1. h[k - 1] = Part(k - 1) /\ k \in 0 .. n /\ k # 0
      BY <1>1, <2>2
    <3>2. h[k] = After(h[k - 1])
      BY <1>9, <3>1
    <3>3. QED
      BY <1>4, <3>1, <3>2
  <2> HIDE DEF S
  <2>3. S = 0 .. n
    BY <1>1, <2>1, <2>2, UpTo
  <2>4. n \in S
    BY <1>1, <2>3
  <2>5. QED
    BY <2>4 DEF S
<1>11. QED
  BY <1>5, <1>8, <1>10


(* A process is in the list, once, or not.                                    *)
LEMMA Members ==
  ASSUME NEW s \in Seq(Procs), IsList(s)
  PROVE  /\ \A i \in 1 .. Len(s) :
              s[i] \in Procs /\ s[i] # NULL /\ step[s[i]] \in {"wait", "remove", "unlink"}
         /\ \A p \in Procs : step[p] \in {"wait", "remove", "unlink"} =>
              \E i \in 1 .. Len(s) : p = s[i]
<1>1. DOMAIN s = 1 .. Len(s) /\ \A i \in 1 .. Len(s) : s[i] \in Procs
  OBVIOUS
<1>2. ToSet(s) = Held
  BY DEF IsList
<1>3. QED
  BY <1>1, <1>2, NULLAssumption DEF ToSet, Held

(* The list is empty at first.                                                *)
LEMMA InitList == Init => ListInv
<1> SUFFICES ASSUME Init PROVE ListInv
  OBVIOUS
<1>1. ListTyped /\ OneChanges /\ NewIsLast
  BY DEF Init, ListTyped, OneChanges, NewIsLast
<1>2. IsList(<<>>)
  <2>1. Len(<<>>) = 0 /\ 1 .. 0 = {} /\ DOMAIN <<>> = {}
    OBVIOUS
  <2>2. Held = {}
    BY DEF Init, Held
  <2>3. ToSet(<<>>) = {}
    BY <2>1 DEF ToSet
  <2>4. QED
    BY <2>1, <2>2, <2>3 DEF Init, IsList, Chain, Unrepeated, PlacesRight
<1>3. <<>> \in Seq(Procs)
  OBVIOUS
<1>4. QED
  BY <1>1, <1>2, <1>3 DEF ListInv

(* The interrupt handler leaves the list alone.                               *)
LEMMA HandlerKeepsList ==
  ASSUME ListInv, UNCHANGED <<listVars, step>>
  PROVE  ListInv'
<1>1. first' = first /\ next' = next /\ length' = length /\ place' = place /\ step' = step
  BY DEF listVars
<1>2. PICK s \in Seq(Procs) : IsList(s)
  BY DEF ListInv
<1>3. IsList(s)'
  BY <1>1, <1>2 DEF IsList, Chain, Unrepeated, PlacesRight, Held
<1>4. ListTyped' /\ OneChanges' /\ NewIsLast'
  BY <1>1 DEF ListInv, ListTyped, OneChanges, NewIsLast
<1>5. QED
  BY <1>3, <1>4 DEF ListInv

(* A buffer that is made is not in the list yet.                              *)
LEMMA InputKeepsList ==
  ASSUME ListInv, NEW p \in Procs, input(p)
  PROVE  ListInv'
<1>1. /\ step[p] = "user" /\ step' = [step EXCEPT ![p] = "add"]
      /\ next' = [next EXCEPT ![p] = NULL]
      /\ first' = first /\ length' = length /\ place' = place
  BY DEF input
<1>2. ListTyped' /\ OneChanges' /\ NewIsLast'
  BY <1>1 DEF ListInv, ListTyped, OneChanges, NewIsLast
<1>3. PICK s \in Seq(Procs) : IsList(s)
  BY DEF ListInv
<1>4. \A i \in 1 .. Len(s) : s[i] \in Procs \ {p}
  BY <1>1, <1>3, Members
<1>5. Chain(s)'
  BY <1>1, <1>3, <1>4 DEF IsList, Chain, Unrepeated, ListInv, ListTyped
<1>6. Held' = Held
  BY <1>1 DEF Held, ListInv, ListTyped
<1>7. PlacesRight(s)'
  BY <1>1, <1>3, <1>4 DEF IsList, PlacesRight, ListInv, ListTyped
<1>8. QED
  BY <1>1, <1>2, <1>3, <1>5, <1>6, <1>7 DEF ListInv, IsList

(* A process that has got its line is still in the list.                      *)
LEMMA WakeKeepsList ==
  ASSUME ListInv, NEW p \in Procs, Wake(p)
  PROVE  ListInv'
<1>1. /\ step[p] = "wait" /\ step' = [step EXCEPT ![p] = "remove"]
      /\ first' = first /\ next' = next /\ length' = length /\ place' = place
  BY DEF Wake, listVars
<1>2. ListTyped' /\ OneChanges' /\ NewIsLast'
  BY <1>1 DEF ListInv, ListTyped, OneChanges, NewIsLast
<1>3. PICK s \in Seq(Procs) : IsList(s)
  BY DEF ListInv
<1>4. Chain(s)'
  BY <1>1, <1>3 DEF IsList, Chain, Unrepeated
<1>5. Held' = Held
  BY <1>1 DEF Held, ListInv, ListTyped
<1>6. PlacesRight(s)'
  <2>1. \A i \in 1 .. Len(s) : s[i] \in Procs
    BY <1>3, Members
  <2>2. QED
    BY <1>1, <1>3, <2>1 DEF IsList, PlacesRight, ListInv, ListTyped
<1>7. QED
  BY <1>1, <1>2, <1>3, <1>4, <1>5, <1>6 DEF ListInv, IsList

(* Nobody else has found a place when one is looked for.                      *)
LEMMA AloneChanges ==
  ASSUME ATOMIC, ListTyped, NEW p \in Procs, Alone(p), NEW x,
         x \in {"link", "unlink"}, step' = [step EXCEPT ![p] = x]
  PROVE  OneChanges'
BY DEF Alone, OneChanges, ListTyped

(* The last node is found.                                                    *)
LEMMA FindLastKeepsList ==
  ASSUME ATOMIC, ListInv, NEW p \in Procs, FindLast(p)
  PROVE  ListInv'
<1>1. /\ step[p] = "add" /\ step' = [step EXCEPT ![p] = "link"]
      /\ first' = first /\ next' = next /\ length' = length
      /\ Alone(p)
  BY DEF FindLast
<1>2. PICK s \in Seq(Procs) : IsList(s)
  BY DEF ListInv
<1>3. \A i \in 1 .. Len(s) : s[i] \in Procs \ {p, NULL}
  BY <1>1, <1>2, Members
<1>4. place' = [place EXCEPT ![p] = IF s = <<>> THEN NULL ELSE s[Len(s)]]
  <2>1. CASE s = <<>>
    BY <1>2, <2>1 DEF FindLast, IsList, Chain
  <2>2. CASE s # <<>>
    <3>1. 1 \in 1 .. Len(s) /\ first # NULL
      BY <1>2, <1>3, <2>2 DEF IsList, Chain, Unrepeated
    <3>2. PICK q \in Listed : next[q] = NULL /\ place' = [place EXCEPT ![p] = q]
      BY <3>1 DEF FindLast
    <3>3. PICK i \in 1 .. Len(s) : q = s[i]
      <4>1. q \in ToSet(s) /\ DOMAIN s = 1 .. Len(s)
        BY <1>2, <3>2, ListedIs DEF ListInv, IsList
      <4>2. QED
        BY <4>1 DEF ToSet
    <3>4. i # Len(s) => i + 1 \in 1 .. Len(s)
      OBVIOUS
    <3>5. i = Len(s)
      BY <1>2, <1>3, <3>2, <3>3, <3>4 DEF IsList, Chain, Unrepeated
    <3>6. QED
      BY <2>2, <3>2, <3>3, <3>5
  <2>3. QED
    BY <2>1, <2>2
<1>5. (IF s = <<>> THEN NULL ELSE s[Len(s)]) \in Procs \cup {NULL}
  <2>1. s # <<>> => Len(s) \in 1 .. Len(s)
    OBVIOUS
  <2>2. QED
    BY <1>3, <2>1
<1>6. ListTyped' /\ NewIsLast'
  <2>1. step' \in [Procs -> {"user", "add", "link", "wait", "remove", "unlink"}]
    BY <1>1 DEF ListInv, ListTyped
  <2>2. place' \in [Procs -> Procs \cup {NULL}]
    BY <1>4, <1>5 DEF ListInv, ListTyped
  <2>3. QED
    BY <1>1, <2>1, <2>2 DEF ListInv, ListTyped, NewIsLast
<1>7. OneChanges'
  BY <1>1, AloneChanges DEF ListInv
<1>8. Chain(s)'
  BY <1>1, <1>2 DEF IsList, Chain, Unrepeated
<1>9. Held' = Held
  BY <1>1 DEF Held, ListInv, ListTyped
<1>10. PlacesRight(s)'
  <2>1. ASSUME NEW q \in Procs, step'[q] = "link"
        PROVE  place'[q] = IF s = <<>> THEN NULL ELSE s[Len(s)]
    <3>1. q = p
      BY <1>1, <1>7, <2>1 DEF ListInv, ListTyped, OneChanges
    <3>2. QED
      BY <1>4, <3>1 DEF ListInv, ListTyped
  <2>2. ASSUME NEW i \in 1 .. Len(s), step'[s[i]] = "unlink"
        PROVE  FALSE
    BY <1>1, <1>3, <1>7, <2>2 DEF ListInv, ListTyped, OneChanges
  <2>3. QED
    BY <2>1, <2>2 DEF PlacesRight
<1>11. QED
  BY <1>1, <1>2, <1>6, <1>7, <1>8, <1>9, <1>10 DEF ListInv, IsList

(* The node before is found.                                                  *)
LEMMA FindPreviousKeepsList ==
  ASSUME ATOMIC, ListInv, NEW p \in Procs, FindPrevious(p)
  PROVE  ListInv'
<1>1. /\ step[p] = "remove" /\ step' = [step EXCEPT ![p] = "unlink"]
      /\ first' = first /\ next' = next /\ length' = length
      /\ Alone(p)
  BY DEF FindPrevious
<1>2. PICK s \in Seq(Procs) : IsList(s)
  BY DEF ListInv
<1>3. \A i \in 1 .. Len(s) : s[i] \in Procs \ {NULL}
  BY <1>2, Members
<1>4. PICK k \in 1 .. Len(s) : p = s[k]
  BY <1>1, <1>2, Members
<1>5. Listed = ToSet(s) /\ DOMAIN s = 1 .. Len(s) /\ length = Len(s) /\ Len(s) # 0
  BY <1>2, <1>4, ListedIs DEF ListInv, IsList
<1>6. p \in Listed
  BY <1>4, <1>5 DEF ToSet
<1>7. first = s[1] /\ 1 \in 1 .. Len(s)
  BY <1>2, <1>4 DEF IsList, Chain, Unrepeated
<1>8. place' = [place EXCEPT ![p] = IF k = 1 THEN s[k] ELSE s[k - 1]]
  <2>1. CASE first = p
    <3>1. k = 1
      BY <1>2, <1>4, <1>7, <2>1 DEF IsList, Chain, Unrepeated
    <3>2. QED
      BY <1>4, <1>5, <1>6, <2>1, <3>1 DEF FindPrevious
  <2>2. CASE first # p
    <3>1. k # 1
      BY <1>4, <1>7, <2>2
    <3>2. PICK q \in Listed : next[q] = p /\ place' = [place EXCEPT ![p] = q]
      BY <1>5, <1>6, <2>2 DEF FindPrevious
    <3>3. PICK i \in 1 .. Len(s) : q = s[i]
      BY <1>5, <3>2 DEF ToSet
    <3>4. i # Len(s) /\ p = s[i + 1]
      BY <1>2, <1>3, <1>4, <3>2, <3>3 DEF IsList, Chain, Unrepeated
    <3>5. i + 1 = k
      <4>1. i + 1 \in 1 .. Len(s)
        BY <3>4
      <4>2. QED
        BY <1>2, <1>4, <3>4, <4>1 DEF IsList, Chain, Unrepeated
    <3>6. i = k - 1
      BY <3>5
    <3>7. QED
      BY <3>1, <3>2, <3>3, <3>6
  <2>3. QED
    BY <2>1, <2>2
<1>9. (IF k = 1 THEN s[k] ELSE s[k - 1]) \in Procs
  <2>1. k # 1 => k - 1 \in 1 .. Len(s)
    OBVIOUS
  <2>2. QED
    BY <1>3, <2>1
<1>10. ListTyped' /\ NewIsLast'
  <2>1. step' \in [Procs -> {"user", "add", "link", "wait", "remove", "unlink"}]
    BY <1>1 DEF ListInv, ListTyped
  <2>2. place' \in [Procs -> Procs \cup {NULL}]
    BY <1>8, <1>9 DEF ListInv, ListTyped
  <2>3. QED
    BY <1>1, <2>1, <2>2 DEF ListInv, ListTyped, NewIsLast
<1>11. OneChanges'
  BY <1>1, AloneChanges DEF ListInv
<1>12. Chain(s)'
  BY <1>1, <1>2 DEF IsList, Chain, Unrepeated
<1>13. Held' = Held
  BY <1>1 DEF Held, ListInv, ListTyped
<1>14. PlacesRight(s)'
  <2>1. ASSUME NEW q \in Procs, step'[q] = "link"
        PROVE  FALSE
    BY <1>1, <1>11, <2>1 DEF ListInv, ListTyped, OneChanges
  <2>2. ASSUME NEW i \in 1 .. Len(s), step'[s[i]] = "unlink"
        PROVE  place'[s[i]] = IF i = 1 THEN s[i] ELSE s[i - 1]
    <3>1. s[i] = p
      BY <1>1, <1>3, <1>11, <2>2 DEF ListInv, ListTyped, OneChanges
    <3>2. i = k
      BY <1>2, <1>4, <3>1 DEF IsList, Chain, Unrepeated
    <3>3. place'[p] = IF k = 1 THEN s[k] ELSE s[k - 1]
      BY <1>8 DEF ListInv, ListTyped
    <3>4. QED
      BY <1>4, <3>2, <3>3
  <2>3. QED
    BY <2>1, <2>2 DEF PlacesRight
<1>15. QED
  BY <1>1, <1>2, <1>10, <1>11, <1>12, <1>13, <1>14 DEF ListInv, IsList

(* Nobody has found a place when the list has just been changed.              *)
LEMMA NobodyChanges ==
  ASSUME ListInv, NEW p \in Procs, step[p] \in {"link", "unlink"}, NEW x,
         x \in {"wait", "user"}, step' = [step EXCEPT ![p] = x]
  PROVE  \A q \in Procs : step'[q] \notin {"link", "unlink"}
BY DEF ListInv, ListTyped, OneChanges

(* The new node comes behind the last one.                                    *)
LEMMA LinkKeepsList ==
  ASSUME ListInv, NEW p \in Procs, Link(p)
  PROVE  ListInv'
<1>1. /\ step[p] = "link" /\ step' = [step EXCEPT ![p] = "wait"]
      /\ place' = place
  BY DEF Link
<1>2. PICK s \in Seq(Procs) : IsList(s)
  BY DEF ListInv
<1>3. \A i \in 1 .. Len(s) : s[i] \in Procs \ {p, NULL}
  BY <1>1, <1>2, Members
<1>4. place[p] = IF s = <<>> THEN NULL ELSE s[Len(s)]
  BY <1>1, <1>2 DEF IsList, PlacesRight
<1>5. \A q \in Procs : step'[q] \notin {"link", "unlink"}
  BY <1>1, NobodyChanges
<1>6. next[p] = NULL
  BY <1>1 DEF ListInv, NewIsLast
<1> DEFINE t == Append(s, p)
           n == Len(s)
<1>7. /\ t \in Seq(Procs) /\ Len(t) = n + 1 /\ n \in Nat /\ t # <<>>
      /\ t[n + 1] = p /\ \A i \in 1 .. n : t[i] = s[i]
  OBVIOUS
<1>8. DOMAIN s = 1 .. n /\ DOMAIN t = 1 .. n + 1
  BY <1>7
<1> HIDE DEF t
<1>9. Unrepeated(t) /\ ToSet(t) = ToSet(s) \cup {p}
  <2>1. p \notin ToSet(s)
    BY <1>3, <1>8 DEF ToSet
  <2>2. QED
    BY <1>2, <2>1, AppendedIs DEF IsList, Chain, t
<1>10. Held' = Held \cup {p}
  BY <1>1 DEF Held, ListInv, ListTyped
<1>11. /\ length' = n + 1
       /\ first' = t[1]
       /\ next' \in [Procs -> Procs \cup {NULL}]
       /\ \A q \in Procs : next'[q] = IF n # 0 /\ q = s[n] THEN p ELSE next[q]
  <2>1. CASE s = <<>>
    <3>1. n = 0
      BY <2>1
    <3>2. place[p] = NULL
      BY <1>4, <2>1
    <3>3. QED
      BY <1>7, <3>1, <3>2 DEF Link, ListInv, ListTyped
  <2>2. CASE s # <<>>
    <3>1. n \in 1 .. n /\ 1 \in 1 .. n /\ n # 0
      BY <2>2
    <3>2. place[p] = s[n] /\ s[n] \in Procs /\ place[p] # NULL
      BY <1>3, <1>4, <2>2, <3>1
    <3>3. next' = [next EXCEPT ![s[n]] = p] /\ length' = length + 1 /\ first' = first
      BY <3>2 DEF Link
    <3>4. first = s[1] /\ length = n
      BY <1>2, <2>2 DEF IsList, Chain
    <3>5. QED
      BY <1>7, <3>1, <3>2, <3>3, <3>4 DEF ListInv, ListTyped
  <2>3. QED
    BY <2>1, <2>2
<1>12. ListTyped'
  <2>1. step' \in [Procs -> {"user", "add", "link", "wait", "remove", "unlink"}]
    BY <1>1 DEF ListInv, ListTyped
  <2>2. t[1] \in Procs
    BY <1>7
  <2>3. QED
    BY <1>1, <1>11, <2>1, <2>2 DEF ListInv, ListTyped
<1>13. OneChanges'
  BY <1>5 DEF OneChanges
<1>14. NewIsLast'
  <2> SUFFICES ASSUME NEW q \in Procs, step'[q] = "add" PROVE next'[q] = NULL
    BY <1>5 DEF NewIsLast
  <2>1. q # p /\ step[q] = "add"
    BY <1>1 DEF ListInv, ListTyped
  <2>2. ~(n # 0 /\ q = s[n])
    <3>1. n # 0 => n \in 1 .. n
      BY <1>7
    <3>2. n # 0 => step[s[n]] # "add"
      BY <1>2, <3>1, Members
    <3>3. QED
      BY <2>1, <3>2
  <2>3. QED
    BY <1>11, <2>1, <2>2 DEF ListInv, NewIsLast
<1>15. Chain(t)'
  <2>2. ASSUME NEW i \in 1 .. n + 1
        PROVE  next'[t[i]] = IF i = n + 1 THEN NULL ELSE t[i + 1]
    <3>1. CASE i = n + 1
      <4>1. ~(n # 0 /\ p = s[n])
        <5>1. n # 0 => n \in 1 .. n
          BY <1>7
        <5>2. QED
          BY <1>3, <5>1
      <4>2. QED
        BY <1>6, <1>7, <1>11, <3>1, <4>1
    <3>2. CASE i = n
      <4>1. n # 0 /\ i \in 1 .. n /\ i # n + 1
        BY <1>7, <3>2
      <4>2. next'[s[n]] = p
        BY <1>3, <1>11, <3>2, <4>1
      <4>3. QED
        BY <1>7, <3>2, <4>1, <4>2
    <3>3. CASE i # n + 1 /\ i # n
      <4>1. i \in 1 .. n /\ i + 1 \in 1 .. n /\ n \in 1 .. n
        BY <1>7, <3>3
      <4>2. s[i] # s[n] /\ next[s[i]] = s[i + 1]
        BY <1>2, <3>3, <4>1 DEF IsList, Chain, Unrepeated
      <4>3. next'[s[i]] = s[i + 1]
        BY <1>3, <1>11, <4>1, <4>2
      <4>4. QED
        BY <1>7, <3>3, <4>1, <4>3
    <3>4. QED
      BY <3>1, <3>2, <3>3
  <2>3. QED
    BY <1>7, <1>9, <1>11, <2>2 DEF Chain, Unrepeated
<1>16. PlacesRight(t)'
  <2>1. \A i \in 1 .. Len(t) : t[i] \in Procs
    BY <1>7
  <2>2. QED
    BY <1>5, <2>1 DEF PlacesRight
<1>17. ToSet(t)' = Held'
  BY <1>2, <1>9, <1>10 DEF IsList
<1>18. QED
  BY <1>7, <1>11, <1>12, <1>13, <1>14, <1>15, <1>16, <1>17 DEF ListInv, IsList

(* A node is taken out where it was found.                                    *)
LEMMA UnlinkKeepsList ==
  ASSUME ListInv, NEW p \in Procs, Unlink(p)
  PROVE  ListInv'
<1>1. /\ step[p] = "unlink" /\ step' = [step EXCEPT ![p] = "user"]
      /\ place' = [place EXCEPT ![p] = NULL]
  BY DEF Unlink
<1>2. PICK s \in Seq(Procs) : IsList(s)
  BY DEF ListInv
<1>3. \A i \in 1 .. Len(s) : s[i] \in Procs \ {NULL}
  BY <1>2, Members
<1>4. PICK k \in 1 .. Len(s) : p = s[k]
  BY <1>1, <1>2, Members
<1>5. place[p] = IF k = 1 THEN s[k] ELSE s[k - 1]
  BY <1>1, <1>2, <1>4 DEF IsList, PlacesRight
<1>6. \A q \in Procs : step'[q] \notin {"link", "unlink"}
  BY <1>1, NobodyChanges
<1> DEFINE n == Len(s)
           t == RemoveAt(s, k)
<1>7. n \in Nat /\ n >= 1 /\ k \in 1 .. n
  OBVIOUS
<1>8. \A i \in 1 .. n - 1 : (i < k => i \in 1 .. n) /\ i + 1 \in 1 .. n
  BY <1>7
<1>9. t \in Seq(Procs) /\ Len(t) = n - 1 /\ DOMAIN t = 1 .. n - 1
  BY RemoveAtFacts
<1>10. \A i \in 1 .. n - 1 : t[i] = IF i < k THEN s[i] ELSE s[i + 1]
  BY RemoveAtFacts
<1> HIDE DEF t
<1>11. \A i, j \in 1 .. n : s[i] = s[j] => i = j
  BY <1>2 DEF IsList, Chain, Unrepeated
<1>12. \A i \in 1 .. n : next[s[i]] = IF i = n THEN NULL ELSE s[i + 1]
  BY <1>2 DEF IsList, Chain
<1>13. Unrepeated(t) /\ ToSet(t) = ToSet(s) \ {p}
  BY <1>2, <1>4, RemovedIs DEF IsList, Chain, t
<1>14. Held' = Held \ {p}
  BY <1>1 DEF Held, ListInv, ListTyped
<1>15. /\ length' = n - 1
       /\ first' = IF k = 1 THEN next[p] ELSE first
       /\ next' \in [Procs -> Procs \cup {NULL}]
       /\ \A q \in Procs : next'[q] = IF k # 1 /\ q = s[k - 1] THEN next[p] ELSE next[q]
  <2>1. length = n
    BY <1>2 DEF IsList
  <2>2. CASE k = 1
    <3>1. place[p] = p /\ p # NULL
      BY <1>4, <1>5, <2>2, NULLAssumption
    <3>2. QED
      BY <2>1, <2>2, <3>1 DEF Unlink, ListInv, ListTyped
  <2>3. CASE k # 1
    <3>1. k - 1 \in 1 .. n /\ k - 1 # k
      BY <1>7, <2>3
    <3>2. place[p] = s[k - 1] /\ s[k - 1] \in Procs \ {p, NULL}
      BY <1>3, <1>4, <1>5, <1>11, <2>3, <3>1
    <3>3. next' = [next EXCEPT ![s[k - 1]] = next[p]] /\ first' = first /\ length' = length - 1
      BY <3>2 DEF Unlink
    <3>4. QED
      BY <2>1, <2>3, <3>2, <3>3 DEF ListInv, ListTyped
  <2>4. QED
    BY <2>2, <2>3
<1>16. ListTyped'
  <2>1. step' \in [Procs -> {"user", "add", "link", "wait", "remove", "unlink"}]
    BY <1>1 DEF ListInv, ListTyped
  <2>2. first' \in Procs \cup {NULL}
    BY <1>15 DEF ListInv, ListTyped
  <2>3. place' \in [Procs -> Procs \cup {NULL}]
    BY <1>1 DEF ListInv, ListTyped
  <2>4. QED
    BY <1>15, <2>1, <2>2, <2>3 DEF ListTyped
<1>17. OneChanges'
  BY <1>6 DEF OneChanges
<1>18. NewIsLast'
  <2> SUFFICES ASSUME NEW q \in Procs, step'[q] = "add" PROVE next'[q] = NULL
    BY <1>6 DEF NewIsLast
  <2>1. step[q] = "add"
    BY <1>1 DEF ListInv, ListTyped
  <2>2. k # 1 => k - 1 \in 1 .. n
    BY <1>7
  <2>3. ~(k # 1 /\ q = s[k - 1])
    BY <1>2, <2>1, <2>2, Members
  <2>4. QED
    BY <1>15, <2>1, <2>3 DEF ListInv, NewIsLast
<1>19. Chain(t)'
  <2>2. first' = IF t = <<>> THEN NULL ELSE t[1]
    <3>1. t = <<>> <=> n = 1
      BY <1>7, <1>9
    <3>2. CASE k = 1
      <4>1. first' = IF n = 1 THEN NULL ELSE s[2]
        <5>1. 1 \in 1 .. n /\ 1 + 1 = 2
          BY <1>7
        <5>2. next[s[1]] = IF 1 = n THEN NULL ELSE s[2]
          BY <1>12, <5>1
        <5>3. first' = next[s[1]]
          BY <1>4, <1>15, <3>2
        <5>4. QED
          BY <5>2, <5>3
      <4>2. ASSUME n # 1 PROVE 1 \in 1 .. n - 1 /\ ~(1 < k) /\ 1 + 1 = 2
        <5> HIDE DEF n
        <5>1. QED
          BY <1>7, <3>2, <4>2
      <4>3. n # 1 => t[1] = s[2]
        BY <1>10, <4>2
      <4>4. QED
        BY <3>1, <4>1, <4>3
    <3>3. CASE k # 1
      <4>1. n # 1 /\ 1 \in 1 .. n - 1 /\ 1 < k /\ s # <<>>
        <5>1. s # <<>>
          BY <1>7
        <5> HIDE DEF n
        <5>2. n # 1 /\ 1 \in 1 .. n - 1 /\ 1 < k
          BY <1>7, <3>3
        <5>3. QED
          BY <5>1, <5>2
      <4>2. first' = s[1]
        BY <1>2, <1>15, <3>3, <4>1 DEF IsList, Chain
      <4>3. t[1] = s[1]
        BY <1>10, <4>1
      <4>4. QED
        BY <3>1, <4>1, <4>2, <4>3
    <3>4. QED
      BY <3>2, <3>3
  <2>3. ASSUME NEW i \in 1 .. n - 1
        PROVE  next'[t[i]] = IF i = n - 1 THEN NULL ELSE t[i + 1]
    <3>1. CASE i < k - 1
      <4>1. i \in 1 .. n /\ i < k /\ i + 1 < k /\ i # n - 1 /\ i + 1 \in 1 .. n - 1
            /\ i # n /\ k - 1 \in 1 .. n /\ i # k - 1
        BY <1>7, <3>1
      <4>2. t[i] = s[i] /\ t[i + 1] = s[i + 1]
        BY <1>10, <4>1
      <4>3. s[i] # s[k - 1] /\ s[i] \in Procs
        BY <1>3, <1>11, <4>1
      <4>4. next'[s[i]] = next[s[i]]
        BY <1>15, <4>3
      <4>5. QED
        BY <1>12, <4>1, <4>2, <4>4
    <3>2. CASE i = k - 1
      <4>1. i \in 1 .. n /\ i < k /\ k # 1
        BY <1>7, <3>2
      <4>2. t[i] = s[k - 1] /\ s[k - 1] \in Procs
        BY <1>3, <1>10, <3>2, <4>1
      <4>3. next'[t[i]] = next[s[k]]
        BY <1>4, <1>15, <4>1, <4>2
      <4>4. next[s[k]] = IF k = n THEN NULL ELSE s[k + 1]
        BY <1>7, <1>12
      <4>5. i = n - 1 <=> k = n
        BY <1>7, <3>2
      <4>6. k # n => i + 1 \in 1 .. n - 1 /\ ~(i + 1 < k) /\ i + 1 + 1 = k + 1
        BY <1>7, <3>2
      <4>7. k # n => t[i + 1] = s[k + 1]
        BY <1>10, <4>6
      <4>8. QED
        BY <4>3, <4>4, <4>5, <4>7
    <3>3. CASE i >= k
      <4>1. ~(i < k) /\ i + 1 \in 1 .. n /\ (k # 1 => k - 1 \in 1 .. n) /\ i + 1 # k - 1
        BY <1>7, <3>3
      <4>2. t[i] = s[i + 1] /\ s[i + 1] \in Procs
        BY <1>3, <1>10, <4>1
      <4>3. ~(k # 1 /\ s[i + 1] = s[k - 1])
        BY <1>11, <4>1
      <4>4. next'[t[i]] = next[s[i + 1]]
        BY <1>15, <4>2, <4>3
      <4>5. next[s[i + 1]] = IF i + 1 = n THEN NULL ELSE s[i + 1 + 1]
        BY <1>12, <4>1
      <4>6. i + 1 = n <=> i = n - 1
        BY <1>7
      <4>7. i # n - 1 => i + 1 \in 1 .. n - 1 /\ ~(i + 1 < k)
        BY <1>7, <3>3
      <4>8. i # n - 1 => t[i + 1] = s[i + 1 + 1]
        BY <1>10, <4>7
      <4>9. QED
        BY <4>4, <4>5, <4>6, <4>8
    <3>4. i < k - 1 \/ i = k - 1 \/ i >= k
      BY <1>7
    <3>5. QED
      BY <3>1, <3>2, <3>3, <3>4
  <2>4. QED
    BY <1>9, <1>13, <2>2, <2>3 DEF Chain, Unrepeated
<1>20. PlacesRight(t)'
  <2>1. \A i \in 1 .. Len(t) : t[i] \in Procs
    BY <1>9
  <2>2. QED
    BY <1>6, <2>1 DEF PlacesRight
<1>21. ToSet(t)' = Held'
  BY <1>2, <1>13, <1>14 DEF IsList
<1>22. QED
  BY <1>9, <1>15, <1>16, <1>17, <1>18, <1>19, <1>20, <1>21 DEF ListInv, IsList

-----------------------------------------------------------------------------
(* What is in the buffers. *)

LinesTyped ==
  /\ keyboard_buffer \in [Procs -> [text : Seq(Chars), need_to_buffer : BOOLEAN]]
  /\ line \in [Procs -> Seq(Chars)]

\* A line is over when its newline has been typed.
Over(p) ==
  IF keyboard_buffer[p].need_to_buffer
    THEN \A i \in 1 .. Len(line[p]) : line[p][i] # "enter"
    ELSE line[p] # <<>> /\ Last(line[p]) = "enter"

LinesInv ==
  \A p \in Procs :
    /\ keyboard_buffer[p].text = line[p]
    /\ Over(p)
    /\ step[p] # "wait" => keyboard_buffer[p] = EmptyBuffer /\ line[p] = <<>>

KeyboardInv == ListInv /\ LinesTyped /\ LinesInv

(* What a key means is a character.                                           *)
LEMMA KeyFacts ==
  /\ CharKeys = {"1", "2", "enter"}
  /\ \A c \in CharKeys :
       c \in Chars /\ SHIFT_ASCII[c] \in Chars /\ SHIFT_ASCII[c] # "enter"
BY DEF CharKeys, Chars, SHIFT_ASCII

(* The handler finds all the buffers that are read on the screen shown.       *)
LEMMA ShownIs ==
  ASSUME ListInv
  PROVE  Shown = {p \in Procs : screen_index[p] = current_screen_index /\ step[p] = "wait"}
<1>1. PICK s \in Seq(Procs) : IsList(s)
  BY DEF ListInv
<1>2. Listed = Held
  BY <1>1, ListedIs DEF ListInv, IsList
<1>3. QED
  BY <1>2 DEF Shown, Held

(* The condition input() waits for is that the line is complete.              *)
LEMMA ReadyIs ==
  ASSUME LinesTyped, LinesInv, NEW p \in Procs
  PROVE  Ready(p) <=> Complete(line[p])
<1>1. line[p] \in Seq(Chars) /\ keyboard_buffer[p].text = line[p] /\ Over(p)
  BY DEF LinesTyped, LinesInv
<1>2. line[p] # <<>> => Len(line[p]) \in 1 .. Len(line[p])
  BY <1>1
<1>3. QED
  BY <1>1, <1>2 DEF Ready, Complete, Over, Last

(* A character is appended to, or the last taken from, a line that goes on.   *)
LEMMA Edited ==
  ASSUME NEW l \in Seq(Chars), \A i \in 1 .. Len(l) : l[i] # "enter"
  PROVE  /\ \A c \in Chars :
              /\ Append(l, c) \in Seq(Chars) /\ Append(l, c) # <<>>
              /\ Last(Append(l, c)) = c
              /\ c # "enter" =>
                   \A i \in 1 .. Len(Append(l, c)) : Append(l, c)[i] # "enter"
         /\ l # <<>> => /\ Front(l) \in Seq(Chars)
                        /\ \A i \in 1 .. Len(Front(l)) : Front(l)[i] # "enter"
<1>1. ASSUME NEW c \in Chars
      PROVE  /\ Append(l, c) \in Seq(Chars) /\ Append(l, c) # <<>>
             /\ Last(Append(l, c)) = c
             /\ c # "enter" =>
                  \A i \in 1 .. Len(Append(l, c)) : Append(l, c)[i] # "enter"
  <2> DEFINE m == Append(l, c)
  <2>1. /\ m \in Seq(Chars) /\ m # <<>> /\ Len(m) = Len(l) + 1 /\ m[Len(l) + 1] = c
        /\ \A i \in 1 .. Len(l) : m[i] = l[i]
    BY AppendProperties
  <2> HIDE DEF m
  <2>2. Last(m) = c
    BY <2>1 DEF Last
  <2>3. ASSUME c # "enter", NEW i \in 1 .. Len(m) PROVE m[i] # "enter"
    <3>1. i \in 1 .. Len(l) \/ i = Len(l) + 1
      BY <2>1, <2>3
    <3>2. QED
      BY <2>1, <2>3, <3>1
  <2>4. QED
    BY <2>1, <2>2, <2>3 DEF m
<1>2. ASSUME l # <<>>
      PROVE  /\ Front(l) \in Seq(Chars)
             /\ \A i \in 1 .. Len(Front(l)) : Front(l)[i] # "enter"
  <2>1. Len(l) \in Nat /\ Len(l) - 1 \in 0 .. Len(l)
    BY <1>2
  <2> DEFINE k == Len(l) - 1
             m == SubSeq(l, 1, k)
  <2>2. k \in Int /\ 1 \in Int /\ \A i \in 1 .. k : l[i] \in Chars /\ l[1 + i - 1] = l[i]
    BY <2>1
  <2>3. m \in Seq(Chars) /\ Len(m) = k /\ \A i \in 1 .. k : m[i] = l[i]
    <3> HIDE DEF k
    <3>1. /\ m \in Seq(Chars) /\ Len(m) = IF 1 <= k THEN k - 1 + 1 ELSE 0
          /\ \A i \in 1 .. k - 1 + 1 : m[i] = l[1 + i - 1]
      BY <2>2, SubSeqProperties
    <3> HIDE DEF m
    <3>2. k >= 0
      BY <2>1 DEF k
    <3>3. QED
      BY <2>2, <3>1, <3>2
  <2>4. \A i \in 1 .. k : l[i] # "enter"
    BY <2>1
  <2> HIDE DEF k, m
  <2>5. \A i \in 1 .. Len(m) : m[i] # "enter"
    BY <2>3, <2>4
  <2>6. QED
    BY <2>3, <2>5 DEF Front, m, k
<1>3. QED
  BY <1>1, <1>2

(* Nothing is read at first.                                                  *)
LEMMA InitLines == Init => LinesTyped /\ LinesInv
<1> SUFFICES ASSUME Init PROVE LinesTyped /\ LinesInv
  OBVIOUS
<1>1. EmptyBuffer \in [text : Seq(Chars), need_to_buffer : BOOLEAN]
  BY DEF EmptyBuffer
<1>2. LinesTyped
  BY <1>1 DEF Init, LinesTyped
<1>3. LinesInv
  BY DEF Init, LinesInv, Over, EmptyBuffer
<1>4. QED
  BY <1>2, <1>3

(* What processes do before and after they wait does not touch the buffers.   *)
LEMMA CallKeepsLines ==
  ASSUME KeyboardInv, NEW p \in Procs,
         input(p) \/ FindLast(p) \/ Link(p) \/ FindPrevious(p) \/ Unlink(p)
  PROVE  LinesTyped' /\ LinesInv'
<1>1. /\ keyboard_buffer' = keyboard_buffer /\ line' = line
      /\ step[p] # "wait"
      /\ \A q \in Procs \ {p} : step'[q] = step[q]
  BY DEF input, FindLast, Link, FindPrevious, Unlink, KeyboardInv, ListInv, ListTyped
<1>2. LinesTyped'
  BY <1>1 DEF KeyboardInv, LinesTyped
<1>3. LinesInv'
  BY <1>1 DEF KeyboardInv, LinesInv, Over
<1>4. QED
  BY <1>2, <1>3

(* The line is copied.                                                        *)
LEMMA WakeKeepsLines ==
  ASSUME KeyboardInv, NEW p \in Procs, Wake(p)
  PROVE  LinesTyped' /\ LinesInv'
<1>1. /\ keyboard_buffer' = [keyboard_buffer EXCEPT ![p] = EmptyBuffer]
      /\ line' = [line EXCEPT ![p] = <<>>]
      /\ step' = [step EXCEPT ![p] = "remove"]
  BY DEF Wake
<1>2. EmptyBuffer \in [text : Seq(Chars), need_to_buffer : BOOLEAN]
  BY DEF EmptyBuffer
<1>3. LinesTyped'
  BY <1>1, <1>2 DEF KeyboardInv, LinesTyped
<1>4. LinesInv'
  <2> SUFFICES ASSUME NEW q \in Procs PROVE LinesInv!(q)'
    BY DEF LinesInv
  <2>1. CASE q = p
    BY <1>1, <2>1 DEF KeyboardInv, ListInv, ListTyped, LinesTyped, Over, EmptyBuffer
  <2>2. CASE q # p
    BY <1>1, <2>2 DEF KeyboardInv, ListInv, ListTyped, LinesTyped, LinesInv, Over
  <2>3. QED
    BY <2>1, <2>2
<1>5. QED
  BY <1>3, <1>4

(* When a key is handled, no line is complete, unless it has been read.       *)
LEMMA HandledFacts ==
  ASSUME SLOW, KeyboardInv, Handled
  PROVE  /\ step' = step
         /\ \A p \in Procs : keyboard_buffer[p].need_to_buffer
         /\ \A p \in Procs : step[p] = "wait" => ~Complete(line[p])
<1>1. step' = step /\ \A p \in Procs : step[p] = "wait" => ~Ready(p)
  BY DEF Handled
<1>2. ASSUME NEW p \in Procs PROVE keyboard_buffer[p].need_to_buffer
  BY <1>1 DEF Ready, KeyboardInv, LinesInv, EmptyBuffer
<1>3. QED
  BY <1>1, <1>2, ReadyIs DEF KeyboardInv

(* A character.                                                               *)
LEMMA CharKeyKeepsLines ==
  ASSUME SLOW, KeyboardInv, NEW c \in CharKeys, CharKey(c)
  PROVE  LinesTyped' /\ LinesInv'
<1> DEFINE meant == IF COMMAND_KEYS = <<>> THEN c ELSE SHIFT_ASCII[c]
           buffered == COMMAND_KEYS = <<>> \/ COMMAND_KEYS[1] = "LSHIFT"
           Reads(p) == step[p] = "wait" /\ screen_index[p] = current_screen_index
<1>1. Handled
  BY DEF CharKey
<1>2. /\ step' = step
      /\ \A p \in Procs : keyboard_buffer[p].need_to_buffer
      /\ \A p \in Procs : step[p] = "wait" => ~Complete(line[p])
  BY <1>1, HandledFacts
<1>3. \A p \in Procs : p \in Shown <=> Reads(p)
  BY ShownIs DEF KeyboardInv
<1>4. keyboard_buffer' = [p \in Procs |->
        IF Reads(p) THEN buffer_char(keyboard_buffer[p], c) ELSE keyboard_buffer[p]]
  BY <1>3 DEF CharKey
<1>5. line' = IF buffered
                THEN [p \in Procs |-> IF Reads(p) THEN Typed(line[p], meant) ELSE line[p]]
                ELSE line
  BY DEF CharKey, LinesAfter
<1>6. ASSUME NEW p \in Procs
      PROVE  /\ keyboard_buffer'[p] \in [text : Seq(Chars), need_to_buffer : BOOLEAN]
             /\ line'[p] \in Seq(Chars)
             /\ LinesInv!(p)'
  <2>1. /\ keyboard_buffer[p] \in [text : Seq(Chars), need_to_buffer : BOOLEAN]
        /\ line[p] \in Seq(Chars) /\ keyboard_buffer[p].text = line[p]
        /\ keyboard_buffer[p].need_to_buffer
        /\ \A i \in 1 .. Len(line[p]) : line[p][i] # "enter"
    BY <1>2 DEF KeyboardInv, LinesTyped, LinesInv, Over
  <2>2. CASE Reads(p) /\ buffered
    <3>1. line'[p] = Append(line[p], meant)
      BY <1>2, <1>5, <2>2 DEF Typed
    <3>2. /\ keyboard_buffer'[p].text = Append(line[p], meant)
          /\ keyboard_buffer'[p].need_to_buffer = (meant # "enter")
          /\ keyboard_buffer'[p] \in [text : Seq(Chars), need_to_buffer : BOOLEAN]
      <4>1. keyboard_buffer'[p] = buffer_char(keyboard_buffer[p], c)
        BY <1>4, <2>2
      <4>2. Append(line[p], c) \in Seq(Chars) /\ Append(line[p], SHIFT_ASCII[c]) \in Seq(Chars)
        BY <2>1, KeyFacts
      <4>3. CASE COMMAND_KEYS = <<>>
        BY <2>1, <4>1, <4>2, <4>3 DEF buffer_char
      <4>4. CASE COMMAND_KEYS # <<>>
        BY <2>1, <2>2, <4>1, <4>2, <4>4, KeyFacts DEF buffer_char
      <4>5. QED
        BY <4>3, <4>4
    <3>3. meant \in Chars
      BY KeyFacts
    <3> HIDE DEF meant
    <3>4. QED
      BY <1>2, <2>1, <2>2, <3>1, <3>2, <3>3, Edited DEF Over
  <2>3. CASE ~(Reads(p) /\ buffered)
    <3>1. keyboard_buffer'[p] = keyboard_buffer[p] /\ line'[p] = line[p]
      BY <1>4, <1>5, <2>3 DEF buffer_char
    <3>2. QED
      BY <1>2, <2>1, <3>1 DEF KeyboardInv, LinesInv, Over
  <2>4. QED
    BY <2>2, <2>3
<1>7. LinesTyped'
  <2>1. line' \in [Procs -> Seq(Chars)]
    BY <1>5, <1>6 DEF KeyboardInv, LinesTyped
  <2>2. keyboard_buffer' \in [Procs -> [text : Seq(Chars), need_to_buffer : BOOLEAN]]
    BY <1>4, <1>6
  <2>3. QED
    BY <2>1, <2>2 DEF LinesTyped
<1>8. QED
  BY <1>6, <1>7 DEF LinesInv

(* The backspace key.                                                         *)
LEMMA BackspaceKeepsLines ==
  ASSUME SLOW, KeyboardInv, Backspace
  PROVE  LinesTyped' /\ LinesInv'
<1> DEFINE Reads(p) == step[p] = "wait" /\ screen_index[p] = current_screen_index
<1>1. Handled
  BY DEF Backspace
<1>2. /\ step' = step
      /\ \A p \in Procs : keyboard_buffer[p].need_to_buffer
      /\ \A p \in Procs : step[p] = "wait" => ~Complete(line[p])
  BY <1>1, HandledFacts
<1>3. \A p \in Procs : p \in Shown <=> Reads(p)
  BY ShownIs DEF KeyboardInv
<1>4. CASE state = "KEY_DOWN"
  <2>1. keyboard_buffer' = [p \in Procs |->
          IF Reads(p) THEN keyboard_backspace_command(keyboard_buffer[p])
          ELSE keyboard_buffer[p]]
    BY <1>3, <1>4 DEF Backspace
  <2>2. line' = [p \in Procs |-> IF Reads(p) THEN Erased(line[p]) ELSE line[p]]
    BY <1>4 DEF Backspace, LinesAfter
  <2>3. ASSUME NEW p \in Procs
        PROVE  /\ keyboard_buffer'[p] \in [text : Seq(Chars), need_to_buffer : BOOLEAN]
               /\ line'[p] \in Seq(Chars)
               /\ LinesInv!(p)'
    <3>1. /\ keyboard_buffer[p] \in [text : Seq(Chars), need_to_buffer : BOOLEAN]
          /\ line[p] \in Seq(Chars) /\ keyboard_buffer[p].text = line[p]
          /\ keyboard_buffer[p].need_to_buffer
          /\ \A i \in 1 .. Len(line[p]) : line[p][i] # "enter"
      BY <1>2 DEF KeyboardInv, LinesTyped, LinesInv, Over
    <3>2. CASE Reads(p) /\ line[p] # <<>>
      <4>1. line'[p] = Front(line[p])
        BY <1>2, <2>2, <3>2 DEF Erased
      <4>2. Front(line[p]) \in Seq(Chars)
        BY <3>1, <3>2, Edited
      <4>3. keyboard_buffer'[p] = [keyboard_buffer[p] EXCEPT !.text = Front(line[p])]
        BY <2>1, <3>1, <3>2 DEF keyboard_backspace_command
      <4>4. QED
        BY <1>2, <3>1, <3>2, <4>1, <4>2, <4>3, Edited DEF Over
    <3>3. CASE ~(Reads(p) /\ line[p] # <<>>)
      <4>1. keyboard_buffer'[p] = keyboard_buffer[p] /\ line'[p] = line[p]
        BY <2>1, <2>2, <3>1, <3>3 DEF keyboard_backspace_command, Erased
      <4>2. QED
        BY <1>2, <3>1, <4>1 DEF KeyboardInv, LinesInv, Over
    <3>4. QED
      BY <3>2, <3>3
  <2>4. QED
    BY <2>1, <2>2, <2>3 DEF LinesTyped, LinesInv
<1>5. CASE state # "KEY_DOWN"
  BY <1>2, <1>5 DEF Backspace, KeyboardInv, LinesTyped, LinesInv, Over
<1>6. QED
  BY <1>4, <1>5

-----------------------------------------------------------------------------
(* Types, whatever the readers' speed. *)

BuffersTyped ==
  /\ LinesTyped
  /\ \A p \in Procs : Len(keyboard_buffer[p].text) <= MAX_LENGTH

HandlerTyped ==
  /\ current_screen_index \in Screens
  /\ COMMAND_KEYS \in Seq(CommandKeys) /\ Unrepeated(COMMAND_KEYS)
  /\ state \in {"KEY_UP", "KEY_DOWN"}
  /\ status \in 1 .. 3

TypeInv == ListInv /\ BuffersTyped /\ HandlerTyped

(* The invariant implies that variables have their types.                     *)
LEMMA TypeInvTypes == TypeInv => TypeOK
<1> SUFFICES ASSUME TypeInv PROVE TypeOK
  OBVIOUS
<1>1. PICK s \in Seq(Procs) : IsList(s)
  BY DEF TypeInv, ListInv
<1>2. length \in 0 .. Cardinality(Procs)
  BY <1>1, ShortEnough DEF IsList, Chain
<1>3. \A p \in Procs : keyboard_buffer[p].text \in Seq(Chars) /\ line[p] \in Seq(Chars)
  BY DEF TypeInv, BuffersTyped, LinesTyped
<1>4. ToSet(COMMAND_KEYS) \subseteq CommandKeys
  <2>1. \A i \in DOMAIN COMMAND_KEYS : COMMAND_KEYS[i] \in CommandKeys
    BY DEF TypeInv, HandlerTyped
  <2>2. QED
    BY <2>1 DEF ToSet
<1>5. IsInjective(COMMAND_KEYS)
  <2>1. DOMAIN COMMAND_KEYS = 1 .. Len(COMMAND_KEYS)
    BY DEF TypeInv, HandlerTyped
  <2>2. QED
    BY <2>1 DEF TypeInv, HandlerTyped, Unrepeated, IsInjective
<1>6. QED
  BY <1>2, <1>3, <1>4, <1>5
     DEF TypeInv, ListInv, ListTyped, BuffersTyped, HandlerTyped, TypeOK

(* Nobody reads at the start, and no key is held.                             *)
LEMMA InitTypes == Init => TypeInv
<1> SUFFICES ASSUME Init PROVE TypeInv
  OBVIOUS
<1>1. BuffersTyped
  <2>1. Len(<<>>) = 0 /\ 0 <= MAX_LENGTH
    BY BoundsAssumption
  <2>2. QED
    BY <2>1, InitLines DEF Init, BuffersTyped, EmptyBuffer
<1>2. HandlerTyped
  BY DEF Init, HandlerTyped, Screens, Unrepeated
<1>3. QED
  BY <1>1, <1>2, InitList DEF TypeInv

(* A process's steps.                                                         *)
LEMMA CallsKeepTypes ==
  ASSUME TypeInv, NEW p \in Procs, input(p) \/ Step(p)
  PROVE  BuffersTyped' /\ HandlerTyped'
<1>1. HandlerTyped'
  BY DEF input, Step, FindLast, Link, Wake, FindPrevious, Unlink, handlerVars,
         TypeInv, HandlerTyped
<1>2. CASE keyboard_buffer' = keyboard_buffer /\ line' = line
  BY <1>1, <1>2 DEF TypeInv, BuffersTyped, LinesTyped
<1>3. CASE Wake(p)
  <2>1. /\ EmptyBuffer \in [text : Seq(Chars), need_to_buffer : BOOLEAN]
        /\ EmptyBuffer.text = <<>> /\ Len(<<>>) = 0 /\ 0 <= MAX_LENGTH
    BY BoundsAssumption DEF EmptyBuffer
  <2>2. /\ keyboard_buffer' = [keyboard_buffer EXCEPT ![p] = EmptyBuffer]
        /\ line' = [line EXCEPT ![p] = <<>>]
    BY <1>3 DEF Wake
  <2>3. LinesTyped'
    BY <2>1, <2>2 DEF TypeInv, BuffersTyped, LinesTyped
  <2>4. \A q \in Procs : Len(keyboard_buffer'[q].text) <= MAX_LENGTH
    BY <2>1, <2>2 DEF TypeInv, BuffersTyped, LinesTyped
  <2>5. QED
    BY <1>1, <2>3, <2>4 DEF BuffersTyped
<1>4. QED
  BY <1>2, <1>3 DEF input, Step, FindLast, Link, FindPrevious, Unlink

(* A line without its last character.                                         *)
LEMMA FrontFacts ==
  ASSUME NEW S, NEW l \in Seq(S), l # <<>>
  PROVE  Front(l) \in Seq(S) /\ Len(Front(l)) = Len(l) - 1
<1>1. 1 \in 1 .. Len(l) + 1 /\ Len(l) - 1 \in 1 - 1 .. Len(l)
  OBVIOUS
<1>2. Front(l) \in Seq(S) /\ Len(Front(l)) = (Len(l) - 1) - 1 + 1
  BY <1>1, SubSeqFacts DEF Front
<1>3. QED
  BY <1>2

(* A character.                                                               *)
LEMMA CharKeyKeepsTypes ==
  ASSUME TypeInv, NEW c \in CharKeys, CharKey(c)
  PROVE  BuffersTyped' /\ HandlerTyped'
<1> DEFINE meant == IF COMMAND_KEYS = <<>> THEN c ELSE SHIFT_ASCII[c]
           buffered == COMMAND_KEYS = <<>> \/ COMMAND_KEYS[1] = "LSHIFT"
           Reads(p) == step[p] = "wait" /\ screen_index[p] = current_screen_index
<1>1. HandlerTyped'
  BY DEF CharKey, Handled, TypeInv, HandlerTyped
<1>2. keyboard_buffer' = [p \in Procs |->
        IF p \in Shown THEN buffer_char(keyboard_buffer[p], c) ELSE keyboard_buffer[p]]
  BY DEF CharKey
<1>3. line' = IF buffered
                THEN [p \in Procs |-> IF Reads(p) THEN Typed(line[p], meant) ELSE line[p]]
                ELSE line
  BY DEF CharKey, LinesAfter
<1>4. ASSUME NEW p \in Procs
      PROVE  /\ keyboard_buffer'[p] \in [text : Seq(Chars), need_to_buffer : BOOLEAN]
             /\ Len(keyboard_buffer'[p].text) <= MAX_LENGTH
             /\ line'[p] \in Seq(Chars)
  <2>1. /\ keyboard_buffer[p] \in [text : Seq(Chars), need_to_buffer : BOOLEAN]
        /\ Len(keyboard_buffer[p].text) <= MAX_LENGTH
        /\ line[p] \in Seq(Chars)
    BY DEF TypeInv, BuffersTyped, LinesTyped
  <2>2. meant \in Chars
    BY KeyFacts
  <2>3. line'[p] \in Seq(Chars)
    <3> HIDE DEF meant
    <3>1. QED
      BY <1>3, <2>1, <2>2 DEF Typed
  <2>4. CASE p \in Shown
    <3> DEFINE b == keyboard_buffer[p]
    <3>1. Len(b.text) < MAX_LENGTH /\ MAX_LENGTH \in Nat
      BY <2>4, BoundsAssumption DEF CharKey
    <3>2. \A x \in Chars : Append(b.text, x) \in Seq(Chars) /\ Len(Append(b.text, x)) <= MAX_LENGTH
      BY <2>1, <3>1
    <3>3. keyboard_buffer'[p] = buffer_char(b, c)
      BY <1>2, <2>4
    <3>4. CASE COMMAND_KEYS = <<>>
      <4>1. buffer_char(b, c) = [text |-> Append(b.text, c),
                                 need_to_buffer |-> b.need_to_buffer /\ c # "enter"]
        BY <3>4 DEF buffer_char
      <4>2. QED
        BY <2>1, <2>3, <3>2, <3>3, <4>1, KeyFacts
    <3>5. CASE COMMAND_KEYS # <<>> /\ COMMAND_KEYS[1] = "LSHIFT"
      <4>1. buffer_char(b, c) = [b EXCEPT !.text = Append(b.text, SHIFT_ASCII[c])]
        BY <3>5 DEF buffer_char
      <4>2. SHIFT_ASCII[c] \in Chars
        BY KeyFacts
      <4>3. QED
        BY <2>1, <2>3, <3>2, <3>3, <4>1, <4>2
    <3>6. CASE COMMAND_KEYS # <<>> /\ COMMAND_KEYS[1] # "LSHIFT"
      <4>1. buffer_char(b, c) = b
        BY <3>6 DEF buffer_char
      <4>2. QED
        BY <2>1, <2>3, <3>3, <4>1
    <3>7. QED
      BY <3>4, <3>5, <3>6
  <2>5. CASE p \notin Shown
    BY <1>2, <2>1, <2>3, <2>5
  <2>6. QED
    BY <2>4, <2>5
<1>5. LinesTyped'
  <2>1. line' \in [Procs -> Seq(Chars)]
    BY <1>3, <1>4 DEF TypeInv, BuffersTyped, LinesTyped
  <2>2. keyboard_buffer' \in [Procs -> [text : Seq(Chars), need_to_buffer : BOOLEAN]]
    BY <1>2, <1>4
  <2>3. QED
    BY <2>1, <2>2 DEF LinesTyped
<1>6. QED
  BY <1>1, <1>4, <1>5 DEF BuffersTyped

(* The backspace key.                                                         *)
LEMMA BackspaceKeepsTypes ==
  ASSUME TypeInv, Backspace
  PROVE  BuffersTyped' /\ HandlerTyped'
<1>1. HandlerTyped'
  BY DEF Backspace, Handled, TypeInv, HandlerTyped
<1>2. CASE state # "KEY_DOWN"
  BY <1>1, <1>2 DEF Backspace, TypeInv, BuffersTyped, LinesTyped
<1>3. CASE state = "KEY_DOWN"
  <2>1. keyboard_buffer' = [p \in Procs |->
          IF p \in Shown THEN keyboard_backspace_command(keyboard_buffer[p])
          ELSE keyboard_buffer[p]]
    BY <1>3 DEF Backspace
  <2>2. line' = [p \in Procs |->
          IF step[p] = "wait" /\ screen_index[p] = current_screen_index
            THEN Erased(line[p]) ELSE line[p]]
    BY <1>3 DEF Backspace, LinesAfter
  <2>3. ASSUME NEW p \in Procs
        PROVE  /\ keyboard_buffer'[p] \in [text : Seq(Chars), need_to_buffer : BOOLEAN]
               /\ Len(keyboard_buffer'[p].text) <= MAX_LENGTH
               /\ line'[p] \in Seq(Chars)
    <3>1. /\ keyboard_buffer[p] \in [text : Seq(Chars), need_to_buffer : BOOLEAN]
          /\ Len(keyboard_buffer[p].text) <= MAX_LENGTH
          /\ line[p] \in Seq(Chars)
      BY DEF TypeInv, BuffersTyped, LinesTyped
    <3>2. line'[p] \in Seq(Chars)
      BY <2>2, <3>1, FrontFacts DEF Erased
    <3>3. CASE p \in Shown /\ keyboard_buffer[p].text # <<>>
      <4>1. keyboard_buffer'[p] = [keyboard_buffer[p] EXCEPT !.text = Front(@)]
        BY <2>1, <3>1, <3>3 DEF keyboard_backspace_command
      <4>2. /\ Front(keyboard_buffer[p].text) \in Seq(Chars)
            /\ Len(Front(keyboard_buffer[p].text)) = Len(keyboard_buffer[p].text) - 1
        BY <3>1, <3>3, FrontFacts
      <4>3. MAX_LENGTH \in Nat /\ Len(keyboard_buffer[p].text) \in Nat
        BY <3>1, BoundsAssumption
      <4>4. QED
        BY <3>1, <3>2, <4>1, <4>2, <4>3
    <3>4. CASE ~(p \in Shown /\ keyboard_buffer[p].text # <<>>)
      <4>1. keyboard_buffer'[p] = keyboard_buffer[p]
        BY <2>1, <3>1, <3>4 DEF keyboard_backspace_command
      <4>2. QED
        BY <3>1, <3>2, <4>1
    <3>5. QED
      BY <3>3, <3>4
  <2>4. LinesTyped'
    BY <2>1, <2>2, <2>3 DEF LinesTyped
  <2>5. QED
    BY <1>1, <2>3, <2>4 DEF BuffersTyped
<1>4. QED
  BY <1>2, <1>3

(* A command key is put into the list once, and taken out.                    *)
LEMMA CommandKeepsTypes ==
  ASSUME TypeInv, NEW k \in CommandKeys, keyboard_command_char(k)
  PROVE  BuffersTyped' /\ HandlerTyped'
<1>1. BuffersTyped'
  BY DEF keyboard_command_char, TypeInv, BuffersTyped, LinesTyped
<1>2. COMMAND_KEYS \in Seq(CommandKeys) /\ Unrepeated(COMMAND_KEYS)
  BY DEF TypeInv, HandlerTyped
<1>3. COMMAND_KEYS' \in Seq(CommandKeys) /\ Unrepeated(COMMAND_KEYS')
  <2>1. CASE state = "KEY_DOWN"
    <3>1. k \notin ToSet(COMMAND_KEYS) /\ COMMAND_KEYS' = Append(COMMAND_KEYS, k)
      BY <2>1 DEF keyboard_command_char
    <3>2. QED
      BY <1>2, <3>1, AppendedIs, AppendProperties
  <2>2. CASE state # "KEY_DOWN"
    <3>1. PICK i \in DOMAIN COMMAND_KEYS : COMMAND_KEYS' = RemoveAt(COMMAND_KEYS, i)
      BY <2>2 DEF keyboard_command_char
    <3>2. i \in 1 .. Len(COMMAND_KEYS)
      BY <1>2
    <3>3. QED
      BY <1>2, <3>1, <3>2, RemovedIs, RemoveAtFacts
  <2>3. QED
    BY <2>1, <2>2
<1>4. HandlerTyped'
  <2>1. UNCHANGED <<current_screen_index, status>> /\ state' = "KEY_DOWN"
    BY DEF keyboard_command_char, Handled
  <2>2. Unrepeated(COMMAND_KEYS)'
    BY <1>3 DEF Unrepeated
  <2>3. QED
    BY <1>3, <2>1, <2>2 DEF TypeInv, HandlerTyped
<1>5. QED
  BY <1>1, <1>4

(* What comes between keys.                                                   *)
LEMMA OtherKeysKeepTypes ==
  ASSUME TypeInv,
         (\E c \in CharKeys : CharKeyReleased(c)) \/ ReleaseCode \/ Acknowledge
  PROVE  BuffersTyped' /\ HandlerTyped'
<1>1. BuffersTyped'
  BY DEF CharKeyReleased, ReleaseCode, Acknowledge, TypeInv, BuffersTyped, LinesTyped
<1>2. HandlerTyped'
  <2>1. ASSUME NEW c \in CharKeys, CharKeyReleased(c) PROVE HandlerTyped'
    <3>1. switch_screens_command(c) \in Screens
      BY KeyFacts DEF switch_screens_command, Screens, TypeInv, HandlerTyped
    <3>2. QED
      BY <2>1, <3>1 DEF CharKeyReleased, Handled, TypeInv, HandlerTyped, Unrepeated
  <2>2. CASE ReleaseCode
    BY <2>2 DEF ReleaseCode, TypeInv, HandlerTyped, Unrepeated
  <2>3. CASE Acknowledge
    BY <2>3 DEF Acknowledge, TypeInv, HandlerTyped, Unrepeated
  <2>4. QED
    BY <2>1, <2>2, <2>3
<1>3. QED
  BY <1>1, <1>2

-----------------------------------------------------------------------------
(* Every step keeps the invariant. *)

(* The buffers and lines of a step that is none of those above stay.          *)
LEMMA OtherKeepsLines ==
  ASSUME KeyboardInv, UNCHANGED <<step, keyboard_buffer, line>>
  PROVE  LinesTyped' /\ LinesInv'
BY DEF KeyboardInv, LinesTyped, LinesInv, Over

(* The steps of processes, if they use the list one at a time.                *)
LEMMA CallsKeepList ==
  ASSUME ATOMIC, ListInv, NEW p \in Procs, input(p) \/ Step(p)
  PROVE  ListInv'
BY InputKeepsList, FindLastKeepsList, LinkKeepsList, WakeKeepsList,
   FindPreviousKeepsList, UnlinkKeepsList DEF Step

(* The steps of the handler.                                                  *)
LEMMA KeysKeepList ==
  ASSUME ListInv,
         \/ \E c \in CharKeys : CharKey(c) \/ CharKeyReleased(c)
         \/ \E k \in CommandKeys : keyboard_command_char(k)
         \/ Backspace \/ ReleaseCode \/ Acknowledge
  PROVE  ListInv'
<1>1. UNCHANGED <<listVars, step>>
  BY DEF CharKey, CharKeyReleased, keyboard_command_char, Backspace, ReleaseCode,
         Acknowledge, Handled
<1>2. QED
  BY <1>1, HandlerKeepsList

(* No step ends the invariant of the list.                                    *)
LEMMA NextKeepsList ==
  ASSUME ATOMIC, ListInv, [Next]_vars
  PROVE  ListInv'
<1>1. CASE UNCHANGED vars
  BY <1>1, HandlerKeepsList DEF vars
<1>2. CASE Next
  BY <1>2, CallsKeepList, KeysKeepList DEF Next
<1>3. QED
  BY <1>1, <1>2

(* The same for the lines, if no key comes before the reader wakes.           *)
LEMMA CallsKeepLines ==
  ASSUME KeyboardInv, NEW p \in Procs, input(p) \/ Step(p)
  PROVE  LinesTyped' /\ LinesInv'
BY CallKeepsLines, WakeKeepsLines DEF Step

(* A key leaves the invariant of the lines as it is.                          *)
LEMMA KeysKeepLines ==
  ASSUME SLOW, KeyboardInv,
         \/ \E c \in CharKeys : CharKey(c) \/ CharKeyReleased(c)
         \/ \E k \in CommandKeys : keyboard_command_char(k)
         \/ Backspace \/ ReleaseCode \/ Acknowledge
  PROVE  LinesTyped' /\ LinesInv'
<1>1. ASSUME NEW c \in CharKeys, CharKeyReleased(c) PROVE LinesTyped' /\ LinesInv'
  BY <1>1, OtherKeepsLines DEF CharKeyReleased, Handled
<1>2. ASSUME NEW k \in CommandKeys, keyboard_command_char(k)
      PROVE  LinesTyped' /\ LinesInv'
  BY <1>2, OtherKeepsLines DEF keyboard_command_char, Handled
<1>3. CASE ReleaseCode
  BY <1>3, OtherKeepsLines DEF ReleaseCode
<1>4. CASE Acknowledge
  BY <1>4, OtherKeepsLines DEF Acknowledge
<1>5. QED
  BY <1>1, <1>2, <1>3, <1>4, CharKeyKeepsLines, BackspaceKeepsLines

(* No step ends the types.                                                    *)
LEMMA NextKeepsTypes ==
  ASSUME TypeInv, [Next]_vars
  PROVE  BuffersTyped' /\ HandlerTyped'
<1>1. CASE UNCHANGED vars
  BY <1>1 DEF vars, handlerVars, TypeInv, BuffersTyped, LinesTyped, HandlerTyped,
              Unrepeated
<1>2. CASE Next
  BY <1>2, CallsKeepTypes, CharKeyKeepsTypes, BackspaceKeepsTypes,
     CommandKeepsTypes, OtherKeysKeepTypes DEF Next
<1>3. QED
  BY <1>1, <1>2

(* No step ends the invariant of the lines.                                   *)
LEMMA NextKeepsLines ==
  ASSUME SLOW, KeyboardInv, [Next]_vars
  PROVE  LinesTyped' /\ LinesInv'
<1>1. CASE UNCHANGED vars
  BY <1>1, OtherKeepsLines DEF vars
<1>2. CASE Next
  BY <1>2, CallsKeepLines, KeysKeepLines DEF Next
<1>3. QED
  BY <1>1, <1>2

-----------------------------------------------------------------------------

(* If processes use the list one at a time, it is always a list, of just the  *)
(* buffers that are waited for or not taken out yet: add_to_list and          *)
(* remove_from_list are correct, although each is interrupted half-way.       *)
THEOREM ListIsKept ==
  ASSUME ATOMIC
  PROVE  Spec => []ListInv
<1>1. ListInv /\ [Next]_vars => ListInv'
  BY NextKeepsList
<1>2. QED
  BY <1>1, InitList, PTL DEF Spec

(* Every variable has its type: the list is never longer than there are       *)
(* processes, and a command key is in the list of command keys once.          *)
THEOREM KeyboardTypes ==
  ASSUME ATOMIC
  PROVE  Spec => []TypeOK
<1>1. TypeInv /\ [Next]_vars => TypeInv'
  BY NextKeepsList, NextKeepsTypes DEF TypeInv
<1>2. QED
  BY <1>1, InitTypes, TypeInvTypes, PTL DEF Spec

(* The handler finds the buffer of whoever waits, whatever keys come when: no *)
(* reader is left out because others come and go.                             *)
THEOREM WaitersAreFound ==
  ASSUME ATOMIC
  PROVE  Spec => [](\A p \in Procs :
           step[p] = "wait" /\ screen_index[p] = current_screen_index => p \in Shown)
<1>1. ListInv => \A p \in Procs :
        step[p] = "wait" /\ screen_index[p] = current_screen_index => p \in Shown
  BY ShownIs
<1>2. QED
  BY <1>1, ListIsKept, PTL

(* The inductive invariant holds in every state a keyboard can be in.         *)
THEOREM KeyboardInvariant ==
  ASSUME ATOMIC, SLOW
  PROVE  Spec => []KeyboardInv
<1>1. Init => KeyboardInv
  BY InitList, InitLines DEF KeyboardInv
<1>2. KeyboardInv /\ [Next]_vars => KeyboardInv'
  BY NextKeepsList, NextKeepsLines DEF KeyboardInv
<1>3. QED
  BY <1>1, <1>2, PTL DEF Spec

(* What a process reads is what was typed on its screen since it began to     *)
(* wait, as edited, up to the end of the line: no key is lost, put into       *)
(* another reader's buffer or taken twice.                                    *)
THEOREM TypedIsRead ==
  ASSUME ATOMIC, SLOW
  PROVE  Spec => []InputIsTyped
<1>1. KeyboardInv => InputIsTyped
  BY DEF KeyboardInv, LinesInv, InputIsTyped
<1>2. QED
  BY <1>1, KeyboardInvariant, PTL

(* input() returns when the line is complete, and not before: the condition   *)
(* of its loop, which looks at the length and a flag the handler keeps, says  *)
(* that as many characters as were asked for or a newline have been typed.    *)
THEOREM ReadyWhenComplete ==
  ASSUME ATOMIC, SLOW
  PROVE  Spec => [](\A p \in Procs : Ready(p) <=> Complete(line[p]))
<1>1. KeyboardInv => \A p \in Procs : Ready(p) <=> Complete(line[p])
  BY ReadyIs DEF KeyboardInv
<1>2. QED
  BY <1>1, KeyboardInvariant, PTL

=============================================================================
