-------------------------- MODULE OpenFilesProofs --------------------------
(***************************************************************************)
(* Proofs about modules OpenFiles and Shell, for any number of processes,  *)
(* logins and files, lists of any length and whatever malloc leaves in an  *)
(* entry.                                                                  *)
(*                                                                         *)
(* Types and OneDescriptorPerFile hold however calls overlap.  The other   *)
(* invariants hold when they do not, which IInv needs first of all:        *)
(* then what fclose has decided is still true when it closes.              *)
(*                                                                         *)
(* About programs, ShellInv says of each one what its entries will be when *)
(* the call it is in has returned, which ones its statements rely on, and  *)
(* that who waits for a program has its streams open.                      *)
(***************************************************************************)
EXTENDS Shell, FiniteSetTheorems, SequenceTheorems, WellFoundedInduction, TLAPS

\* Who has not exited has its streams, and who has makes no calls.
LiveLists ==
  /\ \A p \in live : Len(open_files[p]) >= 2
  /\ \A p \in Procs \ live : call[p] = NoCall

\* The invariant whose steps do not depend on what other processes do.
OpenInv == TypeOK /\ LiveLists /\ OneDescriptorPerFile

\* One call at a time.
Solo == \A p, q \in Procs : call[p] # NoCall /\ call[q] # NoCall => p = q

\* What fclose has found out remains true.
CloseKnows ==
  \A p \in Procs :
    /\ call[p].step \in {"close", "unuse"} =>
         call[p].ref \in DOMAIN entry[p] /\ entry[p][call[p].ref].fd = call[p].fd
    /\ call[p].step = "close" => ~UsedByOther(p, call[p].fd)
    /\ call[p].step = "unuse" =>
         call[p].fd \notin UsedDescriptors \/ UsedByOther(p, call[p].fd)
    /\ call[p].step = "copy" =>
         call[p].ref \in DOMAIN entry[p] /\ ~entry[p][call[p].ref].used

IInv == OpenInv /\ Solo /\ CloseKnows /\ NoDescriptorLeak

-----------------------------------------------------------------------------
(* Lemmas about the operators.                                               *)

(* A non-empty set of natural numbers has a minimum, which Min chooses.       *)
LEMMA MinExists ==
  ASSUME NEW T \in SUBSET Nat, T # {}
  PROVE  Min(T) \in T /\ \A y \in T : Min(T) <= y
<1> DEFINE Less == {ss \in Nat \X Nat : ss[1] < ss[2]}
<1>1. IsWellFoundedOn(Less, Nat)
  BY NatLessThanWellFounded, Zenon DEF OpToRel
<1>2. PICK x \in T : \A y \in T : ~(<<y, x>> \in Less)
  <2> HIDE DEF Less
  <2> QED
    BY <1>1, WFMin, Zenon
<1>3. \A y \in T : x <= y
  <2> SUFFICES ASSUME NEW y \in T PROVE x <= y
    OBVIOUS
  <2>1. <<y, x>> \in Nat \X Nat /\ ~(<<y, x>> \in Less)
    BY <1>2
  <2>2. ~(<<y, x>>[1] < <<y, x>>[2])
    BY <2>1
  <2>3. QED
    BY <2>2
<1>4. QED
  BY <1>3, Zenon DEF Min

(* The scan for an unused entry finds one if there is one.                    *)
LEMMA FirstUnusedFacts ==
  ASSUME TypeOK, NEW p \in Procs
  PROVE  /\ FirstUnused(p) \in 0 .. Len(open_files[p])
         /\ FirstUnused(p) # 0 =>
              /\ FirstUnused(p) \in DOMAIN open_files[p]
              /\ ~At(p, FirstUnused(p)).used
<1> DEFINE I == {i \in 1 .. Len(open_files[p]) : ~entry[p][open_files[p][i]].used}
<1>1. open_files[p] \in Seq(Nat)
  BY DEF TypeOK
<1>2. FirstUnused(p) = IF I # {} THEN Min(I) ELSE 0
  BY DEF FirstUnused, SelectInSeq
<1>3. I # {} => Min(I) \in I
  <2>1. I \in SUBSET Nat
    OBVIOUS
  <2> HIDE DEF I
  <2>2. QED
    BY <2>1, MinExists
<1>4. FirstUnused(p) = 0 \/ FirstUnused(p) \in I
  BY <1>2, <1>3
<1>5. DOMAIN open_files[p] = 1 .. Len(open_files[p]) /\ Len(open_files[p]) \in Nat
  BY <1>1
<1>6. QED
  BY <1>4, <1>5 DEF At

(* close marks descriptors unused and leaves everything else.                 *)
LEMMA CloseFacts ==
  ASSUME NEW lst \in Seq(Descriptor), NEW S
  PROVE  /\ close(lst, S) \in Seq(Descriptor)
         /\ DOMAIN close(lst, S) = DOMAIN lst
         /\ \A d \in DOMAIN lst :
              /\ close(lst, S)[d].inode = lst[d].inode
              /\ close(lst, S)[d].offset = lst[d].offset
              /\ close(lst, S)[d].used = (lst[d].used /\ d \notin S)
<1>1. \A d \in DOMAIN lst : lst[d] \in Descriptor
  OBVIOUS
<1>2. \A d \in DOMAIN lst :
        /\ close(lst, S)[d] \in Descriptor
        /\ close(lst, S)[d].inode = lst[d].inode
        /\ close(lst, S)[d].offset = lst[d].offset
        /\ close(lst, S)[d].used = (lst[d].used /\ d \notin S)
  BY <1>1 DEF close, Descriptor
<1>3. DOMAIN close(lst, S) = DOMAIN lst
  BY DEF close
<1>4. close(lst, S) \in Seq(Descriptor)
  <2>1. DOMAIN lst = 1 .. Len(lst) /\ Len(lst) \in Nat
    OBVIOUS
  <2>2. close(lst, S) \in [1 .. Len(lst) -> Descriptor]
    BY <1>2, <2>1 DEF close
  <2>3. QED
    BY <2>1, <2>2
<1>5. QED
  BY <1>2, <1>3, <1>4

(* open uses the file's descriptor if it has one, and gives it one if not;    *)
(* no other is touched.                                                       *)
LEMMA OpenFacts ==
  ASSUME TypeOK, OneDescriptorPerFile, NEW f \in Files
  PROVE  LET d == DescriptorOf(f)
         IN  /\ d \in Nat
             /\ open(f) \in Seq(Descriptor)
             /\ DOMAIN open(f) = DOMAIN open_files_list \cup {d}
             /\ open(f)[d].used /\ open(f)[d].inode = f
             /\ \A e \in DOMAIN open_files_list \ {d} :
                  /\ open(f)[e] = open_files_list[e]
                  /\ open_files_list[e].used => open_files_list[e].inode # f
             /\ d \in UsedDescriptors => open_files_list[d].inode = f
<1> DEFINE lst == open_files_list
           same == {d \in DOMAIN lst : lst[d].inode = f /\ lst[d].used}
           free == {d \in DOMAIN lst : ~lst[d].used}
           d0 == DescriptorOf(f)
           new == [inode |-> f, used |-> TRUE, offset |-> 0]
<1>1. lst \in Seq(Descriptor) /\ Len(lst) \in Nat /\ DOMAIN lst = 1 .. Len(lst)
  BY DEF TypeOK
<1>2. new \in Descriptor
  BY DEF Descriptor, Inodes
<1>3. same \in SUBSET Nat /\ free \in SUBSET Nat
  BY <1>1
<1>4. CASE same # {}
  <2>1. d0 = Min(same)
    BY <1>4 DEF DescriptorOf
  <2>2. Min(same) \in same
    <3> HIDE DEF same
    <3> QED BY <1>3, <1>4, MinExists
  <2>6. d0 \in DOMAIN lst /\ lst[d0].used /\ lst[d0].inode = f
    BY <2>1, <2>2
  <2>3. open(f) = lst
    <3>1. ~(d0 > Len(lst))
      BY <2>6, <1>1
    <3>2. QED
      BY <2>6, <3>1, Zenon DEF open
  <2>4. \A e \in DOMAIN lst \ {d0} : lst[e].used => lst[e].inode # f
    BY <2>6 DEF OneDescriptorPerFile, UsedDescriptors
  <2>5. QED
    BY <2>6, <2>3, <2>4, <1>1 DEF UsedDescriptors
<1>5. CASE same = {} /\ free # {}
  <2>1. d0 = Min(free)
    BY <1>5 DEF DescriptorOf
  <2>2. Min(free) \in free
    <3> HIDE DEF free
    <3> QED BY <1>3, <1>5, MinExists
  <2>3. d0 \in DOMAIN lst /\ ~lst[d0].used
    BY <2>1, <2>2
  <2>4. open(f) = [lst EXCEPT ![d0] = new]
    <3>1. ~(d0 > Len(lst))
      BY <2>3, <1>1
    <3>2. QED
      BY <2>3, <3>1, Zenon DEF open
  <2>5. open(f) \in Seq(Descriptor) /\ DOMAIN open(f) = DOMAIN lst
    BY <2>3, <2>4, <1>1, <1>2
  <2>6. open(f)[d0] = new /\ \A e \in DOMAIN lst \ {d0} : open(f)[e] = lst[e]
    BY <2>3, <2>4, <1>1
  <2>7. new.used /\ new.inode = f
    OBVIOUS
  <2>8. \A e \in DOMAIN lst : lst[e].used => lst[e].inode # f
    BY <1>5
  <2>9. d0 \in Nat /\ d0 \notin UsedDescriptors
    BY <2>3, <1>1 DEF UsedDescriptors
  <2> HIDE DEF new, d0, same, free
  <2>10. QED
    BY <2>3, <2>5, <2>6, <2>7, <2>8, <2>9 DEF d0
<1>6. CASE same = {} /\ free = {}
  <2>1. d0 = Len(lst) + 1
    BY <1>6 DEF DescriptorOf
  <2>2. open(f) = Append(lst, new)
    BY <2>1, <1>1 DEF open
  <2>3. QED
    BY <1>6, <2>1, <2>2, <1>1, <1>2, AppendProperties DEF UsedDescriptors
<1>7. QED
  BY <1>4, <1>5, <1>6

(* seek moves no descriptor but one, and changes only its offset.             *)
LEMMA SeekFacts ==
  ASSUME NEW lst \in Seq(Descriptor), NEW d, NEW offset \in Nat
  PROVE  /\ seek(lst, d, offset) \in Seq(Descriptor)
         /\ DOMAIN seek(lst, d, offset) = DOMAIN lst
         /\ \A e \in DOMAIN lst :
              /\ seek(lst, d, offset)[e].inode = lst[e].inode
              /\ seek(lst, d, offset)[e].used = lst[e].used
         /\ d \in DOMAIN lst /\ lst[d].inode \in Files =>
              seek(lst, d, offset)[d].offset = offset
<1>1. CASE d \in DOMAIN lst /\ lst[d].inode \in Files
  <2>1. seek(lst, d, offset) = [lst EXCEPT ![d].offset = offset]
    BY <1>1 DEF seek
  <2>2. lst[d] \in Descriptor /\ \A e \in DOMAIN lst : lst[e] \in Descriptor
    BY <1>1
  <2>3. [lst[d] EXCEPT !.offset = offset] \in Descriptor
    BY <2>2 DEF Descriptor
  <2>4. QED
    BY <1>1, <2>1, <2>2, <2>3 DEF Descriptor
<1>2. CASE ~(d \in DOMAIN lst /\ lst[d].inode \in Files)
  BY <1>2 DEF seek
<1>3. QED
  BY <1>1, <1>2

-----------------------------------------------------------------------------
(* What holds however calls overlap.                                         *)

\* What process p does in a step of Next.
Step(p) ==
  \/ \E f \in Files : fopen(p, f)
  \/ Register(p)
  \/ \E v \in Nat : Seek(p, v)
  \/ \E n \in 0 .. 1 : Transfer(p, n)
  \/ \E v \in Nat, from \in Nat : fclose(p, v, from)
  \/ Close(p)
  \/ Unuse(p)
  \/ Copy(p)
  \/ \E v \in Nat : dup(p, v)
  \/ \E g \in Garbage[p] : DupMissing(p, g)
  \/ \E c \in Procs, f \in Files : execute(p, c, f)
  \/ exit(p)

\* The part of TypeOK and LiveLists that is about one process.
Lists(q) ==
  /\ entry[q] \in Seq(Entry)
  /\ open_files[q] \in Seq(Nat)
  /\ \A v \in DOMAIN open_files[q] : open_files[q][v] \in DOMAIN entry[q]
  /\ call[q] \in Call
  /\ q \in live => Len(open_files[q]) >= 2
  /\ q \notin live => call[q] = NoCall

\* The part that is about the file system.
FileSystemInv == open_files_list \in Seq(Descriptor) /\ OneDescriptorPerFile

\* The lists of processes, and the relation between them.
ProcessInv ==
  /\ live \subseteq Procs
  /\ parent \in [Procs -> Procs \cup {NULL}]
  /\ DOMAIN entry = Procs /\ DOMAIN open_files = Procs /\ DOMAIN call = Procs
  /\ entry = [q \in Procs |-> entry[q]]
  /\ open_files = [q \in Procs |-> open_files[q]]
  /\ call = [q \in Procs |-> call[q]]
  /\ \A q \in Procs : Lists(q)

(* OpenInv is the conjunction of its parts.                                   *)
LEMMA OpenInvParts == OpenInv <=> FileSystemInv /\ ProcessInv
BY DEF OpenInv, TypeOK, LiveLists, FileSystemInv, ProcessInv, Lists

(* dup2 is fclose that goes on.                                               *)
LEMMA NextIsStep == Next => \E p \in Procs : Step(p)
<1>1. Positions \subseteq Nat
  BY DEF Positions
<1>2. QED
  BY <1>1 DEF Next, Step, dup2

(* A list of descriptors on which the files in use are among those of lst, at *)
(* the same places, has no file twice either.                                 *)
LEMMA FewerInUse ==
  ASSUME FileSystemInv, open_files_list' \in Seq(Descriptor),
         DOMAIN open_files_list' = DOMAIN open_files_list,
         \A d \in DOMAIN open_files_list :
           /\ open_files_list'[d].inode = open_files_list[d].inode
           /\ open_files_list'[d].used => open_files_list[d].used
  PROVE  FileSystemInv'
BY DEF FileSystemInv, OneDescriptorPerFile, UsedDescriptors

(* Every step leaves a file with one descriptor at most.                      *)
LEMMA FileSystemStep ==
  ASSUME OpenInv, NEW p \in Procs, Step(p)
  PROVE  FileSystemInv'
<1> DEFINE lst == open_files_list
<1>1. FileSystemInv /\ TypeOK /\ OneDescriptorPerFile /\ lst \in Seq(Descriptor)
  BY DEF OpenInv, TypeOK, FileSystemInv
<1>2. ProcessInv
  BY OpenInvParts
<1>3. ASSUME open_files_list' = lst PROVE FileSystemInv'
  BY <1>1, <1>3 DEF FileSystemInv, OneDescriptorPerFile, UsedDescriptors
<1>4. ASSUME NEW S, open_files_list' = close(lst, S) PROVE FileSystemInv'
  BY <1>1, <1>4, CloseFacts, FewerInUse
<1>0. ASSUME NEW f \in Files
      PROVE  /\ DescriptorOf(f) \in Nat
             /\ open(f) \in Seq(Descriptor)
             /\ DOMAIN open(f) = DOMAIN lst \cup {DescriptorOf(f)}
             /\ open(f)[DescriptorOf(f)].used /\ open(f)[DescriptorOf(f)].inode = f
             /\ \A e \in DOMAIN lst \ {DescriptorOf(f)} :
                  /\ open(f)[e] = lst[e]
                  /\ lst[e].used => lst[e].inode # f
  BY <1>1, OpenFacts
<1>5. ASSUME NEW f \in Files, open_files_list' = open(f) PROVE FileSystemInv'
  <2> DEFINE d0 == DescriptorOf(f)
  <2>1. /\ DOMAIN open(f) = DOMAIN lst \cup {d0}
        /\ open(f)[d0].inode = f
        /\ \A e \in DOMAIN lst \ {d0} :
             /\ open(f)[e] = lst[e]
             /\ lst[e].used => lst[e].inode # f
    BY <1>0
  <2>2. open(f) \in Seq(Descriptor)
    BY <1>0
  <2> HIDE DEF d0
  <2>3. QED
    BY <1>1, <1>5, <2>1, <2>2 DEF FileSystemInv, OneDescriptorPerFile, UsedDescriptors
<1>6. ASSUME NEW f \in Files, fopen(p, f) PROVE FileSystemInv'
  BY <1>5, <1>6 DEF fopen
<1>7. CASE Register(p)
  BY <1>3, <1>7 DEF Register
<1>8. ASSUME NEW v \in Nat, Seek(p, v) PROVE FileSystemInv'
  <2>1. At(p, v) \in Entry
    BY <1>2, <1>8 DEF Seek, ProcessInv, Lists, At
  <2>2. At(p, v).offset \in Nat /\ open_files_list' = seek(lst, At(p, v).fd, At(p, v).offset)
    BY <1>8, <2>1 DEF Seek, Entry
  <2>3. QED
    BY <1>1, <2>2, SeekFacts, FewerInUse
<1>9. ASSUME NEW n \in 0 .. 1, Transfer(p, n) PROVE FileSystemInv'
  <2> DEFINE d == entry[p][call[p].ref].fd
  <2>1. CASE open_files_list' = lst
    BY <1>3, <2>1
  <2>2. CASE /\ d \in DOMAIN lst
             /\ open_files_list' = [lst EXCEPT ![d].offset = @ + n]
    <3> HIDE DEF d
    <3>1. lst[d] \in Descriptor /\ \A e \in DOMAIN lst : lst[e] \in Descriptor
      BY <1>1, <2>2
    <3>2. [lst[d] EXCEPT !.offset = @ + n] \in Descriptor
      BY <3>1 DEF Descriptor
    <3>3. open_files_list' \in Seq(Descriptor) /\ DOMAIN open_files_list' = DOMAIN lst
      BY <1>1, <2>2, <3>2
    <3>4. \A e \in DOMAIN lst : /\ open_files_list'[e].inode = lst[e].inode
                                /\ open_files_list'[e].used = lst[e].used
      BY <2>2, <3>1 DEF Descriptor
    <3>5. QED
      BY <1>1, <3>3, <3>4, FewerInUse
  <2>3. QED
    BY <1>9, <2>1, <2>2 DEF Transfer
<1>10. ASSUME NEW v \in Nat, NEW from \in Nat, fclose(p, v, from)
       PROVE  FileSystemInv'
  BY <1>3, <1>10 DEF fclose
<1>11. CASE Close(p)
  BY <1>4, <1>11 DEF Close
<1>12. CASE Unuse(p)
  BY <1>3, <1>12 DEF Unuse
<1>13. CASE Copy(p)
  BY <1>3, <1>13 DEF Copy
<1>14. ASSUME NEW v \in Nat, dup(p, v) PROVE FileSystemInv'
  BY <1>3, <1>14 DEF dup
<1>15. ASSUME NEW g \in Garbage[p], DupMissing(p, g) PROVE FileSystemInv'
  BY <1>3, <1>15 DEF DupMissing
<1>16. ASSUME NEW c \in Procs, NEW f \in Files, execute(p, c, f) PROVE FileSystemInv'
  <2>0. /\ DOMAIN open(f) = DOMAIN lst \cup {DescriptorOf(f)}
        /\ \A e \in DOMAIN lst \ {DescriptorOf(f)} :
             /\ open(f)[e] = lst[e]
             /\ lst[e].used => lst[e].inode # f
    BY <1>0
  <2>1. /\ open_files_list' = close(open(f), {DescriptorOf(f)})
        /\ open(f) \in Seq(Descriptor)
    BY <1>0, <1>16 DEF execute
  <2>2. /\ open_files_list' \in Seq(Descriptor)
        /\ DOMAIN open_files_list' = DOMAIN open(f)
        /\ \A d \in DOMAIN open(f) :
             /\ open_files_list'[d].inode = open(f)[d].inode
             /\ open_files_list'[d].used =
                  (open(f)[d].used /\ d \notin {DescriptorOf(f)})
    BY <2>1, CloseFacts
  <2>3. ASSUME NEW d \in DOMAIN open_files_list', open_files_list'[d].used
        PROVE  d \in DOMAIN lst /\ lst[d].used /\ open_files_list'[d].inode = lst[d].inode
    <3>1. d \in DOMAIN open(f) /\ open(f)[d].used /\ d # DescriptorOf(f)
      BY <2>2, <2>3
    <3>2. d \in DOMAIN lst /\ open(f)[d] = lst[d]
      BY <3>1, <2>0
    <3>3. QED
      BY <3>1, <3>2, <2>2
  <2>4. QED
    BY <1>1, <2>2, <2>3 DEF FileSystemInv, OneDescriptorPerFile, UsedDescriptors
<1>17. CASE exit(p)
  BY <1>4, <1>17 DEF exit
<1>18. QED
  BY <1>6, <1>7, <1>8, <1>9, <1>10, <1>11, <1>12, <1>13, <1>14, <1>15, <1>16, <1>17
  DEF Step

\* Nothing of other processes changes.
OthersKept(p) ==
  /\ live' = live /\ parent' = parent
  /\ entry' \in [Procs -> Seq(Entry)]
  /\ open_files' \in [Procs -> Seq(Nat)]
  /\ call' \in [Procs -> Call]
  /\ \A q \in Procs \ {p} :
       entry'[q] = entry[q] /\ open_files'[q] = open_files[q] /\ call'[q] = call[q]

\* What p has open it keeps.
UsesKept(p) == \A d : Uses(p, d) => Uses(p, d)'

(* A sequence of entries with one of them, if it exists, replaced.            *)
LEMMA EntryReplaced ==
  ASSUME NEW s \in Seq(Entry), NEW r, NEW e, r \in DOMAIN s => e \in Entry,
         NEW t, t = [s EXCEPT ![r] = e]
  PROVE  /\ t \in Seq(Entry) /\ DOMAIN t = DOMAIN s /\ Len(t) = Len(s)
         /\ \A k \in DOMAIN s : t[k] = IF k = r THEN e ELSE s[k]
<1>1. DOMAIN t = DOMAIN s /\ \A k \in DOMAIN s : t[k] = IF k = r THEN e ELSE s[k]
  OBVIOUS
<1>2. Len(s) \in Nat /\ DOMAIN s = 1 .. Len(s) /\ \A k \in DOMAIN s : s[k] \in Entry
  OBVIOUS
<1>3. \A k \in DOMAIN s : t[k] \in Entry
  BY <1>1, <1>2
<1>4. t \in [1 .. Len(s) -> Entry]
  BY <1>1, <1>2, <1>3
<1>5. t \in Seq(Entry) /\ Len(t) = Len(s)
  BY <1>2, <1>4
<1>6. QED
  BY <1>1, <1>5

(* What the other processes look like follows from what they looked like.     *)
LEMMA ProcessFrame ==
  ASSUME ProcessInv, NEW p \in Procs, OthersKept(p), Lists(p)'
  PROVE  ProcessInv'
<1>1. \A q \in Procs \ {p} : Lists(q)'
  BY DEF ProcessInv, Lists, OthersKept
<1>2. \A q \in Procs : Lists(q)'
  BY <1>1
<1>3. QED
  BY <1>2 DEF ProcessInv, OthersKept

(* A step that only begins, goes on with or ends a call.                      *)
LEMMA CallFacts ==
  ASSUME OpenInv, NEW p \in live, NEW c \in Call, call' = [call EXCEPT ![p] = c],
         UNCHANGED <<live, parent, entry, open_files>>
  PROVE  OthersKept(p) /\ Lists(p)' /\ UsesKept(p) /\ call'[p] = c
<1>1. p \in Procs
  BY DEF OpenInv, TypeOK
<1>2. OthersKept(p) /\ call'[p] = c
  BY <1>1 DEF OthersKept, OpenInv, TypeOK
<1>3. Lists(p)'
  BY <1>1, <1>2, OpenInvParts DEF Lists, ProcessInv
<1>4. UsesKept(p)
  BY DEF UsesKept, Uses, At
<1>5. QED
  BY <1>2, <1>3, <1>4

(* fopen opens the file in the file system and will register it.              *)
LEMMA FopenFacts ==
  ASSUME OpenInv, NEW p \in Procs, NEW f \in Files, fopen(p, f)
  PROVE  /\ OthersKept(p) /\ Lists(p)' /\ UsesKept(p)
         /\ p \in live
         /\ call'[p].step = "register" /\ call'[p].fd = DescriptorOf(f)
<1>1. DescriptorOf(f) \in Nat
  BY OpenFacts DEF OpenInv
<1> DEFINE c == [NoCall EXCEPT !.step = "register", !.fd = DescriptorOf(f)]
<1>2. c \in Call /\ c.step = "register" /\ c.fd = DescriptorOf(f)
  BY <1>1 DEF NoCall, Call
<1> HIDE DEF c
<1>3. call' = [call EXCEPT ![p] = c] /\ p \in live
  BY DEF fopen, Ready, c
<1>4. UNCHANGED <<live, parent, entry, open_files>>
  BY DEF fopen
<1>5. QED
  BY <1>2, <1>3, <1>4, CallFacts

\* An action gives p new lists; c is left of its call.
Becomes(p, es, rs, c) ==
  /\ UNCHANGED <<live, parent>>
  /\ entry' = [entry EXCEPT ![p] = es]
  /\ open_files' = [open_files EXCEPT ![p] = rs]
  /\ call' = [call EXCEPT ![p] = c]

(* What is left of the call.                                                  *)
LEMMA BecomesCall ==
  ASSUME OpenInv, NEW p \in live, NEW es, NEW rs, NEW c, Becomes(p, es, rs, c)
  PROVE  call'[p] = c
BY DEF Becomes, OpenInv, TypeOK

(* New lists of p change nothing for the others.                              *)
LEMMA BecomesFacts ==
  ASSUME OpenInv, NEW p \in live, NEW es \in Seq(Entry), NEW rs \in Seq(Nat),
         NEW c \in Call, Becomes(p, es, rs, c),
         Len(rs) >= 2, \A v \in DOMAIN rs : rs[v] \in DOMAIN es
  PROVE  /\ OthersKept(p) /\ Lists(p)'
         /\ entry'[p] = es /\ open_files'[p] = rs
<1>1. p \in Procs
  BY DEF OpenInv, TypeOK
<1>2. OthersKept(p) /\ entry'[p] = es /\ open_files'[p] = rs /\ call'[p] = c
  BY <1>1 DEF OthersKept, OpenInv, TypeOK, Becomes
<1>3. Lists(p)'
  BY <1>1, <1>2 DEF Lists, OthersKept
<1>4. QED
  BY <1>2, <1>3

(* To keep what is open it is enough to keep the entries in use.              *)
LEMMA UsesKeptBy ==
  ASSUME NEW p, \A w \in DOMAIN open_files[p] :
           entry[p][open_files[p][w]].used =>
             /\ w \in DOMAIN open_files'[p]
             /\ entry'[p][open_files'[p][w]].used
             /\ entry'[p][open_files'[p][w]].fd = entry[p][open_files[p][w]].fd
  PROVE  UsesKept(p)
<1>1. SUFFICES ASSUME NEW d, Uses(p, d) PROVE Uses(p, d)'
  BY DEF UsesKept
<1>2. PICK w \in DOMAIN open_files[p] :
        entry[p][open_files[p][w]].used /\ entry[p][open_files[p][w]].fd = d
  BY <1>1 DEF Uses, At
<1>3. QED
  BY <1>2 DEF Uses, At

(* One position is enough to have a descriptor open.                          *)
LEMMA UsesBy ==
  ASSUME NEW p, NEW w, NEW e, w \in DOMAIN open_files'[p],
         entry'[p][open_files'[p][w]] = e, e.used, NEW d, e.fd = d
  PROVE  Uses(p, d)'
BY DEF Uses, At

(* Between calls.                                                             *)
LEMMA NoCallFacts == NoCall \in Call /\ NoCall.step = "none"
BY DEF NoCall, Call

(* What the lists of a process are made of.                                   *)
LEMMA ListTypes ==
  ASSUME OpenInv, NEW p \in Procs
  PROVE  /\ entry[p] \in Seq(Entry) /\ Len(entry[p]) \in Nat
         /\ DOMAIN entry[p] = 1 .. Len(entry[p])
         /\ \A r \in DOMAIN entry[p] : entry[p][r] \in Entry
         /\ open_files[p] \in Seq(Nat) /\ Len(open_files[p]) \in Nat
         /\ DOMAIN open_files[p] = 1 .. Len(open_files[p])
         /\ \A w \in DOMAIN open_files[p] : open_files[p][w] \in DOMAIN entry[p]
         /\ \A w \in DOMAIN open_files[p] : At(p, w) \in Entry
         /\ call[p] \in Call
         /\ p \in live => Len(open_files[p]) >= 2
         /\ call[p] # NoCall => p \in live
         /\ call[p].step # "none" => p \in live
BY NoCallFacts DEF OpenInv, TypeOK, LiveLists, At

(* The call is registered in the list of p, and no entry in use is lost.      *)
LEMMA RegisterFacts ==
  ASSUME OpenInv, NEW p \in Procs, Register(p)
  PROVE  /\ OthersKept(p) /\ Lists(p)' /\ UsesKept(p)
         /\ p \in live
         /\ call'[p] = NoCall /\ \A d : d = call[p].fd => Uses(p, d)'
<1> DEFINE new == [used |-> TRUE, fd |-> call[p].fd, offset |-> 0]
           es == entry[p]
           rs == open_files[p]
           v == FirstUnused(p)
           last == Len(es) + 1
<1>1. /\ es \in Seq(Entry) /\ Len(es) \in Nat /\ DOMAIN es = 1 .. Len(es)
      /\ rs \in Seq(Nat) /\ Len(rs) \in Nat /\ DOMAIN rs = 1 .. Len(rs)
      /\ \A w \in DOMAIN rs : rs[w] \in DOMAIN es
      /\ call[p] \in Call
  BY ListTypes
<1>2. new \in Entry /\ new.used /\ new.fd = call[p].fd
  BY <1>1 DEF Entry, Call
<1>3. p \in live /\ Len(rs) >= 2
  BY ListTypes DEF Register
<1>5. CASE v = 0
  <2> DEFINE es1 == Append(es, new)
             rs1 == rs \o <<last, last>>
  <2>1. Becomes(p, es1, rs1, NoCall)
    BY <1>5, Zenon DEF Register, Becomes
  <2> HIDE DEF new, v
  <2>2. /\ es1 \in Seq(Entry) /\ DOMAIN es1 = 1 .. Len(es) + 1
        /\ es1[last] = new /\ \A r \in DOMAIN es : es1[r] = es[r]
    BY <1>1, <1>2, AppendProperties
  <2>3. /\ rs1 \in Seq(Nat) /\ Len(rs1) = Len(rs) + 2
        /\ DOMAIN rs1 = 1 .. Len(rs) + 2
        /\ \A w \in 1 .. Len(rs) : rs1[w] = rs[w]
        /\ rs1[Len(rs) + 1] = last /\ rs1[Len(rs) + 2] = last
    <3> HIDE DEF es, rs
    <3>1. QED
      BY <1>1
  <2> HIDE DEF es1, rs1, es, rs
  <2>4. \A w \in DOMAIN rs1 : rs1[w] \in DOMAIN es1
    <3>1. SUFFICES ASSUME NEW w \in 1 .. Len(rs) + 2 PROVE rs1[w] \in 1 .. Len(es) + 1
      BY <2>2, <2>3
    <3>2. CASE w \in 1 .. Len(rs)
      <4>1. rs[w] \in 1 .. Len(es)
        BY <1>1, <3>2
      <4>2. QED
        BY <1>1, <2>3, <3>2, <4>1
    <3>3. CASE w \in {Len(rs) + 1, Len(rs) + 2}
      BY <1>1, <2>3, <3>3
    <3>4. QED
      BY <1>1, <3>1, <3>2, <3>3
  <2>5. Len(rs1) >= 2
    BY <1>1, <2>3
  <2>6. OthersKept(p) /\ Lists(p)' /\ entry'[p] = es1 /\ open_files'[p] = rs1
    <3>1. OthersKept(p)
      BY <1>3, <2>1, <2>2, <2>3, <2>4, <2>5, NoCallFacts, BecomesFacts, Zenon
    <3>2. Lists(p)'
      BY <1>3, <2>1, <2>2, <2>3, <2>4, <2>5, NoCallFacts, BecomesFacts, Zenon
    <3>3. entry'[p] = es1 /\ open_files'[p] = rs1
      BY <2>1 DEF Becomes, OpenInv, TypeOK
    <3>4. QED
      BY <3>1, <3>2, <3>3
  <2>7. Len(rs) + 1 \in DOMAIN rs1 /\ es1[rs1[Len(rs) + 1]] = new
    BY <1>1, <2>2, <2>3
  <2>8. ASSUME NEW d, d = call[p].fd PROVE Uses(p, d)'
    BY <1>2, <2>6, <2>7, <2>8, UsesBy
  <2>9. \A w \in DOMAIN rs : w \in DOMAIN rs1 /\ es1[rs1[w]] = es[rs[w]]
    BY <1>1, <2>2, <2>3
  <2>10. UsesKept(p)
    BY <2>6, <2>9, UsesKeptBy DEF rs, es
  <2>11. call'[p] = NoCall
    BY <1>3, <2>1, BecomesCall
  <2>12. QED
    BY <1>3, <2>6, <2>8, <2>10, <2>11
<1>6. CASE v # 0
  <2> DEFINE r == rs[v]
             es1 == [es EXCEPT ![r] = new]
             rs1 == Append(rs, r)
  <2>1. Becomes(p, es1, rs1, NoCall)
    BY <1>6, Zenon DEF Register, Becomes
  <2>2. v \in DOMAIN rs /\ ~es[r].used
    BY <1>6, FirstUnusedFacts DEF OpenInv, At
  <2>3. r \in DOMAIN es /\ r \in Nat
    BY <1>1, <2>2
  <2> HIDE DEF es, rs, v, new, r
  <2>4. /\ es1 \in Seq(Entry) /\ DOMAIN es1 = DOMAIN es
        /\ \A k \in DOMAIN es : es1[k] = IF k = r THEN new ELSE es[k]
    BY <1>1, <1>2, <2>3, EntryReplaced
  <2>5. /\ rs1 \in Seq(Nat) /\ Len(rs1) = Len(rs) + 1
        /\ DOMAIN rs1 = 1 .. Len(rs) + 1
        /\ \A w \in 1 .. Len(rs) : rs1[w] = rs[w]
        /\ rs1[Len(rs) + 1] = r
    BY <1>1, <2>3, AppendProperties
  <2> HIDE DEF es1, rs1
  <2>6. \A w \in DOMAIN rs1 : rs1[w] \in DOMAIN es1
    <3>1. SUFFICES ASSUME NEW w \in 1 .. Len(rs) + 1 PROVE rs1[w] \in DOMAIN es
      BY <2>4, <2>5
    <3>2. CASE w \in 1 .. Len(rs)
      BY <1>1, <2>5, <3>2
    <3>3. CASE w = Len(rs) + 1
      BY <2>3, <2>5, <3>3
    <3>4. QED
      BY <1>1, <3>1, <3>2, <3>3
  <2>7. Len(rs1) >= 2
    BY <1>1, <2>5, <1>3
  <2>8. OthersKept(p) /\ Lists(p)' /\ entry'[p] = es1 /\ open_files'[p] = rs1
    <3>1. OthersKept(p)
      BY <1>3, <2>1, <2>4, <2>5, <2>6, <2>7, NoCallFacts, BecomesFacts, Zenon
    <3>2. Lists(p)'
      BY <1>3, <2>1, <2>4, <2>5, <2>6, <2>7, NoCallFacts, BecomesFacts, Zenon
    <3>3. entry'[p] = es1 /\ open_files'[p] = rs1
      BY <2>1 DEF Becomes, OpenInv, TypeOK
    <3>4. QED
      BY <3>1, <3>2, <3>3
  <2>9. Len(rs) + 1 \in DOMAIN rs1 /\ es1[rs1[Len(rs) + 1]] = new
    BY <1>1, <2>3, <2>4, <2>5
  <2>10. ASSUME NEW d, d = call[p].fd PROVE Uses(p, d)'
    BY <1>2, <2>8, <2>9, <2>10, UsesBy
  <2>11. \A w \in DOMAIN rs : es[rs[w]].used => w \in DOMAIN rs1 /\ es1[rs1[w]] = es[rs[w]]
    BY <1>1, <2>2, <2>4, <2>5 DEF r
  <2>12. UsesKept(p)
    BY <2>8, <2>11, UsesKeptBy DEF rs, es
  <2>13. call'[p] = NoCall
    BY <1>3, <2>1, BecomesCall
  <2>14. QED
    BY <1>3, <2>8, <2>10, <2>12, <2>13
<1>7. QED
  BY <1>5, <1>6

\* An action replaces one entry of p.
Replaces(p, r, e, c) == Becomes(p, [entry[p] EXCEPT ![r] = e], open_files[p], c)

(* One entry of p is replaced.  What p has open it keeps, if the new entry    *)
(* names the same descriptor or the old one was not in use, but for what the  *)
(* old entry named.                                                           *)
LEMMA ReplaceFacts ==
  ASSUME OpenInv, NEW p \in live, NEW r, NEW e, NEW c \in Call,
         r \in DOMAIN entry[p] => e \in Entry, Replaces(p, r, e, c)
  PROVE  /\ OthersKept(p) /\ Lists(p)'
         /\ open_files'[p] = open_files[p] /\ call'[p] = c
         /\ DOMAIN entry'[p] = DOMAIN entry[p]
         /\ \A k \in DOMAIN entry[p] :
              entry'[p][k] = IF k = r THEN e ELSE entry[p][k]
         /\ \A d : Uses(p, d) /\ d # entry[p][r].fd => Uses(p, d)'
         /\ (r \in DOMAIN entry[p] => e.used = entry[p][r].used /\ e.fd = entry[p][r].fd)
              => UsesKept(p)
         /\ ~entry[p][r].used => UsesKept(p)
<1> DEFINE rs == open_files[p]
           es == [entry[p] EXCEPT ![r] = e]
<1>1. p \in Procs
  BY DEF OpenInv, TypeOK
<1>2. /\ entry[p] \in Seq(Entry) /\ rs \in Seq(Nat) /\ Len(rs) >= 2
      /\ \A w \in DOMAIN rs : rs[w] \in DOMAIN entry[p]
  BY <1>1, ListTypes
<1>3. /\ es \in Seq(Entry) /\ DOMAIN es = DOMAIN entry[p]
      /\ \A k \in DOMAIN entry[p] : es[k] = IF k = r THEN e ELSE entry[p][k]
  BY <1>2, EntryReplaced
<1>4. \A w \in DOMAIN rs : rs[w] \in DOMAIN es
  BY <1>2, <1>3
<1>5. OthersKept(p) /\ Lists(p)' /\ entry'[p] = es /\ open_files'[p] = rs
  <2>1. c \in Call /\ p \in live /\ OpenInv /\ Becomes(p, es, rs, c)
    BY DEF Replaces
  <2> HIDE DEF rs, es
  <2>2. OthersKept(p)
    BY <1>2, <1>3, <1>4, <2>1, BecomesFacts, Zenon
  <2>3. Lists(p)'
    BY <1>2, <1>3, <1>4, <2>1, BecomesFacts, Zenon
  <2>4. entry'[p] = es /\ open_files'[p] = rs
    BY <1>2, <1>3, <1>4, <2>1, BecomesFacts, Zenon
  <2>5. QED
    BY <2>2, <2>3, <2>4
<1>6. ASSUME NEW d, Uses(p, d), d # entry[p][r].fd PROVE Uses(p, d)'
  <2>1. PICK w \in DOMAIN rs : entry[p][rs[w]].used /\ entry[p][rs[w]].fd = d
    BY <1>6 DEF Uses, At
  <2>2. es[rs[w]] = entry[p][rs[w]]
    BY <1>2, <1>3, <1>6, <2>1
  <2>3. QED
    BY <1>5, <2>1, <2>2 DEF Uses, At
<1>7. (r \in DOMAIN entry[p] => e.used = entry[p][r].used /\ e.fd = entry[p][r].fd)
        => UsesKept(p)
  <2> SUFFICES ASSUME r \in DOMAIN entry[p] => e.used = entry[p][r].used /\ e.fd = entry[p][r].fd
               PROVE  UsesKept(p)
    OBVIOUS
  <2>1. \A w \in DOMAIN rs :
          es[rs[w]].used = entry[p][rs[w]].used /\ es[rs[w]].fd = entry[p][rs[w]].fd
    BY <1>2, <1>3
  <2> HIDE DEF es
  <2>2. QED
    BY <1>5, <2>1, UsesKeptBy
<1>8. ~entry[p][r].used => UsesKept(p)
  <2> SUFFICES ASSUME ~entry[p][r].used PROVE UsesKept(p)
    OBVIOUS
  <2>1. \A w \in DOMAIN rs : entry[p][rs[w]].used => es[rs[w]] = entry[p][rs[w]]
    BY <1>2, <1>3
  <2> HIDE DEF es
  <2>2. QED
    BY <1>5, <2>1, UsesKeptBy
<1>9. call'[p] = c
  BY BecomesCall DEF Replaces
<1>10. QED
  BY <1>3, <1>5, <1>6, <1>7, <1>8, <1>9

(* fread and fwrite seek the descriptor of their entry.                       *)
LEMMA SeekStep ==
  ASSUME OpenInv, NEW p \in Procs, NEW v \in Nat, Seek(p, v)
  PROVE  /\ OthersKept(p) /\ Lists(p)' /\ UsesKept(p) /\ p \in live
         /\ entry' = entry
         /\ call'[p].step = "transfer" /\ call'[p].ref = open_files[p][v]
<1> DEFINE c == [NoCall EXCEPT !.step = "transfer", !.ref = open_files[p][v]]
<1>1. open_files[p][v] \in Nat /\ p \in live
  BY ListTypes DEF Seek, Ready
<1>2. c \in Call /\ c.step = "transfer" /\ c.ref = open_files[p][v]
  BY <1>1 DEF NoCall, Call
<1> HIDE DEF c
<1>3. call' = [call EXCEPT ![p] = c] /\ UNCHANGED <<live, parent, entry, open_files>>
  BY DEF Seek, c
<1>4. QED
  BY <1>1, <1>2, <1>3, CallFacts

(* A transfer moves the entry's offset.                                       *)
LEMMA TransferFacts ==
  ASSUME OpenInv, NEW p \in Procs, NEW n \in 0 .. 1, Transfer(p, n)
  PROVE  OthersKept(p) /\ Lists(p)' /\ UsesKept(p) /\ p \in live /\ call'[p] = NoCall
<1> DEFINE r == call[p].ref
           e == [entry[p][r] EXCEPT !.offset = @ + n]
<1>1. p \in live
  BY ListTypes DEF Transfer
<1>2. r \in DOMAIN entry[p] => e \in Entry
  <2>1. r \in DOMAIN entry[p] => entry[p][r] \in Entry
    BY ListTypes
  <2>2. QED
    BY <2>1 DEF Entry
<1>3. Replaces(p, r, e, NoCall)
  BY DEF Transfer, Replaces, Becomes, OpenInv, TypeOK
<1>4. r \in DOMAIN entry[p] => e.used = entry[p][r].used /\ e.fd = entry[p][r].fd
  BY ListTypes DEF Entry
<1> HIDE DEF r, e
<1>5. QED
  BY <1>1, <1>2, <1>3, <1>4, NoCallFacts, ReplaceFacts

(* What fclose decides.                                                       *)
LEMMA FcloseFacts ==
  ASSUME OpenInv, NEW p \in Procs, NEW v \in Nat, NEW from \in Nat,
         fclose(p, v, from)
  PROVE  /\ OthersKept(p) /\ Lists(p)' /\ UsesKept(p) /\ p \in live
         /\ v \in DOMAIN open_files[p] /\ entry' = entry
         /\ call'[p].step = IF UsedByOther(p, At(p, v).fd) THEN "unuse" ELSE "close"
         /\ call'[p].fd = At(p, v).fd /\ call'[p].ref = open_files[p][v]
<1> DEFINE c == [step |-> IF KeepOpen(p, At(p, v).fd) THEN "unuse" ELSE "close",
                 fd |-> At(p, v).fd, ref |-> open_files[p][v], from |-> from]
<1>1. v \in DOMAIN open_files[p] /\ p \in live
  BY DEF fclose, Ready
<1>2. open_files[p][v] \in Nat /\ At(p, v) \in Entry
  BY <1>1, ListTypes
<1>3. At(p, v).fd \in Nat
  BY <1>2 DEF Entry
<1>4. c \in Call
  BY <1>2, <1>3 DEF Call
<1>5. /\ c.step = IF UsedByOther(p, At(p, v).fd) THEN "unuse" ELSE "close"
      /\ c.fd = At(p, v).fd /\ c.ref = open_files[p][v]
  BY DEF KeepOpen
<1>6. call' = [call EXCEPT ![p] = c] /\ UNCHANGED <<live, parent, entry, open_files>>
  BY DEF fclose
<1> HIDE DEF c
<1>7. OthersKept(p) /\ Lists(p)' /\ UsesKept(p) /\ call'[p] = c
  BY <1>1, <1>4, <1>6, CallFacts
<1>8. QED
  BY <1>1, <1>5, <1>6, <1>7

(* The descriptor is closed, the entry is in use still.                       *)
LEMMA CloseStep ==
  ASSUME OpenInv, NEW p \in Procs, Close(p)
  PROVE  /\ OthersKept(p) /\ Lists(p)' /\ UsesKept(p) /\ p \in live
         /\ entry' = entry
         /\ call'[p] = [call[p] EXCEPT !.step = "unuse"]
<1> DEFINE c == [call[p] EXCEPT !.step = "unuse"]
<1>1. p \in live /\ call[p] \in Call
  BY ListTypes DEF Close
<1>2. c \in Call
  BY <1>1 DEF Call
<1>3. call' = [call EXCEPT ![p] = c] /\ UNCHANGED <<live, parent, entry, open_files>>
  BY DEF Close
<1>4. QED
  <2> HIDE DEF c
  <2>1. OthersKept(p) /\ Lists(p)' /\ UsesKept(p) /\ call'[p] = c
    BY <1>1, <1>2, <1>3, CallFacts
  <2>2. QED
    BY <1>1, <1>3, <2>1 DEF c

(* The entry is not in use any more.                                          *)
LEMMA UnuseFacts ==
  ASSUME OpenInv, NEW p \in Procs, Unuse(p)
  PROVE  LET r == call[p].ref
         IN  /\ OthersKept(p) /\ Lists(p)' /\ p \in live
             /\ open_files'[p] = open_files[p] /\ DOMAIN entry'[p] = DOMAIN entry[p]
             /\ r \in DOMAIN entry[p] => ~entry'[p][r].used
             /\ \A d : Uses(p, d) /\ d # entry[p][r].fd => Uses(p, d)'
             /\ \/ call'[p] = NoCall
                \/ call'[p].step = "copy" /\ call'[p].ref = r
<1> DEFINE r == call[p].ref
           e == [entry[p][r] EXCEPT !.used = FALSE]
           c == IF call[p].from = 0 THEN NoCall ELSE [call[p] EXCEPT !.step = "copy"]
<1>1. p \in live /\ call[p] \in Call
  BY ListTypes DEF Unuse
<1>2. c \in Call
  BY <1>1, NoCallFacts DEF Call
<1>3. r \in DOMAIN entry[p] => e \in Entry /\ ~e.used
  <2>1. r \in DOMAIN entry[p] => entry[p][r] \in Entry
    BY ListTypes
  <2>2. QED
    BY <2>1 DEF Entry
<1>4. Replaces(p, r, e, c)
  BY DEF Unuse, Replaces, Becomes, OpenInv, TypeOK
<1>5. c = NoCall \/ (c.step = "copy" /\ c.ref = r)
  <2>1. [call[p] EXCEPT !.step = "copy"].step = "copy"
    BY <1>1 DEF Call
  <2>2. [call[p] EXCEPT !.step = "copy"].ref = r
    BY <1>1 DEF Call
  <2>3. c = NoCall \/ c = [call[p] EXCEPT !.step = "copy"]
    OBVIOUS
  <2> HIDE DEF c, r
  <2>4. QED
    BY <2>1, <2>2, <2>3
<1> HIDE DEF r, e, c
<1>6. /\ OthersKept(p) /\ Lists(p)'
      /\ open_files'[p] = open_files[p] /\ call'[p] = c
      /\ DOMAIN entry'[p] = DOMAIN entry[p]
      /\ \A k \in DOMAIN entry[p] :
           entry'[p][k] = IF k = r THEN e ELSE entry[p][k]
      /\ \A d : Uses(p, d) /\ d # entry[p][r].fd => Uses(p, d)'
  BY <1>1, <1>2, <1>3, <1>4, ReplaceFacts
<1>7. r \in DOMAIN entry[p] => ~entry'[p][r].used
  BY <1>3, <1>6
<1>8. QED
  BY <1>1, <1>5, <1>6, <1>7 DEF r

(* What is copied goes into an entry that is not in use.                      *)
LEMMA CopyFacts ==
  ASSUME OpenInv, NEW p \in Procs, Copy(p)
  PROVE  /\ OthersKept(p) /\ Lists(p)' /\ p \in live /\ call'[p] = NoCall
         /\ ~entry[p][call[p].ref].used => UsesKept(p)
<1> DEFINE r == call[p].ref
<1>1. p \in live
  BY ListTypes DEF Copy
<1>2. CASE call[p].from \in DOMAIN open_files[p]
  <2> DEFINE e == At(p, call[p].from)
  <2>1. e \in Entry
    BY <1>2, ListTypes
  <2>2. Replaces(p, r, e, NoCall)
    BY <1>2 DEF Copy, Replaces, Becomes, OpenInv, TypeOK
  <2> HIDE DEF r, e
  <2>3. /\ OthersKept(p) /\ Lists(p)' /\ call'[p] = NoCall
        /\ ~entry[p][r].used => UsesKept(p)
    BY <1>1, <2>1, <2>2, NoCallFacts, ReplaceFacts
  <2>4. QED
    BY <1>1, <2>3 DEF r
<1>3. CASE call[p].from \notin DOMAIN open_files[p]
  <2>1. call' = [call EXCEPT ![p] = NoCall] /\ UNCHANGED <<live, parent, entry, open_files>>
    BY <1>3 DEF Copy
  <2>2. QED
    BY <1>1, <2>1, NoCallFacts, CallFacts
<1>4. QED
  BY <1>2, <1>3

(* dup fills an entry that is not in use, or a new one.                       *)
LEMMA AppendFacts ==
  ASSUME OpenInv, NEW p \in live, NEW e \in Entry, call[p] = NoCall,
         UNCHANGED <<live, parent, call>>,
         entry' = [entry EXCEPT ![p] = Append(@, e)],
         open_files' = [open_files EXCEPT ![p] = Append(@, Len(entry[p]) + 1)]
  PROVE  OthersKept(p) /\ Lists(p)' /\ UsesKept(p)
<1> DEFINE es == entry[p]
           rs == open_files[p]
           es1 == Append(es, e)
           rs1 == Append(rs, Len(es) + 1)
<1>1. p \in Procs
  BY DEF OpenInv, TypeOK
<1>2. Becomes(p, es1, rs1, NoCall)
  BY <1>1 DEF Becomes, OpenInv, TypeOK
<1>3. /\ es \in Seq(Entry) /\ Len(es) \in Nat /\ DOMAIN es = 1 .. Len(es)
      /\ rs \in Seq(Nat) /\ Len(rs) \in Nat /\ DOMAIN rs = 1 .. Len(rs)
      /\ \A w \in DOMAIN rs : rs[w] \in DOMAIN es
      /\ Len(rs) >= 2
  BY <1>1, ListTypes
<1> HIDE DEF es, rs
<1>4. /\ es1 \in Seq(Entry) /\ DOMAIN es1 = 1 .. Len(es) + 1
      /\ \A r \in DOMAIN es : es1[r] = es[r]
  BY <1>3, AppendProperties
<1>5. /\ rs1 \in Seq(Nat) /\ Len(rs1) = Len(rs) + 1 /\ DOMAIN rs1 = 1 .. Len(rs) + 1
      /\ \A w \in 1 .. Len(rs) : rs1[w] = rs[w]
      /\ rs1[Len(rs) + 1] = Len(es) + 1
  BY <1>3, AppendProperties
<1> HIDE DEF es1, rs1
<1>6. \A w \in DOMAIN rs1 : rs1[w] \in DOMAIN es1
  <2>1. SUFFICES ASSUME NEW w \in 1 .. Len(rs) + 1 PROVE rs1[w] \in 1 .. Len(es) + 1
    BY <1>4, <1>5
  <2>2. CASE w \in 1 .. Len(rs)
    <3>1. rs[w] \in 1 .. Len(es)
      BY <1>3, <2>2
    <3>2. QED
      BY <1>3, <1>5, <2>2, <3>1
  <2>3. CASE w = Len(rs) + 1
    BY <1>3, <1>5, <2>3
  <2>4. QED
    BY <1>3, <2>1, <2>2, <2>3
<1>7. Len(rs1) >= 2
  BY <1>3, <1>5
<1>8. OthersKept(p) /\ Lists(p)' /\ entry'[p] = es1 /\ open_files'[p] = rs1
  <2>1. OthersKept(p)
    BY <1>2, <1>4, <1>5, <1>6, <1>7, NoCallFacts, BecomesFacts, Zenon
  <2>2. Lists(p)'
    BY <1>2, <1>4, <1>5, <1>6, <1>7, NoCallFacts, BecomesFacts, Zenon
  <2>3. entry'[p] = es1 /\ open_files'[p] = rs1
    BY <1>1, <1>2 DEF Becomes, OpenInv, TypeOK
  <2>4. QED
    BY <2>1, <2>2, <2>3
<1>9. \A w \in DOMAIN rs : w \in DOMAIN rs1 /\ es1[rs1[w]] = es[rs[w]]
  <2> SUFFICES ASSUME NEW w \in DOMAIN rs PROVE w \in DOMAIN rs1 /\ es1[rs1[w]] = es[rs[w]]
    OBVIOUS
  <2>1. w \in DOMAIN rs1 /\ rs1[w] = rs[w]
    <3>1. w \in 1 .. Len(rs) /\ w \in 1 .. Len(rs) + 1
      BY <1>3
    <3>2. QED
      BY <1>5, <3>1
  <2>2. es1[rs[w]] = es[rs[w]]
    BY <1>3, <1>4
  <2>3. QED
    BY <2>1, <2>2
<1>10. UsesKept(p)
  BY <1>8, <1>9, UsesKeptBy DEF rs, es
<1>11. QED
  BY <1>8, <1>10

(* dup does not take away what is open.                                       *)
LEMMA DupFacts ==
  ASSUME OpenInv, NEW p \in Procs, NEW v \in Nat, dup(p, v)
  PROVE  OthersKept(p) /\ Lists(p)' /\ UsesKept(p) /\ call' = call /\ p \in live
<1> DEFINE u == FirstUnused(p)
<1>1. p \in live /\ call[p] = NoCall /\ v \in DOMAIN open_files[p] /\ call' = call
  BY DEF dup, Ready
<1>2. At(p, v) \in Entry
  BY <1>1, ListTypes
<1>3. CASE u = 0
  BY <1>1, <1>2, <1>3, AppendFacts DEF dup
<1>4. CASE u # 0
  <2> DEFINE r == open_files[p][u]
             e == At(p, v)
  <2>1. ~entry[p][r].used
    BY <1>4, FirstUnusedFacts DEF OpenInv, At
  <2>2. Replaces(p, r, e, NoCall)
    BY <1>1, <1>4 DEF dup, Replaces, Becomes, OpenInv, TypeOK
  <2> HIDE DEF r, e
  <2>3. OthersKept(p) /\ Lists(p)' /\ UsesKept(p)
    BY <1>1, <1>2, <2>1, <2>2, NoCallFacts, ReplaceFacts DEF e
  <2>4. QED
    BY <1>1, <2>3
<1>5. QED
  BY <1>3, <1>4

(* Nor does it if there is nothing to copy.                                   *)
LEMMA DupMissingFacts ==
  ASSUME OpenInv, NEW p \in Procs, NEW g \in Garbage[p], DupMissing(p, g)
  PROVE  OthersKept(p) /\ Lists(p)' /\ UsesKept(p) /\ call' = call /\ p \in live
<1>1. g \in Entry
  BY GarbageAssumption DEF Entry
<1>2. p \in live /\ call[p] = NoCall /\ call' = call
  BY DEF DupMissing, Ready
<1>3. QED
  BY <1>1, <1>2, AppendFacts DEF DupMissing

(* A new process starts with two entries that are in use.                     *)
LEMMA ExecuteFacts ==
  ASSUME OpenInv, NEW p \in Procs, NEW c \in Procs, NEW f \in Files, execute(p, c, f)
  PROVE  /\ ProcessInv' /\ call' = call /\ live \subseteq live' /\ p \in live
         /\ \A q \in live : \A d : Uses(q, d) => Uses(q, d)'
<1> DEFINE one == [used |-> TRUE, fd |-> At(p, 1).fd, offset |-> At(p, 1).offset]
           two == [used |-> TRUE, fd |-> At(p, 2).fd, offset |-> At(p, 2).offset]
<1>1. p \in live /\ c \notin live /\ call[c] = NoCall
  BY DEF execute, Ready, OpenInv, LiveLists
<1>2. At(p, 1) \in Entry /\ At(p, 2) \in Entry
  <2>1. 1 \in DOMAIN open_files[p] /\ 2 \in DOMAIN open_files[p]
    BY <1>1, ListTypes
  <2>2. QED
    BY <2>1, ListTypes
<1>3. one \in Entry /\ two \in Entry
  BY <1>2 DEF Entry
<1>4. /\ live' = live \cup {c} /\ parent' = [parent EXCEPT ![c] = p]
      /\ entry' = [entry EXCEPT ![c] = <<one, two>>]
      /\ open_files' = [open_files EXCEPT ![c] = <<1, 2>>]
      /\ call' = call
  BY DEF execute
<1> HIDE DEF one, two
<1>5. /\ <<one, two>> \in Seq(Entry) /\ DOMAIN <<one, two>> = 1 .. 2
      /\ <<1, 2>> \in Seq(Nat) /\ Len(<<1, 2>>) = 2
      /\ \A v \in DOMAIN <<1, 2>> : <<1, 2>>[v] \in 1 .. 2
  BY <1>3
<1>6. entry'[c] = <<one, two>> /\ open_files'[c] = <<1, 2>>
  BY <1>4 DEF OpenInv, TypeOK
<1>7. Lists(c)'
  <2>1. call'[c] = NoCall /\ c \in live'
    BY <1>1, <1>4
  <2>2. QED
    BY <1>5, <1>6, <2>1, NoCallFacts DEF Lists
<1>8. \A q \in Procs \ {c} : entry'[q] = entry[q] /\ open_files'[q] = open_files[q]
  BY <1>4 DEF OpenInv, TypeOK
<1>9. \A q \in Procs \ {c} : Lists(q)'
  BY <1>4, <1>8, OpenInvParts DEF ProcessInv, Lists
<1>10. /\ live' \subseteq Procs /\ parent' \in [Procs -> Procs \cup {NULL}]
       /\ entry' = [q \in Procs |-> entry'[q]]
       /\ open_files' = [q \in Procs |-> open_files'[q]]
       /\ call' = [q \in Procs |-> call'[q]]
  BY <1>4 DEF OpenInv, TypeOK
<1>11. ProcessInv'
  BY <1>7, <1>9, <1>10 DEF ProcessInv
<1>12. \A q \in live : \A d : Uses(q, d) => Uses(q, d)'
  <2>1. SUFFICES ASSUME NEW q \in live, NEW d, Uses(q, d) PROVE Uses(q, d)'
    OBVIOUS
  <2>2. q \in Procs \ {c}
    BY <1>1, <2>1 DEF OpenInv, TypeOK
  <2>3. QED
    BY <1>8, <2>1, <2>2 DEF Uses, At
<1>13. QED
  BY <1>1, <1>4, <1>11, <1>12

(* exit takes p away, and nothing from the others.                            *)
LEMMA ExitFacts ==
  ASSUME OpenInv, NEW p \in Procs, exit(p)
  PROVE  /\ ProcessInv' /\ call' = call /\ live' = live \ {p} /\ p \in live
         /\ \A q \in live \ {p} : \A d : Uses(q, d) => Uses(q, d)'
<1>1. p \in live /\ call[p] = NoCall
  BY DEF exit, Ready
<1>2. /\ live' = live \ {p} /\ parent' = [parent EXCEPT ![p] = NULL]
      /\ entry' = [entry EXCEPT ![p] = <<>>]
      /\ open_files' = [open_files EXCEPT ![p] = <<>>]
      /\ call' = call
  BY DEF exit
<1>3. entry'[p] = <<>> /\ open_files'[p] = <<>>
  BY <1>2 DEF OpenInv, TypeOK
<1>4. Lists(p)'
  <2>1. call'[p] = NoCall /\ p \notin live'
    BY <1>1, <1>2
  <2>2. <<>> \in Seq(Entry) /\ <<>> \in Seq(Nat) /\ DOMAIN <<>> = {}
    BY EmptySeq
  <2>3. QED
    BY <1>3, <2>1, <2>2, NoCallFacts DEF Lists
<1>5. \A q \in Procs \ {p} : entry'[q] = entry[q] /\ open_files'[q] = open_files[q]
  BY <1>2 DEF OpenInv, TypeOK
<1>6. \A q \in Procs \ {p} : Lists(q)'
  BY <1>2, <1>5, OpenInvParts DEF ProcessInv, Lists
<1>7. /\ live' \subseteq Procs /\ parent' \in [Procs -> Procs \cup {NULL}]
      /\ entry' = [q \in Procs |-> entry'[q]]
      /\ open_files' = [q \in Procs |-> open_files'[q]]
      /\ call' = [q \in Procs |-> call'[q]]
  BY <1>2 DEF OpenInv, TypeOK
<1>8. ProcessInv'
  BY <1>4, <1>6, <1>7 DEF ProcessInv
<1>9. \A q \in live \ {p} : \A d : Uses(q, d) => Uses(q, d)'
  <2>1. SUFFICES ASSUME NEW q \in live \ {p}, NEW d, Uses(q, d) PROVE Uses(q, d)'
    OBVIOUS
  <2>2. q \in Procs \ {p}
    BY <2>1 DEF OpenInv, TypeOK
  <2>3. QED
    BY <1>5, <2>1, <2>2 DEF Uses, At
<1>10. QED
  BY <1>1, <1>2, <1>8, <1>9

(* Every step keeps types, lists and single descriptors, however calls        *)
(* overlap.                                                                   *)
LEMMA OpenInvKept ==
  ASSUME OpenInv, NEW p \in Procs, Step(p)
  PROVE  OpenInv'
<1>1. FileSystemInv'
  BY FileSystemStep
<1>2. ProcessInv
  BY OpenInvParts
<1>3. ASSUME OthersKept(p), Lists(p)' PROVE ProcessInv'
  BY <1>2, <1>3, ProcessFrame
<1>4. ProcessInv'
  <2>1. ASSUME NEW f \in Files, fopen(p, f) PROVE ProcessInv'
    BY <1>3, <2>1, FopenFacts
  <2>2. CASE Register(p)
    BY <1>3, <2>2, RegisterFacts
  <2>3. ASSUME NEW v \in Nat, Seek(p, v) PROVE ProcessInv'
    BY <1>3, <2>3, SeekStep
  <2>4. ASSUME NEW n \in 0 .. 1, Transfer(p, n) PROVE ProcessInv'
    BY <1>3, <2>4, TransferFacts
  <2>5. ASSUME NEW v \in Nat, NEW from \in Nat, fclose(p, v, from)
        PROVE  ProcessInv'
    BY <1>3, <2>5, FcloseFacts
  <2>6. CASE Close(p)
    BY <1>3, <2>6, CloseStep
  <2>7. CASE Unuse(p)
    BY <1>3, <2>7, UnuseFacts
  <2>8. CASE Copy(p)
    BY <1>3, <2>8, CopyFacts
  <2>9. ASSUME NEW v \in Nat, dup(p, v) PROVE ProcessInv'
    BY <1>3, <2>9, DupFacts
  <2>10. ASSUME NEW g \in Garbage[p], DupMissing(p, g) PROVE ProcessInv'
    BY <1>3, <2>10, DupMissingFacts
  <2>11. ASSUME NEW c \in Procs, NEW f \in Files, execute(p, c, f) PROVE ProcessInv'
    BY <2>11, ExecuteFacts
  <2>12. CASE exit(p)
    BY <2>12, ExitFacts
  <2>13. QED
    BY <2>1, <2>2, <2>3, <2>4, <2>5, <2>6, <2>7, <2>8, <2>9, <2>10, <2>11,
       <2>12 DEF Step
<1>5. (FileSystemInv /\ ProcessInv)'
  BY <1>1, <1>4
<1>6. QED
  BY <1>5, OpenInvParts, PTL

(* So does every step of Next, and one that changes nothing.                  *)
LEMMA OpenInvStep ==
  ASSUME OpenInv, [Next]_vars
  PROVE  OpenInv'
<1>1. CASE UNCHANGED vars
  <2>1. /\ live' = live /\ parent' = parent /\ open_files_list' = open_files_list
        /\ entry' = entry /\ open_files' = open_files /\ call' = call
    BY <1>1 DEF vars
  <2>2. QED
    BY <2>1 DEF OpenInv, TypeOK, LiveLists, OneDescriptorPerFile, UsedDescriptors
<1>2. CASE Next
  BY <1>2, NextIsStep, OpenInvKept
<1>3. QED
  BY <1>1, <1>2

(* At the start every login process has its terminal open.                    *)
LEMMA OpenInvInit == Init => OpenInv
<1> SUFFICES ASSUME Init PROVE OpenInv
  OBVIOUS
<1> DEFINE tty(p) == CHOOSE i \in 1 .. Len(Logins) : Logins[i] = p
           std(p) == [used |-> TRUE, fd |-> tty(p), offset |-> 0]
<1>1. Logins \in Seq(Procs) /\ Len(Logins) \in Nat
  BY LoginsAssumption
<1>2. ASSUME NEW p \in live PROVE std(p) \in Entry
  <2>1. \E i \in 1 .. Len(Logins) : Logins[i] = p
    BY <1>1, <1>2 DEF Init, ToSet
  <2>2. tty(p) \in 1 .. Len(Logins)
    BY <2>1
  <2>3. QED
    BY <2>2 DEF Entry
<1>3. live \subseteq Procs
  BY <1>1 DEF Init, ToSet
<1>4. parent \in [Procs -> Procs \cup {NULL}] /\ call \in [Procs -> Call]
  BY NoCallFacts DEF Init
<1>5. open_files_list \in Seq(Descriptor)
  <2>1. open_files_list = [i \in 1 .. Len(Logins) |->
                             [inode |-> Tty(i), used |-> TRUE, offset |-> 0]]
    BY DEF Init
  <2>2. \A i \in 1 .. Len(Logins) :
          [inode |-> Tty(i), used |-> TRUE, offset |-> 0] \in Descriptor
    BY DEF Descriptor, Inodes
  <2>3. QED
    BY <1>1, <2>1, <2>2
<1>6. /\ entry = [p \in Procs |-> IF p \in live THEN <<std(p), std(p)>> ELSE <<>>]
      /\ open_files = [p \in Procs |-> IF p \in live THEN <<1, 2>> ELSE <<>>]
      /\ call = [p \in Procs |-> NoCall]
  BY DEF Init
<1> HIDE DEF std
<1>7. \A p \in Procs : entry[p] \in Seq(Entry) /\ open_files[p] \in Seq(Nat)
  BY <1>2, <1>6, EmptySeq
<1>8. \A p \in Procs : \A v \in DOMAIN open_files[p] : open_files[p][v] \in DOMAIN entry[p]
  BY <1>2, <1>6, EmptySeq
<1>9. \A p \in live : Len(open_files[p]) >= 2
  BY <1>3, <1>6
<1>10. OneDescriptorPerFile
  BY DEF Init, OneDescriptorPerFile, UsedDescriptors, Tty
<1>11. QED
  BY <1>3, <1>4, <1>5, <1>6, <1>7, <1>8, <1>9, <1>10
  DEF OpenInv, TypeOK, LiveLists

(* However calls overlap, the variables have their types.                     *)
THEOREM TypeCorrect == Spec => []TypeOK
<1>1. Init => OpenInv
  BY OpenInvInit
<1>2. OpenInv /\ [Next]_vars => OpenInv'
  BY OpenInvStep
<1>3. OpenInv => TypeOK
  BY DEF OpenInv
<1>4. QED
  BY <1>1, <1>2, <1>3, PTL DEF Spec

(* However calls overlap, open gives a file that is open its descriptor: no   *)
(* file ever has two.                                                         *)
THEOREM DescriptorUnique == Spec => []OneDescriptorPerFile
<1>1. Init => OpenInv
  BY OpenInvInit
<1>2. OpenInv /\ [Next]_vars => OpenInv'
  BY OpenInvStep
<1>3. OpenInv => OneDescriptorPerFile
  BY DEF OpenInv
<1>4. QED
  BY <1>1, <1>2, <1>3, PTL DEF Spec

-----------------------------------------------------------------------------
(* What holds when calls do not overlap.                                     *)

\* No process but p is in a call.
OthersIdle(p) == \A q \in Procs \ {p} : call[q] = NoCall

\* Somebody has descriptor d open, or is about to register or to close it.
Named(d) ==
  \E p \in live : \/ Uses(p, d)
                  \/ call[p].step \in {"register", "close"} /\ call[p].fd = d

(* Whoever makes a step is the only one in a call.                            *)
LEMMA OnlyMover ==
  ASSUME OVERLAP = FALSE, OpenInv, Solo, NEW p \in Procs, Step(p)
  PROVE  OthersIdle(p)
<1>1. CASE Ready(p)
  BY <1>1 DEF Ready, OthersIdle, OpenInv, LiveLists
<1>2. CASE call[p] # NoCall
  BY <1>2 DEF Solo, OthersIdle
<1>3. Ready(p) \/ call[p].step # "none"
  BY DEF Step, fopen, Register, Seek, Transfer, fclose, Close, Unuse, Copy, dup,
         DupMissing, execute, exit
<1>4. QED
  BY <1>1, <1>2, <1>3, NoCallFacts

(* Others stay idle.                                                          *)
LEMMA OthersIdleStep ==
  ASSUME NEW p \in Procs, OthersIdle(p), OthersKept(p)
  PROVE  /\ \A q \in Procs \ {p} : call'[q] = NoCall
         /\ Solo'
BY DEF OthersIdle, OthersKept, Solo

(* A step of p cannot make untrue what is known in other calls.               *)
LEMMA CallsElsewhere ==
  ASSUME NEW p \in Procs,
         \A q \in Procs \ {p} : call'[q] = NoCall,
         call'[p].step \notin {"close", "unuse", "copy"}
  PROVE  CloseKnows'
<1>1. \A q \in Procs : call'[q].step \notin {"close", "unuse", "copy"}
  BY NoCallFacts
<1>2. QED
  BY <1>1 DEF CloseKnows

(* What is open stays open, if p keeps what it has open.                      *)
LEMMA UsedStays ==
  ASSUME OpenInv, NEW p \in Procs, OthersKept(p), NEW d, NEW q \in live, Uses(q, d),
         q = p => Uses(p, d)'
  PROVE  Named(d)'
<1>1. q \in live' /\ q \in Procs
  BY DEF OthersKept, OpenInv, TypeOK
<1>2. Uses(q, d)'
  <2>1. CASE q = p
    BY <2>1 DEF Uses, At
  <2>2. CASE q # p
    BY <1>1, <2>2 DEF OthersKept, Uses, At
  <2>3. QED
    BY <2>1, <2>2
<1>3. QED
  BY <1>1, <1>2 DEF Named, Uses, At

(* The leak is about single descriptors.                                      *)
LEMMA LeakParts == NoDescriptorLeak <=> \A d \in UsedDescriptors : Named(d)
BY DEF NoDescriptorLeak, Named

(* If somebody has d open, or p was about to register or close it and it is   *)
(* accounted for, d is named afterwards.                                      *)
LEMMA NamedStays ==
  ASSUME OpenInv, NEW p \in Procs, OthersIdle(p), OthersKept(p), UsesKept(p),
         NEW d, Named(d),
         call[p].step \in {"register", "close"} /\ call[p].fd = d => Named(d)'
  PROVE  Named(d)'
<1>1. PICK q \in live : \/ Uses(q, d)
                        \/ call[q].step \in {"register", "close"} /\ call[q].fd = d
  BY DEF Named
<1>2. CASE Uses(q, d)
  <2>1. q = p => Uses(p, d)'
    BY <1>2 DEF UsesKept
  <2>2. QED
    BY <1>2, <2>1, UsedStays
<1>3. CASE call[q].step \in {"register", "close"} /\ call[q].fd = d
  <2>1. q = p
    BY <1>3, NoCallFacts DEF OthersIdle, OpenInv, TypeOK
  <2>2. QED
    BY <1>3, <2>1
<1>4. QED
  BY <1>1, <1>2, <1>3

(* A step that closes at most, and that p does not begin with a descriptor to *)
(* register or to close, leaks nothing.                                       *)
LEMMA NothingLeaks ==
  ASSUME OpenInv, NoDescriptorLeak, NEW p \in Procs, OthersIdle(p), OthersKept(p),
         UsesKept(p), UsedDescriptors' \subseteq UsedDescriptors,
         \A d \in UsedDescriptors' :
           call[p].step \in {"register", "close"} /\ call[p].fd = d => Named(d)'
  PROVE  NoDescriptorLeak'
<1>1. ASSUME NEW d \in UsedDescriptors' PROVE Named(d)'
  <2>1. d \in UsedDescriptors /\ Named(d)
    BY <1>1, LeakParts
  <2>2. call[p].step \in {"register", "close"} /\ call[p].fd = d => Named(d)'
    BY <1>1
  <2>3. QED
    BY <2>1, <2>2, NamedStays
<1>2. QED
  BY <1>1 DEF NoDescriptorLeak, Named

(* The others have open what they had open.                                   *)
LEMMA SharersKept ==
  ASSUME OpenInv, NEW p \in Procs, OthersKept(p), NEW d
  PROVE  UsedByOther(p, d)' <=> UsedByOther(p, d)
<1>1. live' = live /\ live \subseteq Procs
  BY DEF OthersKept, OpenInv, TypeOK
<1>2. \A q \in live \ {p} : entry'[q] = entry[q] /\ open_files'[q] = open_files[q]
  BY <1>1 DEF OthersKept
<1>3. ASSUME UsedByOther(p, d) PROVE UsedByOther(p, d)'
  <2>1. PICK q \in live \ {p} : Uses(q, d)
    BY <1>3 DEF UsedByOther
  <2>2. Uses(q, d)'
    BY <1>2, <2>1 DEF Uses, At
  <2>3. QED
    BY <1>1, <2>1, <2>2 DEF UsedByOther, Uses, At
<1>4. ASSUME UsedByOther(p, d)' PROVE UsedByOther(p, d)
  <2>1. PICK q \in live' \ {p} : Uses(q, d)'
    BY <1>4 DEF UsedByOther
  <2>2. Uses(q, d)
    BY <1>1, <1>2, <2>1 DEF Uses, At
  <2>3. QED
    BY <1>1, <2>1, <2>2 DEF UsedByOther
<1>5. QED
  BY <1>3, <1>4

(* The invariant holds at the start: every terminal is its owner's.           *)
LEMMA IInvInit == Init => IInv
<1> SUFFICES ASSUME Init PROVE IInv
  OBVIOUS
<1>1. OpenInv
  BY OpenInvInit
<1>2. \A p \in Procs : call[p] = NoCall /\ call[p].step = "none"
  BY NoCallFacts DEF Init
<1>3. Solo /\ CloseKnows
  BY <1>1, <1>2 DEF Solo, CloseKnows, OpenInv, TypeOK
<1>4. ASSUME NEW d \in UsedDescriptors PROVE Named(d)
  <2> DEFINE p == Logins[d]
             tty(q) == CHOOSE i \in 1 .. Len(Logins) : Logins[i] = q
             std(q) == [used |-> TRUE, fd |-> tty(q), offset |-> 0]
  <2>1. Logins \in Seq(Procs) /\ IsInjective(Logins) /\ DOMAIN Logins = 1 .. Len(Logins)
    BY LoginsAssumption
  <2>2. d \in 1 .. Len(Logins)
    BY <1>4, <2>1 DEF Init, UsedDescriptors
  <2>3. p \in live /\ p \in Procs
    <3>1. live = ToSet(Logins)
      BY DEF Init
    <3> HIDE DEF Init
    <3>2. p \in ToSet(Logins)
      BY <2>1, <2>2 DEF ToSet
    <3>3. p \in Procs
      BY <2>1, <2>2
    <3>4. QED
      BY <3>1, <3>2, <3>3
  <2>4. \A i \in 1 .. Len(Logins) : Logins[i] = p => i = d
    BY <2>1, <2>2 DEF IsInjective
  <2>5. tty(p) = d
    BY <2>2, <2>4
  <2>6. entry[p] = <<std(p), std(p)>> /\ open_files[p] = <<1, 2>>
    BY <2>3 DEF Init
  <2>7. At(p, 1) = std(p) /\ 1 \in DOMAIN open_files[p]
    BY <2>6 DEF At
  <2>8. std(p).used /\ std(p).fd = d
    BY <2>5
  <2> HIDE DEF p, std, tty
  <2>9. Uses(p, d)
    BY <2>7, <2>8 DEF Uses
  <2>10. QED
    BY <2>3, <2>9 DEF Named
<1>5. QED
  BY <1>1, <1>3, <1>4, LeakParts DEF IInv

\* The part of IInv that needs calls not to overlap.
SoloInv == Solo /\ CloseKnows /\ NoDescriptorLeak

(* fopen: the descriptor it gets is about to be registered.                   *)
LEMMA FopenKeeps ==
  ASSUME IInv, NEW p \in Procs, OthersIdle(p), NEW f \in Files, fopen(p, f)
  PROVE  SoloInv'
<1> DEFINE d0 == DescriptorOf(f)
<1>1. /\ OthersKept(p) /\ Lists(p)' /\ UsesKept(p) /\ p \in live
      /\ call'[p].step = "register" /\ call'[p].fd = d0
  BY FopenFacts DEF IInv
<1>2. /\ \A q \in Procs \ {p} : call'[q] = NoCall
      /\ Solo'
  BY <1>1, OthersIdleStep
<1>3. live' = live /\ live' \subseteq Procs
  BY <1>1 DEF OthersKept, IInv, OpenInv, TypeOK
<1>4. CloseKnows'
  BY <1>1, <1>2, CallsElsewhere
<1>5. /\ DOMAIN open(f) = DOMAIN open_files_list \cup {d0}
      /\ \A e \in DOMAIN open_files_list \ {d0} :
           /\ open(f)[e] = open_files_list[e]
           /\ open_files_list[e].used => open_files_list[e].inode # f
  <2>1. TypeOK /\ OneDescriptorPerFile
    BY DEF IInv, OpenInv
  <2>2. QED
    BY <2>1, OpenFacts
<1>6. open_files_list' = open(f) /\ call[p] = NoCall
  BY DEF fopen, Ready
<1> HIDE DEF d0
<1>7. ASSUME NEW d \in UsedDescriptors', d # d0 PROVE d \in UsedDescriptors
  BY <1>5, <1>6, <1>7 DEF UsedDescriptors
<1>8. ASSUME NEW d \in UsedDescriptors' PROVE Named(d)'
  <2>1. CASE d = d0
    BY <1>1, <1>3, <2>1 DEF Named
  <2>2. CASE d # d0
    <3>1. Named(d)
      BY <1>7, <2>2, LeakParts DEF IInv
    <3>2. call[p].step \notin {"register", "close"}
      BY <1>6, NoCallFacts
    <3>3. QED
      BY <1>1, <3>1, <3>2, NamedStays DEF IInv
  <2>3. QED
    BY <2>1, <2>2
<1>9. NoDescriptorLeak'
  BY <1>8 DEF NoDescriptorLeak, Named
<1>10. QED
  BY <1>2, <1>4, <1>9 DEF SoloInv

(* Register: the descriptor is in the list now.                               *)
LEMMA RegisterKeeps ==
  ASSUME IInv, NEW p \in Procs, OthersIdle(p), Register(p)
  PROVE  SoloInv'
<1>1. /\ OthersKept(p) /\ Lists(p)' /\ UsesKept(p) /\ p \in live
      /\ call'[p] = NoCall /\ \A d : d = call[p].fd => Uses(p, d)'
  BY RegisterFacts DEF IInv
<1>2. /\ \A q \in Procs \ {p} : call'[q] = NoCall
      /\ Solo'
  BY <1>1, OthersIdleStep
<1>3. live' = live /\ live' \subseteq Procs
  BY <1>1 DEF OthersKept, IInv, OpenInv, TypeOK
<1>4. CloseKnows'
  BY <1>1, <1>2, NoCallFacts, CallsElsewhere
<1>5. UsedDescriptors' = UsedDescriptors
  BY DEF Register, UsedDescriptors
<1>6. ASSUME NEW d, d = call[p].fd PROVE Named(d)'
  <2>1. Uses(p, d)'
    BY <1>1, <1>6
  <2>2. QED
    BY <1>1, <1>3, <2>1 DEF Named, Uses, At
<1>7. NoDescriptorLeak'
  BY <1>1, <1>5, <1>6, NothingLeaks DEF IInv
<1>8. QED
  BY <1>2, <1>4, <1>7 DEF SoloInv

(* A seek opens and closes nothing.                                           *)
LEMMA SeekUses ==
  ASSUME OpenInv, NEW p \in Procs, NEW v \in Nat, Seek(p, v)
  PROVE  UsedDescriptors' = UsedDescriptors
<1>1. At(p, v) \in Entry /\ open_files_list \in Seq(Descriptor)
  BY ListTypes DEF Seek, OpenInv, TypeOK
<1>2. /\ At(p, v).offset \in Nat
      /\ open_files_list' = seek(open_files_list, At(p, v).fd, At(p, v).offset)
  BY <1>1 DEF Seek, Entry
<1>3. /\ DOMAIN open_files_list' = DOMAIN open_files_list
      /\ \A x \in DOMAIN open_files_list :
           open_files_list'[x].used = open_files_list[x].used
  BY <1>1, <1>2, SeekFacts
<1>4. QED
  BY <1>3 DEF UsedDescriptors

(* Seek: the descriptor is where the entry is.                                *)
LEMMA SeekKeeps ==
  ASSUME IInv, NEW p \in Procs, OthersIdle(p), NEW v \in Nat, Seek(p, v)
  PROVE  SoloInv'
<1>1. /\ OthersKept(p) /\ Lists(p)' /\ UsesKept(p) /\ p \in live
      /\ call'[p].step = "transfer"
  BY SeekStep DEF IInv
<1>2. /\ \A q \in Procs \ {p} : call'[q] = NoCall
      /\ Solo'
  BY <1>1, OthersIdleStep
<1>3. CloseKnows'
  BY <1>1, <1>2, CallsElsewhere
<1>4. UsedDescriptors' = UsedDescriptors
  BY SeekUses DEF IInv
<1>5. call[p].step \notin {"register", "close"}
  BY NoCallFacts DEF Seek, Ready
<1>6. NoDescriptorLeak'
  BY <1>1, <1>4, <1>5, NothingLeaks DEF IInv
<1>7. QED
  BY <1>2, <1>3, <1>6 DEF SoloInv

(* A transfer opens and closes nothing.                                       *)
LEMMA TransferUses ==
  ASSUME OpenInv, NEW p \in Procs, NEW n \in 0 .. 1, Transfer(p, n)
  PROVE  UsedDescriptors' = UsedDescriptors
<1>1. open_files_list \in Seq(Descriptor)
  BY DEF OpenInv, TypeOK
<1>2. /\ DOMAIN open_files_list' = DOMAIN open_files_list
      /\ \A x \in DOMAIN open_files_list :
           open_files_list'[x].used = open_files_list[x].used
  <2> DEFINE d == entry[p][call[p].ref].fd
  <2>1. CASE open_files_list' = open_files_list
    BY <2>1
  <2>2. CASE /\ d \in DOMAIN open_files_list
             /\ open_files_list' = [open_files_list EXCEPT ![d].offset = @ + n]
    <3> HIDE DEF d
    <3>1. \A x \in DOMAIN open_files_list : open_files_list[x] \in Descriptor
      BY <1>1
    <3>2. QED
      BY <2>2, <3>1 DEF Descriptor
  <2>3. QED
    BY <2>1, <2>2 DEF Transfer
<1>3. QED
  BY <1>2 DEF UsedDescriptors

(* Transfer: the call is over, and the same is open.                          *)
LEMMA TransferKeeps ==
  ASSUME IInv, NEW p \in Procs, OthersIdle(p), NEW n \in 0 .. 1, Transfer(p, n)
  PROVE  SoloInv'
<1>1. OthersKept(p) /\ Lists(p)' /\ UsesKept(p) /\ p \in live /\ call'[p] = NoCall
  BY TransferFacts DEF IInv
<1>2. /\ \A q \in Procs \ {p} : call'[q] = NoCall
      /\ Solo'
  BY <1>1, OthersIdleStep
<1>3. CloseKnows'
  BY <1>1, <1>2, NoCallFacts, CallsElsewhere
<1>4. UsedDescriptors' = UsedDescriptors
  BY TransferUses DEF IInv
<1>5. call[p].step \notin {"register", "close"}
  BY DEF Transfer
<1>6. NoDescriptorLeak'
  BY <1>1, <1>4, <1>5, NothingLeaks DEF IInv
<1>7. QED
  BY <1>2, <1>3, <1>6 DEF SoloInv

(* fclose: what it decides is true, and stays so, since nobody else moves.    *)
LEMMA FcloseKeeps ==
  ASSUME IInv, NEW p \in Procs, OthersIdle(p), NEW v \in Nat, NEW from \in Nat,
         fclose(p, v, from)
  PROVE  SoloInv'
<1> DEFINE d0 == At(p, v).fd
<1>1. /\ OthersKept(p) /\ Lists(p)' /\ UsesKept(p) /\ p \in live
      /\ v \in DOMAIN open_files[p] /\ entry' = entry
      /\ call'[p].step = IF UsedByOther(p, d0) THEN "unuse" ELSE "close"
      /\ call'[p].fd = d0 /\ call'[p].ref = open_files[p][v]
  BY FcloseFacts DEF IInv
<1>2. /\ \A q \in Procs \ {p} : call'[q] = NoCall
      /\ Solo'
  BY <1>1, OthersIdleStep
<1>3. open_files[p][v] \in DOMAIN entry[p]
  BY <1>1, ListTypes DEF IInv
<1>4. entry'[p][call'[p].ref].fd = call'[p].fd /\ call'[p].ref \in DOMAIN entry'[p]
  BY <1>1, <1>3 DEF At
<1> HIDE DEF d0
<1>5. \A d : UsedByOther(p, d)' <=> UsedByOther(p, d)
  BY <1>1, SharersKept DEF IInv
<1>6. call'[p].step # "copy" /\ call'[p].step # "transfer"
  BY <1>1
<1>7. CloseKnows'
  <2>1. \A q \in Procs \ {p} : call'[q].step = "none"
    BY <1>2, NoCallFacts
  <2>2. ASSUME NEW d, d = call'[p].fd
        PROVE  /\ call'[p].step = "close" => ~UsedByOther(p, d)'
               /\ call'[p].step = "unuse" => UsedByOther(p, d)'
    BY <1>1, <1>5, <2>2
  <2>3. /\ call'[p].step = "close" => ~UsedByOther(p, call[p].fd)'
        /\ call'[p].step = "unuse" => UsedByOther(p, call[p].fd)'
    BY <2>2 DEF UsedByOther, Uses, At
  <2>4. QED
    BY <1>4, <1>6, <2>1, <2>3 DEF CloseKnows
<1>8. UsedDescriptors' = UsedDescriptors /\ call[p] = NoCall
  BY DEF fclose, UsedDescriptors, Ready
<1>9. NoDescriptorLeak'
  BY <1>1, <1>8, NoCallFacts, NothingLeaks DEF IInv
<1>10. QED
  BY <1>2, <1>7, <1>9 DEF SoloInv

(* Close: the descriptor is closed, so the entry may go out of use.           *)
LEMMA CloseKeeps ==
  ASSUME IInv, NEW p \in Procs, OthersIdle(p), Close(p)
  PROVE  SoloInv'
<1>1. /\ OthersKept(p) /\ Lists(p)' /\ UsesKept(p) /\ p \in live
      /\ entry' = entry
      /\ call'[p] = [call[p] EXCEPT !.step = "unuse"]
  BY CloseStep DEF IInv
<1>2. call[p].step = "close" /\ call[p] \in Call
  BY ListTypes DEF Close, IInv
<1>3. call'[p].step = "unuse" /\ call'[p].fd = call[p].fd /\ call'[p].ref = call[p].ref
  BY <1>1, <1>2 DEF Call
<1>4. /\ \A q \in Procs \ {p} : call'[q] = NoCall
      /\ Solo'
  BY <1>1, OthersIdleStep
<1>5. UsedDescriptors' = UsedDescriptors \ {call[p].fd}
  <2>1. /\ DOMAIN open_files_list' = DOMAIN open_files_list
        /\ \A d \in DOMAIN open_files_list :
             open_files_list'[d].used =
               (open_files_list[d].used /\ d \notin {call[p].fd})
    BY CloseFacts DEF Close, IInv, OpenInv, TypeOK
  <2>2. QED
    BY <2>1 DEF UsedDescriptors
<1>6. CloseKnows'
  <2>1. \A q \in Procs \ {p} : call'[q].step = "none"
    BY <1>4, NoCallFacts
  <2>2. call[p].ref \in DOMAIN entry[p] /\ entry[p][call[p].ref].fd = call[p].fd
    BY <1>2 DEF IInv, CloseKnows
  <2>3. QED
    BY <1>1, <1>3, <1>5, <2>1, <2>2 DEF CloseKnows
<1>7. NoDescriptorLeak'
  BY <1>1, <1>5, NothingLeaks DEF IInv
<1>8. QED
  BY <1>4, <1>6, <1>7 DEF SoloInv

(* Unuse: the descriptor is closed, or another process has it open.           *)
LEMMA UnuseKeeps ==
  ASSUME IInv, NEW p \in Procs, OthersIdle(p), Unuse(p)
  PROVE  SoloInv'
<1> DEFINE r == call[p].ref
<1>1. /\ OthersKept(p) /\ Lists(p)' /\ p \in live
      /\ open_files'[p] = open_files[p] /\ DOMAIN entry'[p] = DOMAIN entry[p]
      /\ r \in DOMAIN entry[p] => ~entry'[p][r].used
      /\ \A d : Uses(p, d) /\ d # entry[p][r].fd => Uses(p, d)'
      /\ \/ call'[p] = NoCall
         \/ call'[p].step = "copy" /\ call'[p].ref = r
  BY UnuseFacts DEF IInv
<1>2. call[p].step = "unuse"
  BY DEF Unuse
<1>3. /\ r \in DOMAIN entry[p] /\ entry[p][r].fd = call[p].fd
      /\ call[p].fd \notin UsedDescriptors \/ UsedByOther(p, call[p].fd)
  BY <1>2 DEF IInv, CloseKnows
<1> HIDE DEF r
<1>4. /\ \A q \in Procs \ {p} : call'[q] = NoCall
      /\ Solo'
  BY <1>1, OthersIdleStep
<1>5. \A q \in Procs \ {p} : call'[q].step = "none"
  BY <1>4, NoCallFacts
<1>6. CloseKnows'
  BY <1>1, <1>3, <1>5, NoCallFacts DEF CloseKnows
<1>7. UsedDescriptors' = UsedDescriptors
  BY DEF Unuse, UsedDescriptors
<1>8. ASSUME NEW d \in UsedDescriptors' PROVE Named(d)'
  <2>1. d \in UsedDescriptors /\ Named(d)
    BY <1>7, <1>8, LeakParts DEF IInv
  <2>2. CASE d = call[p].fd
    <3>1. PICK q \in live \ {p} : Uses(q, d)
      BY <1>3, <2>1, <2>2 DEF UsedByOther
    <3>2. QED
      BY <1>1, <3>1, UsedStays DEF IInv
  <2>3. CASE d # call[p].fd
    <3>1. PICK q \in live : \/ Uses(q, d)
                            \/ call[q].step \in {"register", "close"} /\ call[q].fd = d
      BY <2>1 DEF Named
    <3>2. q \in Procs
      BY DEF IInv, OpenInv, TypeOK
    <3>3. Uses(q, d)
      BY <1>2, <3>1, <3>2, NoCallFacts DEF OthersIdle
    <3>4. q = p => Uses(p, d)'
      BY <1>1, <1>3, <2>3, <3>3
    <3>5. QED
      BY <1>1, <3>3, <3>4, UsedStays DEF IInv
  <2>4. QED
    BY <2>2, <2>3
<1>9. NoDescriptorLeak'
  BY <1>8 DEF NoDescriptorLeak, Named
<1>10. QED
  BY <1>4, <1>6, <1>9 DEF SoloInv

(* Copy: what is overwritten is not in use.                                   *)
LEMMA CopyKeeps ==
  ASSUME IInv, NEW p \in Procs, OthersIdle(p), Copy(p)
  PROVE  SoloInv'
<1>1. /\ OthersKept(p) /\ Lists(p)' /\ p \in live /\ call'[p] = NoCall
      /\ ~entry[p][call[p].ref].used => UsesKept(p)
  BY CopyFacts DEF IInv
<1>2. call[p].step = "copy"
  BY DEF Copy
<1>3. UsesKept(p)
  BY <1>1, <1>2 DEF IInv, CloseKnows
<1>4. /\ \A q \in Procs \ {p} : call'[q] = NoCall
      /\ Solo'
  BY <1>1, OthersIdleStep
<1>5. CloseKnows'
  BY <1>1, <1>4, NoCallFacts, CallsElsewhere
<1>6. UsedDescriptors' = UsedDescriptors
  BY DEF Copy, UsedDescriptors
<1>7. NoDescriptorLeak'
  BY <1>1, <1>2, <1>3, <1>6, NothingLeaks DEF IInv
<1>8. QED
  BY <1>4, <1>5, <1>7 DEF SoloInv

(* A step between calls after which nothing is open less.                     *)
LEMMA BetweenCallsKeeps ==
  ASSUME IInv, NEW p \in Procs, OthersIdle(p), call[p] = NoCall, call' = call,
         OpenInv', UsedDescriptors' \subseteq UsedDescriptors,
         \A d \in UsedDescriptors' : \A q \in live : Uses(q, d) => Named(d)'
  PROVE  SoloInv'
<1>1. \A q \in Procs : call'[q] = NoCall /\ call'[q].step = "none"
  BY NoCallFacts DEF OthersIdle
<1>2. Solo' /\ CloseKnows'
  BY <1>1 DEF Solo, CloseKnows
<1>3. ASSUME NEW d \in UsedDescriptors' PROVE Named(d)'
  <2>1. Named(d)
    BY <1>3, LeakParts DEF IInv
  <2>2. PICK q \in live : \/ Uses(q, d)
                          \/ call[q].step \in {"register", "close"} /\ call[q].fd = d
    BY <2>1 DEF Named
  <2>3. q \in Procs
    BY DEF IInv, OpenInv, TypeOK
  <2>4. Uses(q, d)
    BY <1>1, <2>2, <2>3
  <2>5. QED
    BY <1>3, <2>4
<1>4. NoDescriptorLeak'
  BY <1>3 DEF NoDescriptorLeak, Named
<1>5. QED
  BY <1>2, <1>4 DEF SoloInv

(* dup and a dup of nothing.                                                  *)
LEMMA DupKeeps ==
  ASSUME IInv, NEW p \in Procs, OthersIdle(p), OthersKept(p), UsesKept(p),
         call[p] = NoCall, call' = call, open_files_list' = open_files_list, OpenInv'
  PROVE  SoloInv'
<1>1. UsedDescriptors' = UsedDescriptors
  BY DEF UsedDescriptors
<1>2. ASSUME NEW d \in UsedDescriptors', NEW q \in live, Uses(q, d) PROVE Named(d)'
  BY <1>2, UsedStays DEF IInv, UsesKept
<1>3. QED
  BY <1>1, <1>2, BetweenCallsKeeps

(* execute closes the descriptor of the image, and opens none.                *)
LEMMA ExecuteKeeps ==
  ASSUME IInv, NEW p \in Procs, OthersIdle(p), NEW c \in Procs, NEW f \in Files,
         execute(p, c, f), OpenInv'
  PROVE  SoloInv'
<1> DEFINE d0 == DescriptorOf(f)
<1>1. /\ call' = call /\ live \subseteq live' /\ p \in live
      /\ \A q \in live : \A d : Uses(q, d) => Uses(q, d)'
  BY ExecuteFacts DEF IInv
<1>2. call[p] = NoCall
  BY DEF execute, Ready
<1>3. UsedDescriptors' \subseteq UsedDescriptors
  <2>1. TypeOK /\ OneDescriptorPerFile
    BY DEF IInv, OpenInv
  <2>2. /\ open(f) \in Seq(Descriptor)
        /\ DOMAIN open(f) = DOMAIN open_files_list \cup {d0}
        /\ \A e \in DOMAIN open_files_list \ {d0} :
             /\ open(f)[e] = open_files_list[e]
             /\ open_files_list[e].used => open_files_list[e].inode # f
    BY <2>1, OpenFacts
  <2>3. open_files_list' = close(open(f), {d0})
    BY DEF execute
  <2> HIDE DEF d0
  <2>4. /\ DOMAIN open_files_list' = DOMAIN open(f)
        /\ \A d \in DOMAIN open(f) :
             open_files_list'[d].used = (open(f)[d].used /\ d \notin {d0})
    BY <2>2, <2>3, CloseFacts
  <2>5. QED
    BY <2>2, <2>4 DEF UsedDescriptors
<1>4. ASSUME NEW d \in UsedDescriptors', NEW q \in live, Uses(q, d) PROVE Named(d)'
  <2>1. Uses(q, d)' /\ q \in live'
    BY <1>1, <1>4
  <2>2. QED
    BY <2>1 DEF Named, Uses, At
<1>5. QED
  BY <1>1, <1>2, <1>3, <1>4, BetweenCallsKeeps

(* exit closes what nobody else has open.                                     *)
LEMMA ExitKeeps ==
  ASSUME IInv, NEW p \in Procs, OthersIdle(p), exit(p), OpenInv'
  PROVE  SoloInv'
<1>1. /\ call' = call /\ live' = live \ {p} /\ p \in live
      /\ \A q \in live \ {p} : \A d : Uses(q, d) => Uses(q, d)'
  BY ExitFacts DEF IInv
<1>2. call[p] = NoCall
  BY DEF exit, Ready
<1>3. UsedDescriptors' = UsedDescriptors \ ClosedByExit(p)
  <2>1. /\ DOMAIN open_files_list' = DOMAIN open_files_list
        /\ \A d \in DOMAIN open_files_list :
             open_files_list'[d].used =
               (open_files_list[d].used /\ d \notin ClosedByExit(p))
    BY CloseFacts DEF exit, IInv, OpenInv, TypeOK
  <2>2. QED
    BY <2>1 DEF UsedDescriptors
<1>4. ASSUME NEW d \in UsedDescriptors', NEW q \in live, Uses(q, d) PROVE Named(d)'
  <2>1. PICK s \in live \ {p} : Uses(s, d)
    <3>1. CASE q # p
      BY <1>4, <3>1
    <3>2. CASE q = p
      <4>1. d \in DOMAIN open_files_list /\ d \notin ClosedByExit(p)
        BY <1>3, <1>4 DEF UsedDescriptors
      <4>2. UsedByOther(p, d)
        BY <1>4, <3>2, <4>1 DEF ClosedByExit
      <4>3. QED
        BY <4>2 DEF UsedByOther
    <3>3. QED
      BY <3>1, <3>2
  <2>2. Uses(s, d)' /\ s \in live'
    BY <1>1, <2>1
  <2>3. QED
    BY <2>2 DEF Named, Uses, At
<1>5. QED
  BY <1>1, <1>2, <1>3, <1>4, BetweenCallsKeeps

(* If calls do not overlap, every step keeps the invariant.                   *)
LEMMA IInvKept ==
  ASSUME OVERLAP = FALSE, IInv, NEW p \in Procs, Step(p)
  PROVE  IInv'
<1>1. OpenInv'
  BY OpenInvKept DEF IInv
<1> SUFFICES SoloInv'
  BY <1>1 DEF IInv, SoloInv
<1>2. OthersIdle(p)
  BY OnlyMover DEF IInv
<1>3. ASSUME NEW f \in Files, fopen(p, f) PROVE SoloInv'
  BY <1>2, <1>3, FopenKeeps
<1>4. CASE Register(p)
  BY <1>2, <1>4, RegisterKeeps
<1>5. ASSUME NEW v \in Nat, Seek(p, v) PROVE SoloInv'
  BY <1>2, <1>5, SeekKeeps
<1>6. ASSUME NEW n \in 0 .. 1, Transfer(p, n) PROVE SoloInv'
  BY <1>2, <1>6, TransferKeeps
<1>7. ASSUME NEW v \in Nat, NEW from \in Nat, fclose(p, v, from)
      PROVE  SoloInv'
  BY <1>2, <1>7, FcloseKeeps
<1>8. CASE Close(p)
  BY <1>2, <1>8, CloseKeeps
<1>9. CASE Unuse(p)
  BY <1>2, <1>9, UnuseKeeps
<1>10. CASE Copy(p)
  BY <1>2, <1>10, CopyKeeps
<1>11. ASSUME NEW v \in Nat, dup(p, v) PROVE SoloInv'
  <2>1. OthersKept(p) /\ UsesKept(p) /\ call' = call
    BY <1>11, DupFacts DEF IInv
  <2>2. call[p] = NoCall /\ open_files_list' = open_files_list
    BY <1>11 DEF dup, Ready
  <2>3. QED
    BY <1>1, <1>2, <2>1, <2>2, DupKeeps
<1>12. ASSUME NEW g \in Garbage[p], DupMissing(p, g) PROVE SoloInv'
  <2>1. OthersKept(p) /\ UsesKept(p) /\ call' = call
    BY <1>12, DupMissingFacts DEF IInv
  <2>2. call[p] = NoCall /\ open_files_list' = open_files_list
    BY <1>12 DEF DupMissing, Ready
  <2>3. QED
    BY <1>1, <1>2, <2>1, <2>2, DupKeeps
<1>13. ASSUME NEW c \in Procs, NEW f \in Files, execute(p, c, f) PROVE SoloInv'
  BY <1>1, <1>2, <1>13, ExecuteKeeps
<1>14. CASE exit(p)
  BY <1>1, <1>2, <1>14, ExitKeeps
<1>15. QED
  BY <1>3, <1>4, <1>5, <1>6, <1>7, <1>8, <1>9, <1>10, <1>11, <1>12, <1>13,
     <1>14 DEF Step

(* A step that changes nothing keeps it too.                                  *)
LEMMA IInvStutter ==
  ASSUME IInv, UNCHANGED vars
  PROVE  IInv'
<1>1. OpenInv'
  BY OpenInvStep DEF IInv
<1>2. SoloInv'
  <2>1. /\ live' = live /\ parent' = parent /\ open_files_list' = open_files_list
        /\ entry' = entry /\ open_files' = open_files /\ call' = call
    BY DEF vars
  <2>2. QED
    BY <2>1 DEF IInv, SoloInv, Solo, CloseKnows, NoDescriptorLeak, UsedDescriptors,
                UsedByOther, Uses, At
<1>3. QED
  BY <1>1, <1>2 DEF IInv, SoloInv

(* Every step of Next keeps it.                                               *)
LEMMA IInvStep ==
  ASSUME OVERLAP = FALSE, IInv, [Next]_vars
  PROVE  IInv'
<1>1. CASE UNCHANGED vars
  BY <1>1, IInvStutter
<1>2. CASE Next
  BY <1>2, NextIsStep, IInvKept
<1>3. QED
  BY <1>1, <1>2

(* "close file if possible (no other process uses it)" (process.c:407): if    *)
(* calls do not overlap, a descriptor nobody has open is not in use, however  *)
(* often it was duplicated, inherited and redirected.                         *)
THEOREM DescriptorsReturned ==
  ASSUME OVERLAP = FALSE
  PROVE  Spec => []NoDescriptorLeak
<1>1. Init => IInv
  BY IInvInit
<1>2. IInv /\ [Next]_vars => IInv'
  BY IInvStep
<1>3. IInv => NoDescriptorLeak
  BY DEF IInv
<1>4. QED
  BY <1>1, <1>2, <1>3, PTL DEF Spec

-----------------------------------------------------------------------------
(* The programs of module Shell.                                             *)

\* The first position of list rs whose entry is not used, 0 if there is none.
FirstFree(es, rs) == SelectInSeq(rs, LAMBDA r : ~es[r].used)

\* What the entries es and the list rs of a process will be, offsets apart, when
\* the call it is in has returned; c is what is left of the call.
LaterEntries(es, rs, c) ==
  LET new == [used |-> TRUE, fd |-> c.fd, offset |-> 0]
  IN  IF c.step = "register"
        THEN IF FirstFree(es, rs) = 0 THEN Append(es, new)
             ELSE [es EXCEPT ![rs[FirstFree(es, rs)]] = new]
      ELSE IF c.step \in {"close", "unuse", "copy"}
        THEN IF c.from = 0 THEN [es EXCEPT ![c.ref].used = FALSE]
             ELSE [es EXCEPT ![c.ref] = es[rs[c.from]]]
      ELSE es

LaterList(es, rs, c) ==
  IF c.step = "register"
    THEN IF FirstFree(es, rs) = 0 THEN rs \o <<Len(es) + 1, Len(es) + 1>>
         ELSE Append(rs, rs[FirstFree(es, rs)])
    ELSE rs

Entries(p) == LaterEntries(entry[p], open_files[p], call[p])
List(p) == LaterList(entry[p], open_files[p], call[p])

\* The descriptors that no call is about to close.
KeptIn(lst, calls) ==
  {d \in DOMAIN lst : /\ lst[d].used
                      /\ \A q \in Procs : ~(calls[q].step = "close" /\ calls[q].fd = d)}

Kept == KeptIn(open_files_list, call)

\* Statements of a shell before it executes a command.
Before == {"prompt", "parse", "set_stdout", "set_stdin", "execute"}

\* The files a command is given, until they are closed.
OpenIn(pr) == pr.newstdin # 0 /\ pr.at # "reset_stdin"
OpenOut(pr) == pr.newstdout # 0 /\ pr.at \in Before \cup {"close_stdout"}

\* The positions of the list that a program knows to be open.
Slots(pr) ==
  IF pr.at = "dup_stdin" THEN {1, 2}
  ELSE IF pr.at = "dup_stdout" THEN {1, 2, 3}
  ELSE (IF pr.name = "shell" THEN {1, 2, 3, 4} ELSE {1, 2})
         \cup (IF OpenIn(pr) THEN {pr.newstdin} ELSE {})
         \cup (IF OpenOut(pr) THEN {pr.newstdout} ELSE {})
         \cup (IF pr.at \in {"opened", "used"} THEN {pr.fd} ELSE {})

\* They are in use, and no two of them are one entry.
InUse(es, rs, S) ==
  /\ S \subseteq DOMAIN rs
  /\ \A v \in S : rs[v] \in DOMAIN es /\ es[rs[v]].used
  /\ \A v, w \in S : rs[v] = rs[w] => v = w

UsedEntries(es) == {r \in DOMAIN es : es[r].used}

\* Where a program can be, and which files it has then.
Located(pr) ==
  /\ pr.name = "login" => pr.at \in {"prompt", "opened", "used", "execute"}
  /\ pr.name = "command" => pr.at = "prompt"
  /\ pr.name # "shell" => pr.newstdin = 0 /\ pr.newstdout = 0
  /\ pr.at \in {"set_stdout", "close_stdout", "reset_stdout"} => pr.newstdout # 0
  /\ pr.at \in {"set_stdin", "close_stdin", "reset_stdin"} => pr.newstdin # 0
  /\ pr.at \in {"dup_stdin", "dup_stdout", "prompt", "opened", "used"}
       => pr.newstdin = 0 /\ pr.newstdout = 0
  /\ pr.at \in {"dup_stdin", "dup_stdout"} => pr.lost = 0 /\ pr.name = "shell"
  /\ pr.at \in {"opened", "used"} =>
       pr.fd \notin (IF pr.name = "shell" THEN {1, 2, 3, 4} ELSE {1, 2})
  /\ pr.newstdin \notin {1, 2, 3, 4} /\ pr.newstdout \notin {1, 2, 3, 4}
  /\ pr.newstdin # 0 => pr.newstdin # pr.newstdout

\* What the streams and their copies are, at each statement.
Streams(pr, es, rs) ==
  LET fd(v) == es[rs[v]].fd
  IN  /\ pr.newstdin # 0 /\ pr.at \in {"execute", "close_stdout", "reset_stdout", "close_stdin"}
           => fd(stdin) = fd(pr.newstdin)
      /\ pr.newstdin = 0 \/ pr.at \in Before \ {"execute"} => fd(stdin) = pr.home[stdin]
      /\ pr.newstdout # 0 /\ pr.at \in {"set_stdin", "execute", "close_stdout"}
           => fd(stdout) = fd(pr.newstdout)
      /\ pr.newstdout = 0 \/ pr.at \in {"parse", "set_stdout", "close_stdin", "reset_stdin"}
           => fd(stdout) = pr.home[stdout]
      /\ pr.name = "shell" /\ pr.at # "dup_stdin" => fd(_stdin) = pr.home[stdin]
      /\ pr.name = "shell" /\ pr.at \notin {"dup_stdin", "dup_stdout"}
           => fd(_stdout) = pr.home[stdout]

\* What is open besides is lost.
Counted(pr, es, rs) ==
  pr.name = "shell" =>
    /\ Cardinality(UsedEntries(es)) = Cardinality(Slots(pr)) + pr.lost
    /\ pr.at \in {"dup_stdin", "dup_stdout"} => DOMAIN rs = Slots(pr)

ProgramInv(pr, es, rs) ==
  Located(pr) /\ InUse(es, rs, Slots(pr)) /\ Streams(pr, es, rs) /\ Counted(pr, es, rs)

\* The descriptor of a file that a command is to be given is kept, and the one a
\* login has open is that of a file.
FilesOpen(pr, es, rs, lst, kept) ==
  LET fd(v) == es[rs[v]].fd
  IN  /\ pr.at \in Before /\ pr.newstdin # 0 => fd(pr.newstdin) \in kept
      /\ pr.at \in Before /\ pr.newstdout # 0 => fd(pr.newstdout) \in kept
      /\ pr.name = "login" /\ pr.at \in {"opened", "used"} =>
           fd(pr.fd) \in kept /\ lst[fd(pr.fd)].inode \in Files

RunsWell(p) ==
  /\ ProgramInv(program[p], Entries(p), List(p))
  /\ FilesOpen(program[p], Entries(p), List(p), open_files_list, Kept)

\* The streams a program was started with are open; those of a login are a terminal.
HomeOpen(p) ==
  \A v \in {stdin, stdout} :
    /\ program[p].home[v] \in Kept
    /\ program[p].name = "login" => open_files_list[program[p].home[v]].inode \notin Files

Asked(p, v) == IF v = stdin THEN program[p].newstdin ELSE program[p].newstdout

\* Whoever executed c waits, and has the streams of c open.
CallerKeeps(c) ==
  LET p == parent[c]
  IN  /\ p \in live /\ p # c /\ call[p] = NoCall
      /\ \A v \in {stdin, stdout} :
           /\ program[c].home[v] = At(p, v).fd
           /\ program[p].name = "shell" =>
                program[c].home[v] = IF Asked(p, v) = 0 THEN program[p].home[v]
                                     ELSE At(p, Asked(p, v)).fd

NoImageOpen == \A d \in UsedDescriptors : open_files_list[d].inode # image

\* dup2 copies another entry than the one it closes.
CopiesAnother(p) ==
  /\ call[p].step = "copy" => call[p].from # 0
  /\ call[p].step \in {"close", "unuse", "copy"} /\ call[p].from # 0 =>
       /\ call[p].from \in DOMAIN open_files[p]
       /\ open_files[p][call[p].from] # call[p].ref

ShellInv ==
  /\ ProgramsTyped
  /\ NoImageOpen
  /\ \A p \in live : RunsWell(p) /\ HomeOpen(p)
  /\ \A p \in live : IF program[p].name = "login" THEN parent[p] = NULL ELSE CallerKeeps(p)
  /\ \A p \in Procs : CopiesAnother(p)

-----------------------------------------------------------------------------
(* Lists: what calls do to the entries in use.                               *)

TypedLists(es, rs) ==
  es \in Seq(Entry) /\ rs \in Seq(Nat) /\ \A v \in DOMAIN rs : rs[v] \in DOMAIN es

(* The scan, for any lists.                                                   *)
LEMMA FirstFreeFacts ==
  ASSUME NEW es, NEW rs, TypedLists(es, rs)
  PROVE  /\ FirstFree(es, rs) \in 0 .. Len(rs)
         /\ FirstFree(es, rs) # 0 =>
              FirstFree(es, rs) \in DOMAIN rs /\ ~es[rs[FirstFree(es, rs)]].used
         /\ FirstFree(es, rs) = 0 => \A v \in DOMAIN rs : es[rs[v]].used
<1> DEFINE I == {i \in 1 .. Len(rs) : ~es[rs[i]].used}
<1>1. Len(rs) \in Nat /\ DOMAIN rs = 1 .. Len(rs)
  BY DEF TypedLists
<1>2. FirstFree(es, rs) = IF I # {} THEN Min(I) ELSE 0
  BY DEF FirstFree, SelectInSeq
<1>3. I # {} => Min(I) \in I
  <2>1. I \in SUBSET Nat
    OBVIOUS
  <2> HIDE DEF I
  <2>2. QED
    BY <2>1, MinExists
<1>4. CASE I = {}
  <2>1. FirstFree(es, rs) = 0
    BY <1>2, <1>4
  <2>2. QED
    BY <2>1, <1>1, <1>4
<1>5. CASE I # {}
  <2>1. FirstFree(es, rs) \in I
    BY <1>2, <1>3, <1>5
  <2>2. QED
    BY <2>1, <1>1
<1>6. QED
  BY <1>4, <1>5

(* Entries in use are finitely many.                                          *)
LEMMA UsedFinite ==
  ASSUME NEW es \in Seq(Entry)
  PROVE  IsFiniteSet(UsedEntries(es)) /\ Cardinality(UsedEntries(es)) \in Nat
<1>1. IsFiniteSet(1 .. Len(es)) /\ UsedEntries(es) \subseteq 1 .. Len(es)
  BY FS_Interval DEF UsedEntries
<1>2. IsFiniteSet(UsedEntries(es))
  BY <1>1, FS_Subset
<1>3. QED
  BY <1>2, FS_CardinalityType

\* An entry for d has been put into the list, at k.
Opened(es, rs, es2, rs2, k, d) ==
  /\ k \in DOMAIN rs2 /\ rs2[k] \in DOMAIN es2
  /\ es2[rs2[k]].used /\ es2[rs2[k]].fd = d
  /\ \A v \in DOMAIN rs : rs[v] \in DOMAIN es /\ es[rs[v]].used =>
       /\ v # k /\ v \in DOMAIN rs2 /\ rs2[v] = rs[v] /\ rs2[v] # rs2[k]
       /\ rs2[v] \in DOMAIN es2 /\ es2[rs2[v]] = es[rs[v]]
  /\ Cardinality(UsedEntries(es2)) = Cardinality(UsedEntries(es)) + 1

\* The position Returned gives, in any list.
NextPosition(es, rs) == IF FirstFree(es, rs) = 0 THEN Len(rs) + 1 ELSE FirstFree(es, rs)

(* When fopen has registered its entry, it is at the position it returns.     *)
LEMMA RegisterOpens ==
  ASSUME NEW es, NEW rs, TypedLists(es, rs), NEW c, c.step = "register", c.fd \in Nat
  PROVE  Opened(es, rs, LaterEntries(es, rs, c), LaterList(es, rs, c),
                NextPosition(es, rs), c.fd)
<1> DEFINE new == [used |-> TRUE, fd |-> c.fd, offset |-> 0]
           k == FirstFree(es, rs)
           es2 == LaterEntries(es, rs, c)
           rs2 == LaterList(es, rs, c)
<1>1. /\ es \in Seq(Entry) /\ Len(es) \in Nat /\ DOMAIN es = 1 .. Len(es)
      /\ rs \in Seq(Nat) /\ Len(rs) \in Nat /\ DOMAIN rs = 1 .. Len(rs)
      /\ \A v \in DOMAIN rs : rs[v] \in DOMAIN es
  BY DEF TypedLists
<1>2. new \in Entry /\ new.used /\ new.fd = c.fd
  BY DEF Entry
<1>3. IsFiniteSet(UsedEntries(es))
  BY <1>1, UsedFinite
<1>4. CASE k = 0
  <2>1. es2 = Append(es, new)
    BY <1>4 DEF LaterEntries
  <2>2. rs2 = rs \o <<Len(es) + 1, Len(es) + 1>>
    BY <1>4 DEF LaterList
  <2> HIDE DEF new, es2, rs2, k
  <2>3. /\ es2 \in Seq(Entry) /\ DOMAIN es2 = 1 .. Len(es) + 1
        /\ es2[Len(es) + 1] = new /\ \A r \in 1 .. Len(es) : es2[r] = es[r]
    BY <1>1, <1>2, <2>1, AppendProperties
  <2>4. /\ DOMAIN rs2 = 1 .. Len(rs) + 2 /\ rs2[Len(rs) + 1] = Len(es) + 1
        /\ \A v \in 1 .. Len(rs) : rs2[v] = rs[v]
    BY <1>1, <2>2
  <2>5. UsedEntries(es2) = UsedEntries(es) \cup {Len(es) + 1}
    BY <1>1, <1>2, <2>3 DEF UsedEntries
  <2>6. Len(es) + 1 \notin UsedEntries(es)
    BY <1>1 DEF UsedEntries
  <2>7. Cardinality(UsedEntries(es2)) = Cardinality(UsedEntries(es)) + 1
    BY <1>3, <2>5, <2>6, FS_AddElement
  <2>8. \A v \in DOMAIN rs :
          /\ v # Len(rs) + 1 /\ v \in DOMAIN rs2 /\ rs2[v] = rs[v]
          /\ rs2[v] # rs2[Len(rs) + 1]
          /\ rs2[v] \in DOMAIN es2 /\ es2[rs2[v]] = es[rs[v]]
    BY <1>1, <2>3, <2>4
  <2>9. NextPosition(es, rs) = Len(rs) + 1
    BY <1>4 DEF NextPosition, k
  <2>10. Len(rs) + 1 \in DOMAIN rs2 /\ rs2[Len(rs) + 1] \in DOMAIN es2
    BY <1>1, <2>3, <2>4
  <2>11. es2[rs2[Len(rs) + 1]] = new
    BY <2>3, <2>4
  <2>12. QED
    BY <1>2, <2>7, <2>8, <2>9, <2>10, <2>11 DEF Opened, es2, rs2
<1>5. CASE k # 0
  <2>0. k \in DOMAIN rs /\ ~es[rs[k]].used
    BY <1>5, FirstFreeFacts
  <2>1. es2 = [es EXCEPT ![rs[k]] = new]
    BY <1>5 DEF LaterEntries
  <2>2. rs2 = Append(rs, rs[k])
    BY <1>5 DEF LaterList
  <2>a. NextPosition(es, rs) = k
    BY <1>5 DEF NextPosition
  <2> HIDE DEF new, es2, rs2, k
  <2>3. /\ DOMAIN es2 = DOMAIN es /\ es2[rs[k]] = new /\ rs[k] \in DOMAIN es
        /\ \A r \in DOMAIN es : r # rs[k] => es2[r] = es[r]
    BY <1>1, <2>0, <2>1
  <2>4. DOMAIN rs2 = 1 .. Len(rs) + 1 /\ \A v \in 1 .. Len(rs) : rs2[v] = rs[v]
    BY <1>1, <2>0, <2>2, AppendProperties
  <2>5. UsedEntries(es2) = UsedEntries(es) \cup {rs[k]}
    BY <1>2, <2>3 DEF UsedEntries
  <2>6. rs[k] \notin UsedEntries(es)
    BY <2>0 DEF UsedEntries
  <2>7. Cardinality(UsedEntries(es2)) = Cardinality(UsedEntries(es)) + 1
    BY <1>3, <2>5, <2>6, FS_AddElement
  <2>8. \A v \in DOMAIN rs : es[rs[v]].used =>
          /\ v # k /\ v \in DOMAIN rs2 /\ rs2[v] = rs[v]
          /\ rs2[v] # rs2[k]
          /\ rs2[v] \in DOMAIN es2 /\ es2[rs2[v]] = es[rs[v]]
    BY <1>1, <2>0, <2>3, <2>4
  <2>9. k \in DOMAIN rs2 /\ rs2[k] \in DOMAIN es2 /\ es2[rs2[k]] = new
    BY <1>1, <2>0, <2>3, <2>4
  <2>10. QED
    BY <1>2, <2>7, <2>8, <2>9, <2>a DEF Opened, es2, rs2
<1>6. QED
  BY <1>4, <1>5

\* The entry at v has been given up.
Closed(es, rs, es2, v) ==
  /\ DOMAIN es2 = DOMAIN es
  /\ \A r \in DOMAIN es : r # rs[v] => es2[r] = es[r]
  /\ Cardinality(UsedEntries(es2)) = Cardinality(UsedEntries(es)) - 1

(* When fclose has ended, its entry is given up.                              *)
LEMMA UnuseCloses ==
  ASSUME NEW es, NEW rs, TypedLists(es, rs), NEW v \in DOMAIN rs, es[rs[v]].used,
         NEW c, c.step \in {"close", "unuse"}, c.from = 0, c.ref = rs[v]
  PROVE  Closed(es, rs, LaterEntries(es, rs, c), v) /\ LaterList(es, rs, c) = rs
<1> DEFINE es2 == LaterEntries(es, rs, c)
<1>1. es2 = [es EXCEPT ![rs[v]].used = FALSE]
  BY DEF LaterEntries
<1>2. es \in Seq(Entry) /\ rs[v] \in DOMAIN es
  BY DEF TypedLists
<1> HIDE DEF es2
<1>3. es[rs[v]] \in Entry
  BY <1>2
<1>4. DOMAIN es2 = DOMAIN es /\ \A r \in DOMAIN es : r # rs[v] => es2[r] = es[r]
  BY <1>1, <1>2
<1>5. ~es2[rs[v]].used
  BY <1>1, <1>2, <1>3 DEF Entry
<1>6. UsedEntries(es2) = UsedEntries(es) \ {rs[v]}
  BY <1>4, <1>5 DEF UsedEntries
<1>7. rs[v] \in UsedEntries(es) /\ IsFiniteSet(UsedEntries(es))
  BY <1>2, UsedFinite DEF UsedEntries
<1>8. Cardinality(UsedEntries(es2)) = Cardinality(UsedEntries(es)) - 1
  BY <1>6, <1>7, FS_RemoveElement
<1>9. LaterList(es, rs, c) = rs
  BY DEF LaterList
<1>10. QED
  BY <1>4, <1>8, <1>9 DEF Closed, es2

\* The entry at v is a copy of the one at w.
Copied(es, rs, es2, v, w) ==
  /\ DOMAIN es2 = DOMAIN es /\ es2[rs[v]] = es[rs[w]]
  /\ \A r \in DOMAIN es : r # rs[v] => es2[r] = es[r]
  /\ UsedEntries(es2) = UsedEntries(es)

(* When dup2 has ended, its entry is a copy.                                  *)
LEMMA CopyCopies ==
  ASSUME NEW es, NEW rs, TypedLists(es, rs),
         NEW v \in DOMAIN rs, NEW w \in DOMAIN rs, es[rs[v]].used, es[rs[w]].used,
         NEW c, c.step \in {"close", "unuse"}, c.from = w, c.ref = rs[v]
  PROVE  Copied(es, rs, LaterEntries(es, rs, c), v, w) /\ LaterList(es, rs, c) = rs
<1> DEFINE es2 == LaterEntries(es, rs, c)
<1>1. c.from # 0
  BY DEF TypedLists
<1>2. es2 = [es EXCEPT ![rs[v]] = es[rs[w]]]
  BY <1>1 DEF LaterEntries
<1>3. rs[v] \in DOMAIN es
  BY DEF TypedLists
<1> HIDE DEF es2
<1>4. /\ DOMAIN es2 = DOMAIN es /\ es2[rs[v]] = es[rs[w]]
      /\ \A r \in DOMAIN es : r # rs[v] => es2[r] = es[r]
  BY <1>2, <1>3
<1>5. UsedEntries(es2) = UsedEntries(es)
  BY <1>3, <1>4 DEF UsedEntries
<1>6. LaterList(es, rs, c) = rs
  BY DEF LaterList
<1>7. QED
  BY <1>4, <1>5, <1>6 DEF Copied, es2

\* Entries that differ in their offsets only.
Similar(es, es2) ==
  /\ DOMAIN es2 = DOMAIN es
  /\ \A r \in DOMAIN es : es2[r].used = es[r].used /\ es2[r].fd = es[r].fd

(* The sets of slots of a program are finite.                                 *)
LEMMA SlotsFinite ==
  ASSUME NEW pr
  PROVE  IsFiniteSet(Slots(pr)) /\ Cardinality(Slots(pr)) \in Nat
<1> DEFINE A == (1 .. 4) \cup {pr.newstdin}
           B == A \cup {pr.newstdout}
           C == B \cup {pr.fd}
<1>1. IsFiniteSet(A)
  <2>1. IsFiniteSet(1 .. 4)
    <3>1. 1 \in Int /\ 4 \in Int
      OBVIOUS
    <3>2. QED
      BY <3>1, FS_Interval
  <2>2. QED
    BY <2>1, FS_AddElement
<1>2. IsFiniteSet(B)
  <2> HIDE DEF A
  <2> QED BY <1>1, FS_AddElement
<1>a. IsFiniteSet(C)
  <2> HIDE DEF B
  <2> QED BY <1>2, FS_AddElement
<1>b. Slots(pr) \subseteq C
  <2>1. Slots(pr) \subseteq {1, 2, 3, 4} \cup {pr.newstdin, pr.newstdout, pr.fd}
    BY DEF Slots
  <2>2. \A x \in {1, 2, 3, 4} : x \in 1 .. 4
    OBVIOUS
  <2>3. QED
    BY <2>1, <2>2
<1>3. IsFiniteSet(Slots(pr))
  <2> HIDE DEF C
  <2> QED BY <1>a, <1>b, FS_Subset
<1>4. QED
  BY <1>3, FS_CardinalityType
(* A slot is added, is given up, or gets a copy of another.                   *)
LEMMA SlotAdded ==
  ASSUME NEW es, NEW rs, NEW es2, NEW rs2, NEW k, NEW d, Opened(es, rs, es2, rs2, k, d),
         NEW S, InUse(es, rs, S)
  PROVE  /\ k \notin S /\ InUse(es2, rs2, S \cup {k})
         /\ \A v \in S : es2[rs2[v]] = es[rs[v]]
<1>1. \A v \in S : /\ v # k /\ v \in DOMAIN rs2 /\ rs2[v] = rs[v] /\ rs2[v] # rs2[k]
                   /\ rs2[v] \in DOMAIN es2 /\ es2[rs2[v]] = es[rs[v]]
                   /\ es[rs[v]].used
  BY DEF Opened, InUse
<1>2. \A v, w \in S : rs2[v] = rs2[w] => v = w
  BY <1>1 DEF InUse
<1>3. k \in DOMAIN rs2 /\ rs2[k] \in DOMAIN es2 /\ es2[rs2[k]].used
  BY DEF Opened
<1>4. QED
  BY <1>1, <1>2, <1>3 DEF InUse

(* The others stay when one is given up.                                      *)
LEMMA SlotClosed ==
  ASSUME NEW es, NEW rs, NEW es2, NEW v, Closed(es, rs, es2, v),
         NEW S, InUse(es, rs, S), v \in S
  PROVE  /\ InUse(es2, rs, S \ {v})
         /\ \A w \in S \ {v} : es2[rs[w]] = es[rs[w]]
<1>1. \A w \in S \ {v} : rs[w] \in DOMAIN es /\ rs[w] # rs[v]
  BY DEF InUse
<1>2. \A w \in S \ {v} : es2[rs[w]] = es[rs[w]] /\ rs[w] \in DOMAIN es2
  BY <1>1 DEF Closed
<1>3. QED
  BY <1>2 DEF InUse

(* All stay when one gets a copy.                                             *)
LEMMA SlotCopied ==
  ASSUME NEW es, NEW rs, NEW es2, NEW v, NEW w, Copied(es, rs, es2, v, w),
         NEW S, InUse(es, rs, S), v \in S, w \in S
  PROVE  /\ InUse(es2, rs, S)
         /\ \A u \in S : es2[rs[u]] = IF u = v THEN es[rs[w]] ELSE es[rs[u]]
<1>1. \A u \in S : rs[u] \in DOMAIN es /\ (u # v => rs[u] # rs[v])
  BY DEF InUse
<1>2. \A u \in S : /\ rs[u] \in DOMAIN es2
                   /\ es2[rs[u]] = IF u = v THEN es[rs[w]] ELSE es[rs[u]]
  BY <1>1 DEF Copied
<1>3. QED
  BY <1>2 DEF InUse

(* Offsets do not matter.                                                     *)
LEMMA SimilarRuns ==
  ASSUME NEW pr, NEW es, NEW rs, NEW es2, Similar(es, es2), ProgramInv(pr, es, rs),
         NEW lst, NEW kept, FilesOpen(pr, es, rs, lst, kept)
  PROVE  ProgramInv(pr, es2, rs) /\ FilesOpen(pr, es2, rs, lst, kept)
<1>1. InUse(es2, rs, Slots(pr))
  BY DEF ProgramInv, InUse, Similar
<1>2. \A v \in Slots(pr) : es2[rs[v]].fd = es[rs[v]].fd
  BY DEF ProgramInv, InUse, Similar
<1>3. {1, 2} \subseteq Slots(pr)
  BY DEF Slots
<1>4. /\ OpenIn(pr) => pr.newstdin \in Slots(pr)
      /\ OpenOut(pr) => pr.newstdout \in Slots(pr)
      /\ pr.at \in {"opened", "used"} => pr.fd \in Slots(pr)
      /\ pr.name = "shell" /\ pr.at # "dup_stdin" => 3 \in Slots(pr)
      /\ pr.name = "shell" /\ pr.at \notin {"dup_stdin", "dup_stdout"} => 4 \in Slots(pr)
  BY DEF Slots, Located, ProgramInv, OpenIn, OpenOut, Before
<1>5. Streams(pr, es2, rs)
  BY <1>2, <1>3, <1>4 DEF ProgramInv, Streams, OpenIn, OpenOut, Before,
                          stdin, stdout, _stdin, _stdout
<1>6. UsedEntries(es2) = UsedEntries(es)
  BY DEF UsedEntries, Similar
<1>7. ProgramInv(pr, es2, rs)
  BY <1>1, <1>5, <1>6 DEF ProgramInv, Counted
<1>8. FilesOpen(pr, es2, rs, lst, kept)
  BY <1>2, <1>4 DEF FilesOpen, OpenIn, OpenOut, Before
<1>9. QED
  BY <1>7, <1>8

-----------------------------------------------------------------------------
(* The statements of a shell for a command.                                  *)

Applies(pr, k) ==
  CASE Statements[k] \in {"execute", "prompt"} -> TRUE
    [] Statements[k] \in {"set_stdin", "close_stdin", "reset_stdin"} -> pr.newstdin # 0
    [] OTHER -> pr.newstdout # 0

(* The next statement is the first that is to be done.                        *)
LEMMA StatementFirst ==
  ASSUME NEW p, NEW n \in 1 .. 8
  PROVE  \E k \in n .. 8 :
           /\ StatementFrom(p, n) = Statements[k] /\ Applies(program[p], k)
           /\ \A j \in n .. 8 : Applies(program[p], j) => k <= j
<1> DEFINE T == {k \in n .. 8 : Applies(program[p], k)}
<1>1. StatementFrom(p, n) = Statements[Min(T)]
  BY DEF StatementFrom, Applies
<1>2. Applies(program[p], 8)
  BY DEF Applies, Statements
<1>3. 8 \in T /\ T \in SUBSET Nat
  BY <1>2
<1> HIDE DEF T
<1>4. Min(T) \in T /\ \A y \in T : Min(T) <= y
  BY <1>3, MinExists
<1>5. QED
  BY <1>1, <1>4 DEF T

(* The statements by their numbers, and which of them are to be done.         *)
LEMMA StatementsAre ==
  ASSUME NEW pr
  PROVE  /\ Statements[1] = "set_stdout" /\ Statements[2] = "set_stdin"
         /\ Statements[3] = "execute" /\ Statements[4] = "close_stdout"
         /\ Statements[5] = "reset_stdout" /\ Statements[6] = "close_stdin"
         /\ Statements[7] = "reset_stdin" /\ Statements[8] = "prompt"
         /\ \A k \in {1, 4, 5} : Applies(pr, k) <=> pr.newstdout # 0
         /\ \A k \in {2, 6, 7} : Applies(pr, k) <=> pr.newstdin # 0
         /\ \A k \in {3, 8} : Applies(pr, k)
BY DEF Statements, Applies

\* What follows statement n - 1.
StatementNext(pr, n, at) ==
  /\ n = 1 => at = IF pr.newstdout # 0 THEN "set_stdout"
                   ELSE IF pr.newstdin # 0 THEN "set_stdin" ELSE "execute"
  /\ n = 2 => at = IF pr.newstdin # 0 THEN "set_stdin" ELSE "execute"
  /\ n = 3 => at = "execute"
  /\ n = 4 => at = IF pr.newstdout # 0 THEN "close_stdout"
                   ELSE IF pr.newstdin # 0 THEN "close_stdin" ELSE "prompt"
  /\ n = 5 /\ pr.newstdout # 0 => at = "reset_stdout"
  /\ n = 6 => at = IF pr.newstdin # 0 THEN "close_stdin" ELSE "prompt"
  /\ n = 7 /\ pr.newstdin # 0 => at = "reset_stdin"
  /\ n = 8 => at = "prompt"

(* Arithmetic of the statement numbers.                                       *)
LEMMA StatementNumbers ==
  ASSUME NEW n \in Int, NEW k \in Int, NEW in, NEW out, n <= k, k <= 8,
         n <= 1 /\ out # 0 => k <= 1, n <= 2 /\ in # 0 => k <= 2, n <= 3 => k <= 3,
         n <= 4 /\ out # 0 => k <= 4, n <= 5 /\ out # 0 => k <= 5,
         n <= 6 /\ in # 0 => k <= 6, n <= 7 /\ in # 0 => k <= 7
  PROVE  /\ n = 1 => k \in {1, 2, 3}
         /\ n = 1 /\ out # 0 => k = 1
         /\ n = 1 /\ in # 0 => k \in {1, 2}
         /\ n = 2 => k \in {2, 3}
         /\ n = 2 /\ in # 0 => k = 2
         /\ n = 3 => k = 3
         /\ n = 4 => k \in {4, 5, 6, 7, 8}
         /\ n = 4 /\ out # 0 => k = 4
         /\ n = 4 /\ in # 0 => k \in {4, 5, 6}
         /\ n = 5 /\ out # 0 => k = 5
         /\ n = 6 => k \in {6, 7, 8}
         /\ n = 6 /\ in # 0 => k = 6
         /\ n = 7 /\ in # 0 => k = 7
         /\ n = 8 => k = 8
<1>1. /\ n = 1 => k \in {1, 2, 3}
      /\ n = 1 /\ out # 0 => k = 1
      /\ n = 1 /\ in # 0 => k \in {1, 2}
  OBVIOUS
<1>2. /\ n = 2 => k \in {2, 3}
      /\ n = 2 /\ in # 0 => k = 2
      /\ n = 3 => k = 3
  OBVIOUS
<1>3. n = 4 => k \in {4, 5, 6, 7, 8}
  OBVIOUS
<1>4. /\ n = 4 /\ out # 0 => k = 4
      /\ n = 4 /\ in # 0 => k \in {4, 5, 6}
      /\ n = 5 /\ out # 0 => k = 5
  OBVIOUS
<1>5. /\ n = 6 => k \in {6, 7, 8}
      /\ n = 6 /\ in # 0 => k = 6
  OBVIOUS
<1>6. (n = 7 /\ in # 0 => k = 7) /\ (n = 8 => k = 8)
  OBVIOUS
<1>7. QED
  BY <1>1, <1>2, <1>3, <1>4, <1>5, <1>6, Zenon

\* The statements, by their numbers.
Numbered(k, at, in, out) ==
  /\ k = 1 => at = "set_stdout" /\ out # 0
  /\ k = 2 => at = "set_stdin" /\ in # 0
  /\ k = 3 => at = "execute"
  /\ k = 4 => at = "close_stdout" /\ out # 0
  /\ k = 5 => at = "reset_stdout" /\ out # 0
  /\ k = 6 => at = "close_stdin" /\ in # 0
  /\ k = 7 => at = "reset_stdin" /\ in # 0
  /\ k = 8 => at = "prompt"

(* What comes next depends on the redirections there are.                     *)
LEMMA StatementsFollow ==
  ASSUME NEW p, NEW n \in 1 .. 8
  PROVE  StatementNext(program[p], n, StatementFrom(p, n))
<1> DEFINE pr == program[p]
           at == StatementFrom(p, n)
<1>1. PICK k \in n .. 8 : /\ at = Statements[k] /\ Applies(pr, k)
                          /\ \A j \in n .. 8 : Applies(pr, j) => k <= j
  BY StatementFirst
<1> HIDE DEF pr, at
<1>2. Numbered(k, at, pr.newstdin, pr.newstdout)
  BY <1>1, StatementsAre DEF Numbered
<1>3. /\ n <= 1 /\ pr.newstdout # 0 => k <= 1
      /\ n <= 2 /\ pr.newstdin # 0 => k <= 2
      /\ n <= 3 => k <= 3
      /\ n <= 4 /\ pr.newstdout # 0 => k <= 4
      /\ n <= 5 /\ pr.newstdout # 0 => k <= 5
      /\ n <= 6 /\ pr.newstdin # 0 => k <= 6
      /\ n <= 7 /\ pr.newstdin # 0 => k <= 7
  <2>1. \A j \in {1, 2, 3, 4, 5, 6, 7} : n <= j => j \in n .. 8
    OBVIOUS
  <2>2. \A j \in {1, 2, 3, 4, 5, 6, 7} : n <= j /\ Applies(pr, j) => k <= j
    BY <2>1, <1>1
  <2>3. QED
    BY <2>2, StatementsAre
<1>4. k \in Int /\ n \in Int /\ n <= k /\ k <= 8
  OBVIOUS
<1>5. /\ n = 1 => k \in {1, 2, 3}
      /\ n = 1 /\ pr.newstdout # 0 => k = 1
      /\ n = 1 /\ pr.newstdin # 0 => k \in {1, 2}
      /\ n = 2 => k \in {2, 3}
      /\ n = 2 /\ pr.newstdin # 0 => k = 2
      /\ n = 3 => k = 3
      /\ n = 4 => k \in {4, 5, 6, 7, 8}
      /\ n = 4 /\ pr.newstdout # 0 => k = 4
      /\ n = 4 /\ pr.newstdin # 0 => k \in {4, 5, 6}
      /\ n = 5 /\ pr.newstdout # 0 => k = 5
      /\ n = 6 => k \in {6, 7, 8}
      /\ n = 6 /\ pr.newstdin # 0 => k = 6
      /\ n = 7 /\ pr.newstdin # 0 => k = 7
      /\ n = 8 => k = 8
  BY <1>3, <1>4, StatementNumbers
<1>6. n = 1 => at = IF pr.newstdout # 0 THEN "set_stdout"
                    ELSE IF pr.newstdin # 0 THEN "set_stdin" ELSE "execute"
  BY <1>2, <1>5 DEF Numbered
<1>7. n = 2 => at = IF pr.newstdin # 0 THEN "set_stdin" ELSE "execute"
  BY <1>2, <1>5 DEF Numbered
<1>8. n = 4 => at = IF pr.newstdout # 0 THEN "close_stdout"
                    ELSE IF pr.newstdin # 0 THEN "close_stdin" ELSE "prompt"
  BY <1>2, <1>5 DEF Numbered
<1>9. n = 6 => at = IF pr.newstdin # 0 THEN "close_stdin" ELSE "prompt"
  BY <1>2, <1>5 DEF Numbered
<1>10. /\ n = 3 => at = "execute"
       /\ n = 5 /\ pr.newstdout # 0 => at = "reset_stdout"
       /\ n = 7 /\ pr.newstdin # 0 => at = "reset_stdin"
       /\ n = 8 => at = "prompt"
  BY <1>2, <1>5 DEF Numbered
<1>11. QED
  BY <1>6, <1>7, <1>8, <1>9, <1>10 DEF StatementNext, pr, at

-----------------------------------------------------------------------------
(* The statements of programs: what each leaves true of one program.         *)

\* pr2 is what pr becomes.
Becoming(pr2, pr, at, in, out, fd, lost) ==
  /\ pr2.name = pr.name /\ pr2.home = pr.home
  /\ pr2.at = at /\ pr2.newstdin = in /\ pr2.newstdout = out
  /\ pr2.fd = fd /\ pr2.lost = lost

\* The positions every program has open, once a shell has copied its streams.
OwnSlots(pr) == IF pr.name = "shell" THEN {1, 2, 3, 4} ELSE {1, 2}

(* Fewer slots are in use all the more.                                       *)
LEMMA FewerSlots ==
  ASSUME NEW es, NEW rs, NEW S, InUse(es, rs, S), NEW T, T \subseteq S
  PROVE  InUse(es, rs, T)
BY DEF InUse

(* How the number of slots changes.                                           *)
LEMMA SlotsCount ==
  ASSUME NEW pr, NEW k, k \notin Slots(pr)
  PROVE  /\ Cardinality(Slots(pr) \cup {k}) = Cardinality(Slots(pr)) + 1
         /\ \A x \in Slots(pr) :
              /\ Cardinality(Slots(pr) \ {x}) = Cardinality(Slots(pr)) - 1
              /\ Cardinality((Slots(pr) \ {x}) \cup {k}) = Cardinality(Slots(pr))
<1> DEFINE S == Slots(pr)
<1>1. IsFiniteSet(S) /\ Cardinality(S) \in Nat
  BY SlotsFinite
<1> HIDE DEF S
<1>2. Cardinality(S \cup {k}) = Cardinality(S) + 1
  BY <1>1, FS_AddElement DEF S
<1>3. ASSUME NEW x \in S
      PROVE  /\ Cardinality(S \ {x}) = Cardinality(S) - 1
             /\ Cardinality((S \ {x}) \cup {k}) = Cardinality(S)
  <2>1. IsFiniteSet(S \ {x}) /\ Cardinality(S \ {x}) = Cardinality(S) - 1
    BY <1>1, <1>3, FS_RemoveElement
  <2>2. k \notin S \ {x}
    BY DEF S
  <2>3. Cardinality((S \ {x}) \cup {k}) = Cardinality(S \ {x}) + 1
    BY <2>1, <2>2, FS_AddElement
  <2>4. QED
    BY <1>1, <2>1, <2>3
<1>4. QED
  BY <1>2, <1>3 DEF S

(* login, read and write: a file is open.                                     *)
LEMMA OpensFile ==
  ASSUME NEW pr, NEW es, NEW rs, ProgramInv(pr, es, rs),
         pr.at = "prompt", pr.name \in {"login", "shell"}, pr.lost \in Nat,
         NEW es2, NEW rs2, NEW k, NEW d, Opened(es, rs, es2, rs2, k, d),
         NEW pr2, Becoming(pr2, pr, "opened", 0, 0, k, pr.lost),
         NEW lst2, NEW kept2, d \in kept2, lst2[d].inode \in Files
  PROVE  ProgramInv(pr2, es2, rs2) /\ FilesOpen(pr2, es2, rs2, lst2, kept2)
<1>1. /\ Located(pr) /\ InUse(es, rs, Slots(pr)) /\ Streams(pr, es, rs)
      /\ Counted(pr, es, rs) /\ pr.newstdin = 0 /\ pr.newstdout = 0
  BY DEF ProgramInv, Located
<1>2. Slots(pr) = OwnSlots(pr) /\ Slots(pr2) = Slots(pr) \cup {k}
  BY <1>1 DEF Slots, OpenIn, OpenOut, Becoming, OwnSlots
<1>3. /\ k \notin Slots(pr) /\ InUse(es2, rs2, Slots(pr2))
      /\ \A v \in Slots(pr) : es2[rs2[v]] = es[rs[v]]
  BY <1>1, <1>2, SlotAdded
<1>4. Located(pr2)
  BY <1>1, <1>2, <1>3 DEF Located, Becoming, OwnSlots
<1>5. Streams(pr2, es2, rs2)
  BY <1>1, <1>2, <1>3 DEF Streams, Becoming, OwnSlots, Before, stdin, stdout, _stdin, _stdout
<1>6. Counted(pr2, es2, rs2)
  <2>1. Cardinality(Slots(pr2)) = Cardinality(Slots(pr)) + 1
    BY <1>2, <1>3, SlotsCount
  <2>2. Cardinality(Slots(pr)) \in Nat
    BY SlotsFinite
  <2>3. pr.name = "shell" =>
          Cardinality(UsedEntries(es2)) = Cardinality(Slots(pr2)) + pr2.lost
    BY <1>1, <2>1, <2>2 DEF Counted, Opened, Becoming
  <2>4. QED
    BY <2>3 DEF Counted, Becoming
<1>7. FilesOpen(pr2, es2, rs2, lst2, kept2)
  <2>1. es2[rs2[k]].fd = d
    BY DEF Opened
  <2>2. QED
    BY <2>1 DEF FilesOpen, Becoming
<1>8. QED
  BY <1>3, <1>4, <1>5, <1>6, <1>7 DEF ProgramInv

(* "< file": the file is open; a first one is lost.                           *)
LEMMA ParsesIn ==
  ASSUME NEW pr, NEW es, NEW rs, ProgramInv(pr, es, rs),
         pr.at \in {"prompt", "parse"}, pr.name = "shell", pr.lost \in Nat,
         NEW lst, NEW kept, FilesOpen(pr, es, rs, lst, kept),
         NEW es2, NEW rs2, NEW k, NEW d, Opened(es, rs, es2, rs2, k, d), k # 0,
         NEW pr2, Becoming(pr2, pr, "parse", k, pr.newstdout, pr.fd,
                           IF pr.newstdin = 0 THEN pr.lost ELSE pr.lost + 1),
         NEW lst2, NEW kept2, d \in kept2, kept \subseteq kept2
  PROVE  ProgramInv(pr2, es2, rs2) /\ FilesOpen(pr2, es2, rs2, lst2, kept2)
<1>1. /\ Located(pr) /\ InUse(es, rs, Slots(pr)) /\ Streams(pr, es, rs)
      /\ Counted(pr, es, rs)
  BY DEF ProgramInv
<1>2. Slots(pr) = {1, 2, 3, 4} \cup (IF pr.newstdin # 0 THEN {pr.newstdin} ELSE {})
                              \cup (IF pr.newstdout # 0 THEN {pr.newstdout} ELSE {})
  BY <1>1 DEF Slots, OpenIn, OpenOut, Before
<1>3. Slots(pr2) = {1, 2, 3, 4} \cup {k}
                     \cup (IF pr.newstdout # 0 THEN {pr.newstdout} ELSE {})
  BY DEF Slots, OpenIn, OpenOut, Before, Becoming
<1>4. /\ k \notin Slots(pr) /\ InUse(es2, rs2, Slots(pr) \cup {k})
      /\ \A v \in Slots(pr) : es2[rs2[v]] = es[rs[v]]
  BY <1>1, SlotAdded
<1>5. InUse(es2, rs2, Slots(pr2))
  <2>1. Slots(pr2) \subseteq Slots(pr) \cup {k}
    BY <1>2, <1>3
  <2>2. QED
    BY <1>4, <2>1, FewerSlots
<1>6. Located(pr2)
  <2>1. k \notin {1, 2, 3, 4} /\ k # pr.newstdout
    BY <1>2, <1>4
  <2>2. QED
    BY <1>1, <2>1 DEF Located, Becoming
<1>7. Streams(pr2, es2, rs2)
  BY <1>1, <1>2, <1>4 DEF Streams, Becoming, Before, stdin, stdout, _stdin, _stdout, Located
<1>8. Counted(pr2, es2, rs2)
  <2>1. Cardinality(Slots(pr)) \in Nat
    BY SlotsFinite
  <2>2. Cardinality(UsedEntries(es2)) = Cardinality(Slots(pr)) + pr.lost + 1
    BY <1>1, <2>1 DEF Counted, Opened
  <2>3. CASE pr.newstdin = 0
    <3>1. Slots(pr2) = Slots(pr) \cup {k}
      BY <1>2, <1>3, <2>3
    <3>2. Cardinality(Slots(pr2)) = Cardinality(Slots(pr)) + 1
      BY <1>4, <3>1, SlotsCount
    <3>3. QED
      BY <2>1, <2>2, <2>3, <3>2 DEF Counted, Becoming
  <2>4. CASE pr.newstdin # 0
    <3>1. /\ pr.newstdin \in Slots(pr)
          /\ Slots(pr2) = (Slots(pr) \ {pr.newstdin}) \cup {k}
      BY <1>1, <1>2, <1>3, <2>4 DEF Located
    <3>2. \A x \in Slots(pr) :
            Cardinality((Slots(pr) \ {x}) \cup {k}) = Cardinality(Slots(pr))
      BY <1>4, SlotsCount
    <3>a. Cardinality(Slots(pr2)) = Cardinality(Slots(pr))
      BY <3>1, <3>2
    <3>3. QED
      BY <2>1, <2>2, <2>4, <3>a DEF Counted, Becoming
  <2>5. QED
    BY <2>3, <2>4
<1>9. FilesOpen(pr2, es2, rs2, lst2, kept2)
  <2>1. es2[rs2[k]].fd = d
    BY DEF Opened
  <2>2. pr.newstdout # 0 => es2[rs2[pr.newstdout]] = es[rs[pr.newstdout]]
    BY <1>2, <1>4
  <2>3. QED
    BY <2>1, <2>2 DEF FilesOpen, Becoming, Before
<1>10. QED
  BY <1>5, <1>6, <1>7, <1>8, <1>9 DEF ProgramInv

(* "> file": the same.                                                        *)
LEMMA ParsesOut ==
  ASSUME NEW pr, NEW es, NEW rs, ProgramInv(pr, es, rs),
         pr.at \in {"prompt", "parse"}, pr.name = "shell", pr.lost \in Nat,
         NEW lst, NEW kept, FilesOpen(pr, es, rs, lst, kept),
         NEW es2, NEW rs2, NEW k, NEW d, Opened(es, rs, es2, rs2, k, d), k # 0,
         NEW pr2, Becoming(pr2, pr, "parse", pr.newstdin, k, pr.fd,
                           IF pr.newstdout = 0 THEN pr.lost ELSE pr.lost + 1),
         NEW lst2, NEW kept2, d \in kept2, kept \subseteq kept2
  PROVE  ProgramInv(pr2, es2, rs2) /\ FilesOpen(pr2, es2, rs2, lst2, kept2)
<1>1. /\ Located(pr) /\ InUse(es, rs, Slots(pr)) /\ Streams(pr, es, rs)
      /\ Counted(pr, es, rs)
  BY DEF ProgramInv
<1>2. Slots(pr) = {1, 2, 3, 4} \cup (IF pr.newstdout # 0 THEN {pr.newstdout} ELSE {})
                              \cup (IF pr.newstdin # 0 THEN {pr.newstdin} ELSE {})
  BY <1>1 DEF Slots, OpenIn, OpenOut, Before
<1>3. Slots(pr2) = {1, 2, 3, 4} \cup {k}
                     \cup (IF pr.newstdin # 0 THEN {pr.newstdin} ELSE {})
  BY DEF Slots, OpenIn, OpenOut, Before, Becoming
<1>4. /\ k \notin Slots(pr) /\ InUse(es2, rs2, Slots(pr) \cup {k})
      /\ \A v \in Slots(pr) : es2[rs2[v]] = es[rs[v]]
  BY <1>1, SlotAdded
<1>5. InUse(es2, rs2, Slots(pr2))
  <2>1. Slots(pr2) \subseteq Slots(pr) \cup {k}
    BY <1>2, <1>3
  <2>2. QED
    BY <1>4, <2>1, FewerSlots
<1>6. Located(pr2)
  <2>1. k \notin {1, 2, 3, 4} /\ k # pr.newstdin
    BY <1>2, <1>4
  <2>2. QED
    BY <1>1, <2>1 DEF Located, Becoming
<1>7. Streams(pr2, es2, rs2)
  BY <1>1, <1>2, <1>4 DEF Streams, Becoming, Before, stdin, stdout, _stdin, _stdout, Located
<1>8. Counted(pr2, es2, rs2)
  <2>1. Cardinality(Slots(pr)) \in Nat
    BY SlotsFinite
  <2>2. Cardinality(UsedEntries(es2)) = Cardinality(Slots(pr)) + pr.lost + 1
    BY <1>1, <2>1 DEF Counted, Opened
  <2>3. CASE pr.newstdout = 0
    <3>1. Slots(pr2) = Slots(pr) \cup {k}
      BY <1>2, <1>3, <2>3
    <3>2. Cardinality(Slots(pr2)) = Cardinality(Slots(pr)) + 1
      BY <1>4, <3>1, SlotsCount
    <3>3. QED
      BY <2>1, <2>2, <2>3, <3>2 DEF Counted, Becoming
  <2>4. CASE pr.newstdout # 0
    <3>1. /\ pr.newstdout \in Slots(pr)
          /\ Slots(pr2) = (Slots(pr) \ {pr.newstdout}) \cup {k}
      BY <1>1, <1>2, <1>3, <2>4 DEF Located
    <3>2. \A x \in Slots(pr) :
            Cardinality((Slots(pr) \ {x}) \cup {k}) = Cardinality(Slots(pr))
      BY <1>4, SlotsCount
    <3>a. Cardinality(Slots(pr2)) = Cardinality(Slots(pr))
      BY <3>1, <3>2
    <3>3. QED
      BY <2>1, <2>2, <2>4, <3>a DEF Counted, Becoming
  <2>5. QED
    BY <2>3, <2>4
<1>9. FilesOpen(pr2, es2, rs2, lst2, kept2)
  <2>1. es2[rs2[k]].fd = d
    BY DEF Opened
  <2>2. pr.newstdin # 0 => es2[rs2[pr.newstdin]] = es[rs[pr.newstdin]]
    BY <1>2, <1>4
  <2>3. QED
    BY <2>1, <2>2 DEF FilesOpen, Becoming, Before
<1>10. QED
  BY <1>5, <1>6, <1>7, <1>8, <1>9 DEF ProgramInv

(* The file is closed.                                                        *)
LEMMA ClosesFile ==
  ASSUME NEW pr, NEW es, NEW rs, ProgramInv(pr, es, rs), pr.at = "used",
         pr.name \in {"login", "shell"}, pr.lost \in Nat,
         NEW es2, Closed(es, rs, es2, pr.fd),
         NEW pr2, Becoming(pr2, pr, IF pr.name = "login" THEN "execute" ELSE "prompt",
                           0, 0, 0, pr.lost),
         NEW lst2, NEW kept2
  PROVE  ProgramInv(pr2, es2, rs) /\ FilesOpen(pr2, es2, rs, lst2, kept2)
<1>1. /\ Located(pr) /\ InUse(es, rs, Slots(pr)) /\ Streams(pr, es, rs)
      /\ Counted(pr, es, rs) /\ pr.newstdin = 0 /\ pr.newstdout = 0
  BY DEF ProgramInv, Located
<1>2. /\ Slots(pr) = OwnSlots(pr) \cup {pr.fd} /\ pr.fd \notin OwnSlots(pr)
      /\ Slots(pr2) = OwnSlots(pr)
  BY <1>1 DEF Slots, OpenIn, OpenOut, Becoming, OwnSlots, Located
<1>3. /\ pr.fd \in Slots(pr) /\ Slots(pr2) = Slots(pr) \ {pr.fd}
  BY <1>2
<1>4. /\ InUse(es2, rs, Slots(pr2))
      /\ \A v \in Slots(pr2) : es2[rs[v]] = es[rs[v]]
  BY <1>1, <1>3, SlotClosed
<1>5. Located(pr2)
  BY <1>1 DEF Located, Becoming
<1>6. Streams(pr2, es2, rs)
  BY <1>1, <1>2, <1>4 DEF Streams, Becoming, OwnSlots, Before, stdin, stdout, _stdin, _stdout
<1>7. Counted(pr2, es2, rs)
  <2>1. Cardinality(Slots(pr)) \in Nat /\ IsFiniteSet(Slots(pr))
    BY SlotsFinite
  <2>2. Cardinality(Slots(pr2)) = Cardinality(Slots(pr)) - 1
    BY <1>3, <2>1, FS_RemoveElement
  <2>3. pr.name = "shell" =>
          Cardinality(UsedEntries(es2)) = Cardinality(Slots(pr2)) + pr2.lost
    BY <1>1, <2>1, <2>2 DEF Counted, Closed, Becoming
  <2>4. QED
    BY <2>3 DEF Counted, Becoming
<1>8. FilesOpen(pr2, es2, rs, lst2, kept2)
  BY DEF FilesOpen, Becoming
<1>9. QED
  BY <1>4, <1>5, <1>6, <1>7, <1>8 DEF ProgramInv

(* After a command, the file after > is closed.                               *)
LEMMA ClosesStdout ==
  ASSUME NEW pr, NEW es, NEW rs, ProgramInv(pr, es, rs), pr.at = "close_stdout",
         pr.name = "shell", pr.lost \in Nat,
         NEW es2, Closed(es, rs, es2, pr.newstdout),
         NEW pr2, Becoming(pr2, pr, "reset_stdout", pr.newstdin, pr.newstdout, pr.fd, pr.lost),
         NEW lst2, NEW kept2
  PROVE  ProgramInv(pr2, es2, rs) /\ FilesOpen(pr2, es2, rs, lst2, kept2)
<1>1. /\ Located(pr) /\ InUse(es, rs, Slots(pr)) /\ Streams(pr, es, rs)
      /\ Counted(pr, es, rs) /\ pr.newstdout # 0
  BY DEF ProgramInv, Located
<1>2. /\ Slots(pr) = {1, 2, 3, 4} \cup {pr.newstdout}
                       \cup (IF pr.newstdin # 0 THEN {pr.newstdin} ELSE {})
      /\ Slots(pr2) = {1, 2, 3, 4} \cup (IF pr.newstdin # 0 THEN {pr.newstdin} ELSE {})
  BY <1>1 DEF Slots, OpenIn, OpenOut, Before, Becoming
<1>3. /\ pr.newstdout \in Slots(pr) /\ Slots(pr2) = Slots(pr) \ {pr.newstdout}
  BY <1>1, <1>2 DEF Located
<1>4. /\ InUse(es2, rs, Slots(pr2))
      /\ \A v \in Slots(pr2) : es2[rs[v]] = es[rs[v]]
  <2>1. /\ InUse(es2, rs, Slots(pr) \ {pr.newstdout})
        /\ \A v \in Slots(pr) \ {pr.newstdout} : es2[rs[v]] = es[rs[v]]
    BY <1>1, <1>3, SlotClosed
  <2>2. QED
    BY <1>3, <2>1
<1>5. Located(pr2)
  BY <1>1 DEF Located, Becoming
<1>6. Streams(pr2, es2, rs)
  BY <1>1, <1>2, <1>4 DEF Streams, Becoming, Before, stdin, stdout, _stdin, _stdout
<1>7. Counted(pr2, es2, rs)
  <2>1. Cardinality(Slots(pr)) \in Nat /\ IsFiniteSet(Slots(pr))
    BY SlotsFinite
  <2>2. Cardinality(Slots(pr2)) = Cardinality(Slots(pr)) - 1
    BY <1>3, <2>1, FS_RemoveElement
  <2>3. Cardinality(UsedEntries(es2)) = Cardinality(Slots(pr2)) + pr2.lost
    BY <1>1, <2>1, <2>2 DEF Counted, Closed, Becoming
  <2>4. QED
    BY <2>3 DEF Counted, Becoming
<1>8. FilesOpen(pr2, es2, rs, lst2, kept2)
  BY DEF FilesOpen, Becoming, Before
<1>9. QED
  BY <1>4, <1>5, <1>6, <1>7, <1>8 DEF ProgramInv

(* And the one after <.                                                       *)
LEMMA ClosesStdin ==
  ASSUME NEW pr, NEW es, NEW rs, ProgramInv(pr, es, rs), pr.at = "close_stdin",
         pr.name = "shell", pr.lost \in Nat,
         NEW es2, Closed(es, rs, es2, pr.newstdin),
         NEW pr2, Becoming(pr2, pr, "reset_stdin", pr.newstdin, pr.newstdout, pr.fd, pr.lost),
         NEW lst2, NEW kept2
  PROVE  ProgramInv(pr2, es2, rs) /\ FilesOpen(pr2, es2, rs, lst2, kept2)
<1>1. /\ Located(pr) /\ InUse(es, rs, Slots(pr)) /\ Streams(pr, es, rs)
      /\ Counted(pr, es, rs) /\ pr.newstdin # 0
  BY DEF ProgramInv, Located
<1>2. /\ Slots(pr) = {1, 2, 3, 4} \cup {pr.newstdin}
      /\ Slots(pr2) = {1, 2, 3, 4}
  BY <1>1 DEF Slots, OpenIn, OpenOut, Before, Becoming
<1>3. /\ pr.newstdin \in Slots(pr) /\ Slots(pr2) = Slots(pr) \ {pr.newstdin}
  BY <1>1, <1>2 DEF Located
<1>4. /\ InUse(es2, rs, Slots(pr2))
      /\ \A v \in Slots(pr2) : es2[rs[v]] = es[rs[v]]
  <2>1. /\ InUse(es2, rs, Slots(pr) \ {pr.newstdin})
        /\ \A v \in Slots(pr) \ {pr.newstdin} : es2[rs[v]] = es[rs[v]]
    BY <1>1, <1>3, SlotClosed
  <2>2. QED
    BY <1>3, <2>1
<1>5. Located(pr2)
  BY <1>1 DEF Located, Becoming
<1>6. Streams(pr2, es2, rs)
  BY <1>1, <1>2, <1>4 DEF Streams, Becoming, Before, stdin, stdout, _stdin, _stdout
<1>7. Counted(pr2, es2, rs)
  <2>1. Cardinality(Slots(pr)) \in Nat /\ IsFiniteSet(Slots(pr))
    BY SlotsFinite
  <2>2. Cardinality(Slots(pr2)) = Cardinality(Slots(pr)) - 1
    BY <1>3, <2>1, FS_RemoveElement
  <2>3. Cardinality(UsedEntries(es2)) = Cardinality(Slots(pr2)) + pr2.lost
    BY <1>1, <2>1, <2>2 DEF Counted, Closed, Becoming
  <2>4. QED
    BY <2>3 DEF Counted, Becoming
<1>8. FilesOpen(pr2, es2, rs, lst2, kept2)
  BY DEF FilesOpen, Becoming, Before
<1>9. QED
  BY <1>4, <1>5, <1>6, <1>7, <1>8 DEF ProgramInv

(* A program goes on with the slots it has, and nothing is opened, closed or  *)
(* lost: the count stays.                                                     *)
LEMMA SlotsStay ==
  ASSUME NEW pr, NEW es, NEW rs, ProgramInv(pr, es, rs), pr.at \notin {"dup_stdin", "dup_stdout"},
         NEW es2, UsedEntries(es2) = UsedEntries(es), InUse(es2, rs, Slots(pr)),
         NEW pr2, pr2.name = pr.name, pr2.lost = pr.lost, Slots(pr2) = Slots(pr),
         pr2.at \notin {"dup_stdin", "dup_stdout"}
  PROVE  InUse(es2, rs, Slots(pr2)) /\ Counted(pr2, es2, rs)
BY DEF ProgramInv, Counted

\* How pr2 goes on after a statement that comes before n.
GoesOn(pr2, pr, n) ==
  /\ StatementNext(pr, n, pr2.at)
  /\ Becoming(pr2, pr, pr2.at, IF pr2.at = "prompt" THEN 0 ELSE pr.newstdin,
              IF pr2.at = "prompt" THEN 0 ELSE pr.newstdout, pr.fd, pr.lost)

(* Before a command, its standard output is set.                              *)
LEMMA SetsStdout ==
  ASSUME NEW pr, NEW es, NEW rs, ProgramInv(pr, es, rs), pr.at = "set_stdout",
         pr.name = "shell",
         NEW es2, Copied(es, rs, es2, 2, pr.newstdout),
         NEW pr2, GoesOn(pr2, pr, 2),
         NEW lst, NEW kept, FilesOpen(pr, es, rs, lst, kept), NEW lst2, NEW kept2, kept \subseteq kept2
  PROVE  ProgramInv(pr2, es2, rs) /\ FilesOpen(pr2, es2, rs, lst2, kept2)
<1>1. /\ Located(pr) /\ InUse(es, rs, Slots(pr)) /\ Streams(pr, es, rs)
      /\ pr.newstdout # 0 /\ pr.newstdout \notin {1, 2, 3, 4} /\ pr.newstdin \notin {1, 2, 3, 4}
  BY DEF ProgramInv, Located
<1>2. /\ pr2.at = IF pr.newstdin # 0 THEN "set_stdin" ELSE "execute"
      /\ Becoming(pr2, pr, pr2.at, pr.newstdin, pr.newstdout, pr.fd, pr.lost)
  BY DEF GoesOn, StatementNext
<1>3. /\ {1, 2, 3, 4, pr.newstdout} \subseteq Slots(pr)
      /\ pr.newstdin # 0 => pr.newstdin \in Slots(pr)
      /\ Slots(pr2) = Slots(pr)
  BY <1>1, <1>2 DEF Slots, OpenIn, OpenOut, Before, Becoming
<1>4. /\ InUse(es2, rs, Slots(pr))
      /\ \A u \in Slots(pr) : es2[rs[u]] = IF u = 2 THEN es[rs[pr.newstdout]] ELSE es[rs[u]]
  <2>1. 2 \in Slots(pr) /\ pr.newstdout \in Slots(pr)
    BY <1>3
  <2>2. QED
    BY <1>1, <2>1, SlotCopied
<1>5. Located(pr2)
  BY <1>1, <1>2 DEF Located, Becoming
<1>6. Streams(pr2, es2, rs)
  BY <1>1, <1>2, <1>3, <1>4 DEF Streams, Becoming, Before, stdin, stdout, _stdin, _stdout
<1>7. InUse(es2, rs, Slots(pr2)) /\ Counted(pr2, es2, rs)
  <2>1. UsedEntries(es2) = UsedEntries(es)
    BY DEF Copied
  <2>2. /\ pr2.name = pr.name /\ pr2.lost = pr.lost
        /\ pr2.at \notin {"dup_stdin", "dup_stdout"}
    BY <1>2 DEF Becoming
  <2>3. QED
    BY <1>3, <1>4, <2>1, <2>2, SlotsStay
<1>8. FilesOpen(pr2, es2, rs, lst2, kept2)
  BY <1>1, <1>2, <1>3, <1>4 DEF FilesOpen, Becoming, Before
<1>9. QED
  BY <1>5, <1>6, <1>7, <1>8 DEF ProgramInv

(* And its standard input.                                                    *)
LEMMA SetsStdin ==
  ASSUME NEW pr, NEW es, NEW rs, ProgramInv(pr, es, rs), pr.at = "set_stdin",
         pr.name = "shell",
         NEW es2, Copied(es, rs, es2, 1, pr.newstdin),
         NEW pr2, GoesOn(pr2, pr, 3),
         NEW lst, NEW kept, FilesOpen(pr, es, rs, lst, kept), NEW lst2, NEW kept2, kept \subseteq kept2
  PROVE  ProgramInv(pr2, es2, rs) /\ FilesOpen(pr2, es2, rs, lst2, kept2)
<1>1. /\ Located(pr) /\ InUse(es, rs, Slots(pr)) /\ Streams(pr, es, rs)
      /\ pr.newstdin # 0 /\ pr.newstdout \notin {1, 2, 3, 4} /\ pr.newstdin \notin {1, 2, 3, 4}
  BY DEF ProgramInv, Located
<1>2. /\ pr2.at = "execute"
      /\ Becoming(pr2, pr, pr2.at, pr.newstdin, pr.newstdout, pr.fd, pr.lost)
  BY DEF GoesOn, StatementNext
<1>3. /\ {1, 2, 3, 4, pr.newstdin} \subseteq Slots(pr)
      /\ pr.newstdout # 0 => pr.newstdout \in Slots(pr)
      /\ Slots(pr2) = Slots(pr)
  BY <1>1, <1>2 DEF Slots, OpenIn, OpenOut, Before, Becoming
<1>4. /\ InUse(es2, rs, Slots(pr))
      /\ \A u \in Slots(pr) : es2[rs[u]] = IF u = 1 THEN es[rs[pr.newstdin]] ELSE es[rs[u]]
  <2>1. 1 \in Slots(pr) /\ pr.newstdin \in Slots(pr)
    BY <1>3
  <2>2. QED
    BY <1>1, <2>1, SlotCopied
<1>5. Located(pr2)
  BY <1>1, <1>2 DEF Located, Becoming
<1>6. Streams(pr2, es2, rs)
  BY <1>1, <1>2, <1>3, <1>4 DEF Streams, Becoming, Before, stdin, stdout, _stdin, _stdout
<1>7. InUse(es2, rs, Slots(pr2)) /\ Counted(pr2, es2, rs)
  <2>1. UsedEntries(es2) = UsedEntries(es)
    BY DEF Copied
  <2>2. /\ pr2.name = pr.name /\ pr2.lost = pr.lost
        /\ pr2.at \notin {"dup_stdin", "dup_stdout"}
    BY <1>2 DEF Becoming
  <2>3. QED
    BY <1>3, <1>4, <2>1, <2>2, SlotsStay
<1>8. FilesOpen(pr2, es2, rs, lst2, kept2)
  BY <1>1, <1>2, <1>3, <1>4 DEF FilesOpen, Becoming, Before
<1>9. QED
  BY <1>5, <1>6, <1>7, <1>8 DEF ProgramInv

(* After a command, standard output is reset.                                 *)
LEMMA ResetsStdout ==
  ASSUME NEW pr, NEW es, NEW rs, ProgramInv(pr, es, rs), pr.at = "reset_stdout",
         pr.name = "shell",
         NEW es2, Copied(es, rs, es2, 2, 4),
         NEW pr2, GoesOn(pr2, pr, 6), NEW lst2, NEW kept2
  PROVE  ProgramInv(pr2, es2, rs) /\ FilesOpen(pr2, es2, rs, lst2, kept2)
<1>1. /\ Located(pr) /\ InUse(es, rs, Slots(pr)) /\ Streams(pr, es, rs)
      /\ pr.newstdout # 0 /\ pr.newstdout \notin {1, 2, 3, 4} /\ pr.newstdin \notin {1, 2, 3, 4}
  BY DEF ProgramInv, Located
<1>2. /\ pr2.at = IF pr.newstdin # 0 THEN "close_stdin" ELSE "prompt"
      /\ Becoming(pr2, pr, pr2.at, pr.newstdin,
                  IF pr.newstdin = 0 THEN 0 ELSE pr.newstdout, pr.fd, pr.lost)
  BY DEF GoesOn, StatementNext, Becoming
<1>3. /\ {1, 2, 3, 4} \subseteq Slots(pr)
      /\ pr.newstdin # 0 => pr.newstdin \in Slots(pr)
      /\ Slots(pr2) = Slots(pr)
  BY <1>1, <1>2 DEF Slots, OpenIn, OpenOut, Before, Becoming
<1>4. /\ InUse(es2, rs, Slots(pr))
      /\ \A u \in Slots(pr) : es2[rs[u]] = IF u = 2 THEN es[rs[4]] ELSE es[rs[u]]
  <2>1. 2 \in Slots(pr) /\ 4 \in Slots(pr)
    BY <1>3
  <2>2. QED
    BY <1>1, <2>1, SlotCopied
<1>5. Located(pr2)
  BY <1>1, <1>2 DEF Located, Becoming
<1>6. Streams(pr2, es2, rs)
  BY <1>1, <1>2, <1>3, <1>4 DEF Streams, Becoming, Before, stdin, stdout, _stdin, _stdout
<1>7. InUse(es2, rs, Slots(pr2)) /\ Counted(pr2, es2, rs)
  <2>1. UsedEntries(es2) = UsedEntries(es)
    BY DEF Copied
  <2>2. /\ pr2.name = pr.name /\ pr2.lost = pr.lost
        /\ pr2.at \notin {"dup_stdin", "dup_stdout"}
    BY <1>2 DEF Becoming
  <2>3. QED
    BY <1>3, <1>4, <2>1, <2>2, SlotsStay
<1>8. FilesOpen(pr2, es2, rs, lst2, kept2)
  BY <1>2 DEF FilesOpen, Becoming, Before
<1>9. QED
  BY <1>5, <1>6, <1>7, <1>8 DEF ProgramInv

(* And standard input; the shell prompts.                                     *)
LEMMA ResetsStdin ==
  ASSUME NEW pr, NEW es, NEW rs, ProgramInv(pr, es, rs), pr.at = "reset_stdin",
         pr.name = "shell",
         NEW es2, Copied(es, rs, es2, 1, 3),
         NEW pr2, GoesOn(pr2, pr, 8), NEW lst2, NEW kept2
  PROVE  ProgramInv(pr2, es2, rs) /\ FilesOpen(pr2, es2, rs, lst2, kept2)
<1>1. /\ Located(pr) /\ InUse(es, rs, Slots(pr)) /\ Streams(pr, es, rs)
      /\ pr.newstdin # 0
  BY DEF ProgramInv, Located
<1>2. pr2.at = "prompt" /\ Becoming(pr2, pr, "prompt", 0, 0, pr.fd, pr.lost)
  BY DEF GoesOn, StatementNext, Becoming
<1>3. Slots(pr) = {1, 2, 3, 4} /\ Slots(pr2) = Slots(pr)
  BY <1>1, <1>2 DEF Slots, OpenIn, OpenOut, Before, Becoming
<1>4. /\ InUse(es2, rs, Slots(pr))
      /\ \A u \in Slots(pr) : es2[rs[u]] = IF u = 1 THEN es[rs[3]] ELSE es[rs[u]]
  <2>1. 1 \in Slots(pr) /\ 3 \in Slots(pr)
    BY <1>3
  <2>2. QED
    BY <1>1, <2>1, SlotCopied
<1>5. Located(pr2)
  BY <1>1, <1>2 DEF Located, Becoming
<1>6. Streams(pr2, es2, rs)
  BY <1>1, <1>2, <1>3, <1>4 DEF Streams, Becoming, Before, stdin, stdout, _stdin, _stdout
<1>7. InUse(es2, rs, Slots(pr2)) /\ Counted(pr2, es2, rs)
  <2>1. UsedEntries(es2) = UsedEntries(es)
    BY DEF Copied
  <2>2. /\ pr2.name = pr.name /\ pr2.lost = pr.lost
        /\ pr2.at \notin {"dup_stdin", "dup_stdout"}
    BY <1>2 DEF Becoming
  <2>3. QED
    BY <1>3, <1>4, <2>1, <2>2, SlotsStay
<1>8. FilesOpen(pr2, es2, rs, lst2, kept2)
  BY <1>2 DEF FilesOpen, Becoming, Before
<1>9. QED
  BY <1>5, <1>6, <1>7, <1>8 DEF ProgramInv

(* Parsing fails: what has been opened is lost.                               *)
LEMMA ParsingFails ==
  ASSUME NEW pr, NEW es, NEW rs, ProgramInv(pr, es, rs), pr.at = "parse",
         pr.name = "shell", pr.lost \in Nat,
         NEW pr2, Becoming(pr2, pr, "prompt", 0, 0, pr.fd,
                           pr.lost + Cardinality({pr.newstdin, pr.newstdout} \ {0})),
         NEW lst2, NEW kept2
  PROVE  ProgramInv(pr2, es, rs) /\ FilesOpen(pr2, es, rs, lst2, kept2)
<1> DEFINE T == {pr.newstdin, pr.newstdout} \ {0}
<1>1. /\ Located(pr) /\ InUse(es, rs, Slots(pr)) /\ Streams(pr, es, rs)
      /\ Counted(pr, es, rs)
  BY DEF ProgramInv
<1>2. /\ Slots(pr2) = {1, 2, 3, 4} /\ Slots(pr) = Slots(pr2) \cup T
      /\ Slots(pr2) \cap T = {}
  BY <1>1 DEF Slots, OpenIn, OpenOut, Before, Becoming, Located
<1>3. IsFiniteSet(T) /\ Cardinality(T) \in Nat
  <2>1. IsFiniteSet({pr.newstdin})
    BY FS_Singleton
  <2>2. IsFiniteSet({pr.newstdin} \cup {pr.newstdout})
    BY <2>1, FS_AddElement
  <2>3. T \subseteq {pr.newstdin} \cup {pr.newstdout}
    OBVIOUS
  <2>4. IsFiniteSet(T)
    BY <2>2, <2>3, FS_Subset
  <2>5. QED
    BY <2>4, FS_CardinalityType
<1>4. Cardinality(Slots(pr)) = Cardinality(Slots(pr2)) + Cardinality(T)
  <2>1. IsFiniteSet(Slots(pr2)) /\ Cardinality(Slots(pr2)) \in Nat
    BY SlotsFinite
  <2>2. Cardinality(Slots(pr2) \cap T) = 0
    BY <1>2, FS_EmptySet
  <2> HIDE DEF T
  <2>3. Cardinality(Slots(pr2) \cup T) =
          Cardinality(Slots(pr2)) + Cardinality(T) - Cardinality(Slots(pr2) \cap T)
    BY <1>3, <2>1, FS_Union
  <2>4. QED
    BY <1>2, <1>3, <2>1, <2>2, <2>3
<1>5. InUse(es, rs, Slots(pr2))
  BY <1>1, <1>2, FewerSlots
<1>6. Located(pr2)
  BY <1>1 DEF Located, Becoming
<1>7. Streams(pr2, es, rs)
  BY <1>1 DEF Streams, Becoming, Before
<1>8. Counted(pr2, es, rs)
  <2>1. Cardinality(Slots(pr2)) \in Nat
    BY SlotsFinite
  <2>2. pr2.lost = pr.lost + Cardinality(T)
    BY DEF Becoming
  <2>3. Cardinality(UsedEntries(es)) = Cardinality(Slots(pr)) + pr.lost
    BY <1>1 DEF Counted
  <2> HIDE DEF T
  <2>4. Cardinality(UsedEntries(es)) = Cardinality(Slots(pr2)) + pr2.lost
    BY <1>3, <1>4, <2>1, <2>2, <2>3
  <2>5. QED
    BY <2>4 DEF Counted, Becoming
<1>9. FilesOpen(pr2, es, rs, lst2, kept2)
  BY DEF FilesOpen, Becoming
<1>10. QED
  BY <1>5, <1>6, <1>7, <1>8, <1>9 DEF ProgramInv

(* Everything is parsed.                                                      *)
LEMMA ParsingEnds ==
  ASSUME NEW pr, NEW es, NEW rs, ProgramInv(pr, es, rs), pr.at \in {"prompt", "parse"},
         pr.name = "shell",
         NEW pr2, StatementNext(pr, 1, pr2.at),
         Becoming(pr2, pr, pr2.at, pr.newstdin, pr.newstdout, pr.fd, pr.lost),
         NEW lst, NEW kept, FilesOpen(pr, es, rs, lst, kept), NEW lst2, NEW kept2, kept \subseteq kept2
  PROVE  ProgramInv(pr2, es, rs) /\ FilesOpen(pr2, es, rs, lst2, kept2)
<1>1. /\ Located(pr) /\ InUse(es, rs, Slots(pr)) /\ Streams(pr, es, rs)
      /\ Counted(pr, es, rs)
  BY DEF ProgramInv
<1>2. pr2.at = IF pr.newstdout # 0 THEN "set_stdout"
               ELSE IF pr.newstdin # 0 THEN "set_stdin" ELSE "execute"
  BY DEF StatementNext
<1>3. Slots(pr2) = Slots(pr)
  BY <1>2 DEF Slots, OpenIn, OpenOut, Before, Becoming
<1>4. Located(pr2)
  BY <1>1, <1>2 DEF Located, Becoming
<1>5. Streams(pr2, es, rs)
  BY <1>1, <1>2 DEF Streams, Becoming, Before, Located
<1>6. Counted(pr2, es, rs)
  BY <1>1, <1>2, <1>3 DEF Counted, Becoming
<1>7. FilesOpen(pr2, es, rs, lst2, kept2)
  BY <1>2 DEF FilesOpen, Becoming, Before
<1>8. QED
  BY <1>1, <1>3, <1>4, <1>5, <1>6, <1>7 DEF ProgramInv

(* A command is executed, or cannot be.                                       *)
LEMMA Executes ==
  ASSUME NEW pr, NEW es, NEW rs, ProgramInv(pr, es, rs), pr.at = "execute",
         pr.name = "shell", NEW pr2, GoesOn(pr2, pr, 4), NEW lst2, NEW kept2
  PROVE  ProgramInv(pr2, es, rs) /\ FilesOpen(pr2, es, rs, lst2, kept2)
<1>1. /\ Located(pr) /\ InUse(es, rs, Slots(pr)) /\ Streams(pr, es, rs)
      /\ Counted(pr, es, rs)
  BY DEF ProgramInv
<1>2. /\ pr2.at = IF pr.newstdout # 0 THEN "close_stdout"
                  ELSE IF pr.newstdin # 0 THEN "close_stdin" ELSE "prompt"
      /\ Becoming(pr2, pr, pr2.at, pr.newstdin, pr.newstdout, pr.fd, pr.lost)
  BY DEF GoesOn, StatementNext, Becoming
<1>3. Slots(pr2) = Slots(pr)
  BY <1>2 DEF Slots, OpenIn, OpenOut, Before, Becoming
<1>4. Located(pr2)
  BY <1>1, <1>2 DEF Located, Becoming
<1>5. Streams(pr2, es, rs)
  BY <1>1, <1>2 DEF Streams, Becoming, Before, Located
<1>6. Counted(pr2, es, rs)
  BY <1>1, <1>2, <1>3 DEF Counted, Becoming
<1>7. FilesOpen(pr2, es, rs, lst2, kept2)
  BY <1>2 DEF FilesOpen, Becoming, Before
<1>8. QED
  BY <1>1, <1>3, <1>4, <1>5, <1>6, <1>7 DEF ProgramInv

(* login begins again.                                                        *)
LEMMA LogsIn ==
  ASSUME NEW pr, NEW es, NEW rs, ProgramInv(pr, es, rs), pr.at = "execute",
         pr.name = "login",
         NEW pr2, Becoming(pr2, pr, "prompt", pr.newstdin, pr.newstdout, pr.fd, pr.lost),
         NEW lst2, NEW kept2
  PROVE  ProgramInv(pr2, es, rs) /\ FilesOpen(pr2, es, rs, lst2, kept2)
<1>1. /\ Located(pr) /\ InUse(es, rs, Slots(pr)) /\ Streams(pr, es, rs)
      /\ pr.newstdin = 0 /\ pr.newstdout = 0
  BY DEF ProgramInv, Located
<1>2. Slots(pr2) = Slots(pr)
  BY <1>1 DEF Slots, OpenIn, OpenOut, Becoming
<1>3. Located(pr2) /\ Streams(pr2, es, rs) /\ Counted(pr2, es, rs)
  BY <1>1 DEF Located, Streams, Counted, Becoming, Before
<1>4. FilesOpen(pr2, es, rs, lst2, kept2)
  BY <1>1 DEF FilesOpen, Becoming
<1>5. QED
  BY <1>1, <1>2, <1>3 , <1>4 DEF ProgramInv

(* The file that is open is read or written.                                  *)
LEMMA UsesFile ==
  ASSUME NEW pr, NEW es, NEW rs, ProgramInv(pr, es, rs), pr.at = "opened",
         NEW pr2, Becoming(pr2, pr, "used", pr.newstdin, pr.newstdout, pr.fd, pr.lost),
         NEW lst, NEW kept, FilesOpen(pr, es, rs, lst, kept),
         NEW lst2, NEW kept2, \A d \in kept : d \in kept2 /\ lst2[d].inode = lst[d].inode
  PROVE  ProgramInv(pr2, es, rs) /\ FilesOpen(pr2, es, rs, lst2, kept2)
<1>1. /\ Located(pr) /\ InUse(es, rs, Slots(pr)) /\ Streams(pr, es, rs)
      /\ Counted(pr, es, rs) /\ pr.newstdin = 0 /\ pr.newstdout = 0
  BY DEF ProgramInv, Located
<1>2. Slots(pr2) = Slots(pr)
  BY <1>1 DEF Slots, OpenIn, OpenOut, Becoming
<1>3. Located(pr2) /\ Streams(pr2, es, rs)
  BY <1>1 DEF Located, Streams, Becoming, Before
<1>4. Counted(pr2, es, rs)
  BY <1>1, <1>2 DEF Counted, Becoming
<1>5. FilesOpen(pr2, es, rs, lst2, kept2)
  BY <1>1 DEF FilesOpen, Becoming
<1>6. QED
  BY <1>1, <1>2, <1>3, <1>4, <1>5 DEF ProgramInv

(* A shell copies its streams.                                                *)
LEMMA DupsStdin ==
  ASSUME NEW pr, NEW es, NEW rs, ProgramInv(pr, es, rs), pr.at = "dup_stdin",
         NEW es2, NEW rs2, Opened(es, rs, es2, rs2, 3, es[rs[1]].fd),
         DOMAIN rs2 = DOMAIN rs \cup {3},
         NEW pr2, Becoming(pr2, pr, "dup_stdout", pr.newstdin, pr.newstdout, pr.fd, pr.lost),
         NEW lst2, NEW kept2
  PROVE  ProgramInv(pr2, es2, rs2) /\ FilesOpen(pr2, es2, rs2, lst2, kept2)
<1>1. /\ Located(pr) /\ InUse(es, rs, Slots(pr)) /\ Streams(pr, es, rs)
      /\ Counted(pr, es, rs) /\ pr.newstdin = 0 /\ pr.newstdout = 0
      /\ pr.name = "shell" /\ pr.lost = 0
  BY DEF ProgramInv, Located
<1>2. Slots(pr) = {1, 2} /\ Slots(pr2) = {1, 2, 3} /\ Slots(pr2) = Slots(pr) \cup {3}
  BY DEF Slots, Becoming
<1>3. /\ 3 \notin Slots(pr) /\ InUse(es2, rs2, Slots(pr) \cup {3})
      /\ \A v \in Slots(pr) : es2[rs2[v]] = es[rs[v]]
  BY <1>1, SlotAdded
<1>4. es2[rs2[3]].fd = es[rs[1]].fd
  BY DEF Opened
<1>5. Located(pr2)
  BY <1>1 DEF Located, Becoming
<1>6. Streams(pr2, es2, rs2)
  BY <1>1, <1>2, <1>3, <1>4 DEF Streams, Becoming, Before, stdin, stdout, _stdin, _stdout
<1>7. Counted(pr2, es2, rs2)
  <2>0. Cardinality(Slots(pr) \cup {3}) = Cardinality(Slots(pr)) + 1
    BY <1>3, SlotsCount
  <2>1. Cardinality(Slots(pr2)) = Cardinality(Slots(pr)) + 1
    BY <1>2, <2>0
  <2>2. Cardinality(Slots(pr)) \in Nat
    BY SlotsFinite
  <2>3. Cardinality(UsedEntries(es2)) = Cardinality(Slots(pr2)) + pr2.lost
    BY <1>1, <2>1, <2>2 DEF Counted, Opened, Becoming
  <2>4. QED
    BY <1>1, <1>2, <2>3 DEF Counted, Becoming
<1>8. FilesOpen(pr2, es2, rs2, lst2, kept2)
  BY <1>1 DEF FilesOpen, Becoming
<1>9. QED
  BY <1>2, <1>3, <1>5, <1>6, <1>7, <1>8 DEF ProgramInv

(* And the standard output; then it prompts.                                  *)
LEMMA DupsStdout ==
  ASSUME NEW pr, NEW es, NEW rs, ProgramInv(pr, es, rs), pr.at = "dup_stdout",
         NEW es2, NEW rs2, Opened(es, rs, es2, rs2, 4, es[rs[2]].fd),
         NEW pr2, Becoming(pr2, pr, "prompt", pr.newstdin, pr.newstdout, pr.fd, pr.lost),
         NEW lst2, NEW kept2
  PROVE  ProgramInv(pr2, es2, rs2) /\ FilesOpen(pr2, es2, rs2, lst2, kept2)
<1>1. /\ Located(pr) /\ InUse(es, rs, Slots(pr)) /\ Streams(pr, es, rs)
      /\ Counted(pr, es, rs) /\ pr.newstdin = 0 /\ pr.newstdout = 0
      /\ pr.name = "shell" /\ pr.lost = 0
  BY DEF ProgramInv, Located
<1>2. Slots(pr) = {1, 2, 3} /\ Slots(pr2) = {1, 2, 3, 4} /\ Slots(pr2) = Slots(pr) \cup {4}
  BY <1>1 DEF Slots, Becoming, OpenIn, OpenOut
<1>3. /\ 4 \notin Slots(pr) /\ InUse(es2, rs2, Slots(pr) \cup {4})
      /\ \A v \in Slots(pr) : es2[rs2[v]] = es[rs[v]]
  BY <1>1, SlotAdded
<1>4. es2[rs2[4]].fd = es[rs[2]].fd
  BY DEF Opened
<1>5. Located(pr2)
  BY <1>1 DEF Located, Becoming
<1>6. Streams(pr2, es2, rs2)
  BY <1>1, <1>2, <1>3, <1>4 DEF Streams, Becoming, Before, stdin, stdout, _stdin, _stdout
<1>7. Counted(pr2, es2, rs2)
  <2>0. Cardinality(Slots(pr) \cup {4}) = Cardinality(Slots(pr)) + 1
    BY <1>3, SlotsCount
  <2>1. Cardinality(Slots(pr2)) = Cardinality(Slots(pr)) + 1
    BY <1>2, <2>0
  <2>2. Cardinality(Slots(pr)) \in Nat
    BY SlotsFinite
  <2>3. Cardinality(UsedEntries(es2)) = Cardinality(Slots(pr2)) + pr2.lost
    BY <1>1, <2>1, <2>2 DEF Counted, Opened, Becoming
  <2>4. QED
    BY <2>3 DEF Counted, Becoming
<1>8. FilesOpen(pr2, es2, rs2, lst2, kept2)
  BY <1>1 DEF FilesOpen, Becoming
<1>9. QED
  BY <1>2, <1>3, <1>5, <1>6, <1>7, <1>8 DEF ProgramInv

(* A program begins with two entries.                                         *)
LEMMA ProgramBegins ==
  ASSUME NEW name \in {"login", "shell", "command"}, NEW home, NEW a, NEW b,
         a.used, b.used, a.fd = home[1], b.fd = home[2], NEW lst, NEW kept
  PROVE  /\ ProgramInv(Begin(name, home), <<a, b>>, <<1, 2>>)
         /\ FilesOpen(Begin(name, home), <<a, b>>, <<1, 2>>, lst, kept)
<1> DEFINE pr == Begin(name, home)
           es == <<a, b>>
           rs == <<1, 2>>
<1>1. /\ pr.name = name /\ pr.home = home /\ pr.newstdin = 0 /\ pr.newstdout = 0
      /\ pr.lost = 0 /\ pr.at = IF name = "shell" THEN "dup_stdin" ELSE "prompt"
  BY DEF Begin
<1>2. /\ DOMAIN es = {1, 2} /\ es[1] = a /\ es[2] = b
      /\ DOMAIN rs = {1, 2} /\ rs[1] = 1 /\ rs[2] = 2
  OBVIOUS
<1> HIDE DEF pr, es, rs
<1>3. Slots(pr) = {1, 2}
  BY <1>1 DEF Slots, OpenIn, OpenOut
<1>4. UsedEntries(es) = {1, 2}
  BY <1>2 DEF UsedEntries
<1>5. InUse(es, rs, Slots(pr))
  BY <1>2, <1>3 DEF InUse
<1>6. Located(pr)
  BY <1>1 DEF Located
<1>7. Streams(pr, es, rs)
  BY <1>1, <1>2 DEF Streams, Before, stdin, stdout
<1>8. Counted(pr, es, rs)
  <2>1. Cardinality(Slots(pr)) \in Nat
    BY SlotsFinite
  <2>2. QED
    BY <1>1, <1>2, <1>3, <1>4, <2>1 DEF Counted
<1>9. FilesOpen(pr, es, rs, lst, kept)
  BY <1>1 DEF FilesOpen
<1>10. QED
  BY <1>5, <1>6, <1>7, <1>8, <1>9 DEF ProgramInv, pr, es, rs

-----------------------------------------------------------------------------
(* What a step of one process leaves of what the others rely on.             *)

\* What p closes in a step nobody else has open, nor is it the terminal of a login.
KeepsEnough(p) ==
  \A d \in Kept :
    \/ UsedByOther(p, d)
    \/ program[p].name = "login" /\ open_files_list[d].inode \notin Files
    => d \in Kept' /\ open_files_list'[d].inode = open_files_list[d].inode

\* Nobody's caller.
Childless(p) == \A c \in live : program[c].name # "login" => parent[c] # p

(* Between calls the lists are what they will be.                             *)
LEMMA IdleLists ==
  ASSUME NEW p, call[p] = NoCall
  PROVE  Entries(p) = entry[p] /\ List(p) = open_files[p]
BY NoCallFacts DEF Entries, List, LaterEntries, LaterList

(* And a program has its slots open.                                          *)
LEMMA SlotsUsed ==
  ASSUME ShellInv, NEW q \in live, call[q] = NoCall, NEW v \in Slots(program[q])
  PROVE  Uses(q, At(q, v).fd) /\ At(q, v).used
<1>1. InUse(entry[q], open_files[q], Slots(program[q]))
  BY IdleLists DEF ShellInv, RunsWell, ProgramInv
<1>2. v \in DOMAIN open_files[q] /\ At(q, v).used
  BY <1>1 DEF InUse, At
<1>3. QED
  BY <1>2 DEF Uses

(* The streams are among them.                                                *)
LEMMA StreamSlots ==
  ASSUME NEW pr
  PROVE  {1, 2} \subseteq Slots(pr) /\ stdin \in Slots(pr) /\ stdout \in Slots(pr)
BY DEF Slots, stdin, stdout

(* Whoever is no login has its streams open in its caller.                    *)
LEMMA HomeOfCaller ==
  ASSUME ShellInv, NEW q \in live, program[q].name # "login", NEW v \in {stdin, stdout}
  PROVE  parent[q] \in live /\ parent[q] # q /\ Uses(parent[q], program[q].home[v])
<1> DEFINE r == parent[q]
<1>1. CallerKeeps(q)
  BY DEF ShellInv
<1>2. r \in live /\ r # q /\ call[r] = NoCall /\ program[q].home[v] = At(r, v).fd
  BY <1>1 DEF CallerKeeps
<1>3. v \in Slots(program[r])
  BY StreamSlots
<1> HIDE DEF r
<1>4. Uses(r, At(r, v).fd)
  BY <1>2, <1>3, SlotsUsed
<1>5. QED
  BY <1>2, <1>4 DEF r

(* A login between calls has its own.                                         *)
LEMMA HomeOfLogin ==
  ASSUME ShellInv, NEW q \in live, program[q].name = "login", call[q] = NoCall,
         NEW v \in {stdin, stdout}
  PROVE  Uses(q, program[q].home[v])
<1>1. v \in Slots(program[q])
  BY StreamSlots
<1>2. Uses(q, At(q, v).fd)
  BY <1>1, SlotsUsed
<1>3. Located(program[q]) /\ Streams(program[q], entry[q], open_files[q])
  BY IdleLists DEF ShellInv, RunsWell, ProgramInv
<1>4. At(q, v).fd = program[q].home[v]
  BY <1>3 DEF Located, Streams, At
<1>5. QED
  BY <1>2, <1>4

(* Another program runs as before.                                            *)
LEMMA OthersRun ==
  ASSUME ShellInv, NEW p, KeepsEnough(p), NEW q \in live, q # p,
         call[q] = NoCall, call'[q] = NoCall, program'[q] = program[q],
         entry'[q] = entry[q], open_files'[q] = open_files[q]
  PROVE  RunsWell(q)'
<1> DEFINE pr == program[q]
           es == entry[q]
           rs == open_files[q]
<1>1. ProgramInv(pr, es, rs) /\ FilesOpen(pr, es, rs, open_files_list, Kept)
  BY IdleLists DEF ShellInv, RunsWell
<1>2. \A v \in Slots(pr) : es[rs[v]].fd \in Kept =>
        /\ es[rs[v]].fd \in Kept'
        /\ open_files_list'[es[rs[v]].fd].inode = open_files_list[es[rs[v]].fd].inode
  <2>1. SUFFICES ASSUME NEW v \in Slots(pr), At(q, v).fd \in Kept
                 PROVE  /\ At(q, v).fd \in Kept'
                        /\ open_files_list'[At(q, v).fd].inode
                             = open_files_list[At(q, v).fd].inode
    BY DEF At
  <2>2. UsedByOther(p, At(q, v).fd)
    BY <2>1, SlotsUsed DEF UsedByOther
  <2>3. QED
    BY <2>1, <2>2 DEF KeepsEnough
<1> HIDE DEF pr, es, rs
<1>3. /\ pr.at \in Before /\ pr.newstdin # 0 => pr.newstdin \in Slots(pr)
      /\ pr.at \in Before /\ pr.newstdout # 0 => pr.newstdout \in Slots(pr)
      /\ pr.name = "login" /\ pr.at \in {"opened", "used"} => pr.fd \in Slots(pr)
  BY DEF Slots, OpenIn, OpenOut, Before
<1>4. FilesOpen(pr, es, rs, open_files_list', Kept')
  BY <1>1, <1>2, <1>3 DEF FilesOpen
<1>5. Entries(q)' = es /\ List(q)' = rs
  BY NoCallFacts DEF Entries, List, LaterEntries, LaterList, es, rs
<1>6. program'[q] = pr
  BY DEF pr
<1>7. QED
  BY <1>1, <1>4, <1>5, <1>6 DEF RunsWell

(* The streams of another program stay open.                                  *)
LEMMA OthersHome ==
  ASSUME ShellInv, NEW p, KeepsEnough(p), NEW q \in live, q # p, call[q] = NoCall,
         program[q].name # "login" => parent[q] # p, program'[q] = program[q]
  PROVE  HomeOpen(q)'
<1>1. SUFFICES ASSUME NEW v \in {stdin, stdout}
               PROVE  /\ program[q].home[v] \in Kept'
                      /\ program[q].name = "login" =>
                           open_files_list'[program[q].home[v]].inode \notin Files
  BY DEF HomeOpen, stdin, stdout
<1> DEFINE d == program[q].home[v]
<1>2. d \in Kept /\ (program[q].name = "login" => open_files_list[d].inode \notin Files)
  BY DEF ShellInv, HomeOpen
<1>3. UsedByOther(p, d)
  <2>1. CASE program[q].name = "login"
    BY <2>1, HomeOfLogin DEF UsedByOther
  <2>2. CASE program[q].name # "login"
    BY <2>2, HomeOfCaller DEF UsedByOther
  <2>3. QED
    BY <2>1, <2>2
<1>4. QED
  BY <1>2, <1>3 DEF KeepsEnough

(* So do those of p.                                                          *)
LEMMA OwnHome ==
  ASSUME ShellInv, NEW p \in live, KeepsEnough(p),
         program'[p].name = program[p].name, program'[p].home = program[p].home
  PROVE  HomeOpen(p)'
<1>1. SUFFICES ASSUME NEW v \in {stdin, stdout}
               PROVE  /\ program[p].home[v] \in Kept'
                      /\ program[p].name = "login" =>
                           open_files_list'[program[p].home[v]].inode \notin Files
  BY DEF HomeOpen, stdin, stdout
<1> DEFINE d == program[p].home[v]
<1>2. d \in Kept /\ (program[p].name = "login" => open_files_list[d].inode \notin Files)
  BY DEF ShellInv, HomeOpen
<1>3. \/ UsedByOther(p, d)
      \/ program[p].name = "login" /\ open_files_list[d].inode \notin Files
  BY <1>2, HomeOfCaller DEF UsedByOther
<1>4. QED
  BY <1>2, <1>3 DEF KeepsEnough

(* Callers other than p wait as before.                                       *)
LEMMA OthersCaller ==
  ASSUME ShellInv, NEW q \in live, program[q].name # "login",
         parent'[q] = parent[q], program'[q].home = program[q].home,
         NEW r, r = parent[q], r \in live', call'[r] = call[r], program'[r] = program[r],
         entry'[r] = entry[r], open_files'[r] = open_files[r]
  PROVE  CallerKeeps(q)'
<1>1. CallerKeeps(q)
  BY DEF ShellInv
<1>2. QED
  BY <1>1 DEF CallerKeeps, At, Asked

(* A step of p that keeps enough, and after which p runs well.                *)
LEMMA ShellFrame ==
  ASSUME OpenInv, ShellInv, NEW p \in live, OthersIdle(p), OthersKept(p), Childless(p),
         NEW pr2 \in Program, pr2.name = program[p].name, pr2.home = program[p].home,
         program' = [program EXCEPT ![p] = pr2],
         KeepsEnough(p), RunsWell(p)', CopiesAnother(p)', NoImageOpen'
  PROVE  ShellInv'
<1>1. /\ live \subseteq Procs /\ live' = live /\ parent' = parent
      /\ program \in [Procs -> Program \cup {NoProgram}]
      /\ \A q \in Procs : q \in live <=> program[q] # NoProgram
  BY DEF OthersKept, OpenInv, TypeOK, ShellInv, ProgramsTyped
<1>2. /\ program'[p] = pr2 /\ \A q \in Procs \ {p} : program'[q] = program[q]
      /\ program' \in [Procs -> Program \cup {NoProgram}]
  BY <1>1
<1>3. \A q \in Procs \ {p} : /\ call[q] = NoCall /\ call'[q] = NoCall
                             /\ entry'[q] = entry[q] /\ open_files'[q] = open_files[q]
  BY DEF OthersIdle, OthersKept
<1>4. pr2 # NoProgram
  <2>1. pr2.name \in {"login", "shell", "command"}
    BY DEF Program
  <2>2. QED
    BY <2>1 DEF NoProgram
<1>5. ProgramsTyped'
  BY <1>1, <1>2, <1>4 DEF ProgramsTyped
<1>6. ASSUME NEW q \in live PROVE RunsWell(q)' /\ HomeOpen(q)'
  <2>1. CASE q = p
    <3>1. HomeOpen(p)'
      BY <1>2, OwnHome
    <3>2. QED
      BY <2>1, <3>1
  <2>2. CASE q # p
    <3>1. /\ call[q] = NoCall /\ call'[q] = NoCall /\ program'[q] = program[q]
          /\ entry'[q] = entry[q] /\ open_files'[q] = open_files[q]
          /\ program[q].name # "login" => parent[q] # p
      BY <1>1, <1>2, <1>3, <2>2 DEF Childless
    <3>2. RunsWell(q)'
      BY <2>2, <3>1, OthersRun
    <3>3. HomeOpen(q)'
      BY <2>2, <3>1, OthersHome
    <3>4. QED
      BY <3>2, <3>3
  <2>3. QED
    BY <2>1, <2>2
<1>7. ASSUME NEW q \in live
      PROVE  IF program'[q].name = "login" THEN parent'[q] = NULL ELSE CallerKeeps(q)'
  <2>1. program'[q].name = program[q].name /\ program'[q].home = program[q].home
    BY <1>1, <1>2
  <2>2. CASE program[q].name = "login"
    BY <1>1, <2>1, <2>2 DEF ShellInv
  <2>3. CASE program[q].name # "login"
    <3>1. parent[q] \in live /\ parent[q] # p
      BY <2>3 DEF ShellInv, CallerKeeps, Childless
    <3>2. CallerKeeps(q)'
      BY <1>1, <1>2, <1>3, <2>1, <2>3, <3>1, OthersCaller
    <3>3. QED
      BY <2>1, <2>3, <3>2
  <2>4. QED
    BY <2>2, <2>3
<1>8. ASSUME NEW q \in Procs PROVE CopiesAnother(q)'
  <2>1. CASE q = p
    BY <2>1
  <2>2. CASE q # p
    BY <1>3, <2>2, NoCallFacts DEF CopiesAnother
  <2>3. QED
    BY <2>1, <2>2
<1>9. QED
  BY <1>1, <1>5, <1>6, <1>7, <1>8 DEF ShellInv

-----------------------------------------------------------------------------
(* What each call does to the entries in use and to what is kept.            *)

(* Between calls every descriptor in use is kept.                             *)
LEMMA KeptIdle ==
  ASSUME OpenInv, NEW p \in Procs, OthersIdle(p), call[p].step # "close"
  PROVE  Kept = UsedDescriptors
<1>1. \A q \in Procs : call[q].step # "close"
  BY NoCallFacts DEF OthersIdle
<1>2. QED
  BY <1>1 DEF Kept, KeptIn, UsedDescriptors

(* And after a step that does not begin to close one.                         *)
LEMMA KeptIdleNext ==
  ASSUME NEW p \in Procs, OthersIdle(p), OthersKept(p), call'[p].step # "close"
  PROVE  Kept' = UsedDescriptors'
<1>1. \A q \in Procs : call'[q].step # "close"
  BY NoCallFacts DEF OthersIdle, OthersKept
<1>2. QED
  BY <1>1 DEF Kept, KeptIn, UsedDescriptors

\* Whoever begins a call.
Begins(p) ==
  /\ p \in live /\ p \in Procs /\ ~Waits(p) /\ call[p] = NoCall
  /\ Entries(p) = entry[p] /\ List(p) = open_files[p]
  /\ TypedLists(entry[p], open_files[p])
  /\ Kept = UsedDescriptors

(* Who is ready begins a call with its lists as they are.                     *)
LEMMA ReadyBegins ==
  ASSUME OpenInv, NEW p \in Procs, OthersIdle(p), Ready(p)
  PROVE  Begins(p)
<1>1. p \in live /\ ~Waits(p) /\ call[p] = NoCall
  BY DEF Ready
<1>2. Entries(p) = entry[p] /\ List(p) = open_files[p]
  BY <1>1, IdleLists
<1>3. Kept = UsedDescriptors
  BY <1>1, NoCallFacts, KeptIdle
<1>4. TypedLists(entry[p], open_files[p])
  BY DEF OpenInv, TypeOK, TypedLists
<1>5. QED
  BY <1>1, <1>2, <1>3, <1>4 DEF Begins

\* Everything that was kept is kept, in the same inode.
KeepsAll ==
  \A d \in Kept : d \in Kept' /\ open_files_list'[d].inode = open_files_list[d].inode

(* fopen of another file than the image.                                      *)
LEMMA FopenEffect ==
  ASSUME OpenInv, NoImageOpen, NEW p \in Procs, OthersIdle(p), NEW f \in Files, f # image,
         fopen(p, f)
  PROVE  LET d == DescriptorOf(f)
         IN  /\ Opened(entry[p], open_files[p], Entries(p)', List(p)', Returned(p), d)
             /\ d \in Kept' /\ open_files_list'[d].inode = f
             /\ KeepsAll /\ NoImageOpen' /\ CopiesAnother(p)'
             /\ Returned(p) \in Nat /\ Returned(p) # 0
<1> DEFINE d == DescriptorOf(f)
           c == call'[p]
<1>1. Begins(p)
  BY ReadyBegins DEF fopen
<1>2. /\ OthersKept(p) /\ c.step = "register" /\ c.fd = d
  BY FopenFacts
<1>3. entry' = entry /\ open_files' = open_files /\ open_files_list' = open(f)
  BY DEF fopen
<1>4. /\ d \in Nat
      /\ DOMAIN open(f) = DOMAIN open_files_list \cup {d}
      /\ open(f)[d].used /\ open(f)[d].inode = f
      /\ \A e \in DOMAIN open_files_list \ {d} : open(f)[e] = open_files_list[e]
      /\ d \in UsedDescriptors => open_files_list[d].inode = f
  <2>1. TypeOK /\ OneDescriptorPerFile
    BY DEF OpenInv
  <2>2. /\ DescriptorOf(f) \in Nat
        /\ DOMAIN open(f) = DOMAIN open_files_list \cup {DescriptorOf(f)}
        /\ open(f)[DescriptorOf(f)].used /\ open(f)[DescriptorOf(f)].inode = f
        /\ DescriptorOf(f) \in UsedDescriptors => open_files_list[DescriptorOf(f)].inode = f
    BY <2>1, OpenFacts
  <2>3. \A e \in DOMAIN open_files_list \ {DescriptorOf(f)} :
          /\ open(f)[e] = open_files_list[e]
          /\ open_files_list[e].used => open_files_list[e].inode # f
    BY <2>1, OpenFacts
  <2>4. QED
    BY <2>2, <2>3
<1>5. Returned(p) = NextPosition(entry[p], open_files[p])
  <2>1. FirstUnused(p) = FirstFree(entry[p], open_files[p])
    BY DEF FirstUnused, FirstFree
  <2>2. QED
    BY <2>1 DEF Returned, NextPosition
<1> HIDE DEF d, c
<1>6. Opened(entry[p], open_files[p], LaterEntries(entry[p], open_files[p], c),
             LaterList(entry[p], open_files[p], c), Returned(p), d)
  BY <1>1, <1>2, <1>4, <1>5, RegisterOpens DEF Begins
<1>7. Opened(entry[p], open_files[p], Entries(p)', List(p)', Returned(p), d)
  BY <1>3, <1>6 DEF Entries, List, c
<1>8. Kept' = UsedDescriptors'
  BY <1>2, KeptIdleNext DEF c
<1>9. UsedDescriptors' = UsedDescriptors \cup {d}
  BY <1>3, <1>4 DEF UsedDescriptors
<1>10. open_files_list'[d].inode = f
  BY <1>3, <1>4
<1>11. \A e \in UsedDescriptors : open_files_list'[e].inode = open_files_list[e].inode
  BY <1>3, <1>4 DEF UsedDescriptors
<1>12. KeepsAll
  BY <1>1, <1>8, <1>9, <1>11 DEF KeepsAll, Begins
<1>13. NoImageOpen'
  BY <1>9, <1>10, <1>11 DEF NoImageOpen
<1>14. CopiesAnother(p)'
  BY <1>2 DEF CopiesAnother, c
<1>15. Returned(p) \in Nat /\ Returned(p) # 0
  <2>1. FirstFree(entry[p], open_files[p]) \in 0 .. Len(open_files[p])
    BY <1>1, FirstFreeFacts DEF Begins
  <2>2. Len(open_files[p]) \in Nat
    BY <1>1 DEF Begins, TypedLists
  <2>3. QED
    BY <1>5, <2>1, <2>2 DEF NextPosition
<1>16. QED
  BY <1>7, <1>8, <1>9, <1>10, <1>12, <1>13, <1>14, <1>15 DEF d

\* What fclose and dup2 close, nobody else has open.
KeepsBut(p, d) ==
  /\ \A e \in Kept : e \in Kept' \/ (e = d /\ ~UsedByOther(p, d))
  /\ open_files_list' = open_files_list

(* fclose and dup2 keep all descriptors but one nobody else has open.         *)
LEMMA FcloseKept ==
  ASSUME OpenInv, NoImageOpen, NEW p \in Procs, OthersIdle(p), NEW v \in Nat, NEW from \in Nat,
         fclose(p, v, from)
  PROVE  /\ KeepsBut(p, At(p, v).fd) /\ NoImageOpen' /\ OthersKept(p)
         /\ call'[p].step \in {"close", "unuse"}
         /\ call'[p].ref = open_files[p][v] /\ call'[p].from = from
         /\ entry' = entry /\ open_files' = open_files
<1>1. Begins(p)
  BY ReadyBegins DEF fclose
<1>2. /\ OthersKept(p) /\ call'[p].ref = open_files[p][v] /\ call'[p].fd = At(p, v).fd
      /\ call'[p].step = IF UsedByOther(p, At(p, v).fd) THEN "unuse" ELSE "close"
  BY FcloseFacts
<1>3. /\ entry' = entry /\ open_files' = open_files /\ open_files_list' = open_files_list
  BY DEF fclose
<1>4. call'[p].from = from
  <2> DEFINE c == [step |-> IF KeepOpen(p, At(p, v).fd) THEN "unuse" ELSE "close",
                   fd |-> At(p, v).fd, ref |-> open_files[p][v], from |-> from]
  <2>1. call' = [call EXCEPT ![p] = c] /\ c.from = from
    BY DEF fclose
  <2> HIDE DEF c
  <2>2. call'[p] = c
    BY <2>1 DEF OpenInv, TypeOK
  <2>3. QED
    BY <2>1, <2>2
<1>5. ASSUME NEW e \in Kept PROVE e \in Kept' \/ (e = At(p, v).fd /\ ~UsedByOther(p, At(p, v).fd))
  <2>1. e \in DOMAIN open_files_list /\ open_files_list[e].used
    BY DEF Kept, KeptIn
  <2>2. CASE \A q \in Procs : ~(call'[q].step = "close" /\ call'[q].fd = e)
    BY <1>3, <2>1, <2>2 DEF Kept, KeptIn
  <2>3. CASE \E q \in Procs : call'[q].step = "close" /\ call'[q].fd = e
    <3>1. PICK q \in Procs : call'[q].step = "close" /\ call'[q].fd = e
      BY <2>3
    <3>2. q = p
      BY <1>2, <3>1, NoCallFacts DEF OthersIdle, OthersKept
    <3>3. QED
      BY <1>2, <3>1, <3>2
  <2>4. QED
    BY <2>2, <2>3
<1>6. NoImageOpen'
  BY <1>3 DEF NoImageOpen, UsedDescriptors
<1>7. QED
  BY <1>2, <1>3, <1>4, <1>5, <1>6 DEF KeepsBut

(* fclose gives up an entry.                                                  *)
LEMMA FcloseEffect ==
  ASSUME OpenInv, NoImageOpen, NEW p \in Procs, OthersIdle(p), NEW v \in Nat,
         fclose(p, v, 0), At(p, v).used
  PROVE  /\ Closed(entry[p], open_files[p], Entries(p)', v) /\ List(p)' = open_files[p]
         /\ CopiesAnother(p)'
<1> DEFINE c == call'[p]
<1>1. Begins(p) /\ v \in DOMAIN open_files[p]
  BY ReadyBegins DEF fclose
<1>2. /\ c.step \in {"close", "unuse"} /\ c.ref = open_files[p][v] /\ c.from = 0
      /\ entry' = entry /\ open_files' = open_files
  BY FcloseKept
<1>3. TypedLists(entry[p], open_files[p]) /\ entry[p][open_files[p][v]].used
  BY <1>1 DEF Begins, At
<1> HIDE DEF c
<1>4. /\ Closed(entry[p], open_files[p], LaterEntries(entry[p], open_files[p], c), v)
      /\ LaterList(entry[p], open_files[p], c) = open_files[p]
  BY <1>1, <1>2, <1>3, UnuseCloses
<1>5. Closed(entry[p], open_files[p], Entries(p)', v) /\ List(p)' = open_files[p]
  BY <1>2, <1>4 DEF Entries, List, c
<1>6. CopiesAnother(p)'
  BY <1>2 DEF CopiesAnother, c
<1>7. QED
  BY <1>5, <1>6

(* dup2 replaces one by another.                                              *)
LEMMA Dup2Effect ==
  ASSUME OpenInv, NoImageOpen, NEW p \in Procs, OthersIdle(p), NEW v \in Nat, NEW w \in Nat,
         dup2(p, w, v), NEW S, InUse(entry[p], open_files[p], S), v \in S, w \in S, v # w
  PROVE  /\ Copied(entry[p], open_files[p], Entries(p)', v, w) /\ List(p)' = open_files[p]
         /\ CopiesAnother(p)'
<1> DEFINE c == call'[p]
<1>0. fclose(p, v, w)
  BY DEF dup2
<1>1. Begins(p)
  BY <1>0, ReadyBegins DEF fclose
<1>2. /\ c.step \in {"close", "unuse"} /\ c.ref = open_files[p][v] /\ c.from = w
      /\ entry' = entry /\ open_files' = open_files
  BY <1>0, FcloseKept
<1>3. /\ v \in DOMAIN open_files[p] /\ w \in DOMAIN open_files[p]
      /\ entry[p][open_files[p][v]].used /\ entry[p][open_files[p][w]].used
      /\ open_files[p][w] # open_files[p][v]
  BY DEF InUse
<1>4. TypedLists(entry[p], open_files[p])
  BY <1>1 DEF Begins
<1> HIDE DEF c
<1>5. /\ Copied(entry[p], open_files[p], LaterEntries(entry[p], open_files[p], c), v, w)
      /\ LaterList(entry[p], open_files[p], c) = open_files[p]
  BY <1>2, <1>3, <1>4, CopyCopies
<1>6. Copied(entry[p], open_files[p], Entries(p)', v, w) /\ List(p)' = open_files[p]
  BY <1>2, <1>5 DEF Entries, List, c
<1>7. CopiesAnother(p)'
  BY <1>2, <1>3 DEF CopiesAnother, c
<1>8. QED
  BY <1>6, <1>7

(* A seek neither opens nor closes.                                           *)
LEMMA SeekEffect ==
  ASSUME OpenInv, NoImageOpen, NEW p \in Procs, OthersIdle(p), NEW v \in Nat, Seek(p, v)
  PROVE  /\ Entries(p)' = entry[p] /\ List(p)' = open_files[p]
         /\ KeepsAll /\ NoImageOpen' /\ CopiesAnother(p)' /\ OthersKept(p)
<1>1. Begins(p) /\ v \in DOMAIN open_files[p]
  BY ReadyBegins DEF Seek
<1>2. OthersKept(p) /\ call'[p].step = "transfer" /\ entry' = entry /\ open_files' = open_files
  BY SeekStep DEF Seek
<1>3. Kept' = UsedDescriptors' /\ UsedDescriptors' = UsedDescriptors
  BY <1>2, SeekUses, KeptIdleNext
<1>4. \A e \in DOMAIN open_files_list :
        open_files_list'[e].inode = open_files_list[e].inode
  <2>1. open_files_list \in Seq(Descriptor) /\ At(p, v).offset \in Nat
    BY <1>1, ListTypes DEF OpenInv, TypeOK, Entry
  <2>2. open_files_list' = seek(open_files_list, At(p, v).fd, At(p, v).offset)
    BY DEF Seek
  <2>3. QED
    BY <2>1, <2>2, SeekFacts
<1>5. KeepsAll /\ NoImageOpen'
  BY <1>1, <1>3, <1>4 DEF KeepsAll, NoImageOpen, Begins, UsedDescriptors
<1>6. Entries(p)' = entry[p] /\ List(p)' = open_files[p] /\ CopiesAnother(p)'
  BY <1>2 DEF Entries, List, LaterEntries, LaterList, CopiesAnother
<1>7. QED
  BY <1>2, <1>5, <1>6

(* dup, when every entry is in use.                                           *)
LEMMA DupEffect ==
  ASSUME OpenInv, NoImageOpen, NEW p \in Procs, OthersIdle(p), NEW v \in Nat, dup(p, v),
         \A w \in DOMAIN open_files[p] : At(p, w).used, v \in DOMAIN open_files[p]
  PROVE  LET k == Len(open_files[p]) + 1
         IN  /\ Opened(entry[p], open_files[p], Entries(p)', List(p)', k, At(p, v).fd)
             /\ DOMAIN List(p)' = DOMAIN open_files[p] \cup {k}
             /\ KeepsAll /\ NoImageOpen' /\ CopiesAnother(p)' /\ OthersKept(p)
<1> DEFINE es == entry[p]
           rs == open_files[p]
           e == At(p, v)
           k == Len(rs) + 1
           es2 == Append(es, e)
           rs2 == Append(rs, Len(es) + 1)
<1>1. Begins(p) /\ OthersKept(p) /\ call' = call
  BY ReadyBegins, DupFacts DEF dup
<1>2. /\ es \in Seq(Entry) /\ Len(es) \in Nat /\ DOMAIN es = 1 .. Len(es)
      /\ rs \in Seq(Nat) /\ Len(rs) \in Nat /\ DOMAIN rs = 1 .. Len(rs)
      /\ \A w \in DOMAIN rs : rs[w] \in DOMAIN es
      /\ e \in Entry
  BY ListTypes
<1>3. e.used
  OBVIOUS
<1>4. FirstUnused(p) = 0
  BY FirstUnusedFacts DEF OpenInv
<1>5. entry' = [entry EXCEPT ![p] = es2] /\ open_files' = [open_files EXCEPT ![p] = rs2]
  BY <1>4 DEF dup, OpenInv, TypeOK
<1>6. open_files_list' = open_files_list
  BY DEF dup
<1> HIDE DEF e, es2, rs2
<1>7. entry'[p] = es2 /\ open_files'[p] = rs2
  BY <1>5 DEF OpenInv, TypeOK
<1>8. Entries(p)' = es2 /\ List(p)' = rs2
  BY <1>1, <1>7, NoCallFacts DEF Begins, Entries, List, LaterEntries, LaterList
<1> HIDE DEF es, rs
<1>9. /\ es2 \in Seq(Entry) /\ DOMAIN es2 = 1 .. Len(es) + 1
      /\ es2[Len(es) + 1] = e /\ \A r \in 1 .. Len(es) : es2[r] = es[r]
  BY <1>2, AppendProperties DEF es2
<1>10. /\ DOMAIN rs2 = 1 .. k /\ rs2[k] = Len(es) + 1
       /\ \A w \in 1 .. Len(rs) : rs2[w] = rs[w]
  BY <1>2, AppendProperties DEF rs2
<1>11. Cardinality(UsedEntries(es2)) = Cardinality(UsedEntries(es)) + 1
  <2>1. IsFiniteSet(UsedEntries(es))
    BY <1>2, UsedFinite
  <2>2. UsedEntries(es2) = UsedEntries(es) \cup {Len(es) + 1}
    BY <1>2, <1>3, <1>9 DEF UsedEntries
  <2>3. Len(es) + 1 \notin UsedEntries(es)
    BY <1>2 DEF UsedEntries
  <2>4. QED
    BY <2>1, <2>2, <2>3, FS_AddElement
<1>12. \A w \in DOMAIN rs :
         /\ w # k /\ w \in DOMAIN rs2 /\ rs2[w] = rs[w] /\ rs2[w] # rs2[k]
         /\ rs2[w] \in DOMAIN es2 /\ es2[rs2[w]] = es[rs[w]]
  BY <1>2, <1>9, <1>10
<1>13. k \in DOMAIN rs2 /\ rs2[k] \in DOMAIN es2 /\ es2[rs2[k]] = e
  BY <1>2, <1>9, <1>10
<1> HIDE DEF k
<1>14. Opened(es, rs, es2, rs2, k, e.fd)
  BY <1>3, <1>11, <1>12, <1>13 DEF Opened
<1>15. DOMAIN rs2 = DOMAIN rs \cup {k}
  BY <1>2, <1>10 DEF k
<1>16. call'[p].step = "none"
  BY <1>1, NoCallFacts DEF Begins
<1>17. Kept' = UsedDescriptors' /\ UsedDescriptors' = UsedDescriptors
  BY <1>1, <1>6, <1>16, KeptIdleNext DEF UsedDescriptors
<1>18. KeepsAll /\ NoImageOpen' /\ CopiesAnother(p)'
  BY <1>1, <1>6, <1>16, <1>17 DEF KeepsAll, NoImageOpen, Begins, CopiesAnother
<1>19. QED
  BY <1>1, <1>8, <1>14, <1>15, <1>18 DEF es, rs, e, k

\* The rest of a call changes nothing but offsets in what the lists will be.
CallGoesOn(p) ==
  /\ Similar(Entries(p), Entries(p)') /\ List(p)' = List(p)
  /\ KeepsAll /\ UsedDescriptors' \subseteq UsedDescriptors
  /\ \A d \in UsedDescriptors' : open_files_list'[d].inode = open_files_list[d].inode
  /\ CopiesAnother(p)' /\ OthersKept(p)

(* Nothing is opened or closed, and the entries become what they were to be.  *)
LEMMA EndsCall ==
  ASSUME OpenInv, NEW p \in Procs, OthersIdle(p), OthersKept(p), call'[p] = NoCall,
         call[p].step # "close", UsedDescriptors' = UsedDescriptors,
         \A d \in UsedDescriptors : open_files_list'[d].inode = open_files_list[d].inode,
         Similar(Entries(p), entry'[p]), open_files'[p] = List(p)
  PROVE  CallGoesOn(p)
<1>1. Kept = UsedDescriptors /\ Kept' = UsedDescriptors'
  BY KeptIdle, KeptIdleNext, NoCallFacts
<1>2. Entries(p)' = entry'[p] /\ List(p)' = open_files'[p]
  BY NoCallFacts DEF Entries, List, LaterEntries, LaterList
<1>3. KeepsAll
  BY <1>1 DEF KeepsAll
<1>4. CopiesAnother(p)'
  BY NoCallFacts DEF CopiesAnother
<1>5. QED
  BY <1>2, <1>3, <1>4 DEF CallGoesOn

(* A list is similar to itself.                                               *)
LEMMA SimilarSame ==
  ASSUME NEW es PROVE Similar(es, es)
BY DEF Similar

(* Each of the later steps of a call is such a step: registering,             *)
LEMMA RegisterGoesOn ==
  ASSUME OpenInv, NEW p \in Procs, OthersIdle(p), Register(p)
  PROVE  CallGoesOn(p)
<1>1. OthersKept(p) /\ call'[p] = NoCall /\ call[p].step = "register" /\ p \in live
  BY RegisterFacts DEF Register
<1>2. open_files_list' = open_files_list
  BY DEF Register
<1>3. FirstUnused(p) = FirstFree(entry[p], open_files[p])
  BY DEF FirstUnused, FirstFree
<1> DEFINE new == [used |-> TRUE, fd |-> call[p].fd, offset |-> 0]
           v == FirstUnused(p)
<1>4. entry'[p] = Entries(p) /\ open_files'[p] = List(p)
  <2>1. CASE v = 0
    <3>1. /\ entry' = [entry EXCEPT ![p] = Append(@, new)]
          /\ open_files' = [open_files EXCEPT
               ![p] = @ \o <<Len(entry[p]) + 1, Len(entry[p]) + 1>>]
      BY <2>1 DEF Register
    <3>2. /\ Entries(p) = Append(entry[p], new)
          /\ List(p) = open_files[p] \o <<Len(entry[p]) + 1, Len(entry[p]) + 1>>
      BY <1>1, <1>3, <2>1 DEF Entries, List, LaterEntries, LaterList
    <3> HIDE DEF new
    <3>3. QED
      BY <3>1, <3>2 DEF OpenInv, TypeOK
  <2>2. CASE v # 0
    <3>1. /\ entry' = [entry EXCEPT ![p] = [@ EXCEPT ![open_files[p][v]] = new]]
          /\ open_files' = [open_files EXCEPT ![p] = Append(@, open_files[p][v])]
      BY <2>2 DEF Register, OpenInv, TypeOK
    <3>2. /\ Entries(p) = [entry[p] EXCEPT ![open_files[p][v]] = new]
          /\ List(p) = Append(open_files[p], open_files[p][v])
      BY <1>1, <1>3, <2>2 DEF Entries, List, LaterEntries, LaterList
    <3> HIDE DEF new, v
    <3>3. QED
      BY <3>1, <3>2 DEF OpenInv, TypeOK
  <2>3. QED
    BY <2>1, <2>2
<1>5. Similar(Entries(p), entry'[p])
  BY <1>4, SimilarSame
<1>6. UsedDescriptors' = UsedDescriptors
  BY <1>2 DEF UsedDescriptors
<1>7. QED
  BY <1>1, <1>2, <1>4, <1>5, <1>6, EndsCall

(* reading or writing,                                                        *)
LEMMA TransferGoesOn ==
  ASSUME OpenInv, NEW p \in Procs, OthersIdle(p), NEW n \in 0 .. 1, Transfer(p, n)
  PROVE  CallGoesOn(p)
<1> DEFINE r == call[p].ref
           es == entry[p]
           e == [es[r] EXCEPT !.offset = @ + n]
           d == es[r].fd
           lst == open_files_list
<1>1. OthersKept(p) /\ call'[p] = NoCall /\ call[p].step = "transfer"
  BY TransferFacts DEF Transfer
<1>2. Entries(p) = es /\ List(p) = open_files[p]
  BY <1>1 DEF Entries, List, LaterEntries, LaterList
<1>3. entry' = [entry EXCEPT ![p] = [es EXCEPT ![r] = e]] /\ open_files' = open_files
  BY DEF Transfer, OpenInv, TypeOK
<1>4. r \in DOMAIN es => e.used = es[r].used /\ e.fd = es[r].fd
  BY ListTypes DEF Entry
<1> HIDE DEF e, r
<1>5. entry'[p] = [es EXCEPT ![r] = e]
  BY <1>3 DEF OpenInv, TypeOK
<1>6. Similar(es, entry'[p])
  BY <1>4, <1>5 DEF Similar
<1>7. /\ DOMAIN open_files_list' = DOMAIN lst
      /\ \A x \in DOMAIN lst : /\ open_files_list'[x].inode = lst[x].inode
                               /\ open_files_list'[x].used = lst[x].used
  <2>1. \A x \in DOMAIN lst : lst[x] \in Descriptor
    BY DEF OpenInv, TypeOK
  <2>2. CASE d \in DOMAIN lst /\ lst[d].inode \in Files
    <3>1. open_files_list' = [lst EXCEPT ![d].offset = @ + n]
      BY <2>2 DEF Transfer, r
    <3>2. /\ [lst[d] EXCEPT !.offset = @ + n].inode = lst[d].inode
          /\ [lst[d] EXCEPT !.offset = @ + n].used = lst[d].used
      BY <2>1, <2>2 DEF Descriptor
    <3>3. QED
      BY <3>1, <3>2
  <2>3. CASE ~(d \in DOMAIN lst /\ lst[d].inode \in Files)
    <3>1. open_files_list' = lst
      BY <2>3 DEF Transfer, r
    <3>2. QED
      BY <3>1
  <2>4. QED
    BY <2>2, <2>3
<1>8. /\ UsedDescriptors' = UsedDescriptors
      /\ \A x \in UsedDescriptors : open_files_list'[x].inode = lst[x].inode
  BY <1>7 DEF UsedDescriptors
<1>9. QED
  BY <1>1, <1>2, <1>3, <1>6, <1>8, EndsCall

(* closing the descriptor,                                                    *)
LEMMA CloseGoesOn ==
  ASSUME OpenInv, ShellInv, NEW p \in Procs, OthersIdle(p), Close(p)
  PROVE  CallGoesOn(p)
<1> DEFINE c == call[p]
           c2 == [c EXCEPT !.step = "unuse"]
           lst == open_files_list
<1>1. /\ OthersKept(p) /\ entry' = entry /\ call'[p] = c2 /\ c.step = "close"
      /\ open_files' = open_files /\ c \in Call
  BY CloseStep, ListTypes DEF Close
<1>2. c2.step = "unuse" /\ c2.from = c.from /\ c2.ref = c.ref /\ c2.fd = c.fd
  BY <1>1 DEF Call
<1>3. open_files_list' = close(lst, {c.fd})
  BY DEF Close
<1>4. /\ DOMAIN open_files_list' = DOMAIN lst
      /\ \A d \in DOMAIN lst : /\ open_files_list'[d].inode = lst[d].inode
                               /\ open_files_list'[d].used = (lst[d].used /\ d # c.fd)
  BY <1>3, CloseFacts DEF OpenInv, TypeOK
<1> HIDE DEF c, c2
<1>5. \A es, rs : LaterEntries(es, rs, c2) = LaterEntries(es, rs, c)
                  /\ LaterList(es, rs, c2) = LaterList(es, rs, c)
  BY <1>1, <1>2 DEF LaterEntries, LaterList
<1>6. Entries(p)' = Entries(p) /\ List(p)' = List(p)
  BY <1>1, <1>5 DEF Entries, List, c
<1>7. Similar(Entries(p), Entries(p)')
  BY <1>6, SimilarSame
<1>8. Kept' = UsedDescriptors'
  BY <1>1, <1>2, KeptIdleNext
<1>9. KeepsAll
  <2>1. SUFFICES ASSUME NEW d \in Kept
                 PROVE  d \in Kept' /\ open_files_list'[d].inode = lst[d].inode
    BY DEF KeepsAll
  <2>2. d \in DOMAIN lst /\ lst[d].used /\ d # c.fd
    BY <1>1, <2>1 DEF Kept, KeptIn, c
  <2>3. d \in UsedDescriptors'
    BY <1>4, <2>2 DEF UsedDescriptors
  <2>4. QED
    BY <1>4, <1>8, <2>2, <2>3
<1>10. /\ UsedDescriptors' \subseteq UsedDescriptors
       /\ \A d \in UsedDescriptors' : open_files_list'[d].inode = lst[d].inode
  BY <1>4 DEF UsedDescriptors
<1>11. CopiesAnother(p)'
  <2>1. CopiesAnother(p)
    BY DEF ShellInv
  <2>2. QED
    BY <1>1, <1>2, <2>1 DEF CopiesAnother, c
<1>12. QED
  BY <1>1, <1>6, <1>7, <1>9, <1>10, <1>11 DEF CallGoesOn

(* giving up the entry,                                                       *)
LEMMA UnuseGoesOn ==
  ASSUME IInv, ShellInv, NEW p \in Procs, OthersIdle(p), Unuse(p)
  PROVE  CallGoesOn(p)
<1> DEFINE c == call[p]
           es == entry[p]
           rs == open_files[p]
           es2 == [es EXCEPT ![c.ref].used = FALSE]
<1>1. /\ OthersKept(p) /\ c.step = "unuse" /\ c.ref \in DOMAIN es /\ OpenInv
      /\ open_files' = open_files /\ open_files_list' = open_files_list
      /\ c \in Call /\ CopiesAnother(p)
  BY UnuseFacts, ListTypes DEF Unuse, IInv, CloseKnows, ShellInv
<1>2. entry'[p] = es2
  BY <1>1 DEF Unuse, OpenInv, TypeOK
<1>3. UsedDescriptors' = UsedDescriptors
  BY <1>1 DEF UsedDescriptors
<1>4. CASE c.from = 0
  <2>1. call'[p] = NoCall
    BY <1>1, <1>4 DEF Unuse, OpenInv, TypeOK
  <2>2. Entries(p) = es2 /\ List(p) = rs
    BY <1>1, <1>4 DEF Entries, List, LaterEntries, LaterList
  <2>3. Similar(Entries(p), entry'[p]) /\ open_files'[p] = List(p)
    BY <1>1, <1>2, <2>2, SimilarSame
  <2>4. QED
    BY <1>1, <1>3, <2>1, <2>3, EndsCall
<1>5. CASE c.from # 0
  <2> DEFINE c2 == [c EXCEPT !.step = "copy"]
             s == rs[c.from]
  <2>1. call'[p] = c2
    BY <1>1, <1>5 DEF Unuse, OpenInv, TypeOK
  <2>2. c2.step = "copy" /\ c2.from = c.from /\ c2.ref = c.ref
    BY <1>1 DEF Call
  <2>3. c.from \in DOMAIN rs /\ s # c.ref
    BY <1>1, <1>5 DEF CopiesAnother
  <2>4. s \in DOMAIN es
    BY <1>1, <2>3, ListTypes
  <2>5. Entries(p) = [es EXCEPT ![c.ref] = es[s]] /\ List(p) = rs
    BY <1>1, <1>5 DEF Entries, List, LaterEntries, LaterList
  <2> HIDE DEF c2, s, c
  <2>6. es2[s] = es[s] /\ DOMAIN es2 = DOMAIN es
    BY <2>3, <2>4
  <2> HIDE DEF es2
  <2>7. Entries(p)' = [es2 EXCEPT ![c.ref] = es2[s]] /\ List(p)' = rs
    BY <1>1, <1>2, <1>5, <2>1, <2>2 DEF Entries, List, LaterEntries, LaterList, s
  <2>8. \A x \in DOMAIN es : x # c.ref => es2[x] = es[x]
    BY <1>1 DEF es2
  <2>9. Similar(Entries(p), Entries(p)')
    BY <2>5, <2>6, <2>7, <2>8 DEF Similar
  <2>10. Kept = UsedDescriptors /\ Kept' = UsedDescriptors'
    BY <1>1, <2>1, <2>2, KeptIdle, KeptIdleNext DEF c
  <2>11. KeepsAll
    BY <1>1, <1>3, <2>10 DEF KeepsAll
  <2>12. CopiesAnother(p)'
    BY <1>1, <1>5, <2>1, <2>2, <2>3 DEF CopiesAnother, s
  <2>13. QED
    BY <1>1, <1>3, <2>5, <2>7, <2>9, <2>11, <2>12 DEF CallGoesOn
<1>6. QED
  BY <1>4, <1>5

(* and copying another one.                                                   *)
LEMMA CopyGoesOn ==
  ASSUME OpenInv, ShellInv, NEW p \in Procs, OthersIdle(p), Copy(p)
  PROVE  CallGoesOn(p)
<1> DEFINE c == call[p]
<1>1. /\ OthersKept(p) /\ call'[p] = NoCall /\ c.step = "copy"
      /\ open_files' = open_files /\ open_files_list' = open_files_list
      /\ CopiesAnother(p)
  BY CopyFacts DEF Copy, ShellInv
<1>2. c.from # 0 /\ c.from \in DOMAIN open_files[p]
  BY <1>1 DEF CopiesAnother
<1>3. entry'[p] = [entry[p] EXCEPT ![c.ref] = At(p, c.from)]
  BY <1>1, <1>2 DEF Copy, OpenInv, TypeOK
<1>4. Entries(p) = [entry[p] EXCEPT ![c.ref] = At(p, c.from)] /\ List(p) = open_files[p]
  BY <1>1, <1>2 DEF Entries, List, LaterEntries, LaterList, At
<1>5. UsedDescriptors' = UsedDescriptors
  BY <1>1 DEF UsedDescriptors
<1>6. Similar(Entries(p), entry'[p])
  BY <1>3, <1>4, SimilarSame
<1>7. QED
  BY <1>1, <1>4, <1>5, <1>6, EndsCall

-----------------------------------------------------------------------------
(* The steps of programs.                                                    *)

(* What was kept for a program is kept.                                       *)
LEMMA FilesKept ==
  ASSUME NEW pr, NEW es, NEW rs, NEW lst, NEW kept, FilesOpen(pr, es, rs, lst, kept),
         NEW lst2, NEW kept2, \A d \in kept : d \in kept2 /\ lst2[d].inode = lst[d].inode
  PROVE  FilesOpen(pr, es, rs, lst2, kept2)
BY DEF FilesOpen

(* Who has not exited runs a program.                                         *)
LEMMA LiveProgram ==
  ASSUME OpenInv, ShellInv, NEW p \in live
  PROVE  /\ p \in Procs /\ program[p] \in Program
         /\ program \in [Procs -> Program \cup {NoProgram}]
BY DEF OpenInv, TypeOK, ShellInv, ProgramsTyped

(* The program is where it was, its call goes on or it has begun one that     *)
(* changes nothing.                                                           *)
LEMMA ProgramStays ==
  ASSUME OpenInv, ShellInv, NEW p \in live, OthersIdle(p), OthersKept(p), Childless(p),
         program' = program, Similar(Entries(p), Entries(p)'), List(p)' = List(p),
         KeepsAll, CopiesAnother(p)', NoImageOpen'
  PROVE  ShellInv'
<1> DEFINE pr == program[p]
           es == Entries(p)
           es2 == Entries(p)'
           rs == List(p)
<1>1. pr \in Program /\ program' = [program EXCEPT ![p] = pr] /\ program'[p] = pr
  BY LiveProgram
<1>2. ProgramInv(pr, es, rs) /\ FilesOpen(pr, es, rs, open_files_list, Kept)
  BY DEF ShellInv, RunsWell
<1>3. ProgramInv(pr, es2, rs) /\ FilesOpen(pr, es2, rs, open_files_list, Kept)
  <2>1. Similar(es, es2)
    OBVIOUS
  <2> HIDE DEF pr, es, es2, rs
  <2>2. QED
    BY <1>2, <2>1, SimilarRuns
<1>4. FilesOpen(pr, es2, rs, open_files_list', Kept')
  <2>1. \A d \in Kept : d \in Kept' /\ open_files_list'[d].inode = open_files_list[d].inode
    BY DEF KeepsAll
  <2> HIDE DEF pr, es, es2, rs
  <2>2. QED
    BY <1>3, <2>1, FilesKept
<1>5. RunsWell(p)'
  BY <1>1, <1>3, <1>4 DEF RunsWell
<1>6. KeepsEnough(p)
  BY DEF KeepsAll, KeepsEnough
<1>7. QED
  BY <1>1, <1>5, <1>6, ShellFrame

(* The rest of a call.                                                        *)
LEMMA ContinueKeeps ==
  ASSUME IInv, ShellInv, NEW p \in Procs, OthersIdle(p), Continue(p)
  PROVE  ShellInv'
<1>1. OpenInv /\ program' = program
  BY DEF IInv, Continue
<1>2. CallGoesOn(p)
  BY <1>1, RegisterGoesOn, TransferGoesOn, CloseGoesOn, UnuseGoesOn, CopyGoesOn DEF Continue
<1>3. call[p].step # "none"
  BY DEF Continue, Register, Transfer, Close, Unuse, Copy
<1>4. p \in live /\ call[p] # NoCall
  BY <1>1, <1>3, ListTypes, NoCallFacts
<1>5. Childless(p)
  BY <1>4 DEF Childless, ShellInv, CallerKeeps
<1>6. NoImageOpen'
  BY <1>2 DEF CallGoesOn, NoImageOpen, ShellInv
<1>7. QED
  BY <1>1, <1>2, <1>4, <1>5, <1>6, ProgramStays DEF CallGoesOn

(* Who begins a call has executed nobody that has not exited.                 *)
LEMMA BeginsChildless ==
  ASSUME NEW p, Begins(p)
  PROVE  Childless(p)
BY DEF Begins, Waits, Childless

(* A command uses a stream.                                                   *)
LEMMA UseStreamKeeps ==
  ASSUME IInv, ShellInv, NEW p \in Procs, OthersIdle(p), UseStream(p)
  PROVE  ShellInv'
<1>1. PICK v \in {stdin, stdout} : Seek(p, v)
  BY DEF UseStream
<1>2. OpenInv /\ NoImageOpen /\ v \in Nat /\ program' = program
  BY DEF IInv, ShellInv, stdin, stdout, UseStream
<1>3. /\ Entries(p)' = entry[p] /\ List(p)' = open_files[p]
      /\ KeepsAll /\ NoImageOpen' /\ CopiesAnother(p)' /\ OthersKept(p)
  BY <1>1, <1>2, SeekEffect
<1>4. Begins(p)
  BY <1>1, <1>2, ReadyBegins DEF Seek
<1>5. Similar(Entries(p), Entries(p)') /\ List(p)' = List(p) /\ p \in live
  BY <1>3, <1>4, SimilarSame DEF Begins
<1>6. QED
  BY <1>2, <1>3, <1>4, <1>5, BeginsChildless, ProgramStays

(* The program is somewhere else, its lists have changed as it expects.       *)
LEMMA ProgramMoves ==
  ASSUME OpenInv, ShellInv, NEW p, Begins(p), OthersIdle(p), OthersKept(p),
         NEW pr2 \in Program, pr2.name = program[p].name, pr2.home = program[p].home,
         program' = [program EXCEPT ![p] = pr2],
         ProgramInv(pr2, Entries(p)', List(p)'),
         FilesOpen(pr2, Entries(p)', List(p)', open_files_list', Kept'),
         KeepsEnough(p), CopiesAnother(p)', NoImageOpen'
  PROVE  ShellInv'
<1>1. p \in live /\ Childless(p)
  BY BeginsChildless DEF Begins
<1>2. program'[p] = pr2
  BY <1>1, LiveProgram
<1>3. RunsWell(p)'
  BY <1>2 DEF RunsWell
<1>4. QED
  BY <1>1, <1>3, ShellFrame

(* Nothing is called.                                                         *)
LEMMA NothingCalled ==
  ASSUME OpenInv, ShellInv, NEW p, Begins(p), OthersIdle(p), UNCHANGED vars
  PROVE  /\ OthersKept(p) /\ Entries(p)' = entry[p] /\ List(p)' = open_files[p]
         /\ KeepsAll /\ KeepsEnough(p) /\ NoImageOpen' /\ CopiesAnother(p)'
<1>1. /\ live' = live /\ parent' = parent /\ open_files_list' = open_files_list
      /\ entry' = entry /\ open_files' = open_files /\ call' = call
  BY DEF vars
<1>2. OthersKept(p)
  BY <1>1 DEF OthersKept, OpenInv, TypeOK
<1>3. Entries(p)' = entry[p] /\ List(p)' = open_files[p]
  BY <1>1, NoCallFacts DEF Begins, Entries, List, LaterEntries, LaterList
<1>4. KeepsAll
  BY <1>1 DEF KeepsAll, Kept
<1>5. KeepsEnough(p)
  BY <1>4 DEF KeepsAll, KeepsEnough
<1>6. NoImageOpen' /\ CopiesAnother(p)'
  BY <1>1 DEF Begins, ShellInv, NoImageOpen, UsedDescriptors, CopiesAnother
<1>7. QED
  BY <1>2, <1>3, <1>4, <1>5, <1>6

\* The statements a program can be at.
Statement ==
  {"dup_stdin", "dup_stdout", "prompt", "opened", "used", "parse",
   "set_stdout", "set_stdin", "execute", "close_stdout", "reset_stdout",
   "close_stdin", "reset_stdin"}

\* Program p becomes pr2.
Moves(p, pr2) == pr2 \in Program /\ program' = [program EXCEPT ![p] = pr2]

(* How each kind of step changes the program.                                 *)
LEMMA GotoMoves ==
  ASSUME OpenInv, ShellInv, NEW p \in live, NEW at \in Statement, Goto(p, at)
  PROVE  \E pr2 : /\ Moves(p, pr2)
                  /\ Becoming(pr2, program[p], at, program[p].newstdin, program[p].newstdout,
                              program[p].fd, program[p].lost)
<1> DEFINE pr == program[p]
           pr2 == [pr EXCEPT !.at = at]
<1>1. p \in Procs /\ pr \in Program /\ program \in [Procs -> Program \cup {NoProgram}]
  BY LiveProgram
<1>2. pr2 \in Program
  BY <1>1 DEF Program, Statement
<1>3. Becoming(pr2, pr, at, pr.newstdin, pr.newstdout, pr.fd, pr.lost)
  BY <1>1 DEF Becoming, Program
<1>4. program' = [program EXCEPT ![p] = pr2]
  BY <1>1 DEF Goto
<1>5. QED
  BY <1>2, <1>3, <1>4 DEF Moves

(* The shell goes on to its next statement.                                   *)
LEMMA AdvanceMoves ==
  ASSUME OpenInv, ShellInv, NEW p \in live, NEW n \in 1 .. 7,
         NEW prs, prs = Advance(p, n)
  PROVE  \E pr2 \in Program : /\ prs = [program EXCEPT ![p] = pr2]
                              /\ GoesOn(pr2, program[p], n + 1)
<1> DEFINE pr == program[p]
           m == n + 1
           at == StatementFrom(p, m)
           in == IF at = "prompt" THEN 0 ELSE pr.newstdin
           out == IF at = "prompt" THEN 0 ELSE pr.newstdout
           pr2 == [pr EXCEPT !.at = at, !.newstdin = in, !.newstdout = out]
<1>1. p \in Procs /\ pr \in Program /\ program \in [Procs -> Program \cup {NoProgram}]
  BY LiveProgram
<1>2. prs = [program EXCEPT ![p] = pr2]
  BY <1>1 DEF Advance
<1>3. m \in 1 .. 8
  OBVIOUS
<1> HIDE DEF m
<1>4. StatementNext(pr, m, at)
  BY <1>3, StatementsFollow
<1>5. at \in Statement
  <2>1. PICK k \in m .. 8 : at = Statements[k]
    BY <1>3, StatementFirst
  <2>2. k \in {1, 2, 3, 4, 5, 6, 7, 8}
    BY <1>3
  <2>3. QED
    BY <2>1, <2>2, StatementsAre DEF Statement
<1> HIDE DEF at
<1>6. in \in Nat /\ out \in Nat
  BY <1>1 DEF Program
<1>7. /\ pr2.name = pr.name /\ pr2.home = pr.home /\ pr2.fd = pr.fd /\ pr2.lost = pr.lost
      /\ pr2.at = at /\ pr2.newstdin = in /\ pr2.newstdout = out
  BY <1>1 DEF Program
<1>8. pr2 \in Program
  <2> HIDE DEF in, out
  <2> QED BY <1>1, <1>5, <1>6 DEF Program, Statement
<1>9. GoesOn(pr2, pr, m)
  <2> HIDE DEF pr2
  <2> QED BY <1>4, <1>7 DEF GoesOn, Becoming
<1>10. QED
  BY <1>2, <1>8, <1>9 DEF m

(* Where p runs when it begins a call.                                        *)
LEMMA BeginsRunning ==
  ASSUME OpenInv, ShellInv, NEW p, Begins(p)
  PROVE  /\ ProgramInv(program[p], entry[p], open_files[p])
         /\ FilesOpen(program[p], entry[p], open_files[p], open_files_list, Kept)
         /\ p \in live /\ p \in Procs /\ program[p] \in Program
         /\ program \in [Procs -> Program \cup {NoProgram}]
BY LiveProgram DEF Begins, ShellInv, RunsWell

(* What keeps all, or all but what nobody else has open, keeps enough.        *)
LEMMA AllEnough ==
  ASSUME NEW p, KeepsAll PROVE KeepsEnough(p)
BY DEF KeepsAll, KeepsEnough

(* The second of these.                                                       *)
LEMMA ButEnough ==
  ASSUME NEW p, NEW d, KeepsBut(p, d),
         program[p].name = "login" => open_files_list[d].inode \in Files
  PROVE  KeepsEnough(p)
BY DEF KeepsBut, KeepsEnough

(* Each action keeps the invariant.  login, read and write open a file,       *)
LEMMA OpenFileKeeps ==
  ASSUME IInv, ShellInv, NEW p \in Procs, OthersIdle(p), NEW f \in Files, OpenFile(p, f)
  PROVE  ShellInv'
<1> DEFINE pr == program[p]
           k == Returned(p)
           d == DescriptorOf(f)
           pr2 == [pr EXCEPT !.at = "opened", !.fd = k]
<1>1. /\ OpenInv /\ NoImageOpen /\ fopen(p, f) /\ f # image
      /\ pr.at = "prompt" /\ pr.name \in {"login", "shell"}
  BY ProgramFilesAssumption DEF IInv, ShellInv, OpenFile, At_
<1>2. /\ Opened(entry[p], open_files[p], Entries(p)', List(p)', k, d)
      /\ d \in Kept' /\ open_files_list'[d].inode = f
      /\ KeepsAll /\ NoImageOpen' /\ CopiesAnother(p)' /\ k \in Nat
  BY <1>1, FopenEffect
<1>3. Begins(p) /\ OthersKept(p)
  BY <1>1, ReadyBegins, FopenFacts DEF fopen
<1>4. /\ ProgramInv(pr, entry[p], open_files[p]) /\ pr \in Program
      /\ program \in [Procs -> Program \cup {NoProgram}]
  BY <1>1, <1>3, BeginsRunning
<1>5. program' = [program EXCEPT ![p] = pr2]
  BY <1>4 DEF OpenFile
<1>6. pr2 \in Program
  BY <1>2, <1>4 DEF Program
<1>7. pr.newstdin = 0 /\ pr.newstdout = 0 /\ pr.lost \in Nat
  BY <1>1, <1>4 DEF ProgramInv, Located, Program
<1>8. Becoming(pr2, pr, "opened", 0, 0, k, pr.lost)
  BY <1>4, <1>7 DEF Becoming, Program
<1>9. open_files_list'[d].inode \in Files
  BY <1>2
<1>10. KeepsEnough(p)
  BY <1>2, AllEnough
<1>11. pr2.name = pr.name /\ pr2.home = pr.home
  BY <1>8 DEF Becoming
<1> HIDE DEF pr, pr2, k, d
<1>12. /\ ProgramInv(pr2, Entries(p)', List(p)')
       /\ FilesOpen(pr2, Entries(p)', List(p)', open_files_list', Kept')
  BY <1>1, <1>2, <1>4, <1>7, <1>8, <1>9, OpensFile
<1>13. QED
  BY <1>1, <1>2, <1>3, <1>5, <1>6, <1>10, <1>11, <1>12, ProgramMoves DEF pr

(* the shell opens the file after <,                                          *)
LEMMA ParseInKeeps ==
  ASSUME IInv, ShellInv, NEW p \in Procs, OthersIdle(p), NEW f \in Files, ParseIn(p, f)
  PROVE  ShellInv'
<1> DEFINE pr == program[p]
           k == Returned(p)
           d == DescriptorOf(f)
           lost2 == IF pr.newstdin = 0 THEN pr.lost ELSE pr.lost + 1
           pr2 == [pr EXCEPT !.at = "parse", !.newstdin = k, !.lost = lost2]
<1>1. /\ OpenInv /\ NoImageOpen /\ fopen(p, f) /\ f # image
      /\ pr.at \in {"prompt", "parse"} /\ pr.name = "shell"
  BY ProgramFilesAssumption DEF IInv, ShellInv, ParseIn, Parsing, At_
<1>2. /\ Opened(entry[p], open_files[p], Entries(p)', List(p)', k, d)
      /\ d \in Kept'
      /\ KeepsAll /\ NoImageOpen' /\ CopiesAnother(p)' /\ k \in Nat /\ k # 0
  BY <1>1, FopenEffect
<1>3. Begins(p) /\ OthersKept(p)
  BY <1>1, ReadyBegins, FopenFacts DEF fopen
<1>4. /\ ProgramInv(pr, entry[p], open_files[p]) /\ pr \in Program
      /\ FilesOpen(pr, entry[p], open_files[p], open_files_list, Kept)
      /\ program \in [Procs -> Program \cup {NoProgram}]
  BY <1>1, <1>3, BeginsRunning
<1>5. program' = [program EXCEPT ![p] = pr2]
  BY <1>4 DEF ParseIn
<1>7. pr.lost \in Nat /\ lost2 \in Nat
  BY <1>4 DEF Program
<1>6. pr2 \in Program
  <2> HIDE DEF lost2
  <2> QED BY <1>2, <1>4, <1>7 DEF Program
<1>8. Becoming(pr2, pr, "parse", k, pr.newstdout, pr.fd, lost2)
  <2> HIDE DEF lost2
  <2> QED BY <1>4 DEF Becoming, Program
<1>9. Kept \subseteq Kept'
  BY <1>2 DEF KeepsAll
<1>10. KeepsEnough(p)
  BY <1>2, AllEnough
<1>11. pr2.name = pr.name /\ pr2.home = pr.home
  BY <1>8 DEF Becoming
<1> HIDE DEF pr, pr2, k, d
<1>12. /\ ProgramInv(pr2, Entries(p)', List(p)')
       /\ FilesOpen(pr2, Entries(p)', List(p)', open_files_list', Kept')
  BY <1>1, <1>2, <1>4, <1>7, <1>8, <1>9, ParsesIn
<1>13. QED
  BY <1>1, <1>2, <1>3, <1>5, <1>6, <1>10, <1>11, <1>12, ProgramMoves DEF pr

(* or the file after >,                                                       *)
LEMMA ParseOutKeeps ==
  ASSUME IInv, ShellInv, NEW p \in Procs, OthersIdle(p), NEW f \in Files, ParseOut(p, f)
  PROVE  ShellInv'
<1> DEFINE pr == program[p]
           k == Returned(p)
           d == DescriptorOf(f)
           lost2 == IF pr.newstdout = 0 THEN pr.lost ELSE pr.lost + 1
           pr2 == [pr EXCEPT !.at = "parse", !.newstdout = k, !.lost = lost2]
<1>1. /\ OpenInv /\ NoImageOpen /\ fopen(p, f) /\ f # image
      /\ pr.at \in {"prompt", "parse"} /\ pr.name = "shell"
  BY ProgramFilesAssumption DEF IInv, ShellInv, ParseOut, Parsing, At_
<1>2. /\ Opened(entry[p], open_files[p], Entries(p)', List(p)', k, d)
      /\ d \in Kept'
      /\ KeepsAll /\ NoImageOpen' /\ CopiesAnother(p)' /\ k \in Nat /\ k # 0
  BY <1>1, FopenEffect
<1>3. Begins(p) /\ OthersKept(p)
  BY <1>1, ReadyBegins, FopenFacts DEF fopen
<1>4. /\ ProgramInv(pr, entry[p], open_files[p]) /\ pr \in Program
      /\ FilesOpen(pr, entry[p], open_files[p], open_files_list, Kept)
      /\ program \in [Procs -> Program \cup {NoProgram}]
  BY <1>1, <1>3, BeginsRunning
<1>5. program' = [program EXCEPT ![p] = pr2]
  BY <1>4 DEF ParseOut
<1>7. pr.lost \in Nat /\ lost2 \in Nat
  BY <1>4 DEF Program
<1>6. pr2 \in Program
  <2> HIDE DEF lost2
  <2> QED BY <1>2, <1>4, <1>7 DEF Program
<1>8. Becoming(pr2, pr, "parse", pr.newstdin, k, pr.fd, lost2)
  <2> HIDE DEF lost2
  <2> QED BY <1>4 DEF Becoming, Program
<1>9. Kept \subseteq Kept'
  BY <1>2 DEF KeepsAll
<1>10. KeepsEnough(p)
  BY <1>2, AllEnough
<1>11. pr2.name = pr.name /\ pr2.home = pr.home
  BY <1>8 DEF Becoming
<1> HIDE DEF pr, pr2, k, d
<1>12. /\ ProgramInv(pr2, Entries(p)', List(p)')
       /\ FilesOpen(pr2, Entries(p)', List(p)', open_files_list', Kept')
  BY <1>1, <1>2, <1>4, <1>7, <1>8, <1>9, ParsesOut
<1>13. QED
  BY <1>1, <1>2, <1>3, <1>5, <1>6, <1>10, <1>11, <1>12, ProgramMoves DEF pr

(* and a file that is open is read or written.                                *)
LEMMA UseFileKeeps ==
  ASSUME IInv, ShellInv, NEW p \in Procs, OthersIdle(p), UseFile(p)
  PROVE  ShellInv'
<1> DEFINE pr == program[p]
<1>1. /\ OpenInv /\ NoImageOpen /\ Seek(p, pr.fd) /\ pr.at = "opened" /\ Goto(p, "used")
  BY DEF IInv, ShellInv, UseFile
<1>2. Begins(p)
  BY <1>1, ReadyBegins DEF Seek
<1>3. /\ ProgramInv(pr, entry[p], open_files[p]) /\ pr \in Program /\ p \in live
      /\ FilesOpen(pr, entry[p], open_files[p], open_files_list, Kept)
  BY <1>1, <1>2, BeginsRunning
<1>4. pr.fd \in Nat
  BY <1>3 DEF Program
<1>5. /\ Entries(p)' = entry[p] /\ List(p)' = open_files[p]
      /\ KeepsAll /\ NoImageOpen' /\ CopiesAnother(p)' /\ OthersKept(p)
  BY <1>1, <1>4, SeekEffect
<1>6. "used" \in Statement
  BY DEF Statement
<1>7. PICK pr2 : /\ Moves(p, pr2)
                 /\ Becoming(pr2, pr, "used", pr.newstdin, pr.newstdout, pr.fd, pr.lost)
  BY <1>1, <1>3, <1>6, GotoMoves
<1>8. \A d \in Kept : d \in Kept' /\ open_files_list'[d].inode = open_files_list[d].inode
  BY <1>5 DEF KeepsAll
<1> HIDE DEF pr
<1>9. /\ ProgramInv(pr2, entry[p], open_files[p])
      /\ FilesOpen(pr2, entry[p], open_files[p], open_files_list', Kept')
  BY <1>1, <1>3, <1>7, <1>8, UsesFile
<1>10. /\ ProgramInv(pr2, Entries(p)', List(p)')
       /\ FilesOpen(pr2, Entries(p)', List(p)', open_files_list', Kept')
  BY <1>5, <1>9
<1>11. /\ pr2 \in Program /\ program' = [program EXCEPT ![p] = pr2]
       /\ pr2.name = program[p].name /\ pr2.home = program[p].home
  BY <1>7 DEF Moves, Becoming, pr
<1>12. KeepsEnough(p)
  BY <1>5, AllEnough
<1>13. QED
  BY <1>1, <1>2, <1>5, <1>10, <1>11, <1>12, ProgramMoves

(* The file that was open is closed.                                          *)
LEMMA CloseFileKeeps ==
  ASSUME IInv, ShellInv, NEW p \in Procs, OthersIdle(p), CloseFile(p)
  PROVE  ShellInv'
<1> DEFINE pr == program[p]
           at == IF pr.name = "login" THEN "execute" ELSE "prompt"
           pr2 == [pr EXCEPT !.fd = 0, !.at = at]
           d == At(p, pr.fd).fd
<1>1. /\ OpenInv /\ NoImageOpen /\ fclose(p, pr.fd, 0) /\ pr.at = "used"
  BY DEF IInv, ShellInv, CloseFile
<1>2. Begins(p)
  BY <1>1, ReadyBegins DEF fclose
<1>3. /\ ProgramInv(pr, entry[p], open_files[p]) /\ pr \in Program /\ p \in live
      /\ FilesOpen(pr, entry[p], open_files[p], open_files_list, Kept)
      /\ program \in [Procs -> Program \cup {NoProgram}]
  BY <1>1, <1>2, BeginsRunning
<1>4. pr.fd \in Nat /\ pr.lost \in Nat /\ 0 \in Nat
  BY <1>3 DEF Program
<1>5. pr.name \in {"login", "shell"} /\ pr.newstdin = 0 /\ pr.newstdout = 0
  BY <1>1, <1>3 DEF ProgramInv, Located, Program
<1>6. At(p, pr.fd).used
  <2>1. pr.fd \in Slots(pr)
    BY <1>1 DEF Slots
  <2>2. QED
    BY <1>3, <2>1 DEF ProgramInv, InUse, At
<1>7. KeepsBut(p, d) /\ NoImageOpen' /\ OthersKept(p)
  BY <1>1, <1>4, FcloseKept
<1>8. /\ Closed(entry[p], open_files[p], Entries(p)', pr.fd) /\ List(p)' = open_files[p]
      /\ CopiesAnother(p)'
  BY <1>1, <1>4, <1>6, FcloseEffect
<1>9. KeepsEnough(p)
  <2>1. pr.name = "login" => open_files_list[d].inode \in Files
    BY <1>1, <1>3 DEF FilesOpen, At
  <2>2. QED
    BY <1>7, <2>1, ButEnough
<1>10. program' = [program EXCEPT ![p] = pr2]
  BY <1>3 DEF CloseFile
<1>11. pr2 \in Program
  BY <1>3, <1>4 DEF Program
<1>12. Becoming(pr2, pr, at, 0, 0, 0, pr.lost)
  <2> HIDE DEF at
  <2> QED BY <1>3, <1>5 DEF Becoming, Program
<1>13. pr2.name = pr.name /\ pr2.home = pr.home
  BY <1>12 DEF Becoming
<1> HIDE DEF pr, pr2
<1>14. /\ ProgramInv(pr2, Entries(p)', open_files[p])
       /\ FilesOpen(pr2, Entries(p)', open_files[p], open_files_list', Kept')
  BY <1>1, <1>3, <1>4, <1>5, <1>8, <1>12, ClosesFile
<1>15. /\ ProgramInv(pr2, Entries(p)', List(p)')
       /\ FilesOpen(pr2, Entries(p)', List(p)', open_files_list', Kept')
  BY <1>8, <1>14
<1>16. QED
  BY <1>1, <1>2, <1>7, <1>8, <1>9, <1>10, <1>11, <1>13, <1>15, ProgramMoves DEF pr

(* After a command the file after > is closed, and the shell resets its       *)
(* standard output.                                                           *)
LEMMA CloseStdoutKeeps ==
  ASSUME IInv, ShellInv, NEW p \in Procs, OthersIdle(p), CloseStdout(p)
  PROVE  ShellInv'
<1> DEFINE pr == program[p]
           d == At(p, pr.newstdout).fd
<1>1. /\ OpenInv /\ NoImageOpen /\ fclose(p, pr.newstdout, 0)
      /\ pr.at = "close_stdout" /\ pr.name = "shell"
  BY DEF IInv, ShellInv, CloseStdout, At_
<1>2. Begins(p)
  BY <1>1, ReadyBegins DEF fclose
<1>3. /\ ProgramInv(pr, entry[p], open_files[p]) /\ pr \in Program /\ p \in live
  BY <1>1, <1>2, BeginsRunning
<1>4. pr.newstdout \in Nat /\ pr.newstdout # 0 /\ pr.lost \in Nat /\ 0 \in Nat
  BY <1>1, <1>3 DEF Program, ProgramInv, Located
<1>5. At(p, pr.newstdout).used
  <2>1. pr.newstdout \in Slots(pr)
    BY <1>1, <1>4 DEF Slots, OpenOut
  <2>2. QED
    BY <1>3, <2>1 DEF ProgramInv, InUse, At
<1>6. KeepsBut(p, d) /\ NoImageOpen' /\ OthersKept(p)
  BY <1>1, <1>4, FcloseKept
<1>7. /\ Closed(entry[p], open_files[p], Entries(p)', pr.newstdout)
      /\ List(p)' = open_files[p] /\ CopiesAnother(p)'
  BY <1>1, <1>4, <1>5, FcloseEffect
<1>8. KeepsEnough(p)
  BY <1>1, <1>6, ButEnough
<1>9. PICK pr2 \in Program : program' = [program EXCEPT ![p] = pr2] /\ GoesOn(pr2, pr, 5)
  <2>1. program' = Advance(p, 4)
    BY DEF CloseStdout
  <2>2. QED
    BY <1>1, <1>3, <2>1, AdvanceMoves
<1> HIDE DEF pr
<1>10. Becoming(pr2, pr, "reset_stdout", pr.newstdin, pr.newstdout, pr.fd, pr.lost)
  BY <1>4, <1>9 DEF GoesOn, StatementNext, Becoming
<1>11. pr2.name = pr.name /\ pr2.home = pr.home
  BY <1>10 DEF Becoming
<1>12. /\ ProgramInv(pr2, Entries(p)', open_files[p])
       /\ FilesOpen(pr2, Entries(p)', open_files[p], open_files_list', Kept')
  BY <1>1, <1>3, <1>4, <1>7, <1>10, ClosesStdout
<1>13. /\ ProgramInv(pr2, Entries(p)', List(p)')
       /\ FilesOpen(pr2, Entries(p)', List(p)', open_files_list', Kept')
  BY <1>7, <1>12
<1>14. QED
  BY <1>1, <1>2, <1>6, <1>7, <1>8, <1>9, <1>11, <1>13, ProgramMoves DEF pr

(* And the file after <.                                                      *)
LEMMA CloseStdinKeeps ==
  ASSUME IInv, ShellInv, NEW p \in Procs, OthersIdle(p), CloseStdin(p)
  PROVE  ShellInv'
<1> DEFINE pr == program[p]
           d == At(p, pr.newstdin).fd
<1>1. /\ OpenInv /\ NoImageOpen /\ fclose(p, pr.newstdin, 0)
      /\ pr.at = "close_stdin" /\ pr.name = "shell"
  BY DEF IInv, ShellInv, CloseStdin, At_
<1>2. Begins(p)
  BY <1>1, ReadyBegins DEF fclose
<1>3. /\ ProgramInv(pr, entry[p], open_files[p]) /\ pr \in Program /\ p \in live
  BY <1>1, <1>2, BeginsRunning
<1>4. pr.newstdin \in Nat /\ pr.newstdin # 0 /\ pr.lost \in Nat /\ 0 \in Nat
  BY <1>1, <1>3 DEF Program, ProgramInv, Located
<1>5. At(p, pr.newstdin).used
  <2>1. pr.newstdin \in Slots(pr)
    BY <1>1, <1>4 DEF Slots, OpenIn
  <2>2. QED
    BY <1>3, <2>1 DEF ProgramInv, InUse, At
<1>6. KeepsBut(p, d) /\ NoImageOpen' /\ OthersKept(p)
  BY <1>1, <1>4, FcloseKept
<1>7. /\ Closed(entry[p], open_files[p], Entries(p)', pr.newstdin)
      /\ List(p)' = open_files[p] /\ CopiesAnother(p)'
  BY <1>1, <1>4, <1>5, FcloseEffect
<1>8. KeepsEnough(p)
  BY <1>1, <1>6, ButEnough
<1>9. PICK pr2 \in Program : program' = [program EXCEPT ![p] = pr2] /\ GoesOn(pr2, pr, 7)
  <2>1. program' = Advance(p, 6)
    BY DEF CloseStdin
  <2>2. QED
    BY <1>1, <1>3, <2>1, AdvanceMoves
<1> HIDE DEF pr
<1>10. Becoming(pr2, pr, "reset_stdin", pr.newstdin, pr.newstdout, pr.fd, pr.lost)
  BY <1>4, <1>9 DEF GoesOn, StatementNext, Becoming
<1>11. pr2.name = pr.name /\ pr2.home = pr.home
  BY <1>10 DEF Becoming
<1>12. /\ ProgramInv(pr2, Entries(p)', open_files[p])
       /\ FilesOpen(pr2, Entries(p)', open_files[p], open_files_list', Kept')
  BY <1>1, <1>3, <1>4, <1>7, <1>10, ClosesStdin
<1>13. /\ ProgramInv(pr2, Entries(p)', List(p)')
       /\ FilesOpen(pr2, Entries(p)', List(p)', open_files_list', Kept')
  BY <1>7, <1>12
<1>14. QED
  BY <1>1, <1>2, <1>6, <1>7, <1>8, <1>9, <1>11, <1>13, ProgramMoves DEF pr

(* Before a command its standard output is set: the shell's caller keeps it.  *)
LEMMA SetStdoutKeeps ==
  ASSUME IInv, ShellInv, NEW p \in Procs, OthersIdle(p), SetStdout(p)
  PROVE  ShellInv'
<1> DEFINE pr == program[p]
           d == At(p, stdout).fd
<1>1. /\ OpenInv /\ NoImageOpen /\ dup2(p, pr.newstdout, stdout)
      /\ fclose(p, stdout, pr.newstdout)
      /\ pr.at = "set_stdout" /\ pr.name = "shell"
  BY DEF IInv, ShellInv, SetStdout, At_, dup2
<1>2. Begins(p)
  BY <1>1, ReadyBegins DEF fclose
<1>3. /\ ProgramInv(pr, entry[p], open_files[p]) /\ pr \in Program /\ p \in live
      /\ FilesOpen(pr, entry[p], open_files[p], open_files_list, Kept)
  BY <1>1, <1>2, BeginsRunning
<1>4. /\ pr.newstdout \in Nat /\ pr.newstdout # 0 /\ stdout \in Nat
      /\ pr.newstdout \notin {1, 2, 3, 4}
  BY <1>1, <1>3 DEF Program, ProgramInv, Located, stdin, stdout
<1>5. /\ InUse(entry[p], open_files[p], Slots(pr))
      /\ stdout \in Slots(pr) /\ pr.newstdout \in Slots(pr) /\ stdout # pr.newstdout
  BY <1>1, <1>3, <1>4, StreamSlots DEF ProgramInv, Slots, OpenIn, OpenOut, Before, stdin, stdout
<1>6. KeepsBut(p, d) /\ NoImageOpen' /\ OthersKept(p)
  BY <1>1, <1>4, FcloseKept
<1>7. /\ Copied(entry[p], open_files[p], Entries(p)', stdout, pr.newstdout)
      /\ List(p)' = open_files[p] /\ CopiesAnother(p)'
  BY <1>1, <1>4, <1>5, Dup2Effect
<1>8. UsedByOther(p, d)
  <2>1. d = pr.home[stdout]
    BY <1>1, <1>3 DEF ProgramInv, Streams, Before, At
  <2>2. parent[p] \in live /\ parent[p] # p /\ Uses(parent[p], pr.home[stdout])
    BY <1>1, <1>3, HomeOfCaller
  <2>3. QED
    BY <2>1, <2>2 DEF UsedByOther
<1>9. Kept \subseteq Kept' /\ KeepsEnough(p)
  BY <1>6, <1>8 DEF KeepsBut, KeepsEnough
<1>10. PICK pr2 \in Program : program' = [program EXCEPT ![p] = pr2] /\ GoesOn(pr2, pr, 2)
  <2>1. program' = Advance(p, 1)
    BY DEF SetStdout
  <2>2. QED
    BY <1>1, <1>3, <2>1, AdvanceMoves
<1>11. pr2.name = pr.name /\ pr2.home = pr.home
  BY <1>10 DEF GoesOn, Becoming
<1>a. Copied(entry[p], open_files[p], Entries(p)', 2, pr.newstdout)
  BY <1>7 DEF stdout
<1> HIDE DEF pr
<1>12. /\ ProgramInv(pr2, Entries(p)', open_files[p])
       /\ FilesOpen(pr2, Entries(p)', open_files[p], open_files_list', Kept')
  BY <1>1, <1>3, <1>9, <1>10, <1>a, SetsStdout
<1>13. /\ ProgramInv(pr2, Entries(p)', List(p)')
       /\ FilesOpen(pr2, Entries(p)', List(p)', open_files_list', Kept')
  BY <1>7, <1>12
<1>14. QED
  BY <1>1, <1>2, <1>6, <1>7, <1>9, <1>10, <1>11, <1>13, ProgramMoves DEF pr

(* And its standard input.                                                    *)
LEMMA SetStdinKeeps ==
  ASSUME IInv, ShellInv, NEW p \in Procs, OthersIdle(p), SetStdin(p)
  PROVE  ShellInv'
<1> DEFINE pr == program[p]
           d == At(p, stdin).fd
<1>1. /\ OpenInv /\ NoImageOpen /\ dup2(p, pr.newstdin, stdin)
      /\ fclose(p, stdin, pr.newstdin)
      /\ pr.at = "set_stdin" /\ pr.name = "shell"
  BY DEF IInv, ShellInv, SetStdin, At_, dup2
<1>2. Begins(p)
  BY <1>1, ReadyBegins DEF fclose
<1>3. /\ ProgramInv(pr, entry[p], open_files[p]) /\ pr \in Program /\ p \in live
      /\ FilesOpen(pr, entry[p], open_files[p], open_files_list, Kept)
  BY <1>1, <1>2, BeginsRunning
<1>4. /\ pr.newstdin \in Nat /\ pr.newstdin # 0 /\ stdin \in Nat
      /\ pr.newstdin \notin {1, 2, 3, 4}
  BY <1>1, <1>3 DEF Program, ProgramInv, Located, stdin, stdout
<1>5. /\ InUse(entry[p], open_files[p], Slots(pr))
      /\ stdin \in Slots(pr) /\ pr.newstdin \in Slots(pr) /\ stdin # pr.newstdin
  BY <1>1, <1>3, <1>4, StreamSlots DEF ProgramInv, Slots, OpenIn, OpenOut, Before, stdin, stdout
<1>6. KeepsBut(p, d) /\ NoImageOpen' /\ OthersKept(p)
  BY <1>1, <1>4, FcloseKept
<1>7. /\ Copied(entry[p], open_files[p], Entries(p)', stdin, pr.newstdin)
      /\ List(p)' = open_files[p] /\ CopiesAnother(p)'
  BY <1>1, <1>4, <1>5, Dup2Effect
<1>8. UsedByOther(p, d)
  <2>1. d = pr.home[stdin]
    BY <1>1, <1>3 DEF ProgramInv, Streams, Before, At
  <2>2. parent[p] \in live /\ parent[p] # p /\ Uses(parent[p], pr.home[stdin])
    BY <1>1, <1>3, HomeOfCaller
  <2>3. QED
    BY <2>1, <2>2 DEF UsedByOther
<1>9. Kept \subseteq Kept' /\ KeepsEnough(p)
  BY <1>6, <1>8 DEF KeepsBut, KeepsEnough
<1>10. PICK pr2 \in Program : program' = [program EXCEPT ![p] = pr2] /\ GoesOn(pr2, pr, 3)
  <2>1. program' = Advance(p, 2)
    BY DEF SetStdin
  <2>2. QED
    BY <1>1, <1>3, <2>1, AdvanceMoves
<1>11. pr2.name = pr.name /\ pr2.home = pr.home
  BY <1>10 DEF GoesOn, Becoming
<1>a. Copied(entry[p], open_files[p], Entries(p)', 1, pr.newstdin)
  BY <1>7 DEF stdin
<1> HIDE DEF pr
<1>12. /\ ProgramInv(pr2, Entries(p)', open_files[p])
       /\ FilesOpen(pr2, Entries(p)', open_files[p], open_files_list', Kept')
  BY <1>1, <1>3, <1>9, <1>10, <1>a, SetsStdin
<1>13. /\ ProgramInv(pr2, Entries(p)', List(p)')
       /\ FilesOpen(pr2, Entries(p)', List(p)', open_files_list', Kept')
  BY <1>7, <1>12
<1>14. QED
  BY <1>1, <1>2, <1>6, <1>7, <1>9, <1>10, <1>11, <1>13, ProgramMoves DEF pr

(* After it the shell's standard output is reset.                             *)
LEMMA ResetStdoutKeeps ==
  ASSUME IInv, ShellInv, NEW p \in Procs, OthersIdle(p), ResetStdout(p)
  PROVE  ShellInv'
<1> DEFINE pr == program[p]
           d == At(p, 2).fd
<1>1. /\ OpenInv /\ NoImageOpen /\ dup2(p, 4, 2) /\ fclose(p, 2, 4)
      /\ pr.at = "reset_stdout" /\ pr.name = "shell"
  BY DEF IInv, ShellInv, ResetStdout, At_, dup2, stdout, _stdout
<1>2. Begins(p)
  BY <1>1, ReadyBegins DEF fclose
<1>3. /\ ProgramInv(pr, entry[p], open_files[p]) /\ pr \in Program /\ p \in live
  BY <1>1, <1>2, BeginsRunning
<1>4. /\ InUse(entry[p], open_files[p], Slots(pr))
      /\ 2 \in Slots(pr) /\ 4 \in Slots(pr) /\ 2 # 4 /\ 2 \in Nat /\ 4 \in Nat
  BY <1>1, <1>3 DEF ProgramInv, Slots
<1>5. KeepsBut(p, d) /\ NoImageOpen' /\ OthersKept(p)
  BY <1>1, <1>4, FcloseKept
<1>6. /\ Copied(entry[p], open_files[p], Entries(p)', 2, 4)
      /\ List(p)' = open_files[p] /\ CopiesAnother(p)'
  BY <1>1, <1>4, Dup2Effect
<1>7. KeepsEnough(p)
  BY <1>1, <1>5, ButEnough
<1>8. PICK pr2 \in Program : program' = [program EXCEPT ![p] = pr2] /\ GoesOn(pr2, pr, 6)
  <2>1. program' = Advance(p, 5)
    BY DEF ResetStdout
  <2>2. QED
    BY <1>1, <1>3, <2>1, AdvanceMoves
<1>9. pr2.name = pr.name /\ pr2.home = pr.home
  BY <1>8 DEF GoesOn, Becoming
<1> HIDE DEF pr
<1>10. /\ ProgramInv(pr2, Entries(p)', open_files[p])
       /\ FilesOpen(pr2, Entries(p)', open_files[p], open_files_list', Kept')
  BY <1>1, <1>3, <1>6, <1>8, ResetsStdout
<1>11. /\ ProgramInv(pr2, Entries(p)', List(p)')
       /\ FilesOpen(pr2, Entries(p)', List(p)', open_files_list', Kept')
  BY <1>6, <1>10
<1>12. QED
  BY <1>1, <1>2, <1>5, <1>6, <1>7, <1>8, <1>9, <1>11, ProgramMoves DEF pr

(* And its standard input.                                                    *)
LEMMA ResetStdinKeeps ==
  ASSUME IInv, ShellInv, NEW p \in Procs, OthersIdle(p), ResetStdin(p)
  PROVE  ShellInv'
<1> DEFINE pr == program[p]
           d == At(p, 1).fd
<1>1. /\ OpenInv /\ NoImageOpen /\ dup2(p, 3, 1) /\ fclose(p, 1, 3)
      /\ pr.at = "reset_stdin" /\ pr.name = "shell"
  BY DEF IInv, ShellInv, ResetStdin, At_, dup2, stdin, _stdin
<1>2. Begins(p)
  BY <1>1, ReadyBegins DEF fclose
<1>3. /\ ProgramInv(pr, entry[p], open_files[p]) /\ pr \in Program /\ p \in live
  BY <1>1, <1>2, BeginsRunning
<1>4. /\ InUse(entry[p], open_files[p], Slots(pr))
      /\ 1 \in Slots(pr) /\ 3 \in Slots(pr) /\ 1 # 3 /\ 1 \in Nat /\ 3 \in Nat
  BY <1>1, <1>3 DEF ProgramInv, Slots
<1>5. KeepsBut(p, d) /\ NoImageOpen' /\ OthersKept(p)
  BY <1>1, <1>4, FcloseKept
<1>6. /\ Copied(entry[p], open_files[p], Entries(p)', 1, 3)
      /\ List(p)' = open_files[p] /\ CopiesAnother(p)'
  BY <1>1, <1>4, Dup2Effect
<1>7. KeepsEnough(p)
  BY <1>1, <1>5, ButEnough
<1>8. PICK pr2 \in Program : program' = [program EXCEPT ![p] = pr2] /\ GoesOn(pr2, pr, 8)
  <2>1. program' = Advance(p, 7)
    BY DEF ResetStdin
  <2>2. QED
    BY <1>1, <1>3, <2>1, AdvanceMoves
<1>9. pr2.name = pr.name /\ pr2.home = pr.home
  BY <1>8 DEF GoesOn, Becoming
<1> HIDE DEF pr
<1>10. /\ ProgramInv(pr2, Entries(p)', open_files[p])
       /\ FilesOpen(pr2, Entries(p)', open_files[p], open_files_list', Kept')
  BY <1>1, <1>3, <1>6, <1>8, ResetsStdin
<1>11. /\ ProgramInv(pr2, Entries(p)', List(p)')
       /\ FilesOpen(pr2, Entries(p)', List(p)', open_files_list', Kept')
  BY <1>6, <1>10
<1>12. QED
  BY <1>1, <1>2, <1>5, <1>6, <1>7, <1>8, <1>9, <1>11, ProgramMoves DEF pr

(* Parsing fails: nothing is called.                                          *)
LEMMA ParseFailsKeeps ==
  ASSUME IInv, ShellInv, NEW p \in Procs, OthersIdle(p), ParseFails(p)
  PROVE  ShellInv'
<1> DEFINE pr == program[p]
           lost2 == pr.lost + Cardinality({pr.newstdin, pr.newstdout} \ {0})
           pr2 == [pr EXCEPT !.at = "prompt", !.newstdin = 0, !.newstdout = 0, !.lost = lost2]
<1>1. OpenInv /\ Ready(p) /\ UNCHANGED vars /\ pr.at = "parse" /\ pr.name = "shell"
  BY DEF IInv, ParseFails, At_
<1>2. Begins(p)
  BY <1>1, ReadyBegins
<1>3. /\ ProgramInv(pr, entry[p], open_files[p]) /\ pr \in Program
      /\ program \in [Procs -> Program \cup {NoProgram}]
  BY <1>1, <1>2, BeginsRunning
<1>4. /\ OthersKept(p) /\ Entries(p)' = entry[p] /\ List(p)' = open_files[p]
      /\ KeepsEnough(p) /\ NoImageOpen' /\ CopiesAnother(p)'
  BY <1>1, <1>2, NothingCalled
<1>5. program' = [program EXCEPT ![p] = pr2]
  BY <1>3 DEF ParseFails
<1>6. pr.lost \in Nat /\ lost2 \in Nat
  <2>1. IsFiniteSet({pr.newstdin, pr.newstdout} \ {0})
    <3>1. IsFiniteSet({pr.newstdin} \cup {pr.newstdout})
      BY FS_Singleton, FS_Union
    <3>2. {pr.newstdin, pr.newstdout} \ {0} \subseteq {pr.newstdin} \cup {pr.newstdout}
      OBVIOUS
    <3>3. QED
      BY <3>1, <3>2, FS_Subset
  <2>2. Cardinality({pr.newstdin, pr.newstdout} \ {0}) \in Nat
    BY <2>1, FS_CardinalityType
  <2>3. QED
    BY <1>3, <2>2 DEF Program
<1>7. Becoming(pr2, pr, "prompt", 0, 0, pr.fd, lost2)
  <2> HIDE DEF lost2
  <2> QED BY <1>3 DEF Becoming, Program
<1>8. pr2 \in Program
  <2> HIDE DEF lost2
  <2> QED BY <1>3, <1>6 DEF Program
<1>9. pr2.name = pr.name /\ pr2.home = pr.home
  BY <1>7 DEF Becoming
<1> HIDE DEF pr, pr2
<1>10. /\ ProgramInv(pr2, entry[p], open_files[p])
       /\ FilesOpen(pr2, entry[p], open_files[p], open_files_list', Kept')
  BY <1>1, <1>3, <1>6, <1>7, ParsingFails
<1>11. /\ ProgramInv(pr2, Entries(p)', List(p)')
       /\ FilesOpen(pr2, Entries(p)', List(p)', open_files_list', Kept')
  BY <1>4, <1>10
<1>12. QED
  BY <1>1, <1>2, <1>4, <1>5, <1>8, <1>9, <1>11, ProgramMoves DEF pr

(* Everything is parsed.                                                      *)
LEMMA ParseEndsKeeps ==
  ASSUME IInv, ShellInv, NEW p \in Procs, OthersIdle(p), ParseEnds(p)
  PROVE  ShellInv'
<1> DEFINE pr == program[p]
           at == StatementFrom(p, 1)
<1>1. /\ OpenInv /\ Ready(p) /\ UNCHANGED vars /\ Goto(p, at)
      /\ pr.at \in {"prompt", "parse"} /\ pr.name = "shell"
  BY DEF IInv, ParseEnds, Parsing, At_
<1>2. Begins(p)
  BY <1>1, ReadyBegins
<1>3. /\ ProgramInv(pr, entry[p], open_files[p]) /\ p \in live
      /\ FilesOpen(pr, entry[p], open_files[p], open_files_list, Kept)
  BY <1>1, <1>2, BeginsRunning
<1>4. /\ OthersKept(p) /\ Entries(p)' = entry[p] /\ List(p)' = open_files[p]
      /\ KeepsAll /\ KeepsEnough(p) /\ NoImageOpen' /\ CopiesAnother(p)'
  BY <1>1, <1>2, NothingCalled
<1>5. StatementNext(pr, 1, at)
  BY StatementsFollow
<1>6. at \in Statement
  <2>1. PICK k \in 1 .. 8 : at = Statements[k]
    BY StatementFirst
  <2>2. k \in {1, 2, 3, 4, 5, 6, 7, 8}
    OBVIOUS
  <2>3. QED
    BY <2>1, <2>2, StatementsAre DEF Statement
<1> HIDE DEF at
<1>7. PICK pr2 : /\ Moves(p, pr2)
                 /\ Becoming(pr2, pr, at, pr.newstdin, pr.newstdout, pr.fd, pr.lost)
  BY <1>1, <1>3, <1>6, GotoMoves
<1>8. Kept \subseteq Kept'
  BY <1>4 DEF KeepsAll
<1>9. pr2.at = at
  BY <1>7 DEF Becoming
<1> HIDE DEF pr
<1>10. /\ ProgramInv(pr2, entry[p], open_files[p])
       /\ FilesOpen(pr2, entry[p], open_files[p], open_files_list', Kept')
  BY <1>1, <1>3, <1>5, <1>7, <1>8, <1>9, ParsingEnds
<1>11. /\ ProgramInv(pr2, Entries(p)', List(p)')
       /\ FilesOpen(pr2, Entries(p)', List(p)', open_files_list', Kept')
  BY <1>4, <1>10
<1>12. /\ pr2 \in Program /\ program' = [program EXCEPT ![p] = pr2]
       /\ pr2.name = program[p].name /\ pr2.home = program[p].home
  BY <1>7 DEF Moves, Becoming, pr
<1>13. QED
  BY <1>1, <1>2, <1>4, <1>11, <1>12, ProgramMoves

(* A shell copies its streams, first of all.                                  *)
LEMMA DupStdinKeeps ==
  ASSUME IInv, ShellInv, NEW p \in Procs, OthersIdle(p), DupStdin(p)
  PROVE  ShellInv'
<1> DEFINE pr == program[p]
<1>1. /\ OpenInv /\ NoImageOpen /\ dup(p, 1) /\ Goto(p, "dup_stdout") /\ pr.at = "dup_stdin"
  BY DEF IInv, ShellInv, DupStdin, At_, stdin
<1>2. Begins(p)
  BY <1>1, ReadyBegins DEF dup
<1>3. ProgramInv(pr, entry[p], open_files[p]) /\ p \in live
  BY <1>1, <1>2, BeginsRunning
<1>4. /\ DOMAIN open_files[p] = {1, 2} /\ \A w \in {1, 2} : At(p, w).used
  BY <1>1, <1>3 DEF ProgramInv, InUse, Counted, Located, Slots, At
<1>5. Len(open_files[p]) + 1 = 3
  <2>1. DOMAIN open_files[p] = 1 .. Len(open_files[p]) /\ Len(open_files[p]) \in Nat
    BY <1>1, ListTypes
  <2> DEFINE n == Len(open_files[p])
  <2> HIDE DEF n
  <2>2. 1 .. n = {1, 2} /\ n \in Nat
    BY <1>4, <2>1 DEF n
  <2>3. 2 \in 1 .. n /\ 3 \notin 1 .. n
    BY <2>2
  <2>4. QED
    BY <2>2, <2>3 DEF n
<1>6. /\ Opened(entry[p], open_files[p], Entries(p)', List(p)', 3, At(p, 1).fd)
      /\ DOMAIN List(p)' = DOMAIN open_files[p] \cup {3}
      /\ KeepsAll /\ NoImageOpen' /\ CopiesAnother(p)' /\ OthersKept(p)
  BY <1>1, <1>4, <1>5, DupEffect
<1>7. "dup_stdout" \in Statement
  BY DEF Statement
<1>8. PICK pr2 : /\ Moves(p, pr2)
                 /\ Becoming(pr2, pr, "dup_stdout", pr.newstdin, pr.newstdout, pr.fd, pr.lost)
  BY <1>1, <1>3, <1>7, GotoMoves
<1>9. Opened(entry[p], open_files[p], Entries(p)', List(p)', 3, entry[p][open_files[p][1]].fd)
  BY <1>6 DEF At
<1> HIDE DEF pr
<1>10. /\ ProgramInv(pr2, Entries(p)', List(p)')
       /\ FilesOpen(pr2, Entries(p)', List(p)', open_files_list', Kept')
  BY <1>1, <1>3, <1>6, <1>8, <1>9, DupsStdin
<1>11. /\ pr2 \in Program /\ program' = [program EXCEPT ![p] = pr2]
       /\ pr2.name = program[p].name /\ pr2.home = program[p].home
  BY <1>8 DEF Moves, Becoming, pr
<1>12. KeepsEnough(p)
  BY <1>6, AllEnough
<1>13. QED
  BY <1>1, <1>2, <1>6, <1>10, <1>11, <1>12, ProgramMoves

(* Its standard output too.                                                   *)
LEMMA DupStdoutKeeps ==
  ASSUME IInv, ShellInv, NEW p \in Procs, OthersIdle(p), DupStdout(p)
  PROVE  ShellInv'
<1> DEFINE pr == program[p]
<1>1. /\ OpenInv /\ NoImageOpen /\ dup(p, 2) /\ Goto(p, "prompt") /\ pr.at = "dup_stdout"
  BY DEF IInv, ShellInv, DupStdout, At_, stdout
<1>2. Begins(p)
  BY <1>1, ReadyBegins DEF dup
<1>3. ProgramInv(pr, entry[p], open_files[p]) /\ p \in live
  BY <1>1, <1>2, BeginsRunning
<1>4. /\ DOMAIN open_files[p] = {1, 2, 3} /\ \A w \in {1, 2, 3} : At(p, w).used
  BY <1>1, <1>3 DEF ProgramInv, InUse, Counted, Located, Slots, At
<1>5. Len(open_files[p]) + 1 = 4
  <2>1. DOMAIN open_files[p] = 1 .. Len(open_files[p]) /\ Len(open_files[p]) \in Nat
    BY <1>1, ListTypes
  <2> DEFINE n == Len(open_files[p])
  <2> HIDE DEF n
  <2>2. 1 .. n = {1, 2, 3} /\ n \in Nat
    BY <1>4, <2>1 DEF n
  <2>3. 3 \in 1 .. n /\ 4 \notin 1 .. n
    BY <2>2
  <2>4. QED
    BY <2>2, <2>3 DEF n
<1>6. /\ Opened(entry[p], open_files[p], Entries(p)', List(p)', 4, At(p, 2).fd)
      /\ KeepsAll /\ NoImageOpen' /\ CopiesAnother(p)' /\ OthersKept(p)
  BY <1>1, <1>4, <1>5, DupEffect
<1>7. "prompt" \in Statement
  BY DEF Statement
<1>8. PICK pr2 : /\ Moves(p, pr2)
                 /\ Becoming(pr2, pr, "prompt", pr.newstdin, pr.newstdout, pr.fd, pr.lost)
  BY <1>1, <1>3, <1>7, GotoMoves
<1>9. Opened(entry[p], open_files[p], Entries(p)', List(p)', 4, entry[p][open_files[p][2]].fd)
  BY <1>6 DEF At
<1> HIDE DEF pr
<1>10. /\ ProgramInv(pr2, Entries(p)', List(p)')
       /\ FilesOpen(pr2, Entries(p)', List(p)', open_files_list', Kept')
  BY <1>1, <1>3, <1>8, <1>9, DupsStdout
<1>11. /\ pr2 \in Program /\ program' = [program EXCEPT ![p] = pr2]
       /\ pr2.name = program[p].name /\ pr2.home = program[p].home
  BY <1>8 DEF Moves, Becoming, pr
<1>12. KeepsEnough(p)
  BY <1>6, AllEnough
<1>13. QED
  BY <1>1, <1>2, <1>6, <1>10, <1>11, <1>12, ProgramMoves

-----------------------------------------------------------------------------
(* Programs begin and end.                                                   *)

\* What a shell executes is given what has been asked for.
GivesAsked(pr, es, rs) ==
  \A v \in {stdin, stdout} :
    LET asked == IF v = stdin THEN pr.newstdin ELSE pr.newstdout
    IN  pr.name = "shell" =>
          es[rs[v]].fd = IF asked = 0 THEN pr.home[v] ELSE es[rs[asked]].fd

(* The image, which nobody has open, is opened and closed: nothing changes.   *)
LEMMA ImageClosed ==
  ASSUME OpenInv, NoImageOpen, open_files_list' = close(open(image), {DescriptorOf(image)}),
         call' = call
  PROVE  UsedDescriptors' = UsedDescriptors /\ KeepsAll /\ NoImageOpen'
<1> DEFINE d == DescriptorOf(image)
           lst == open_files_list
           lst1 == open(image)
           lst2 == open_files_list'
<1>1. image \in Files
  BY ProgramFilesAssumption
<1>2. /\ lst1 \in Seq(Descriptor) /\ DOMAIN lst1 = DOMAIN lst \cup {d}
      /\ \A e \in DOMAIN lst \ {d} :
           lst1[e] = lst[e] /\ (lst[e].used => lst[e].inode # image)
      /\ d \in UsedDescriptors => lst[d].inode = image
  BY <1>1, OpenFacts DEF OpenInv
<1>3. d \notin UsedDescriptors
  BY <1>2 DEF NoImageOpen
<1> HIDE DEF lst1, d
<1>4. /\ DOMAIN lst2 = DOMAIN lst1
      /\ \A e \in DOMAIN lst1 : /\ lst2[e].inode = lst1[e].inode
                                /\ lst2[e].used = (lst1[e].used /\ e \notin {d})
  BY <1>2, CloseFacts DEF lst1, d
<1>5. \A e : e \in UsedDescriptors' <=> e \in UsedDescriptors
  <2>1. SUFFICES ASSUME NEW e PROVE e \in UsedDescriptors' <=> e \in UsedDescriptors
    OBVIOUS
  <2>2. CASE e = d
    BY <1>2, <1>3, <1>4, <2>2 DEF UsedDescriptors
  <2>3. CASE e # d
    BY <1>2, <1>4, <2>3 DEF UsedDescriptors
  <2>4. QED
    BY <2>2, <2>3
<1>6. \A e \in UsedDescriptors : lst2[e].inode = lst[e].inode
  BY <1>2, <1>3, <1>4 DEF UsedDescriptors
<1>7. NoImageOpen'
  BY <1>5, <1>6 DEF NoImageOpen
<1>8. KeepsAll
  BY <1>5, <1>6 DEF KeepsAll, Kept, KeptIn, UsedDescriptors
<1>9. QED
  BY <1>5, <1>7, <1>8

(* A program is executed, and its caller goes on as pr2.                      *)
LEMMA ExecutingKeeps ==
  ASSUME IInv, ShellInv, NEW p \in Procs, OthersIdle(p), NEW c \in Procs,
         execute(p, c, image), NEW name \in {"shell", "command"},
         NEW pr2 \in Program, pr2.name = program[p].name, pr2.home = program[p].home,
         ProgramInv(pr2, entry[p], open_files[p]),
         FilesOpen(pr2, entry[p], open_files[p], open_files_list', Kept'),
         GivesAsked(pr2, entry[p], open_files[p]),
         At(p, stdin).fd \in Kept, At(p, stdout).fd \in Kept,
         NEW prs, prs = [program EXCEPT ![p] = pr2],
         program' = [prs EXCEPT ![c] = Begin(name, <<At(p, stdin).fd, At(p, stdout).fd>>)]
  PROVE  ShellInv'
<1> DEFINE home == <<At(p, stdin).fd, At(p, stdout).fd>>
           a == [used |-> TRUE, fd |-> At(p, 1).fd, offset |-> At(p, 1).offset]
           b == [used |-> TRUE, fd |-> At(p, 2).fd, offset |-> At(p, 2).offset]
           new == Begin(name, home)
<1>1. OpenInv /\ NoImageOpen /\ Ready(p) /\ Begins(p)
  BY ReadyBegins DEF IInv, ShellInv, execute
<1>2. /\ live' = live \cup {c} /\ parent' = [parent EXCEPT ![c] = p] /\ call' = call
      /\ entry' = [entry EXCEPT ![c] = <<a, b>>]
      /\ open_files' = [open_files EXCEPT ![c] = <<1, 2>>]
      /\ open_files_list' = close(open(image), {DescriptorOf(image)})
      /\ c \notin live
  BY DEF execute
<1>3. UsedDescriptors' = UsedDescriptors /\ KeepsAll /\ NoImageOpen'
  BY <1>1, <1>2, ImageClosed
<1>4. KeepsEnough(p) /\ Childless(p) /\ p \in live /\ call[p] = NoCall
  BY <1>1, <1>3, AllEnough, BeginsChildless DEF Begins
<1>5. /\ live \subseteq Procs /\ parent \in [Procs -> Procs \cup {NULL}]
      /\ DOMAIN entry = Procs /\ DOMAIN open_files = Procs
      /\ call[c] = NoCall
      /\ program \in [Procs -> Program \cup {NoProgram}]
      /\ \A q \in Procs : q \in live <=> program[q] # NoProgram
  BY <1>1, <1>2 DEF OpenInv, TypeOK, LiveLists, ShellInv, ProgramsTyped
<1>6. home \in Seq(Nat) /\ home[stdin] = a.fd /\ home[stdout] = b.fd
  <2>1. Len(open_files[p]) >= 2 /\ 1 \in DOMAIN open_files[p] /\ 2 \in DOMAIN open_files[p]
    BY <1>1, <1>4, ListTypes
  <2>2. At(p, 1) \in Entry /\ At(p, 2) \in Entry
    BY <1>1, <2>1, ListTypes
  <2>3. QED
    BY <2>2 DEF Entry, stdin, stdout
<1>7. /\ new.name = name /\ new.home = home /\ new \in Program /\ new # NoProgram
      /\ pr2 # NoProgram
  <2> HIDE DEF home
  <2>1. new.name = name /\ new.home = home
    BY DEF Begin
  <2>2. new \in Program
    BY <1>6 DEF Begin, Program
  <2>3. new.name # "none" /\ pr2.name # "none"
    BY <2>1 DEF Program
  <2>4. QED
    BY <2>1, <2>2, <2>3 DEF NoProgram
<1> HIDE DEF new
<1>8. /\ program'[c] = new /\ program'[p] = pr2 /\ p # c
      /\ \A q \in Procs \ {p, c} : program'[q] = program[q]
      /\ program' \in [Procs -> Program \cup {NoProgram}]
  <2>1. p # c
    BY <1>2, <1>4
  <2>2. prs \in [Procs -> Program \cup {NoProgram}]
    BY <1>5
  <2>3. program' = [prs EXCEPT ![c] = new]
    BY DEF new
  <2>4. QED
    BY <1>5, <1>7, <2>1, <2>2, <2>3
<1> HIDE DEF home, a, b
<1>9. /\ entry'[c] = <<a, b>> /\ open_files'[c] = <<1, 2>> /\ parent'[c] = p
      /\ \A q \in live : /\ entry'[q] = entry[q] /\ open_files'[q] = open_files[q]
                         /\ parent'[q] = parent[q] /\ q # c
  BY <1>2, <1>5
<1>10. \A q \in live \ {p} : program'[q] = program[q] /\ call[q] = NoCall /\ call'[q] = NoCall
  BY <1>2, <1>5, <1>8 DEF OthersIdle
<1>11. ProgramsTyped'
  <2>1. ASSUME NEW q \in Procs PROVE q \in live' <=> program'[q] # NoProgram
    <3>1. CASE q = c
      BY <1>2, <1>7, <1>8, <3>1
    <3>2. CASE q = p
      BY <1>2, <1>4, <1>7, <1>8, <3>2
    <3>3. CASE q \notin {p, c}
      BY <1>2, <1>5, <1>8, <3>3
    <3>4. QED
      BY <3>1, <3>2, <3>3
  <2>2. QED
    BY <1>8, <2>1 DEF ProgramsTyped
<1>12. RunsWell(c)'
  <2>1. Entries(c)' = <<a, b>> /\ List(c)' = <<1, 2>>
    BY <1>2, <1>5, <1>9, NoCallFacts DEF Entries, List, LaterEntries, LaterList
  <2>2. /\ ProgramInv(new, <<a, b>>, <<1, 2>>)
        /\ FilesOpen(new, <<a, b>>, <<1, 2>>, open_files_list', Kept')
    <3>1. a.used /\ b.used /\ a.fd = home[1] /\ b.fd = home[2]
      BY <1>6 DEF a, b, stdin, stdout
    <3>2. QED
      BY <3>1, ProgramBegins DEF new
  <2>3. QED
    BY <1>8, <2>1, <2>2 DEF RunsWell
<1>13. HomeOpen(c)'
  <2>1. a.fd \in Kept' /\ b.fd \in Kept'
    BY <1>3 DEF KeepsAll, a, b, stdin, stdout
  <2>2. QED
    BY <1>6, <1>7, <1>8, <2>1 DEF HomeOpen
<1>14. RunsWell(p)' /\ HomeOpen(p)'
  <2>1. Entries(p)' = entry[p] /\ List(p)' = open_files[p]
    BY <1>2, <1>4, <1>9, NoCallFacts DEF Entries, List, LaterEntries, LaterList
  <2>2. RunsWell(p)'
    BY <1>8, <2>1 DEF RunsWell
  <2>3. HomeOpen(p)'
    BY <1>4, <1>8, OwnHome
  <2>4. QED
    BY <2>2, <2>3
<1>15. ASSUME NEW q \in live \ {p} PROVE RunsWell(q)' /\ HomeOpen(q)'
  <2>1. RunsWell(q)'
    BY <1>4, <1>9, <1>10, OthersRun
  <2>2. program[q].name # "login" => parent[q] # p
    BY <1>4 DEF Childless
  <2>3. HomeOpen(q)'
    BY <1>4, <1>10, <2>2, OthersHome
  <2>4. QED
    BY <2>1, <2>3
<1>16. CallerKeeps(c)'
  <2>1. p \in live' /\ call'[p] = NoCall /\ parent'[c] = p
    BY <1>2, <1>4, <1>9
  <2>2. ASSUME NEW v \in {stdin, stdout}
        PROVE  /\ program'[c].home[v] = At(p, v).fd
               /\ pr2.name = "shell" => program'[c].home[v] =
                    IF Asked(p, v)' = 0 THEN pr2.home[v] ELSE At(p, Asked(p, v)').fd
    <3>1. program'[c].home[v] = At(p, v).fd
      BY <1>7, <1>8 DEF home, stdin, stdout
    <3>2. Asked(p, v)' = IF v = stdin THEN pr2.newstdin ELSE pr2.newstdout
      BY <1>8 DEF Asked
    <3>3. QED
      BY <3>1, <3>2 DEF GivesAsked, At
  <2>3. entry'[p] = entry[p] /\ open_files'[p] = open_files[p]
    BY <1>4, <1>9
  <2>4. ASSUME NEW v \in {stdin, stdout}
        PROVE  /\ program'[c].home[v] = At(p, v)'.fd
               /\ program'[p].name = "shell" => program'[c].home[v] =
                    IF Asked(p, v)' = 0 THEN program'[p].home[v]
                    ELSE At(p, Asked(p, v))'.fd
    BY <1>8, <2>2, <2>3 DEF At
  <2>5. QED
    BY <1>8, <2>1, <2>4 DEF CallerKeeps
<1>17. ASSUME NEW q \in live
       PROVE  IF program'[q].name = "login" THEN parent'[q] = NULL ELSE CallerKeeps(q)'
  <2>1. program'[q].name = program[q].name /\ program'[q].home = program[q].home
    BY <1>8, <1>10
  <2>2. CASE program[q].name = "login"
    BY <1>9, <2>1, <2>2 DEF ShellInv
  <2>3. CASE program[q].name # "login"
    <3>1. parent[q] \in live /\ parent[q] # p
      BY <1>4, <2>3 DEF ShellInv, CallerKeeps, Childless
    <3>2. CallerKeeps(q)'
      BY <1>2, <1>9, <1>10, <2>1, <2>3, <3>1, OthersCaller
    <3>3. QED
      BY <2>1, <2>3, <3>2
  <2>4. QED
    BY <2>2, <2>3
<1>18. \A q \in Procs : CopiesAnother(q)'
  <2>1. \A q \in Procs : call'[q] = NoCall
    BY <1>2, <1>4 DEF OthersIdle
  <2>2. QED
    BY <2>1, NoCallFacts DEF CopiesAnother
<1>19. \A q \in live' : RunsWell(q)' /\ HomeOpen(q)'
  BY <1>2, <1>12, <1>13, <1>14, <1>15
<1>20. \A q \in live' : IF program'[q].name = "login" THEN parent'[q] = NULL ELSE CallerKeeps(q)'
  BY <1>2, <1>7, <1>8, <1>16, <1>17
<1>21. QED
  BY <1>3, <1>11, <1>18, <1>19, <1>20 DEF ShellInv

(* The streams of a program that can execute another are open.                *)
LEMMA StreamsOpen ==
  ASSUME ShellInv, NEW p \in live, program[p].at = "execute",
         ProgramInv(program[p], entry[p], open_files[p]),
         FilesOpen(program[p], entry[p], open_files[p], open_files_list, Kept)
  PROVE  /\ At(p, stdin).fd \in Kept /\ At(p, stdout).fd \in Kept
         /\ GivesAsked(program[p], entry[p], open_files[p])
<1> DEFINE pr == program[p]
<1>1. pr.home[stdin] \in Kept /\ pr.home[stdout] \in Kept
  BY DEF ShellInv, HomeOpen
<1>2. /\ pr.newstdin # 0 => At(p, pr.newstdin).fd \in Kept
      /\ pr.newstdout # 0 => At(p, pr.newstdout).fd \in Kept
  BY DEF FilesOpen, Before, At
<1>3. /\ At(p, stdin).fd = IF pr.newstdin = 0 THEN pr.home[stdin] ELSE At(p, pr.newstdin).fd
      /\ At(p, stdout).fd = IF pr.newstdout = 0 THEN pr.home[stdout] ELSE At(p, pr.newstdout).fd
  BY DEF ProgramInv, Streams, At
<1>4. GivesAsked(pr, entry[p], open_files[p])
  BY <1>3 DEF GivesAsked, At, stdin, stdout
<1>5. QED
  BY <1>1, <1>2, <1>3, <1>4

(* login executes a shell, or begins again.                                   *)
LEMMA LoginKeeps ==
  ASSUME IInv, ShellInv, NEW p \in Procs, OthersIdle(p), Login(p)
  PROVE  ShellInv'
<1> DEFINE pr == program[p]
           pr2 == [pr EXCEPT !.at = "prompt"]
<1>1. OpenInv /\ Ready(p) /\ pr.at = "execute" /\ pr.name = "login"
  BY DEF IInv, Login, At_, execute
<1>2. Begins(p)
  BY <1>1, ReadyBegins
<1>3. /\ ProgramInv(pr, entry[p], open_files[p]) /\ pr \in Program /\ p \in live
      /\ FilesOpen(pr, entry[p], open_files[p], open_files_list, Kept)
      /\ program \in [Procs -> Program \cup {NoProgram}]
  BY <1>1, <1>2, BeginsRunning
<1>4. Becoming(pr2, pr, "prompt", pr.newstdin, pr.newstdout, pr.fd, pr.lost) /\ pr2 \in Program
  BY <1>3 DEF Becoming, Program
<1>5. pr2.name = pr.name /\ pr2.home = pr.home
  BY <1>4 DEF Becoming
<1>6. ASSUME NEW c \in Procs, execute(p, c, image),
             program' = [program EXCEPT ![p].at = "prompt",
               ![c] = Begin("shell", <<At(p, stdin).fd, At(p, stdout).fd>>)]
      PROVE  ShellInv'
  <2> DEFINE prs == [program EXCEPT ![p] = pr2]
  <2>1. prs = [program EXCEPT ![p].at = "prompt"]
    BY <1>3
  <2>2. program' = [prs EXCEPT ![c] = Begin("shell", <<At(p, stdin).fd, At(p, stdout).fd>>)]
    BY <1>6, <2>1
  <2> HIDE DEF pr2
  <2>3. GivesAsked(pr2, entry[p], open_files[p])
    BY <1>1, <1>5 DEF GivesAsked
  <2>4. At(p, stdin).fd \in Kept /\ At(p, stdout).fd \in Kept
    BY <1>1, <1>3, StreamsOpen
  <2> HIDE DEF pr
  <2>5. /\ ProgramInv(pr2, entry[p], open_files[p])
        /\ FilesOpen(pr2, entry[p], open_files[p], open_files_list', Kept')
    BY <1>1, <1>3, <1>4, LogsIn
  <2>6. prs = [program EXCEPT ![p] = pr2]
    OBVIOUS
  <2> HIDE DEF prs
  <2>7. execute(p, c, image) /\ "shell" \in {"shell", "command"}
    BY <1>6
  <2>8. QED
    BY <1>4, <1>5, <2>2, <2>3, <2>4, <2>5, <2>6, <2>7, ExecutingKeeps DEF pr
<1>7. ASSUME Goto(p, "prompt"), UNCHANGED vars
      PROVE  ShellInv'
  <2>1. program' = [program EXCEPT ![p] = pr2]
    BY <1>3, <1>7 DEF Goto
  <2>2. /\ OthersKept(p) /\ Entries(p)' = entry[p] /\ List(p)' = open_files[p]
        /\ KeepsEnough(p) /\ NoImageOpen' /\ CopiesAnother(p)'
    BY <1>1, <1>2, <1>7, NothingCalled
  <2> HIDE DEF pr, pr2
  <2>3. /\ ProgramInv(pr2, entry[p], open_files[p])
        /\ FilesOpen(pr2, entry[p], open_files[p], open_files_list', Kept')
    BY <1>1, <1>3, <1>4, LogsIn
  <2>4. /\ ProgramInv(pr2, Entries(p)', List(p)')
        /\ FilesOpen(pr2, Entries(p)', List(p)', open_files_list', Kept')
    BY <2>2, <2>3
  <2>5. QED
    BY <1>1, <1>2, <1>4, <1>5, <2>1, <2>2, <2>4, ProgramMoves DEF pr
<1>8. QED
  BY <1>6, <1>7 DEF Login

(* A shell executes a command, or cannot.                                     *)
LEMMA ShellExecuteKeeps ==
  ASSUME IInv, ShellInv, NEW p \in Procs, OthersIdle(p), Execute(p)
  PROVE  ShellInv'
<1> DEFINE pr == program[p]
           prs == Advance(p, 3)
<1>1. OpenInv /\ Ready(p) /\ pr.at = "execute" /\ pr.name = "shell"
  BY DEF IInv, Execute, At_, execute
<1>2. Begins(p)
  BY <1>1, ReadyBegins
<1>3. /\ ProgramInv(pr, entry[p], open_files[p]) /\ pr \in Program /\ p \in live
      /\ FilesOpen(pr, entry[p], open_files[p], open_files_list, Kept)
  BY <1>1, <1>2, BeginsRunning
<1> HIDE DEF prs
<1>4. PICK pr2 \in Program : prs = [program EXCEPT ![p] = pr2] /\ GoesOn(pr2, pr, 4)
  BY <1>1, <1>3, AdvanceMoves DEF prs
<1>5. /\ pr2.name = pr.name /\ pr2.home = pr.home
      /\ pr2.newstdin = pr.newstdin /\ pr2.newstdout = pr.newstdout
  BY <1>4 DEF GoesOn, StatementNext, Becoming
<1>6. ASSUME NEW c \in Procs, NEW name \in {"shell", "command"}, execute(p, c, image),
             program' = [prs EXCEPT
               ![c] = Begin(name, <<At(p, stdin).fd, At(p, stdout).fd>>)]
      PROVE  ShellInv'
  <2>1. /\ At(p, stdin).fd \in Kept /\ At(p, stdout).fd \in Kept
        /\ GivesAsked(pr, entry[p], open_files[p])
    BY <1>1, <1>3, StreamsOpen
  <2> HIDE DEF pr
  <2>2. GivesAsked(pr2, entry[p], open_files[p])
    BY <1>5, <2>1 DEF GivesAsked
  <2>3. /\ ProgramInv(pr2, entry[p], open_files[p])
        /\ FilesOpen(pr2, entry[p], open_files[p], open_files_list', Kept')
    BY <1>1, <1>3, <1>4, Executes
  <2>4. QED
    BY <1>4, <1>5, <1>6, <2>1, <2>2, <2>3, ExecutingKeeps DEF pr
<1>7. ASSUME program' = prs, UNCHANGED vars
      PROVE  ShellInv'
  <2>1. /\ OthersKept(p) /\ Entries(p)' = entry[p] /\ List(p)' = open_files[p]
        /\ KeepsEnough(p) /\ NoImageOpen' /\ CopiesAnother(p)'
    BY <1>1, <1>2, <1>7, NothingCalled
  <2> HIDE DEF pr
  <2>2. /\ ProgramInv(pr2, entry[p], open_files[p])
        /\ FilesOpen(pr2, entry[p], open_files[p], open_files_list', Kept')
    BY <1>1, <1>3, <1>4, Executes
  <2>3. /\ ProgramInv(pr2, Entries(p)', List(p)')
        /\ FilesOpen(pr2, Entries(p)', List(p)', open_files_list', Kept')
    BY <2>1, <2>2
  <2>4. QED
    BY <1>1, <1>2, <1>4, <1>5, <1>7, <2>1, <2>3, ProgramMoves DEF pr
<1>8. QED
  BY <1>6, <1>7 DEF Execute, prs

(* A shell or a command exits: what others have open stays.                   *)
LEMMA ShellExitKeeps ==
  ASSUME IInv, ShellInv, NEW p \in Procs, OthersIdle(p), Exit(p)
  PROVE  ShellInv'
<1>1. /\ OpenInv /\ NoImageOpen /\ Ready(p) /\ Begins(p) /\ exit(p)
      /\ program[p].name # "login" /\ program' = [program EXCEPT ![p] = NoProgram]
  BY ReadyBegins DEF IInv, ShellInv, Exit, At_, exit
<1>2. /\ live' = live \ {p} /\ parent' = [parent EXCEPT ![p] = NULL] /\ call' = call
      /\ entry' = [entry EXCEPT ![p] = <<>>]
      /\ open_files' = [open_files EXCEPT ![p] = <<>>]
      /\ open_files_list' = close(open_files_list, ClosedByExit(p))
  BY <1>1 DEF exit
<1>3. /\ live \subseteq Procs /\ parent \in [Procs -> Procs \cup {NULL}]
      /\ DOMAIN entry = Procs /\ DOMAIN open_files = Procs
      /\ program \in [Procs -> Program \cup {NoProgram}]
      /\ \A q \in Procs : q \in live <=> program[q] # NoProgram
      /\ p \in live /\ call[p] = NoCall
  BY <1>1 DEF OpenInv, TypeOK, ShellInv, ProgramsTyped, Begins
<1>4. /\ DOMAIN open_files_list' = DOMAIN open_files_list
      /\ \A d \in DOMAIN open_files_list :
           /\ open_files_list'[d].inode = open_files_list[d].inode
           /\ open_files_list'[d].used = (open_files_list[d].used /\ d \notin ClosedByExit(p))
  BY <1>1, <1>2, CloseFacts DEF OpenInv, TypeOK
<1>5. KeepsEnough(p)
  <2>1. SUFFICES ASSUME NEW d \in Kept, UsedByOther(p, d)
                 PROVE  d \in Kept' /\ open_files_list'[d].inode = open_files_list[d].inode
    BY <1>1 DEF KeepsEnough
  <2>2. d \in DOMAIN open_files_list /\ open_files_list[d].used /\ d \notin ClosedByExit(p)
    BY <2>1 DEF Kept, KeptIn, ClosedByExit
  <2>3. QED
    BY <1>2, <1>4, <2>2 DEF Kept, KeptIn
<1>6. Childless(p)
  BY <1>1, BeginsChildless
<1>7. NoImageOpen'
  BY <1>1, <1>4 DEF NoImageOpen, UsedDescriptors
<1>8. /\ \A q \in live \ {p} : /\ call[q] = NoCall /\ call'[q] = NoCall
                               /\ program'[q] = program[q] /\ entry'[q] = entry[q]
                               /\ open_files'[q] = open_files[q] /\ parent'[q] = parent[q]
  BY <1>1, <1>2, <1>3 DEF OthersIdle
<1>9. ProgramsTyped'
  BY <1>1, <1>2, <1>3 DEF ProgramsTyped
<1>10. ASSUME NEW q \in live \ {p} PROVE RunsWell(q)' /\ HomeOpen(q)'
  <2>1. RunsWell(q)'
    BY <1>5, <1>8, OthersRun
  <2>2. program[q].name # "login" => parent[q] # p
    BY <1>6 DEF Childless
  <2>3. HomeOpen(q)'
    BY <1>5, <1>8, <2>2, OthersHome
  <2>4. QED
    BY <2>1, <2>3
<1>11. ASSUME NEW q \in live \ {p}
       PROVE  IF program'[q].name = "login" THEN parent'[q] = NULL ELSE CallerKeeps(q)'
  <2>1. program'[q].name = program[q].name /\ program'[q].home = program[q].home
    BY <1>8
  <2>2. CASE program[q].name = "login"
    BY <1>8, <2>1, <2>2 DEF ShellInv
  <2>3. CASE program[q].name # "login"
    <3>1. parent[q] \in live \ {p}
      BY <1>6, <2>3 DEF ShellInv, CallerKeeps, Childless
    <3>2. CallerKeeps(q)'
      BY <1>2, <1>8, <2>1, <2>3, <3>1, OthersCaller
    <3>3. QED
      BY <2>1, <2>3, <3>2
  <2>4. QED
    BY <2>2, <2>3
<1>12. \A q \in Procs : CopiesAnother(q)'
  <2>1. \A q \in Procs : call'[q] = NoCall
    BY <1>2, <1>3 DEF OthersIdle
  <2>2. QED
    BY <2>1, NoCallFacts DEF CopiesAnother
<1>13. QED
  BY <1>2, <1>7, <1>9, <1>10, <1>11, <1>12 DEF ShellInv

-----------------------------------------------------------------------------
(* The theorems about programs.                                              *)

(* At the start every login has its terminal open, twice.                     *)
LEMMA ShellInvInit == ShellInit => ShellInv
<1> SUFFICES ASSUME ShellInit PROVE ShellInv
  OBVIOUS
<1>1. Init /\ OpenInv
  BY OpenInvInit DEF ShellInit
<1> DEFINE tty(p) == CHOOSE i \in 1 .. Len(Logins) : Logins[i] = p
           std(p) == [used |-> TRUE, fd |-> tty(p), offset |-> 0]
           home(p) == <<At(p, stdin).fd, At(p, stdout).fd>>
<1>2. Logins \in Seq(Procs) /\ Len(Logins) \in Nat /\ DOMAIN Logins = 1 .. Len(Logins)
  BY LoginsAssumption
<1>3. /\ live = ToSet(Logins) /\ live \subseteq Procs
      /\ parent = [p \in Procs |-> NULL] /\ call = [p \in Procs |-> NoCall]
      /\ open_files_list = [i \in 1 .. Len(Logins) |->
                              [inode |-> Tty(i), used |-> TRUE, offset |-> 0]]
  BY <1>1 DEF Init, OpenInv, TypeOK
<1>4. ASSUME NEW p \in live
      PROVE  /\ p \in Procs /\ entry[p] = <<std(p), std(p)>> /\ open_files[p] = <<1, 2>>
             /\ tty(p) \in 1 .. Len(Logins)
  <2>1. p \in Procs /\ entry[p] = <<std(p), std(p)>> /\ open_files[p] = <<1, 2>>
    BY <1>1, <1>3 DEF Init
  <2>2. \E i \in 1 .. Len(Logins) : Logins[i] = p
    BY <1>2, <1>3 DEF ToSet
  <2>3. tty(p) \in 1 .. Len(Logins)
    BY <2>2
  <2>4. QED
    BY <2>1, <2>3
<1>5. \A p \in Procs : call[p] = NoCall /\ call[p].step = "none"
  BY <1>3, NoCallFacts
<1>6. \A p \in live : std(p).used /\ std(p).fd = tty(p)
  OBVIOUS
<1> HIDE DEF std, tty
<1>7. \A p \in live : home(p) = <<tty(p), tty(p)>> /\ home(p) \in Seq(Nat)
  BY <1>4, <1>6 DEF At, stdin, stdout
<1>8. /\ program = [p \in Procs |-> IF p \in live THEN Begin("login", home(p)) ELSE NoProgram]
  BY DEF ShellInit
<1> HIDE DEF home
<1>9. \A p \in live : /\ program[p] = Begin("login", home(p)) /\ program[p].name = "login"
                      /\ program[p].home = home(p)
  BY <1>4, <1>8 DEF Begin
<1>10. ProgramsTyped
  <2>1. \A p \in live : Begin("login", home(p)) \in Program
    BY <1>7 DEF Begin, Program
  <2>2. \A p \in live : program[p] # NoProgram
    <3>1. \A p \in live : program[p].name # "none"
      BY <1>9
    <3>2. QED
      BY <3>1 DEF NoProgram
  <2>3. QED
    BY <1>3, <1>8, <2>1, <2>2 DEF ProgramsTyped
<1>11. NoImageOpen
  BY <1>2, <1>3, ProgramFilesAssumption, TerminalsAssumption DEF NoImageOpen, UsedDescriptors
<1>12. \A i \in 1 .. Len(Logins) : i \in Kept /\ open_files_list[i].inode \notin Files
  BY <1>2, <1>3, <1>5, TerminalsAssumption DEF Kept, KeptIn
<1>13. ASSUME NEW p \in live PROVE RunsWell(p) /\ HomeOpen(p)
  <2>1. Entries(p) = <<std(p), std(p)>> /\ List(p) = <<1, 2>>
    BY <1>4, <1>5, IdleLists
  <2>2. std(p).used /\ std(p).fd = home(p)[1] /\ std(p).fd = home(p)[2]
    BY <1>6, <1>7
  <2>3. /\ ProgramInv(Begin("login", home(p)), <<std(p), std(p)>>, <<1, 2>>)
        /\ FilesOpen(Begin("login", home(p)), <<std(p), std(p)>>, <<1, 2>>,
                     open_files_list, Kept)
    BY <2>2, ProgramBegins
  <2>4. RunsWell(p)
    BY <1>9, <2>1, <2>3 DEF RunsWell
  <2>5. HomeOpen(p)
    BY <1>4, <1>7, <1>9, <1>12 DEF HomeOpen, stdin, stdout
  <2>6. QED
    BY <2>4, <2>5
<1>14. \A p \in live : IF program[p].name = "login" THEN parent[p] = NULL ELSE CallerKeeps(p)
  BY <1>3, <1>4, <1>9
<1>15. \A p \in Procs : CopiesAnother(p)
  BY <1>5 DEF CopiesAnother
<1>16. QED
  BY <1>10, <1>11, <1>13, <1>14, <1>15 DEF ShellInv

\* What process p does in a step of ShellNext.
ShellStep(p) ==
  \/ \E f \in Files : OpenFile(p, f) \/ ParseIn(p, f) \/ ParseOut(p, f)
  \/ UseFile(p) \/ CloseFile(p) \/ Login(p) \/ DupStdin(p) \/ DupStdout(p)
  \/ ParseFails(p) \/ ParseEnds(p) \/ SetStdout(p) \/ SetStdin(p) \/ Execute(p)
  \/ CloseStdout(p) \/ ResetStdout(p) \/ CloseStdin(p) \/ ResetStdin(p)
  \/ UseStream(p) \/ Exit(p) \/ Continue(p)

(* Every step is one of some process.                                         *)
LEMMA NextIsShellStep == ShellNext => \E p \in Procs : ShellStep(p)
BY DEF ShellNext, ShellStep

(* Programs make the calls of module OpenFiles.                               *)
LEMMA ShellStepCalls ==
  ASSUME OpenInv, ShellInv, NEW p \in Procs, ShellStep(p)
  PROVE  Step(p) \/ (Ready(p) /\ UNCHANGED vars)
<1>1. /\ p \in live => /\ program[p].fd \in Nat /\ program[p].newstdin \in Nat
                       /\ program[p].newstdout \in Nat
      /\ stdin \in Nat /\ stdout \in Nat /\ _stdin \in Nat /\ _stdout \in Nat /\ 0 \in Nat
  BY LiveProgram DEF Program, stdin, stdout, _stdin, _stdout
<1>2. ASSUME NEW f \in Files, OpenFile(p, f) \/ ParseIn(p, f) \/ ParseOut(p, f)
      PROVE  Step(p)
  BY <1>2 DEF OpenFile, ParseIn, ParseOut, Step
<1>3. CASE UseFile(p)
  BY <1>1, <1>3 DEF UseFile, Step
<1>4. CASE CloseFile(p)
  BY <1>1, <1>4 DEF CloseFile, Step
<1>5. CASE Login(p)
  BY <1>5, ProgramFilesAssumption DEF Login, Step
<1>6. CASE DupStdin(p) \/ DupStdout(p)
  BY <1>1, <1>6 DEF DupStdin, DupStdout, Step
<1>7. CASE ParseFails(p) \/ ParseEnds(p)
  BY <1>7 DEF ParseFails, ParseEnds
<1>8. CASE SetStdout(p) \/ SetStdin(p)
  BY <1>1, <1>8 DEF SetStdout, SetStdin, At_, dup2, Step
<1>9. CASE Execute(p)
  BY <1>9, ProgramFilesAssumption DEF Execute, Step
<1>10. CASE CloseStdout(p) \/ CloseStdin(p)
  BY <1>1, <1>10 DEF CloseStdout, CloseStdin, At_, Step
<1>11. CASE ResetStdout(p) \/ ResetStdin(p)
  BY <1>1, <1>11 DEF ResetStdout, ResetStdin, dup2, Step
<1>12. CASE UseStream(p)
  BY <1>1, <1>12 DEF UseStream, Step
<1>13. CASE Exit(p)
  BY <1>13 DEF Exit, Step
<1>14. CASE Continue(p)
  BY <1>14 DEF Continue, Step
<1>15. QED
  BY <1>2, <1>3, <1>4, <1>5, <1>6, <1>7, <1>8, <1>9, <1>10, <1>11, <1>12, <1>13,
     <1>14 DEF ShellStep

(* Every step keeps what programs rely on.                                    *)
LEMMA ShellInvStep ==
  ASSUME OVERLAP = FALSE, IInv /\ ShellInv, [ShellNext]_svars
  PROVE  (IInv /\ ShellInv)'
<1>0. IInv /\ ShellInv /\ OpenInv /\ Solo
  BY DEF IInv
<1>1. CASE UNCHANGED svars
  <2>1. /\ UNCHANGED vars /\ live' = live /\ parent' = parent /\ program' = program
        /\ open_files_list' = open_files_list
        /\ entry' = entry /\ open_files' = open_files /\ call' = call
    BY <1>1 DEF svars, vars
  <2>2. IInv'
    BY <1>0, <2>1, IInvStutter
  <2>3. ShellInv'
    <3>1. /\ Kept' = Kept /\ \A p : Entries(p)' = Entries(p) /\ List(p)' = List(p)
      BY <2>1 DEF Kept, Entries, List
    <3>2. \A p : RunsWell(p) => RunsWell(p)'
      BY <2>1, <3>1 DEF RunsWell
    <3>3. \A p : HomeOpen(p) => HomeOpen(p)'
      BY <2>1, <3>1 DEF HomeOpen
    <3>4. \A p : CallerKeeps(p) => CallerKeeps(p)'
      BY <2>1 DEF CallerKeeps, Asked, At
    <3>5. \A p : CopiesAnother(p) => CopiesAnother(p)'
      BY <2>1 DEF CopiesAnother
    <3>6. (ProgramsTyped => ProgramsTyped') /\ (NoImageOpen => NoImageOpen')
      BY <2>1 DEF ProgramsTyped, NoImageOpen, UsedDescriptors
    <3>7. QED
      BY <1>0, <2>1, <3>2, <3>3, <3>4, <3>5, <3>6 DEF ShellInv
  <2>4. QED
    BY <2>2, <2>3
<1>2. ASSUME NEW p \in Procs, ShellStep(p) PROVE (IInv /\ ShellInv)'
  <2>1. Step(p) \/ (Ready(p) /\ UNCHANGED vars)
    BY <1>0, <1>2, ShellStepCalls
  <2>2. OthersIdle(p)
    <3>1. CASE Step(p)
      BY <1>0, <3>1, OnlyMover
    <3>2. CASE Ready(p)
      BY <1>0, <3>2 DEF Ready, OthersIdle, OpenInv, LiveLists
    <3>3. QED
      BY <2>1, <3>1, <3>2
  <2>3. IInv'
    BY <1>0, <2>1, IInvKept, IInvStutter
  <2>4. ShellInv'
    BY <1>0, <1>2, <2>2, OpenFileKeeps, ParseInKeeps, ParseOutKeeps, UseFileKeeps,
       CloseFileKeeps, LoginKeeps, DupStdinKeeps, DupStdoutKeeps, ParseFailsKeeps,
       ParseEndsKeeps, SetStdoutKeeps, SetStdinKeeps, ShellExecuteKeeps, CloseStdoutKeeps,
       ResetStdoutKeeps, CloseStdinKeeps, ResetStdinKeeps, UseStreamKeeps, ShellExitKeeps,
       ContinueKeeps DEF ShellStep
  <2>5. QED
    BY <2>3, <2>4
<1>3. QED
  BY <1>1, <1>2, NextIsShellStep

(* The invariants hold always.                                                *)
LEMMA ShellAlways ==
  ASSUME OVERLAP = FALSE
  PROVE  ShellSpec => [](IInv /\ ShellInv)
<1>1. ShellInit => IInv /\ ShellInv
  BY IInvInit, ShellInvInit DEF ShellInit
<1>2. (IInv /\ ShellInv) /\ [ShellNext]_svars => (IInv /\ ShellInv)'
  BY ShellInvStep
<1>3. QED
  BY <1>1, <1>2, PTL DEF ShellSpec

(* A shell at its prompt is where its streams are what it was started with.   *)
LEMMA AtPrompt ==
  ASSUME ShellInv, NEW p \in live, Prompts(p)
  PROVE  /\ ProgramInv(program[p], entry[p], open_files[p])
         /\ program[p].newstdin = 0 /\ program[p].newstdout = 0
         /\ program[p].name = "shell" /\ program[p].at = "prompt"
         /\ Slots(program[p]) = {1, 2, 3, 4}
<1>1. call[p] = NoCall /\ program[p].name = "shell" /\ program[p].at = "prompt"
  BY DEF Prompts, At_
<1>2. ProgramInv(program[p], entry[p], open_files[p])
  BY <1>1, IdleLists DEF ShellInv, RunsWell
<1>3. program[p].newstdin = 0 /\ program[p].newstdout = 0
  BY <1>1, <1>2 DEF ProgramInv, Located
<1>4. Slots(program[p]) = {1, 2, 3, 4}
  BY <1>1, <1>3 DEF Slots, OpenIn, OpenOut
<1>5. QED
  BY <1>1, <1>2, <1>3, <1>4

(* If calls do not overlap, a shell at its prompt reads and writes what it    *)
(* was started with, whatever commands it has executed with other streams     *)
(* and whatever other shells do.                                              *)
THEOREM StreamsReset ==
  ASSUME OVERLAP = FALSE
  PROVE  ShellSpec => []RedirectionUndone
<1>1. ASSUME ShellInv PROVE RedirectionUndone
  <2>1. SUFFICES ASSUME NEW p \in live, Prompts(p), NEW v \in {stdin, stdout}
                 PROVE  /\ At(p, v).used /\ At(p, v).fd = program[p].home[v]
                        /\ At(p, v).fd \in UsedDescriptors
    BY DEF RedirectionUndone
  <2>2. /\ ProgramInv(program[p], entry[p], open_files[p])
        /\ program[p].newstdin = 0 /\ program[p].newstdout = 0
    BY <1>1, <2>1, AtPrompt
  <2>3. At(p, v).used
    BY <2>2, StreamSlots DEF ProgramInv, InUse, At
  <2>4. At(p, v).fd = program[p].home[v]
    BY <2>2 DEF ProgramInv, Streams, At
  <2>5. program[p].home[v] \in Kept
    BY <1>1 DEF ShellInv, HomeOpen
  <2>6. QED
    BY <2>3, <2>4, <2>5 DEF Kept, KeptIn, UsedDescriptors
<1>2. IInv /\ ShellInv => RedirectionUndone
  BY <1>1
<1>3. ShellSpec => [](IInv /\ ShellInv)
  BY ShellAlways
<1>4. QED
  BY <1>2, <1>3, PTL

(* If calls do not overlap, a command reads the file after < and writes the   *)
(* one after >, or does with them what its shell does, and both stay open     *)
(* while it runs.                                                             *)
THEOREM CommandsGetStreams ==
  ASSUME OVERLAP = FALSE
  PROVE  ShellSpec => []CommandsRedirected
<1>1. ASSUME IInv, ShellInv PROVE CommandsRedirected
  <2>1. SUFFICES ASSUME NEW p \in live, NEW c \in live, parent[c] = p,
                        program[p].name = "shell", NEW v \in {stdin, stdout}
                 PROVE  /\ program[c].home[v] =
                             IF Asked(p, v) = 0 THEN program[p].home[v]
                             ELSE At(p, Asked(p, v)).fd
                        /\ program[c].home[v] \in UsedDescriptors
    BY DEF CommandsRedirected, Asked
  <2>2. program[c].name # "login"
    <3>1. p \in Procs
      BY <1>1 DEF IInv, OpenInv, TypeOK
    <3>2. QED
      BY <1>1, <2>1, <3>1, NULLAssumption DEF ShellInv
  <2>3. CallerKeeps(c) /\ HomeOpen(c)
    BY <1>1, <2>2 DEF ShellInv
  <2>4. program[c].home[v] = IF Asked(p, v) = 0 THEN program[p].home[v]
                             ELSE At(p, Asked(p, v)).fd
    BY <2>1, <2>3 DEF CallerKeeps
  <2>5. program[c].home[v] \in UsedDescriptors
    BY <2>3 DEF HomeOpen, Kept, KeptIn, UsedDescriptors
  <2>6. QED
    BY <2>4, <2>5
<1>2. IInv /\ ShellInv => CommandsRedirected
  BY <1>1
<1>3. ShellSpec => [](IInv /\ ShellInv)
  BY ShellAlways
<1>4. QED
  BY <1>2, <1>3, PTL

(* If calls do not overlap, a shell has nothing open at its prompt but its    *)
(* streams and their copies, and what commands with an error or with two < or *)
(* > have left.                                                               *)
THEOREM LeakCounted ==
  ASSUME OVERLAP = FALSE
  PROVE  ShellSpec => []OnlyErrorsLeak
<1>1. ASSUME ShellInv PROVE OnlyErrorsLeak
  <2>1. SUFFICES ASSUME NEW p \in live, Prompts(p)
                 PROVE  Cardinality(UsedEntries(entry[p])) = 4 + program[p].lost
    BY DEF OnlyErrorsLeak, UsedEntries
  <2>2. /\ Cardinality(UsedEntries(entry[p])) =
             Cardinality(Slots(program[p])) + program[p].lost
        /\ Slots(program[p]) = {1, 2, 3, 4}
    BY <1>1, <2>1, AtPrompt DEF ProgramInv, Counted
  <2>3. Cardinality({1, 2, 3, 4}) = 4
    <3>1. IsFiniteSet({}) /\ Cardinality({}) = 0
      BY FS_EmptySet
    <3>2. IsFiniteSet({1}) /\ Cardinality({1}) = 1
      BY FS_Singleton
    <3>3. IsFiniteSet({1} \cup {2}) /\ Cardinality({1} \cup {2}) = 2
      BY <3>2, FS_AddElement
    <3>4. IsFiniteSet(({1} \cup {2}) \cup {3}) /\ Cardinality(({1} \cup {2}) \cup {3}) = 3
      BY <3>3, FS_AddElement
    <3>5. Cardinality((({1} \cup {2}) \cup {3}) \cup {4}) = 4
      BY <3>4, FS_AddElement
    <3>6. (({1} \cup {2}) \cup {3}) \cup {4} = {1, 2, 3, 4}
      OBVIOUS
    <3>7. QED
      BY <3>5, <3>6
  <2>4. QED
    BY <2>2, <2>3
<1>2. IInv /\ ShellInv => OnlyErrorsLeak
  BY <1>1
<1>3. ShellSpec => [](IInv /\ ShellInv)
  BY ShellAlways
<1>4. QED
  BY <1>2, <1>3, PTL

=============================================================================
