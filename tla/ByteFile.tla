------------------------------ MODULE ByteFile ------------------------------
(***************************************************************************)
(* What fopen, fread, fwrite and fclose promise a program: a file is a     *)
(* sequence of bytes that only grows, each process reads and writes it at  *)
(* an offset of its own, and a power failure can leave only the write that *)
(* was going on half done.                                                 *)
(***************************************************************************)
EXTENDS Naturals, Sequences

CONSTANTS
  Procs, Files, Bytes,
  NULL,
  Data,         \* what is written
  Counts        \* how many bytes are asked for

VARIABLES
  content,      \* the bytes of each file
  offset,       \* where a process is in a file it has open
  returned      \* how much the last call asked for and what it has read

vars == <<content, offset, returned>>

\* The bytes c with d written over them from offset o on; o <= Len(c).
Overwrite(c, o, d) ==
  [i \in 1 .. (IF o + Len(d) > Len(c) THEN o + Len(d) ELSE Len(c)) |->
     IF i \in o + 1 .. o + Len(d) THEN d[i - o] ELSE c[i]]

\* At most n bytes of c from offset o on.
Part(c, o, n) == SubSeq(c, o + 1, IF o + n < Len(c) THEN o + n ELSE Len(c))

\* c may be left of old when writing d at offset o fails halfway: it has one
\* of the two lengths, and of the old bytes only those written over differ.
HalfWritten(old, o, d, c) ==
  LET new == Overwrite(old, o, d)
  IN  /\ Len(c) \in {Len(old), Len(new)}
      /\ \A i \in DOMAIN old : c[i] \in {old[i], new[i]}

-----------------------------------------------------------------------------

Init ==
  /\ content \in [Files -> Seq(Bytes)]
  /\ offset = [p \in Procs |-> [f \in Files |-> NULL]]
  /\ returned = NULL

Open(p, f) ==
  /\ offset[p][f] = NULL
  /\ offset' = [offset EXCEPT ![p][f] = 0]
  /\ returned' = NULL
  /\ UNCHANGED content

Close(p, f) ==
  /\ offset[p][f] # NULL
  /\ offset' = [offset EXCEPT ![p][f] = NULL]
  /\ returned' = NULL
  /\ UNCHANGED content

Read(p, f) ==
  /\ offset[p][f] # NULL
  /\ \E n \in Counts :
       LET bytes == Part(content[f], offset[p][f], n)
       IN  /\ returned' = <<n, bytes>>
           /\ offset' = [offset EXCEPT ![p][f] = @ + Len(bytes)]
  /\ UNCHANGED content

Write(p, f) ==
  /\ offset[p][f] # NULL
  /\ \E d \in Data :
       /\ content' = [content EXCEPT ![f] = Overwrite(@, offset[p][f], d)]
       /\ offset' = [offset EXCEPT ![p][f] = @ + Len(d)]
  /\ returned' = NULL

PowerFailure ==
  /\ offset' = [p \in Procs |-> [f \in Files |-> NULL]]
  /\ returned' = NULL
  /\ \/ UNCHANGED content
     \/ \E p \in Procs, f \in Files, d \in Data :
          /\ offset[p][f] # NULL
          /\ \A g \in Files \ {f} : content'[g] = content[g]
          /\ HalfWritten(content[f], offset[p][f], d, content'[f])

\* The program has made use of what it has read.
Use ==
  /\ returned' = NULL
  /\ UNCHANGED <<content, offset>>

Next ==
  \/ \E p \in Procs, f \in Files : Open(p, f) \/ Close(p, f) \/ Read(p, f) \/ Write(p, f)
  \/ Use
  \/ PowerFailure

Spec == Init /\ [][Next]_vars

=============================================================================
