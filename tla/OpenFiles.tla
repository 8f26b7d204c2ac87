----------------------------- MODULE OpenFiles -----------------------------
(***************************************************************************)
(* The open files of processes: fopen to dup2 of kernel/process.c over     *)
(* open, close, seek and execute of kernel/filesystem.c.                   *)
(*                                                                         *)
(* The file system has one list of descriptors, open_files_list; a file    *)
(* that is open has one descriptor, whoever opens it.  A process has a     *)
(* list of entries, each naming a descriptor by its index and keeping an   *)
(* offset of its own.  fopen puts the same entry into the list twice, so   *)
(* lists hold references: open_files[p] numbers entries of entry[p].       *)
(*                                                                         *)
(* open, close and execute run between cli() and sti(), the rest does not: *)
(* a call of process.c is a sequence of steps, and other processes' steps  *)
(* can come in between.  In the model call[p] says what is left to do.     *)
(* The scan of the other processes' entries in fclose is one step.         *)
(* Permissions and the modes "r", "w", "r+" are left out.                  *)
(***************************************************************************)
EXTENDS Integers, SequencesExt, FiniteSets

CONSTANTS
  Procs,        \* processes
  Logins,       \* the login processes, each with a terminal of its own
  Files,        \* regular files
  NULL,
  OVERLAP,      \* may calls of different processes overlap?
  Garbage,      \* what malloc may leave in a new entry; bound: for each process
  MAX_ENTRIES,  \* bound: length of the list of each process
  MAX_OFFSET    \* bound: how far each process reads

ASSUME LoginsAssumption == Logins \in Seq(Procs) /\ IsInjective(Logins)
ASSUME NULLAssumption == NULL \notin Procs
ASSUME SwitchAssumption == OVERLAP \in BOOLEAN
ASSUME GarbageAssumption ==
  Garbage \in [Procs -> SUBSET [used : BOOLEAN, fd : Nat, offset : Nat]]
ASSUME BoundsAssumption == MAX_ENTRIES \in [Procs -> Nat] /\ MAX_OFFSET \in [Procs -> Nat]

VARIABLES
  live,             \* the processes that have not exited
  parent,           \* who executed a process, and waits for it
  open_files_list,  \* the descriptors of the file system
  entry,            \* the open_file structures of each process
  open_files,       \* the list of each process, of references to them
  call              \* what is left of the call each process is in

vars == <<live, parent, open_files_list, entry, open_files, call>>

-----------------------------------------------------------------------------
(* Types and lookups. *)

Tty(i) == <<"tty", i>>

Inodes == Files \cup {Tty(i) : i \in 1 .. Len(Logins)}

Descriptor == [inode : Inodes, used : BOOLEAN, offset : Nat]

\* No descriptor has index 0 here; what is in a new entry may name none.
Entry == [used : BOOLEAN, fd : Nat, offset : Nat]

NoCall == [step |-> "none", fd |-> 0, ref |-> 0, from |-> 0]

Call == [step : {"none", "register", "transfer", "close", "unuse", "copy"},
         fd : Nat, ref : Nat, from : Nat]

TypeOK ==
  /\ live \subseteq Procs
  /\ parent \in [Procs -> Procs \cup {NULL}]
  /\ open_files_list \in Seq(Descriptor)
  /\ entry \in [Procs -> Seq(Entry)]
  /\ open_files \in [Procs -> Seq(Nat)]
  /\ \A p \in Procs : \A v \in DOMAIN open_files[p] :
       open_files[p][v] \in DOMAIN entry[p]
  /\ call \in [Procs -> Call]

\* The entry of p at position v of its list.
At(p, v) == entry[p][open_files[p][v]]

\* A process has descriptor d open.
Uses(p, d) == \E v \in DOMAIN open_files[p] : At(p, v).used /\ At(p, v).fd = d

UsedByOther(p, d) == \E q \in live \ {p} : Uses(q, d)

Waits(p) == \E c \in live : parent[c] = p

\* A process can begin a call.
Ready(p) ==
  /\ p \in live
  /\ ~Waits(p)
  /\ call[p] = NoCall
  /\ OVERLAP \/ \A q \in live : call[q] = NoCall

-----------------------------------------------------------------------------
(* The file system. *)

\* Mutant: files that are open already are not looked for.
DescriptorOf_AlwaysNew(f) ==
  LET free == {d \in DOMAIN open_files_list : ~open_files_list[d].used}
  IN  IF free # {} THEN Min(free) ELSE Len(open_files_list) + 1

\* The descriptor open() gives for a file: the one that is in use for it,
\* else the first that is not in use, else a new one.
DescriptorOf(f) ==
  LET same == {d \in DOMAIN open_files_list :
                 open_files_list[d].inode = f /\ open_files_list[d].used}
      free == {d \in DOMAIN open_files_list : ~open_files_list[d].used}
  IN  IF same # {} THEN Min(same)
      ELSE IF free # {} THEN Min(free)
      ELSE Len(open_files_list) + 1

\* The descriptors after open() of file f.
open(f) ==
  LET d == DescriptorOf(f)
      new == [inode |-> f, used |-> TRUE, offset |-> 0]
  IN  IF d > Len(open_files_list) THEN Append(open_files_list, new)
      ELSE IF open_files_list[d].used THEN open_files_list
      ELSE [open_files_list EXCEPT ![d] = new]

\* The list lst after close() of each descriptor in S.
close(lst, S) ==
  [d \in DOMAIN lst |-> IF d \in S THEN [lst[d] EXCEPT !.used = FALSE] ELSE lst[d]]

-----------------------------------------------------------------------------
(* fopen. *)

\* The first position of the list of p whose entry is not used, 0 if there is
\* none.
FirstUnused(p) == SelectInSeq(open_files[p], LAMBDA r : ~entry[p][r].used)

fopen(p, f) ==
  /\ Ready(p)
  /\ Len(open_files[p]) + (IF FirstUnused(p) = 0 THEN 2 ELSE 1) <= MAX_ENTRIES[p]
  /\ open_files_list' = open(f)
  /\ call' = [call EXCEPT ![p] = [NoCall EXCEPT !.step = "register",
                                                !.fd = DescriptorOf(f)]]
  /\ UNCHANGED <<live, parent, entry, open_files>>

\* The entry is filled in, and appended once more.
Register(p) ==
  LET new == [used |-> TRUE, fd |-> call[p].fd, offset |-> 0]
      v == FirstUnused(p)
      last == Len(entry[p]) + 1
  IN  /\ call[p].step = "register"
      /\ IF v = 0
           THEN /\ entry' = [entry EXCEPT ![p] = Append(@, new)]
                /\ open_files' = [open_files EXCEPT ![p] = @ \o <<last, last>>]
           ELSE /\ entry' = [entry EXCEPT ![p][open_files[p][v]] = new]
                /\ open_files' = [open_files EXCEPT ![p] =
                                    Append(@, open_files[p][v])]
      /\ call' = [call EXCEPT ![p] = NoCall]
      /\ UNCHANGED <<live, parent, open_files_list>>

-----------------------------------------------------------------------------
(* fread and fwrite: seek, then transfer. *)

\* A terminal has no seek method.
seek(lst, d, offset) ==
  IF d \in DOMAIN lst /\ lst[d].inode \in Files
    THEN [lst EXCEPT ![d].offset = offset] ELSE lst

Seek(p, v) ==
  /\ Ready(p)
  /\ v \in DOMAIN open_files[p]
  /\ open_files_list' = seek(open_files_list, At(p, v).fd, At(p, v).offset)
  /\ call' = [call EXCEPT ![p] = [NoCall EXCEPT !.step = "transfer",
                                                !.ref = open_files[p][v]]]
  /\ UNCHANGED <<live, parent, entry, open_files>>

\* n bytes are read or written at the descriptor's offset.  What is read from a
\* terminal has no offset; the one fread counts for it is never used.
Transfer(p, n) ==
  LET r == call[p].ref
      d == entry[p][r].fd
      regular == d \in DOMAIN open_files_list /\ open_files_list[d].inode \in Files
  IN  /\ call[p].step = "transfer"
      /\ n = 0 \/ (regular /\ entry[p][r].offset + n <= MAX_OFFSET[p])
      /\ open_files_list' = IF regular
                              THEN [open_files_list EXCEPT ![d].offset = @ + n]
                              ELSE open_files_list
      /\ entry' = [entry EXCEPT ![p][r].offset = @ + n]
      /\ call' = [call EXCEPT ![p] = NoCall]
      /\ UNCHANGED <<live, parent, open_files>>

-----------------------------------------------------------------------------
(* fclose, dup and dup2. *)

\* Mutant: the other processes' entries are not looked at.
KeepOpen_Never(p, d) == FALSE

\* fclose leaves the descriptor open for the other processes.
KeepOpen(p, d) == UsedByOther(p, d)

\* fclose of the entry at v decides whether to close the descriptor; dup2
\* goes on with the entry at from.
fclose(p, v, from) ==
  /\ Ready(p)
  /\ v \in DOMAIN open_files[p]
  /\ call' = [call EXCEPT ![p] =
                [step |-> IF KeepOpen(p, At(p, v).fd) THEN "unuse" ELSE "close",
                 fd |-> At(p, v).fd, ref |-> open_files[p][v], from |-> from]]
  /\ UNCHANGED <<live, parent, open_files_list, entry, open_files>>

Close(p) ==
  /\ call[p].step = "close"
  /\ open_files_list' = close(open_files_list, {call[p].fd})
  /\ call' = [call EXCEPT ![p].step = "unuse"]
  /\ UNCHANGED <<live, parent, entry, open_files>>

Unuse(p) ==
  /\ call[p].step = "unuse"
  /\ entry' = [entry EXCEPT ![p][call[p].ref].used = FALSE]
  /\ call' = [call EXCEPT ![p] = IF @.from = 0 THEN NoCall
                                 ELSE [@ EXCEPT !.step = "copy"]]
  /\ UNCHANGED <<live, parent, open_files_list, open_files>>

\* The end of dup2: nothing is copied from an entry that does not exist.
Copy(p) ==
  /\ call[p].step = "copy"
  /\ entry' = IF call[p].from \in DOMAIN open_files[p]
                THEN [entry EXCEPT ![p][call[p].ref] = At(p, call[p].from)]
                ELSE entry
  /\ call' = [call EXCEPT ![p] = NoCall]
  /\ UNCHANGED <<live, parent, open_files_list, open_files>>

dup2(p, oldfd, newfd) == fclose(p, newfd, oldfd)

\* dup puts a copy of the entry at v into the first unused one or a new one.
dup(p, v) ==
  LET u == FirstUnused(p)
  IN  /\ Ready(p)
      /\ v \in DOMAIN open_files[p]
      /\ IF u = 0
           THEN /\ Len(open_files[p]) + 1 <= MAX_ENTRIES[p]
                /\ entry' = [entry EXCEPT ![p] = Append(@, At(p, v))]
                /\ open_files' = [open_files EXCEPT ![p] =
                                    Append(@, Len(entry[p]) + 1)]
           ELSE /\ entry' = [entry EXCEPT ![p][open_files[p][u]] = At(p, v)]
                /\ UNCHANGED open_files
      /\ UNCHANGED <<live, parent, open_files_list, call>>

\* dup of an entry that does not exist appends a new entry, when no other is
\* unused, before it looks: what malloc returned stays in it.
DupMissing(p, garbage) ==
  /\ Ready(p)
  /\ FirstUnused(p) = 0
  /\ Len(open_files[p]) + 1 <= MAX_ENTRIES[p]
  /\ entry' = [entry EXCEPT ![p] = Append(@, garbage)]
  /\ open_files' = [open_files EXCEPT ![p] = Append(@, Len(entry[p]) + 1)]
  /\ UNCHANGED <<live, parent, open_files_list, call>>

-----------------------------------------------------------------------------
(* execute and exit. *)

\* The image is opened, loaded and closed; the new process starts with the
\* first two entries of its parent.
execute(p, c, f) ==
  LET inherit(v) == [used |-> TRUE, fd |-> At(p, v).fd, offset |-> At(p, v).offset]
  IN  /\ Ready(p)
      /\ c \in Procs \ live
      /\ live' = live \cup {c}
      /\ parent' = [parent EXCEPT ![c] = p]
      /\ open_files_list' = close(open(f), {DescriptorOf(f)})
      /\ entry' = [entry EXCEPT ![c] = <<inherit(1), inherit(2)>>]
      /\ open_files' = [open_files EXCEPT ![c] = <<1, 2>>]
      /\ UNCHANGED call

\* Mutant: nothing is closed.
ClosedByExit_Nothing(p) == {}

\* fclose of every used entry, one after the other.
ClosedByExit(p) ==
  {d \in DOMAIN open_files_list : Uses(p, d) /\ ~UsedByOther(p, d)}

exit(p) ==
  /\ Ready(p)
  /\ live' = live \ {p}
  /\ parent' = [parent EXCEPT ![p] = NULL]
  /\ open_files_list' = close(open_files_list, ClosedByExit(p))
  /\ entry' = [entry EXCEPT ![p] = <<>>]
  /\ open_files' = [open_files EXCEPT ![p] = <<>>]
  /\ UNCHANGED call

-----------------------------------------------------------------------------
(* After init(): every login process reads and writes its terminal, through  *)
(* one descriptor.                                                           *)

Init ==
  LET tty(p) == CHOOSE i \in 1 .. Len(Logins) : Logins[i] = p
      std(p) == [used |-> TRUE, fd |-> tty(p), offset |-> 0]
  IN  /\ live = ToSet(Logins)
      /\ parent = [p \in Procs |-> NULL]
      /\ open_files_list = [i \in 1 .. Len(Logins) |->
                              [inode |-> Tty(i), used |-> TRUE, offset |-> 0]]
      /\ entry = [p \in Procs |-> IF p \in live THEN <<std(p), std(p)>> ELSE <<>>]
      /\ open_files = [p \in Procs |-> IF p \in live THEN <<1, 2>> ELSE <<>>]
      /\ call = [p \in Procs |-> NoCall]

Positions == 1 .. Max({MAX_ENTRIES[p] : p \in Procs})

Next ==
  \E p \in Procs :
    \/ \E f \in Files : fopen(p, f)
    \/ Register(p)
    \/ \E v \in Positions : Seek(p, v)
    \/ \E n \in 0 .. 1 : Transfer(p, n)
    \/ \E v \in Positions : fclose(p, v, 0)
    \/ \E v, w \in Positions : dup2(p, v, w)
    \/ Close(p)
    \/ Unuse(p)
    \/ Copy(p)
    \/ \E v \in Positions : dup(p, v)
    \/ \E g \in Garbage[p] : DupMissing(p, g)
    \/ \E c \in Procs, f \in Files : execute(p, c, f)
    \/ exit(p)

Spec == Init /\ [][Next]_vars

-----------------------------------------------------------------------------
(* Properties. *)

UsedDescriptors == {d \in DOMAIN open_files_list : open_files_list[d].used}

\* However calls overlap, a file never has two descriptors: what one process
\* writes to it another one sees, because they share the cached blocks.
OneDescriptorPerFile ==
  \A d, e \in UsedDescriptors :
    open_files_list[d].inode = open_files_list[e].inode => d = e

\* "close file if possible (no other process uses it)" (process.c:407): a
\* descriptor nobody has open is closed, so the list does not fill up.
NoDescriptorLeak ==
  \A d \in UsedDescriptors :
    \E p \in live : \/ Uses(p, d)
                    \/ call[p].step \in {"register", "close"} /\ call[p].fd = d

\* "close file if possible (no other process uses it)" (process.c:407): no
\* step but execute's closes a descriptor that two processes have open, or
\* one that is open in another process than the one that closes it.
ClosedWithoutSharers ==
  [][live' \subseteq live =>
       \A p \in live, d \in UsedDescriptors :
         d \notin UsedDescriptors' /\ (call[p] # call'[p] \/ p \notin live')
           => ~UsedByOther(p, d)]_vars

\* "same I/O functions from the standard c library" (c/stdio.c:13): a transfer
\* happens at the offset of the process that asked for it, although processes
\* share descriptors.
TransferAtOwnOffset ==
  \A p \in live : call[p].step = "transfer" =>
    LET e == entry[p][call[p].ref]
    IN  e.fd \in DOMAIN open_files_list /\ open_files_list[e.fd].inode \in Files
          => open_files_list[e.fd].offset = e.offset

\* "duplicate the given file descriptor" (process.c:475), and the streams a
\* process starts with: a used entry names a descriptor that is open.
EntriesStayOpen ==
  \A p \in live : \A v \in DOMAIN open_files[p] :
    call[p] = NoCall /\ At(p, v).used => At(p, v).fd \in UsedDescriptors

\* "close file if possible (no other process uses it)" (process.c:407): to
\* execute a file does not close it for the processes that have it open.
ExecuteClosesNoOther ==
  [][(live \subseteq live' /\ live # live') => UsedDescriptors \subseteq UsedDescriptors']_vars

=============================================================================
