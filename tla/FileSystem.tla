----------------------------- MODULE FileSystem -----------------------------
(***************************************************************************)
(* The files and directories of kernel/filesystem.c, in memory and on the  *)
(* disk: get_inode_index_of, open, opendir, write and close over the       *)
(* bitmap of blocks, the inode list and the list of names.                 *)
(*                                                                         *)
(* The three tables are read once, at boot, and written as a whole when    *)
(* they have changed; blocks of entries are read when they are needed.  An *)
(* entry is the number of an inode in the block of a directory, and the    *)
(* sector of a data block in the block of a regular file.                  *)
(*                                                                         *)
(* A call is a sequence of steps, each with at most one write to the disk; *)
(* the power can fail after each, and within a transfer of the inode list, *)
(* which is of several sectors: an inode may lie in two of them.  The      *)
(* other transfers change one word, or a name nothing refers to yet.  open *)
(* runs between cli() and sti(), write does not.  Nothing is ever deleted. *)
(* What data blocks hold, permissions, special files and the printing are  *)
(* left out.                                                               *)
(***************************************************************************)
EXTENDS Integers, Sequences, FiniteSets, FiniteSetsExt

CONSTANTS
  Procs,
  Names,            \* the components of paths
  Blocks,           \* the sectors blocks begin at
  INODES,           \* the length of the inode list
  LENGTH,           \* how many entries a block has
  NULL,             \* not found, not open, no name
  PREEMPT,          \* may the timer switch processes within write()?
  THROUGH_FILES,    \* are there paths with a file where a directory should be?
  Cuts,             \* where sectors of the inode list end: in which inode, and
                    \* behind how many of its fields
  MAX_CRASHES       \* bound: power failures

ASSUME NULLAssumption == NULL \notin Nat \cup Names \cup [1 .. LENGTH -> Nat]
ASSUME SwitchAssumption == PREEMPT \in BOOLEAN /\ THROUGH_FILES \in BOOLEAN
ASSUME LengthsAssumption ==
  INODES \in Nat \ {0} /\ LENGTH \in Nat /\ INODES <= LENGTH + 1
ASSUME BlocksAssumption ==
  /\ Blocks # {} /\ IsFiniteSet(Blocks)
  /\ Blocks \subseteq Nat /\ \A b \in Blocks : b >= INODES
ASSUME CutsAssumption == Cuts \subseteq (0 .. INODES - 1) \X (0 .. 5)
ASSUME BoundsAssumption == MAX_CRASHES \in Nat

VARIABLES
  bound_blocks_bitmap, inode_list, file_names_list,  \* in memory
  disk,       \* the same on the disk, and the blocks of entries
  file,       \* the block of entries of an open file, in its descriptor
  opened,     \* the file a process has open; bound: one at a time
  call,       \* the rest of the call a process is in
  crashes     \* (not in the code)

tables == <<bound_blocks_bitmap, inode_list, file_names_list>>
vars == <<tables, disk, file, opened, call, crashes>>

-----------------------------------------------------------------------------

Inodes == 0 .. INODES - 1

ROOT == 0

Positions == 1 .. LENGTH

Paths == [1 .. 1 -> Names] \cup [1 .. 2 -> Names]

\* Of the size it matters whether anything was ever written.  In memory and on
\* the disk the fields are in this order: bound, type, size, address_block, name.
Inode == [bound : BOOLEAN, name : Names \cup {NULL},
          type : {"NEW_FILE", "REGULAR_FILE", "DIRECTORY"},
          address_block : Blocks \cup {0}, size : {0, 1}]

Unbound == [bound |-> FALSE, name |-> NULL, type |-> "NEW_FILE",
            address_block |-> 0, size |-> 0]

\* No entry is 0: the root is in no directory.
NoEntries == [k \in Positions |-> 0]

Entries == [Positions -> Blocks \cup Inodes]

Idle == [step |-> "idle", path |-> <<>>, inode |-> 0, block |-> 0, at |-> 0, left |-> 0]

\* The steps of open lie within a critical section.
Masked == {"name", "bind", "enter", "list"}

Call == [step : Masked \cup {"idle", "block", "mark", "link"},
         path : Paths \cup {<<>>}, inode : Inodes, block : Blocks \cup Inodes,
         at : 0 .. LENGTH + 1, left : 0 .. LENGTH]

Disk == [bitmap : SUBSET Blocks, inodes : [Inodes -> Inode], names : SUBSET Names,
         blocks : [Blocks -> Entries]]

TypeOK ==
  /\ bound_blocks_bitmap \subseteq Blocks
  /\ inode_list \in [Inodes -> Inode]
  /\ file_names_list \subseteq Names
  /\ disk \in Disk
  /\ file \in [Inodes -> Entries \cup {NULL}]
  /\ opened \in [Procs -> Inodes \cup {NULL}]
  /\ \A p \in Procs : opened[p] # NULL => file[opened[p]] # NULL
  /\ call \in [Procs -> Call]
  /\ crashes \in 0 .. MAX_CRASHES

-----------------------------------------------------------------------------
(* Lookups. *)

\* The entries of inode i of a table of inodes, as they are on the disk.
EntriesOf(inodes, i) == disk.blocks[inodes[i].address_block]

\* The inode with a name in directory d, the first if there are several.
Child(inodes, d, name) ==
  LET here == {k \in Positions :
                 LET e == EntriesOf(inodes, d)[k]
                 IN  e \in Inodes \ {0} /\ inodes[e].name = name}
  IN  IF here = {} THEN NULL ELSE EntriesOf(inodes, d)[Min(here)]

\* The inodes along a path, from the root, as far as they exist.
Walk(inodes, path) ==
  LET inode[k \in 0 .. Len(path)] ==
        IF k = 0 THEN ROOT
        ELSE IF inode[k - 1] = NULL THEN NULL
        ELSE Child(inodes, inode[k - 1], path[k])
  IN  inode

\* get_inode_index_of without creating anything.
Lookup(inodes, path) == Walk(inodes, path)[Len(path)]

\* How much of a path exists.
Depth(path) == Max({k \in 0 .. Len(path) : Walk(inode_list, path)[k] # NULL})

\* The directories of a path are no files.
Proper(path) ==
  \A k \in 1 .. Len(path) - 1 :
    LET i == Walk(inode_list, path)[k]
    IN  i # NULL => inode_list[i].type = "DIRECTORY"

FreeInodes == {i \in Inodes : ~inode_list[i].bound}

FreeBlocks == Blocks \ bound_blocks_bitmap

\* No call is at work that would have to finish first.
MayStep(p) ==
  \A q \in Procs \ {p} :
    call[q].step = "idle" \/ (PREEMPT /\ call[q].step \notin Masked)

-----------------------------------------------------------------------------
(* open and opendir. *)

\* Mutant: the file's block is not read.
OpenInode_NotRead(p, i) ==
  /\ inode_list' = [inode_list EXCEPT ![i].type =
                      IF @ = "NEW_FILE" THEN "REGULAR_FILE" ELSE @]
  /\ IF inode_list'[i].type = "REGULAR_FILE"
       THEN /\ opened' = [opened EXCEPT ![p] = i]
            /\ file' = [file EXCEPT ![i] = IF @ = NULL THEN NoEntries ELSE @]
       ELSE UNCHANGED <<opened, file>>

\* The tail of open(): a new file becomes a regular one, and a regular one
\* gets a descriptor.
OpenInode(p, i) ==
  /\ inode_list' = [inode_list EXCEPT ![i].type =
                      IF @ = "NEW_FILE" THEN "REGULAR_FILE" ELSE @]
  /\ IF inode_list'[i].type = "REGULAR_FILE"
       THEN /\ opened' = [opened EXCEPT ![p] = i]
            /\ file' = [file EXCEPT ![i] =
                          IF @ = NULL THEN EntriesOf(inode_list, i) ELSE @]
       ELSE UNCHANGED <<opened, file>>

\* The whole path exists.
open(p, path) ==
  /\ call[p] = Idle /\ MayStep(p)
  /\ opened[p] = NULL
  /\ THROUGH_FILES \/ Proper(path)
  /\ Depth(path) = Len(path)
  /\ OpenInode(p, Lookup(inode_list, path))
  /\ UNCHANGED <<bound_blocks_bitmap, file_names_list, disk, call, crashes>>

\* Some of it does not, and there is room for it.
Create(p, path) ==
  LET rest == SubSeq(path, Depth(path) + 1, Len(path))
  IN  /\ call[p] = Idle /\ MayStep(p)
      /\ opened[p] = NULL
      /\ THROUGH_FILES \/ Proper(path)
      /\ rest # <<>>
      /\ Cardinality(FreeInodes) >= Len(rest)
      /\ Cardinality(FreeBlocks) >= Len(rest)
      /\ call' = [call EXCEPT ![p] =
                    [Idle EXCEPT !.step = "name", !.path = rest,
                                 !.inode = Walk(inode_list, path)[Depth(path)]]]
      /\ UNCHANGED <<tables, disk, file, opened, crashes>>

\* The name is put into the list of names, unless it is in it.
WriteName(p) ==
  LET name == Head(call[p].path)
  IN  /\ call[p].step = "name"
      /\ file_names_list' = file_names_list \cup {name}
      /\ disk' = [disk EXCEPT !.names = @ \cup {name}]
      /\ call' = [call EXCEPT ![p].step = "bind"]
      /\ UNCHANGED <<bound_blocks_bitmap, inode_list, file, opened, crashes>>

\* Mutant: the first inode that is not a file's.
NewInode_TypeOnly == Min({i \in Inodes : inode_list[i].type # "REGULAR_FILE"} \ {ROOT})

\* The first inode that is not bound.
NewInode == Min(FreeInodes)

\* The first block that is not bound.
FirstFreeBlock == Min(FreeBlocks)

\* Mutant: the block is marked on the disk only.
get_free_block_NotMarked(block) ==
  /\ disk' = [disk EXCEPT !.bitmap = bound_blocks_bitmap \cup {block}]
  /\ UNCHANGED bound_blocks_bitmap

\* get_free_block marks a block and writes the bitmap.
get_free_block(block) ==
  /\ bound_blocks_bitmap' = bound_blocks_bitmap \cup {block}
  /\ disk' = [disk EXCEPT !.bitmap = bound_blocks_bitmap']

BindInode(p) ==
  /\ call[p].step = "bind"
  /\ inode_list' = [inode_list EXCEPT ![NewInode] =
                      [bound |-> TRUE, name |-> Head(call[p].path),
                       type |-> "DIRECTORY", address_block |-> FirstFreeBlock,
                       size |-> 0]]
  /\ get_free_block(FirstFreeBlock)
  /\ call' = [call EXCEPT ![p].step = "enter", ![p].block = NewInode]
  /\ UNCHANGED <<file_names_list, file, opened, crashes>>

\* The first entry of a block that is not in use, 0 if there is none.
FreeEntry(entries) ==
  LET free == {k \in Positions : entries[k] = 0}
  IN  IF free = {} THEN 0 ELSE Min(free)

\* Mutant: the last entry in use is overwritten.
Enter_OffByOne(entries, i) ==
  IF FreeEntry(entries) > 1 THEN [entries EXCEPT ![FreeEntry(entries) - 1] = i]
  ELSE [entries EXCEPT ![1] = i]

\* Nothing happens if a block is full.
Enter(entries, i) ==
  IF FreeEntry(entries) = 0 THEN entries
  ELSE [entries EXCEPT ![FreeEntry(entries)] = i]

\* The new inode is entered into the directory, and is the directory for the
\* rest of the path.  The last one is no directory.
EnterInode(p) ==
  LET dir == inode_list[call[p].inode].address_block
      i == call[p].block
      rest == Tail(call[p].path)
  IN  /\ call[p].step = "enter"
      /\ disk' = [disk EXCEPT !.blocks[dir] = Enter(@, i)]
      /\ inode_list' = [inode_list EXCEPT ![i].type =
                          IF rest = <<>> THEN "NEW_FILE" ELSE @]
      /\ call' = [call EXCEPT ![p] =
                    [Idle EXCEPT !.step = IF rest = <<>> THEN "list" ELSE "name",
                                 !.path = rest, !.inode = i]]
      /\ UNCHANGED <<bound_blocks_bitmap, file_names_list, file, opened, crashes>>

WriteInodes(inodes) == [disk EXCEPT !.inodes = inodes]

\* Mutant: the sectors are written from the last to the first.
Transferred_Backwards(inodes, cut) ==
  LET after(i, field) ==
        IF i > cut[1] \/ (i = cut[1] /\ field > cut[2]) THEN inodes[i]
        ELSE disk.inodes[i]
  IN  [i \in Inodes |->
         [bound |-> after(i, 1).bound, type |-> after(i, 2).type,
          size |-> after(i, 3).size, address_block |-> after(i, 4).address_block,
          name |-> after(i, 5).name]]

\* What is on the disk when the transfer of a table of inodes ends behind the
\* sector that has the first cut[2] fields of inode cut[1], and all before.
Transferred(inodes, cut) ==
  LET after(i, field) ==
        IF i < cut[1] \/ (i = cut[1] /\ field <= cut[2]) THEN inodes[i]
        ELSE disk.inodes[i]
  IN  [i \in Inodes |->
         [bound |-> after(i, 1).bound, type |-> after(i, 2).type,
          size |-> after(i, 3).size, address_block |-> after(i, 4).address_block,
          name |-> after(i, 5).name]]

\* The inode list is written once, at the end.
WriteInodeList(p) ==
  /\ call[p].step = "list"
  /\ disk' = WriteInodes(inode_list)
  /\ OpenInode(p, call[p].inode)
  /\ call' = [call EXCEPT ![p] = Idle]
  /\ UNCHANGED <<bound_blocks_bitmap, file_names_list, crashes>>

\* A file that was created and never opened since becomes a directory.
opendir(p, path) ==
  LET i == Lookup(inode_list, path)
  IN  /\ call[p] = Idle /\ MayStep(p)
      /\ THROUGH_FILES \/ Proper(path)
      /\ i # NULL
      /\ inode_list' = [inode_list EXCEPT ![i].type =
                          IF @ = "NEW_FILE" THEN "DIRECTORY" ELSE @]
      /\ UNCHANGED <<bound_blocks_bitmap, file_names_list, disk, file, opened,
                     call, crashes>>

-----------------------------------------------------------------------------
(* write and close. *)

\* The inodes when inode i has grown.
Extended(i) == [inode_list EXCEPT ![i].size = 1]

\* Data for a number of blocks, from the first one on wherever the offset is.
\* A write that extends the file writes the inode list first.
write(p, blocks, extends) ==
  LET i == opened[p]
  IN  /\ call[p] = Idle /\ MayStep(p)
      /\ opened[p] # NULL
      /\ blocks <= Cardinality(FreeBlocks)
      /\ inode_list[i].size = 0 => extends
      /\ inode_list' = Extended(i)
      /\ disk' = IF extends THEN WriteInodes(inode_list') ELSE disk
      /\ call' = [call EXCEPT ![p] =
                    [Idle EXCEPT !.step = "block", !.inode = i, !.at = 1,
                                 !.left = blocks]]
      /\ UNCHANGED <<bound_blocks_bitmap, file_names_list, file, opened, crashes>>

\* The call of p after one more block.
NextBlock(p) ==
  IF call[p].left = 1 THEN Idle
  ELSE [call[p] EXCEPT !.step = "block", !.block = 0, !.at = @ + 1, !.left = @ - 1]

\* The block is allocated, or a free one is found.
WriteBlock(p) ==
  /\ call[p].step = "block" /\ MayStep(p)
  /\ IF file[call[p].inode][call[p].at] # 0
       THEN call' = [call EXCEPT ![p] = NextBlock(p)]
       ELSE /\ FreeBlocks # {}
            /\ call' = [call EXCEPT ![p].step = "mark", ![p].block = FirstFreeBlock]
  /\ UNCHANGED <<tables, disk, file, opened, crashes>>

MarkBlock(p) ==
  /\ call[p].step = "mark" /\ MayStep(p)
  /\ get_free_block(call[p].block)
  /\ call' = [call EXCEPT ![p].step = "link"]
  /\ UNCHANGED <<inode_list, file_names_list, file, opened, crashes>>

\* The file's block of entries is written.
LinkBlock(p) ==
  LET i == call[p].inode
  IN  /\ call[p].step = "link" /\ MayStep(p)
      /\ file' = [file EXCEPT ![i][call[p].at] = call[p].block]
      /\ disk' = [disk EXCEPT !.blocks[inode_list[i].address_block] = file'[i]]
      /\ call' = [call EXCEPT ![p] = NextBlock(p)]
      /\ UNCHANGED <<tables, opened, crashes>>

\* fclose closes the descriptor when no other process has the file open.
close(p) ==
  LET i == opened[p]
  IN  /\ call[p] = Idle /\ MayStep(p)
      /\ opened[p] # NULL
      /\ opened' = [opened EXCEPT ![p] = NULL]
      /\ file' = [file EXCEPT ![i] =
                    IF \E q \in Procs \ {p} : opened[q] = i THEN @ ELSE NULL]
      /\ UNCHANGED <<tables, disk, call, crashes>>

-----------------------------------------------------------------------------

\* The power fails with tables d on the disk, and init_filesystem reads them.
init_filesystem(d) ==
  /\ crashes < MAX_CRASHES
  /\ crashes' = crashes + 1
  /\ disk' = d
  /\ bound_blocks_bitmap' = d.bitmap
  /\ inode_list' = d.inodes
  /\ file_names_list' = d.names
  /\ file' = [i \in Inodes |-> NULL]
  /\ opened' = [p \in Procs |-> NULL]
  /\ call' = [p \in Procs |-> Idle]

\* It fails between steps.
PowerFails == init_filesystem(disk)

\* It fails while a creation writes the inode list, behind the sector that
\* ends at a cut.
CutInodeList(p, cut) ==
  /\ call[p].step = "list"
  /\ init_filesystem(WriteInodes(Transferred(inode_list, cut)))

\* It fails while a write that extends a file does.
CutWrite(p, cut) ==
  /\ call[p] = Idle /\ MayStep(p)
  /\ opened[p] # NULL
  /\ init_filesystem(WriteInodes(Transferred(Extended(opened[p]), cut)))

\* The disk as add_directory leaves it: an empty root directory.
Init ==
  /\ disk = [bitmap |-> {Min(Blocks)},
             inodes |-> [i \in Inodes |->
                           IF i = ROOT
                             THEN [Unbound EXCEPT !.bound = TRUE, !.type = "DIRECTORY",
                                                  !.address_block = Min(Blocks)]
                             ELSE Unbound],
             names |-> {},
             blocks |-> [b \in Blocks |-> NoEntries]]
  /\ bound_blocks_bitmap = disk.bitmap
  /\ inode_list = disk.inodes
  /\ file_names_list = disk.names
  /\ file = [i \in Inodes |-> NULL]
  /\ opened = [p \in Procs |-> NULL]
  /\ call = [p \in Procs |-> Idle]
  /\ crashes = 0

Next ==
  \/ \E p \in Procs :
       \/ \E path \in Paths : open(p, path) \/ Create(p, path) \/ opendir(p, path)
       \/ WriteName(p) \/ BindInode(p) \/ EnterInode(p) \/ WriteInodeList(p)
       \/ \E blocks \in 1 .. LENGTH : \E extends \in BOOLEAN : write(p, blocks, extends)
       \/ WriteBlock(p) \/ MarkBlock(p) \/ LinkBlock(p)
       \/ close(p)
       \/ \E cut \in Cuts : CutInodeList(p, cut) \/ CutWrite(p, cut)
  \/ PowerFails

Spec == Init /\ [][Next]_vars

-----------------------------------------------------------------------------
(* Properties. *)

\* The inode is in use and has a block.  Without one it is the rest of an inode
\* that was being written when the power failed.
HasBlock(inodes, i) == inodes[i].bound /\ inodes[i].address_block # 0

\* The inodes and entries of a table of inodes that name block b.
Owners(inodes, b) ==
  {<<i, 0>> : i \in {j \in Inodes : inodes[j].bound /\ inodes[j].address_block = b}}
    \cup {e \in Inodes \X Positions :
            HasBlock(inodes, e[1]) /\ EntriesOf(inodes, e[1])[e[2]] = b}

\* "get index of a free block and marks it as used" (filesystem.c:356): no block
\* has two uses, neither now nor after a power failure now.
OneOwnerPerBlock ==
  \A inodes \in {inode_list, disk.inodes}, b \in Blocks :
    Cardinality(Owners(inodes, b)) <= 1

\* The inodes in use that have no name: no path leads to them.
Lost(inodes) == {i \in Inodes \ {ROOT} : inodes[i].bound /\ inodes[i].name = NULL}

\* The disk is written in an order such that what it refers to is on it: no
\* block that a file would have after a power failure is free then, and what has
\* a name, which is in the list of names, has a block, also if the power failed
\* between the sectors of the inode list.  A failure there costs an inode.
DiskOrdered ==
  /\ \A b \in Blocks : Owners(disk.inodes, b) # {} => b \in disk.bitmap
  /\ \A i \in Inodes \ {ROOT} : disk.inodes[i].name # NULL =>
       disk.inodes[i].name \in disk.names /\ HasBlock(disk.inodes, i)
  /\ Cardinality(Lost(disk.inodes)) <= crashes

\* A file that data was written to is never taken for a new one, which opendir
\* would make a directory: the data blocks are on the disk later than the type.
WrittenFilesStayFiles ==
  \A inodes \in {inode_list, disk.inodes} : \A i \in Inodes :
    HasBlock(inodes, i) /\ inodes[i].type = "NEW_FILE" =>
      \A k \in Positions : EntriesOf(inodes, i)[k] \notin Blocks

\* Whenever the power fails, between two sectors of the inode list too, what the
\* disk says is true of the disk, and files are taken for what they are.
DiskConsistent == DiskOrdered /\ WrittenFilesStayFiles

\* A file that is on the disk under some path is there for ever, whatever else
\* is created and whenever the power fails.
FilesStay ==
  [][\A path \in Paths :
       Lookup(disk.inodes, path) # NULL
         => Lookup(disk.inodes, path)' = Lookup(disk.inodes, path)]_vars

Entered == {e \in Inodes \X Positions :
              HasBlock(inode_list, e[1]) /\ inode_list[e[1]].type = "DIRECTORY"
                /\ EntriesOf(inode_list, e[1])[e[2]] # 0}

EntryAt(e) == EntriesOf(inode_list, e[1])[e[2]]

\* Between creations, and until the power fails, directories form a tree: each
\* inode in use is entered once, no others are, and no name is twice in a
\* directory.
TreeKept ==
  crashes = 0 /\ (\A p \in Procs : call[p].step \notin Masked) =>
    /\ {EntryAt(e) : e \in Entered} = {i \in Inodes \ {ROOT} : inode_list[i].bound}
    /\ \A e, f \in Entered : e # f =>
         /\ EntryAt(e) # EntryAt(f)
         /\ e[1] = f[1] => inode_list[EntryAt(e)].name # inode_list[EntryAt(f)].name

\* Between calls, and until the power fails, the blocks that are marked are
\* those in use.
NoBlockLost ==
  crashes = 0 /\ (\A p \in Procs : call[p] = Idle) =>
    bound_blocks_bitmap = {b \in Blocks : Owners(inode_list, b) # {}}

\* "runs from the root directory to the file to find in, terminates when got the
\* file or the directory/file don't exists" (filesystem.c:106): files are
\* entered into directories, not into the blocks of other files.
FilesInDirectories ==
  \A i \in Inodes :
    HasBlock(inode_list, i) /\ inode_list[i].type = "REGULAR_FILE" =>
      \A k \in Positions : EntriesOf(inode_list, i)[k] \notin Inodes \ {0}

=============================================================================
