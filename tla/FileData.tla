------------------------------ MODULE FileData ------------------------------
(***************************************************************************)
(* The contents of regular files: read and write of kernel/filesystem.c,   *)
(* called through fread and fwrite of kernel/process.c.                    *)
(*                                                                         *)
(* A file is open in one descriptor, which holds the list of its blocks    *)
(* and a copy of every block that was used; the last process that closes   *)
(* the file frees both.  A write changes the inode, the list of blocks and *)
(* the blocks, each in memory and on the disk, in this order.  The byte    *)
(* after the last one of a file is an end mark, which the size counts.     *)
(*                                                                         *)
(* A call is a sequence of steps with at most one write to the disk each,  *)
(* and the power can fail after each step or between two sectors.  The     *)
(* calls of different processes do not overlap.  Which block of the disk   *)
(* get_free_block gives a file is left out, for no two files share one     *)
(* (module FileSystem); so are modes, permissions and special files.       *)
(***************************************************************************)
EXTENDS Integers, Sequences, FiniteSets

CONSTANTS
  Procs, Files,
  Bytes,        \* the bytes programs write, and
  ZERO, EOF,    \* the byte of a new block and the end mark, -1
  NULL,
  IMAGE,        \* what the files of the disk image hold
  BLOCK,        \* bytes in a block
  BLOCKS,       \* entries in a list of blocks
  Data, Counts, \* what is written and how much is read at a time
  MAX_SIZE,     \* bound: no file gets larger, end mark included
  MAX_OPEN,     \* bound: files a process has open at a time
  MAX_CRASHES   \* bound: power failures

ASSUME BytesAssumption == EOF \notin Bytes /\ ZERO \notin Bytes /\ EOF # ZERO
ASSUME BlocksAssumption == BLOCK \in Nat \ {0} /\ BLOCKS \in Nat \ {0}
ASSUME BoundsAssumption ==
  MAX_SIZE \in 1 .. BLOCK * BLOCKS /\ MAX_OPEN \in Nat /\ MAX_CRASHES \in Nat
ASSUME ImageAssumption ==
  /\ IMAGE \in [Files -> Seq(Bytes)]
  /\ \A f \in Files : Len(IMAGE[f]) <= MAX_SIZE
ASSUME TransfersAssumption == Data \subseteq Seq(Bytes) \ {<<>>} /\ Counts \subseteq Nat

VARIABLES
  inode_size,   \* the sizes in the inode list
  file,         \* the descriptor of each file
  offset,       \* the file_offset of a process in each file it has open
  disk,         \* sizes, lists of blocks and blocks on the disk
  call,         \* the rest of the call that is going on
  written,      \* what the finished calls have written (not in the code)
  returned,     \* what the last call asked for and has read
  crashes       \* (not in the code)

vars == <<inode_size, file, offset, disk, call, written, returned, crashes>>

-----------------------------------------------------------------------------

Byte == Bytes \cup {ZERO, EOF}

\* Positions in a block, and the entries of a list of blocks.
Positions == 0 .. BLOCK - 1
Indices == 0 .. BLOCKS - 1

Block == [Positions -> Byte]

Zeroes == [i \in Positions |-> ZERO]

\* physical_address_block, of which it matters what is allocated, and
\* file_data_blocks_list, NULL for what is not in it.
Descriptor == [allocated : SUBSET Indices, blocks : [Indices -> Block \cup {NULL}]]

\* NULL is no address of a descriptor.
ASSUME NULLAssumption == NULL \notin Descriptor

NoBlocks == [k \in Indices |-> NULL]

Idle == [op |-> "idle"]

\* The local variables of read and write; total is temp_count.
Call == [op : {"read", "write"}, proc : Procs, file : Files, asked : Nat,
         buff : Seq(Byte), count : Int, total : Int, left : Int, index : Indices \cup {BLOCKS},
         data_offset : Positions, buff_offset : Nat, end_of_file : BOOLEAN]

TypeOK ==
  /\ inode_size \in [Files -> 0 .. MAX_SIZE]
  /\ file \in [Files -> Descriptor \cup {NULL}]
  /\ offset \in [Procs -> [Files -> (0 .. MAX_SIZE) \cup {NULL}]]
  /\ \A p \in Procs, f \in Files : offset[p][f] # NULL => file[f] # NULL
  /\ disk \in [size : [Files -> 0 .. MAX_SIZE], allocated : [Files -> SUBSET Indices],
               data : [Files -> [Indices -> Block]]]
  /\ call \in Call \cup {Idle}
  /\ written \in [Files -> Seq(Byte)]
  /\ returned \in (Counts \X Seq(Byte)) \cup {NULL}
  /\ crashes \in 0 .. MAX_CRASHES

-----------------------------------------------------------------------------
(* open and close. *)

\* The file gets a descriptor unless it has one, and its list is read.
open(p, f) ==
  /\ call = Idle
  /\ offset[p][f] = NULL
  /\ Cardinality({g \in Files : offset[p][g] # NULL}) < MAX_OPEN
  /\ offset' = [offset EXCEPT ![p][f] = 0]
  /\ file' = [file EXCEPT ![f] =
                IF @ # NULL THEN @
                ELSE [allocated |-> disk.allocated[f], blocks |-> NoBlocks]]
  /\ returned' = NULL
  /\ UNCHANGED <<inode_size, disk, call, written, crashes>>

\* Mutant: the descriptor is freed whoever has it open.
close_Always(p, f) ==
  /\ call = Idle
  /\ offset[p][f] # NULL
  /\ offset' = [offset EXCEPT ![p][f] = NULL]
  /\ file' = [file EXCEPT ![f] = NULL]
  /\ returned' = NULL
  /\ UNCHANGED <<inode_size, disk, call, written, crashes>>

\* The descriptor and its blocks are given up with the last entry.
close(p, f) ==
  /\ call = Idle
  /\ offset[p][f] # NULL
  /\ offset' = [offset EXCEPT ![p][f] = NULL]
  /\ file' = [file EXCEPT ![f] =
                IF \E q \in Procs \ {p} : offset[q][f] # NULL THEN @ ELSE NULL]
  /\ returned' = NULL
  /\ UNCHANGED <<inode_size, disk, call, written, crashes>>

-----------------------------------------------------------------------------
(* What read and write have in common. *)

\* How many blocks n bytes at offset o are taken to be in; in C, -1/BLOCK is 0.
BlocksOf(o, n) ==
  IF (o % BLOCK) + n = 0 THEN 1 ELSE ((o % BLOCK) + n - 1) \div BLOCK + 1

\* How many of the bytes that are left go to or come from the next block.
Chunk(n) == IF n = 0 THEN 0 ELSE ((n - 1) % BLOCK) + 1

\* The block a transfer is at, as it is in memory or else on the disk.
CurrentBlock ==
  LET copy == file[call.file].blocks[call.index]
  IN  IF copy # NULL THEN copy ELSE disk.data[call.file][call.index]

Advanced == [call EXCEPT !.count = @ - Chunk(@),
                         !.left = @ - 1,
                         !.index = @ + 1,
                         !.data_offset = 0,
                         !.buff_offset = @ + BLOCK]

-----------------------------------------------------------------------------
(* fwrite. *)

\* Mutant: the inode list is not written when a file grows.
StartWrite_SizeInMemory(p, f, d) ==
  LET o == offset[p][f]
      n == Len(d)
      extends == o + n >= inode_size[f]
  IN  /\ call = Idle
      /\ o # NULL
      /\ o + n + 1 <= MAX_SIZE
      /\ inode_size' = [inode_size EXCEPT ![f] = IF extends THEN o + n + 1 ELSE @]
      /\ call' = [op |-> "write", proc |-> p, file |-> f, asked |-> n, buff |-> d,
                  count |-> IF extends THEN n + 1 ELSE n, total |-> n,
                  left |-> BlocksOf(o, n), index |-> 0,
                  data_offset |-> o % BLOCK, buff_offset |-> 0,
                  end_of_file |-> extends]
      /\ returned' = NULL
      /\ UNCHANGED <<file, offset, disk, written, crashes>>

\* A write of d by p at its offset o: if it reaches the end of the file it
\* moves the end mark, which is one byte more to write, and the inode list is
\* written at once.
StartWrite(p, f, d) ==
  LET o == offset[p][f]
      n == Len(d)
      extends == o + n >= inode_size[f]
      size == IF extends THEN o + n + 1 ELSE inode_size[f]
  IN  /\ call = Idle
      /\ o # NULL
      /\ o + n + 1 <= MAX_SIZE
      /\ inode_size' = [inode_size EXCEPT ![f] = size]
      /\ disk' = IF extends THEN [disk EXCEPT !.size = inode_size'] ELSE disk
      /\ call' = [op |-> "write", proc |-> p, file |-> f, asked |-> n, buff |-> d,
                  count |-> IF extends THEN n + 1 ELSE n, total |-> n,
                  left |-> BlocksOf(o, n), index |-> 0,
                  data_offset |-> o % BLOCK, buff_offset |-> 0,
                  end_of_file |-> extends]
      /\ returned' = NULL
      /\ UNCHANGED <<file, offset, written, crashes>>

\* A block the file does not have is allocated and the list written.
AllocateBlock ==
  LET f == call.file
      list == file[f].allocated \cup {call.index}
  IN  /\ call.op = "write"
      /\ file[f].blocks[call.index] = NULL
      /\ call.index \in Indices \ file[f].allocated
      /\ file' = [file EXCEPT ![f].allocated = list]
      /\ disk' = [disk EXCEPT !.allocated[f] = list]
      /\ returned' = NULL
      /\ UNCHANGED <<inode_size, offset, call, written, crashes>>

\* The next block can be written.
BlockReady ==
  /\ call.op = "write"
  /\ file[call.file].blocks[call.index] # NULL \/ call.index \in file[call.file].allocated

\* The block with the bytes copied into it, and the end mark after the last.
\* What lies behind the buffer of the program may be anything.
NewBlock ==
  LET n == Chunk(call.count)
      last == call.data_offset + call.count - 1
      From(i) == call.buff_offset + (i - call.data_offset) + 1
  IN  [i \in Positions |->
         IF call.end_of_file /\ n = call.count /\ i = last THEN EOF
         ELSE IF i \notin call.data_offset .. call.data_offset + n - 1 THEN CurrentBlock[i]
         ELSE IF From(i) \in DOMAIN call.buff THEN call.buff[From(i)]
         ELSE ZERO]

\* The bytes c with d written over them from offset o on.
Overwrite(c, o, d) ==
  [i \in 1 .. (IF o + Len(d) > Len(c) THEN o + Len(d) ELSE Len(c)) |->
     IF i \in o + 1 .. o + Len(d) THEN d[i - o] ELSE c[i]]

\* Mutant: a block that has a copy is written to the disk only.
WriteBlock_StaleCopy ==
  LET f == call.file
      p == call.proc
      last == call.left = 1
  IN  /\ BlockReady
      /\ file' = [file EXCEPT ![f].blocks[call.index] = IF @ # NULL THEN @ ELSE NewBlock]
      /\ disk' = [disk EXCEPT !.data[f][call.index] = NewBlock]
      /\ call' = IF last THEN Idle ELSE Advanced
      /\ offset' = IF last THEN [offset EXCEPT ![p][f] = @ + call.total] ELSE offset
      /\ written' = IF last THEN [written EXCEPT ![f] = Overwrite(@, offset[p][f], call.buff)]
                    ELSE written
      /\ returned' = NULL
      /\ UNCHANGED <<inode_size, crashes>>

\* It goes to the copy and to the disk; after the last one the call is over.
WriteBlock ==
  LET f == call.file
      p == call.proc
      last == call.left = 1
  IN  /\ BlockReady
      /\ file' = [file EXCEPT ![f].blocks[call.index] = NewBlock]
      /\ disk' = [disk EXCEPT !.data[f][call.index] = NewBlock]
      /\ call' = IF last THEN Idle ELSE Advanced
      /\ offset' = IF last THEN [offset EXCEPT ![p][f] = @ + call.total] ELSE offset
      /\ written' = IF last THEN [written EXCEPT ![f] = Overwrite(@, offset[p][f], call.buff)]
                    ELSE written
      /\ returned' = NULL
      /\ UNCHANGED <<inode_size, crashes>>

-----------------------------------------------------------------------------
(* fread. *)

\* Mutant: a read that ends at the size of the file is not cut.
StartRead_EndMark(p, f, n) ==
  LET o == offset[p][f]
      count == IF n + o > inode_size[f] THEN inode_size[f] - o - 1 ELSE n
  IN  /\ call = Idle
      /\ o # NULL
      /\ 0 \in file[f].allocated
      /\ call' = [op |-> "read", proc |-> p, file |-> f, asked |-> n, buff |-> <<>>,
                  count |-> count, total |-> count,
                  left |-> BlocksOf(o, count), index |-> 0,
                  data_offset |-> o % BLOCK, buff_offset |-> 0,
                  end_of_file |-> FALSE]
      /\ returned' = NULL
      /\ UNCHANGED <<inode_size, file, offset, disk, written, crashes>>

\* Mutant: reads are not cut at the end of the file.
StartRead_Unbounded(p, f, n) ==
  LET o == offset[p][f]
      count == n
  IN  /\ call = Idle
      /\ o # NULL
      /\ 0 \in file[f].allocated
      /\ call' = [op |-> "read", proc |-> p, file |-> f, asked |-> n, buff |-> <<>>,
                  count |-> count, total |-> count,
                  left |-> BlocksOf(o, count), index |-> 0,
                  data_offset |-> o % BLOCK, buff_offset |-> 0,
                  end_of_file |-> FALSE]
      /\ returned' = NULL
      /\ UNCHANGED <<inode_size, file, offset, disk, written, crashes>>

\* Reading stops before the end mark.  A file that has no block yet is not
\* read here: read returns without a value then.
StartRead(p, f, n) ==
  LET o == offset[p][f]
      count == IF n + o >= inode_size[f] THEN inode_size[f] - o - 1 ELSE n
  IN  /\ call = Idle
      /\ o # NULL
      /\ 0 \in file[f].allocated
      /\ call' = [op |-> "read", proc |-> p, file |-> f, asked |-> n, buff |-> <<>>,
                  count |-> count, total |-> count,
                  left |-> BlocksOf(o, count), index |-> 0,
                  data_offset |-> o % BLOCK, buff_offset |-> 0,
                  end_of_file |-> FALSE]
      /\ returned' = NULL
      /\ UNCHANGED <<inode_size, file, offset, disk, written, crashes>>

\* The bytes of a block are copied to the buffer, which seems to be filled
\* in order.
ReadBlock ==
  LET f == call.file
      p == call.proc
      from == call.data_offset
      bytes == [i \in 1 .. call.buff_offset + Chunk(call.count) |->
                  LET k == i - call.buff_offset
                  IN  IF k > 0 THEN IF from + k - 1 \in Positions
                                      THEN CurrentBlock[from + k - 1] ELSE ZERO
                      ELSE IF i \in DOMAIN call.buff THEN call.buff[i] ELSE ZERO]
      last == call.left = 1
  IN  /\ call.op = "read"
      /\ call.index \in file[f].allocated
      /\ file' = [file EXCEPT ![f].blocks[call.index] = CurrentBlock]
      /\ call' = IF last THEN Idle ELSE [Advanced EXCEPT !.buff = bytes]
      /\ offset' = IF last THEN [offset EXCEPT ![p][f] = @ + call.total] ELSE offset
      /\ returned' = IF last THEN <<call.asked, SubSeq(bytes, 1, call.total)>> ELSE NULL
      /\ UNCHANGED <<inode_size, disk, written, crashes>>

-----------------------------------------------------------------------------
(* The power. *)

\* What is left of the file on the disk: the bytes before the end mark.
DiskBytes(f) ==
  [i \in 1 .. disk.size[f] - 1 |->
     disk.data[f][(i - 1) \div BLOCK][(i - 1) % BLOCK]]

\* Everything in memory is lost.  If a block was being written the disk has
\* got its first sectors; a sector is a byte here.
PowerFailure ==
  /\ crashes < MAX_CRASHES
  /\ crashes' = crashes + 1
  /\ IF BlockReady
       THEN \E k \in 0 .. BLOCK :
              disk' = [disk EXCEPT !.data[call.file][call.index] =
                         [i \in Positions |-> IF i < k THEN NewBlock[i] ELSE @[i]]]
       ELSE UNCHANGED disk
  /\ inode_size' = disk.size
  /\ file' = [f \in Files |-> NULL]
  /\ offset' = [p \in Procs |-> [f \in Files |-> NULL]]
  /\ call' = Idle
  /\ written' = [f \in Files |-> DiskBytes(f)']
  /\ returned' = NULL

-----------------------------------------------------------------------------

\* A file of the disk image has no end mark: add_file counts its bytes, and
\* the last one is where read expects the mark.
Init ==
  /\ inode_size = [f \in Files |-> Len(IMAGE[f])]
  /\ file = [f \in Files |-> NULL]
  /\ offset = [p \in Procs |-> [f \in Files |-> NULL]]
  /\ disk = [size |-> inode_size,
             allocated |-> [f \in Files |-> {k \in Indices : k * BLOCK < inode_size[f]}],
             data |-> [f \in Files |-> [k \in Indices |-> [i \in Positions |->
                LET j == k * BLOCK + i + 1
                IN  IF j \in DOMAIN IMAGE[f] THEN IMAGE[f][j] ELSE ZERO]]]]
  /\ call = Idle
  /\ written = [f \in Files |-> SubSeq(IMAGE[f], 1, Len(IMAGE[f]) - 1)]
  /\ returned = NULL
  /\ crashes = 0

Next ==
  \/ \E p \in Procs, f \in Files :
       \/ open(p, f)
       \/ close(p, f)
       \/ \E d \in Data : StartWrite(p, f, d)
       \/ \E n \in Counts : StartRead(p, f, n)
  \/ AllocateBlock
  \/ WriteBlock
  \/ ReadBlock
  \/ PowerFailure

Spec == Init /\ [][Next]_vars

-----------------------------------------------------------------------------
(* Properties. *)

\* The copies of blocks that descriptors hold are what the disk holds: what a
\* process has written through the descriptor another one reads, and what
\* close throws away is nowhere else to be found.
CopiesAreDisk ==
  \A f \in Files, k \in Indices :
    file[f] # NULL /\ file[f].blocks[k] # NULL => file[f].blocks[k] = disk.data[f][k]

\* The bytes on the disk are those of the finished writes, except where the
\* write that is going on has to put its own: when fwrite has returned, a power
\* failure takes nothing from the file.
DiskHoldsWritten ==
  \A f \in Files :
    /\ Len(written[f]) <= Len(DiskBytes(f))
    /\ \A i \in DOMAIN written[f] : DiskBytes(f)[i] = written[f][i]
    /\ Len(DiskBytes(f)) = Len(written[f]) \/ (call.op = "write" /\ call.file = f)

\* memcpy never leaves the block nor, in fread, the program's buffer, and is
\* never given a negative count: no offset lies behind the end of its file.
TransfersFit ==
  call # Idle =>
    LET n == Chunk(call.count)
    IN  /\ call.count >= 0
        /\ call.data_offset + n <= BLOCK
        /\ call.op = "read" => call.buff_offset + n <= call.asked

\* Processes that transfer at their own offsets, through one descriptor and its
\* copies, with power failures, get what fread and fwrite promise.
ByteFiles == INSTANCE ByteFile WITH content <- written, Bytes <- Byte

ImplementsByteFile == ByteFiles!Spec

=============================================================================
