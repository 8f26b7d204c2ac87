--------------------------- MODULE FileDataProofs ---------------------------
(***************************************************************************)
(* Proofs about module FileData, for any number of processes and files,    *)
(* any size of blocks and files and any number of power failures.          *)
(*                                                                         *)
(* The first part is about files of any size.  A copy of a block is made   *)
(* from the disk or written together with the disk, and a descriptor that  *)
(* appears has no copies.  What the argument needs besides is that a call  *)
(* works on a file that stays open.                                        *)
(*                                                                         *)
(* The second part is about files of one block at most, which the code     *)
(* handles as it should.  The numbers of a call are those that its offset, *)
(* the size and what has been written give it, so transfers stay in their  *)
(* block and what was written stays on the disk; and so every step is one  *)
(* of ByteFile or changes nothing there.                                   *)
(***************************************************************************)
EXTENDS FileData, SequenceTheorems, TLAPS

\* A call that is going on, with no bounds on its numbers.
Calling == [op : {"read", "write"}, proc : Procs, file : Files, asked : Int,
            buff : Seq(Byte), count : Int, total : Int, left : Int, index : Int,
            data_offset : Int, buff_offset : Int, end_of_file : BOOLEAN]

Disk == [size : [Files -> Int], allocated : [Files -> SUBSET Indices],
         data : [Files -> [Indices -> Block]]]

Shape ==
  /\ inode_size \in [Files -> Int]
  /\ file \in [Files -> Descriptor \cup {NULL}]
  /\ offset \in [Procs -> [Files -> Int \cup {NULL}]]
  /\ disk \in Disk
  /\ call \in Calling \cup {Idle}

\* A file somebody has open has a descriptor, and the caller has it open.
OpenOK ==
  /\ \A p \in Procs, f \in Files : offset[p][f] # NULL => file[f] \in Descriptor
  /\ call # Idle => offset[call.proc][call.file] # NULL

IInv == Shape /\ OpenOK /\ CopiesAreDisk

-----------------------------------------------------------------------------

(* A descriptor is not NULL.                                                  *)
LEMMA DescriptorExists == \A e \in Descriptor : e # NULL
BY NULLAssumption

(* A call is not the idle one.                                                *)
LEMMA CallingActive ==
  ASSUME Shape, call.op \in {"read", "write"}
  PROVE  call \in Calling /\ call # Idle
BY DEF Shape, Idle

LEMMA InitInv == Init => IInv
<1> SUFFICES ASSUME Init PROVE IInv
  OBVIOUS
<1>1. \A f \in Files : IMAGE[f] \in Seq(Bytes) /\ Len(IMAGE[f]) \in Int
  BY ImageAssumption
<1>2. inode_size \in [Files -> Int]
  BY <1>1 DEF Init
<1>3. file \in [Files -> Descriptor \cup {NULL}]
  BY DEF Init
<1>4. offset \in [Procs -> [Files -> Int \cup {NULL}]]
  BY DEF Init
<1>5. disk \in Disk
  <2>1. disk.data \in [Files -> [Indices -> Block]]
    BY <1>1 DEF Init, Block, Byte
  <2>2. disk.allocated \in [Files -> SUBSET Indices]
    BY DEF Init
  <2>3. disk.size \in [Files -> Int]
    BY <1>2 DEF Init
  <2>4. disk = [size |-> disk.size, allocated |-> disk.allocated, data |-> disk.data]
    BY DEF Init
  <2>5. QED
    BY <2>1, <2>2, <2>3, <2>4 DEF Disk
<1>6. call = Idle
  BY DEF Init
<1>7. OpenOK /\ CopiesAreDisk
  BY <1>6 DEF Init, OpenOK, CopiesAreDisk
<1>8. QED
  BY <1>2, <1>3, <1>4, <1>5, <1>6, <1>7 DEF IInv, Shape

LEMMA OpenInv ==
  ASSUME IInv, NEW p \in Procs, NEW f \in Files, open(p, f)
  PROVE  IInv'
<1> DEFINE d == [allocated |-> disk.allocated[f], blocks |-> NoBlocks]
<1>1. d \in Descriptor
  BY DEF IInv, Shape, Disk, Descriptor, NoBlocks
<1>2. file' = [file EXCEPT ![f] = IF file[f] # NULL THEN file[f] ELSE d]
  BY DEF open
<1>3. UNCHANGED <<inode_size, disk, call>> /\ call = Idle
  BY DEF open
<1>4. d.blocks = NoBlocks
  OBVIOUS
<1> HIDE DEF d
<1>5. file' \in [Files -> Descriptor \cup {NULL}]
  BY <1>1, <1>2 DEF IInv, Shape
<1>6. offset' = [offset EXCEPT ![p][f] = 0]
  BY DEF open
<1>7. offset' \in [Procs -> [Files -> Int \cup {NULL}]]
  BY <1>6 DEF IInv, Shape
<1>8. Shape'
  BY <1>3, <1>5, <1>7 DEF IInv, Shape
<1>9. OpenOK'
  <2>1. file'[f] \in Descriptor
    BY <1>1, <1>2 DEF IInv, Shape
  <2>2. QED
    BY <1>2, <1>3, <1>6, <2>1 DEF IInv, Shape, OpenOK
<1>10. CopiesAreDisk'
  BY <1>2, <1>3, <1>4 DEF IInv, Shape, CopiesAreDisk, NoBlocks
<1>11. QED
  BY <1>8, <1>9, <1>10 DEF IInv

LEMMA CloseInv ==
  ASSUME IInv, NEW p \in Procs, NEW f \in Files, close(p, f)
  PROVE  IInv'
<1>1. UNCHANGED <<inode_size, disk, call>> /\ call = Idle
  BY DEF close
<1>2. offset' = [offset EXCEPT ![p][f] = NULL]
  BY DEF close
<1>3. file' = [file EXCEPT ![f] =
                 IF \E q \in Procs \ {p} : offset[q][f] # NULL THEN file[f] ELSE NULL]
  BY DEF close
<1>4. offset' \in [Procs -> [Files -> Int \cup {NULL}]]
  BY <1>2 DEF IInv, Shape
<1>5. file' \in [Files -> Descriptor \cup {NULL}]
  BY <1>3 DEF IInv, Shape
<1>6. Shape'
  BY <1>1, <1>4, <1>5 DEF IInv, Shape
<1>7. OpenOK'
  <2> SUFFICES ASSUME NEW q \in Procs, NEW g \in Files, offset'[q][g] # NULL
               PROVE  file'[g] \in Descriptor
    BY <1>1 DEF OpenOK
  <2>1. offset[q][g] # NULL /\ (g = f => q # p)
    BY <1>2 DEF IInv, Shape
  <2>2. file'[g] = file[g]
    BY <1>3, <2>1 DEF IInv, Shape
  <2>3. QED
    BY <2>1, <2>2 DEF IInv, OpenOK
<1>8. CopiesAreDisk'
  BY <1>1, <1>3 DEF IInv, Shape, CopiesAreDisk
<1>9. QED
  BY <1>6, <1>7, <1>8 DEF IInv

-----------------------------------------------------------------------------

(* The numbers a call starts with.                                            *)
LEMMA StartNumbers ==
  ASSUME NEW o \in Int, NEW n \in Int
  PROVE  BlocksOf(o, n) \in Int /\ o % BLOCK \in Int /\ Chunk(n) \in Int
BY BlocksAssumption DEF BlocksOf, Chunk

LEMMA StartWriteInv ==
  ASSUME IInv, NEW p \in Procs, NEW f \in Files, NEW d \in Data, StartWrite(p, f, d)
  PROVE  IInv'
<1>1. UNCHANGED <<file, offset>> /\ offset[p][f] # NULL
  BY DEF StartWrite
<1>2. offset[p][f] \in Int /\ Len(d) \in Int /\ inode_size[f] \in Int
  BY <1>1, TransfersAssumption DEF IInv, Shape
<1>3. inode_size' \in [Files -> Int]
  BY <1>2 DEF StartWrite, IInv, Shape
<1>4. disk' \in Disk /\ disk'.data = disk.data
  <2>1. disk' = disk \/ disk' = [disk EXCEPT !.size = inode_size']
    BY DEF StartWrite
  <2>2. QED
    BY <1>3, <2>1 DEF IInv, Shape, Disk
<1>5. call' \in Calling /\ call'.proc = p /\ call'.file = f
  <2> DEFINE o == offset[p][f]
             n == Len(d)
             extends == o + n >= inode_size[f]
             c == IF extends THEN n + 1 ELSE n
  <2>1. call' = [op |-> "write", proc |-> p, file |-> f, asked |-> n, buff |-> d,
                 count |-> c, total |-> n, left |-> BlocksOf(o, n), index |-> 0,
                 data_offset |-> o % BLOCK, buff_offset |-> 0, end_of_file |-> extends]
    BY DEF StartWrite
  <2>2. d \in Seq(Byte)
    BY TransfersAssumption DEF Byte
  <2>3. c \in Int /\ o \in Int /\ n \in Int /\ extends \in BOOLEAN
    BY <1>2
  <2>4. BlocksOf(o, n) \in Int /\ o % BLOCK \in Int
    BY <2>3, StartNumbers
  <2> HIDE DEF o, n, extends, c
  <2>5. QED
    BY <2>1, <2>2, <2>3, <2>4 DEF Calling
<1>6. Shape'
  BY <1>1, <1>3, <1>4, <1>5 DEF IInv, Shape
<1>7. OpenOK'
  BY <1>1, <1>5 DEF IInv, OpenOK
<1>8. CopiesAreDisk'
  BY <1>1, <1>4 DEF IInv, CopiesAreDisk
<1>9. QED
  BY <1>6, <1>7, <1>8 DEF IInv

LEMMA StartReadInv ==
  ASSUME IInv, NEW p \in Procs, NEW f \in Files, NEW n \in Counts, StartRead(p, f, n)
  PROVE  IInv'
<1>1. UNCHANGED <<inode_size, file, offset, disk>> /\ offset[p][f] # NULL
  BY DEF StartRead
<1>2. offset[p][f] \in Int /\ n \in Int /\ inode_size[f] \in Int
  BY <1>1, TransfersAssumption DEF IInv, Shape
<1>3. call' \in Calling /\ call'.proc = p /\ call'.file = f
  <2> DEFINE o == offset[p][f]
             c == IF n + o >= inode_size[f] THEN inode_size[f] - o - 1 ELSE n
  <2>1. call' = [op |-> "read", proc |-> p, file |-> f, asked |-> n, buff |-> <<>>,
                 count |-> c, total |-> c, left |-> BlocksOf(o, c), index |-> 0,
                 data_offset |-> o % BLOCK, buff_offset |-> 0, end_of_file |-> FALSE]
    BY DEF StartRead
  <2>2. c \in Int /\ o \in Int
    BY <1>2
  <2>3. BlocksOf(o, c) \in Int /\ o % BLOCK \in Int
    BY <2>2, StartNumbers
  <2>4. <<>> \in Seq(Byte)
    OBVIOUS
  <2> HIDE DEF o, c
  <2>5. QED
    BY <1>2, <2>1, <2>2, <2>3, <2>4 DEF Calling
<1>4. Shape'
  BY <1>1, <1>3 DEF IInv, Shape
<1>5. OpenOK'
  BY <1>1, <1>3 DEF IInv, OpenOK
<1>6. CopiesAreDisk'
  BY <1>1 DEF IInv, CopiesAreDisk
<1>7. QED
  BY <1>4, <1>5, <1>6 DEF IInv

-----------------------------------------------------------------------------

\* file and disk with a new copy of a block, and with a new block.
WithCopy(f, k, v) == [file EXCEPT ![f].blocks[k] = v]
WithData(f, k, v) == [disk EXCEPT !.data[f][k] = v]

(* An entry of the list of one file.                                          *)
LEMMA CopySet ==
  ASSUME Shape, NEW f \in Files, file[f] \in Descriptor, NEW k, NEW v,
         k \in Indices => v \in Block,
         file' = WithCopy(f, k, v)
  PROVE  /\ file' \in [Files -> Descriptor \cup {NULL}]
         /\ \A g \in Files : g # f => file'[g] = file[g]
         /\ file'[f] \in Descriptor /\ file'[f].allocated = file[f].allocated
         /\ \A i \in Indices : file'[f].blocks[i] = IF i = k THEN v ELSE file[f].blocks[i]
<1> DEFINE b == [file[f].blocks EXCEPT ![k] = v]
           e == [file[f] EXCEPT !.blocks = b]
<1>1. file' = [file EXCEPT ![f] = e]
  BY DEF WithCopy
<1>2. b \in [Indices -> Block \cup {NULL}]
  BY DEF Descriptor
<1>3. e \in Descriptor /\ e.blocks = b /\ e.allocated = file[f].allocated
  <2> HIDE DEF b
  <2>1. QED
    BY <1>2 DEF Descriptor
<1> HIDE DEF b, e
<1>4. file'[f] = e /\ file' \in [Files -> Descriptor \cup {NULL}]
      /\ \A g \in Files : g # f => file'[g] = file[g]
  BY <1>1, <1>3 DEF Shape
<1>5. \A i \in Indices : b[i] = IF i = k THEN v ELSE file[f].blocks[i]
  BY DEF Descriptor, b
<1>6. QED
  BY <1>3, <1>4, <1>5

(* A block of one file.                                                       *)
LEMMA DataSet ==
  ASSUME Shape, NEW f \in Files, NEW k, NEW v,
         k \in Indices => v \in Block,
         disk' = WithData(f, k, v)
  PROVE  /\ disk' \in Disk
         /\ disk'.size = disk.size /\ disk'.allocated = disk.allocated
         /\ \A g \in Files : g # f => disk'.data[g] = disk.data[g]
         /\ \A i \in Indices : disk'.data[f][i] = IF i = k THEN v ELSE disk.data[f][i]
<1> DEFINE b == [disk.data[f] EXCEPT ![k] = v]
           d == [disk.data EXCEPT ![f] = b]
<1>1. disk' = [disk EXCEPT !.data = d]
  BY DEF WithData
<1>2. b \in [Indices -> Block]
  <2>1. disk.data[f] \in [Indices -> Block]
    BY DEF Shape, Disk
  <2>2. QED
    BY <2>1
<1>3. d \in [Files -> [Indices -> Block]] /\ d[f] = b
      /\ \A g \in Files : g # f => d[g] = disk.data[g]
  <2> HIDE DEF b
  <2>1. QED
    BY <1>2 DEF Shape, Disk
<1> HIDE DEF b, d
<1>4. /\ disk' \in Disk /\ disk'.data = d
      /\ disk'.size = disk.size /\ disk'.allocated = disk.allocated
  BY <1>1, <1>3 DEF Shape, Disk
<1>5. \A i \in Indices : b[i] = IF i = k THEN v ELSE disk.data[f][i]
  <2>1. disk.data[f] \in [Indices -> Block]
    BY DEF Shape, Disk
  <2>2. QED
    BY <2>1 DEF b
<1>6. QED
  BY <1>3, <1>4, <1>5

(* The call that is going on, and its file.                                   *)
LEMMA Caller ==
  ASSUME IInv, call.op \in {"read", "write"}
  PROVE  /\ call \in Calling /\ call # Idle
         /\ call.proc \in Procs /\ call.file \in Files /\ call.index \in Int
         /\ call.total \in Int
         /\ offset[call.proc][call.file] # NULL
         /\ offset[call.proc][call.file] \in Int
         /\ file[call.file] \in Descriptor
<1>1. call \in Calling /\ call # Idle
  BY CallingActive DEF IInv
<1>2. /\ call.proc \in Procs /\ call.file \in Files /\ call.index \in Int
      /\ call.total \in Int
  BY <1>1 DEF Calling
<1>3. offset[call.proc][call.file] # NULL
  BY <1>1 DEF IInv, OpenOK
<1>4. offset[call.proc][call.file] \in Int \cup {NULL}
  BY <1>2 DEF IInv, Shape
<1>5. file[call.file] \in Descriptor
  BY <1>2, <1>3 DEF IInv, OpenOK
<1>6. QED
  BY <1>1, <1>2, <1>3, <1>4, <1>5

LEMMA CurrentIsBlock ==
  ASSUME IInv, call.op \in {"read", "write"}, call.index \in Indices
  PROVE  /\ CurrentBlock \in Block
         /\ CurrentBlock = disk.data[call.file][call.index]
<1>1. call.file \in Files /\ file[call.file] \in Descriptor
  BY Caller
<1>2. file[call.file].blocks[call.index] \in Block \cup {NULL}
  BY <1>1 DEF Descriptor
<1>3. disk.data[call.file][call.index] \in Block
  BY <1>1 DEF IInv, Shape, Disk
<1>4. file[call.file].blocks[call.index] # NULL =>
        file[call.file].blocks[call.index] = disk.data[call.file][call.index]
  BY <1>1, DescriptorExists DEF IInv, CopiesAreDisk
<1>5. QED
  BY <1>2, <1>3, <1>4 DEF CurrentBlock

LEMMA AllocateInv ==
  ASSUME IInv, AllocateBlock
  PROVE  IInv'
<1> DEFINE f == call.file
           list == file[f].allocated \cup {call.index}
           e == [file[f] EXCEPT !.allocated = list]
           a == [disk.allocated EXCEPT ![f] = list]
<1>1. UNCHANGED <<inode_size, offset, call>> /\ call.op = "write"
  BY DEF AllocateBlock
<1>2. f \in Files /\ file[f] \in Descriptor /\ call.index \in Indices
  BY <1>1, Caller DEF AllocateBlock
<1>3. file' = [file EXCEPT ![f] = e] /\ disk' = [disk EXCEPT !.allocated = a]
  BY DEF AllocateBlock
<1>4. list \in SUBSET Indices
  BY <1>2 DEF Descriptor
<1>5. e \in Descriptor /\ e.blocks = file[f].blocks
  <2> HIDE DEF list, f
  <2>1. QED
    BY <1>2, <1>4 DEF Descriptor
<1>6. a \in [Files -> SUBSET Indices]
  <2> HIDE DEF list, f
  <2>1. QED
    BY <1>2, <1>4 DEF IInv, Shape, Disk
<1> HIDE DEF f, list, e, a
<1>7. disk' \in Disk /\ disk'.data = disk.data
  BY <1>3, <1>6 DEF IInv, Shape, Disk
<1>8. file' \in [Files -> Descriptor \cup {NULL}]
  BY <1>2, <1>3, <1>5 DEF IInv, Shape
<1>9. Shape'
  BY <1>1, <1>7, <1>8 DEF IInv, Shape
<1>10. OpenOK'
  BY <1>1, <1>2, <1>3, <1>5 DEF IInv, Shape, OpenOK
<1>11. CopiesAreDisk'
  <2> SUFFICES ASSUME NEW g \in Files, NEW k \in Indices,
                      file'[g] # NULL, file'[g].blocks[k] # NULL
               PROVE  file'[g].blocks[k] = disk.data[g][k]
    BY <1>7 DEF CopiesAreDisk
  <2>1. CASE g # f
    BY <1>2, <1>3, <2>1 DEF IInv, Shape, CopiesAreDisk
  <2>2. CASE g = f
    <3>1. file'[f] = e
      BY <1>2, <1>3 DEF IInv, Shape
    <3>2. file[f].blocks[k] # NULL
      BY <1>5, <2>2, <3>1
    <3>3. file[f] # NULL
      BY <1>2, DescriptorExists
    <3>4. QED
      BY <1>2, <1>5, <2>2, <3>1, <3>2, <3>3 DEF IInv, CopiesAreDisk
  <2>3. QED
    BY <2>1, <2>2
<1>12. QED
  BY <1>9, <1>10, <1>11 DEF IInv

-----------------------------------------------------------------------------

(* A block is written, or read, into the copy and is what the disk has.       *)
LEMMA TransferInv ==
  ASSUME IInv, call.op \in {"read", "write"}, NEW v,
         call.index \in Indices => v \in Block,
         inode_size' = inode_size,
         file' = WithCopy(call.file, call.index, v),
         \/ disk' = WithData(call.file, call.index, v)
         \/ /\ disk' = disk
            /\ call.index \in Indices => v = disk.data[call.file][call.index],
         \/ call' = Idle
         \/ call' \in Calling /\ call'.proc = call.proc /\ call'.file = call.file,
         \/ offset' = offset
         \/ /\ call' = Idle
            /\ offset' = [offset EXCEPT ![call.proc][call.file] =
                            offset[call.proc][call.file] + call.total]
  PROVE  IInv'
<1> DEFINE p == call.proc
           f == call.file
           k == call.index
<1>1. /\ p \in Procs /\ f \in Files /\ call.total \in Int
      /\ call # Idle
      /\ offset[p][f] # NULL /\ offset[p][f] \in Int
      /\ file[f] \in Descriptor
  BY Caller
<1>2. /\ file' \in [Files -> Descriptor \cup {NULL}]
      /\ \A g \in Files : g # f => file'[g] = file[g]
      /\ file'[f] \in Descriptor
      /\ \A i \in Indices : file'[f].blocks[i] = IF i = k THEN v ELSE file[f].blocks[i]
  BY <1>1, CopySet DEF IInv
<1>3. /\ disk' \in Disk
      /\ \A g \in Files : g # f => disk'.data[g] = disk.data[g]
      /\ \A i \in Indices : disk'.data[f][i] = IF i = k THEN v ELSE disk.data[f][i]
  <2>1. CASE disk' = WithData(f, k, v)
    BY <1>1, <2>1, DataSet DEF IInv
  <2>2. CASE disk' = disk /\ (k \in Indices => v = disk.data[f][k])
    <3>1. disk.data[f] \in [Indices -> Block] /\ disk \in Disk
      BY <1>1 DEF IInv, Shape, Disk
    <3>2. QED
      BY <2>2, <3>1
  <2>3. QED
    BY <2>1, <2>2
<1>4. offset' \in [Procs -> [Files -> Int \cup {NULL}]]
      /\ \A q \in Procs, g \in Files :
           offset'[q][g] = offset[q][g] \/ (q = p /\ g = f)
  <2>1. offset \in [Procs -> [Files -> Int \cup {NULL}]]
    BY DEF IInv, Shape
  <2>2. offset[p][f] + call.total \in Int
    BY <1>1
  <2> HIDE DEF p, f
  <2>3. CASE offset' = [offset EXCEPT ![p][f] = offset[p][f] + call.total]
    BY <2>1, <2>2, <2>3
  <2>4. QED
    BY <2>1, <2>3 DEF p, f
<1>5. Shape'
  <2>1. call' \in Calling \cup {Idle}
    OBVIOUS
  <2>2. QED
    BY <1>2, <1>3, <1>4, <2>1 DEF IInv, Shape
<1>6. OpenOK'
  <2>1. \A q \in Procs, g \in Files : offset'[q][g] # NULL => file'[g] \in Descriptor
    BY <1>2, <1>4 DEF IInv, OpenOK
  <2>2. call' # Idle => offset'[call'.proc][call'.file] # NULL
    BY <1>1
  <2>3. QED
    BY <2>1, <2>2 DEF OpenOK
<1>7. CopiesAreDisk'
  <2> SUFFICES ASSUME NEW g \in Files, NEW i \in Indices,
                      file'[g] # NULL, file'[g].blocks[i] # NULL
               PROVE  file'[g].blocks[i] = disk'.data[g][i]
    BY DEF CopiesAreDisk
  <2>1. CASE g # f
    BY <1>2, <1>3, <2>1 DEF IInv, CopiesAreDisk
  <2>2. CASE g = f
    <3>1. file[f].blocks \in [Indices -> Block \cup {NULL}]
      BY <1>1 DEF Descriptor
    <3>2. disk.data[f] \in [Indices -> Block]
      BY <1>1 DEF IInv, Shape, Disk
    <3>3. file[f].blocks[i] # NULL => file[f].blocks[i] = disk.data[f][i]
      BY <1>1, DescriptorExists DEF IInv, CopiesAreDisk
    <3> HIDE DEF f, k
    <3>4. QED
      BY <1>2, <1>3, <2>2, <3>1, <3>2, <3>3
  <2>3. QED
    BY <2>1, <2>2
<1>8. QED
  BY <1>5, <1>6, <1>7 DEF IInv

(* What is left of the call.                                                  *)
LEMMA AdvancedCalling ==
  ASSUME call \in Calling
  PROVE  /\ Advanced \in Calling /\ Advanced.proc = call.proc /\ Advanced.file = call.file
<1> DEFINE c == call.count - Chunk(call.count)
           l == call.left - 1
           k == call.index + 1
           b == call.buff_offset + BLOCK
           z == 0
<1>1. c \in Int /\ l \in Int /\ k \in Int /\ b \in Int /\ z \in Int
  <2>1. call.count \in Int /\ call.left \in Int /\ call.index \in Int /\ call.buff_offset \in Int
    BY DEF Calling
  <2>2. Chunk(call.count) \in Int
    BY <2>1, StartNumbers
  <2>3. QED
    BY <2>1, <2>2, BlocksAssumption
<1> DEFINE c1 == [call EXCEPT !.count = c]
           c2 == [c1 EXCEPT !.left = l]
           c3 == [c2 EXCEPT !.index = k]
           c4 == [c3 EXCEPT !.data_offset = z]
<1>2. Advanced = [c4 EXCEPT !.buff_offset = b]
  BY DEF Advanced
<1> HIDE DEF c, l, k, b, z
<1>3. c1 \in Calling /\ c1.proc = call.proc /\ c1.file = call.file
  BY <1>1 DEF Calling
<1> HIDE DEF c1
<1>4. c2 \in Calling /\ c2.proc = call.proc /\ c2.file = call.file
  BY <1>1, <1>3 DEF Calling
<1> HIDE DEF c2
<1>5. c3 \in Calling /\ c3.proc = call.proc /\ c3.file = call.file
  BY <1>1, <1>4 DEF Calling
<1> HIDE DEF c3
<1>6. c4 \in Calling /\ c4.proc = call.proc /\ c4.file = call.file
  BY <1>1, <1>5 DEF Calling
<1> HIDE DEF c4
<1>7. QED
  BY <1>1, <1>2, <1>6 DEF Calling

(* What a write puts into a block.                                            *)
LEMMA NewIsBlock ==
  ASSUME IInv, call.op = "write", call.index \in Indices
  PROVE  NewBlock \in Block
<1>1. CurrentBlock \in [Positions -> Byte]
  BY CurrentIsBlock DEF Block
<1>2. call.buff \in Seq(Byte)
  BY Caller DEF Calling
<1>3. \A i \in DOMAIN call.buff : call.buff[i] \in Byte
  BY <1>2
<1>4. EOF \in Byte /\ ZERO \in Byte
  BY DEF Byte
<1>5. QED
  BY <1>1, <1>3, <1>4 DEF NewBlock, Block

LEMMA WriteBlockInv ==
  ASSUME IInv, WriteBlock
  PROVE  IInv'
<1>1. call.op = "write"
  BY DEF WriteBlock, BlockReady
<1>2. call \in Calling
  BY <1>1, Caller
<1>3. call.index \in Indices => NewBlock \in Block
  BY <1>1, NewIsBlock
<1>4. /\ inode_size' = inode_size
      /\ file' = WithCopy(call.file, call.index, NewBlock)
      /\ disk' = WithData(call.file, call.index, NewBlock)
  BY DEF WriteBlock, WithCopy, WithData
<1>5. \/ call' = Idle
      \/ call' \in Calling /\ call'.proc = call.proc /\ call'.file = call.file
  BY <1>2, AdvancedCalling DEF WriteBlock
<1>6. \/ offset' = offset
      \/ /\ call' = Idle
         /\ offset' = [offset EXCEPT ![call.proc][call.file] =
                         offset[call.proc][call.file] + call.total]
  BY DEF WriteBlock
<1>7. QED
  BY <1>1, <1>3, <1>4, <1>5, <1>6, TransferInv

LEMMA ReadBlockInv ==
  ASSUME IInv, ReadBlock
  PROVE  IInv'
<1> DEFINE m == call.buff_offset + Chunk(call.count)
           from == call.data_offset
           bytes == [i \in 1 .. m |->
                  LET k == i - call.buff_offset
                  IN  IF k > 0 THEN IF from + k - 1 \in Positions
                                      THEN CurrentBlock[from + k - 1] ELSE ZERO
                      ELSE IF i \in DOMAIN call.buff THEN call.buff[i] ELSE ZERO]
<1>1. call.op = "read"
  BY DEF ReadBlock
<1>2. call \in Calling
  BY <1>1, Caller
<1>3. call.index \in Indices /\ CurrentBlock \in Block
      /\ CurrentBlock = disk.data[call.file][call.index]
  <2>1. call.index \in file[call.file].allocated
    BY DEF ReadBlock
  <2>2. file[call.file] \in Descriptor
    BY <1>1, Caller
  <2>3. call.index \in Indices
    BY <2>1, <2>2 DEF Descriptor
  <2>4. QED
    BY <1>1, <2>3, CurrentIsBlock
<1>4. /\ inode_size' = inode_size /\ disk' = disk
      /\ file' = WithCopy(call.file, call.index, CurrentBlock)
  BY DEF ReadBlock, WithCopy
<1>5. bytes \in Seq(Byte)
  <2>1. m \in Int
    BY <1>2, BlocksAssumption DEF Calling, Chunk
  <2>2. \A i \in 1 .. m : bytes[i] \in Byte
    <3> SUFFICES ASSUME NEW i \in 1 .. m PROVE bytes[i] \in Byte
      OBVIOUS
    <3>1. ZERO \in Byte
      BY DEF Byte
    <3>2. i \in DOMAIN call.buff => call.buff[i] \in Byte
      BY <1>2 DEF Calling
    <3>3. \A j \in Positions : CurrentBlock[j] \in Byte
      BY <1>3 DEF Block
    <3>4. QED
      BY <3>1, <3>2, <3>3
  <2>3. bytes \in [1 .. m -> Byte]
    BY <2>2
  <2> HIDE DEF m, bytes
  <2>4. CASE m \in Nat
    BY <2>3, <2>4
  <2>5. CASE m \notin Nat
    <3>1. 1 .. m = 1 .. 0
      BY <2>1, <2>5
    <3>2. bytes \in [1 .. 0 -> Byte]
      BY <2>3, <3>1
    <3>3. QED
      BY <3>2
  <2>6. QED
    BY <2>4, <2>5
<1>6. call' = Idle \/ call' = [Advanced EXCEPT !.buff = bytes]
  BY DEF ReadBlock
<1>7. /\ [Advanced EXCEPT !.buff = bytes] \in Calling
      /\ [Advanced EXCEPT !.buff = bytes].proc = call.proc
      /\ [Advanced EXCEPT !.buff = bytes].file = call.file
  <2> HIDE DEF bytes
  <2>1. Advanced \in Calling /\ Advanced.proc = call.proc /\ Advanced.file = call.file
    BY <1>2, AdvancedCalling
  <2>2. QED
    BY <1>5, <2>1 DEF Calling
<1>8. \/ offset' = offset
      \/ /\ call' = Idle
         /\ offset' = [offset EXCEPT ![call.proc][call.file] =
                         offset[call.proc][call.file] + call.total]
  BY DEF ReadBlock
<1>9. \/ call' = Idle
      \/ call' \in Calling /\ call'.proc = call.proc /\ call'.file = call.file
  BY <1>6, <1>7
<1>10. QED
  BY <1>1, <1>3, <1>4, <1>8, <1>9, TransferInv

-----------------------------------------------------------------------------

LEMMA PowerFailureInv ==
  ASSUME IInv, PowerFailure
  PROVE  IInv'
<1>1. /\ inode_size' = disk.size /\ call' = Idle
      /\ file' = [f \in Files |-> NULL]
      /\ offset' = [p \in Procs |-> [f \in Files |-> NULL]]
  BY DEF PowerFailure
<1>2. disk' \in Disk
  <2>1. CASE BlockReady
    <3>1. PICK k \in 0 .. BLOCK :
            disk' = [disk EXCEPT !.data[call.file][call.index] =
                       [i \in Positions |-> IF i < k THEN NewBlock[i]
                                            ELSE disk.data[call.file][call.index][i]]]
      BY <2>1 DEF PowerFailure
    <3> DEFINE torn == [i \in Positions |-> IF i < k THEN NewBlock[i]
                                           ELSE disk.data[call.file][call.index][i]]
    <3>2. call.op = "write" /\ call.file \in Files
      BY <2>1, Caller DEF BlockReady
    <3>3. call.index \in Indices => torn \in Block
      <4> SUFFICES ASSUME call.index \in Indices PROVE torn \in Block
        OBVIOUS
      <4>1. NewBlock \in [Positions -> Byte]
        BY <3>2, NewIsBlock DEF Block
      <4>2. disk.data[call.file][call.index] \in [Positions -> Byte]
        BY <3>2 DEF IInv, Shape, Disk, Block
      <4>3. QED
        BY <4>1, <4>2 DEF Block
    <3>4. disk' = WithData(call.file, call.index, torn)
      BY <3>1 DEF WithData
    <3> HIDE DEF torn
    <3>5. QED
      BY <3>2, <3>3, <3>4, DataSet DEF IInv
  <2>2. CASE ~BlockReady
    BY <2>2 DEF PowerFailure, IInv, Shape
  <2>3. QED
    BY <2>1, <2>2
<1>3. inode_size' \in [Files -> Int]
  BY <1>1 DEF IInv, Shape, Disk
<1>4. Shape'
  BY <1>1, <1>2, <1>3 DEF Shape
<1>5. OpenOK' /\ CopiesAreDisk'
  BY <1>1 DEF OpenOK, CopiesAreDisk
<1>6. QED
  BY <1>4, <1>5 DEF IInv

-----------------------------------------------------------------------------

LEMMA NextInv == IInv /\ [Next]_vars => IInv'
<1> SUFFICES ASSUME IInv, [Next]_vars PROVE IInv'
  OBVIOUS
<1>1. CASE \E p \in Procs, f \in Files :
             \/ open(p, f)
             \/ close(p, f)
             \/ \E d \in Data : StartWrite(p, f, d)
             \/ \E n \in Counts : StartRead(p, f, n)
  BY <1>1, OpenInv, CloseInv, StartWriteInv, StartReadInv
<1>2. CASE AllocateBlock
  BY <1>2, AllocateInv
<1>3. CASE WriteBlock
  BY <1>3, WriteBlockInv
<1>4. CASE ReadBlock
  BY <1>4, ReadBlockInv
<1>5. CASE PowerFailure
  BY <1>5, PowerFailureInv
<1>6. CASE UNCHANGED vars
  BY <1>6 DEF vars, IInv, Shape, OpenOK, CopiesAreDisk
<1>7. QED
  BY <1>1, <1>2, <1>3, <1>4, <1>5, <1>6 DEF Next

(* A copy of a block that a descriptor holds is what the disk holds, after    *)
(* any number of calls, closes and power failures: what fwrite has told one   *)
(* process another one reads, and close loses nothing (filesystem.c:376-502). *)
THEOREM CopiesOnDisk == Spec => []CopiesAreDisk
<1>1. IInv => CopiesAreDisk
  BY DEF IInv
<1>2. QED
  BY <1>1, InitInv, NextInv, PTL DEF Spec


-----------------------------------------------------------------------------
(* What follows is about files of one block at most: behind the first block  *)
(* the code does not keep any of this, because it counts chunks from the     *)
(* start of the buffer and starts at block 0 whatever the offset.  In the    *)
(* first block the end mark of a file is where its size says, a process is   *)
(* never behind it, and the call that is going on has the numbers that these *)
(* sizes and offsets give it.                                                *)

OneBlock == MAX_SIZE <= BLOCK

\* The values of the variables that Shape leaves out, and the bounds.
Bounds ==
  /\ inode_size \in [Files -> 0 .. MAX_SIZE]
  /\ crashes \in 0 .. MAX_CRASHES
  /\ returned \in (Counts \X Seq(Byte)) \cup {NULL}
  /\ written \in [Files -> Seq(Byte)]

\* The size of a file on the disk is the one in memory; a file with a block
\* is not empty.
SizesOnDisk ==
  /\ disk.size = inode_size
  /\ \A f \in Files :
       /\ 0 \in disk.allocated[f] => inode_size[f] # 0
       /\ file[f] # NULL => (0 \in file[f].allocated => inode_size[f] # 0)

\* Nobody is behind the bytes that have been written.
OffsetsWithin ==
  \A p \in Procs, f \in Files :
    offset[p][f] # NULL => offset[p][f] \in 0 .. Len(written[f])

\* The size counts the bytes that have been written and the end mark, or
\* else those that are being written too.
SizesCount ==
  \A f \in Files :
    \/ Len(written[f]) = IF inode_size[f] = 0 THEN 0 ELSE inode_size[f] - 1
    \/ call.op = "write" /\ call.file = f /\ Len(written[f]) < inode_size[f]

\* The first block holds them.
FirstBlockHolds ==
  \A f \in Files : \A i \in 1 .. Len(written[f]) : disk.data[f][0][i - 1] = written[f][i]

\* The numbers of a transfer at offset o within the first block.
Within(o, n) ==
  /\ call.total = n /\ call.left = 1
  /\ call.index = 0 /\ call.data_offset = o /\ call.buff_offset = 0

\* The numbers of a write of n bytes at o to a file of size s, where w have
\* been written: it extends the file or ends before the end mark.
Writes(o, n, s, w) ==
  /\ call.asked = n
  /\ Within(o, n)
  /\ IF call.end_of_file
       THEN call.count = n + 1 /\ s = o + n + 1 /\ w <= o + n
       ELSE call.count = n /\ s = w + 1 /\ o + n <= w

Reads(o, n, w) ==
  /\ call.end_of_file = FALSE /\ call.buff = <<>>
  /\ call.count = IF o + n <= w THEN n ELSE w - o
  /\ Within(o, call.count)

Writing ==
  call.op = "write" =>
    /\ call.buff \in Data
    /\ Writes(offset[call.proc][call.file], Len(call.buff),
              inode_size[call.file], Len(written[call.file]))

Reading ==
  call.op = "read" =>
    /\ call.asked \in Counts /\ inode_size[call.file] # 0
    /\ Reads(offset[call.proc][call.file], call.asked, Len(written[call.file]))

Numbers ==
  /\ Bounds /\ SizesOnDisk /\ OffsetsWithin /\ SizesCount /\ FirstBlockHolds
  /\ Writing /\ Reading

\* All of it.
FInv == IInv /\ Numbers

-----------------------------------------------------------------------------

(* Within a block the first one is the one.                                   *)
LEMMA InBlock ==
  ASSUME NEW x \in 0 .. BLOCK - 1
  PROVE  x % BLOCK = x /\ x \div BLOCK = 0
BY BlocksAssumption

LEMMA OneBlockOnly ==
  ASSUME NEW o \in Nat, NEW n \in Nat, o < BLOCK, o + n <= BLOCK
  PROVE  BlocksOf(o, n) = 1
<1>1. o % BLOCK = o
  BY InBlock, BlocksAssumption
<1>2. CASE o + n = 0
  BY <1>1, <1>2 DEF BlocksOf
<1>3. CASE o + n # 0
  <2> DEFINE x == o + n - 1
  <2>1. x \in 0 .. BLOCK - 1
    BY <1>3, BlocksAssumption
  <2>2. x \div BLOCK = 0
    BY <2>1, InBlock
  <2>3. QED
    BY <1>1, <1>3, <2>2 DEF BlocksOf
<1>4. QED
  BY <1>2, <1>3

LEMMA ChunkIsAll ==
  ASSUME NEW n \in 0 .. BLOCK
  PROVE  Chunk(n) = n
<1>1. CASE n = 0
  BY <1>1 DEF Chunk
<1>2. CASE n # 0
  <2> DEFINE x == n - 1
  <2>1. x \in 0 .. BLOCK - 1
    BY <1>2, BlocksAssumption
  <2>2. x % BLOCK = x
    BY <2>1, InBlock
  <2>3. QED
    BY <1>2, <2>2 DEF Chunk
<1>3. QED
  BY <1>1, <1>2

LEMMA Numerals ==
  ASSUME OneBlock
  PROVE  /\ BLOCK \in Nat \ {0} /\ MAX_SIZE \in Nat \ {0} /\ MAX_SIZE <= BLOCK
         /\ 0 \in Indices /\ Positions = 0 .. BLOCK - 1
<1>1. BLOCK * BLOCKS \in Nat
  BY BlocksAssumption
<1>2. MAX_SIZE \in Nat \ {0}
  BY <1>1, BoundsAssumption
<1>3. QED
  BY <1>2, BlocksAssumption DEF OneBlock, Indices, Positions

\* DiskBytes of any contents of the disk.
BytesOf(d, f) ==
  [i \in 1 .. d.size[f] - 1 |-> d.data[f][(i - 1) \div BLOCK][(i - 1) % BLOCK]]

(* The bytes of a file are in its first block.                                *)
LEMMA BytesOfDisk ==
  ASSUME OneBlock, NEW d \in Disk, NEW f \in Files, d.size[f] \in 0 .. MAX_SIZE
  PROVE  /\ BytesOf(d, f) \in Seq(Byte)
         /\ Len(BytesOf(d, f)) = IF d.size[f] = 0 THEN 0 ELSE d.size[f] - 1
         /\ \A i \in 1 .. d.size[f] - 1 : BytesOf(d, f)[i] = d.data[f][0][i - 1]
<1> DEFINE s == d.size[f] - 1
<1>1. s \in Int /\ s < BLOCK /\ s + 1 >= 0
  BY Numerals
<1>2. \A i \in 1 .. s : BytesOf(d, f)[i] = d.data[f][0][i - 1]
                        /\ d.data[f][0][i - 1] \in Byte
  <2> SUFFICES ASSUME NEW i \in 1 .. s
               PROVE  BytesOf(d, f)[i] = d.data[f][0][i - 1]
                      /\ d.data[f][0][i - 1] \in Byte
    OBVIOUS
  <2> DEFINE x == i - 1
  <2>1. x \in 0 .. BLOCK - 1
    BY <1>1, Numerals
  <2>2. x % BLOCK = x /\ x \div BLOCK = 0
    BY <2>1, InBlock
  <2>3. BytesOf(d, f)[i] = d.data[f][x \div BLOCK][x % BLOCK]
    BY DEF BytesOf
  <2>4. d.data[f][0] \in [Positions -> Byte]
    BY Numerals DEF Disk, Block
  <2>5. d.data[f][0][x] \in Byte
    BY <2>1, <2>4, Numerals
  <2>6. QED
    BY <2>2, <2>3, <2>5
<1>3. BytesOf(d, f) \in [1 .. s -> Byte]
  <2>1. BytesOf(d, f) = [i \in 1 .. s |-> BytesOf(d, f)[i]]
    BY DEF BytesOf
  <2>2. QED
    BY <1>2, <2>1
<1>4. CASE s \in Nat
  <2> HIDE DEF s
  <2>1. BytesOf(d, f) \in Seq(Byte) /\ Len(BytesOf(d, f)) = s
    BY <1>3, <1>4
  <2>2. QED
    BY <1>1, <1>2, <1>4, <2>1 DEF s
<1>5. CASE s \notin Nat
  <2>1. s = -1 /\ 1 .. s = 1 .. 0
    BY <1>1, <1>5
  <2>2. BytesOf(d, f) \in [1 .. 0 -> Byte]
    BY <1>3, <2>1
  <2>3. BytesOf(d, f) \in Seq(Byte) /\ Len(BytesOf(d, f)) = 0
    BY <2>2
  <2>4. QED
    BY <1>2, <2>1, <2>3
<1>6. QED
  BY <1>4, <1>5

(* What that says of a state of the program.                                  *)
LEMMA BytesOnDisk ==
  ASSUME OneBlock, disk \in Disk, NEW f \in Files, disk.size[f] \in 0 .. MAX_SIZE
  PROVE  /\ DiskBytes(f) = BytesOf(disk, f)
         /\ DiskBytes(f) \in Seq(Byte)
         /\ Len(DiskBytes(f)) = IF disk.size[f] = 0 THEN 0 ELSE disk.size[f] - 1
         /\ \A i \in 1 .. disk.size[f] - 1 : DiskBytes(f)[i] = disk.data[f][0][i - 1]
<1>1. DiskBytes(f) = BytesOf(disk, f)
  BY DEF DiskBytes, BytesOf
<1>2. QED
  BY <1>1, BytesOfDisk

-----------------------------------------------------------------------------

LEMMA InitNumbers == ASSUME OneBlock PROVE Init => Numbers
<1> SUFFICES ASSUME Init PROVE Numbers
  OBVIOUS
<1>1. \A f \in Files : /\ IMAGE[f] \in Seq(Bytes) /\ IMAGE[f] \in Seq(Byte)
                       /\ Len(IMAGE[f]) \in 0 .. MAX_SIZE
                       /\ inode_size[f] = Len(IMAGE[f])
  BY ImageAssumption, Numerals DEF Init, Byte
<1>2. call = Idle /\ disk.size = inode_size /\ returned = NULL /\ crashes = 0
      /\ written = [f \in Files |-> SubSeq(IMAGE[f], 1, Len(IMAGE[f]) - 1)]
  BY DEF Init
<1>3. \A f \in Files :
        /\ written[f] \in Seq(Byte)
        /\ Len(written[f]) = IF inode_size[f] = 0 THEN 0 ELSE inode_size[f] - 1
        /\ \A i \in 1 .. Len(written[f]) : written[f][i] = IMAGE[f][i] /\ i \in DOMAIN IMAGE[f]
  <2> SUFFICES ASSUME NEW f \in Files
               PROVE  /\ written[f] \in Seq(Byte)
                      /\ Len(written[f]) = IF inode_size[f] = 0 THEN 0 ELSE inode_size[f] - 1
                      /\ \A i \in 1 .. Len(written[f]) :
                           written[f][i] = IMAGE[f][i] /\ i \in DOMAIN IMAGE[f]
    OBVIOUS
  <2> DEFINE s == IMAGE[f]
             n == Len(s) - 1
  <2>1. written[f] = SubSeq(s, 1, n)
    BY <1>2
  <2>2. s \in Seq(Byte) /\ Len(s) \in Nat /\ n \in Int /\ n + 1 = inode_size[f]
        /\ DOMAIN s = 1 .. Len(s)
    BY <1>1
  <2> HIDE DEF n, s
  <2>3. \A i \in 1 .. n : s[i] \in Byte
    BY <2>2 DEF n
  <2>4. /\ SubSeq(s, 1, n) \in Seq(Byte)
        /\ Len(SubSeq(s, 1, n)) = IF 1 <= n THEN n - 1 + 1 ELSE 0
        /\ \A i \in 1 .. n - 1 + 1 : SubSeq(s, 1, n)[i] = s[1 + i - 1]
    BY <2>2, <2>3, SubSeqProperties
  <2>5. Len(written[f]) = IF inode_size[f] = 0 THEN 0 ELSE inode_size[f] - 1
    BY <2>1, <2>2, <2>4 DEF n
  <2>6. ASSUME NEW i \in 1 .. Len(written[f])
        PROVE  written[f][i] = s[i] /\ i \in DOMAIN s
    <3>1. i \in 1 .. n
      BY <2>1, <2>2, <2>4
    <3>2. i \in 1 .. n - 1 + 1 /\ 1 + i - 1 = i
      BY <2>2, <3>1
    <3>3. QED
      BY <2>1, <2>2, <2>4, <3>1, <3>2 DEF n
  <2>7. QED
    BY <2>1, <2>4, <2>5, <2>6 DEF s
<1>4. Bounds
  <2>1. written \in [Files -> Seq(Byte)]
    <3>1. written = [f \in Files |-> written[f]]
      BY <1>2
    <3>2. QED
      BY <1>3, <3>1
  <2>2. inode_size \in [Files -> 0 .. MAX_SIZE]
    BY <1>1 DEF Init
  <2>3. QED
    BY <1>2, <2>1, <2>2, BoundsAssumption DEF Bounds
<1>5. SizesOnDisk
  <2>1. \A f \in Files : file[f] = NULL
    BY DEF Init
  <2>2. \A f \in Files : 0 \in disk.allocated[f] => 0 < inode_size[f]
    <3> SUFFICES ASSUME NEW f \in Files, 0 \in disk.allocated[f]
                 PROVE  0 < inode_size[f]
      OBVIOUS
    <3>1. disk.allocated = [g \in Files |-> {k \in Indices : k * BLOCK < inode_size[g]}]
      BY DEF Init
    <3>2. 0 * BLOCK < inode_size[f] /\ 0 * BLOCK = 0
      BY <3>1, BlocksAssumption
    <3>3. QED
      BY <3>2
  <2>3. QED
    BY <1>1, <1>2, <2>1, <2>2 DEF SizesOnDisk
<1>6. OffsetsWithin
  BY DEF Init, OffsetsWithin
<1>7. SizesCount
  BY <1>3 DEF SizesCount
<1>8. FirstBlockHolds
  <2> SUFFICES ASSUME NEW f \in Files, NEW i \in 1 .. Len(written[f])
               PROVE  disk.data[f][0][i - 1] = written[f][i]
    BY DEF FirstBlockHolds
  <2>1. /\ i \in DOMAIN IMAGE[f] /\ written[f][i] = IMAGE[f][i]
        /\ i - 1 \in Positions /\ 0 * BLOCK + (i - 1) + 1 = i
    <3>1. Len(IMAGE[f]) \in Nat /\ DOMAIN IMAGE[f] = 1 .. Len(IMAGE[f])
          /\ Len(IMAGE[f]) <= MAX_SIZE
      BY <1>1
    <3>2. i \in DOMAIN IMAGE[f] /\ written[f][i] = IMAGE[f][i] /\ i \in Int
      BY <1>3
    <3>3. i \in 1 .. BLOCK
      BY <3>1, <3>2, Numerals
    <3>4. QED
      BY <3>2, <3>3, Numerals
  <2>2. disk.data = [g \in Files |-> [k \in Indices |-> [l \in Positions |->
                       LET j == k * BLOCK + l + 1
                       IN  IF j \in DOMAIN IMAGE[g] THEN IMAGE[g][j] ELSE ZERO]]]
    BY DEF Init
  <2>3. QED
    BY <2>1, <2>2, Numerals
<1>9. Writing /\ Reading
  BY <1>2 DEF Writing, Reading, Idle
<1>10. QED
  BY <1>4, <1>5, <1>6, <1>7, <1>8, <1>9 DEF Numbers

LEMMA OpenNumbers ==
  ASSUME OneBlock, FInv, NEW p \in Procs, NEW f \in Files, open(p, f)
  PROVE  Numbers'
<1>1. call = Idle /\ UNCHANGED <<inode_size, disk, call, written, crashes>> /\ returned' = NULL
  BY DEF open
<1>2. offset' = [offset EXCEPT ![p][f] = 0]
  BY DEF open
<1>3. file' = [file EXCEPT ![f] =
                 IF file[f] # NULL THEN file[f]
                 ELSE [allocated |-> disk.allocated[f], blocks |-> NoBlocks]]
  BY DEF open
<1>4. Bounds'
  BY <1>1 DEF FInv, Numbers, Bounds
<1>5. SizesOnDisk'
  <2>1. \A g \in Files : file'[g] = file[g] \/ file'[g].allocated = disk.allocated[g]
    BY <1>3 DEF FInv, IInv, Shape
  <2>2. QED
    BY <1>1, <2>1 DEF FInv, Numbers, SizesOnDisk
<1>6. OffsetsWithin'
  <2>1. \A q \in Procs, g \in Files : offset'[q][g] \in {offset[q][g], 0}
    BY <1>2 DEF FInv, IInv, Shape
  <2>2. \A g \in Files : Len(written[g]) \in Nat
    BY DEF FInv, Numbers, Bounds
  <2>3. \A g \in Files : 0 \in 0 .. Len(written[g])
    BY <2>2
  <2>4. QED
    BY <1>1, <2>1, <2>3 DEF FInv, Numbers, OffsetsWithin
<1>7. SizesCount' /\ FirstBlockHolds'
  BY <1>1 DEF FInv, Numbers, SizesCount, FirstBlockHolds
<1>8. Writing' /\ Reading'
  BY <1>1 DEF Writing, Reading, Idle
<1>9. QED
  BY <1>4, <1>5, <1>6, <1>7, <1>8 DEF Numbers

LEMMA CloseNumbers ==
  ASSUME OneBlock, FInv, NEW p \in Procs, NEW f \in Files, close(p, f)
  PROVE  Numbers'
<1>1. call = Idle /\ UNCHANGED <<inode_size, disk, call, written, crashes>> /\ returned' = NULL
  BY DEF close
<1>2. offset' = [offset EXCEPT ![p][f] = NULL]
  BY DEF close
<1>3. file' = [file EXCEPT ![f] =
                 IF \E q \in Procs \ {p} : offset[q][f] # NULL THEN file[f] ELSE NULL]
  BY DEF close
<1>4. Bounds'
  BY <1>1 DEF FInv, Numbers, Bounds
<1>5. SizesOnDisk'
  <2>1. \A g \in Files : file'[g] \in {file[g], NULL}
    BY <1>3 DEF FInv, IInv, Shape
  <2>2. QED
    BY <1>1, <2>1 DEF FInv, Numbers, SizesOnDisk
<1>6. OffsetsWithin'
  <2>1. \A q \in Procs, g \in Files : offset'[q][g] \in {offset[q][g], NULL}
    BY <1>2 DEF FInv, IInv, Shape
  <2>2. QED
    BY <1>1, <2>1 DEF FInv, Numbers, OffsetsWithin
<1>7. SizesCount' /\ FirstBlockHolds'
  BY <1>1 DEF FInv, Numbers, SizesCount, FirstBlockHolds
<1>8. Writing' /\ Reading'
  BY <1>1 DEF Writing, Reading, Idle
<1>9. QED
  BY <1>4, <1>5, <1>6, <1>7, <1>8 DEF Numbers

-----------------------------------------------------------------------------

(* Between two calls the size of a file that somebody has open is known.      *)
LEMMA OffsetOfFile ==
  ASSUME OneBlock, FInv, NEW p \in Procs, NEW f \in Files, offset[p][f] # NULL
  PROVE  /\ offset[p][f] \in Nat /\ Len(written[f]) \in Nat /\ inode_size[f] \in 0 .. MAX_SIZE
         /\ offset[p][f] <= Len(written[f])
         /\ offset[p][f] < BLOCK
         /\ call = Idle =>
              Len(written[f]) = IF inode_size[f] = 0 THEN 0 ELSE inode_size[f] - 1
<1>1. Len(written[f]) \in Nat /\ inode_size[f] \in 0 .. MAX_SIZE
  BY DEF FInv, Numbers, Bounds
<1>2. offset[p][f] \in 0 .. Len(written[f])
  BY DEF FInv, Numbers, OffsetsWithin
<1>3. \/ Len(written[f]) = IF inode_size[f] = 0 THEN 0 ELSE inode_size[f] - 1
      \/ call.op = "write" /\ Len(written[f]) < inode_size[f]
  BY DEF FInv, Numbers, SizesCount
<1>4. call = Idle =>
        Len(written[f]) = IF inode_size[f] = 0 THEN 0 ELSE inode_size[f] - 1
  BY <1>3 DEF Idle
<1>5. offset[p][f] < BLOCK
  BY <1>1, <1>2, <1>3, Numerals
<1>6. QED
  BY <1>1, <1>2, <1>4, <1>5

LEMMA StartWriteNumbers ==
  ASSUME OneBlock, FInv, NEW p \in Procs, NEW f \in Files, NEW d \in Data, StartWrite(p, f, d)
  PROVE  Numbers'
<1>0. PICK o, n, x, c :
        /\ o = offset[p][f] /\ n = Len(d)
        /\ x = (o + n >= inode_size[f])
        /\ c = IF x THEN n + 1 ELSE n
  OBVIOUS
<1>1. /\ call = Idle /\ UNCHANGED <<file, offset, written, crashes>> /\ returned' = NULL
      /\ o # NULL /\ o + n + 1 <= MAX_SIZE
  BY <1>0 DEF StartWrite
<1>2. /\ o \in Nat /\ Len(written[f]) \in Nat /\ inode_size[f] \in 0 .. MAX_SIZE
      /\ o <= Len(written[f]) /\ o < BLOCK
      /\ Len(written[f]) = IF inode_size[f] = 0 THEN 0 ELSE inode_size[f] - 1
  BY <1>0, <1>1, OffsetOfFile
<1>3. n \in Nat /\ n # 0 /\ x \in BOOLEAN
  BY <1>0, TransfersAssumption
<1>4. PICK s : s = IF x THEN o + n + 1 ELSE inode_size[f]
  OBVIOUS
<1>5. inode_size' = [inode_size EXCEPT ![f] = s]
  BY <1>0, <1>4 DEF StartWrite
<1>19. PICK z, w : z = inode_size[f] /\ w = Len(written[f])
  OBVIOUS
<1>20. /\ z \in Nat /\ z <= MAX_SIZE /\ MAX_SIZE \in Nat /\ w \in Nat
       /\ w = IF z = 0 THEN 0 ELSE z - 1
  BY <1>2, <1>19, Numerals
<1>21. ASSUME x
       PROVE  /\ s \in 0 .. MAX_SIZE /\ z <= s /\ s # 0 /\ w < s
              /\ c = n + 1 /\ s = o + n + 1 /\ w <= o + n
  <2>1. o + n >= z /\ s = o + n + 1 /\ c = n + 1
    BY <1>0, <1>4, <1>19, <1>21
  <2>2. /\ s \in 0 .. MAX_SIZE /\ z <= s /\ s # 0 /\ w < s
        /\ c = n + 1 /\ s = o + n + 1 /\ w <= o + n
    BY <1>1, <1>2, <1>3, <1>20, <2>1
  <2>3. QED
    BY <2>2
<1>22. ASSUME ~x
       PROVE  /\ s \in 0 .. MAX_SIZE /\ z <= s /\ s # 0 /\ w < s
              /\ c = n /\ s = w + 1 /\ o + n <= w
  <2>1. ~(o + n >= z) /\ s = z /\ c = n
    BY <1>0, <1>4, <1>19, <1>22
  <2>2. /\ s \in 0 .. MAX_SIZE /\ z <= s /\ s # 0 /\ w < s
        /\ c = n /\ s = w + 1 /\ o + n <= w
    BY <1>1, <1>2, <1>3, <1>20, <2>1
  <2>3. QED
    BY <2>2
<1>6. s \in 0 .. MAX_SIZE /\ inode_size[f] <= s /\ s # 0 /\ Len(written[f]) < s
  <2>1. CASE x
    BY <1>19, <1>21, <2>1
  <2>2. CASE ~x
    BY <1>19, <1>22, <2>2
  <2>3. QED
    BY <2>1, <2>2
<1>7. call' = [op |-> "write", proc |-> p, file |-> f, asked |-> n, buff |-> d,
               count |-> c, total |-> n, left |-> BlocksOf(o, n), index |-> 0,
               data_offset |-> o % BLOCK, buff_offset |-> 0, end_of_file |-> x]
  BY <1>0 DEF StartWrite
<1>8. BlocksOf(o, n) = 1 /\ o % BLOCK = o
  <2>1. o + n <= BLOCK /\ o \in 0 .. BLOCK - 1
    BY <1>1, <1>2, <1>3, Numerals
  <2>2. QED
    BY <1>2, <1>3, <2>1, OneBlockOnly, InBlock
<1>9. Bounds'
  BY <1>1, <1>5, <1>6 DEF FInv, Numbers, Bounds
<1>10. disk'.size = inode_size' /\ disk'.allocated = disk.allocated /\ disk'.data = disk.data
  <2>1. disk' = IF x THEN [disk EXCEPT !.size = inode_size'] ELSE disk
    BY <1>0 DEF StartWrite
  <2>2. ~x => inode_size' = inode_size
    BY <1>4, <1>5 DEF FInv, Numbers, Bounds
  <2>3. QED
    BY <2>1, <2>2 DEF FInv, IInv, Shape, Disk, Numbers, SizesOnDisk
<1>11. SizesOnDisk'
  <2>1. \A g \in Files : inode_size[g] # 0 => inode_size'[g] # 0
    BY <1>5, <1>6 DEF FInv, Numbers, Bounds
  <2>2. QED
    BY <1>1, <1>10, <2>1 DEF FInv, Numbers, SizesOnDisk
<1>12. OffsetsWithin'
  BY <1>1 DEF FInv, Numbers, OffsetsWithin
<1>13. call'.op = "write" /\ call'.file = f /\ call'.proc = p /\ call'.buff = d
  BY <1>7
<1>14. SizesCount'
  <2> SUFFICES ASSUME NEW g \in Files
               PROVE  \/ Len(written[g]) = IF inode_size'[g] = 0 THEN 0 ELSE inode_size'[g] - 1
                      \/ f = g /\ Len(written[g]) < inode_size'[g]
    BY <1>1, <1>13 DEF SizesCount
  <2>1. CASE g = f
    BY <1>5, <1>6, <2>1 DEF FInv, Numbers, Bounds
  <2>2. CASE g # f
    BY <1>1, <1>5, <2>2 DEF FInv, Numbers, SizesCount, Idle, Bounds
  <2>3. QED
    BY <2>1, <2>2
<1>15. FirstBlockHolds'
  BY <1>1, <1>10 DEF FInv, Numbers, FirstBlockHolds
<1>16. Writing'
  <2>1. inode_size'[f] = s
    BY <1>5 DEF FInv, Numbers, Bounds
  <2>2. IF x THEN c = n + 1 /\ s = o + n + 1 /\ Len(written[f]) <= o + n
        ELSE c = n /\ s = Len(written[f]) + 1 /\ o + n <= Len(written[f])
    BY <1>19, <1>21, <1>22
  <2>3. /\ call'.asked = n /\ call'.total = n /\ call'.left = 1 /\ call'.index = 0
        /\ call'.data_offset = o /\ call'.buff_offset = 0
        /\ call'.end_of_file = x /\ call'.count = c
    BY <1>7, <1>8
  <2>5. /\ offset'[call'.proc][call'.file] = o /\ Len(call'.buff) = n
        /\ inode_size'[call'.file] = s
        /\ Len(written'[call'.file]) = Len(written[f])
    BY <1>0, <1>1, <1>13, <2>1
  <2>6. QED
    BY <1>1, <1>13, <2>2, <2>3, <2>5 DEF Writing, Writes, Within
<1>17. Reading'
  BY <1>13 DEF Reading
<1>18. QED
  BY <1>9, <1>11, <1>12, <1>14, <1>15, <1>16, <1>17 DEF Numbers

LEMMA StartReadNumbers ==
  ASSUME OneBlock, FInv, NEW p \in Procs, NEW f \in Files, NEW n \in Counts, StartRead(p, f, n)
  PROVE  Numbers'
<1>0. PICK o, c, w :
        /\ o = offset[p][f] /\ w = Len(written[f])
        /\ c = IF n + o >= inode_size[f] THEN inode_size[f] - o - 1 ELSE n
  OBVIOUS
<1>1. /\ call = Idle /\ UNCHANGED <<inode_size, file, offset, disk, written, crashes>>
      /\ returned' = NULL
      /\ o # NULL /\ 0 \in file[f].allocated
  BY <1>0 DEF StartRead
<1>2. /\ o \in Nat /\ w \in Nat /\ inode_size[f] \in 0 .. MAX_SIZE
      /\ o <= w /\ o < BLOCK
      /\ w = IF inode_size[f] = 0 THEN 0 ELSE inode_size[f] - 1
  BY <1>0, <1>1, OffsetOfFile
<1>3. n \in Nat
  BY TransfersAssumption
<1>4. inode_size[f] # 0
  <2>1. file[f] # NULL
    BY <1>0, <1>1, DescriptorExists DEF FInv, IInv, OpenOK
  <2>2. QED
    BY <1>1, <2>1 DEF FInv, Numbers, SizesOnDisk
<1>5. c \in Nat /\ o + c <= BLOCK /\ c = IF o + n <= w THEN n ELSE w - o
  <2>1. PICK s : s = inode_size[f]
    OBVIOUS
  <2>2. s \in Nat /\ s <= BLOCK /\ BLOCK \in Nat /\ w = s - 1 /\ s # 0
    BY <1>2, <1>4, <2>1, Numerals
  <2>3. CASE n + o >= s
    <3>1. c = s - o - 1
      BY <1>0, <2>1, <2>3
    <3>2. QED
      BY <1>2, <1>3, <2>2, <2>3, <3>1
  <2>4. CASE ~(n + o >= s)
    <3>1. c = n
      BY <1>0, <2>1, <2>4
    <3>2. QED
      BY <1>2, <1>3, <2>2, <2>4, <3>1
  <2>5. QED
    BY <2>3, <2>4
<1>6. call' = [op |-> "read", proc |-> p, file |-> f, asked |-> n, buff |-> <<>>,
               count |-> c, total |-> c, left |-> BlocksOf(o, c), index |-> 0,
               data_offset |-> o % BLOCK, buff_offset |-> 0, end_of_file |-> FALSE]
  BY <1>0 DEF StartRead
<1>7. BlocksOf(o, c) = 1 /\ o % BLOCK = o
  <2>1. o \in 0 .. BLOCK - 1
    BY <1>2, Numerals
  <2>2. QED
    BY <1>2, <1>5, <2>1, OneBlockOnly, InBlock
<1>8. Bounds' /\ SizesOnDisk' /\ OffsetsWithin' /\ FirstBlockHolds'
  BY <1>1 DEF FInv, Numbers, Bounds, SizesOnDisk, OffsetsWithin, FirstBlockHolds
<1>9. SizesCount'
  BY <1>1 DEF FInv, Numbers, SizesCount, Idle
<1>10. /\ call'.op = "read" /\ call'.file = f /\ call'.proc = p /\ call'.buff = <<>>
       /\ call'.asked = n /\ call'.count = c /\ call'.total = c /\ call'.left = 1
       /\ call'.index = 0 /\ call'.data_offset = o /\ call'.buff_offset = 0
       /\ call'.end_of_file = FALSE
  BY <1>6, <1>7
<1>11. Writing'
  BY <1>10 DEF Writing
<1>12. Reading'
  <2>1. offset'[call'.proc][call'.file] = o /\ inode_size'[call'.file] # 0
        /\ Len(written'[call'.file]) = w
    BY <1>0, <1>1, <1>4, <1>10
  <2>2. QED
    BY <1>5, <1>10, <2>1 DEF Reading, Reads, Within
<1>13. QED
  BY <1>8, <1>9, <1>11, <1>12 DEF Numbers

LEMMA AllocateNumbers ==
  ASSUME OneBlock, FInv, AllocateBlock
  PROVE  Numbers'
<1> DEFINE f == call.file
           list == file[f].allocated \cup {call.index}
           e == [file[f] EXCEPT !.allocated = list]
           a == [disk.allocated EXCEPT ![f] = list]
<1>1. UNCHANGED <<inode_size, offset, call, written, crashes>> /\ returned' = NULL
      /\ call.op = "write"
  BY DEF AllocateBlock
<1>2. f \in Files /\ file[f] \in Descriptor /\ file[f] # NULL
  BY <1>1, Caller, DescriptorExists DEF FInv
<1>3. file' = [file EXCEPT ![f] = e] /\ disk' = [disk EXCEPT !.allocated = a]
  BY DEF AllocateBlock
<1>4. inode_size[f] # 0
  <2>1. offset[call.proc][f] # NULL /\ call.proc \in Procs
    BY <1>1, Caller DEF FInv
  <2>2. /\ offset[call.proc][f] \in Nat /\ Len(written[f]) \in Nat
        /\ inode_size[f] \in 0 .. MAX_SIZE
    BY <1>2, <2>1, OffsetOfFile
  <2>3. Writes(offset[call.proc][f], Len(call.buff), inode_size[f], Len(written[f]))
    BY <1>1 DEF FInv, Numbers, Writing
  <2>4. Len(call.buff) \in Nat
    BY <1>1, Caller DEF FInv, Calling
  <2>5. QED
    BY <2>2, <2>3, <2>4 DEF Writes
<1>5. disk'.size = disk.size /\ disk'.data = disk.data /\ disk'.allocated = a
  BY <1>3 DEF FInv, IInv, Shape, Disk
<1>6. \A g \in Files : g # f => a[g] = disk.allocated[g] /\ file'[g] = file[g]
  BY <1>3 DEF FInv, IInv, Shape, Disk
<1> HIDE DEF f, list, e, a
<1>7. SizesOnDisk'
  <2> SUFFICES ASSUME NEW g \in Files
               PROVE  /\ 0 \in a[g] => inode_size[g] # 0
                      /\ file'[g] # NULL => (0 \in file'[g].allocated => inode_size[g] # 0)
    BY <1>1, <1>5 DEF FInv, Numbers, SizesOnDisk
  <2>1. CASE g = f
    BY <1>4, <2>1
  <2>2. CASE g # f
    BY <1>6, <2>2 DEF FInv, Numbers, SizesOnDisk
  <2>3. QED
    BY <2>1, <2>2
<1>8. Bounds' /\ OffsetsWithin' /\ SizesCount'
  BY <1>1 DEF FInv, Numbers, Bounds, OffsetsWithin, SizesCount
<1>9. FirstBlockHolds'
  BY <1>1, <1>5 DEF FInv, Numbers, FirstBlockHolds
<1>10. Writing' /\ Reading'
  BY <1>1 DEF FInv, Numbers, Writing, Reading, Writes, Reads, Within
<1>11. QED
  BY <1>7, <1>8, <1>9, <1>10 DEF Numbers

-----------------------------------------------------------------------------

(* The bytes with others written over them.                                   *)
LEMMA Overwritten ==
  ASSUME NEW c \in Seq(Byte), NEW d \in Seq(Byte), NEW o \in 0 .. Len(c)
  PROVE  /\ Overwrite(c, o, d) \in Seq(Byte)
         /\ Len(Overwrite(c, o, d)) = IF o + Len(d) > Len(c) THEN o + Len(d) ELSE Len(c)
         /\ \A i \in 1 .. Len(Overwrite(c, o, d)) :
              Overwrite(c, o, d)[i] = IF i \in o + 1 .. o + Len(d) THEN d[i - o] ELSE c[i]
<1>1. PICK k, n, m : k = Len(c) /\ n = Len(d) /\ m = IF o + n > k THEN o + n ELSE k
  OBVIOUS
<1>2. k \in Nat /\ n \in Nat /\ o \in Nat /\ o <= k
  BY <1>1
<1>3. m \in Nat /\ k <= m /\ o + n <= m
  BY <1>1, <1>2
<1>4. m = k \/ m = o + n
  BY <1>1
<1>5. (\A i \in 1 .. k : c[i] \in Byte) /\ (\A i \in 1 .. n : d[i] \in Byte)
  BY <1>1
<1> DEFINE e(i) == IF i \in o + 1 .. o + n THEN d[i - o] ELSE c[i]
           v == [i \in 1 .. m |-> e(i)]
<1>6. Overwrite(c, o, d) = v
  BY <1>1 DEF Overwrite
<1>7. \A i \in 1 .. m : e(i) \in Byte
  <2> SUFFICES ASSUME NEW i \in 1 .. m PROVE e(i) \in Byte
    OBVIOUS
  <2>1. CASE i \in o + 1 .. o + n
    <3>1. i - o \in 1 .. n
      BY <1>2, <2>1
    <3>2. QED
      BY <1>5, <2>1, <3>1
  <2>2. CASE i \notin o + 1 .. o + n
    <3>1. i \in 1 .. k
      BY <1>2, <1>3, <1>4, <2>2
    <3>2. QED
      BY <1>5, <2>2, <3>1
  <2>3. QED
    BY <2>1, <2>2
<1>8. v \in [1 .. m -> Byte]
  <2> HIDE DEF e
  <2>1. QED
    BY <1>7
<1>9. \A i \in 1 .. m : v[i] = e(i)
  <2> HIDE DEF e
  <2>1. QED
    OBVIOUS
<1> HIDE DEF v
<1>10. v \in Seq(Byte) /\ Len(v) = m
  BY <1>3, <1>8
<1>11. QED
  <2>1. Len(v) = IF o + Len(d) > Len(c) THEN o + Len(d) ELSE Len(c)
    BY <1>1, <1>10
  <2>2. \A i \in 1 .. Len(v) :
          v[i] = IF i \in o + 1 .. o + Len(d) THEN d[i - o] ELSE c[i]
    BY <1>1, <1>9, <1>10
  <2>3. QED
    BY <1>6, <1>10, <2>1, <2>2

\* The file, the offset and the lengths a call is about.
Of(f, o, n, w) ==
  f = call.file /\ o = offset[call.proc][f] /\ n = Len(call.buff) /\ w = Len(written[f])

(* A write that is going on, within the first block.                          *)
LEMMA WriteNumbers ==
  ASSUME OneBlock, FInv, call.op = "write",
         NEW f, NEW o, NEW n, NEW w, Of(f, o, n, w)
  PROVE  /\ call.proc \in Procs /\ f \in Files /\ call.buff \in Seq(Byte)
         /\ call.buff \in Data /\ offset[call.proc][f] # NULL
         /\ o \in Nat /\ n \in Nat \ {0} /\ w \in Nat /\ o <= w
         /\ call.total = n /\ call.left = 1 /\ call.index = 0 /\ call.asked = n
         /\ call.data_offset = o /\ call.buff_offset = 0
         /\ call.end_of_file \in BOOLEAN
         /\ call.count \in 1 .. BLOCK
         /\ call.count = IF call.end_of_file THEN n + 1 ELSE n
         /\ inode_size[f] = (IF o + n > w THEN o + n ELSE w) + 1
         /\ call.end_of_file => w <= o + n
         /\ ~call.end_of_file => o + n <= w
         /\ inode_size[f] \in 1 .. MAX_SIZE
         /\ \A g \in Files \ {f} :
              Len(written[g]) = IF inode_size[g] = 0 THEN 0 ELSE inode_size[g] - 1
<1>1. /\ call \in Calling /\ call.proc \in Procs /\ f \in Files
      /\ offset[call.proc][f] # NULL
  BY Caller DEF FInv, Of
<1>2. call.buff \in Data /\ Writes(o, n, inode_size[f], w)
  BY DEF FInv, Numbers, Writing, Of
<1>3. call.buff \in Seq(Byte) /\ n \in Nat \ {0}
  BY <1>2, TransfersAssumption DEF Byte, Of
<1>4. o \in Nat /\ w \in Nat /\ inode_size[f] \in 0 .. MAX_SIZE /\ o <= w
  BY <1>1, OffsetOfFile DEF Of
<1>5. call.end_of_file \in BOOLEAN
  BY <1>1 DEF Calling
<1>6. /\ call.total = n /\ call.left = 1 /\ call.index = 0 /\ call.asked = n
      /\ call.data_offset = o /\ call.buff_offset = 0
      /\ IF call.end_of_file
           THEN call.count = n + 1 /\ inode_size[f] = o + n + 1 /\ w <= o + n
           ELSE call.count = n /\ inode_size[f] = w + 1 /\ o + n <= w
  BY <1>2 DEF Writes, Within
<1>11. PICK s, c : s = inode_size[f] /\ c = call.count
  OBVIOUS
<1>12. s \in Nat /\ s <= MAX_SIZE /\ MAX_SIZE \in Nat /\ BLOCK \in Nat /\ MAX_SIZE <= BLOCK
  BY <1>4, <1>11, Numerals
<1>13. \/ c = n + 1 /\ s = o + n + 1 /\ w <= o + n
       \/ c = n /\ s = w + 1 /\ o + n <= w
  BY <1>6, <1>11
<1>14. /\ s = (IF o + n > w THEN o + n ELSE w) + 1 /\ s \in 1 .. MAX_SIZE
       /\ c \in 1 .. BLOCK
  <2>1. n \in Nat /\ n # 0 /\ o \in Nat /\ w \in Nat /\ o <= w
    BY <1>3, <1>4
  <2>2. CASE c = n + 1 /\ s = o + n + 1 /\ w <= o + n
    BY <1>12, <2>1, <2>2
  <2>3. CASE c = n /\ s = w + 1 /\ o + n <= w
    BY <1>12, <2>1, <2>3
  <2>4. QED
    BY <1>13, <2>2, <2>3
<1>7. inode_size[f] = (IF o + n > w THEN o + n ELSE w) + 1
      /\ inode_size[f] \in 1 .. MAX_SIZE
  BY <1>11, <1>14
<1>8. call.count \in 1 .. BLOCK
  BY <1>11, <1>14
<1>9. \A g \in Files \ {f} :
        Len(written[g]) = IF inode_size[g] = 0 THEN 0 ELSE inode_size[g] - 1
  BY DEF FInv, Numbers, SizesCount, Of
<1>10. QED
  BY <1>1, <1>2, <1>3, <1>4, <1>5, <1>6, <1>7, <1>8, <1>9

(* What the file has when it is over.                                         *)
LEMMA WrittenOver ==
  ASSUME OneBlock, FInv, call.op = "write",
         NEW f, NEW o, NEW n, NEW w, Of(f, o, n, w),
         NEW W, W = Overwrite(written[f], o, call.buff)
  PROVE  /\ W \in Seq(Byte)
         /\ Len(W) = IF o + n > w THEN o + n ELSE w
         /\ \A i \in 1 .. Len(W) :
              W[i] = IF i \in o + 1 .. o + n THEN call.buff[i - o] ELSE written[f][i]
<1>1. f \in Files /\ call.buff \in Seq(Byte) /\ o \in Nat /\ w \in Nat /\ o <= w
  BY WriteNumbers
<1>2. PICK v, b : v = written[f] /\ b = call.buff
  OBVIOUS
<1>3. v \in Seq(Byte)
  BY <1>1, <1>2 DEF FInv, Numbers, Bounds
<1>4. b \in Seq(Byte) /\ Len(b) = n /\ Len(v) = w
  BY <1>1, <1>2 DEF Of
<1>5. o \in 0 .. Len(v)
  BY <1>1, <1>4
<1>6. W = Overwrite(v, o, b)
  BY <1>2
<1>7. /\ W \in Seq(Byte)
      /\ Len(W) = IF o + Len(b) > Len(v) THEN o + Len(b) ELSE Len(v)
      /\ \A i \in 1 .. Len(W) : W[i] = IF i \in o + 1 .. o + Len(b) THEN b[i - o] ELSE v[i]
  BY <1>3, <1>4, <1>5, <1>6, Overwritten
<1>8. QED
  BY <1>2, <1>4, <1>7

(* What it puts into the block.                                               *)
LEMMA NewBlockBytes ==
  ASSUME OneBlock, FInv, call.op = "write",
         NEW f, NEW o, NEW n, NEW w, Of(f, o, n, w)
  PROVE  /\ NewBlock \in Block
         /\ \A i \in Positions :
              NewBlock[i] = IF i \in o .. o + n - 1 THEN call.buff[i - o + 1]
                            ELSE IF call.end_of_file /\ i = o + n THEN EOF
                            ELSE disk.data[f][0][i]
<1>1. /\ f \in Files /\ call.buff \in Seq(Byte)
      /\ o \in Nat /\ n \in Nat \ {0}
      /\ call.index = 0 /\ call.data_offset = o /\ call.buff_offset = 0
      /\ call.end_of_file \in BOOLEAN
      /\ call.count \in 1 .. BLOCK
      /\ call.count = IF call.end_of_file THEN n + 1 ELSE n
  BY WriteNumbers
<1>2. Chunk(call.count) = call.count
  BY <1>1, ChunkIsAll, Numerals
<1>3. CurrentBlock = disk.data[f][0]
  BY <1>1, CurrentIsBlock, Numerals DEF FInv, Of
<1>4. DOMAIN call.buff = 1 .. n
  BY <1>1 DEF Of
<1>5. ASSUME NEW i \in Positions
      PROVE  NewBlock[i] = IF i \in o .. o + n - 1 THEN call.buff[i - o + 1]
                           ELSE IF call.end_of_file /\ i = o + n THEN EOF
                           ELSE disk.data[f][0][i]
  <2> DEFINE c == call.count
  <2>1. NewBlock[i] =
          IF call.end_of_file /\ i = o + c - 1 THEN EOF
          ELSE IF i \notin o .. o + c - 1 THEN disk.data[f][0][i]
          ELSE IF 0 + (i - o) + 1 \in 1 .. n THEN call.buff[0 + (i - o) + 1]
          ELSE ZERO
    BY <1>1, <1>2, <1>3, <1>4 DEF NewBlock
  <2>2. i \in Nat
    BY Numerals
  <2>3. c = (IF call.end_of_file THEN n + 1 ELSE n) /\ 0 + (i - o) + 1 = i - o + 1
    BY <1>1, <2>2
  <2> HIDE DEF c
  <2>4. CASE call.end_of_file
    <3>1. c = n + 1
      BY <2>3, <2>4
    <3>2. /\ i = o + n <=> i = o + c - 1
          /\ i \in o .. o + n - 1 => i \in o .. o + c - 1 /\ i - o + 1 \in 1 .. n /\ i # o + n
          /\ i \notin o .. o + n - 1 => i = o + n \/ i \notin o .. o + c - 1
      <4>1. n \in Nat /\ o \in Nat
        BY <1>1
      <4>2. QED
        BY <2>2, <3>1, <4>1
    <3>3. QED
      BY <2>1, <2>3, <2>4, <3>2
  <2>5. CASE ~call.end_of_file
    <3>1. c = n
      BY <2>3, <2>5
    <3>2. i \in o .. o + n - 1 => i - o + 1 \in 1 .. n
      BY <1>1, <2>2
    <3>3. QED
      BY <2>1, <2>3, <2>5, <3>1, <3>2
  <2>6. QED
    BY <2>4, <2>5
<1>6. NewBlock \in Block
  BY <1>1, NewIsBlock, Numerals DEF FInv
<1>7. QED
  BY <1>5, <1>6

(* The last block of a write is its only one: the call is over.               *)
LEMMA WriteBlockEffect ==
  ASSUME OneBlock, FInv, WriteBlock,
         NEW f, NEW o, NEW n, NEW w, Of(f, o, n, w)
  PROVE  /\ inode_size' = inode_size /\ crashes' = crashes /\ returned' = NULL
         /\ call' = Idle
         /\ file' = WithCopy(f, 0, NewBlock) /\ disk' = WithData(f, 0, NewBlock)
         /\ offset' = [offset EXCEPT ![call.proc][f] = o + n]
         /\ written' = [written EXCEPT ![f] = Overwrite(written[f], o, call.buff)]
<1>1. call.op = "write"
  BY DEF WriteBlock, BlockReady
<1>2. call.left = 1 /\ call.index = 0 /\ call.total = n
  BY <1>1, WriteNumbers
<1>3. QED
  BY <1>2 DEF WriteBlock, Of, WithCopy, WithData

LEMMA WriteBlockNumbers ==
  ASSUME OneBlock, FInv, WriteBlock
  PROVE  Numbers'
<1>0. PICK f, o, n, w : Of(f, o, n, w)
  BY DEF Of
<1>1. call.op = "write"
  BY DEF WriteBlock, BlockReady
<1> DEFINE p == call.proc
           W == Overwrite(written[f], o, call.buff)
<1>2. /\ inode_size' = inode_size /\ crashes' = crashes /\ returned' = NULL
      /\ call' = Idle
      /\ file' = WithCopy(f, 0, NewBlock) /\ disk' = WithData(f, 0, NewBlock)
      /\ offset' = [offset EXCEPT ![p][f] = o + n]
      /\ written' = [written EXCEPT ![f] = W]
  BY <1>0, WriteBlockEffect
<1>3. /\ p \in Procs /\ f \in Files /\ call.buff \in Seq(Byte)
      /\ o \in Nat /\ n \in Nat \ {0} /\ w \in Nat /\ o <= w
      /\ call.end_of_file \in BOOLEAN
      /\ inode_size[f] = (IF o + n > w THEN o + n ELSE w) + 1
      /\ call.end_of_file => w <= o + n
      /\ inode_size[f] \in 1 .. MAX_SIZE
      /\ \A g \in Files \ {f} :
           Len(written[g]) = IF inode_size[g] = 0 THEN 0 ELSE inode_size[g] - 1
  BY <1>0, <1>1, WriteNumbers
<1>4. /\ NewBlock \in Block
      /\ \A i \in Positions :
           NewBlock[i] = IF i \in o .. o + n - 1 THEN call.buff[i - o + 1]
                         ELSE IF call.end_of_file /\ i = o + n THEN EOF
                         ELSE disk.data[f][0][i]
  BY <1>0, <1>1, NewBlockBytes
<1>5. written \in [Files -> Seq(Byte)] /\ n = Len(call.buff) /\ w = Len(written[f])
  BY <1>0 DEF FInv, Numbers, Bounds, Of
<1>6. /\ W \in Seq(Byte)
      /\ Len(W) = IF o + n > w THEN o + n ELSE w
      /\ \A i \in 1 .. Len(W) :
           W[i] = IF i \in o + 1 .. o + n THEN call.buff[i - o] ELSE written[f][i]
  BY <1>0, <1>1, WrittenOver
<1> HIDE DEF W
<1>7. /\ \A g \in Files : g # f => file'[g] = file[g]
      /\ file'[f].allocated = file[f].allocated
  <2>1. file[f] \in Descriptor
    BY <1>0, <1>1, Caller DEF FInv, Of
  <2>2. QED
    BY <1>2, <1>3, <1>4, <2>1, CopySet DEF FInv, IInv
<1>8. /\ disk'.size = disk.size /\ disk'.allocated = disk.allocated
      /\ \A g \in Files : g # f => disk'.data[g] = disk.data[g]
      /\ disk'.data[f][0] = NewBlock
  BY <1>2, <1>3, <1>4, DataSet, Numerals DEF FInv, IInv
<1>9. /\ written'[f] = W
      /\ \A g \in Files : g # f => written'[g] = written[g]
  BY <1>2, <1>3, <1>5
<1>10. Bounds'
  <2>1. written' \in [Files -> Seq(Byte)]
    BY <1>2, <1>5, <1>6
  <2>2. QED
    BY <1>2, <2>1 DEF FInv, Numbers, Bounds
<1>11. SizesOnDisk'
  <2> SUFFICES ASSUME NEW g \in Files
               PROVE  /\ 0 \in disk'.allocated[g] => inode_size[g] # 0
                      /\ file'[g] # NULL => (0 \in file'[g].allocated => inode_size[g] # 0)
    BY <1>2, <1>8 DEF FInv, Numbers, SizesOnDisk
  <2>1. CASE g = f
    BY <1>3, <2>1
  <2>2. CASE g # f
    BY <1>7, <1>8, <2>2 DEF FInv, Numbers, SizesOnDisk
  <2>3. QED
    BY <2>1, <2>2
<1>12. OffsetsWithin'
  <2> SUFFICES ASSUME NEW q \in Procs, NEW g \in Files, offset'[q][g] # NULL
               PROVE  offset'[q][g] \in 0 .. Len(written'[g])
    BY DEF OffsetsWithin
  <2>1. CASE q = p /\ g = f
    <3>1. offset'[q][g] = o + n
      BY <1>2, <1>3, <2>1 DEF FInv, IInv, Shape
    <3>2. o + n \in 0 .. Len(W)
      BY <1>3, <1>6
    <3>3. QED
      BY <1>9, <2>1, <3>1, <3>2
  <2>2. CASE ~(q = p /\ g = f)
    <3>1. offset'[q][g] = offset[q][g]
      BY <1>2, <1>3, <2>2 DEF FInv, IInv, Shape
    <3>2. offset[q][g] \in 0 .. Len(written[g])
      BY <3>1 DEF FInv, Numbers, OffsetsWithin
    <3>3. CASE g # f
      BY <1>9, <3>1, <3>2, <3>3
    <3>4. CASE g = f
      <4>1. offset[q][g] \in 0 .. w
        BY <1>5, <3>2, <3>4
      <4>2. offset[q][g] \in 0 .. Len(W)
        BY <1>3, <1>6, <4>1
      <4>3. QED
        BY <1>9, <3>1, <3>4, <4>2
    <3>5. QED
      BY <3>3, <3>4
  <2>3. QED
    BY <2>1, <2>2
<1>13. SizesCount'
  <2> SUFFICES ASSUME NEW g \in Files
               PROVE  Len(written'[g]) = IF inode_size[g] = 0 THEN 0 ELSE inode_size[g] - 1
    BY <1>2 DEF SizesCount
  <2>1. CASE g = f
    <3>1. Len(W) \in Nat /\ inode_size[f] = Len(W) + 1
      BY <1>3, <1>6
    <3>2. QED
      BY <1>9, <2>1, <3>1
  <2>2. CASE g # f
    BY <1>3, <1>9, <2>2
  <2>3. QED
    BY <2>1, <2>2
<1>14. FirstBlockHolds'
  <2> SUFFICES ASSUME NEW g \in Files, NEW i \in 1 .. Len(written'[g])
               PROVE  disk'.data[g][0][i - 1] = written'[g][i]
    BY DEF FirstBlockHolds
  <2>1. CASE g # f
    BY <1>8, <1>9, <2>1 DEF FInv, Numbers, FirstBlockHolds
  <2>2. CASE g = f
    <3>1. i \in 1 .. Len(W) /\ i - 1 \in Positions
      <4>1. i \in 1 .. Len(W) /\ Len(W) \in Nat /\ Len(W) < MAX_SIZE
        BY <1>3, <1>6, <1>9, <2>2, Numerals
      <4>2. QED
        BY <4>1, Numerals
    <3>2. CASE i \in o + 1 .. o + n
      <4>1. i - 1 \in o .. o + n - 1 /\ i - 1 - o + 1 = i - o
        BY <1>3, <3>2
      <4>2. NewBlock[i - 1] = call.buff[i - o]
        BY <1>4, <3>1, <4>1
      <4>3. QED
        BY <1>6, <1>8, <1>9, <2>2, <3>1, <3>2, <4>2
    <3>3. CASE i \notin o + 1 .. o + n
      <4>1. i \in 1 .. w /\ i - 1 \notin o .. o + n - 1
        BY <1>3, <1>6, <3>1, <3>3
      <4>2. ~(call.end_of_file /\ i - 1 = o + n)
        BY <1>3, <1>6, <3>1
      <4>3. NewBlock[i - 1] = disk.data[f][0][i - 1]
        BY <1>4, <3>1, <4>1, <4>2
      <4>4. disk.data[f][0][i - 1] = written[f][i]
        BY <1>3, <1>5, <4>1 DEF FInv, Numbers, FirstBlockHolds
      <4>5. QED
        BY <1>6, <1>8, <1>9, <2>2, <3>1, <3>3, <4>3, <4>4
    <3>4. QED
      BY <3>2, <3>3
  <2>3. QED
    BY <2>1, <2>2
<1>15. Writing' /\ Reading'
  BY <1>2 DEF Writing, Reading, Idle
<1>16. QED
  BY <1>10, <1>11, <1>12, <1>13, <1>14, <1>15 DEF Numbers

-----------------------------------------------------------------------------

\* n bytes are asked for at offset o of w, and c will be read.
Asks(n, c, o, w) == n = call.asked /\ c = IF o + n <= w THEN n ELSE w - o

(* A read that is going on, within the first block.                           *)
LEMMA ReadNumbers ==
  ASSUME OneBlock, FInv, call.op = "read",
         NEW f, NEW o, NEW m, NEW w, Of(f, o, m, w),
         NEW n, NEW c, Asks(n, c, o, w)
  PROVE  /\ call.proc \in Procs /\ f \in Files /\ offset[call.proc][f] # NULL
         /\ o \in Nat /\ n \in Nat /\ w \in Nat /\ o <= w /\ w < BLOCK
         /\ c \in Nat /\ o + c <= w /\ c <= n
         /\ n \in Counts /\ call.buff = <<>> /\ call.end_of_file = FALSE
         /\ call.count = c /\ call.total = c /\ call.left = 1 /\ call.index = 0
         /\ call.data_offset = o /\ call.buff_offset = 0
<1>1. call.proc \in Procs /\ f \in Files /\ offset[call.proc][f] # NULL
  BY Caller DEF FInv, Of
<1>2. n \in Counts /\ n \in Nat /\ inode_size[f] # 0 /\ Reads(o, n, w)
  BY TransfersAssumption DEF FInv, Numbers, Reading, Of, Asks
<1>3. o \in Nat /\ w \in Nat /\ inode_size[f] \in 0 .. MAX_SIZE /\ o <= w
  BY <1>1, OffsetOfFile DEF Of
<1>4. w = inode_size[f] - 1
  <2>1. \/ w = IF inode_size[f] = 0 THEN 0 ELSE inode_size[f] - 1
        \/ call.op = "write"
    BY <1>1 DEF FInv, Numbers, SizesCount, Of
  <2>2. QED
    BY <1>2, <2>1
<1>5. w < BLOCK
  BY <1>3, <1>4, Numerals
<1>6. c \in Nat /\ o + c <= w /\ c <= n
  <2>1. CASE o + n <= w
    BY <1>2, <1>3, <2>1 DEF Asks
  <2>2. CASE ~(o + n <= w)
    BY <1>2, <1>3, <2>2 DEF Asks
  <2>3. QED
    BY <2>1, <2>2
<1>7. QED
  BY <1>1, <1>2, <1>3, <1>5, <1>6 DEF Reads, Within, Asks

(* The call returns the bytes that have been written.                         *)
LEMMA ReadBlockEffect ==
  ASSUME OneBlock, FInv, ReadBlock,
         NEW f, NEW o, NEW m, NEW w, Of(f, o, m, w),
         NEW n, NEW c, Asks(n, c, o, w)
  PROVE  /\ UNCHANGED <<inode_size, disk, written, crashes>>
         /\ call' = Idle
         /\ file' = WithCopy(f, 0, CurrentBlock)
         /\ offset' = [offset EXCEPT ![call.proc][f] = o + c]
         /\ returned' = <<n, SubSeq(written[f], o + 1, o + c)>>
         /\ SubSeq(written[f], o + 1, o + c) \in Seq(Byte)
         /\ Len(SubSeq(written[f], o + 1, o + c)) = c
<1>1. call.op = "read"
  BY DEF ReadBlock
<1>2. /\ call.proc \in Procs /\ f \in Files
      /\ o \in Nat /\ n \in Nat /\ w \in Nat /\ o <= w /\ w < BLOCK
      /\ c \in Nat /\ o + c <= w
      /\ call.buff = <<>>
      /\ call.count = c /\ call.total = c /\ call.left = 1 /\ call.index = 0
      /\ call.data_offset = o /\ call.buff_offset = 0
  <2>1. /\ call.proc \in Procs /\ f \in Files
        /\ o \in Nat /\ n \in Nat /\ w \in Nat /\ o <= w /\ w < BLOCK
        /\ c \in Nat /\ o + c <= w
    BY <1>1, ReadNumbers, Zenon
  <2>2. /\ call.buff = <<>>
        /\ call.count = c /\ call.total = c /\ call.left = 1 /\ call.index = 0
        /\ call.data_offset = o /\ call.buff_offset = 0
    <3>1. call.count = c /\ call.total = c
      <4>1. Reads(o, n, w)
        BY <1>1 DEF FInv, Numbers, Reading, Of, Asks
      <4>2. QED
        BY <4>1 DEF Reads, Within, Asks
    <3>2. call.left = 1 /\ call.index = 0 /\ call.buff_offset = 0
      BY <1>1, ReadNumbers
    <3>3. call.data_offset = o
      BY <1>1, ReadNumbers
    <3>4. call.buff = <<>>
      BY <1>1, ReadNumbers
    <3>5. QED
      BY <3>1, <3>2, <3>3, <3>4
  <2>3. QED
    BY <2>1, <2>2
<1>3. Chunk(c) = c
  <2>1. c \in 0 .. BLOCK
    BY <1>2, Numerals
  <2>2. QED
    BY <2>1, ChunkIsAll
<1>4. CurrentBlock = disk.data[f][0]
  BY <1>1, <1>2, CurrentIsBlock, Numerals DEF FInv, Of
<1>5. PICK bytes :
        /\ bytes = [i \in 1 .. call.buff_offset + Chunk(call.count) |->
                      LET k == i - call.buff_offset
                      IN  IF k > 0 THEN IF call.data_offset + k - 1 \in Positions
                                          THEN CurrentBlock[call.data_offset + k - 1] ELSE ZERO
                          ELSE IF i \in DOMAIN call.buff THEN call.buff[i] ELSE ZERO]
        /\ returned' = <<call.asked, SubSeq(bytes, 1, call.total)>>
  BY <1>2 DEF ReadBlock
<1>6. bytes = [i \in 1 .. c |-> written[f][o + i]]
  <2>1. bytes = [i \in 1 .. 0 + c |->
                   IF i - 0 > 0 THEN IF o + (i - 0) - 1 \in Positions
                                       THEN CurrentBlock[o + (i - 0) - 1] ELSE ZERO
                   ELSE IF i \in DOMAIN call.buff THEN call.buff[i] ELSE ZERO]
    BY <1>2, <1>3, <1>5
  <2>2. DOMAIN bytes = 1 .. c
    BY <1>2, <2>1
  <2>3. ASSUME NEW i \in 1 .. c PROVE bytes[i] = written[f][o + i]
    <3>1. /\ i \in 1 .. 0 + c /\ i - 0 > 0 /\ o + (i - 0) - 1 \in Positions
          /\ o + i \in 1 .. w /\ o + (i - 0) - 1 = o + i - 1
      BY <1>2, Numerals
    <3>2. bytes[i] = CurrentBlock[o + i - 1]
      BY <2>1, <3>1
    <3>3. disk.data[f][0][o + i - 1] = written[f][o + i]
      <4>1. PICK j : j = o + i
        OBVIOUS
      <4>2. j \in 1 .. Len(written[f])
        BY <3>1, <4>1 DEF Of
      <4>3. disk.data[f][0][j - 1] = written[f][j]
        BY <1>2, <4>2 DEF FInv, Numbers, FirstBlockHolds
      <4>4. o + i - 1 = j - 1
        BY <1>2, <4>1
      <4>5. QED
        BY <4>1, <4>3, <4>4, Zenon
    <3>4. QED
      BY <1>4, <3>2, <3>3
  <2>4. bytes = [i \in 1 .. c |-> bytes[i]]
    BY <2>1, <2>2
  <2>5. QED
    BY <2>3, <2>4
<1>7. written[f] \in Seq(Byte) /\ w = Len(written[f])
  BY <1>2 DEF FInv, Numbers, Bounds, Of
<1>8. \A i \in 1 .. w : written[f][i] \in Byte
  BY <1>7
<1>9. bytes \in Seq(Byte) /\ Len(bytes) = c /\ \A i \in 1 .. c : bytes[i] = written[f][o + i]
  <2>1. \A i \in 1 .. c : written[f][o + i] \in Byte
    <3> SUFFICES ASSUME NEW i \in 1 .. c PROVE written[f][o + i] \in Byte
      OBVIOUS
    <3>1. o + i \in 1 .. w
      BY <1>2
    <3>2. QED
      BY <1>8, <3>1
  <2>2. bytes \in [1 .. c -> Byte] /\ \A i \in 1 .. c : bytes[i] = written[f][o + i]
    BY <1>6, <2>1
  <2>3. QED
    BY <1>2, <2>2
<1>10. SubSeq(bytes, 1, c) = bytes
  BY <1>9, SubSeqFull
<1>11. PICK s, a, b : s = written[f] /\ a = o + 1 /\ b = o + c
  OBVIOUS
<1> DEFINE part == SubSeq(s, a, b)
<1>12. part \in Seq(Byte) /\ Len(part) = c /\ \A i \in 1 .. c : part[i] = written[f][o + i]
  <2>1. a \in Int /\ b \in Int /\ b - a + 1 = c /\ (a <= b <=> c # 0)
    BY <1>2, <1>11
  <2>2. \A i \in a .. b : s[i] \in Byte
    <3> SUFFICES ASSUME NEW i \in a .. b PROVE s[i] \in Byte
      OBVIOUS
    <3>1. i \in 1 .. w
      BY <1>2, <1>11
    <3>2. QED
      BY <1>8, <1>11, <3>1
  <2>3. /\ part \in Seq(Byte)
        /\ Len(part) = IF a <= b THEN b - a + 1 ELSE 0
        /\ \A i \in 1 .. b - a + 1 : part[i] = s[a + i - 1]
    BY <2>1, <2>2, SubSeqProperties
  <2> HIDE DEF part
  <2>4. Len(part) = c
    BY <2>1, <2>3
  <2>5. \A i \in 1 .. c : a + i - 1 = o + i
    BY <1>2, <1>11
  <2>6. \A i \in 1 .. c : part[i] = written[f][o + i]
    BY <1>11, <2>1, <2>3, <2>5
  <2>7. QED
    BY <2>3, <2>4, <2>6
<1> HIDE DEF part
<1>13. part = bytes
  BY <1>9, <1>12, SeqEqual
<1>14. returned' = <<n, part>>
  BY <1>2, <1>5, <1>10, <1>13 DEF Asks
<1>15. /\ UNCHANGED <<inode_size, disk, written, crashes>> /\ call' = Idle
       /\ file' = WithCopy(f, 0, CurrentBlock)
       /\ offset' = [offset EXCEPT ![call.proc][f] = o + c]
  BY <1>2 DEF ReadBlock, WithCopy, Of
<1>16. part = SubSeq(written[f], o + 1, o + c)
  BY <1>11 DEF part
<1>17. QED
  BY <1>12, <1>14, <1>15, <1>16

LEMMA ReadBlockNumbers ==
  ASSUME OneBlock, FInv, ReadBlock
  PROVE  Numbers'
<1>0. PICK f, o, m, w : Of(f, o, m, w)
  BY DEF Of
<1>1. PICK n, c : Asks(n, c, o, w)
  BY DEF Asks
<1>2. call.op = "read"
  BY DEF ReadBlock
<1> DEFINE p == call.proc
<1>3. /\ p \in Procs /\ f \in Files /\ o \in Nat /\ w \in Nat /\ c \in Nat /\ o + c <= w
      /\ n \in Counts /\ call.index = 0
  BY <1>0, <1>1, <1>2, ReadNumbers
<1>4. PICK part \in Seq(Byte) :
        /\ UNCHANGED <<inode_size, disk, written, crashes>>
        /\ call' = Idle
        /\ file' = WithCopy(f, 0, CurrentBlock)
        /\ offset' = [offset EXCEPT ![p][f] = o + c]
        /\ returned' = <<n, part>>
  <2> DEFINE part == SubSeq(written[f], o + 1, o + c)
  <2>1. /\ UNCHANGED <<inode_size, disk, written, crashes>>
        /\ call' = Idle
        /\ file' = WithCopy(f, 0, CurrentBlock)
        /\ offset' = [offset EXCEPT ![call.proc][f] = o + c]
        /\ returned' = <<n, part>> /\ part \in Seq(Byte)
    BY <1>0, <1>1, ReadBlockEffect
  <2> HIDE DEF part
  <2>2. QED
    BY <2>1
<1>5. /\ \A g \in Files : g # f => file'[g] = file[g]
      /\ file'[f].allocated = file[f].allocated
      /\ file[f] # NULL
  <2>1. file[f] \in Descriptor
    BY <1>0, <1>2, Caller DEF FInv, Of
  <2>2. CurrentBlock \in Block
    BY <1>2, <1>3, CurrentIsBlock, Numerals DEF FInv
  <2>3. QED
    BY <1>3, <1>4, <2>1, <2>2, CopySet, DescriptorExists DEF FInv, IInv
<1>6. Bounds'
  BY <1>3, <1>4 DEF FInv, Numbers, Bounds
<1>7. SizesOnDisk'
  <2>1. \A g \in Files : file'[g] # NULL => file[g] # NULL /\ file'[g].allocated = file[g].allocated
    BY <1>5
  <2>2. QED
    BY <1>4, <2>1 DEF FInv, Numbers, SizesOnDisk
<1>8. OffsetsWithin'
  <2> SUFFICES ASSUME NEW q \in Procs, NEW g \in Files, offset'[q][g] # NULL
               PROVE  offset'[q][g] \in 0 .. Len(written[g])
    BY <1>4 DEF OffsetsWithin
  <2>1. CASE q = p /\ g = f
    <3>1. offset'[q][g] = o + c /\ w = Len(written[g])
      BY <1>0, <1>3, <1>4, <2>1 DEF FInv, IInv, Shape, Of
    <3>2. o + c \in 0 .. w
      BY <1>3
    <3>3. QED
      BY <3>1, <3>2
  <2>2. CASE ~(q = p /\ g = f)
    <3>1. offset'[q][g] = offset[q][g]
      BY <1>3, <1>4, <2>2 DEF FInv, IInv, Shape
    <3>2. QED
      BY <3>1 DEF FInv, Numbers, OffsetsWithin
  <2>3. QED
    BY <2>1, <2>2
<1>9. SizesCount' /\ FirstBlockHolds'
  BY <1>2, <1>4 DEF FInv, Numbers, SizesCount, FirstBlockHolds
<1>10. Writing' /\ Reading'
  BY <1>4 DEF Writing, Reading, Idle
<1>11. QED
  BY <1>6, <1>7, <1>8, <1>9, <1>10 DEF Numbers

-----------------------------------------------------------------------------

(* The disk after a power failure: of the block that was being written it may *)
(* have got the first bytes.                                                  *)
LEMMA PowerFailureEffect ==
  ASSUME OneBlock, FInv, PowerFailure
  PROVE  /\ inode_size' = inode_size /\ disk' \in Disk
         /\ disk'.size = disk.size /\ disk'.allocated = disk.allocated
         /\ file' = [f \in Files |-> NULL]
         /\ offset' = [p \in Procs |-> [f \in Files |-> NULL]]
         /\ call' = Idle /\ returned' = NULL /\ crashes' \in 0 .. MAX_CRASHES
         /\ \A f \in Files :
              /\ written'[f] = BytesOf(disk', f)
              /\ \/ disk'.data[f][0] = disk.data[f][0]
                 \/ /\ call.op = "write" /\ f = call.file
                    /\ \A i \in Positions :
                         disk'.data[f][0][i] \in {disk.data[f][0][i], NewBlock[i]}
<1>1. /\ inode_size' = disk.size /\ call' = Idle /\ returned' = NULL
      /\ file' = [f \in Files |-> NULL]
      /\ offset' = [p \in Procs |-> [f \in Files |-> NULL]]
      /\ crashes < MAX_CRASHES /\ crashes' = crashes + 1
  BY DEF PowerFailure
<1>2. disk.size = inode_size
  BY DEF FInv, Numbers, SizesOnDisk
<1>3. crashes' \in 0 .. MAX_CRASHES
  BY <1>1, BoundsAssumption DEF FInv, Numbers, Bounds
<1>4. \A f \in Files : written'[f] = BytesOf(disk', f)
  BY DEF PowerFailure, DiskBytes, BytesOf
<1>5. /\ disk' \in Disk /\ disk'.size = disk.size /\ disk'.allocated = disk.allocated
      /\ \A f \in Files :
           \/ disk'.data[f][0] = disk.data[f][0]
           \/ /\ call.op = "write" /\ f = call.file
              /\ \A i \in Positions :
                   disk'.data[f][0][i] \in {disk.data[f][0][i], NewBlock[i]}
  <2>1. CASE BlockReady
    <3>0. PICK h, o, n, w : Of(h, o, n, w)
      BY DEF Of
    <3>1. call.op = "write"
      BY <2>1 DEF BlockReady
    <3>2. h \in Files /\ call.index = 0
      BY <3>0, <3>1, WriteNumbers
    <3>3. h = call.file
      BY <3>0 DEF Of
    <3>4. PICK k \in 0 .. BLOCK :
            disk' = [disk EXCEPT !.data[call.file][call.index] =
                       [i \in Positions |-> IF i < k THEN NewBlock[i]
                                            ELSE disk.data[call.file][call.index][i]]]
      BY <2>1 DEF PowerFailure
    <3> DEFINE torn == [i \in Positions |-> IF i < k THEN NewBlock[i] ELSE disk.data[h][0][i]]
    <3>5. torn \in Block
      <4>1. NewBlock \in [Positions -> Byte]
        BY <3>0, <3>1, NewBlockBytes DEF Block
      <4>2. disk.data[h][0] \in [Positions -> Byte]
        BY <3>2, Numerals DEF FInv, IInv, Shape, Disk, Block
      <4>3. QED
        BY <4>1, <4>2 DEF Block
    <3>6. disk' = WithData(h, 0, torn)
      BY <3>2, <3>3, <3>4 DEF WithData
    <3>7. \A i \in Positions : torn[i] \in {disk.data[h][0][i], NewBlock[i]}
      OBVIOUS
    <3> HIDE DEF torn
    <3>8. /\ disk' \in Disk /\ disk'.size = disk.size /\ disk'.allocated = disk.allocated
          /\ \A g \in Files : g # h => disk'.data[g] = disk.data[g]
          /\ disk'.data[h][0] = torn
      BY <3>2, <3>5, <3>6, DataSet, Numerals DEF FInv, IInv
    <3>9. QED
      BY <3>1, <3>3, <3>7, <3>8
  <2>2. CASE ~BlockReady
    BY <2>2 DEF PowerFailure, FInv, IInv, Shape
  <2>3. QED
    BY <2>1, <2>2
<1>6. QED
  BY <1>1, <1>2, <1>3, <1>4, <1>5

LEMMA PowerFailureNumbers ==
  ASSUME OneBlock, FInv, PowerFailure
  PROVE  Numbers'
<1>1. PICK d : d = disk'
  OBVIOUS
<1>2. /\ inode_size' = inode_size /\ d \in Disk
      /\ d.size = disk.size /\ d.allocated = disk.allocated
      /\ file' = [f \in Files |-> NULL]
      /\ offset' = [p \in Procs |-> [f \in Files |-> NULL]]
      /\ call' = Idle /\ returned' = NULL /\ crashes' \in 0 .. MAX_CRASHES
      /\ \A f \in Files : written'[f] = BytesOf(d, f)
  BY <1>1, PowerFailureEffect
<1>3. inode_size \in [Files -> 0 .. MAX_SIZE] /\ d.size = inode_size
  BY <1>2 DEF FInv, Numbers, Bounds, SizesOnDisk
<1>4. \A f \in Files :
        /\ BytesOf(d, f) \in Seq(Byte)
        /\ Len(BytesOf(d, f)) = IF inode_size[f] = 0 THEN 0 ELSE inode_size[f] - 1
        /\ \A i \in 1 .. inode_size[f] - 1 : BytesOf(d, f)[i] = d.data[f][0][i - 1]
  BY <1>2, <1>3, BytesOfDisk
<1>5. Bounds'
  <2>1. written' \in [Files -> Seq(Byte)]
    <3>1. written' = [f \in Files |-> DiskBytes(f)']
      BY DEF PowerFailure
    <3>2. written' = [f \in Files |-> written'[f]]
      BY <3>1
    <3>3. QED
      BY <1>2, <1>4, <3>2
  <2>2. QED
    BY <1>2, <1>3, <2>1 DEF Bounds
<1>6. SizesOnDisk'
  BY <1>1, <1>2, <1>3 DEF FInv, Numbers, SizesOnDisk
<1>7. OffsetsWithin'
  BY <1>2 DEF OffsetsWithin
<1>8. SizesCount'
  BY <1>2, <1>4 DEF SizesCount
<1>9. FirstBlockHolds'
  <2> SUFFICES ASSUME NEW f \in Files, NEW i \in 1 .. Len(written'[f])
               PROVE  d.data[f][0][i - 1] = written'[f][i]
    BY <1>1 DEF FirstBlockHolds
  <2>1. i \in 1 .. inode_size[f] - 1
    BY <1>2, <1>3, <1>4
  <2>2. QED
    BY <1>2, <1>4, <2>1
<1>10. Writing' /\ Reading'
  BY <1>2 DEF Writing, Reading, Idle
<1>11. QED
  BY <1>5, <1>6, <1>7, <1>8, <1>9, <1>10 DEF Numbers

-----------------------------------------------------------------------------

LEMMA FInvInit == OneBlock /\ Init => FInv
BY InitInv, InitNumbers DEF FInv

LEMMA FInvNext == OneBlock /\ FInv /\ [Next]_vars => FInv'
<1> SUFFICES ASSUME OneBlock, FInv, [Next]_vars PROVE FInv'
  OBVIOUS
<1>0. IInv'
  BY NextInv DEF FInv
<1>1. CASE \E p \in Procs, f \in Files :
             \/ open(p, f)
             \/ close(p, f)
             \/ \E d \in Data : StartWrite(p, f, d)
             \/ \E n \in Counts : StartRead(p, f, n)
  BY <1>0, <1>1, OpenNumbers, CloseNumbers, StartWriteNumbers, StartReadNumbers DEF FInv
<1>2. CASE AllocateBlock
  BY <1>0, <1>2, AllocateNumbers DEF FInv
<1>3. CASE WriteBlock
  BY <1>0, <1>3, WriteBlockNumbers DEF FInv
<1>4. CASE ReadBlock
  BY <1>0, <1>4, ReadBlockNumbers DEF FInv
<1>5. CASE PowerFailure
  BY <1>0, <1>5, PowerFailureNumbers DEF FInv
<1>6. CASE UNCHANGED vars
  BY <1>0, <1>6 DEF vars, FInv, Numbers, Bounds, SizesOnDisk, OffsetsWithin, SizesCount,
                    FirstBlockHolds, Writing, Reading, Writes, Reads, Within
<1>7. QED
  BY <1>1, <1>2, <1>3, <1>4, <1>5, <1>6 DEF Next

LEMMA AlwaysFInv ==
  ASSUME OneBlock
  PROVE  Spec => []FInv
<1>1. Init => FInv
  BY FInvInit
<1>2. FInv /\ [Next]_vars => FInv'
  BY FInvNext
<1>3. QED
  BY <1>1, <1>2, PTL DEF Spec

(* The numbers of a call are the ones its type allows.                        *)
LEMMA CallType ==
  ASSUME OneBlock, FInv
  PROVE  call \in Call \cup {Idle}
<1>1. SUFFICES ASSUME call # Idle PROVE call \in Call
  OBVIOUS
<1>2. call \in Calling /\ call.op \in {"read", "write"}
  BY <1>1 DEF FInv, IInv, Shape, Calling
<1>3. PICK f, o, m, w : Of(f, o, m, w)
  BY DEF Of
<1>4. /\ call.asked \in Nat /\ call.index \in Indices \cup {BLOCKS}
      /\ call.data_offset \in Positions /\ call.buff_offset \in Nat
  <2>1. CASE call.op = "write"
    <3>1. /\ call.asked = m /\ m \in Nat /\ call.index = 0 /\ call.buff_offset = 0
          /\ call.data_offset = o /\ f \in Files /\ call.proc \in Procs
          /\ offset[call.proc][f] # NULL
      BY <1>3, <2>1, WriteNumbers
    <3>2. o \in Nat /\ o < BLOCK
      BY <1>3, <3>1, OffsetOfFile DEF Of
    <3>3. QED
      BY <3>1, <3>2, Numerals
  <2>2. CASE call.op = "read"
    <3>1. PICK n, c : Asks(n, c, o, w)
      BY DEF Asks
    <3>2. /\ n \in Nat /\ call.index = 0 /\ call.buff_offset = 0
          /\ call.data_offset = o /\ o \in Nat /\ o <= w /\ w < BLOCK /\ w \in Nat
      BY <1>3, <2>2, <3>1, ReadNumbers
    <3>3. n = call.asked
      BY <3>1 DEF Asks
    <3>4. QED
      BY <3>2, <3>3, Numerals
  <2>3. QED
    BY <1>2, <2>1, <2>2
<1>5. QED
  BY <1>2, <1>4 DEF Calling, Call

(* Every variable keeps its type: no size and no offset grows beyond the      *)
(* largest file, and what fread returns is bytes (filesystem.c:376-502).      *)
THEOREM TypeCorrect ==
  ASSUME MAX_SIZE <= BLOCK
  PROVE  Spec => []TypeOK
<1>1. OneBlock
  BY DEF OneBlock
<1>2. FInv => TypeOK
  <2> SUFFICES ASSUME FInv PROVE TypeOK
    OBVIOUS
  <2>1. /\ inode_size \in [Files -> 0 .. MAX_SIZE] /\ crashes \in 0 .. MAX_CRASHES
        /\ returned \in (Counts \X Seq(Byte)) \cup {NULL} /\ written \in [Files -> Seq(Byte)]
    BY DEF FInv, Numbers, Bounds
  <2>2. offset \in [Procs -> [Files -> (0 .. MAX_SIZE) \cup {NULL}]]
    <3>1. offset \in [Procs -> [Files -> Int \cup {NULL}]]
      BY DEF FInv, IInv, Shape
    <3>2. \A p \in Procs, f \in Files : offset[p][f] \in (0 .. MAX_SIZE) \cup {NULL}
      <4> SUFFICES ASSUME NEW p \in Procs, NEW f \in Files, offset[p][f] # NULL
                   PROVE  offset[p][f] \in 0 .. MAX_SIZE
        OBVIOUS
      <4>1. /\ offset[p][f] \in Nat /\ Len(written[f]) \in Nat
            /\ inode_size[f] \in 0 .. MAX_SIZE /\ offset[p][f] <= Len(written[f])
        BY <1>1, OffsetOfFile
      <4>2. \/ Len(written[f]) = IF inode_size[f] = 0 THEN 0 ELSE inode_size[f] - 1
            \/ Len(written[f]) < inode_size[f]
        BY DEF FInv, Numbers, SizesCount
      <4>3. Len(written[f]) <= MAX_SIZE
        BY <1>1, <4>1, <4>2, Numerals
      <4>4. QED
        BY <1>1, <4>1, <4>3, Numerals
    <3>3. QED
      BY <3>1, <3>2
  <2>3. file \in [Files -> Descriptor \cup {NULL}]
        /\ \A p \in Procs, f \in Files : offset[p][f] # NULL => file[f] # NULL
    BY DescriptorExists DEF FInv, IInv, Shape, OpenOK
  <2>4. disk \in [size : [Files -> 0 .. MAX_SIZE], allocated : [Files -> SUBSET Indices],
                  data : [Files -> [Indices -> Block]]]
    BY <2>1 DEF FInv, IInv, Shape, Disk, Numbers, SizesOnDisk
  <2>5. call \in Call \cup {Idle}
    BY <1>1, CallType
  <2>6. QED
    BY <2>1, <2>2, <2>3, <2>4, <2>5 DEF TypeOK
<1>3. Spec => []FInv
  BY <1>1, AlwaysFInv
<1>4. QED
  BY <1>2, <1>3, PTL

(* memcpy stays within the block it copies to or from and within the buffer   *)
(* fread was given: no offset lies behind the end of its file, so that the    *)
(* count of bytes is never negative (filesystem.c:423-441, :486-499).         *)
THEOREM TransfersStayInside ==
  ASSUME MAX_SIZE <= BLOCK
  PROVE  Spec => []TransfersFit
<1>1. OneBlock
  BY DEF OneBlock
<1>2. FInv => TransfersFit
  <2> SUFFICES ASSUME FInv, call # Idle
               PROVE  /\ call.count >= 0
                      /\ call.data_offset + Chunk(call.count) <= BLOCK
                      /\ call.op = "read" => call.buff_offset + Chunk(call.count) <= call.asked
    BY DEF TransfersFit
  <2>1. call.op \in {"read", "write"}
    BY DEF FInv, IInv, Shape, Calling
  <2>2. PICK f, o, m, w : Of(f, o, m, w)
    BY DEF Of
  <2>3. CASE call.op = "write"
    <3>1. PICK s, c : s = inode_size[f] /\ c = call.count
      OBVIOUS
    <3>2. /\ f \in Files /\ call.data_offset = o /\ o \in Nat /\ m \in Nat /\ w \in Nat
          /\ c \in 1 .. BLOCK /\ s \in 1 .. MAX_SIZE
          /\ call.end_of_file \in BOOLEAN
          /\ c = IF call.end_of_file THEN m + 1 ELSE m
          /\ s = (IF o + m > w THEN o + m ELSE w) + 1
      BY <1>1, <2>2, <2>3, <3>1, WriteNumbers
    <3>3. c <= m + 1
      <4>1. c = m \/ c = m + 1
        BY <3>2
      <4>2. QED
        BY <3>2, <4>1
    <3>4. o + m + 1 <= s /\ s <= BLOCK /\ c \in 0 .. BLOCK /\ BLOCK \in Nat
      BY <1>1, <3>2, Numerals
    <3>5. Chunk(c) = c
      BY <3>4, ChunkIsAll
    <3>6. QED
      BY <2>3, <3>1, <3>2, <3>3, <3>4, <3>5
  <2>4. CASE call.op = "read"
    <3>1. PICK n, c : Asks(n, c, o, w)
      BY DEF Asks
    <3>2. /\ o \in Nat /\ n \in Nat /\ w \in Nat /\ w < BLOCK
          /\ c \in Nat /\ o + c <= w /\ c <= n
          /\ call.data_offset = o /\ call.buff_offset = 0
      BY <1>1, <2>2, <2>4, <3>1, ReadNumbers
    <3>6. call.count = c
      <4>1. Reads(o, n, w)
        BY <2>2, <2>4, <3>1 DEF FInv, Numbers, Reading, Of, Asks
      <4>2. QED
        BY <3>1, <4>1 DEF Reads, Asks
    <3>3. c \in 0 .. BLOCK
      BY <1>1, <3>2, Numerals
    <3>4. Chunk(c) = c /\ n = call.asked
      BY <3>1, <3>3, ChunkIsAll DEF Asks
    <3>5. QED
      BY <1>1, <3>2, <3>4, <3>6, Numerals
  <2>5. QED
    BY <2>1, <2>3, <2>4
<1>3. Spec => []FInv
  BY <1>1, AlwaysFInv
<1>4. QED
  BY <1>2, <1>3, PTL

(* The disk has every byte of the writes that are over, and where no write to *)
(* a file is going on nothing else: when fwrite has returned, a power failure *)
(* takes nothing from the file (filesystem.c:376-445).                        *)
THEOREM WrittenStays ==
  ASSUME MAX_SIZE <= BLOCK
  PROVE  Spec => []DiskHoldsWritten
<1>1. OneBlock
  BY DEF OneBlock
<1>2. FInv => DiskHoldsWritten
  <2> SUFFICES ASSUME FInv, NEW f \in Files
               PROVE  /\ Len(written[f]) <= Len(DiskBytes(f))
                      /\ \A i \in DOMAIN written[f] : DiskBytes(f)[i] = written[f][i]
                      /\ Len(DiskBytes(f)) = Len(written[f])
                         \/ (call.op = "write" /\ call.file = f)
    BY DEF DiskHoldsWritten
  <2>1. /\ disk \in Disk /\ inode_size[f] \in 0 .. MAX_SIZE /\ disk.size = inode_size
        /\ written[f] \in Seq(Byte)
    BY DEF FInv, IInv, Shape, Numbers, Bounds, SizesOnDisk
  <2>2. /\ Len(DiskBytes(f)) = IF inode_size[f] = 0 THEN 0 ELSE inode_size[f] - 1
        /\ \A i \in 1 .. inode_size[f] - 1 : DiskBytes(f)[i] = disk.data[f][0][i - 1]
    BY <1>1, <2>1, BytesOnDisk
  <2>3. \/ Len(written[f]) = IF inode_size[f] = 0 THEN 0 ELSE inode_size[f] - 1
        \/ call.op = "write" /\ call.file = f /\ Len(written[f]) < inode_size[f]
    BY DEF FInv, Numbers, SizesCount
  <2>4. Len(written[f]) \in Nat /\ DOMAIN written[f] = 1 .. Len(written[f])
    BY <2>1
  <2>5. Len(written[f]) <= Len(DiskBytes(f))
        /\ \A i \in 1 .. Len(written[f]) : i \in 1 .. inode_size[f] - 1
    BY <1>1, <2>1, <2>2, <2>3, <2>4, Numerals
  <2>6. \A i \in DOMAIN written[f] : DiskBytes(f)[i] = written[f][i]
    BY <2>2, <2>4, <2>5 DEF FInv, Numbers, FirstBlockHolds
  <2>7. QED
    BY <2>2, <2>3, <2>5, <2>6
<1>3. Spec => []FInv
  BY <1>1, AlwaysFInv
<1>4. QED
  BY <1>2, <1>3, PTL

-----------------------------------------------------------------------------
(* The refinement of ByteFile.                                               *)

(* A file to which no write is going on keeps its bytes in a power failure.   *)
LEMMA OthersSurvive ==
  ASSUME OneBlock, FInv, NEW d \in Disk, NEW g \in Files,
         d.size = disk.size, d.data[g][0] = disk.data[g][0],
         ~(call.op = "write" /\ call.file = g)
  PROVE  BytesOf(d, g) = written[g]
<1>1. PICK s, w : s = disk.size[g] /\ w = Len(written[g])
  OBVIOUS
<1>2. s = inode_size[g] /\ s \in 0 .. MAX_SIZE /\ written[g] \in Seq(Byte) /\ w \in Nat
  BY <1>1 DEF FInv, Numbers, Bounds, SizesOnDisk
<1>3. w = IF s = 0 THEN 0 ELSE s - 1
  BY <1>1, <1>2 DEF FInv, Numbers, SizesCount
<1>4. /\ BytesOf(d, g) \in Seq(Byte)
      /\ Len(BytesOf(d, g)) = IF s = 0 THEN 0 ELSE s - 1
      /\ \A i \in 1 .. s - 1 : BytesOf(d, g)[i] = d.data[g][0][i - 1]
  <2>1. d.size[g] \in 0 .. MAX_SIZE /\ d.size[g] = s
    BY <1>1, <1>2
  <2>2. /\ BytesOf(d, g) \in Seq(Byte)
        /\ Len(BytesOf(d, g)) = IF d.size[g] = 0 THEN 0 ELSE d.size[g] - 1
        /\ \A i \in 1 .. d.size[g] - 1 : BytesOf(d, g)[i] = d.data[g][0][i - 1]
    BY <2>1, BytesOfDisk
  <2>3. QED
    BY <2>1, <2>2
<1>5. Len(BytesOf(d, g)) = w /\ \A i \in 1 .. w : i \in 1 .. s - 1
  BY <1>2, <1>3, <1>4
<1>6. \A i \in 1 .. w : disk.data[g][0][i - 1] = written[g][i]
  BY <1>1 DEF FInv, Numbers, FirstBlockHolds
<1>7. \A i \in 1 .. w : BytesOf(d, g)[i] = written[g][i]
  BY <1>4, <1>5, <1>6
<1>8. QED
  BY <1>1, <1>2, <1>4, <1>5, <1>7, SeqEqual

\* On d the first block of f has got some of the bytes of the new one, or none.
Torn(d, f) ==
  \/ d.data[f][0] = disk.data[f][0]
  \/ \A i \in Positions : d.data[f][0][i] \in {disk.data[f][0][i], NewBlock[i]}

(* The file that is being written has, byte for byte, what it had or what     *)
(* the write gives it.                                                        *)
LEMMA HalfOfWrite ==
  ASSUME OneBlock, FInv, call.op = "write", NEW d \in Disk,
         NEW f, NEW o, NEW n, NEW w, Of(f, o, n, w),
         d.size = disk.size, Torn(d, f)
  PROVE  ByteFiles!HalfWritten(written[f], o, call.buff, BytesOf(d, f))
<1>1. /\ f \in Files /\ call.buff \in Seq(Byte)
      /\ o \in Nat /\ n \in Nat \ {0} /\ w \in Nat /\ o <= w
      /\ call.end_of_file \in BOOLEAN
      /\ inode_size[f] = (IF o + n > w THEN o + n ELSE w) + 1
      /\ call.end_of_file => w <= o + n
      /\ inode_size[f] \in 1 .. MAX_SIZE
  BY WriteNumbers
<1>2. PICK s, W : s = inode_size[f] /\ W = Overwrite(written[f], o, call.buff)
  OBVIOUS
<1>3. written[f] \in Seq(Byte) /\ n = Len(call.buff) /\ w = Len(written[f])
      /\ disk.size = inode_size
  BY <1>1 DEF FInv, Numbers, Bounds, SizesOnDisk, Of
<1>4. /\ W \in Seq(Byte)
      /\ Len(W) = IF o + n > w THEN o + n ELSE w
      /\ \A i \in 1 .. Len(W) :
           W[i] = IF i \in o + 1 .. o + n THEN call.buff[i - o] ELSE written[f][i]
  BY <1>2, WrittenOver
<1>5. /\ Len(BytesOf(d, f)) = s - 1
      /\ \A i \in 1 .. s - 1 : BytesOf(d, f)[i] = d.data[f][0][i - 1]
  <2>1. d.size[f] = s /\ s \in 0 .. MAX_SIZE /\ s # 0
    BY <1>1, <1>2, <1>3
  <2>2. QED
    BY <1>1, <2>1, BytesOfDisk
<1>6. Len(BytesOf(d, f)) = Len(W)
  <2>1. Len(W) \in Nat /\ s = Len(W) + 1
    BY <1>1, <1>2, <1>4
  <2>2. QED
    BY <1>5, <2>1
<1>7. ASSUME NEW i \in 1 .. w
      PROVE  BytesOf(d, f)[i] \in {written[f][i], W[i]}
  <2>1. i \in 1 .. s - 1 /\ i - 1 \in Positions /\ i \in 1 .. Len(W)
    <3>1. s \in Nat /\ w < s /\ s <= BLOCK /\ w <= Len(W) /\ Len(W) \in Nat
      BY <1>1, <1>2, <1>4, Numerals
    <3>2. QED
      BY <1>1, <3>1, Numerals
  <2>2. disk.data[f][0][i - 1] = written[f][i]
    BY <1>1, <1>3 DEF FInv, Numbers, FirstBlockHolds
  <2>3. NewBlock[i - 1] \in {written[f][i], W[i]}
    <3>1. NewBlock[i - 1] = IF i - 1 \in o .. o + n - 1 THEN call.buff[i - 1 - o + 1]
                            ELSE IF call.end_of_file /\ i - 1 = o + n THEN EOF
                            ELSE disk.data[f][0][i - 1]
      BY <2>1, NewBlockBytes
    <3>2. CASE i \in o + 1 .. o + n
      <4>1. i - 1 \in o .. o + n - 1 /\ i - 1 - o + 1 = i - o
        BY <1>1, <3>2
      <4>2. NewBlock[i - 1] = call.buff[i - o]
        BY <3>1, <4>1
      <4>3. W[i] = call.buff[i - o]
        BY <1>4, <2>1, <3>2
      <4>4. QED
        BY <4>2, <4>3
    <3>3. CASE i \notin o + 1 .. o + n
      <4>1. i - 1 \notin o .. o + n - 1
        BY <1>1, <3>3
      <4>2. ~(call.end_of_file /\ i - 1 = o + n)
        BY <1>1
      <4>3. QED
        BY <2>2, <3>1, <4>1, <4>2
    <3>4. QED
      BY <3>2, <3>3
  <2>4. BytesOf(d, f)[i] = d.data[f][0][i - 1]
    BY <1>5, <2>1
  <2>5. d.data[f][0][i - 1] \in {disk.data[f][0][i - 1], NewBlock[i - 1]}
    BY <2>1 DEF Torn
  <2>6. QED
    BY <2>2, <2>3, <2>4, <2>5
<1>8. ByteFiles!Overwrite(written[f], o, call.buff) = W
  BY <1>2 DEF ByteFiles!Overwrite, Overwrite
<1>9. DOMAIN written[f] = 1 .. w
  BY <1>3
<1>10. QED
  BY <1>6, <1>7, <1>8, <1>9 DEF ByteFiles!HalfWritten

LEMMA WriteRefines ==
  ASSUME OneBlock, FInv, WriteBlock
  PROVE  ByteFiles!Next
<1>0. PICK f, o, n, w : Of(f, o, n, w)
  BY DEF Of
<1>1. call.op = "write"
  BY DEF WriteBlock, BlockReady
<1>2. /\ call.proc \in Procs /\ f \in Files /\ call.buff \in Data
      /\ offset[call.proc][f] # NULL
  BY <1>0, <1>1, WriteNumbers
<1>3. /\ returned' = NULL
      /\ offset' = [offset EXCEPT ![call.proc][f] = o + n]
      /\ written' = [written EXCEPT ![f] = Overwrite(written[f], o, call.buff)]
  <2>1. returned' = NULL
    BY <1>0, WriteBlockEffect
  <2>2. offset' = [offset EXCEPT ![call.proc][f] = o + n]
    <3>1. call.left = 1 /\ call.total = n
      BY <1>0, <1>1, WriteNumbers
    <3>2. QED
      BY <1>0, <3>1 DEF WriteBlock, Of
  <2>3. written' = [written EXCEPT ![f] = Overwrite(written[f], o, call.buff)]
    BY <1>0, WriteBlockEffect
  <2>4. QED
    BY <2>1, <2>2, <2>3
<1>4. o = offset[call.proc][f] /\ n = Len(call.buff)
  BY <1>0 DEF Of
<1>5. Overwrite(written[f], o, call.buff) = ByteFiles!Overwrite(written[f], o, call.buff)
  BY DEF Overwrite, ByteFiles!Overwrite
<1>6. ByteFiles!Write(call.proc, f)
  BY <1>2, <1>3, <1>4, <1>5 DEF ByteFiles!Write
<1>7. QED
  BY <1>2, <1>6 DEF ByteFiles!Next

LEMMA ReadRefines ==
  ASSUME OneBlock, FInv, ReadBlock
  PROVE  ByteFiles!Next
<1>0. PICK f, o, m, w : Of(f, o, m, w)
  BY DEF Of
<1>1. PICK n, c : Asks(n, c, o, w)
  BY DEF Asks
<1>2. call.op = "read"
  BY DEF ReadBlock
<1>3. /\ call.proc \in Procs /\ f \in Files /\ n \in Counts /\ offset[call.proc][f] # NULL
      /\ o \in Nat /\ n \in Nat /\ w \in Nat /\ o <= w /\ c \in Nat
  BY <1>0, <1>1, <1>2, ReadNumbers
<1>4. o + c = IF o + n < w THEN o + n ELSE w
  <2>0. o \in Nat /\ n \in Nat /\ w \in Nat /\ o <= w /\ c \in Nat
    BY <1>3
  <2>1. CASE o + n <= w
    <3>1. c = n
      BY <1>1, <2>1 DEF Asks
    <3>2. QED
      BY <2>0, <2>1, <3>1
  <2>2. CASE ~(o + n <= w)
    <3>1. c = w - o
      BY <1>1, <2>2 DEF Asks
    <3>2. QED
      BY <2>0, <2>2, <3>1
  <2>3. QED
    BY <2>1, <2>2
<1>5. /\ written' = written
      /\ offset' = [offset EXCEPT ![call.proc][f] = o + c]
      /\ returned' = <<n, SubSeq(written[f], o + 1, o + c)>>
      /\ Len(SubSeq(written[f], o + 1, o + c)) = c
  BY <1>0, <1>1, ReadBlockEffect
<1>6. o = offset[call.proc][f] /\ w = Len(written[f])
  BY <1>0 DEF Of
<1>7. ByteFiles!Part(written[f], o, n) = SubSeq(written[f], o + 1, o + c)
  BY <1>4, <1>6 DEF ByteFiles!Part
<1>8. ByteFiles!Read(call.proc, f)
  BY <1>3, <1>5, <1>6, <1>7 DEF ByteFiles!Read
<1>9. QED
  BY <1>3, <1>8 DEF ByteFiles!Next

LEMMA FailureRefines ==
  ASSUME OneBlock, FInv, PowerFailure
  PROVE  ByteFiles!Next
<1>1. PICK d : d = disk'
  OBVIOUS
<1>2. /\ d \in Disk /\ d.size = disk.size
      /\ offset' = [p \in Procs |-> [f \in Files |-> NULL]] /\ returned' = NULL
      /\ \A f \in Files :
           /\ written'[f] = BytesOf(d, f)
           /\ \/ d.data[f][0] = disk.data[f][0]
              \/ /\ call.op = "write" /\ f = call.file
                 /\ \A i \in Positions : d.data[f][0][i] \in {disk.data[f][0][i], NewBlock[i]}
  BY <1>1, PowerFailureEffect
<1>3. \A g \in Files : ~(call.op = "write" /\ call.file = g) => written'[g] = written[g]
  BY <1>2, OthersSurvive
<1>4. CASE call.op = "write"
  <2>0. PICK f, o, n, w : Of(f, o, n, w)
    BY DEF Of
  <2>1. /\ call.proc \in Procs /\ f \in Files /\ call.buff \in Data
        /\ offset[call.proc][f] # NULL
    BY <1>4, <2>0, WriteNumbers
  <2>2. o = offset[call.proc][f] /\ f = call.file
    BY <2>0 DEF Of
  <2>3. \A g \in Files \ {f} : written'[g] = written[g]
    BY <1>3, <2>2
  <2>4. ByteFiles!HalfWritten(written[f], o, call.buff, BytesOf(d, f))
    <3>1. Torn(d, f)
      BY <1>2, <2>1 DEF Torn
    <3>2. QED
      BY <1>2, <1>4, <2>0, <3>1, HalfOfWrite
  <2>5. ByteFiles!HalfWritten(written[f], offset[call.proc][f], call.buff, written'[f])
    BY <1>2, <2>1, <2>2, <2>4
  <2>6. QED
    BY <1>2, <2>1, <2>3, <2>5 DEF ByteFiles!Next, ByteFiles!PowerFailure
<1>5. CASE call.op # "write"
  <2>1. \A g \in Files : written'[g] = written[g]
    BY <1>3, <1>5
  <2>2. written' = [g \in Files |-> written'[g]]
    <3>1. written' = [g \in Files |-> DiskBytes(g)']
      BY DEF PowerFailure
    <3>2. QED
      BY <3>1
  <2>3. written = [g \in Files |-> written[g]]
    BY DEF FInv, Numbers, Bounds
  <2>4. written' = written
    BY <2>1, <2>2, <2>3
  <2>5. QED
    BY <1>2, <2>4 DEF ByteFiles!Next, ByteFiles!PowerFailure
<1>6. QED
  BY <1>4, <1>5

LEMMA StepRefines ==
  ASSUME OneBlock, FInv, [Next]_vars
  PROVE  [ByteFiles!Next]_ByteFiles!vars
<1>1. CASE \E p \in Procs, f \in Files : open(p, f)
  BY <1>1 DEF open, ByteFiles!Next, ByteFiles!Open
<1>2. CASE \E p \in Procs, f \in Files : close(p, f)
  BY <1>2 DEF close, ByteFiles!Next, ByteFiles!Close
<1>3. CASE \E p \in Procs, f \in Files, d \in Data : StartWrite(p, f, d)
  BY <1>3 DEF StartWrite, ByteFiles!Next, ByteFiles!Use
<1>4. CASE \E p \in Procs, f \in Files, n \in Counts : StartRead(p, f, n)
  BY <1>4 DEF StartRead, ByteFiles!Next, ByteFiles!Use
<1>5. CASE AllocateBlock
  BY <1>5 DEF AllocateBlock, ByteFiles!Next, ByteFiles!Use
<1>6. CASE WriteBlock
  BY <1>6, WriteRefines
<1>7. CASE ReadBlock
  BY <1>7, ReadRefines
<1>8. CASE PowerFailure
  BY <1>8, FailureRefines
<1>9. CASE UNCHANGED vars
  BY <1>9 DEF vars, ByteFiles!vars
<1>10. QED
  BY <1>1, <1>2, <1>3, <1>4, <1>5, <1>6, <1>7, <1>8, <1>9 DEF Next

(* Processes that read and write at offsets of their own, through one         *)
(* descriptor and its copies of blocks, with power failures between any two   *)
(* steps, get what fread and fwrite promise: each call works on the bytes     *)
(* that the calls before it have left, and only the write that was going on   *)
(* is left half done (filesystem.c:376-502, process.c:344-430).               *)
THEOREM ByteFileImplemented ==
  ASSUME MAX_SIZE <= BLOCK
  PROVE  Spec => ImplementsByteFile
<1>1. OneBlock
  BY DEF OneBlock
<1>2. Init => ByteFiles!Init
  <2> SUFFICES ASSUME Init PROVE ByteFiles!Init
    OBVIOUS
  <2>1. Bounds
    BY <1>1, FInvInit DEF FInv, Numbers
  <2>2. QED
    BY <2>1 DEF Bounds, Init, ByteFiles!Init
<1>3. FInv /\ [Next]_vars => [ByteFiles!Next]_ByteFiles!vars
  BY <1>1, StepRefines
<1>4. Spec => []FInv
  BY <1>1, AlwaysFInv
<1>5. QED
  BY <1>2, <1>3, <1>4, PTL DEF Spec, ImplementsByteFile, ByteFiles!Spec

=============================================================================
