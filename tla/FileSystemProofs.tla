-------------------------- MODULE FileSystemProofs --------------------------
(***************************************************************************)
(* Proofs about module FileSystem, for any number of processes, inodes and *)
(* blocks, and blocks of any length, if the timer does not switch          *)
(* processes within write (PREEMPT = FALSE): otherwise two of them are     *)
(* given the same block.  The power may fail after every step, and between *)
(* any two sectors of the inode list while it is written.  What is about   *)
(* blocks and types holds also of paths that lead through files; the tree  *)
(* and the lookups need that there are none.                               *)
(***************************************************************************)
EXTENDS FileSystem, FiniteSetTheorems, SequenceTheorems, TLAPS

USE DEF HasBlock

-----------------------------------------------------------------------------
(* The inductive invariant.  In what follows, "in memory" means the tables   *)
(* the kernel works on, and "on the disk" the tables it will read after a    *)
(* power failure; blocks of entries are on the disk only.                    *)

\* One call at a time.
OneCall ==
  /\ \A p, q \in Procs : call[p].step # "idle" /\ call[q].step # "idle" => p = q
  /\ \A p \in Procs : call[p].step = "idle" => call[p] = Idle

\* The bitmap and the names are on the disk as they are in memory, and so are
\* the inodes that are there, but for their types and sizes.
DiskFollows ==
  /\ disk.bitmap = bound_blocks_bitmap
  /\ disk.names = file_names_list
  /\ \A i \in Inodes : disk.inodes[i].bound =>
       /\ inode_list[i].bound
       /\ inode_list[i].address_block = disk.inodes[i].address_block
       /\ inode_list[i].name = disk.inodes[i].name

\* The root and the inodes with a name, which is in the list, have a block each.
InodesSound ==
  /\ disk.inodes[ROOT].bound
  /\ \A inodes \in {inode_list, disk.inodes} : \A i \in Inodes :
       ~inodes[i].bound => inodes[i] = Unbound
  /\ \A i \in Inodes : inode_list[i].bound =>
       /\ inode_list[i].address_block \in bound_blocks_bitmap \cup {0}
       /\ inode_list[i].name \in file_names_list \cup {NULL}
       /\ i = ROOT \/ inode_list[i].name # NULL => inode_list[i].address_block # 0
  /\ \A i, j \in Inodes :
       HasBlock(inode_list, i) /\ HasBlock(inode_list, j)
         /\ inode_list[i].address_block = inode_list[j].address_block => i = j

\* Position k of inode i in memory has data block b.
HasData(i, k, b) == HasBlock(inode_list, i) /\ EntriesOf(inode_list, i)[k] = b

\* The data blocks of inodes are marked, nobody else's, and no blocks of
\* entries; blocks that are not marked are empty.
DataSound ==
  /\ \A i \in Inodes, k \in Positions, b \in Blocks : HasData(i, k, b) =>
       /\ b \in bound_blocks_bitmap
       /\ \A j \in Inodes : inode_list[j].bound => inode_list[j].address_block # b
       /\ \A j \in Inodes, l \in Positions : HasData(j, l, b) => i = j /\ k = l
  /\ \A b \in Blocks \ bound_blocks_bitmap : disk.blocks[b] = NoEntries

\* The data blocks of an open file are the same in its descriptor.
CacheSound ==
  \A i \in Inodes : file[i] # NULL =>
    /\ HasBlock(inode_list, i)
    /\ inode_list[i].type = "REGULAR_FILE"
    /\ \A k \in Positions, b \in Blocks :
         file[i][k] = b <=> EntriesOf(inode_list, i)[k] = b

\* A file that was written to is no new file, nor will it be one after a power
\* failure; a new file has no data blocks.
TypesSound ==
  /\ \A i \in Inodes :
       /\ inode_list[i].size = 1 =>
            /\ inode_list[i].type # "NEW_FILE"
            /\ disk.inodes[i].bound
            /\ disk.inodes[i].type # "NEW_FILE"
       /\ disk.inodes[i].size = 1 =>
            disk.inodes[i].type # "NEW_FILE" /\ inode_list[i].size = 1
  /\ WrittenFilesStayFiles

\* What a call to open has still to create has room, and its directory is there.
Creates(p) ==
  LET n == Len(call[p].path)
  IN  /\ call[p].step \in {"name", "bind"} =>
           /\ call[p].path \in Paths
           /\ HasBlock(inode_list, call[p].inode)
           /\ Cardinality(FreeInodes) >= n /\ Cardinality(FreeBlocks) >= n
           /\ call[p].step = "bind" => Head(call[p].path) \in file_names_list
      /\ call[p].step = "enter" =>
           /\ call[p].path \in Paths
           /\ HasBlock(inode_list, call[p].inode)
           /\ call[p].block \in Inodes \ {call[p].inode}
           /\ HasBlock(inode_list, call[p].block)
           /\ inode_list[call[p].block].type = "DIRECTORY"
           /\ inode_list[call[p].block].size = 0
           /\ EntriesOf(inode_list, call[p].block) = NoEntries
           /\ Cardinality(FreeInodes) >= n - 1 /\ Cardinality(FreeBlocks) >= n - 1
      /\ call[p].step = "list" => HasBlock(inode_list, call[p].inode)

\* What write is about to mark nobody has, and what it has marked it alone has.
Writes(p) ==
  LET i == call[p].inode
      b == call[p].block
  IN  /\ call[p].step \in {"block", "mark", "link"} =>
           /\ opened[p] = i
           /\ inode_list[i].size = 1
           /\ call[p].at \in Positions
           /\ call[p].left >= 1 /\ call[p].at + call[p].left <= LENGTH + 1
      /\ call[p].step \in {"mark", "link"} => b \in Blocks /\ file[i][call[p].at] = 0
      /\ call[p].step = "mark" => b \notin bound_blocks_bitmap
      /\ call[p].step = "link" =>
           /\ b \in bound_blocks_bitmap
           /\ \A j \in Inodes : inode_list[j].bound => inode_list[j].address_block # b
           /\ \A j \in Inodes, k \in Positions : ~HasData(j, k, b)

\* As long as the power has not failed, a marked block is in use or about to be.
MarkedUsed ==
  crashes = 0 =>
    \A b \in bound_blocks_bitmap :
      \/ \E i \in Inodes : inode_list[i].bound /\ inode_list[i].address_block = b
      \/ \E i \in Inodes, k \in Positions : HasData(i, k, b)
      \/ \E p \in Procs : call[p].step = "link" /\ call[p].block = b

\* An inode without a name is the rest of a transfer that a power failure ended.
LostSound ==
  /\ \A i \in Lost(inode_list) : disk.inodes[i].bound
  /\ Cardinality(Lost(disk.inodes)) <= crashes

IInv ==
  /\ TypeOK
  /\ OneCall
  /\ DiskFollows
  /\ InodesSound
  /\ DataSound
  /\ CacheSound
  /\ TypesSound
  /\ \A p \in Procs : Creates(p) /\ Writes(p)
  /\ MarkedUsed
  /\ LostSound

-----------------------------------------------------------------------------
(* Lookups.                                                                  *)

(* A non-empty set of natural numbers has a minimum, which Min chooses.       *)
LEMMA MinExists ==
  ASSUME NEW T \in SUBSET Nat, T # {}
  PROVE  Min(T) \in T /\ \A y \in T : Min(T) <= y
<1> DEFINE Less == {ss \in Nat \X Nat : ss[1] < ss[2]}
<1>1. IsWellFoundedOn(Less, Nat)
  BY NatLessThanWellFounded, Zenon DEF OpToRel
<1>2. PICK x \in T : \A y \in T : ~(<<y, x>> \in Less)
  <2> HIDE DEF Less
  <2> QED
    BY <1>1, WFMin, Zenon
<1>3. \A y \in T : x <= y
  <2> SUFFICES ASSUME NEW y \in T PROVE x <= y
    OBVIOUS
  <2>1. <<y, x>> \in Nat \X Nat /\ ~(<<y, x>> \in Less)
    BY <1>2
  <2>2. ~(<<y, x>>[1] < <<y, x>>[2])
    BY <2>1
  <2>3. QED
    BY <2>2
<1>4. QED
  BY <1>3, Zenon DEF Min

(* A table of inodes in which a lookup finds inodes with blocks: others have  *)
(* no name.                                                                   *)
Searchable(inodes) ==
  /\ inodes \in [Inodes -> Inode]
  /\ HasBlock(inodes, ROOT)
  /\ \A i \in Inodes : inodes[i].name # NULL => HasBlock(inodes, i)

(* Numbers of inodes are no numbers of blocks, and no lookup gives NULL.      *)
LEMMA Numbers ==
  /\ ROOT \in Inodes /\ Inodes \subseteq Nat /\ NULL \notin Inodes
  /\ Blocks \subseteq Nat /\ 0 \notin Blocks
  /\ \A b \in Blocks : b \notin Inodes
BY NULLAssumption, LengthsAssumption, BlocksAssumption DEF Inodes, ROOT

(* The inode found in a directory is in use.                                  *)
LEMMA ChildFacts ==
  ASSUME disk \in Disk, NEW inodes, Searchable(inodes), NEW d \in Inodes,
         HasBlock(inodes, d), NEW name \in Names, Child(inodes, d, name) # NULL
  PROVE  /\ Child(inodes, d, name) \in Inodes \ {ROOT}
         /\ HasBlock(inodes, Child(inodes, d, name))
         /\ inodes[Child(inodes, d, name)].name = name
<1> DEFINE entries == EntriesOf(inodes, d)
           here == {k \in Positions : entries[k] \in Inodes \ {0} /\ inodes[entries[k]].name = name}
<1>1. Child(inodes, d, name) = IF here = {} THEN NULL ELSE entries[Min(here)]
  BY DEF Child
<1>2. here # {}
  BY <1>1
<1>3. here \in SUBSET Nat
  BY DEF Positions
<1>4. Min(here) \in here
  <2> HIDE DEF here
  <2>1. QED
    BY <1>2, <1>3, MinExists
<1> DEFINE e == entries[Min(here)]
<1>5. e \in Inodes \ {0} /\ inodes[e].name = name
  BY <1>4
<1>6. HasBlock(inodes, e)
  <2>1. name # NULL
    BY NULLAssumption
  <2>2. QED
    BY <1>5, <2>1 DEF Searchable
<1>7. PICK c : c = e
  OBVIOUS
<1>8. Child(inodes, d, name) = c /\ c \in Inodes \ {ROOT} /\ inodes[c].name = name
  BY <1>1, <1>2, <1>5, <1>7 DEF ROOT
<1>9. HasBlock(inodes, c)
  BY <1>6, <1>7
<1>10. QED
  BY <1>8, <1>9, Zenon

(* The steps of a lookup.                                                     *)
LEMMA WalkFacts ==
  ASSUME NEW inodes, NEW path \in Paths
  PROVE  /\ DOMAIN Walk(inodes, path) = 0 .. Len(path)
         /\ Walk(inodes, path)[0] = ROOT
         /\ \A k \in 1 .. Len(path) :
              Walk(inodes, path)[k] =
                IF Walk(inodes, path)[k - 1] = NULL THEN NULL
                ELSE Child(inodes, Walk(inodes, path)[k - 1], path[k])
<1> DEFINE n == Len(path)
           Walks(w) == w = [k \in 0 .. n |->
                              IF k = 0 THEN ROOT
                              ELSE IF w[k - 1] = NULL THEN NULL
                              ELSE Child(inodes, w[k - 1], path[k])]
           one == Child(inodes, ROOT, path[1])
           two == IF one = NULL THEN NULL ELSE Child(inodes, one, path[2])
           w0 == [k \in 0 .. n |-> IF k = 0 THEN ROOT ELSE IF k = 1 THEN one ELSE two]
<1>1. n \in 1 .. 2
  BY DEF Paths
<1>2. ROOT # NULL
  BY NULLAssumption DEF ROOT
<1>3. Walks(w0)
  <2>1. ASSUME NEW k \in 0 .. n
        PROVE  w0[k] = IF k = 0 THEN ROOT
                       ELSE IF w0[k - 1] = NULL THEN NULL
                       ELSE Child(inodes, w0[k - 1], path[k])
    <3>1. CASE k = 0
      BY <3>1
    <3>2. CASE k = 1
      BY <1>1, <1>2, <3>2
    <3>3. CASE k = 2
      BY <1>1, <1>2, <3>3
    <3>4. QED
      BY <1>1, <3>1, <3>2, <3>3
  <2>2. QED
    BY <2>1
<1>4. Walk(inodes, path) = CHOOSE w : Walks(w)
  BY DEF Walk
<1>5. Walks(Walk(inodes, path))
  <2> HIDE DEF Walks
  <2>1. QED
    BY <1>3, <1>4, Zenon
<1>6. QED
  BY <1>1, <1>5

(* Every inode along a path is in use.                                        *)
LEMMA WalkBound ==
  ASSUME disk \in Disk, NEW inodes, Searchable(inodes), NEW path \in Paths,
         NEW k \in 0 .. Len(path), Walk(inodes, path)[k] # NULL
  PROVE  Walk(inodes, path)[k] \in Inodes /\ HasBlock(inodes, Walk(inodes, path)[k])
<1> DEFINE w == Walk(inodes, path)
           Found(j) == w[j] \in Inodes /\ HasBlock(inodes, w[j])
<1>1. Len(path) \in 1 .. 2 /\ \A j \in 1 .. Len(path) : path[j] \in Names
  BY DEF Paths
<1>2. /\ w[0] = ROOT
      /\ \A j \in 1 .. Len(path) :
           w[j] = IF w[j - 1] = NULL THEN NULL ELSE Child(inodes, w[j - 1], path[j])
  BY WalkFacts
<1>3. Found(0)
  BY <1>2, Numbers DEF Searchable
<1> HIDE DEF w
<1>4. ASSUME NEW j \in 1 .. Len(path), w[j] # NULL, w[j - 1] # NULL => Found(j - 1)
      PROVE  Found(j)
  <2>1. w[j - 1] # NULL /\ w[j] = Child(inodes, w[j - 1], path[j])
    BY <1>2, <1>4
  <2>2. w[j - 1] \in Inodes /\ HasBlock(inodes, w[j - 1]) /\ path[j] \in Names
    BY <1>1, <1>4, <2>1
  <2>3. QED
    BY <1>4, <2>1, <2>2, ChildFacts
<1>5. w[1] # NULL => Found(1)
  <2>1. 1 \in 1 .. Len(path) /\ 1 - 1 = 0
    BY <1>1
  <2> HIDE DEF Found
  <2>2. QED
    BY <1>3, <1>4, <2>1
<1>6. 2 \in 1 .. Len(path) /\ w[2] # NULL => Found(2)
  <2>1. 2 - 1 = 1
    OBVIOUS
  <2> HIDE DEF Found
  <2>2. QED
    BY <1>4, <1>5, <2>1
<1>7. k \in {0, 1} \/ (k = 2 /\ 2 \in 1 .. Len(path))
  BY <1>1
<1>8. w[k] # NULL
  BY DEF w
<1>9. Found(k)
  <2> HIDE DEF Found
  <2>1. QED
    BY <1>3, <1>5, <1>6, <1>7, <1>8
<1>10. QED
  BY <1>9 DEF w

(* How much of a path exists.                                                 *)
LEMMA DepthFacts ==
  ASSUME NEW path \in Paths
  PROVE  /\ Depth(path) \in 0 .. Len(path)
         /\ Walk(inode_list, path)[Depth(path)] # NULL
         /\ \A k \in 0 .. Len(path) : Walk(inode_list, path)[k] # NULL => k <= Depth(path)
<1> DEFINE w == Walk(inode_list, path)
           S == {k \in 0 .. Len(path) : w[k] # NULL}
<1>1. Len(path) \in 1 .. 2
  BY DEF Paths
<1>2. w[0] # NULL
  BY WalkFacts, NULLAssumption DEF ROOT
<1> HIDE DEF w
<1>3. \E m \in S : \A k \in S : m >= k
  <2>1. 0 \in S /\ \A k \in S : k \in {0, 1, 2}
    <3>1. PICK n \in 1 .. 2 : n = Len(path)
      BY <1>1
    <3>2. 0 \in 0 .. n /\ \A k \in 0 .. n : k = 0 \/ k = 1 \/ k = 2
      BY <3>1
    <3>3. QED
      BY <1>2, <3>1, <3>2
  <2> HIDE DEF S
  <2>2. CASE 2 \in S
    BY <2>1, <2>2
  <2>3. CASE 2 \notin S /\ 1 \in S
    BY <2>1, <2>3
  <2>4. CASE 2 \notin S /\ 1 \notin S
    BY <2>1, <2>4
  <2>5. QED
    BY <2>2, <2>3, <2>4
<1>4. Max(S) \in S /\ \A k \in S : Max(S) >= k
  <2> HIDE DEF S
  <2>1. QED
    BY <1>3, Zenon DEF Max
<1>5. Depth(path) = Max(S)
  BY DEF Depth, w
<1>6. QED
  BY <1>4, <1>5 DEF w

(* The first free inode and block.                                            *)
LEMMA FreeFacts ==
  /\ FreeInodes # {} => NewInode \in FreeInodes /\ \A i \in FreeInodes : NewInode <= i
  /\ FreeBlocks # {} => FirstFreeBlock \in FreeBlocks
<1>1. FreeInodes \in SUBSET Nat /\ FreeBlocks \in SUBSET Nat
  BY Numbers DEF FreeInodes, FreeBlocks
<1>2. QED
  BY <1>1, MinExists DEF NewInode, FirstFreeBlock

(* Counting what is free.                                                     *)
LEMMA FreeCount ==
  /\ IsFiniteSet(FreeInodes) /\ IsFiniteSet(FreeBlocks)
  /\ Cardinality(FreeInodes) \in Nat /\ Cardinality(FreeBlocks) \in Nat
<1>1. IsFiniteSet(Inodes)
  BY LengthsAssumption, FS_Interval DEF Inodes
<1>2. FreeInodes \subseteq Inodes /\ FreeBlocks \subseteq Blocks
  BY DEF FreeInodes, FreeBlocks
<1>3. IsFiniteSet(FreeInodes) /\ IsFiniteSet(FreeBlocks)
  BY <1>1, <1>2, FS_Subset, BlocksAssumption
<1>4. QED
  BY <1>3, FS_CardinalityType

(* What a set has that has one element less.                                  *)
LEMMA OneLess ==
  ASSUME NEW S, IsFiniteSet(S), NEW n \in Nat, Cardinality(S) >= n, n >= 1
  PROVE  /\ S # {}
         /\ \A x \in S : Cardinality(S \ {x}) >= n - 1
<1>1. Cardinality(S) \in Nat
  BY FS_CardinalityType
<1>2. S # {}
  BY <1>1, FS_EmptySet
<1>3. \A x \in S : Cardinality(S \ {x}) = Cardinality(S) - 1
  BY FS_RemoveElement
<1>4. QED
  BY <1>1, <1>2, <1>3

-----------------------------------------------------------------------------
(* The initial states.                                                       *)

(* The invariant holds of an empty root directory.                            *)
LEMMA InitInv == Init => IInv
<1> SUFFICES ASSUME Init PROVE IInv
  OBVIOUS
<1> DEFINE b0 == Min(Blocks)
           root == [Unbound EXCEPT !.bound = TRUE, !.type = "DIRECTORY",
                                   !.address_block = b0]
<1>1. b0 \in Blocks /\ b0 # 0
  BY MinExists, BlocksAssumption, Numbers
<1>2. /\ disk = [bitmap |-> {b0},
                 inodes |-> [i \in Inodes |-> IF i = ROOT THEN root ELSE Unbound],
                 names |-> {}, blocks |-> [b \in Blocks |-> NoEntries]]
      /\ bound_blocks_bitmap = disk.bitmap /\ inode_list = disk.inodes
      /\ file_names_list = disk.names
      /\ file = [i \in Inodes |-> NULL] /\ opened = [p \in Procs |-> NULL]
      /\ call = [p \in Procs |-> Idle] /\ crashes = 0
  BY DEF Init
<1> HIDE DEF b0
<1>3. /\ root \in Inode /\ Unbound \in Inode
      /\ root.bound /\ root.address_block = b0 /\ root.size = 0
      /\ root.type = "DIRECTORY" /\ root.name = NULL
  <2> DEFINE one == [Unbound EXCEPT !.bound = TRUE]
             two == [one EXCEPT !.type = "DIRECTORY"]
             three == [two EXCEPT !.address_block = b0]
  <2>1. Unbound \in Inode /\ Unbound.size = 0 /\ Unbound.name = NULL
    BY DEF Unbound, Inode
  <2>2. one \in Inode /\ one.bound /\ one.size = 0 /\ one.name = NULL
    BY <2>1 DEF Inode
  <2> HIDE DEF one
  <2>3. /\ two \in Inode /\ two.bound /\ two.size = 0 /\ two.type = "DIRECTORY"
        /\ two.name = NULL
    BY <2>2 DEF Inode
  <2> HIDE DEF two
  <2>4. /\ three \in Inode /\ three.bound /\ three.size = 0 /\ three.type = "DIRECTORY"
        /\ three.address_block = b0 /\ three.name = NULL
    BY <1>1, <2>3 DEF Inode
  <2>5. root = three
    BY DEF one, two
  <2>6. QED
    BY <2>1, <2>4, <2>5
<1> HIDE DEF root
<1>4. /\ bound_blocks_bitmap = {b0} /\ file_names_list = {}
      /\ inode_list = [i \in Inodes |-> IF i = ROOT THEN root ELSE Unbound]
      /\ disk.bitmap = {b0} /\ disk.names = {} /\ disk.inodes = inode_list
      /\ disk.blocks = [b \in Blocks |-> NoEntries]
  BY <1>2
<1>5. /\ inode_list[ROOT] = root /\ ROOT \in Inodes
      /\ \A i \in Inodes \ {ROOT} : inode_list[i] = Unbound
      /\ ~Unbound.bound /\ Unbound.size = 0
  BY <1>4, Numbers DEF Unbound
<1>6. NoEntries \in Entries /\ \A k \in Positions : NoEntries[k] = 0
  BY Numbers DEF NoEntries, Entries, ROOT
<1>7. Idle \in Call /\ Idle.step = "idle"
  BY Numbers, LengthsAssumption DEF Idle, Call, ROOT
<1>8. \A p \in Procs : call[p] = Idle /\ call[p].step = "idle"
  BY <1>2, <1>7
<1>9. TypeOK
  <2>1. disk.inodes \in [Inodes -> Inode]
    BY <1>3, <1>4
  <2>2. disk \in Disk
    BY <1>1, <1>2, <1>3, <1>6 DEF Disk
  <2>3. crashes \in 0 .. MAX_CRASHES
    BY <1>2, BoundsAssumption
  <2>4. QED
    BY <1>1, <1>2, <1>4, <1>7, <2>1, <2>2, <2>3 DEF TypeOK
<1>10. \A i \in Inodes, k \in Positions, b \in Blocks : ~HasData(i, k, b)
  BY <1>1, <1>3, <1>4, <1>5, <1>6, Numbers DEF HasData, EntriesOf
<1>11. OneCall
  BY <1>8 DEF OneCall
<1>12. DiskFollows
  BY <1>4 DEF DiskFollows
<1>13. InodesSound
  <2>1. disk.inodes[ROOT].bound
    BY <1>3, <1>4, <1>5
  <2>2. \A i \in Inodes : ~inode_list[i].bound => inode_list[i] = Unbound
    BY <1>3, <1>5
  <2>3. ASSUME NEW i \in Inodes, inode_list[i].bound
        PROVE  i = ROOT /\ inode_list[i] = root
    BY <1>5, <2>3
  <2>4. QED
    BY <1>1, <1>3, <1>4, <2>1, <2>2, <2>3 DEF InodesSound
<1>14. DataSound
  BY <1>4, <1>10 DEF DataSound
<1>15. CacheSound
  BY <1>2 DEF CacheSound
<1>16. TypesSound
  BY <1>3, <1>4, <1>5 DEF TypesSound, WrittenFilesStayFiles
<1>17. \A p \in Procs : Creates(p) /\ Writes(p)
  BY <1>8 DEF Creates, Writes
<1>18. MarkedUsed
  BY <1>3, <1>4, <1>5 DEF MarkedUsed
<1>19. LostSound
  <2>1. Lost(inode_list) = {} /\ Lost(disk.inodes) = {}
    BY <1>4, <1>5 DEF Lost
  <2>2. Cardinality(Lost(disk.inodes)) = 0
    BY <2>1, FS_EmptySet
  <2>3. QED
    BY <1>2, <2>1, <2>2 DEF LostSound
<1>20. QED
  BY <1>9, <1>11, <1>12, <1>13, <1>14, <1>15, <1>16, <1>17, <1>18, <1>19 DEF IInv

-----------------------------------------------------------------------------
(* Steps in general.                                                         *)

(* Lookups find inodes in use, in memory and on the disk.                     *)
LEMMA Searches ==
  ASSUME TypeOK, DiskFollows, InodesSound
  PROVE  Searchable(inode_list) /\ Searchable(disk.inodes)
<1>1. /\ inode_list \in [Inodes -> Inode] /\ disk.inodes \in [Inodes -> Inode]
      /\ bound_blocks_bitmap \subseteq Blocks
  BY DEF TypeOK, Disk
<1>2. Unbound.name = NULL
  BY DEF Unbound
<1>3. HasBlock(disk.inodes, ROOT) /\ HasBlock(inode_list, ROOT)
  BY Numbers DEF DiskFollows, InodesSound
<1>4. \A i \in Inodes : inode_list[i].name # NULL => HasBlock(inode_list, i)
  BY <1>2 DEF InodesSound
<1>5. \A i \in Inodes : disk.inodes[i].name # NULL => HasBlock(disk.inodes, i)
  BY <1>2, <1>4 DEF DiskFollows, InodesSound
<1>6. QED
  BY <1>1, <1>3, <1>4, <1>5 DEF Searchable

\* Everybody but p is in no call.
OthersIdle(p) == \A q \in Procs \ {p} : call[q] = Idle

(* Without preemption nobody else is in a call while p takes a step.          *)
LEMMA Alone ==
  ASSUME PREEMPT = FALSE, OneCall, NEW p \in Procs,
         MayStep(p) \/ call[p].step # "idle"
  PROVE  OthersIdle(p)
BY DEF OneCall, MayStep, OthersIdle

Becomes(p, c) == call' = [call EXCEPT ![p] = c]

(* The step of one process's call.                                            *)
LEMMA CallStep ==
  ASSUME call \in [Procs -> Call], NEW p \in Procs, OthersIdle(p), NEW c \in Call,
         c.step = "idle" => c = Idle, Becomes(p, c)
  PROVE  /\ call' \in [Procs -> Call] /\ call'[p] = c
         /\ \A q \in Procs \ {p} : call'[q] = Idle /\ call'[q].step = "idle"
         /\ OneCall'
<1>1. call' \in [Procs -> Call] /\ call'[p] = c
  BY DEF Becomes
<1>2. \A q \in Procs \ {p} : call'[q] = Idle
  BY DEF Becomes, OthersIdle
<1>3. Idle.step = "idle"
  BY DEF Idle
<1>4. OneCall'
  BY <1>1, <1>2, <1>3 DEF OneCall
<1>5. QED
  BY <1>1, <1>2, <1>3, <1>4

(* Who is in no call has nothing to create or to write.                       *)
LEMMA OneAtWork ==
  ASSUME NEW p \in Procs, \A q \in Procs \ {p} : call'[q].step = "idle",
         Creates(p)', Writes(p)'
  PROVE  (\A q \in Procs : Creates(q) /\ Writes(q))'
<1>1. ASSUME NEW q \in Procs, q # p PROVE Creates(q)' /\ Writes(q)'
  <2>1. call'[q].step = "idle"
    BY <1>1
  <2>2. QED
    BY <2>1 DEF Creates, Writes
<1>2. QED
  BY <1>1

\* A step that creates no inode and changes no block of entries.
SameTree ==
  /\ inode_list' \in [Inodes -> Inode]
  /\ \A i \in Inodes :
       /\ inode_list'[i].bound = inode_list[i].bound
       /\ inode_list'[i].address_block = inode_list[i].address_block
       /\ inode_list'[i].name = inode_list[i].name
       /\ ~inode_list[i].bound => inode_list'[i] = inode_list[i]
  /\ bound_blocks_bitmap \subseteq bound_blocks_bitmap'
  /\ bound_blocks_bitmap' \subseteq Blocks
  /\ file_names_list \subseteq file_names_list'
  /\ disk'.bitmap = bound_blocks_bitmap'
  /\ disk'.names = file_names_list'
  /\ disk'.inodes \in {disk.inodes, inode_list, inode_list'}
  /\ disk'.blocks = disk.blocks

\* What most steps of p do: they keep the tree, and make no directory but of a
\* new file.
Quiet(p) ==
  /\ SameTree
  /\ crashes' = crashes
  /\ disk'.inodes = disk.inodes \/ call[p].step \in {"idle", "list"}
  /\ \A q \in Procs \ {p} : call[q].step = "idle" /\ call'[q].step = "idle"
  /\ \A i \in Inodes :
       /\ inode_list[i].type = "DIRECTORY" => inode_list'[i].type = "DIRECTORY"
       /\ inode_list'[i].type = "DIRECTORY" => inode_list[i].type \in {"DIRECTORY", "NEW_FILE"}
       /\ file'[i] \in {NULL, file[i], EntriesOf(inode_list, i)}

(* The entries of the inodes are what they were.                              *)
LEMMA SameEntries ==
  ASSUME SameTree
  PROVE  /\ \A i \in Inodes :
              EntriesOf(inode_list, i)' = EntriesOf(inode_list, i)
         /\ \A i \in Inodes, k \in Positions, b \in Blocks :
              HasData(i, k, b)' <=> HasData(i, k, b)
BY DEF SameTree, EntriesOf, HasData

(* The tables stay as they should be.                                         *)
LEMMA SameTreeSound ==
  ASSUME SameTree, DiskFollows, InodesSound, DataSound
  PROVE  DiskFollows' /\ InodesSound' /\ DataSound'
<1>1. DiskFollows'
  BY DEF SameTree, DiskFollows
<1>2. InodesSound'
  <2>1. disk'.inodes[ROOT].bound
    BY Numbers DEF SameTree, DiskFollows, InodesSound
  <2>2. \A i \in Inodes :
          /\ ~inode_list'[i].bound => inode_list'[i] = Unbound
          /\ ~disk'.inodes[i].bound => disk'.inodes[i] = Unbound
    BY DEF SameTree, InodesSound
  <2>3. \A i \in Inodes : inode_list'[i].bound =>
          /\ inode_list'[i].address_block \in bound_blocks_bitmap' \cup {0}
          /\ inode_list'[i].name \in file_names_list' \cup {NULL}
          /\ i = ROOT \/ inode_list'[i].name # NULL => inode_list'[i].address_block # 0
    BY DEF SameTree, InodesSound
  <2>4. \A i, j \in Inodes :
          HasBlock(inode_list', i) /\ HasBlock(inode_list', j)
            /\ inode_list'[i].address_block = inode_list'[j].address_block => i = j
    BY DEF SameTree, InodesSound
  <2>5. QED
    BY <2>1, <2>2, <2>3, <2>4 DEF InodesSound
<1>3. DataSound'
  <2>1. \A i \in Inodes, k \in Positions, b \in Blocks :
          HasData(i, k, b)' <=> HasData(i, k, b)
    BY SameEntries
  <2>2. \A b \in Blocks \ bound_blocks_bitmap' : disk'.blocks[b] = NoEntries
    BY DEF SameTree, DataSound
  <2>3. ASSUME NEW i \in Inodes, NEW k \in Positions, NEW b \in Blocks, HasData(i, k, b)'
        PROVE  /\ b \in bound_blocks_bitmap'
               /\ \A j \in Inodes : inode_list'[j].bound => inode_list'[j].address_block # b
               /\ \A j \in Inodes, l \in Positions : HasData(j, l, b)' => i = j /\ k = l
    <3>1. HasData(i, k, b)
      BY <2>1, <2>3
    <3>2. b \in bound_blocks_bitmap'
      BY <3>1 DEF DataSound, SameTree
    <3>3. \A j \in Inodes : inode_list'[j].bound => inode_list'[j].address_block # b
      BY <3>1 DEF DataSound, SameTree
    <3>4. \A j \in Inodes, l \in Positions : HasData(j, l, b)' => i = j /\ k = l
      BY <2>1, <3>1 DEF DataSound
    <3>5. QED
      BY <3>2, <3>3, <3>4
  <2>4. QED
    BY <2>2, <2>3 DEF DataSound
<1>4. QED
  BY <1>1, <1>2, <1>3

(* No name is lost.                                                           *)
LEMMA SameTreeLost ==
  ASSUME SameTree, DiskFollows, LostSound, crashes' = crashes
  PROVE  LostSound'
<1>1. Lost(inode_list') = Lost(inode_list)
  BY DEF SameTree, Lost
<1>2. Lost(inode_list) = Lost(disk.inodes)
  BY DEF LostSound, DiskFollows, Lost
<1>3. Lost(disk'.inodes) = Lost(disk.inodes)
  BY <1>1, <1>2 DEF SameTree
<1>4. \A i \in Lost(inode_list') : disk'.inodes[i].bound
  BY <1>1, <1>2, <1>3 DEF Lost
<1>5. QED
  BY <1>3, <1>4 DEF LostSound

(* Types and sizes stay as they should be, if new files are made regular ones *)
(* or directories only, and a size is written to the disk with its inode.     *)
LEMMA SameTreeTypes ==
  ASSUME SameTree, DiskFollows, InodesSound, TypesSound,
         \A i \in Inodes :
           /\ inode_list'[i].type = "NEW_FILE" => inode_list[i].type = "NEW_FILE"
           /\ inode_list[i].size = 1 => inode_list'[i].size = 1
           /\ inode_list'[i].size = 1 =>
                \/ inode_list[i].size = 1
                \/ /\ disk'.inodes = inode_list' /\ inode_list[i].bound
                   /\ inode_list'[i].type # "NEW_FILE"
  PROVE  TypesSound'
<1>1. \A i \in Inodes :
        /\ inode_list'[i].size = 1 =>
             /\ inode_list'[i].type # "NEW_FILE"
             /\ disk'.inodes[i].bound
             /\ disk'.inodes[i].type # "NEW_FILE"
        /\ disk'.inodes[i].size = 1 =>
             disk'.inodes[i].type # "NEW_FILE" /\ inode_list'[i].size = 1
  BY DEF SameTree, TypesSound, DiskFollows
<1>2. ASSUME NEW i \in Inodes, HasBlock(inode_list', i), inode_list'[i].type = "NEW_FILE"
      PROVE  \A k \in Positions : EntriesOf(inode_list, i)'[k] \notin Blocks
  <2>1. HasBlock(inode_list, i) /\ inode_list[i].type = "NEW_FILE"
    BY <1>2 DEF SameTree
  <2>2. \A k \in Positions : EntriesOf(inode_list, i)[k] \notin Blocks
    BY <2>1 DEF TypesSound, WrittenFilesStayFiles
  <2>3. QED
    BY <2>2, SameEntries
<1>3. ASSUME NEW i \in Inodes, HasBlock(disk'.inodes, i), disk'.inodes[i].type = "NEW_FILE"
      PROVE  \A k \in Positions : EntriesOf(disk.inodes, i)'[k] \notin Blocks
  <2>1. CASE disk'.inodes = disk.inodes
    BY <1>3, <2>1 DEF TypesSound, WrittenFilesStayFiles, SameTree, EntriesOf
  <2>2. CASE disk'.inodes = inode_list
    BY <1>3, <2>2 DEF TypesSound, WrittenFilesStayFiles, SameTree, EntriesOf
  <2>3. CASE disk'.inodes = inode_list'
    BY <1>2, <1>3, <2>3 DEF EntriesOf
  <2>4. QED
    BY <2>1, <2>2, <2>3 DEF SameTree
<1>4. WrittenFilesStayFiles'
  BY <1>2, <1>3 DEF WrittenFilesStayFiles
<1>5. QED
  BY <1>1, <1>4 DEF TypesSound

(* Descriptors stay as they should be, if regular files stay regular and a    *)
(* descriptor is closed, kept, or read from the disk.                         *)
LEMMA SameTreeCache ==
  ASSUME SameTree, CacheSound,
         \A i \in Inodes :
           /\ inode_list[i].type = "REGULAR_FILE" => inode_list'[i].type = "REGULAR_FILE"
           /\ \/ file'[i] \in {NULL, file[i]}
              \/ /\ file'[i] = EntriesOf(inode_list, i)
                 /\ HasBlock(inode_list, i) /\ inode_list'[i].type = "REGULAR_FILE"
  PROVE  CacheSound'
<1> SUFFICES ASSUME NEW i \in Inodes, file'[i] # NULL
             PROVE  /\ HasBlock(inode_list', i)
                    /\ inode_list'[i].type = "REGULAR_FILE"
                    /\ \A k \in Positions, b \in Blocks :
                         file'[i][k] = b <=> EntriesOf(inode_list, i)'[k] = b
  BY DEF CacheSound
<1>1. EntriesOf(inode_list, i)' = EntriesOf(inode_list, i)
  BY SameEntries
<1>2. HasBlock(inode_list', i) = HasBlock(inode_list, i)
  BY DEF SameTree
<1>3. CASE file'[i] = file[i]
  BY <1>1, <1>2, <1>3 DEF CacheSound
<1>4. CASE /\ file'[i] = EntriesOf(inode_list, i)
           /\ HasBlock(inode_list, i) /\ inode_list'[i].type = "REGULAR_FILE"
  BY <1>1, <1>2, <1>4
<1>5. QED
  BY <1>3, <1>4

(* What was used is still used, unless the link of a block was given up.      *)
LEMMA SameTreeMarked ==
  ASSUME SameTree, MarkedUsed, crashes' = crashes,
         bound_blocks_bitmap' = bound_blocks_bitmap,
         \A p \in Procs : call[p].step # "link"
  PROVE  MarkedUsed'
<1> SUFFICES ASSUME crashes' = 0, NEW b \in bound_blocks_bitmap
             PROVE  \/ \E i \in Inodes : inode_list'[i].bound /\ inode_list'[i].address_block = b
                    \/ \E i \in Inodes, k \in Positions : HasData(i, k, b)'
  BY DEF MarkedUsed
<1>1. \/ \E i \in Inodes : inode_list[i].bound /\ inode_list[i].address_block = b
      \/ \E i \in Inodes, k \in Positions : HasData(i, k, b)
  BY DEF MarkedUsed
<1>2. CASE \E i \in Inodes : inode_list[i].bound /\ inode_list[i].address_block = b
  BY <1>2 DEF SameTree
<1>3. CASE \E i \in Inodes, k \in Positions : HasData(i, k, b)
  <2>1. b \in Blocks
    BY DEF SameTree
  <2>2. QED
    BY <1>3, <2>1, SameEntries
<1>4. QED
  BY <1>1, <1>2, <1>3

(* The tail of open() on an inode in use.                                     *)
LEMMA OpenInodeFacts ==
  ASSUME TypeOK, NEW p \in Procs, NEW i \in Inodes, HasBlock(inode_list, i),
         OpenInode(p, i)
  PROVE  /\ inode_list' \in [Inodes -> Inode]
         /\ \A j \in Inodes :
              /\ inode_list'[j].bound = inode_list[j].bound
              /\ inode_list'[j].address_block = inode_list[j].address_block
              /\ inode_list'[j].name = inode_list[j].name
              /\ inode_list'[j].size = inode_list[j].size
              /\ ~inode_list[j].bound => inode_list'[j] = inode_list[j]
              /\ inode_list'[j].type = "NEW_FILE" => inode_list[j].type = "NEW_FILE"
              /\ inode_list[j].type = "REGULAR_FILE" => inode_list'[j].type = "REGULAR_FILE"
              /\ inode_list'[j].type = "DIRECTORY" <=> inode_list[j].type = "DIRECTORY"
              /\ \/ file'[j] \in {NULL, file[j]}
                 \/ /\ file'[j] = EntriesOf(inode_list, j)
                    /\ HasBlock(inode_list, j) /\ inode_list'[j].type = "REGULAR_FILE"
         /\ opened' \in [Procs -> Inodes \cup {NULL}]
         /\ inode_list[i].address_block \in Blocks =>
              /\ file' \in [Inodes -> Entries \cup {NULL}]
              /\ \A q \in Procs : opened'[q] # NULL => file'[opened'[q]] # NULL
<1> DEFINE t == IF inode_list[i].type = "NEW_FILE" THEN "REGULAR_FILE" ELSE inode_list[i].type
           x == [inode_list[i] EXCEPT !.type = t]
<1>1. inode_list \in [Inodes -> Inode] /\ inode_list[i] \in Inode
  BY DEF TypeOK
<1>2. /\ x \in Inode /\ x.type = t /\ x.bound = inode_list[i].bound /\ x.name = inode_list[i].name
      /\ x.address_block = inode_list[i].address_block /\ x.size = inode_list[i].size
  BY <1>1 DEF Inode
<1>3. inode_list' = [inode_list EXCEPT ![i] = x]
  BY DEF OpenInode
<1> HIDE DEF x
<1>4. /\ inode_list' \in [Inodes -> Inode] /\ inode_list'[i] = x
      /\ \A j \in Inodes \ {i} : inode_list'[j] = inode_list[j]
  BY <1>1, <1>2, <1>3
<1>5. \A j \in Inodes :
        /\ inode_list'[j].bound = inode_list[j].bound
        /\ inode_list'[j].address_block = inode_list[j].address_block
        /\ inode_list'[j].name = inode_list[j].name
        /\ inode_list'[j].size = inode_list[j].size
        /\ ~inode_list[j].bound => inode_list'[j] = inode_list[j]
        /\ inode_list'[j].type = "NEW_FILE" => inode_list[j].type = "NEW_FILE"
        /\ inode_list[j].type = "REGULAR_FILE" => inode_list'[j].type = "REGULAR_FILE"
        /\ inode_list'[j].type = "DIRECTORY" <=> inode_list[j].type = "DIRECTORY"
  BY <1>2, <1>4
<1> DEFINE Stays == UNCHANGED <<opened, file>>
           Opens == /\ inode_list'[i].type = "REGULAR_FILE"
                    /\ opened' = [opened EXCEPT ![p] = i]
                    /\ file' = [file EXCEPT ![i] =
                                  IF file[i] = NULL THEN EntriesOf(inode_list, i) ELSE file[i]]
<1>6. Stays \/ Opens
  BY DEF OpenInode
<1>7. opened \in [Procs -> Inodes \cup {NULL}] /\ file \in [Inodes -> Entries \cup {NULL}]
  BY DEF TypeOK
<1>8. CASE Stays
  <2>1. file' = file /\ opened' = opened
    BY <1>8
  <2>2. \A q \in Procs : opened[q] # NULL => file[opened[q]] # NULL
    BY DEF TypeOK
  <2>3. QED
    BY <1>4, <1>5, <1>7, <2>1, <2>2
<1>9. CASE Opens
  <2>1. /\ opened' \in [Procs -> Inodes \cup {NULL}] /\ opened'[p] = i
        /\ \A q \in Procs \ {p} : opened'[q] = opened[q]
    BY <1>7, <1>9
  <2>2. /\ \A j \in Inodes \ {i} : file'[j] = file[j]
        /\ file'[i] = IF file[i] = NULL THEN EntriesOf(inode_list, i) ELSE file[i]
        /\ file' = [j \in Inodes |-> file'[j]]
    BY <1>7, <1>9
  <2>3. ASSUME inode_list[i].address_block \in Blocks
        PROVE  /\ file' \in [Inodes -> Entries \cup {NULL}]
               /\ \A q \in Procs : opened'[q] # NULL => file'[opened'[q]] # NULL
    <3>1. EntriesOf(inode_list, i) \in Entries
      BY <2>3 DEF EntriesOf, TypeOK, Disk
    <3>2. NULL \notin Entries
      <4>1. Blocks \cup Inodes \subseteq Nat
        BY Numbers
      <4>2. Entries \subseteq [1 .. LENGTH -> Nat]
        BY <4>1 DEF Entries, Positions
      <4>3. QED
        BY <4>2, NULLAssumption
    <3>3. file'[i] # NULL /\ file'[i] \in Entries \cup {NULL}
      BY <1>7, <2>2, <3>1, <3>2
    <3>4. \A j \in Inodes : file'[j] \in Entries \cup {NULL}
      BY <1>7, <2>2, <3>3
    <3>5. file' \in [Inodes -> Entries \cup {NULL}]
      BY <2>2, <3>4
    <3>6. ASSUME NEW q \in Procs, opened'[q] # NULL PROVE file'[opened'[q]] # NULL
      <4>1. CASE q = p
        BY <2>1, <3>3, <4>1
      <4>2. CASE q # p
        <5>1. opened[q] # NULL /\ opened[q] \in Inodes /\ file[opened[q]] # NULL
          BY <1>7, <2>1, <3>6, <4>2 DEF TypeOK
        <5>2. QED
          BY <2>1, <2>2, <3>3, <4>2, <5>1
      <4>3. QED
        BY <4>1, <4>2
    <3>7. QED
      BY <3>5, <3>6
  <2>4. \A j \in Inodes :
          \/ file'[j] \in {NULL, file[j]}
          \/ /\ file'[j] = EntriesOf(inode_list, j)
             /\ HasBlock(inode_list, j) /\ inode_list'[j].type = "REGULAR_FILE"
    BY <1>9, <2>2
  <2>5. QED
    BY <1>4, <1>5, <2>1, <2>3, <2>4
<1>10. QED
  BY <1>6, <1>8, <1>9

(* Between calls there is nothing to create or to write.                      *)
LEMMA AllIdle ==
  ASSUME \A q \in Procs : call'[q] = Idle
  PROVE  OneCall' /\ (\A q \in Procs : Creates(q) /\ Writes(q))'
<1>1. \A q \in Procs : call'[q].step = "idle" /\ call'[q] = Idle
  BY DEF Idle
<1>2. QED
  BY <1>1 DEF OneCall, Creates, Writes

-----------------------------------------------------------------------------
(* open and opendir.                                                         *)

LEMMA OpenStep ==
  ASSUME PREEMPT = FALSE, IInv, NEW p \in Procs, NEW path \in Paths, open(p, path)
  PROVE  IInv' /\ Quiet(p) /\ call'[p].step \notin Masked
<1> DEFINE i == Lookup(inode_list, path)
<1>1. /\ TypeOK /\ OneCall /\ DiskFollows /\ InodesSound /\ DataSound /\ CacheSound
      /\ TypesSound /\ MarkedUsed /\ LostSound
  BY DEF IInv
<1>2. /\ call[p] = Idle /\ MayStep(p) /\ OpenInode(p, i)
      /\ Depth(path) = Len(path)
      /\ UNCHANGED <<bound_blocks_bitmap, file_names_list, disk, call, crashes>>
  BY DEF open
<1>3. i \in Inodes /\ HasBlock(inode_list, i) /\ inode_list[i].address_block \in Blocks
  <2>1. Searchable(inode_list) /\ disk \in Disk
    BY <1>1, Searches DEF TypeOK
  <2>2. /\ Walk(inode_list, path)[Len(path)] # NULL
        /\ Len(path) \in 0 .. Len(path)
    BY <1>2, DepthFacts
  <2>3. i \in Inodes /\ HasBlock(inode_list, i)
    BY <2>1, <2>2, WalkBound DEF Lookup
  <2>4. inode_list[i].address_block \in Blocks \cup {0}
    BY <1>1, <2>3 DEF TypeOK, Inode
  <2>5. QED
    BY <2>3, <2>4
<1>4. \A q \in Procs : call[q] = Idle /\ call'[q] = Idle /\ call[q].step # "link"
  <2>1. OthersIdle(p)
    BY <1>1, <1>2, Alone
  <2>2. Idle.step # "link"
    BY DEF Idle
  <2>3. QED
    BY <1>2, <2>1, <2>2 DEF OthersIdle
<1> HIDE DEF i
<1>5. /\ inode_list' \in [Inodes -> Inode]
      /\ \A j \in Inodes :
           /\ inode_list'[j].bound = inode_list[j].bound
           /\ inode_list'[j].address_block = inode_list[j].address_block
           /\ inode_list'[j].name = inode_list[j].name
           /\ inode_list'[j].size = inode_list[j].size
           /\ ~inode_list[j].bound => inode_list'[j] = inode_list[j]
           /\ inode_list'[j].type = "NEW_FILE" => inode_list[j].type = "NEW_FILE"
           /\ inode_list[j].type = "REGULAR_FILE" => inode_list'[j].type = "REGULAR_FILE"
           /\ inode_list'[j].type = "DIRECTORY" <=> inode_list[j].type = "DIRECTORY"
           /\ \/ file'[j] \in {NULL, file[j]}
              \/ /\ file'[j] = EntriesOf(inode_list, j)
                 /\ HasBlock(inode_list, j) /\ inode_list'[j].type = "REGULAR_FILE"
      /\ opened' \in [Procs -> Inodes \cup {NULL}]
      /\ file' \in [Inodes -> Entries \cup {NULL}]
      /\ \A q \in Procs : opened'[q] # NULL => file'[opened'[q]] # NULL
  BY <1>1, <1>2, <1>3, OpenInodeFacts
<1>6. TypeOK'
  BY <1>1, <1>2, <1>5 DEF TypeOK
<1>7. SameTree
  BY <1>1, <1>2, <1>5 DEF SameTree, TypeOK, DiskFollows
<1>8. DiskFollows' /\ InodesSound' /\ DataSound' /\ LostSound'
  BY <1>1, <1>2, <1>7, SameTreeSound, SameTreeLost
<1>9. TypesSound'
  BY <1>1, <1>5, <1>7, SameTreeTypes
<1>10. CacheSound'
  BY <1>1, <1>5, <1>7, SameTreeCache
<1>11. MarkedUsed'
  BY <1>1, <1>2, <1>4, <1>7, SameTreeMarked
<1>12. OneCall' /\ (\A q \in Procs : Creates(q) /\ Writes(q))'
  BY <1>4, AllIdle
<1>13. Quiet(p) /\ call'[p].step \notin Masked
  BY <1>2, <1>4, <1>5, <1>7 DEF Quiet, Idle, Masked
<1>14. QED
  BY <1>6, <1>8, <1>9, <1>10, <1>11, <1>12, <1>13 DEF IInv

LEMMA OpendirStep ==
  ASSUME PREEMPT = FALSE, IInv, NEW p \in Procs, NEW path \in Paths, opendir(p, path)
  PROVE  IInv' /\ Quiet(p) /\ call'[p].step \notin Masked
<1> DEFINE i == Lookup(inode_list, path)
           t == IF inode_list[i].type = "NEW_FILE" THEN "DIRECTORY" ELSE inode_list[i].type
           x == [inode_list[i] EXCEPT !.type = t]
<1>1. /\ TypeOK /\ OneCall /\ DiskFollows /\ InodesSound /\ DataSound /\ CacheSound
      /\ TypesSound /\ MarkedUsed /\ LostSound
  BY DEF IInv
<1>2. /\ call[p] = Idle /\ MayStep(p) /\ i # NULL
      /\ inode_list' = [inode_list EXCEPT ![i] = x]
      /\ UNCHANGED <<bound_blocks_bitmap, file_names_list, disk, file, opened, call, crashes>>
  BY DEF opendir
<1>3. i \in Inodes /\ HasBlock(inode_list, i)
  <2>1. Searchable(inode_list) /\ disk \in Disk
    BY <1>1, Searches DEF TypeOK
  <2>2. /\ Walk(inode_list, path)[Len(path)] # NULL
        /\ Len(path) \in 0 .. Len(path)
    BY <1>2, DepthFacts DEF Lookup, Paths
  <2>3. QED
    BY <2>1, <2>2, WalkBound DEF Lookup, Searchable
<1>4. \A q \in Procs : call[q] = Idle /\ call'[q] = Idle /\ call[q].step # "link"
  <2>1. OthersIdle(p)
    BY <1>1, <1>2, Alone
  <2>2. Idle.step # "link"
    BY DEF Idle
  <2>3. QED
    BY <1>2, <2>1, <2>2 DEF OthersIdle
<1> HIDE DEF i
<1>5. inode_list \in [Inodes -> Inode] /\ inode_list[i] \in Inode
  BY <1>1, <1>3 DEF TypeOK
<1>6. /\ x \in Inode /\ x.type = t /\ x.bound = inode_list[i].bound /\ x.name = inode_list[i].name
      /\ x.address_block = inode_list[i].address_block /\ x.size = inode_list[i].size
  BY <1>5 DEF Inode
<1> HIDE DEF x
<1>7. /\ inode_list' \in [Inodes -> Inode] /\ inode_list'[i] = x
      /\ \A j \in Inodes \ {i} : inode_list'[j] = inode_list[j]
  BY <1>2, <1>3, <1>5, <1>6
<1>8. /\ inode_list' \in [Inodes -> Inode]
      /\ \A j \in Inodes :
           /\ inode_list'[j].bound = inode_list[j].bound
           /\ inode_list'[j].address_block = inode_list[j].address_block
           /\ inode_list'[j].name = inode_list[j].name
           /\ inode_list'[j].size = inode_list[j].size
           /\ ~inode_list[j].bound => inode_list'[j] = inode_list[j]
           /\ inode_list'[j].type = "NEW_FILE" => inode_list[j].type = "NEW_FILE"
           /\ inode_list[j].type = "REGULAR_FILE" => inode_list'[j].type = "REGULAR_FILE"
           /\ file'[j] = file[j]
  BY <1>2, <1>3, <1>6, <1>7
<1>9. TypeOK'
  BY <1>1, <1>2, <1>8 DEF TypeOK
<1>10. SameTree
  BY <1>1, <1>2, <1>8 DEF SameTree, TypeOK, DiskFollows
<1>11. DiskFollows' /\ InodesSound' /\ DataSound' /\ LostSound'
  BY <1>1, <1>2, <1>10, SameTreeSound, SameTreeLost
<1>12. TypesSound'
  BY <1>1, <1>8, <1>10, SameTreeTypes
<1>13. CacheSound'
  BY <1>1, <1>8, <1>10, SameTreeCache
<1>14. MarkedUsed'
  BY <1>1, <1>2, <1>4, <1>10, SameTreeMarked
<1>15. OneCall' /\ (\A q \in Procs : Creates(q) /\ Writes(q))'
  BY <1>4, AllIdle
<1>16. \A j \in Inodes :
         /\ inode_list[j].type = "DIRECTORY" => inode_list'[j].type = "DIRECTORY"
         /\ inode_list'[j].type = "DIRECTORY" => inode_list[j].type \in {"DIRECTORY", "NEW_FILE"}
  BY <1>6, <1>7
<1>17. Quiet(p) /\ call'[p].step \notin Masked
  BY <1>2, <1>4, <1>10, <1>16 DEF Quiet, Idle, Masked
<1>18. QED
  BY <1>9, <1>11, <1>12, <1>13, <1>14, <1>15, <1>16, <1>17 DEF IInv

LEMMA CloseStep ==
  ASSUME PREEMPT = FALSE, IInv, NEW p \in Procs, close(p)
  PROVE  IInv' /\ Quiet(p) /\ call'[p].step \notin Masked
<1> DEFINE i == opened[p]
           x == IF \E q \in Procs \ {p} : opened[q] = i THEN file[i] ELSE NULL
<1>1. /\ TypeOK /\ OneCall /\ DiskFollows /\ InodesSound /\ DataSound /\ CacheSound
      /\ TypesSound /\ MarkedUsed /\ LostSound
  BY DEF IInv
<1>2. /\ call[p] = Idle /\ MayStep(p) /\ opened[p] # NULL
      /\ opened' = [opened EXCEPT ![p] = NULL]
      /\ file' = [file EXCEPT ![i] = x]
      /\ UNCHANGED <<tables, disk, call, crashes>>
  BY DEF close
<1>3. \A q \in Procs : call[q] = Idle /\ call'[q] = Idle /\ call[q].step # "link"
  <2>1. OthersIdle(p)
    BY <1>1, <1>2, Alone
  <2>2. Idle.step # "link"
    BY DEF Idle
  <2>3. QED
    BY <1>2, <2>1, <2>2 DEF OthersIdle
<1>4. /\ opened \in [Procs -> Inodes \cup {NULL}] /\ file \in [Inodes -> Entries \cup {NULL}]
      /\ i \in Inodes /\ x \in Entries \cup {NULL}
  BY <1>1, <1>2 DEF TypeOK
<1>5. /\ opened' \in [Procs -> Inodes \cup {NULL}] /\ file' \in [Inodes -> Entries \cup {NULL}]
      /\ opened'[p] = NULL /\ \A q \in Procs \ {p} : opened'[q] = opened[q]
      /\ file'[i] = x /\ \A j \in Inodes \ {i} : file'[j] = file[j]
  <2> HIDE DEF x
  <2>1. QED
    BY <1>2, <1>4
<1>6. \A q \in Procs : opened'[q] # NULL => file'[opened'[q]] # NULL
  <2> SUFFICES ASSUME NEW q \in Procs, opened'[q] # NULL PROVE file'[opened'[q]] # NULL
    OBVIOUS
  <2>1. q # p /\ opened'[q] = opened[q] /\ opened[q] \in Inodes /\ file[opened[q]] # NULL
    BY <1>1, <1>4, <1>5 DEF TypeOK
  <2>2. CASE opened[q] = i
    <3>1. x = file[i]
      BY <2>1, <2>2
    <3>2. QED
      BY <1>5, <2>1, <2>2, <3>1
  <2>3. CASE opened[q] # i
    BY <1>5, <2>1, <2>3
  <2>4. QED
    BY <2>2, <2>3
<1>7. \A j \in Inodes : file'[j] \in {NULL, file[j]}
  BY <1>5
<1>8. TypeOK'
  BY <1>1, <1>2, <1>5, <1>6 DEF TypeOK, tables
<1>9. SameTree
  BY <1>1, <1>2 DEF SameTree, TypeOK, DiskFollows, tables
<1>10. DiskFollows' /\ InodesSound' /\ DataSound' /\ LostSound'
  BY <1>1, <1>2, <1>9, SameTreeSound, SameTreeLost
<1>11. inode_list' = inode_list
  BY <1>2 DEF tables
<1>12. TypesSound'
  BY <1>1, <1>9, <1>11, SameTreeTypes
<1>13. CacheSound'
  BY <1>1, <1>7, <1>9, <1>11, SameTreeCache
<1>14. MarkedUsed'
  BY <1>1, <1>2, <1>3, <1>9, SameTreeMarked DEF tables
<1>15. OneCall' /\ (\A q \in Procs : Creates(q) /\ Writes(q))'
  BY <1>3, AllIdle
<1>16. Quiet(p) /\ call'[p].step \notin Masked
  BY <1>2, <1>3, <1>7, <1>9, <1>11 DEF Quiet, Idle, Masked
<1>17. QED
  BY <1>8, <1>10, <1>12, <1>13, <1>14, <1>15, <1>16 DEF IInv

(* Paths are sequences of one or two names.                                   *)
LEMMA PathFacts ==
  ASSUME NEW path
  PROVE  /\ path \in Paths <=> path \in Seq(Names) /\ Len(path) \in 1 .. 2
         /\ path \in Paths =>
              /\ Head(path) \in Names
              /\ Tail(path) # <<>> => Tail(path) \in Paths /\ Len(Tail(path)) = Len(path) - 1
              /\ \A d \in 0 .. Len(path) :
                   SubSeq(path, d + 1, Len(path)) # <<>>
                     => SubSeq(path, d + 1, Len(path)) \in Paths
<1>1. ASSUME NEW s
      PROVE  s \in Paths <=> s \in Seq(Names) /\ Len(s) \in 1 .. 2
  <2>1. ASSUME s \in Paths PROVE s \in Seq(Names) /\ Len(s) \in 1 .. 2
    <3>1. PICK n \in 1 .. 2 : s \in [1 .. n -> Names]
      BY <2>1 DEF Paths
    <3>2. s \in Seq(Names)
      BY <3>1, SeqDef
    <3>3. Len(s) = n
      BY <3>1, <3>2
    <3>4. QED
      BY <3>2, <3>3
  <2>2. ASSUME s \in Seq(Names), Len(s) \in 1 .. 2 PROVE s \in Paths
    <3>1. s \in [1 .. Len(s) -> Names]
      BY <2>2
    <3>2. Len(s) = 1 \/ Len(s) = 2
      BY <2>2
    <3>3. QED
      BY <3>1, <3>2 DEF Paths
  <2>3. QED
    BY <2>1, <2>2
<1>2. ASSUME path \in Paths
      PROVE  /\ Head(path) \in Names
             /\ Tail(path) # <<>> => Tail(path) \in Paths /\ Len(Tail(path)) = Len(path) - 1
             /\ \A d \in 0 .. Len(path) :
                  SubSeq(path, d + 1, Len(path)) # <<>>
                    => SubSeq(path, d + 1, Len(path)) \in Paths
  <2>1. path \in Seq(Names) /\ Len(path) \in 1 .. 2
    BY <1>1, <1>2
  <2>2. Head(path) \in Names
    BY <2>1
  <2>3. Tail(path) \in Seq(Names) /\ Len(Tail(path)) = Len(path) - 1
    BY <2>1
  <2>4. Tail(path) # <<>> => Tail(path) \in Paths /\ Len(Tail(path)) = Len(path) - 1
    <3>1. Tail(path) # <<>> => Len(Tail(path)) # 0
      BY <2>3
    <3>2. Tail(path) # <<>> => Len(Tail(path)) \in 1 .. 2
      BY <2>1, <2>3, <3>1
    <3>3. Tail(path) \in Seq(Names) /\ Len(Tail(path)) \in 1 .. 2 => Tail(path) \in Paths
      BY <1>1
    <3>4. QED
      BY <2>3, <3>2, <3>3
  <2>5. ASSUME NEW d \in 0 .. Len(path), SubSeq(path, d + 1, Len(path)) # <<>>
        PROVE  SubSeq(path, d + 1, Len(path)) \in Paths
    <3>1. /\ SubSeq(path, d + 1, Len(path)) \in Seq(Names)
          /\ Len(SubSeq(path, d + 1, Len(path))) = Len(path) - d
      BY <2>1, SubSeqProperties
    <3>2. Len(SubSeq(path, d + 1, Len(path))) # 0
      <4> DEFINE r == SubSeq(path, d + 1, Len(path))
      <4>1. r \in Seq(Names) /\ r # <<>>
        BY <2>5, <3>1
      <4> HIDE DEF r
      <4>2. Len(r) # 0
        BY <4>1, EmptySeq
      <4>3. QED
        BY <4>2 DEF r
    <3>3. Len(SubSeq(path, d + 1, Len(path))) \in 1 .. 2
      BY <2>1, <3>1, <3>2
    <3>4. QED
      BY <1>1, <3>1, <3>3
  <2>6. QED
    BY <2>2, <2>4, <2>5
<1>3. QED
  BY <1>1, <1>2

(* The rest of a path that does not exist yet is to be created.               *)
LEMMA CreateStep ==
  ASSUME PREEMPT = FALSE, IInv, NEW p \in Procs, NEW path \in Paths, Create(p, path)
  PROVE  /\ IInv' /\ Quiet(p)
         /\ call'[p].step = "name"
         /\ call'[p].path = SubSeq(path, Depth(path) + 1, Len(path))
         /\ call'[p].inode = Walk(inode_list, path)[Depth(path)]
<1> DEFINE rest == SubSeq(path, Depth(path) + 1, Len(path))
           d == Walk(inode_list, path)[Depth(path)]
           one == [Idle EXCEPT !.step = "name"]
           two == [one EXCEPT !.path = rest]
           c == [two EXCEPT !.inode = d]
<1>1. /\ TypeOK /\ OneCall /\ DiskFollows /\ InodesSound /\ DataSound /\ CacheSound
      /\ TypesSound /\ MarkedUsed /\ LostSound
  BY DEF IInv
<1>2. /\ call[p] = Idle /\ MayStep(p) /\ rest # <<>>
      /\ Cardinality(FreeInodes) >= Len(rest) /\ Cardinality(FreeBlocks) >= Len(rest)
      /\ call' = [call EXCEPT ![p] = c]
      /\ UNCHANGED <<bound_blocks_bitmap, inode_list, file_names_list, disk, file,
                     opened, crashes>>
  BY DEF Create, tables
<1>3. d \in Inodes /\ HasBlock(inode_list, d)
  <2>1. Searchable(inode_list) /\ disk \in Disk
    BY <1>1, Searches DEF TypeOK
  <2>2. QED
    BY <2>1, DepthFacts, WalkBound
<1>4. rest \in Paths
  BY <1>2, DepthFacts, PathFacts
<1>5. OthersIdle(p) /\ call \in [Procs -> Call]
  BY <1>1, <1>2, Alone DEF TypeOK
<1>6. \A q \in Procs : call[q].step # "link"
  BY <1>2, <1>5 DEF OthersIdle, Idle
<1> HIDE DEF rest, d
<1>7. Idle \in Call
  BY Numbers, LengthsAssumption DEF Idle, Call, ROOT
<1>8. one \in Call /\ one.step = "name"
  BY <1>7 DEF Call, Masked
<1> HIDE DEF one
<1>9. two \in Call /\ two.step = "name" /\ two.path = rest
  BY <1>4, <1>8 DEF Call
<1> HIDE DEF two
<1>10. c \in Call /\ c.step = "name" /\ c.path = rest /\ c.inode = d
  BY <1>3, <1>9 DEF Call
<1>11. Becomes(p, c)
  BY <1>2 DEF Becomes
<1> HIDE DEF c
<1>12. /\ call' \in [Procs -> Call] /\ call'[p] = c
       /\ \A q \in Procs \ {p} : call'[q] = Idle /\ call'[q].step = "idle"
       /\ OneCall'
  BY <1>5, <1>10, <1>11, CallStep
<1>13. TypeOK'
  BY <1>1, <1>2, <1>12 DEF TypeOK
<1>14. SameTree
  BY <1>1, <1>2 DEF SameTree, TypeOK, DiskFollows
<1>15. DiskFollows' /\ InodesSound' /\ DataSound' /\ LostSound'
  BY <1>1, <1>2, <1>14, SameTreeSound, SameTreeLost
<1>16. TypesSound'
  BY <1>1, <1>2, <1>14, SameTreeTypes
<1>17. CacheSound'
  BY <1>1, <1>2, <1>14, SameTreeCache
<1>18. MarkedUsed'
  BY <1>1, <1>2, <1>6, <1>14, SameTreeMarked
<1>19. call'[p].step = "name" /\ call'[p].path = rest /\ call'[p].inode = d
  BY <1>10, <1>12
<1>20. FreeInodes' = FreeInodes /\ FreeBlocks' = FreeBlocks
  BY <1>2 DEF FreeInodes, FreeBlocks
<1>21. Creates(p)'
  BY <1>2, <1>3, <1>4, <1>19, <1>20 DEF Creates
<1>22. Writes(p)'
  BY <1>19 DEF Writes
<1>23. (\A q \in Procs : Creates(q) /\ Writes(q))'
  BY <1>12, <1>21, <1>22, OneAtWork
<1>24. Quiet(p)
  BY <1>2, <1>5, <1>12, <1>14 DEF Quiet, OthersIdle, Idle
<1>25. QED
  BY <1>12, <1>13, <1>15, <1>16, <1>17, <1>18, <1>23, <1>24, <1>19 DEF IInv, rest, d

(* The name is there when its inode is bound.                                 *)
LEMMA WriteNameStep ==
  ASSUME PREEMPT = FALSE, IInv, NEW p \in Procs, WriteName(p)
  PROVE  /\ IInv' /\ Quiet(p)
         /\ call'[p].step = "bind" /\ call'[p].path = call[p].path
         /\ call'[p].inode = call[p].inode
<1> DEFINE name == Head(call[p].path)
           c == [call[p] EXCEPT !.step = "bind"]
           x == [disk EXCEPT !.names = disk.names \cup {name}]
<1>1. /\ TypeOK /\ OneCall /\ DiskFollows /\ InodesSound /\ DataSound /\ CacheSound
      /\ TypesSound /\ MarkedUsed /\ LostSound /\ Creates(p)
  BY DEF IInv
<1>2. /\ call[p].step = "name"
      /\ file_names_list' = file_names_list \cup {name}
      /\ disk' = x
      /\ call' = [call EXCEPT ![p] = c]
      /\ UNCHANGED <<bound_blocks_bitmap, inode_list, file, opened, crashes>>
  BY DEF WriteName
<1>3. call[p] \in Call /\ call[p].path \in Paths /\ name \in Names
  <2>1. call[p] \in Call /\ call[p].path \in Paths
    BY <1>1, <1>2 DEF TypeOK, Creates
  <2>2. QED
    BY <2>1, PathFacts
<1>4. OthersIdle(p) /\ call \in [Procs -> Call]
  BY <1>1, <1>2, Alone DEF TypeOK
<1>5. \A q \in Procs : call[q].step # "link"
  BY <1>2, <1>4 DEF OthersIdle, Idle
<1>6. c \in Call /\ c.step = "bind" /\ c.path = call[p].path /\ c.inode = call[p].inode
  BY <1>3 DEF Call, Masked
<1>7. Becomes(p, c)
  BY <1>2 DEF Becomes
<1> HIDE DEF c, name
<1>8. /\ call' \in [Procs -> Call] /\ call'[p] = c
      /\ \A q \in Procs \ {p} : call'[q] = Idle /\ call'[q].step = "idle"
      /\ OneCall'
  BY <1>4, <1>6, <1>7, CallStep
<1>9. /\ disk' \in Disk /\ disk'.bitmap = disk.bitmap /\ disk'.inodes = disk.inodes
      /\ disk'.blocks = disk.blocks /\ disk'.names = disk.names \cup {name}
  BY <1>1, <1>2, <1>3 DEF TypeOK, Disk
<1>10. TypeOK'
  BY <1>1, <1>2, <1>3, <1>8, <1>9 DEF TypeOK
<1>11. SameTree
  BY <1>1, <1>2, <1>9 DEF SameTree, TypeOK, DiskFollows
<1>12. DiskFollows' /\ InodesSound' /\ DataSound' /\ LostSound'
  BY <1>1, <1>2, <1>11, SameTreeSound, SameTreeLost
<1>13. TypesSound'
  BY <1>1, <1>2, <1>11, SameTreeTypes
<1>14. CacheSound'
  BY <1>1, <1>2, <1>11, SameTreeCache
<1>15. MarkedUsed'
  BY <1>1, <1>2, <1>5, <1>11, SameTreeMarked
<1>16. /\ call'[p].step = "bind" /\ call'[p].path = call[p].path
       /\ call'[p].inode = call[p].inode
  BY <1>6, <1>8
<1>17. FreeInodes' = FreeInodes /\ FreeBlocks' = FreeBlocks
  BY <1>2 DEF FreeInodes, FreeBlocks
<1>18. Head(call'[p].path) \in file_names_list'
  BY <1>2, <1>16 DEF name
<1>19. Creates(p)'
  BY <1>1, <1>2, <1>16, <1>17, <1>18 DEF Creates
<1>20. Writes(p)'
  BY <1>16 DEF Writes
<1>21. (\A q \in Procs : Creates(q) /\ Writes(q))'
  BY <1>8, <1>19, <1>20, OneAtWork
<1>22. Quiet(p)
  BY <1>2, <1>4, <1>8, <1>9, <1>11 DEF Quiet, OthersIdle, Idle
<1>23. QED
  BY <1>8, <1>10, <1>12, <1>13, <1>14, <1>15, <1>21, <1>22, <1>16 DEF IInv

\* Inode n is the first free one, and gets an empty block.
Binds(p, n) ==
  /\ OthersIdle(p) /\ (\A q \in Procs \ {p} : call'[q] = Idle)
  /\ call[p].step = "bind"
  /\ call'[p].step = "enter" /\ call'[p].path = call[p].path
  /\ call'[p].inode = call[p].inode /\ call'[p].block = n
  /\ call[p].inode \in Inodes /\ HasBlock(inode_list, call[p].inode)
  /\ n \in Inodes /\ ~inode_list[n].bound
  /\ \A i \in Inodes : ~inode_list[i].bound => n <= i
  /\ inode_list'[n].bound /\ inode_list'[n].name = Head(call[p].path)
  /\ inode_list'[n].type = "DIRECTORY" /\ EntriesOf(inode_list, n)' = NoEntries
  /\ \A i \in Inodes \ {n} :
       /\ inode_list'[i] = inode_list[i]
       /\ EntriesOf(inode_list, i)' = EntriesOf(inode_list, i)
  /\ disk'.inodes = disk.inodes /\ disk'.blocks = disk.blocks
  /\ file' = file /\ crashes' = crashes

(* A new inode and its block were free before, and have room for the rest.    *)
LEMMA BindInodeStep ==
  ASSUME PREEMPT = FALSE, IInv, NEW p \in Procs, BindInode(p)
  PROVE  IInv' /\ \E n \in Inodes : Binds(p, n)
<1>0. PICK n, b : n = NewInode /\ b = FirstFreeBlock
  OBVIOUS
<1> DEFINE len == Len(call[p].path)
           x == [bound |-> TRUE, name |-> Head(call[p].path), type |-> "DIRECTORY",
                 address_block |-> b, size |-> 0]
           one == [call[p] EXCEPT !.step = "enter"]
           c == [one EXCEPT !.block = n]
<1>1. /\ TypeOK /\ OneCall /\ DiskFollows /\ InodesSound /\ DataSound /\ CacheSound
      /\ TypesSound /\ MarkedUsed /\ LostSound /\ Creates(p)
  BY DEF IInv
<1>2. /\ call[p].step = "bind"
      /\ inode_list' = [inode_list EXCEPT ![n] = x]
      /\ bound_blocks_bitmap' = bound_blocks_bitmap \cup {b}
      /\ disk' = [disk EXCEPT !.bitmap = bound_blocks_bitmap \cup {b}]
      /\ UNCHANGED <<file_names_list, file, opened, crashes>>
  BY <1>0 DEF BindInode, get_free_block
<1>3. call \in [Procs -> Call] /\ call[p] \in Call /\ OthersIdle(p)
  BY <1>1, <1>2, Alone DEF TypeOK
<1>4. call' = [call EXCEPT ![p] = c]
  BY <1>0, <1>3 DEF BindInode
<1>5. /\ call[p].path \in Paths /\ HasBlock(inode_list, call[p].inode)
      /\ Cardinality(FreeInodes) >= len /\ Cardinality(FreeBlocks) >= len
      /\ Head(call[p].path) \in file_names_list
      /\ call[p].inode \in Inodes
  BY <1>1, <1>2, <1>3 DEF Creates, Call
<1>6. len \in 1 .. 2 /\ Head(call[p].path) \in Names
  BY <1>5, PathFacts
<1>7. /\ n \in Inodes /\ ~inode_list[n].bound
      /\ b \in Blocks /\ b \notin bound_blocks_bitmap
      /\ Cardinality(FreeInodes \ {n}) >= len - 1
      /\ Cardinality(FreeBlocks \ {b}) >= len - 1
  <2>1. /\ FreeInodes # {} /\ (\A i \in FreeInodes : Cardinality(FreeInodes \ {i}) >= len - 1)
        /\ FreeBlocks # {} /\ (\A i \in FreeBlocks : Cardinality(FreeBlocks \ {i}) >= len - 1)
    <3> HIDE DEF len
    <3>1. len \in Nat /\ len >= 1
      BY <1>6
    <3>2. QED
      BY <1>5, <3>1, OneLess, FreeCount
  <2>2. n \in FreeInodes /\ b \in FreeBlocks
    BY <1>0, <2>1, FreeFacts
  <2>3. QED
    BY <2>1, <2>2 DEF FreeInodes, FreeBlocks
<1> HIDE DEF len
<1>8. /\ x \in Inode /\ x.bound /\ x.name = Head(call[p].path) /\ x.type = "DIRECTORY"
      /\ x.address_block = b /\ x.size = 0
  BY <1>6, <1>7 DEF Inode
<1> HIDE DEF x
<1>9. inode_list \in [Inodes -> Inode] /\ disk \in Disk
  BY <1>1 DEF TypeOK
<1>10. /\ inode_list' \in [Inodes -> Inode] /\ inode_list'[n] = x
       /\ \A i \in Inodes \ {n} : inode_list'[i] = inode_list[i]
  BY <1>2, <1>7, <1>8, <1>9
<1>11. /\ disk' \in Disk /\ disk'.bitmap = bound_blocks_bitmap \cup {b}
       /\ disk'.inodes = disk.inodes /\ disk'.names = disk.names /\ disk'.blocks = disk.blocks
  BY <1>1, <1>2, <1>7, <1>9 DEF Disk, TypeOK
<1>12. one \in Call /\ one.step = "enter" /\ one.path = call[p].path /\ one.inode = call[p].inode
  BY <1>3 DEF Call, Masked
<1> HIDE DEF one
<1>13. /\ c \in Call /\ c.step = "enter" /\ c.path = call[p].path /\ c.inode = call[p].inode
       /\ c.block = n
  BY <1>7, <1>12 DEF Call
<1>14. Becomes(p, c)
  BY <1>4 DEF Becomes
<1> HIDE DEF c
<1>15. /\ call' \in [Procs -> Call] /\ call'[p] = c
       /\ \A q \in Procs \ {p} : call'[q] = Idle /\ call'[q].step = "idle"
       /\ OneCall'
  BY <1>3, <1>13, <1>14, CallStep
<1>16. TypeOK'
  BY <1>1, <1>2, <1>7, <1>10, <1>11, <1>15 DEF TypeOK
<1>17. EntriesOf(inode_list, n)' = NoEntries
  BY <1>1, <1>7, <1>8, <1>10, <1>11 DEF DataSound, EntriesOf
<1>18. \A i \in Inodes \ {n} : EntriesOf(inode_list, i)' = EntriesOf(inode_list, i)
  BY <1>10, <1>11 DEF EntriesOf
<1>19. \A i \in Inodes, k \in Positions, d \in Blocks : HasData(i, k, d)' <=> HasData(i, k, d)
  <2> SUFFICES ASSUME NEW i \in Inodes, NEW k \in Positions, NEW d \in Blocks
               PROVE  HasData(i, k, d)' <=> HasData(i, k, d)
    OBVIOUS
  <2>1. CASE i = n
    <3>1. EntriesOf(inode_list, n)'[k] # d
      BY <1>17, Numbers DEF NoEntries
    <3>2. QED
      BY <1>7, <2>1, <3>1 DEF HasData
  <2>2. CASE i # n
    BY <1>10, <1>18, <2>2 DEF HasData
  <2>3. QED
    BY <2>1, <2>2
<1>20. DiskFollows'
  BY <1>1, <1>2, <1>7, <1>10, <1>11 DEF DiskFollows
<1>21. InodesSound'
  <2>1. disk'.inodes[ROOT].bound
    BY <1>1, <1>11 DEF InodesSound
  <2>2. \A i \in Inodes :
          /\ ~inode_list'[i].bound => inode_list'[i] = Unbound
          /\ ~disk'.inodes[i].bound => disk'.inodes[i] = Unbound
    BY <1>1, <1>8, <1>10, <1>11 DEF InodesSound
  <2>3. \A i \in Inodes : inode_list'[i].bound =>
          /\ inode_list'[i].address_block \in bound_blocks_bitmap' \cup {0}
          /\ inode_list'[i].name \in file_names_list' \cup {NULL}
          /\ i = ROOT \/ inode_list'[i].name # NULL => inode_list'[i].address_block # 0
    BY <1>1, <1>2, <1>5, <1>7, <1>8, <1>10, Numbers DEF InodesSound
  <2>4. \A i \in Inodes : inode_list[i].bound => inode_list[i].address_block # b
    BY <1>1, <1>7, Numbers DEF InodesSound
  <2>5. \A i, j \in Inodes :
          HasBlock(inode_list', i) /\ HasBlock(inode_list', j)
            /\ inode_list'[i].address_block = inode_list'[j].address_block => i = j
    BY <1>1, <1>8, <1>10, <2>4 DEF InodesSound
  <2>6. QED
    BY <2>1, <2>2, <2>3, <2>5 DEF InodesSound
<1>22. DataSound'
  <2>1. ASSUME NEW i \in Inodes, NEW k \in Positions, NEW d \in Blocks, HasData(i, k, d)'
        PROVE  /\ d \in bound_blocks_bitmap'
               /\ \A j \in Inodes : inode_list'[j].bound => inode_list'[j].address_block # d
               /\ \A j \in Inodes, l \in Positions : HasData(j, l, d)' => i = j /\ k = l
    <3>1. HasData(i, k, d)
      BY <1>19, <2>1
    <3>2. d \in bound_blocks_bitmap
      BY <1>1, <3>1 DEF DataSound
    <3>3. \A j \in Inodes : inode_list'[j].bound => inode_list'[j].address_block # d
      BY <1>1, <1>7, <1>8, <1>10, <3>1, <3>2 DEF DataSound
    <3>4. \A j \in Inodes, l \in Positions : HasData(j, l, d)' => i = j /\ k = l
      BY <1>1, <1>19, <3>1 DEF DataSound
    <3>5. QED
      BY <1>2, <3>2, <3>3, <3>4
  <2>2. \A d \in Blocks \ bound_blocks_bitmap' : disk'.blocks[d] = NoEntries
    BY <1>1, <1>2, <1>11 DEF DataSound
  <2>3. QED
    BY <2>1, <2>2 DEF DataSound
<1>23. CacheSound'
  <2> SUFFICES ASSUME NEW i \in Inodes, file[i] # NULL
               PROVE  /\ HasBlock(inode_list', i)
                      /\ inode_list'[i].type = "REGULAR_FILE"
                      /\ \A k \in Positions, d \in Blocks :
                           file[i][k] = d <=> EntriesOf(inode_list, i)'[k] = d
    BY <1>2 DEF CacheSound
  <2>1. i # n
    BY <1>1, <1>7 DEF CacheSound
  <2>2. QED
    BY <1>1, <1>10, <1>18, <2>1 DEF CacheSound
<1>24. TypesSound'
  <2>1. \A i \in Inodes :
          /\ inode_list'[i].size = 1 =>
               /\ inode_list'[i].type # "NEW_FILE"
               /\ disk'.inodes[i].bound
               /\ disk'.inodes[i].type # "NEW_FILE"
          /\ disk'.inodes[i].size = 1 =>
               disk'.inodes[i].type # "NEW_FILE" /\ inode_list'[i].size = 1
    <3>1. inode_list[n].size = 0
      BY <1>1, <1>7 DEF InodesSound, Unbound
    <3>2. QED
      BY <1>1, <1>8, <1>10, <1>11, <3>1 DEF TypesSound
  <2>2. ASSUME NEW i \in Inodes, HasBlock(inode_list', i), inode_list'[i].type = "NEW_FILE"
        PROVE  \A k \in Positions : EntriesOf(inode_list, i)'[k] \notin Blocks
    <3>1. i # n
      BY <1>8, <1>10, <2>2
    <3>2. HasBlock(inode_list, i) /\ inode_list[i].type = "NEW_FILE"
      BY <1>10, <2>2, <3>1
    <3>3. QED
      BY <1>1, <1>18, <3>1, <3>2 DEF TypesSound, WrittenFilesStayFiles
  <2>3. ASSUME NEW i \in Inodes, HasBlock(disk'.inodes, i), disk'.inodes[i].type = "NEW_FILE"
        PROVE  \A k \in Positions : EntriesOf(disk.inodes, i)'[k] \notin Blocks
    BY <1>1, <1>11, <2>3 DEF TypesSound, WrittenFilesStayFiles, EntriesOf
  <2>4. WrittenFilesStayFiles'
    BY <2>2, <2>3 DEF WrittenFilesStayFiles
  <2>5. QED
    BY <2>1, <2>4 DEF TypesSound
<1>25. MarkedUsed'
  <2> SUFFICES ASSUME crashes' = 0, NEW d \in bound_blocks_bitmap'
               PROVE  \/ \E i \in Inodes : inode_list'[i].bound /\ inode_list'[i].address_block = d
                      \/ \E i \in Inodes, k \in Positions : HasData(i, k, d)'
    BY DEF MarkedUsed
  <2>1. CASE d = b
    BY <1>7, <1>8, <1>10, <2>1
  <2>2. CASE d # b
    <3>1. d \in bound_blocks_bitmap /\ d \in Blocks
      BY <1>1, <1>2, <2>2 DEF TypeOK
    <3>2. \A q \in Procs : call[q].step # "link"
      BY <1>2, <1>3 DEF OthersIdle, Idle
    <3>3. \/ \E i \in Inodes : inode_list[i].bound /\ inode_list[i].address_block = d
          \/ \E i \in Inodes, k \in Positions : HasData(i, k, d)
      BY <1>1, <1>2, <3>1, <3>2 DEF MarkedUsed
    <3>4. CASE \E i \in Inodes : inode_list[i].bound /\ inode_list[i].address_block = d
      BY <1>7, <1>10, <3>4
    <3>5. CASE \E i \in Inodes, k \in Positions : HasData(i, k, d)
      BY <1>19, <3>1, <3>5
    <3>6. QED
      BY <3>3, <3>4, <3>5
  <2>3. QED
    BY <2>1, <2>2
<1>26. /\ call'[p].step = "enter" /\ call'[p].path = call[p].path
       /\ call'[p].inode = call[p].inode /\ call'[p].block = n
  BY <1>13, <1>15
<1>27. FreeInodes' = FreeInodes \ {n} /\ FreeBlocks' = FreeBlocks \ {b}
  BY <1>2, <1>8, <1>10 DEF FreeInodes, FreeBlocks
<1>28. Creates(p)'
  <2>1. call[p].inode # n /\ HasBlock(inode_list', call[p].inode)
    BY <1>5, <1>7, <1>10
  <2>2. HasBlock(inode_list', n) /\ inode_list'[n].type = "DIRECTORY" /\ inode_list'[n].size = 0
    BY <1>7, <1>8, <1>10, Numbers
  <2>3. Cardinality(FreeInodes') >= len - 1 /\ Cardinality(FreeBlocks') >= len - 1
    BY <1>7, <1>27
  <2>4. disk'.blocks[inode_list'[n].address_block] = NoEntries
    BY <1>17 DEF EntriesOf
  <2>5. QED
    BY <1>5, <1>7, <1>26, <2>1, <2>2, <2>3, <2>4 DEF Creates, len, EntriesOf
<1>29. Writes(p)'
  BY <1>26 DEF Writes
<1>30. (\A q \in Procs : Creates(q) /\ Writes(q))'
  BY <1>15, <1>28, <1>29, OneAtWork
<1>31. \A i \in Inodes : ~inode_list[i].bound => n <= i
  BY <1>0, <1>7, FreeFacts DEF FreeInodes
<1>32. /\ \A q \in Procs \ {p} : call'[q] = Idle
       /\ \A i \in Inodes \ {n} :
            /\ inode_list'[i] = inode_list[i]
            /\ EntriesOf(inode_list, i)' = EntriesOf(inode_list, i)
       /\ inode_list'[n].bound /\ inode_list'[n].name = Head(call[p].path)
       /\ inode_list'[n].type = "DIRECTORY"
  BY <1>8, <1>10, <1>15, <1>18
<1>33. Binds(p, n)
  BY <1>2, <1>3, <1>5, <1>7, <1>11, <1>17, <1>26, <1>31, <1>32 DEF Binds
<1>34. LostSound'
  <2>1. Lost(inode_list') = Lost(inode_list)
    BY <1>6, <1>7, <1>8, <1>10, NULLAssumption DEF Lost
  <2>2. QED
    BY <1>1, <1>2, <1>11, <2>1 DEF LostSound
<1>35. IInv'
  BY <1>15, <1>16, <1>20, <1>21, <1>22, <1>23, <1>24, <1>25, <1>30, <1>34 DEF IInv
<1>36. QED
  BY <1>7, <1>33, <1>35

\* The entries e with i at position m, the first free one; nowhere if m is 0.
EntersAt(e, i, m, new) ==
  /\ \A k \in Positions : new[k] = IF k = m THEN i ELSE e[k]
  /\ m # 0 => m \in Positions /\ e[m] = 0
  /\ \A k \in Positions : m = 0 \/ k < m => e[k] # 0

(* An inode is entered at a position that was free, or nowhere.               *)
LEMMA EnterFacts ==
  ASSUME NEW e \in Entries, NEW i \in Inodes
  PROVE  /\ Enter(e, i) \in Entries
         /\ \A k \in Positions :
              Enter(e, i)[k] = e[k] \/ (e[k] = 0 /\ Enter(e, i)[k] = i)
         /\ \E m \in 0 .. LENGTH : EntersAt(e, i, m, Enter(e, i))
<1> DEFINE free == {k \in Positions : e[k] = 0}
           m == FreeEntry(e)
<1>1. m = IF free = {} THEN 0 ELSE Min(free)
  BY DEF FreeEntry
<1>2. free # {} => Min(free) \in free /\ \A k \in free : Min(free) <= k
  <2>1. free \in SUBSET Nat
    BY DEF Positions
  <2> HIDE DEF free
  <2>2. QED
    BY <2>1, MinExists
<1>3. m # 0 => m \in Positions /\ e[m] = 0
  BY <1>1, <1>2
<1>4. \A k \in Positions : m = 0 \/ k < m => e[k] # 0
  <2> SUFFICES ASSUME NEW k \in Positions, e[k] = 0 PROVE m # 0 /\ ~(k < m)
    OBVIOUS
  <2>1. k \in free
    OBVIOUS
  <2>2. m \in free /\ m <= k
    BY <1>1, <1>2, <2>1
  <2>3. QED
    BY <2>2 DEF Positions
<1> HIDE DEF m
<1>5. Enter(e, i) = IF m = 0 THEN e ELSE [e EXCEPT ![m] = i]
  BY DEF Enter, m
<1>6. Enter(e, i) \in Entries
  BY <1>3, <1>5 DEF Entries
<1>7. \A k \in Positions : Enter(e, i)[k] = IF k = m THEN i ELSE e[k]
  <2>1. 0 \notin Positions
    BY DEF Positions
  <2>2. QED
    BY <1>3, <1>5, <2>1 DEF Entries
<1>8. m \in 0 .. LENGTH
  BY <1>3, LengthsAssumption DEF Positions
<1>9. EntersAt(e, i, m, Enter(e, i))
  BY <1>3, <1>4, <1>7 DEF EntersAt
<1>10. \A k \in Positions : Enter(e, i)[k] = e[k] \/ (e[k] = 0 /\ Enter(e, i)[k] = i)
  <2> SUFFICES ASSUME NEW k \in Positions
               PROVE  Enter(e, i)[k] = e[k] \/ (e[k] = 0 /\ Enter(e, i)[k] = i)
    OBVIOUS
  <2>1. CASE k = m
    <3>1. m # 0
      BY <2>1 DEF Positions
    <3>2. QED
      BY <1>3, <1>7, <2>1, <3>1
  <2>2. CASE k # m
    BY <1>7, <2>2
  <2>3. QED
    BY <2>1, <2>2
<1>11. QED
  BY <1>6, <1>8, <1>9, <1>10

\* Inode i is entered into directory h at position m, and is the next directory
\* or a new file.
Enters(p, h, i, m) ==
  /\ OthersIdle(p) /\ (\A q \in Procs \ {p} : call'[q] = Idle)
  /\ call[p].step = "enter" /\ call[p].inode = h /\ call[p].block = i
  /\ call[p].path \in Paths
  /\ h \in Inodes /\ HasBlock(inode_list, h) /\ i \in Inodes \ {h} /\ HasBlock(inode_list, i)
  /\ EntriesOf(inode_list, i) = NoEntries
  /\ LET rest == Tail(call[p].path)
     IN  /\ call'[p].step = (IF rest = <<>> THEN "list" ELSE "name")
         /\ call'[p].path = rest /\ call'[p].inode = i
         /\ rest # <<>> => inode_list'[i].type = "DIRECTORY"
  /\ \A j \in Inodes :
       /\ inode_list'[j].bound = inode_list[j].bound
       /\ inode_list'[j].name = inode_list[j].name
       /\ inode_list'[j].address_block = inode_list[j].address_block
       /\ j # i => inode_list'[j].type = inode_list[j].type
       /\ HasBlock(inode_list, j) /\ j # h =>
            EntriesOf(inode_list, j)' = EntriesOf(inode_list, j)
  /\ EntersAt(EntriesOf(inode_list, h), i, m, EntriesOf(inode_list, h)')
  /\ disk'.inodes = disk.inodes
  /\ file' = file /\ crashes' = crashes

(* The new inode appears in its directory; no data block changes hands.       *)
LEMMA EnterInodeStep ==
  ASSUME PREEMPT = FALSE, IInv, NEW p \in Procs, EnterInode(p)
  PROVE  IInv' /\ \E h, i \in Inodes : \E m \in 0 .. LENGTH : Enters(p, h, i, m)
<1>0. PICK h, d, i, rest :
        /\ h = call[p].inode /\ d = inode_list[h].address_block
        /\ i = call[p].block /\ rest = Tail(call[p].path)
  OBVIOUS
<1> DEFINE len == Len(call[p].path)
           t == IF rest = <<>> THEN "NEW_FILE" ELSE inode_list[i].type
           x == [inode_list[i] EXCEPT !.type = t]
           one == [Idle EXCEPT !.step = IF rest = <<>> THEN "list" ELSE "name"]
           two == [one EXCEPT !.path = rest]
           c == [two EXCEPT !.inode = i]
           e == Enter(disk.blocks[d], i)
           y == [disk.blocks EXCEPT ![d] = e]
<1>1. /\ TypeOK /\ OneCall /\ DiskFollows /\ InodesSound /\ DataSound /\ CacheSound
      /\ TypesSound /\ MarkedUsed /\ LostSound /\ Creates(p)
  BY DEF IInv
<1>2. /\ call[p].step = "enter"
      /\ disk' = [disk EXCEPT !.blocks = y]
      /\ inode_list' = [inode_list EXCEPT ![i] = x]
      /\ call' = [call EXCEPT ![p] = c]
      /\ UNCHANGED <<bound_blocks_bitmap, file_names_list, file, opened, crashes>>
  BY <1>0 DEF EnterInode
<1>3. call \in [Procs -> Call] /\ call[p] \in Call /\ OthersIdle(p)
  BY <1>1, <1>2, Alone DEF TypeOK
<1>4. /\ call[p].path \in Paths /\ h \in Inodes /\ HasBlock(inode_list, h)
      /\ i \in Inodes /\ i # h /\ HasBlock(inode_list, i) /\ inode_list[i].type = "DIRECTORY"
      /\ inode_list[i].size = 0 /\ EntriesOf(inode_list, i) = NoEntries
      /\ Cardinality(FreeInodes) >= len - 1 /\ Cardinality(FreeBlocks) >= len - 1
  BY <1>0, <1>1, <1>2, <1>3 DEF Creates, Call
<1>5. rest # <<>> => rest \in Paths /\ Len(rest) = len - 1
  BY <1>0, <1>4, PathFacts
<1> HIDE DEF len
<1>6. inode_list \in [Inodes -> Inode] /\ disk \in Disk
  BY <1>1 DEF TypeOK
<1>7. d \in bound_blocks_bitmap /\ d \in Blocks
  BY <1>0, <1>1, <1>4 DEF InodesSound, TypeOK
<1>8. disk.blocks \in [Blocks -> Entries] /\ disk.blocks[d] \in Entries
  BY <1>6, <1>7 DEF Disk
<1>9. /\ e \in Entries
      /\ \A k \in Positions : e[k] = disk.blocks[d][k] \/ (disk.blocks[d][k] = 0 /\ e[k] = i)
      /\ \E m \in 0 .. LENGTH : EntersAt(disk.blocks[d], i, m, e)
  BY <1>4, <1>8, EnterFacts
<1> HIDE DEF e
<1>10. /\ y \in [Blocks -> Entries] /\ y[d] = e
       /\ \A b \in Blocks \ {d} : y[b] = disk.blocks[b]
  BY <1>7, <1>8, <1>9
<1> HIDE DEF y
<1>11. /\ disk' \in Disk /\ disk'.bitmap = disk.bitmap /\ disk'.inodes = disk.inodes
       /\ disk'.names = disk.names /\ disk'.blocks = y
  BY <1>2, <1>6, <1>10 DEF Disk
<1>12. inode_list[i] \in Inode
  BY <1>4, <1>6
<1>13. /\ x \in Inode /\ x.type = t /\ x.bound = inode_list[i].bound
       /\ x.name = inode_list[i].name /\ x.size = inode_list[i].size
       /\ x.address_block = inode_list[i].address_block
  BY <1>12 DEF Inode
<1> HIDE DEF x
<1>14. /\ inode_list' \in [Inodes -> Inode] /\ inode_list'[i] = x
       /\ \A j \in Inodes \ {i} : inode_list'[j] = inode_list[j]
  BY <1>2, <1>4, <1>6, <1>13
<1>15. \A j \in Inodes :
         /\ inode_list'[j].bound = inode_list[j].bound
         /\ inode_list'[j].address_block = inode_list[j].address_block
         /\ inode_list'[j].name = inode_list[j].name
         /\ inode_list'[j].size = inode_list[j].size
         /\ ~inode_list[j].bound => inode_list'[j] = inode_list[j]
         /\ j # i => inode_list'[j].type = inode_list[j].type
  BY <1>4, <1>13, <1>14
<1>16. Idle \in Call
  BY Numbers, LengthsAssumption DEF Idle, Call, ROOT
<1>17. one \in Call /\ one.step = (IF rest = <<>> THEN "list" ELSE "name")
  BY <1>16 DEF Call, Masked
<1> HIDE DEF one
<1>18. two \in Call /\ two.step = one.step /\ two.path = rest
  BY <1>5, <1>17 DEF Call
<1> HIDE DEF two
<1>19. c \in Call /\ c.step = (IF rest = <<>> THEN "list" ELSE "name") /\ c.path = rest /\ c.inode = i
  BY <1>4, <1>17, <1>18 DEF Call
<1>20. Becomes(p, c)
  BY <1>2 DEF Becomes
<1> HIDE DEF c
<1>21. /\ call' \in [Procs -> Call] /\ call'[p] = c
       /\ \A q \in Procs \ {p} : call'[q] = Idle /\ call'[q].step = "idle"
       /\ OneCall'
  BY <1>3, <1>19, <1>20, CallStep
<1>22. TypeOK'
  BY <1>1, <1>2, <1>11, <1>14, <1>21 DEF TypeOK
<1>23. \A b \in Blocks, k \in Positions, a \in Blocks :
         disk'.blocks[b][k] = a <=> disk.blocks[b][k] = a
  <2> SUFFICES ASSUME NEW b \in Blocks, NEW k \in Positions, NEW a \in Blocks
               PROVE  y[b][k] = a <=> disk.blocks[b][k] = a
    BY <1>11
  <2>1. a # 0 /\ a # i
    BY <1>4, Numbers
  <2>2. CASE b = d
    BY <1>9, <1>10, <2>1, <2>2
  <2>3. CASE b # d
    BY <1>10, <2>3
  <2>4. QED
    BY <2>2, <2>3
<1>24. \A j \in Inodes, k \in Positions, a \in Blocks : HasData(j, k, a)' <=> HasData(j, k, a)
  <2> SUFFICES ASSUME NEW j \in Inodes, NEW k \in Positions, NEW a \in Blocks,
                      HasBlock(inode_list, j)
               PROVE  EntriesOf(inode_list, j)'[k] = a <=> EntriesOf(inode_list, j)[k] = a
    BY <1>15 DEF HasData
  <2>1. inode_list[j].address_block \in Blocks
    BY <1>1 DEF InodesSound, TypeOK
  <2>2. QED
    BY <1>15, <1>23, <2>1 DEF EntriesOf
<1>25. DiskFollows'
  BY <1>1, <1>2, <1>11, <1>15 DEF DiskFollows
<1>26. InodesSound'
  <2>1. disk'.inodes[ROOT].bound
    BY <1>1, <1>11 DEF InodesSound
  <2>2. \A j \in Inodes :
          /\ ~inode_list'[j].bound => inode_list'[j] = Unbound
          /\ ~disk'.inodes[j].bound => disk'.inodes[j] = Unbound
    BY <1>1, <1>11, <1>15 DEF InodesSound
  <2>3. \A j \in Inodes : inode_list'[j].bound =>
          /\ inode_list'[j].address_block \in bound_blocks_bitmap' \cup {0}
          /\ inode_list'[j].name \in file_names_list' \cup {NULL}
          /\ j = ROOT \/ inode_list'[j].name # NULL => inode_list'[j].address_block # 0
    BY <1>1, <1>2, <1>15 DEF InodesSound
  <2>4. \A j, l \in Inodes :
          HasBlock(inode_list', j) /\ HasBlock(inode_list', l)
            /\ inode_list'[j].address_block = inode_list'[l].address_block => j = l
    BY <1>1, <1>15 DEF InodesSound
  <2>5. QED
    BY <2>1, <2>2, <2>3, <2>4 DEF InodesSound
<1>27. DataSound'
  <2>1. ASSUME NEW j \in Inodes, NEW k \in Positions, NEW a \in Blocks, HasData(j, k, a)'
        PROVE  /\ a \in bound_blocks_bitmap'
               /\ \A l \in Inodes : inode_list'[l].bound => inode_list'[l].address_block # a
               /\ \A l \in Inodes, m \in Positions : HasData(l, m, a)' => j = l /\ k = m
    <3>1. HasData(j, k, a)
      BY <1>24, <2>1
    <3>2. a \in bound_blocks_bitmap
      BY <1>1, <3>1 DEF DataSound
    <3>3. \A l \in Inodes : inode_list'[l].bound => inode_list'[l].address_block # a
      BY <1>1, <1>15, <3>1 DEF DataSound
    <3>4. \A l \in Inodes, m \in Positions : HasData(l, m, a)' => j = l /\ k = m
      BY <1>1, <1>24, <3>1 DEF DataSound
    <3>5. QED
      BY <1>2, <3>2, <3>3, <3>4
  <2>2. \A b \in Blocks \ bound_blocks_bitmap' : disk'.blocks[b] = NoEntries
    BY <1>1, <1>2, <1>7, <1>10, <1>11 DEF DataSound
  <2>3. QED
    BY <2>1, <2>2 DEF DataSound
<1>28. CacheSound'
  <2> SUFFICES ASSUME NEW j \in Inodes, file[j] # NULL
               PROVE  /\ HasBlock(inode_list', j)
                      /\ inode_list'[j].type = "REGULAR_FILE"
                      /\ \A k \in Positions, a \in Blocks :
                           file[j][k] = a <=> EntriesOf(inode_list, j)'[k] = a
    BY <1>2 DEF CacheSound
  <2>1. HasBlock(inode_list, j) /\ inode_list[j].type = "REGULAR_FILE"
    BY <1>1 DEF CacheSound
  <2>2. j # i
    BY <1>4, <2>1
  <2>3. HasBlock(inode_list', j) /\ inode_list'[j].type = "REGULAR_FILE"
    BY <1>15, <2>1, <2>2
  <2>4. ASSUME NEW k \in Positions, NEW a \in Blocks
        PROVE  file[j][k] = a <=> EntriesOf(inode_list, j)'[k] = a
    <3>1. HasData(j, k, a)' <=> HasData(j, k, a)
      BY <1>24
    <3>2. EntriesOf(inode_list, j)'[k] = a <=> EntriesOf(inode_list, j)[k] = a
      BY <2>1, <2>3, <3>1 DEF HasData
    <3>3. QED
      BY <1>1, <3>2 DEF CacheSound
  <2>5. QED
    BY <2>3, <2>4
<1>29. TypesSound'
  <2>1. \A j \in Inodes :
          /\ inode_list'[j].size = 1 =>
               /\ inode_list'[j].type # "NEW_FILE"
               /\ disk'.inodes[j].bound
               /\ disk'.inodes[j].type # "NEW_FILE"
          /\ disk'.inodes[j].size = 1 =>
               disk'.inodes[j].type # "NEW_FILE" /\ inode_list'[j].size = 1
    <3>1. \A j \in Inodes : inode_list'[j].size = 1 => j # i
      BY <1>4, <1>15
    <3>2. QED
      BY <1>1, <1>11, <1>15, <3>1 DEF TypesSound
  <2>2. ASSUME NEW j \in Inodes, HasBlock(inode_list', j), inode_list'[j].type = "NEW_FILE",
               NEW k \in Positions, NEW a \in Blocks
        PROVE  ~HasData(j, k, a)
    <3>1. CASE j = i
      BY <1>4, <3>1, Numbers DEF HasData, NoEntries
    <3>2. CASE j # i
      BY <1>1, <1>15, <2>2, <3>2 DEF TypesSound, WrittenFilesStayFiles, HasData
    <3>3. QED
      BY <3>1, <3>2
  <2>3. ASSUME NEW j \in Inodes, HasBlock(disk'.inodes, j), disk'.inodes[j].type = "NEW_FILE",
               NEW k \in Positions, NEW a \in Blocks
        PROVE  EntriesOf(disk.inodes, j)'[k] # a
    <3>1. HasBlock(disk.inodes, j) /\ EntriesOf(disk.inodes, j)[k] # a
      BY <1>1, <1>11, <2>3 DEF TypesSound, WrittenFilesStayFiles
    <3>2. disk.inodes[j].address_block \in Blocks
      BY <1>1, <3>1 DEF DiskFollows, InodesSound, TypeOK
    <3>3. QED
      BY <1>11, <1>23, <3>1, <3>2 DEF EntriesOf
  <2>4. ASSUME NEW j \in Inodes, HasBlock(inode_list', j), inode_list'[j].type = "NEW_FILE"
        PROVE  \A k \in Positions : EntriesOf(inode_list, j)'[k] \notin Blocks
    BY <1>24, <2>2, <2>4 DEF HasData
  <2>5. WrittenFilesStayFiles'
    BY <2>3, <2>4 DEF WrittenFilesStayFiles
  <2>6. QED
    BY <2>1, <2>5 DEF TypesSound
<1>30. MarkedUsed'
  <2> SUFFICES ASSUME crashes' = 0, NEW b \in bound_blocks_bitmap'
               PROVE  \/ \E j \in Inodes : inode_list'[j].bound /\ inode_list'[j].address_block = b
                      \/ \E j \in Inodes, k \in Positions : HasData(j, k, b)'
    BY DEF MarkedUsed
  <2>1. b \in bound_blocks_bitmap /\ b \in Blocks
    BY <1>1, <1>2 DEF TypeOK
  <2>2. \A q \in Procs : call[q].step # "link"
    BY <1>2, <1>3 DEF OthersIdle, Idle
  <2>3. \/ \E j \in Inodes : inode_list[j].bound /\ inode_list[j].address_block = b
        \/ \E j \in Inodes, k \in Positions : HasData(j, k, b)
    BY <1>1, <1>2, <2>1, <2>2 DEF MarkedUsed
  <2>4. CASE \E j \in Inodes : inode_list[j].bound /\ inode_list[j].address_block = b
    BY <1>15, <2>4
  <2>5. CASE \E j \in Inodes, k \in Positions : HasData(j, k, b)
    BY <1>24, <2>1, <2>5
  <2>6. QED
    BY <2>3, <2>4, <2>5
<1>31. /\ call'[p].step = (IF rest = <<>> THEN "list" ELSE "name")
       /\ call'[p].path = rest /\ call'[p].inode = i
  BY <1>19, <1>21
<1>32. FreeInodes' = FreeInodes /\ FreeBlocks' = FreeBlocks
  BY <1>2, <1>15 DEF FreeInodes, FreeBlocks
<1>33. Creates(p)'
  BY <1>4, <1>5, <1>15, <1>31, <1>32 DEF Creates
<1>34. Writes(p)'
  BY <1>31 DEF Writes
<1>35. (\A q \in Procs : Creates(q) /\ Writes(q))'
  BY <1>21, <1>33, <1>34, OneAtWork
<1>36. IInv'
  <2>1. Lost(inode_list') = Lost(inode_list)
    BY <1>15 DEF Lost
  <2>2. LostSound'
    BY <1>1, <1>2, <1>11, <2>1 DEF LostSound
  <2>3. QED
    BY <1>21, <1>22, <1>25, <1>26, <1>27, <1>28, <1>29, <1>30, <1>35, <2>2 DEF IInv
<1>37. PICK m \in 0 .. LENGTH : EntersAt(disk.blocks[d], i, m, e)
  BY <1>9
<1>38. EntriesOf(inode_list, h) = disk.blocks[d] /\ EntriesOf(inode_list, h)' = e
  BY <1>0, <1>4, <1>10, <1>11, <1>15 DEF EntriesOf
<1>39. EntersAt(EntriesOf(inode_list, h), i, m, EntriesOf(inode_list, h)')
  BY <1>37, <1>38
<1>40. ASSUME NEW j \in Inodes, HasBlock(inode_list, j), j # h
       PROVE  EntriesOf(inode_list, j)' = EntriesOf(inode_list, j)
  <2>1. inode_list[j].address_block \in Blocks \ {d}
    BY <1>0, <1>1, <1>4, <1>40 DEF InodesSound, TypeOK
  <2>2. QED
    BY <1>10, <1>11, <1>15, <2>1 DEF EntriesOf
<1>41. rest # <<>> => inode_list'[i].type = "DIRECTORY"
  BY <1>4, <1>13, <1>14
<1>42. Enters(p, h, i, m)
  BY <1>0, <1>2, <1>3, <1>4, <1>11, <1>15, <1>21, <1>31, <1>39, <1>40, <1>41 DEF Enters
<1>43. QED
  BY <1>4, <1>36, <1>37, <1>42

(* The inodes of a new file are on the disk before it can be written to.      *)
LEMMA WriteInodeListStep ==
  ASSUME PREEMPT = FALSE, IInv, NEW p \in Procs, WriteInodeList(p)
  PROVE  IInv' /\ Quiet(p) /\ disk'.inodes = inode_list /\ (\A q \in Procs : call'[q] = Idle)
<1>0. PICK i : i = call[p].inode
  OBVIOUS
<1>1. /\ TypeOK /\ OneCall /\ DiskFollows /\ InodesSound /\ DataSound /\ CacheSound
      /\ TypesSound /\ MarkedUsed /\ LostSound /\ Creates(p)
  BY DEF IInv
<1>2. /\ call[p].step = "list"
      /\ disk' = [disk EXCEPT !.inodes = inode_list]
      /\ OpenInode(p, i)
      /\ Becomes(p, Idle)
      /\ UNCHANGED <<bound_blocks_bitmap, file_names_list, crashes>>
  BY <1>0 DEF WriteInodeList, WriteInodes, Becomes
<1>3. call \in [Procs -> Call] /\ call[p] \in Call /\ OthersIdle(p)
  BY <1>1, <1>2, Alone DEF TypeOK
<1>4. i \in Inodes /\ HasBlock(inode_list, i) /\ inode_list[i].address_block \in Blocks
  <2>1. i \in Inodes /\ HasBlock(inode_list, i)
    BY <1>0, <1>1, <1>2, <1>3 DEF Creates, Call
  <2>2. QED
    BY <1>1, <2>1 DEF InodesSound, TypeOK
<1>5. /\ inode_list' \in [Inodes -> Inode]
      /\ \A j \in Inodes :
           /\ inode_list'[j].bound = inode_list[j].bound
           /\ inode_list'[j].address_block = inode_list[j].address_block
           /\ inode_list'[j].name = inode_list[j].name
           /\ inode_list'[j].size = inode_list[j].size
           /\ ~inode_list[j].bound => inode_list'[j] = inode_list[j]
           /\ inode_list'[j].type = "NEW_FILE" => inode_list[j].type = "NEW_FILE"
           /\ inode_list[j].type = "REGULAR_FILE" => inode_list'[j].type = "REGULAR_FILE"
           /\ inode_list'[j].type = "DIRECTORY" <=> inode_list[j].type = "DIRECTORY"
           /\ \/ file'[j] \in {NULL, file[j]}
              \/ /\ file'[j] = EntriesOf(inode_list, j)
                 /\ HasBlock(inode_list, j) /\ inode_list'[j].type = "REGULAR_FILE"
      /\ opened' \in [Procs -> Inodes \cup {NULL}]
      /\ file' \in [Inodes -> Entries \cup {NULL}]
      /\ \A q \in Procs : opened'[q] # NULL => file'[opened'[q]] # NULL
  BY <1>1, <1>2, <1>4, OpenInodeFacts
<1>6. Idle \in Call /\ Idle.step = "idle"
  BY Numbers, LengthsAssumption DEF Idle, Call, ROOT
<1>7. /\ call' \in [Procs -> Call] /\ call'[p] = Idle
      /\ \A q \in Procs \ {p} : call'[q] = Idle /\ call'[q].step = "idle"
  BY <1>2, <1>3, <1>6, CallStep
<1>8. \A q \in Procs : call'[q] = Idle
  BY <1>7
<1>9. \A q \in Procs : call[q].step # "link"
  BY <1>2, <1>3 DEF OthersIdle, Idle
<1>10. /\ disk' \in Disk /\ disk'.bitmap = disk.bitmap /\ disk'.inodes = inode_list
       /\ disk'.names = disk.names /\ disk'.blocks = disk.blocks
  BY <1>1, <1>2 DEF Disk, TypeOK
<1>11. TypeOK'
  BY <1>1, <1>2, <1>5, <1>7, <1>10 DEF TypeOK
<1>12. SameTree
  BY <1>1, <1>2, <1>5, <1>10 DEF SameTree, TypeOK, DiskFollows
<1>13. DiskFollows' /\ InodesSound' /\ DataSound' /\ LostSound'
  BY <1>1, <1>2, <1>12, SameTreeSound, SameTreeLost
<1>14. TypesSound'
  BY <1>1, <1>5, <1>12, SameTreeTypes
<1>15. CacheSound'
  BY <1>1, <1>5, <1>12, SameTreeCache
<1>16. MarkedUsed'
  BY <1>1, <1>2, <1>9, <1>12, SameTreeMarked
<1>17. OneCall' /\ (\A q \in Procs : Creates(q) /\ Writes(q))'
  BY <1>8, AllIdle
<1>18. Quiet(p)
  BY <1>2, <1>3, <1>5, <1>8, <1>12 DEF Quiet, OthersIdle, Idle
<1>19. QED
  BY <1>11, <1>13, <1>14, <1>15, <1>16, <1>17, <1>18, <1>8, <1>10 DEF IInv

-----------------------------------------------------------------------------
(* write.                                                                    *)

(* A file that is open is a regular one, so is a file data is written to.     *)
LEMMA WriteStep ==
  ASSUME PREEMPT = FALSE, IInv, NEW p \in Procs, NEW blocks \in 1 .. LENGTH,
         NEW extends \in BOOLEAN, write(p, blocks, extends)
  PROVE  IInv' /\ Quiet(p) /\ call'[p].step \notin Masked
<1>0. PICK i : i = opened[p]
  OBVIOUS
<1> DEFINE x == [inode_list[i] EXCEPT !.size = 1]
           one == [Idle EXCEPT !.step = "block"]
           two == [one EXCEPT !.inode = i]
           three == [two EXCEPT !.at = 1]
           c == [three EXCEPT !.left = blocks]
<1>1. /\ TypeOK /\ OneCall /\ DiskFollows /\ InodesSound /\ DataSound /\ CacheSound
      /\ TypesSound /\ MarkedUsed /\ LostSound
  BY DEF IInv
<1>2. /\ call[p] = Idle /\ MayStep(p) /\ i # NULL
      /\ inode_list[i].size = 0 => extends
      /\ inode_list' = [inode_list EXCEPT ![i] = x]
      /\ disk' = IF extends THEN [disk EXCEPT !.inodes = inode_list'] ELSE disk
      /\ call' = [call EXCEPT ![p] = c]
      /\ UNCHANGED <<bound_blocks_bitmap, file_names_list, file, opened, crashes>>
  BY <1>0 DEF write, WriteInodes, Extended
<1>3. call \in [Procs -> Call] /\ OthersIdle(p)
  BY <1>1, <1>2, Alone DEF TypeOK
<1>4. \A q \in Procs : call[q].step # "link"
  BY <1>2, <1>3 DEF OthersIdle, Idle
<1>5. i \in Inodes /\ HasBlock(inode_list, i) /\ inode_list[i].type = "REGULAR_FILE"
  <2>1. i \in Inodes /\ file[i] # NULL
    BY <1>0, <1>1, <1>2 DEF TypeOK
  <2>2. QED
    BY <1>1, <2>1 DEF CacheSound
<1>6. inode_list \in [Inodes -> Inode] /\ inode_list[i] \in Inode
  BY <1>1, <1>5 DEF TypeOK
<1>7. /\ x \in Inode /\ x.type = inode_list[i].type /\ x.bound = inode_list[i].bound
      /\ x.name = inode_list[i].name /\ x.size = 1
      /\ x.address_block = inode_list[i].address_block
  BY <1>6 DEF Inode
<1> HIDE DEF x
<1>8. /\ inode_list' \in [Inodes -> Inode] /\ inode_list'[i] = x
      /\ \A j \in Inodes \ {i} : inode_list'[j] = inode_list[j]
  BY <1>2, <1>5, <1>6, <1>7
<1>9. \A j \in Inodes :
        /\ inode_list'[j].bound = inode_list[j].bound
        /\ inode_list'[j].address_block = inode_list[j].address_block
        /\ inode_list'[j].name = inode_list[j].name
        /\ ~inode_list[j].bound => inode_list'[j] = inode_list[j]
        /\ inode_list'[j].type = inode_list[j].type
        /\ j # i => inode_list'[j].size = inode_list[j].size
  BY <1>5, <1>7, <1>8
<1>10. /\ disk' \in Disk /\ disk'.bitmap = disk.bitmap
       /\ disk'.inodes = IF extends THEN inode_list' ELSE disk.inodes
       /\ disk'.names = disk.names /\ disk'.blocks = disk.blocks
  <2>1. disk \in Disk
    BY <1>1 DEF TypeOK
  <2>2. CASE extends
    <3>1. disk' = [disk EXCEPT !.inodes = inode_list']
      BY <1>2, <2>2
    <3>2. QED
      BY <1>8, <2>1, <2>2, <3>1 DEF Disk
  <2>3. CASE ~extends
    BY <1>2, <2>1, <2>3
  <2>4. QED
    BY <2>2, <2>3
<1>11. Idle \in Call
  BY Numbers, LengthsAssumption DEF Idle, Call, ROOT
<1>12. one \in Call /\ one.step = "block"
  BY <1>11 DEF Call, Masked
<1> HIDE DEF one
<1>13. two \in Call /\ two.step = "block" /\ two.inode = i
  BY <1>5, <1>12 DEF Call
<1> HIDE DEF two
<1>14. three \in Call /\ three.step = "block" /\ three.inode = i /\ three.at = 1
  <2>1. 1 \in 0 .. LENGTH + 1
    BY LengthsAssumption
  <2>2. QED
    BY <1>13, <2>1 DEF Call
<1> HIDE DEF three
<1>15. /\ c \in Call /\ c.step = "block" /\ c.inode = i /\ c.at = 1 /\ c.left = blocks
  <2>1. blocks \in 0 .. LENGTH
    BY LengthsAssumption
  <2>2. QED
    BY <1>14, <2>1 DEF Call
<1>16. Becomes(p, c)
  BY <1>2 DEF Becomes
<1> HIDE DEF c
<1>17. /\ call' \in [Procs -> Call] /\ call'[p] = c
       /\ \A q \in Procs \ {p} : call'[q] = Idle /\ call'[q].step = "idle"
       /\ OneCall'
  BY <1>3, <1>15, <1>16, CallStep
<1>18. TypeOK'
  BY <1>1, <1>2, <1>8, <1>10, <1>17 DEF TypeOK
<1>19. SameTree
  BY <1>1, <1>2, <1>8, <1>9, <1>10 DEF SameTree, TypeOK, DiskFollows
<1>20. DiskFollows' /\ InodesSound' /\ DataSound' /\ LostSound'
  BY <1>1, <1>2, <1>19, SameTreeSound, SameTreeLost
<1>21. TypesSound'
  <2>1. inode_list[i].size = 1 \/ extends
    BY <1>2, <1>6 DEF Inode
  <2>2. \A j \in Inodes : inode_list'[j].size = 1 =>
          \/ inode_list[j].size = 1
          \/ /\ disk'.inodes = inode_list' /\ inode_list[j].bound
             /\ inode_list'[j].type # "NEW_FILE"
    BY <1>5, <1>9, <1>10, <2>1
  <2>3. \A j \in Inodes : inode_list[j].size = 1 => inode_list'[j].size = 1
    BY <1>7, <1>8, <1>9
  <2>4. QED
    BY <1>1, <1>9, <1>19, <2>2, <2>3, SameTreeTypes
<1>22. CacheSound'
  BY <1>1, <1>2, <1>9, <1>19, SameTreeCache
<1>23. MarkedUsed'
  BY <1>1, <1>2, <1>4, <1>19, SameTreeMarked
<1>24. /\ call'[p].step = "block" /\ call'[p].inode = i /\ call'[p].at = 1
       /\ call'[p].left = blocks
  BY <1>15, <1>17
<1>25. Creates(p)'
  BY <1>24 DEF Creates
<1>26. Writes(p)'
  <2>1. opened'[p] = i /\ inode_list'[i].size = 1
    BY <1>0, <1>2, <1>7, <1>8
  <2>2. 1 \in Positions /\ blocks >= 1 /\ 1 + blocks <= LENGTH + 1
    BY LengthsAssumption DEF Positions
  <2>3. QED
    BY <1>24, <2>1, <2>2 DEF Writes
<1>27. (\A q \in Procs : Creates(q) /\ Writes(q))'
  BY <1>17, <1>25, <1>26, OneAtWork
<1>28. Quiet(p) /\ call'[p].step \notin Masked
  BY <1>2, <1>3, <1>9, <1>17, <1>19, <1>24 DEF Quiet, OthersIdle, Idle, Masked
<1>29. QED
  BY <1>17, <1>18, <1>20, <1>21, <1>22, <1>23, <1>27, <1>28 DEF IInv

(* After a block, write is done or has a next one within the file.            *)
LEMMA NextBlockFacts ==
  ASSUME NEW p \in Procs, call[p] \in Call, call[p].at \in Positions, call[p].left >= 1,
         call[p].at + call[p].left <= LENGTH + 1
  PROVE  /\ NextBlock(p) \in Call
         /\ NextBlock(p).step \in {"idle", "block"}
         /\ NextBlock(p).step = "idle" => NextBlock(p) = Idle
         /\ NextBlock(p).step = "block" =>
              LET c == NextBlock(p)
              IN  /\ c.inode = call[p].inode /\ c.at \in Positions /\ c.left >= 1
                  /\ c.at + c.left <= LENGTH + 1
<1>1. /\ call[p].at \in 1 .. LENGTH /\ call[p].left \in 0 .. LENGTH
      /\ call[p].inode \in Inodes
  BY DEF Call, Positions
<1>2. CASE call[p].left = 1
  <2>1. Idle \in Call /\ Idle.step = "idle"
    BY Numbers, LengthsAssumption DEF Idle, Call, ROOT
  <2>2. NextBlock(p) = Idle
    BY <1>2 DEF NextBlock
  <2>3. QED
    BY <2>1, <2>2
<1>3. CASE call[p].left # 1
  <2> DEFINE one == [call[p] EXCEPT !.step = "block"]
             two == [one EXCEPT !.block = 0]
             three == [two EXCEPT !.at = call[p].at + 1]
             c == [three EXCEPT !.left = call[p].left - 1]
  <2>1. /\ one \in Call /\ one.step = "block" /\ one.inode = call[p].inode
        /\ one.at = call[p].at /\ one.left = call[p].left
    BY DEF Call, Masked
  <2>2. NextBlock(p) = c
    BY <1>3, <2>1 DEF NextBlock, Call
  <2> HIDE DEF one
  <2>3. two \in Call /\ two.step = "block" /\ two.inode = call[p].inode
    <3>1. 0 \in Blocks \cup Inodes
      BY Numbers DEF ROOT
    <3>2. QED
      BY <2>1, <3>1 DEF Call
  <2> HIDE DEF two
  <2>4. /\ three \in Call /\ three.step = "block" /\ three.inode = call[p].inode
        /\ three.at = call[p].at + 1
    <3>1. call[p].at + 1 \in 0 .. LENGTH + 1
      BY <1>1, LengthsAssumption
    <3>2. QED
      BY <2>3, <3>1 DEF Call
  <2> HIDE DEF three
  <2>5. /\ c \in Call /\ c.step = "block" /\ c.inode = call[p].inode
        /\ c.at = call[p].at + 1 /\ c.left = call[p].left - 1
    <3>1. call[p].left - 1 \in 0 .. LENGTH
      BY <1>1, LengthsAssumption
    <3>2. QED
      BY <2>4, <3>1 DEF Call
  <2> HIDE DEF c
  <2>6. call[p].at + 1 \in Positions /\ call[p].left - 1 >= 1
        /\ (call[p].at + 1) + (call[p].left - 1) <= LENGTH + 1
    BY <1>1, <1>3, LengthsAssumption DEF Positions
  <2>7. QED
    BY <2>2, <2>5, <2>6
<1>4. QED
  BY <1>2, <1>3

(* The call of p after a step of write that has no block to link.             *)
LEMMA NextBlockWrites ==
  ASSUME NEW p \in Procs, call[p] \in Call, call[p].step \in {"block", "mark", "link"},
         Writes(p), call'[p] = NextBlock(p), UNCHANGED <<opened, inode_list>>
  PROVE  Creates(p)' /\ Writes(p)'
<1>1. /\ opened[p] = call[p].inode /\ inode_list[call[p].inode].size = 1
      /\ call[p].at \in Positions /\ call[p].left >= 1
      /\ call[p].at + call[p].left <= LENGTH + 1
  BY DEF Writes
<1>2. /\ NextBlock(p).step \in {"idle", "block"}
      /\ NextBlock(p).step = "block" =>
           /\ NextBlock(p).inode = call[p].inode /\ NextBlock(p).at \in Positions
           /\ NextBlock(p).left >= 1
           /\ NextBlock(p).at + NextBlock(p).left <= LENGTH + 1
  BY <1>1, NextBlockFacts
<1>3. PICK c : c = NextBlock(p)
  OBVIOUS
<1>4. call'[p] = c
  BY <1>3
<1>5. /\ c.step \in {"idle", "block"}
      /\ c.step = "block" =>
           /\ opened'[p] = c.inode /\ inode_list'[c.inode].size = 1
           /\ c.at \in Positions /\ c.left >= 1 /\ c.at + c.left <= LENGTH + 1
  BY <1>1, <1>2, <1>3
<1>6. QED
  BY <1>4, <1>5 DEF Creates, Writes

(* A free block is found where the file has none.                             *)
LEMMA WriteBlockStep ==
  ASSUME PREEMPT = FALSE, IInv, NEW p \in Procs, WriteBlock(p)
  PROVE  IInv' /\ Quiet(p) /\ call'[p].step \notin Masked
<1>0. PICK i, k, b : i = call[p].inode /\ k = call[p].at /\ b = FirstFreeBlock
  OBVIOUS
<1>1. /\ TypeOK /\ OneCall /\ DiskFollows /\ InodesSound /\ DataSound /\ CacheSound
      /\ TypesSound /\ MarkedUsed /\ LostSound /\ Writes(p)
  BY DEF IInv
<1> DEFINE one == [call[p] EXCEPT !.step = "mark"]
           c == [one EXCEPT !.block = b]
           Has == file[i][k] # 0 /\ call' = [call EXCEPT ![p] = NextBlock(p)]
           Lacks == /\ file[i][k] = 0 /\ FreeBlocks # {}
                    /\ call' = [call EXCEPT ![p] = c]
<1>2. call \in [Procs -> Call] /\ call[p] \in Call
  BY <1>1 DEF TypeOK
<1>3. /\ call[p].step = "block" /\ (Has \/ Lacks)
      /\ UNCHANGED <<bound_blocks_bitmap, inode_list, file_names_list, disk, file,
                     opened, crashes>>
  BY <1>0, <1>2 DEF WriteBlock, tables
<1>4. OthersIdle(p)
  BY <1>1, <1>3, Alone
<1>5. \A q \in Procs : call[q].step # "link"
  BY <1>3, <1>4 DEF OthersIdle, Idle
<1>6. SameTree
  BY <1>1, <1>3 DEF SameTree, TypeOK, DiskFollows
<1>7. DiskFollows' /\ InodesSound' /\ DataSound' /\ LostSound'
  BY <1>1, <1>3, <1>6, SameTreeSound, SameTreeLost
<1>8. TypesSound'
  BY <1>1, <1>3, <1>6, SameTreeTypes
<1>9. CacheSound'
  BY <1>1, <1>3, <1>6, SameTreeCache
<1>10. MarkedUsed'
  BY <1>1, <1>3, <1>5, <1>6, SameTreeMarked
<1>11. /\ call[p].at \in Positions /\ call[p].left >= 1
       /\ call[p].at + call[p].left <= LENGTH + 1
       /\ opened[p] = i /\ inode_list[i].size = 1
  BY <1>0, <1>1, <1>3 DEF Writes
<1>12. CASE Has
  <2>1. Becomes(p, NextBlock(p))
    BY <1>12 DEF Becomes
  <2>2. NextBlock(p) \in Call /\ (NextBlock(p).step = "idle" => NextBlock(p) = Idle)
    BY <1>2, <1>11, NextBlockFacts
  <2>3. /\ call' \in [Procs -> Call] /\ call'[p] = NextBlock(p)
        /\ \A q \in Procs \ {p} : call'[q] = Idle /\ call'[q].step = "idle"
        /\ OneCall'
    BY <1>2, <1>4, <2>1, <2>2, CallStep
  <2>4. Creates(p)' /\ Writes(p)'
    BY <1>1, <1>2, <1>3, <2>3, NextBlockWrites
  <2>5. (\A q \in Procs : Creates(q) /\ Writes(q))'
    BY <2>3, <2>4, OneAtWork
  <2>6. TypeOK'
    BY <1>1, <1>3, <2>3 DEF TypeOK
  <2>7. NextBlock(p).step \in {"idle", "block"}
    BY <1>2, <1>11, NextBlockFacts
  <2>8. Quiet(p) /\ call'[p].step \notin Masked
    BY <1>3, <1>4, <1>6, <2>3, <2>7 DEF Quiet, OthersIdle, Idle, Masked
  <2>9. QED
    BY <1>7, <1>8, <1>9, <1>10, <2>3, <2>5, <2>6, <2>8 DEF IInv
<1>13. CASE Lacks
  <2>1. b \in Blocks /\ b \notin bound_blocks_bitmap
    BY <1>0, <1>13, FreeFacts DEF FreeBlocks
  <2>2. /\ one \in Call /\ one.step = "mark" /\ one.inode = i /\ one.at = k
        /\ one.left = call[p].left
    BY <1>0, <1>2 DEF Call
  <2> HIDE DEF one
  <2>3. /\ c \in Call /\ c.step = "mark" /\ c.inode = i /\ c.at = k
        /\ c.left = call[p].left /\ c.block = b
    BY <2>1, <2>2 DEF Call
  <2>4. Becomes(p, c)
    BY <1>13 DEF Becomes
  <2> HIDE DEF c
  <2>5. /\ call' \in [Procs -> Call] /\ call'[p] = c
        /\ \A q \in Procs \ {p} : call'[q] = Idle /\ call'[q].step = "idle"
        /\ OneCall'
    BY <1>2, <1>4, <2>3, <2>4, CallStep
  <2>6. /\ call'[p].step = "mark" /\ call'[p].inode = i /\ call'[p].at = k
        /\ call'[p].left = call[p].left /\ call'[p].block = b
    BY <2>3, <2>5
  <2>7. Creates(p)'
    BY <2>6 DEF Creates
  <2>8. Writes(p)'
    <3>1. opened'[p] = i /\ inode_list'[i].size = 1 /\ file'[i][k] = 0
      BY <1>3, <1>11, <1>13
    <3>2. b \notin bound_blocks_bitmap'
      BY <1>3, <2>1
    <3>3. QED
      BY <1>0, <1>11, <2>1, <2>6, <3>1, <3>2 DEF Writes
  <2>9. (\A q \in Procs : Creates(q) /\ Writes(q))'
    BY <2>5, <2>7, <2>8, OneAtWork
  <2>10. TypeOK'
    BY <1>1, <1>3, <2>5 DEF TypeOK
  <2>11. Quiet(p) /\ call'[p].step \notin Masked
    BY <1>3, <1>4, <1>6, <2>5, <2>6 DEF Quiet, OthersIdle, Idle, Masked
  <2>12. QED
    BY <1>7, <1>8, <1>9, <1>10, <2>5, <2>9, <2>10, <2>11 DEF IInv
<1>14. QED
  BY <1>3, <1>12, <1>13

(* The block is marked, and nobody else's.                                    *)
LEMMA MarkBlockStep ==
  ASSUME PREEMPT = FALSE, IInv, NEW p \in Procs, MarkBlock(p)
  PROVE  IInv' /\ Quiet(p) /\ call'[p].step \notin Masked
<1>0. PICK i, k, b : i = call[p].inode /\ k = call[p].at /\ b = call[p].block
  OBVIOUS
<1> DEFINE c == [call[p] EXCEPT !.step = "link"]
<1>1. /\ TypeOK /\ OneCall /\ DiskFollows /\ InodesSound /\ DataSound /\ CacheSound
      /\ TypesSound /\ MarkedUsed /\ LostSound /\ Writes(p)
  BY DEF IInv
<1>2. /\ call[p].step = "mark"
      /\ bound_blocks_bitmap' = bound_blocks_bitmap \cup {b}
      /\ disk' = [disk EXCEPT !.bitmap = bound_blocks_bitmap \cup {b}]
      /\ call' = [call EXCEPT ![p] = c]
      /\ UNCHANGED <<inode_list, file_names_list, file, opened, crashes>>
  BY <1>0 DEF MarkBlock, get_free_block
<1>3. call \in [Procs -> Call] /\ call[p] \in Call /\ OthersIdle(p)
  BY <1>1, <1>2, Alone DEF TypeOK
<1>4. /\ b \in Blocks /\ b \notin bound_blocks_bitmap
      /\ opened[p] = i /\ inode_list[i].size = 1 /\ k \in Positions /\ file[i][k] = 0
      /\ call[p].left >= 1 /\ k + call[p].left <= LENGTH + 1
  BY <1>0, <1>1, <1>2 DEF Writes
<1>5. /\ c \in Call /\ c.step = "link" /\ c.inode = i /\ c.at = k /\ c.block = b
      /\ c.left = call[p].left
  BY <1>0, <1>3 DEF Call
<1>6. Becomes(p, c)
  BY <1>2 DEF Becomes
<1> HIDE DEF c
<1>7. /\ call' \in [Procs -> Call] /\ call'[p] = c
      /\ \A q \in Procs \ {p} : call'[q] = Idle /\ call'[q].step = "idle"
      /\ OneCall'
  BY <1>3, <1>5, <1>6, CallStep
<1>8. /\ disk' \in Disk /\ disk'.bitmap = bound_blocks_bitmap \cup {b}
      /\ disk'.inodes = disk.inodes /\ disk'.names = disk.names /\ disk'.blocks = disk.blocks
  BY <1>1, <1>2, <1>4 DEF Disk, TypeOK
<1>9. TypeOK'
  BY <1>1, <1>2, <1>4, <1>7, <1>8 DEF TypeOK
<1>10. SameTree
  BY <1>1, <1>2, <1>4, <1>8 DEF SameTree, TypeOK, DiskFollows
<1>11. DiskFollows' /\ InodesSound' /\ DataSound' /\ LostSound'
  BY <1>1, <1>2, <1>10, SameTreeSound, SameTreeLost
<1>12. TypesSound'
  BY <1>1, <1>2, <1>10, SameTreeTypes
<1>13. CacheSound'
  BY <1>1, <1>2, <1>10, SameTreeCache
<1>14. /\ call'[p].step = "link" /\ call'[p].inode = i /\ call'[p].at = k
       /\ call'[p].block = b /\ call'[p].left = call[p].left
  BY <1>5, <1>7
<1>15. MarkedUsed'
  <2> SUFFICES ASSUME crashes' = 0, NEW d \in bound_blocks_bitmap', d # b
               PROVE  \/ \E j \in Inodes : inode_list'[j].bound /\ inode_list'[j].address_block = d
                      \/ \E j \in Inodes, l \in Positions : HasData(j, l, d)'
    BY <1>14 DEF MarkedUsed
  <2>1. d \in bound_blocks_bitmap /\ d \in Blocks
    BY <1>1, <1>2 DEF TypeOK
  <2>2. \A q \in Procs : call[q].step # "link"
    BY <1>2, <1>3 DEF OthersIdle, Idle
  <2>3. \/ \E j \in Inodes : inode_list[j].bound /\ inode_list[j].address_block = d
        \/ \E j \in Inodes, l \in Positions : HasData(j, l, d)
    BY <1>1, <1>2, <2>1, <2>2 DEF MarkedUsed
  <2>4. CASE \E j \in Inodes : inode_list[j].bound /\ inode_list[j].address_block = d
    BY <1>2, <2>4
  <2>5. CASE \E j \in Inodes, l \in Positions : HasData(j, l, d)
    BY <1>10, <2>1, <2>5, SameEntries
  <2>6. QED
    BY <2>3, <2>4, <2>5
<1>16. Creates(p)'
  BY <1>14 DEF Creates
<1>17. Writes(p)'
  <2>1. \A j \in Inodes : inode_list[j].bound => inode_list[j].address_block # b
    BY <1>1, <1>4, Numbers DEF InodesSound
  <2>2. \A j \in Inodes, l \in Positions : ~HasData(j, l, b)
    BY <1>1, <1>4 DEF DataSound
  <2>3. \A j \in Inodes, l \in Positions : ~HasData(j, l, b)'
    BY <1>4, <1>10, <2>2, SameEntries
  <2>4. \A j \in Inodes, l \in Positions :
          ~(HasBlock(inode_list', j) /\ EntriesOf(inode_list, j)'[l] = b)
    BY <2>3 DEF HasData
  <2>5. /\ opened'[p] = i /\ inode_list'[i].size = 1 /\ file'[i][k] = 0
        /\ b \in bound_blocks_bitmap'
        /\ \A j \in Inodes : inode_list'[j].bound => inode_list'[j].address_block # b
    BY <1>2, <1>4, <2>1
  <2>6. QED
    BY <1>4, <1>14, <2>4, <2>5 DEF Writes, HasData
<1>18. (\A q \in Procs : Creates(q) /\ Writes(q))'
  BY <1>7, <1>16, <1>17, OneAtWork
<1>19. Quiet(p) /\ call'[p].step \notin Masked
  BY <1>2, <1>3, <1>7, <1>8, <1>10, <1>14 DEF Quiet, OthersIdle, Idle, Masked
<1>20. QED
  BY <1>7, <1>9, <1>11, <1>12, <1>13, <1>15, <1>18, <1>19 DEF IInv

\* Block b is the one of inode i at position k.
Links(p, i, k, b) ==
  /\ OthersIdle(p) /\ (\A q \in Procs \ {p} : call'[q] = Idle)
  /\ call[p].step = "link" /\ call'[p].step \notin Masked
  /\ i \in Inodes /\ HasBlock(inode_list, i) /\ inode_list[i].type = "REGULAR_FILE"
  /\ k \in Positions /\ b \in Blocks /\ file[i] # NULL /\ file[i][k] = 0
  /\ EntriesOf(inode_list, i)' = file'[i]
  /\ \A l \in Positions : file'[i][l] = IF l = k THEN b ELSE file[i][l]
  /\ \A j \in Inodes \ {i} :
       /\ file'[j] = file[j]
       /\ HasBlock(inode_list, j) => EntriesOf(inode_list, j)' = EntriesOf(inode_list, j)
  /\ inode_list' = inode_list /\ disk'.inodes = disk.inodes /\ crashes' = crashes

(* The block becomes the file's, in its descriptor and on the disk.           *)
LEMMA LinkBlockStep ==
  ASSUME PREEMPT = FALSE, IInv, NEW p \in Procs, LinkBlock(p)
  PROVE  IInv' /\ \E i \in Inodes, k \in Positions, b \in Blocks : Links(p, i, k, b)
<1>0. PICK i, k, b, d :
        /\ i = call[p].inode /\ k = call[p].at /\ b = call[p].block
        /\ d = inode_list[i].address_block
  OBVIOUS
<1> DEFINE e == [file[i] EXCEPT ![k] = b]
           y == [disk.blocks EXCEPT ![d] = e]
<1>1. /\ TypeOK /\ OneCall /\ DiskFollows /\ InodesSound /\ DataSound /\ CacheSound
      /\ TypesSound /\ MarkedUsed /\ LostSound /\ Writes(p)
  BY DEF IInv
<1>2. call \in [Procs -> Call] /\ call[p] \in Call /\ i \in Inodes
  BY <1>0, <1>1 DEF TypeOK, Call
<1>3. call[p].step = "link"
  BY DEF LinkBlock
<1>4. /\ b \in Blocks /\ b \in bound_blocks_bitmap
      /\ opened[p] = i /\ inode_list[i].size = 1 /\ k \in Positions /\ file[i][k] = 0
      /\ call[p].left >= 1 /\ k + call[p].left <= LENGTH + 1
      /\ \A j \in Inodes : inode_list[j].bound => inode_list[j].address_block # b
      /\ \A j \in Inodes, l \in Positions : ~HasData(j, l, b)
  BY <1>0, <1>1, <1>3 DEF Writes
<1>5. /\ file \in [Inodes -> Entries \cup {NULL}] /\ file[i] # NULL
      /\ disk \in Disk /\ disk.blocks \in [Blocks -> Entries]
      /\ inode_list \in [Inodes -> Inode]
  <2>1. disk.blocks \in [Blocks -> Entries]
    BY <1>1 DEF TypeOK, Disk
  <2>2. file[i] # NULL
    <3>1. opened[p] # NULL
      BY <1>2, <1>4, Numbers
    <3>2. QED
      BY <1>1, <1>4, <3>1 DEF TypeOK
  <2>3. QED
    BY <1>1, <2>1, <2>2 DEF TypeOK
<1>6. HasBlock(inode_list, i) /\ inode_list[i].type = "REGULAR_FILE" /\ file[i] \in Entries
  BY <1>1, <1>2, <1>5 DEF CacheSound
<1>7. d \in Blocks /\ d \in bound_blocks_bitmap
  BY <1>0, <1>1, <1>2, <1>6 DEF InodesSound, TypeOK
<1>8. e \in Entries /\ e[k] = b /\ \A l \in Positions \ {k} : e[l] = file[i][l]
  BY <1>4, <1>6 DEF Entries
<1>9. file' = [file EXCEPT ![i] = e]
  BY <1>0, <1>2, <1>5 DEF LinkBlock
<1> HIDE DEF e
<1>10. /\ file' \in [Inodes -> Entries \cup {NULL}] /\ file'[i] = e
       /\ \A j \in Inodes \ {i} : file'[j] = file[j]
  BY <1>2, <1>5, <1>8, <1>9
<1>11. disk' = [disk EXCEPT !.blocks = y]
  <2>1. disk' = [disk EXCEPT !.blocks[d] = file'[i]]
    BY <1>0 DEF LinkBlock
  <2>2. QED
    BY <1>10, <2>1
<1>12. /\ y \in [Blocks -> Entries] /\ y[d] = e
       /\ \A a \in Blocks \ {d} : y[a] = disk.blocks[a]
  BY <1>5, <1>7, <1>8
<1> HIDE DEF y
<1>13. /\ disk' \in Disk /\ disk'.bitmap = disk.bitmap /\ disk'.inodes = disk.inodes
       /\ disk'.names = disk.names /\ disk'.blocks = y
  BY <1>5, <1>11, <1>12 DEF Disk
<1>14. UNCHANGED <<bound_blocks_bitmap, inode_list, file_names_list, opened, crashes>>
  BY DEF LinkBlock, tables
<1>15. OthersIdle(p) /\ call' = [call EXCEPT ![p] = NextBlock(p)]
  BY <1>1, <1>3, Alone DEF LinkBlock
<1>16. NextBlock(p) \in Call /\ (NextBlock(p).step = "idle" => NextBlock(p) = Idle)
  BY <1>0, <1>2, <1>4, NextBlockFacts
<1>17. Becomes(p, NextBlock(p))
  BY <1>15 DEF Becomes
<1>18. /\ call' \in [Procs -> Call] /\ call'[p] = NextBlock(p)
       /\ \A q \in Procs \ {p} : call'[q] = Idle /\ call'[q].step = "idle"
       /\ OneCall'
  BY <1>2, <1>15, <1>16, <1>17, CallStep
<1>19. (\A q \in Procs : Creates(q) /\ Writes(q))'
  <2>1. Creates(p)' /\ Writes(p)'
    BY <1>1, <1>2, <1>3, <1>14, <1>18, NextBlockWrites
  <2>2. QED
    BY <1>18, <2>1, OneAtWork
<1>20. \A q \in Procs : opened'[q] # NULL => file'[opened'[q]] # NULL
  <2>1. e # NULL
    <3>1. Blocks \cup Inodes \subseteq Nat
      BY Numbers
    <3>2. Entries \subseteq [1 .. LENGTH -> Nat]
      BY <3>1 DEF Entries, Positions
    <3>3. QED
      BY <1>8, <3>2, NULLAssumption
  <2>2. \A q \in Procs : opened[q] # NULL => opened[q] \in Inodes /\ file[opened[q]] # NULL
    BY <1>1 DEF TypeOK
  <2>3. QED
    BY <1>10, <1>14, <2>1, <2>2
<1>21. TypeOK'
  BY <1>1, <1>10, <1>13, <1>14, <1>18, <1>20 DEF TypeOK
\* The file's blocks of data on the disk, before and after.
<1>22. \A l \in Positions, a \in Blocks :
         file[i][l] = a <=> EntriesOf(inode_list, i)[l] = a
  BY <1>1, <1>2, <1>5 DEF CacheSound
<1>23. EntriesOf(inode_list, i)' = e
  BY <1>0, <1>7, <1>12, <1>13, <1>14 DEF EntriesOf
<1>24. \A j \in Inodes : HasBlock(inode_list, j) /\ j # i =>
         EntriesOf(inode_list, j)' = EntriesOf(inode_list, j)
  <2> SUFFICES ASSUME NEW j \in Inodes, HasBlock(inode_list, j), j # i
               PROVE  EntriesOf(inode_list, j)' = EntriesOf(inode_list, j)
    OBVIOUS
  <2>1. inode_list[j].address_block # d /\ inode_list[j].address_block \in Blocks
    BY <1>0, <1>1, <1>2, <1>6 DEF InodesSound, TypeOK
  <2>2. QED
    BY <1>12, <1>13, <1>14, <2>1 DEF EntriesOf
<1>25. \A j \in Inodes, l \in Positions, a \in Blocks :
         HasData(j, l, a)' <=> HasData(j, l, a) \/ (j = i /\ l = k /\ a = b)
  <2> SUFFICES ASSUME NEW j \in Inodes, NEW l \in Positions, NEW a \in Blocks
               PROVE  HasData(j, l, a)' <=> HasData(j, l, a) \/ (j = i /\ l = k /\ a = b)
    OBVIOUS
  <2>1. CASE j # i
    BY <1>14, <1>24, <2>1 DEF HasData
  <2>2. CASE j = i /\ l # k
    <3>1. e[l] = a <=> EntriesOf(inode_list, i)[l] = a
      BY <1>8, <1>22, <2>2
    <3>2. EntriesOf(inode_list, j)' = e
      BY <1>23, <2>2
    <3>3. QED
      BY <1>14, <2>2, <3>1, <3>2 DEF HasData
  <2>3. CASE j = i /\ l = k
    <3>1. ~HasData(j, l, a)
      BY <1>4, <1>22, <2>3, Numbers DEF HasData
    <3>2. EntriesOf(inode_list, j)'[l] = b
      BY <1>8, <1>23, <2>3
    <3>3. HasData(j, l, a)' <=> a = b
      BY <1>6, <1>14, <2>3, <3>2 DEF HasData
    <3>4. QED
      BY <2>3, <3>1, <3>3
  <2>4. QED
    BY <2>1, <2>2, <2>3
<1>26. DiskFollows'
  BY <1>1, <1>13, <1>14 DEF DiskFollows
<1>27. InodesSound'
  BY <1>1, <1>13, <1>14 DEF InodesSound
<1>28. DataSound'
  <2>1. ASSUME NEW j \in Inodes, NEW l \in Positions, NEW a \in Blocks, HasData(j, l, a)'
        PROVE  /\ a \in bound_blocks_bitmap
               /\ \A m \in Inodes : inode_list[m].bound => inode_list[m].address_block # a
               /\ \A m \in Inodes, n \in Positions : HasData(m, n, a)' => j = m /\ l = n
    <3>1. CASE a = b
      BY <1>4, <1>25, <2>1, <3>1
    <3>2. CASE a # b
      <4>1. HasData(j, l, a)
        BY <1>25, <2>1, <3>2
      <4>2. \A m \in Inodes, n \in Positions : HasData(m, n, a)' => HasData(m, n, a)
        BY <1>25, <3>2
      <4>3. a \in bound_blocks_bitmap
        BY <1>1, <4>1 DEF DataSound
      <4>4. \A m \in Inodes : inode_list[m].bound => inode_list[m].address_block # a
        BY <1>1, <4>1 DEF DataSound
      <4>5. \A m \in Inodes, n \in Positions : HasData(m, n, a)' => j = m /\ l = n
        BY <1>1, <4>1, <4>2 DEF DataSound
      <4>6. QED
        BY <4>3, <4>4, <4>5
    <3>3. QED
      BY <3>1, <3>2
  <2>2. \A a \in Blocks \ bound_blocks_bitmap : disk'.blocks[a] = NoEntries
    BY <1>1, <1>7, <1>12, <1>13 DEF DataSound
  <2>3. QED
    BY <1>14, <2>1, <2>2 DEF DataSound
<1>29. CacheSound'
  <2> SUFFICES ASSUME NEW j \in Inodes, file'[j] # NULL
               PROVE  /\ HasBlock(inode_list, j)
                      /\ inode_list[j].type = "REGULAR_FILE"
                      /\ \A l \in Positions, a \in Blocks :
                           file'[j][l] = a <=> EntriesOf(inode_list, j)'[l] = a
    BY <1>14 DEF CacheSound
  <2>1. CASE j = i
    <3>1. file'[j] = e /\ EntriesOf(inode_list, j)' = e
      BY <1>10, <1>23, <2>1
    <3>2. QED
      BY <1>6, <2>1, <3>1
  <2>2. CASE j # i
    <3>1. file[j] # NULL /\ file'[j] = file[j]
      BY <1>10, <2>2
    <3>2. HasBlock(inode_list, j)
      BY <1>1, <3>1 DEF CacheSound
    <3>3. EntriesOf(inode_list, j)' = EntriesOf(inode_list, j)
      BY <1>24, <2>2, <3>2
    <3>4. QED
      BY <1>1, <3>1, <3>3 DEF CacheSound
  <2>3. QED
    BY <2>1, <2>2
<1>30. TypesSound'
  <2>1. \A j \in Inodes :
          /\ inode_list[j].size = 1 =>
               /\ inode_list[j].type # "NEW_FILE"
               /\ disk.inodes[j].bound
               /\ disk.inodes[j].type # "NEW_FILE"
          /\ disk.inodes[j].size = 1 =>
               disk.inodes[j].type # "NEW_FILE" /\ inode_list[j].size = 1
    BY <1>1 DEF TypesSound
  <2>2. ASSUME NEW j \in Inodes, HasBlock(inode_list, j), inode_list[j].type = "NEW_FILE"
        PROVE  \A l \in Positions : EntriesOf(inode_list, j)'[l] \notin Blocks
    <3>1. j # i
      BY <1>6, <2>2
    <3>2. EntriesOf(inode_list, j)' = EntriesOf(inode_list, j)
      BY <1>24, <2>2, <3>1
    <3>3. QED
      BY <1>1, <2>2, <3>2 DEF TypesSound, WrittenFilesStayFiles
  <2>3. ASSUME NEW j \in Inodes, HasBlock(disk.inodes, j), disk.inodes[j].type = "NEW_FILE"
        PROVE  \A l \in Positions : EntriesOf(disk.inodes, j)'[l] \notin Blocks
    <3>1. j # i
      BY <1>4, <2>1, <2>3
    <3>2. HasBlock(inode_list, j) /\ inode_list[j].address_block = disk.inodes[j].address_block
      BY <1>1, <2>3 DEF DiskFollows
    <3>3. /\ EntriesOf(disk.inodes, j) = EntriesOf(inode_list, j)
          /\ EntriesOf(disk.inodes, j)' = EntriesOf(inode_list, j)'
      BY <1>13, <1>14, <3>2 DEF EntriesOf
    <3>4. EntriesOf(inode_list, j)' = EntriesOf(inode_list, j)
      BY <1>24, <3>1, <3>2
    <3>5. QED
      BY <1>1, <2>3, <3>3, <3>4 DEF TypesSound, WrittenFilesStayFiles
  <2>4. WrittenFilesStayFiles'
    BY <1>13, <1>14, <2>2, <2>3 DEF WrittenFilesStayFiles
  <2>5. QED
    BY <1>13, <1>14, <2>1, <2>4 DEF TypesSound
<1>31. MarkedUsed'
  <2> SUFFICES ASSUME crashes' = 0, NEW a \in bound_blocks_bitmap'
               PROVE  \/ \E j \in Inodes : inode_list'[j].bound /\ inode_list'[j].address_block = a
                      \/ \E j \in Inodes, l \in Positions : HasData(j, l, a)'
    BY DEF MarkedUsed
  <2>1. a \in bound_blocks_bitmap /\ a \in Blocks
    BY <1>1, <1>14 DEF TypeOK
  <2>2. CASE a = b
    BY <1>2, <1>4, <1>25, <2>2
  <2>3. CASE a # b
    <3>1. \A q \in Procs : call[q].step = "link" => q = p
      BY <1>15 DEF OthersIdle, Idle
    <3>2. \/ \E j \in Inodes : inode_list[j].bound /\ inode_list[j].address_block = a
          \/ \E j \in Inodes, l \in Positions : HasData(j, l, a)
      BY <1>0, <1>1, <1>14, <2>1, <2>3, <3>1 DEF MarkedUsed
    <3>3. CASE \E j \in Inodes : inode_list[j].bound /\ inode_list[j].address_block = a
      BY <1>14, <3>3
    <3>4. CASE \E j \in Inodes, l \in Positions : HasData(j, l, a)
      BY <1>25, <2>1, <3>4
    <3>5. QED
      BY <3>2, <3>3, <3>4
  <2>4. QED
    BY <2>2, <2>3
<1>32. IInv'
  <2>1. LostSound'
    BY <1>1, <1>13, <1>14 DEF LostSound
  <2>2. QED
    BY <1>18, <1>19, <1>21, <1>26, <1>27, <1>28, <1>29, <1>30, <1>31, <2>1 DEF IInv
<1>33. call'[p].step \notin Masked
  <2>1. NextBlock(p).step \in {"idle", "block"}
    BY <1>0, <1>2, <1>4, NextBlockFacts
  <2>2. QED
    BY <1>18, <2>1 DEF Masked
<1>34. \A l \in Positions : file'[i][l] = IF l = k THEN b ELSE file[i][l]
  BY <1>8, <1>10
<1>35. Links(p, i, k, b)
  BY <1>2, <1>3, <1>4, <1>5, <1>6, <1>10, <1>13, <1>14, <1>15, <1>18, <1>23, <1>24, <1>33,
     <1>34 DEF Links
<1>36. QED
  BY <1>2, <1>4, <1>32, <1>35

-----------------------------------------------------------------------------
(* Power failures, and all steps.                                            *)

\* A table of inodes m that is on the disk in the course of a transfer: what was
\* there is there still, and of what is new as much as was written, at most one
\* inode without its name.
Between(m) ==
  /\ m \in [Inodes -> Inode]
  /\ \A i \in Inodes :
       /\ m[i].bound => inode_list[i].bound
       /\ ~m[i].bound => m[i] = Unbound
       /\ m[i].address_block \in {inode_list[i].address_block, 0}
       /\ m[i].name \in {inode_list[i].name, NULL}
       /\ m[i].name # NULL => m[i].address_block # 0
       /\ disk.inodes[i].bound =>
            /\ m[i].bound /\ m[i].name = inode_list[i].name
            /\ m[i].address_block = inode_list[i].address_block
       /\ m[i].size = 1 => m[i].type # "NEW_FILE"
       /\ HasBlock(m, i) /\ m[i].type = "NEW_FILE" =>
            \A k \in Positions : EntriesOf(inode_list, i)[k] \notin Blocks
  /\ \E i \in Inodes : Lost(m) \subseteq Lost(disk.inodes) \cup {i}
  /\ \A i, j \in Inodes :
       m[i].bound /\ ~disk.inodes[i].bound /\ j < i /\ inode_list[j].bound => m[j].bound
  /\ inode_list[ROOT].type = "DIRECTORY" /\ disk.inodes[ROOT].type = "DIRECTORY"
       => m[ROOT].type = "DIRECTORY"

(* So is the table that is there.                                             *)
LEMMA DiskBetween ==
  ASSUME IInv
  PROVE  Between(disk.inodes)
<1>1. TypeOK /\ DiskFollows /\ InodesSound /\ TypesSound
  BY DEF IInv
<1>2. disk.inodes \in [Inodes -> Inode]
  BY <1>1 DEF TypeOK, Disk
<1>3. Unbound.address_block = 0 /\ Unbound.name = NULL /\ Unbound.size = 0
  BY DEF Unbound
<1>4. ASSUME NEW i \in Inodes, HasBlock(disk.inodes, i), disk.inodes[i].type = "NEW_FILE"
      PROVE  \A k \in Positions : EntriesOf(inode_list, i)[k] \notin Blocks
  <2>1. EntriesOf(disk.inodes, i) = EntriesOf(inode_list, i)
    BY <1>1, <1>4 DEF DiskFollows, EntriesOf
  <2>2. QED
    BY <1>1, <1>4, <2>1 DEF TypesSound, WrittenFilesStayFiles
<1>5. \A i \in Inodes : disk.inodes[i].name # NULL => disk.inodes[i].address_block # 0
  BY <1>1, <1>3 DEF DiskFollows, InodesSound
<1>6. \A i \in Inodes :
        /\ disk.inodes[i].bound => inode_list[i].bound
        /\ ~disk.inodes[i].bound => disk.inodes[i] = Unbound
        /\ disk.inodes[i].address_block \in {inode_list[i].address_block, 0}
        /\ disk.inodes[i].name \in {inode_list[i].name, NULL}
        /\ disk.inodes[i].bound =>
             /\ disk.inodes[i].name = inode_list[i].name
             /\ disk.inodes[i].address_block = inode_list[i].address_block
        /\ disk.inodes[i].size = 1 => disk.inodes[i].type # "NEW_FILE"
  BY <1>1, <1>3 DEF DiskFollows, InodesSound, TypesSound
<1>7. \E i \in Inodes : Lost(disk.inodes) \subseteq Lost(disk.inodes) \cup {i}
  BY Numbers
<1>8. QED
  BY <1>2, <1>4, <1>5, <1>6, <1>7 DEF Between

(* So is what a cut leaves of a table t, which is the one in memory but for a *)
(* file that grows.  All inodes before the cut are complete, and none behind  *)
(* it are changed.                                                            *)
LEMMA CutBetween ==
  ASSUME IInv, NEW t \in [Inodes -> Inode], NEW cut \in Cuts,
         \A i \in Inodes :
           /\ t[i].bound = inode_list[i].bound /\ t[i].name = inode_list[i].name
           /\ t[i].address_block = inode_list[i].address_block
           /\ t[i].type = inode_list[i].type
           /\ inode_list[i].size = 1 => t[i].size = 1
           /\ t[i].size = 1 => t[i].bound /\ t[i].type # "NEW_FILE"
  PROVE  Between(Transferred(t, cut))
<1>0. PICK m : m = Transferred(t, cut)
  OBVIOUS
<1>1. TypeOK /\ DiskFollows /\ InodesSound /\ TypesSound /\ LostSound
  BY DEF IInv
<1>2. PICK c \in Inodes, f \in 0 .. 5 : cut = <<c, f>>
  BY CutsAssumption DEF Inodes
<1> DEFINE at(i, field) == IF i < c \/ (i = c /\ field <= f) THEN t[i] ELSE disk.inodes[i]
<1>3. /\ m = [i \in Inodes |->
                [bound |-> at(i, 1).bound, type |-> at(i, 2).type, size |-> at(i, 3).size,
                 address_block |-> at(i, 4).address_block, name |-> at(i, 5).name]]
  BY <1>0, <1>2 DEF Transferred
<1>4. \A i \in Inodes :
        /\ m[i].bound = at(i, 1).bound /\ m[i].type = at(i, 2).type
        /\ m[i].size = at(i, 3).size /\ m[i].address_block = at(i, 4).address_block
        /\ m[i].name = at(i, 5).name
  BY <1>3
<1>5. c \in Nat /\ f \in Nat /\ Inodes \subseteq Nat
  BY Numbers
<1>6. disk.inodes \in [Inodes -> Inode] /\ inode_list \in [Inodes -> Inode]
  BY <1>1 DEF TypeOK, Disk
<1>7. m \in [Inodes -> Inode]
  <2>1. \A i \in Inodes, field \in 1 .. 5 : at(i, field) \in Inode
    BY <1>6
  <2> HIDE DEF at
  <2>2. ASSUME NEW i \in Inodes
        PROVE  [bound |-> at(i, 1).bound, type |-> at(i, 2).type, size |-> at(i, 3).size,
                address_block |-> at(i, 4).address_block, name |-> at(i, 5).name] \in Inode
    <3>1. at(i, 1) \in Inode /\ at(i, 2) \in Inode /\ at(i, 3) \in Inode
          /\ at(i, 4) \in Inode /\ at(i, 5) \in Inode
      BY <2>1
    <3>2. QED
      BY <3>1 DEF Inode
  <2>3. QED
    BY <1>3, <2>2
<1>8. /\ Unbound.address_block = 0 /\ Unbound.name = NULL /\ Unbound.size = 0
      /\ Unbound.type = "NEW_FILE" /\ ~Unbound.bound
  BY DEF Unbound
\* The fields of an inode are written in their order.
<1>9. ASSUME NEW i \in Inodes
      PROVE  \/ m[i].name = t[i].name /\ m[i].address_block = t[i].address_block
                  /\ m[i].bound = t[i].bound /\ m[i].type = t[i].type /\ m[i].size = t[i].size
             \/ i = c /\ m[i].name = disk.inodes[i].name
                  /\ m[i].address_block = t[i].address_block
                  /\ m[i].bound = t[i].bound /\ m[i].type = t[i].type /\ m[i].size = t[i].size
             \/ i = c /\ m[i].name = disk.inodes[i].name
                  /\ m[i].address_block = disk.inodes[i].address_block
                  /\ m[i].bound = t[i].bound
                  /\ \/ m[i].type = t[i].type /\ m[i].size \in {t[i].size, disk.inodes[i].size}
                     \/ m[i].type = disk.inodes[i].type /\ m[i].size = disk.inodes[i].size
             \/ c <= i /\ m[i].name = disk.inodes[i].name
                  /\ m[i].address_block = disk.inodes[i].address_block
                  /\ m[i].bound = disk.inodes[i].bound /\ m[i].type = disk.inodes[i].type
                  /\ m[i].size = disk.inodes[i].size
  <2>1. CASE i < c \/ (i = c /\ f = 5)
    <3>1. \A field \in 1 .. 5 : at(i, field) = t[i]
      BY <1>5, <2>1
    <3> HIDE DEF at
    <3>2. QED
      BY <1>4, <3>1
  <2>2. CASE i = c /\ f = 4
    BY <1>4, <1>5, <2>2
  <2>3. CASE i = c /\ f \in {1, 2, 3}
    BY <1>4, <1>5, <2>3
  <2>4. CASE c < i \/ (i = c /\ f = 0)
    BY <1>4, <1>5, <2>4
  <2>5. QED
    BY <1>5, <2>1, <2>2, <2>3, <2>4
<1> HIDE DEF at
<1>10. ASSUME NEW i \in Inodes
       PROVE  /\ m[i].bound => inode_list[i].bound
              /\ ~m[i].bound => m[i] = Unbound
              /\ m[i].address_block \in {inode_list[i].address_block, 0}
              /\ m[i].name \in {inode_list[i].name, NULL}
              /\ m[i].name # NULL => m[i].address_block # 0
              /\ disk.inodes[i].bound =>
                   /\ m[i].bound /\ m[i].name = inode_list[i].name
                   /\ m[i].address_block = inode_list[i].address_block
              /\ m[i].size = 1 => m[i].type # "NEW_FILE"
  <2>1. CASE disk.inodes[i].bound
    <3>1. /\ inode_list[i].bound /\ inode_list[i].name = disk.inodes[i].name
          /\ inode_list[i].address_block = disk.inodes[i].address_block
          /\ inode_list[i].name # NULL => inode_list[i].address_block # 0
      BY <1>1, <2>1 DEF DiskFollows, InodesSound
    <3>2. /\ m[i].bound /\ m[i].name = inode_list[i].name
          /\ m[i].address_block = inode_list[i].address_block
      BY <1>9, <2>1, <3>1
    <3>3. m[i].size = 1 => m[i].type # "NEW_FILE"
      BY <1>1, <1>9 DEF TypesSound
    <3>4. QED
      BY <3>1, <3>2, <3>3
  <2>2. CASE ~disk.inodes[i].bound
    <3>1. disk.inodes[i] = Unbound
      BY <1>1, <2>2 DEF InodesSound
    <3>2. ~inode_list[i].bound => inode_list[i] = Unbound
      BY <1>1 DEF InodesSound
    <3>3. CASE inode_list[i].bound
      <4>1. inode_list[i].name # NULL => inode_list[i].address_block # 0
        BY <1>1, <3>3 DEF InodesSound
      <4>2. ~m[i].bound => m[i] = disk.inodes[i]
        <5>1. ~m[i].bound =>
                /\ m[i].name = disk.inodes[i].name /\ m[i].type = disk.inodes[i].type
                /\ m[i].address_block = disk.inodes[i].address_block
                /\ m[i].size = disk.inodes[i].size /\ m[i].bound = disk.inodes[i].bound
          BY <1>9, <2>2, <3>3
        <5>2. m[i] \in Inode /\ disk.inodes[i] \in Inode
          BY <1>6, <1>7
        <5>3. QED
          BY <5>1, <5>2 DEF Inode
      <4>3. m[i].size = 1 => m[i].type # "NEW_FILE"
        BY <1>8, <1>9, <3>1
      <4>4. /\ m[i].address_block \in {inode_list[i].address_block, 0}
            /\ m[i].name \in {inode_list[i].name, NULL}
            /\ m[i].name # NULL => m[i].address_block # 0
        BY <1>8, <1>9, <3>1, <4>1
      <4>5. QED
        BY <2>2, <3>1, <3>3, <4>2, <4>3, <4>4
    <3>4. CASE ~inode_list[i].bound
      <4>1. inode_list[i] = Unbound
        BY <3>2, <3>4
      <4>2. ~t[i].bound /\ t[i].size # 1 /\ t[i].name = NULL /\ t[i].address_block = 0
            /\ t[i].type = "NEW_FILE"
        BY <1>8, <4>1
      <4>3. t[i].size = 0
        BY <4>2 DEF Inode
      <4>4. ~m[i].bound /\ m[i].size = 0 /\ m[i].name = NULL /\ m[i].address_block = 0
            /\ m[i].type = "NEW_FILE"
        BY <1>8, <1>9, <3>1, <4>2, <4>3
      <4>5. m[i] = Unbound
        <5>1. m[i] \in Inode
          BY <1>7
        <5>2. QED
          BY <4>4, <5>1 DEF Inode, Unbound
      <4>6. QED
        BY <1>8, <2>2, <4>4, <4>5
    <3>5. QED
      BY <3>3, <3>4
  <2>3. QED
    BY <2>1, <2>2
<1>11. ASSUME NEW i \in Inodes, HasBlock(m, i), m[i].type = "NEW_FILE"
       PROVE  \A k \in Positions : EntriesOf(inode_list, i)[k] \notin Blocks
  <2>1. inode_list[i].bound /\ inode_list[i].address_block = m[i].address_block
    BY <1>10, <1>11
  <2>2. CASE inode_list[i].type = "NEW_FILE"
    BY <1>1, <1>11, <2>1, <2>2 DEF TypesSound, WrittenFilesStayFiles
  <2>3. CASE inode_list[i].type # "NEW_FILE"
    <3>1. m[i].type = disk.inodes[i].type /\ m[i].address_block = disk.inodes[i].address_block
      BY <1>9, <1>11, <2>3
    <3>2. disk.inodes[i].bound
      BY <1>1, <1>8, <1>11, <3>1 DEF InodesSound
    <3>3. EntriesOf(disk.inodes, i) = EntriesOf(inode_list, i)
      BY <2>1, <3>1 DEF EntriesOf
    <3>4. QED
      BY <1>1, <1>11, <3>1, <3>2, <3>3 DEF TypesSound, WrittenFilesStayFiles
  <2>4. QED
    BY <2>2, <2>3
<1>12. Lost(m) \subseteq Lost(disk.inodes) \cup {c}
  <2> SUFFICES ASSUME NEW i \in Lost(m), i # c
               PROVE  i \in Lost(disk.inodes)
    OBVIOUS
  <2>1. i \in Inodes \ {ROOT} /\ m[i].bound /\ m[i].name = NULL
    BY DEF Lost
  <2>2. CASE m[i].name = disk.inodes[i].name /\ m[i].bound = disk.inodes[i].bound
    BY <2>1, <2>2 DEF Lost
  <2>3. CASE m[i].name = t[i].name /\ m[i].bound = t[i].bound
    <3>1. i \in Lost(inode_list)
      BY <2>1, <2>3 DEF Lost
    <3>2. disk.inodes[i].bound /\ disk.inodes[i].name = NULL
      BY <1>1, <2>1, <2>3, <3>1 DEF LostSound, DiskFollows
    <3>3. QED
      BY <2>1, <3>2 DEF Lost
  <2>4. QED
    BY <1>9, <2>1, <2>2, <2>3
<1>13. ASSUME NEW i \in Inodes, NEW j \in Inodes,
              m[i].bound, ~disk.inodes[i].bound, j < i, inode_list[j].bound
       PROVE  m[j].bound
  <2>1. m[i].bound # disk.inodes[i].bound
    BY <1>13
  <2>2. i < c \/ i = c
    BY <1>4, <1>5, <2>1 DEF at
  <2>3. i \in Nat /\ j \in Nat
    BY <1>5
  <2>4. j < c
    BY <1>5, <1>13, <2>2, <2>3
  <2>5. m[j].bound = t[j].bound
    BY <1>4, <2>4 DEF at
  <2>6. QED
    BY <1>13, <2>5
<1>14. m[ROOT].type \in {inode_list[ROOT].type, disk.inodes[ROOT].type}
  BY <1>9, Numbers
<1>15. Between(m)
  BY <1>7, <1>10, <1>11, <1>12, <1>13, <1>14 DEF Between
<1>16. QED
  BY <1>0, <1>15

(* What power failures leave on the disk.                                     *)
LEMMA DiskCrash ==
  ASSUME IInv, PowerFails
  PROVE  \E m : Between(m) /\ init_filesystem(WriteInodes(m))
<1>1. disk = WriteInodes(disk.inodes)
  BY DEF WriteInodes, IInv, TypeOK, Disk
<1>2. QED
  BY <1>1, DiskBetween DEF PowerFails

LEMMA CrashFacts ==
  ASSUME PREEMPT = FALSE, IInv, NEW p \in Procs, NEW cut \in Cuts,
         CutInodeList(p, cut) \/ CutWrite(p, cut)
  PROVE  \E m : Between(m) /\ init_filesystem(WriteInodes(m))
<1>1. TypeOK /\ OneCall /\ InodesSound /\ CacheSound /\ TypesSound
  BY DEF IInv
<1>2. CASE CutInodeList(p, cut)
  <2>1. inode_list \in [Inodes -> Inode]
    BY <1>1 DEF TypeOK
  <2>2. \A i \in Inodes : inode_list[i].size = 1 =>
          inode_list[i].bound /\ inode_list[i].type # "NEW_FILE"
    BY <1>1 DEF InodesSound, TypesSound, Unbound
  <2>3. Between(Transferred(inode_list, cut))
    BY <2>1, <2>2, CutBetween
  <2>4. QED
    BY <1>2, <2>3 DEF CutInodeList
<1>3. CASE CutWrite(p, cut)
  <2>1. PICK i : i = opened[p]
    OBVIOUS
  <2>2. i \in Inodes /\ HasBlock(inode_list, i) /\ inode_list[i].type = "REGULAR_FILE"
    <3>1. i \in Inodes /\ file[i] # NULL
      BY <1>1, <1>3, <2>1 DEF CutWrite, TypeOK
    <3>2. QED
      BY <1>1, <3>1 DEF CacheSound
  <2>3. PICK t : t = Extended(i)
    OBVIOUS
  <2>4. inode_list \in [Inodes -> Inode] /\ inode_list[i] \in Inode
    BY <1>1, <2>2 DEF TypeOK
  <2>5. PICK x : x = [inode_list[i] EXCEPT !.size = 1]
    OBVIOUS
  <2>6. /\ x \in Inode /\ x.bound = inode_list[i].bound /\ x.name = inode_list[i].name
        /\ x.address_block = inode_list[i].address_block /\ x.type = inode_list[i].type
        /\ x.size = 1
    BY <2>4, <2>5 DEF Inode
  <2>7. t = [inode_list EXCEPT ![i] = x]
    BY <2>3, <2>5 DEF Extended
  <2>8. /\ t \in [Inodes -> Inode] /\ t[i] = x
        /\ \A j \in Inodes \ {i} : t[j] = inode_list[j]
    BY <2>2, <2>4, <2>6, <2>7
  <2>9. \A j \in Inodes : inode_list[j].size = 1 =>
          inode_list[j].bound /\ inode_list[j].type # "NEW_FILE"
    BY <1>1 DEF InodesSound, TypesSound, Unbound
  <2>10. \A j \in Inodes :
           /\ t[j].bound = inode_list[j].bound /\ t[j].name = inode_list[j].name
           /\ t[j].address_block = inode_list[j].address_block
           /\ t[j].type = inode_list[j].type
           /\ inode_list[j].size = 1 => t[j].size = 1
           /\ t[j].size = 1 => t[j].bound /\ t[j].type # "NEW_FILE"
    BY <2>2, <2>6, <2>8, <2>9
  <2>11. Between(Transferred(t, cut))
    BY <2>8, <2>10, CutBetween
  <2>12. QED
    BY <1>3, <2>1, <2>3, <2>11 DEF CutWrite
<1>4. QED
  BY <1>2, <1>3

(* What was on the disk is in memory then; who has data has it still.         *)
LEMMA CrashStep ==
  ASSUME IInv, NEW m, Between(m), init_filesystem(WriteInodes(m))
  PROVE  IInv'
<1>1. /\ TypeOK /\ OneCall /\ DiskFollows /\ InodesSound /\ DataSound /\ CacheSound
      /\ TypesSound /\ LostSound
  BY DEF IInv
<1>2. /\ crashes < MAX_CRASHES /\ crashes' = crashes + 1
      /\ disk' = [disk EXCEPT !.inodes = m]
      /\ bound_blocks_bitmap' = disk'.bitmap /\ inode_list' = disk'.inodes
      /\ file_names_list' = disk'.names /\ file' = [i \in Inodes |-> NULL]
      /\ opened' = [p \in Procs |-> NULL] /\ call' = [p \in Procs |-> Idle]
  BY DEF init_filesystem, WriteInodes
<1>3. m \in [Inodes -> Inode]
  BY DEF Between
<1>4. /\ disk' \in Disk /\ disk'.bitmap = bound_blocks_bitmap /\ disk'.inodes = m
      /\ disk'.names = file_names_list /\ disk'.blocks = disk.blocks
  BY <1>1, <1>2, <1>3 DEF TypeOK, Disk, DiskFollows
<1>5. /\ bound_blocks_bitmap' = bound_blocks_bitmap /\ inode_list' = m
      /\ file_names_list' = file_names_list
  BY <1>2, <1>4
<1>6. TypeOK'
  <2>1. Idle \in Call
    BY Numbers, LengthsAssumption DEF Idle, Call, ROOT
  <2>2. crashes' \in 0 .. MAX_CRASHES
    BY <1>1, <1>2, BoundsAssumption DEF TypeOK
  <2>3. /\ file' \in [Inodes -> Entries \cup {NULL}]
        /\ opened' \in [Procs -> Inodes \cup {NULL}]
        /\ \A p \in Procs : opened'[p] = NULL
        /\ call' \in [Procs -> Call]
    BY <1>2, <2>1
  <2>4. QED
    BY <1>1, <1>3, <1>4, <1>5, <2>2, <2>3 DEF TypeOK
<1>7. ASSUME NEW i \in Inodes, HasBlock(m, i)
      PROVE  /\ HasBlock(inode_list, i) /\ m[i].address_block = inode_list[i].address_block
             /\ EntriesOf(inode_list, i)' = EntriesOf(inode_list, i)
  <2>1. inode_list[i].bound /\ m[i].address_block = inode_list[i].address_block
    BY <1>7 DEF Between
  <2>2. QED
    BY <1>4, <1>5, <1>7, <2>1 DEF EntriesOf
<1>8. \A i \in Inodes, k \in Positions, b \in Blocks : HasData(i, k, b)' => HasData(i, k, b)
  BY <1>5, <1>7 DEF HasData
<1>9. DiskFollows'
  BY <1>2 DEF DiskFollows
<1>10. InodesSound'
  <2>1. m[ROOT].bound /\ m[ROOT].address_block # 0
    BY <1>1, Numbers DEF Between, DiskFollows, InodesSound
  <2>2. \A i \in Inodes :
          /\ ~m[i].bound => m[i] = Unbound
          /\ m[i].bound =>
               /\ m[i].address_block \in bound_blocks_bitmap \cup {0}
               /\ m[i].name \in file_names_list \cup {NULL}
               /\ i = ROOT \/ m[i].name # NULL => m[i].address_block # 0
    BY <1>1, <2>1 DEF Between, InodesSound
  <2>3. \A i, j \in Inodes :
          HasBlock(m, i) /\ HasBlock(m, j) /\ m[i].address_block = m[j].address_block => i = j
    BY <1>1, <1>7 DEF InodesSound
  <2>4. QED
    BY <1>4, <1>5, <2>1, <2>2, <2>3 DEF InodesSound
<1>11. DataSound'
  <2>1. ASSUME NEW i \in Inodes, NEW k \in Positions, NEW b \in Blocks, HasData(i, k, b)'
        PROVE  /\ b \in bound_blocks_bitmap'
               /\ \A j \in Inodes : inode_list'[j].bound => inode_list'[j].address_block # b
               /\ \A j \in Inodes, l \in Positions : HasData(j, l, b)' => i = j /\ k = l
    <3>1. HasData(i, k, b)
      BY <1>8, <2>1
    <3>2. b \in bound_blocks_bitmap'
      BY <1>1, <1>5, <3>1 DEF DataSound
    <3>3. \A j \in Inodes : m[j].bound => m[j].address_block # b
      BY <1>1, <3>1, Numbers DEF DataSound, Between
    <3>4. \A j \in Inodes, l \in Positions : HasData(j, l, b)' => i = j /\ k = l
      BY <1>1, <1>8, <3>1 DEF DataSound
    <3>5. QED
      BY <1>5, <3>2, <3>3, <3>4
  <2>2. \A b \in Blocks \ bound_blocks_bitmap' : disk'.blocks[b] = NoEntries
    BY <1>1, <1>4, <1>5 DEF DataSound
  <2>3. QED
    BY <2>1, <2>2 DEF DataSound
<1>12. CacheSound'
  BY <1>2 DEF CacheSound
<1>13. TypesSound'
  <2>1. \A i \in Inodes : m[i].size = 1 => m[i].bound /\ m[i].type # "NEW_FILE"
    BY DEF Between, Unbound
  <2>2. ASSUME NEW i \in Inodes, HasBlock(m, i), m[i].type = "NEW_FILE"
        PROVE  /\ \A k \in Positions : EntriesOf(inode_list, i)'[k] \notin Blocks
               /\ \A k \in Positions : EntriesOf(disk.inodes, i)'[k] \notin Blocks
    <3>1. \A k \in Positions : EntriesOf(inode_list, i)[k] \notin Blocks
      BY <2>2 DEF Between
    <3>2. EntriesOf(inode_list, i)' = EntriesOf(inode_list, i)
      BY <1>7, <2>2
    <3>3. EntriesOf(disk.inodes, i)' = EntriesOf(inode_list, i)'
      BY <1>4, <1>5 DEF EntriesOf
    <3>4. QED
      BY <3>1, <3>2, <3>3
  <2>3. WrittenFilesStayFiles'
    BY <1>4, <1>5, <2>2 DEF WrittenFilesStayFiles
  <2>4. QED
    BY <1>4, <1>5, <2>1, <2>3 DEF TypesSound
<1>14. MarkedUsed'
  <2>1. crashes' # 0
    BY <1>1, <1>2, BoundsAssumption DEF TypeOK
  <2>2. QED
    BY <2>1 DEF MarkedUsed
<1>15. OneCall' /\ (\A q \in Procs : Creates(q) /\ Writes(q))'
  <2>1. \A q \in Procs : call'[q] = Idle
    BY <1>2
  <2>2. QED
    BY <2>1, AllIdle
<1>16. LostSound'
  <2>1. \A i \in Lost(m) : m[i].bound
    BY DEF Lost
  <2>2. PICK i \in Inodes : Lost(m) \subseteq Lost(disk.inodes) \cup {i}
    BY DEF Between
  <2>3. PICK L : L = Lost(disk.inodes)
    OBVIOUS
  <2>4. IsFiniteSet(L)
    <3>1. L \subseteq Inodes
      BY <2>3 DEF Lost
    <3>2. IsFiniteSet(Inodes)
      BY LengthsAssumption, FS_Interval DEF Inodes
    <3>3. QED
      BY <3>1, <3>2, FS_Subset
  <2>5. /\ IsFiniteSet(L \cup {i}) /\ Cardinality(L) \in Nat
        /\ Cardinality(L \cup {i}) \in {Cardinality(L), Cardinality(L) + 1}
    BY <2>4, FS_AddElement, FS_CardinalityType
  <2>6. Cardinality(Lost(m)) <= Cardinality(L \cup {i}) /\ Cardinality(Lost(m)) \in Nat
    BY <2>2, <2>3, <2>5, FS_Subset, FS_CardinalityType
  <2>7. Cardinality(L) <= crashes /\ crashes \in Nat
    BY <1>1, <2>3, BoundsAssumption DEF LostSound, TypeOK
  <2>8. Cardinality(Lost(m)) <= crashes + 1
    BY <2>5, <2>6, <2>7
  <2>9. QED
    BY <1>2, <1>4, <1>5, <2>1, <2>8 DEF LostSound
<1>17. QED
  BY <1>6, <1>9, <1>10, <1>11, <1>12, <1>13, <1>14, <1>15, <1>16 DEF IInv

(* Nothing that the invariant is about changes in a stuttering step.          *)
LEMMA StutterStep ==
  ASSUME IInv, UNCHANGED vars
  PROVE  IInv'
<1>1. UNCHANGED <<bound_blocks_bitmap, inode_list, file_names_list, disk, file, opened,
                  call, crashes>>
  BY DEF vars, tables
<1>2. TypeOK' /\ OneCall'
  BY <1>1 DEF IInv, TypeOK, OneCall
<1>3. DiskFollows' /\ InodesSound'
  BY <1>1 DEF IInv, DiskFollows, InodesSound
<1>4. DataSound' /\ CacheSound'
  BY <1>1 DEF IInv, DataSound, CacheSound, HasData, EntriesOf
<1>5. TypesSound'
  BY <1>1 DEF IInv, TypesSound, WrittenFilesStayFiles, EntriesOf
<1>6. \A p \in Procs : Creates(p)'
  BY <1>1 DEF IInv, Creates, FreeInodes, FreeBlocks, EntriesOf
<1>7. \A p \in Procs : Writes(p)'
  BY <1>1 DEF IInv, Writes, HasData, EntriesOf
<1>8. MarkedUsed'
  BY <1>1 DEF IInv, MarkedUsed, HasData, EntriesOf
<1>9. LostSound'
  BY <1>1 DEF IInv, LostSound
<1>10. QED
  BY <1>2, <1>3, <1>4, <1>5, <1>6, <1>7, <1>8, <1>9 DEF IInv

(* The invariant is inductive.                                                *)
LEMMA NextInv ==
  ASSUME PREEMPT = FALSE, IInv, [Next]_vars
  PROVE  IInv'
<1>1. ASSUME NEW p \in Procs, NEW path \in Paths,
             open(p, path) \/ Create(p, path) \/ opendir(p, path)
      PROVE  IInv'
  BY <1>1, OpenStep, CreateStep, OpendirStep
<1>2. ASSUME NEW p \in Procs,
             WriteName(p) \/ BindInode(p) \/ EnterInode(p) \/ WriteInodeList(p)
      PROVE  IInv'
  BY <1>2, WriteNameStep, BindInodeStep, EnterInodeStep, WriteInodeListStep
<1>3. ASSUME NEW p \in Procs, NEW blocks \in 1 .. LENGTH, NEW extends \in BOOLEAN,
             write(p, blocks, extends)
      PROVE  IInv'
  BY <1>3, WriteStep
<1>4. ASSUME NEW p \in Procs, WriteBlock(p) \/ MarkBlock(p) \/ LinkBlock(p) \/ close(p)
      PROVE  IInv'
  BY <1>4, WriteBlockStep, MarkBlockStep, LinkBlockStep, CloseStep
<1>5. ASSUME NEW p \in Procs, NEW cut \in Cuts,
             CutInodeList(p, cut) \/ CutWrite(p, cut)
      PROVE  IInv'
  BY <1>5, CrashFacts, CrashStep
<1>6. CASE PowerFails
  BY <1>6, DiskCrash, CrashStep
<1>7. QED
  BY <1>1, <1>2, <1>3, <1>4, <1>5, <1>6, StutterStep DEF Next

-----------------------------------------------------------------------------
(* What follows from the invariant.                                          *)

(* A set no two elements of which differ has at most one.                     *)
LEMMA AtMostOne ==
  ASSUME NEW S, \A e, f \in S : e = f
  PROVE  Cardinality(S) <= 1
<1>1. CASE S = {}
  BY <1>1, FS_EmptySet
<1>2. CASE S # {}
  <2>1. PICK e : e \in S
    BY <1>2
  <2>2. S = {e}
    BY <2>1
  <2>3. QED
    BY <2>2, FS_Singleton
<1>3. QED
  BY <1>1, <1>2

(* Who owns a block after a power failure owns it now.                        *)
LEMMA OwnersFacts ==
  ASSUME DiskFollows, NEW inodes \in {inode_list, disk.inodes}, NEW b \in Blocks,
         NEW e \in Owners(inodes, b)
  PROVE  \/ \E i \in Inodes : /\ e = <<i, 0>> /\ inode_list[i].bound
                              /\ inode_list[i].address_block = b
         \/ \E i \in Inodes, k \in Positions : e = <<i, k>> /\ HasData(i, k, b)
<1> DEFINE own == {i \in Inodes : inodes[i].bound /\ inodes[i].address_block = b}
           data == {f \in Inodes \X Positions :
                      HasBlock(inodes, f[1]) /\ EntriesOf(inodes, f[1])[f[2]] = b}
<1>1. e \in {<<i, 0>> : i \in own} \/ e \in data
  BY DEF Owners
<1>2. ASSUME NEW i \in Inodes, inodes[i].bound
      PROVE  /\ inode_list[i].bound /\ inode_list[i].address_block = inodes[i].address_block
             /\ EntriesOf(inodes, i) = EntriesOf(inode_list, i)
  BY <1>2 DEF DiskFollows, EntriesOf
<1>3. CASE e \in {<<i, 0>> : i \in own}
  <2>1. PICK i \in own : e = <<i, 0>>
    BY <1>3
  <2>2. QED
    BY <1>2, <2>1
<1>4. CASE e \in data
  <2>1. /\ e \in Inodes \X Positions /\ HasBlock(inodes, e[1])
        /\ EntriesOf(inodes, e[1])[e[2]] = b
    BY <1>4
  <2>2. PICK i \in Inodes, k \in Positions : e = <<i, k>>
    BY <2>1
  <2>3. HasBlock(inodes, i) /\ EntriesOf(inodes, i)[k] = b
    BY <2>1, <2>2
  <2>4. HasData(i, k, b)
    BY <1>2, <2>3 DEF HasData
  <2>5. QED
    BY <2>2, <2>4
<1>5. QED
  BY <1>1, <1>3, <1>4

LEMMA OneOwner ==
  ASSUME IInv
  PROVE  OneOwnerPerBlock
<1> SUFFICES ASSUME NEW inodes \in {inode_list, disk.inodes}, NEW b \in Blocks,
                    NEW e \in Owners(inodes, b), NEW f \in Owners(inodes, b)
             PROVE  e = f
  BY AtMostOne DEF OneOwnerPerBlock
<1>1. DiskFollows /\ InodesSound /\ DataSound
  BY DEF IInv
<1> DEFINE Own(g) == \E i \in Inodes : /\ g = <<i, 0>> /\ inode_list[i].bound
                                       /\ inode_list[i].address_block = b
           Data(g) == \E i \in Inodes, k \in Positions : g = <<i, k>> /\ HasData(i, k, b)
<1>2. (Own(e) \/ Data(e)) /\ (Own(f) \/ Data(f))
  BY <1>1, OwnersFacts
<1>3. CASE Own(e) /\ Own(f)
  BY <1>1, <1>3, Numbers DEF InodesSound
<1>4. CASE Own(e) /\ Data(f)
  BY <1>1, <1>4 DEF DataSound
<1>5. CASE Data(e) /\ Own(f)
  BY <1>1, <1>5 DEF DataSound
<1>6. CASE Data(e) /\ Data(f)
  BY <1>1, <1>6 DEF DataSound
<1>7. QED
  BY <1>2, <1>3, <1>4, <1>5, <1>6

(* Blocks with an owner, now or after a power failure, are marked.            *)
LEMMA OwnedMarked ==
  ASSUME IInv, NEW inodes \in {inode_list, disk.inodes}, NEW b \in Blocks,
         Owners(inodes, b) # {}
  PROVE  b \in bound_blocks_bitmap
<1>1. DiskFollows /\ InodesSound /\ DataSound
  BY DEF IInv
<1>2. PICK e : e \in Owners(inodes, b)
  OBVIOUS
<1>3. \/ \E i \in Inodes : inode_list[i].bound /\ inode_list[i].address_block = b
      \/ \E i \in Inodes, k \in Positions : HasData(i, k, b)
  BY <1>1, <1>2, OwnersFacts
<1>4. QED
  BY <1>1, <1>3, Numbers DEF InodesSound, DataSound

LEMMA Consistent ==
  ASSUME IInv
  PROVE  DiskConsistent
<1>1. TypeOK /\ DiskFollows /\ InodesSound /\ TypesSound /\ LostSound
  BY DEF IInv
<1>2. \A b \in Blocks : Owners(disk.inodes, b) # {} => b \in disk.bitmap
  BY <1>1, OwnedMarked DEF DiskFollows
<1>3. ASSUME NEW i \in Inodes, disk.inodes[i].name # NULL
      PROVE  disk.inodes[i].name \in disk.names /\ HasBlock(disk.inodes, i)
  <2>1. HasBlock(disk.inodes, i)
    BY <1>1, <1>3, Searches DEF Searchable
  <2>2. QED
    BY <1>1, <1>3, <2>1 DEF DiskFollows, InodesSound
<1>4. DiskOrdered
  BY <1>1, <1>2, <1>3 DEF DiskOrdered, LostSound
<1>5. QED
  BY <1>1, <1>4 DEF DiskConsistent, TypesSound

LEMMA NothingLost ==
  ASSUME IInv
  PROVE  NoBlockLost
<1> SUFFICES ASSUME crashes = 0, \A p \in Procs : call[p] = Idle
             PROVE  bound_blocks_bitmap = {b \in Blocks : Owners(inode_list, b) # {}}
  BY DEF NoBlockLost
<1>1. ASSUME NEW b \in bound_blocks_bitmap
      PROVE  b \in Blocks /\ Owners(inode_list, b) # {}
  <2>1. b \in Blocks
    BY DEF IInv, TypeOK
  <2>2. \A p \in Procs : call[p].step # "link"
    BY DEF Idle
  <2>3. \/ \E i \in Inodes : inode_list[i].bound /\ inode_list[i].address_block = b
        \/ \E i \in Inodes, k \in Positions : HasData(i, k, b)
    BY <2>2 DEF IInv, MarkedUsed
  <2>4. CASE \E i \in Inodes : inode_list[i].bound /\ inode_list[i].address_block = b
    <3>1. PICK i \in Inodes : inode_list[i].bound /\ inode_list[i].address_block = b
      BY <2>4
    <3>2. <<i, 0>> \in Owners(inode_list, b)
      BY <3>1 DEF Owners
    <3>3. QED
      BY <2>1, <3>2
  <2>5. CASE \E i \in Inodes, k \in Positions : HasData(i, k, b)
    <3>1. PICK i \in Inodes, k \in Positions : HasData(i, k, b)
      BY <2>5
    <3>2. PICK e : e = <<i, k>>
      OBVIOUS
    <3>3. e \in Inodes \X Positions /\ e[1] = i /\ e[2] = k
      BY <3>2
    <3>4. e \in Owners(inode_list, b)
      BY <3>1, <3>3 DEF Owners, HasData
    <3>5. QED
      BY <2>1, <3>4
  <2>6. QED
    BY <2>3, <2>4, <2>5
<1>2. ASSUME NEW b \in Blocks, Owners(inode_list, b) # {}
      PROVE  b \in bound_blocks_bitmap
  BY <1>2, OwnedMarked
<1>3. QED
  BY <1>1, <1>2

-----------------------------------------------------------------------------
(* Theorems.                                                                 *)

(* The tables, the blocks on the disk, the descriptors and the calls are of   *)
(* the types of filesystem.h, and the file a process has open has a           *)
(* descriptor.                                                                *)
THEOREM TypeCorrect ==
  ASSUME PREEMPT = FALSE
  PROVE  Spec => []TypeOK
<1>1. Init => IInv
  BY InitInv
<1>2. IInv /\ [Next]_vars => IInv'
  BY NextInv
<1>3. IInv => TypeOK
  BY DEF IInv
<1>4. QED
  BY <1>1, <1>2, <1>3, PTL DEF Spec

(* "get index of a free block and marks it as used" (filesystem.c:356): if    *)
(* the timer does not switch processes within write, no block has two uses,   *)
(* neither now nor after a power failure now.                                 *)
THEOREM BlocksHaveOneOwner ==
  ASSUME PREEMPT = FALSE
  PROVE  Spec => []OneOwnerPerBlock
<1>1. Init => IInv
  BY InitInv
<1>2. IInv /\ [Next]_vars => IInv'
  BY NextInv
<1>3. IInv => OneOwnerPerBlock
  BY OneOwner
<1>4. QED
  BY <1>1, <1>2, <1>3, PTL DEF Spec

(* The order in which open and write write to the disk (filesystem.c:186,     *)
(* 209, 219, 363, 398, 424): whenever the power fails, also between two       *)
(* sectors of the inode list (ata.c:80), no block in use is free afterwards,  *)
(* what has a name has a block, the name is in the list, and no file that was *)
(* written to is taken for a new one; each failure costs one inode at most.   *)
THEOREM DiskAlwaysConsistent ==
  ASSUME PREEMPT = FALSE
  PROVE  Spec => []DiskConsistent
<1>1. Init => IInv
  BY InitInv
<1>2. IInv /\ [Next]_vars => IInv'
  BY NextInv
<1>3. IInv => DiskConsistent
  BY Consistent
<1>4. QED
  BY <1>1, <1>2, <1>3, PTL DEF Spec

(* Every block get_free_block marks (filesystem.c:356) comes into use: until  *)
(* the power fails, the blocks marked between calls are those in use.         *)
THEOREM BlocksAccountedFor ==
  ASSUME PREEMPT = FALSE
  PROVE  Spec => []NoBlockLost
<1>1. Init => IInv
  BY InitInv
<1>2. IInv /\ [Next]_vars => IInv'
  BY NextInv
<1>3. IInv => NoBlockLost
  BY NothingLost
<1>4. QED
  BY <1>1, <1>2, <1>3, PTL DEF Spec

-----------------------------------------------------------------------------
(* The tree.  From here on no path leads through a file (THROUGH_FILES =     *)
(* FALSE): else inodes are entered into blocks that descriptors have copies  *)
(* of.  An inode is a ghost as long as it is not in use on the disk but      *)
(* entered in a directory: a power failure leaves it there, and it appears   *)
(* in that directory when it is bound again.                                 *)

OnDisk(i) == disk.inodes[i].bound

\* Position k of inode d has inode i.
IsIn(i, d, k) ==
  HasBlock(inode_list, d) /\ i \in Inodes \ {ROOT} /\ EntriesOf(inode_list, d)[k] = i

\* No inode before i is free on the disk.
FirstFree(i) == \A j \in Inodes : ~OnDisk(j) => i <= j

\* There is no gap before an entry.
Packed ==
  \A d, i \in Inodes, j, k \in Positions :
    IsIn(i, d, k) /\ j < k => EntriesOf(inode_list, d)[j] # 0

\* Ghosts are the inode that is bound next, and nothing else is entered after
\* them.
GhostsSound ==
  /\ \A d, i \in Inodes, k \in Positions :
       OnDisk(d) /\ IsIn(i, d, k) /\ ~OnDisk(i) => FirstFree(i)
  /\ \A d, i, e \in Inodes, j, k \in Positions :
       OnDisk(d) /\ IsIn(i, d, j) /\ ~OnDisk(i) /\ IsIn(e, d, k) /\ j < k => e = i

\* No inode between d and i is free on the disk, and i is.
FreeBehind(d, i) ==
  ~OnDisk(i) /\ d < i /\ \A j \in Inodes : ~OnDisk(j) /\ d < j => i <= j

\* No new inode is behind i.
Newest(i) == \A j \in Inodes : inode_list[j].bound /\ ~OnDisk(j) => j <= i

\* What a call to open has created so far is complete but for the last, and each
\* new inode is the next free one: however many of them are on the disk when the
\* power fails, the first that is not is entered in the last that is.
NewSound ==
  /\ \A d, i \in Inodes, k \in Positions :
       ~OnDisk(d) /\ IsIn(i, d, k) => inode_list[i].bound /\ FreeBehind(d, i)
  /\ \A i, j \in Inodes :
       inode_list[j].bound /\ ~OnDisk(j) /\ i < j => inode_list[i].bound
  /\ (\A p \in Procs : call[p].step \notin Masked) =>
       \A i \in Inodes : inode_list[i].bound => OnDisk(i)

\* Open files and the root directory are what they are on the disk.
CopiesExact ==
  /\ inode_list[ROOT].type = "DIRECTORY" /\ disk.inodes[ROOT].type = "DIRECTORY"
  /\ \A i \in Inodes : file[i] # NULL => file[i] = EntriesOf(inode_list, i)

\* The inode that open is at, and the directory it is for.
Grows(p) ==
  LET d == call[p].inode
      i == call[p].block
  IN  /\ call[p].step \in {"name", "bind", "enter"} => inode_list[d].type = "DIRECTORY"
      /\ call[p].step \in {"name", "bind"} =>
           IF OnDisk(d) THEN \A j \in Inodes : inode_list[j].bound => OnDisk(j)
           ELSE Newest(d)
      /\ call[p].step = "enter" =>
           /\ ~OnDisk(i) /\ Newest(i)
           /\ IF OnDisk(d) THEN FirstFree(i) ELSE FreeBehind(d, i)
      /\ call[p].step = "list" => ~OnDisk(d)

OrderInv ==
  /\ Packed
  /\ GhostsSound
  /\ NewSound
  /\ CopiesExact
  /\ \A p \in Procs : Grows(p)

\* Nobody has entered inode i yet.
Loose(i) == \E p \in Procs : call[p].step = "enter" /\ call[p].block = i

\* Only directories have inodes, those in use, and no data.
DirectoriesSound ==
  /\ \A d, i \in Inodes, k \in Positions : IsIn(i, d, k) =>
       inode_list[d].type = "DIRECTORY" /\ inode_list[i].bound /\ ~Loose(i)
  /\ \A d \in Inodes, k \in Positions, b \in Blocks :
       HasData(d, k, b) => inode_list[d].type # "DIRECTORY"

\* Each inode is entered once, and its name is once in its directory.
EntriesSound ==
  /\ \A i \in Inodes \ {ROOT} : inode_list[i].bound =>
       Loose(i) \/ \E d \in Inodes, k \in Positions : IsIn(i, d, k)
  /\ \A i, d, e \in Inodes, k, l \in Positions :
       IsIn(i, d, k) /\ IsIn(i, e, l) => d = e /\ k = l
  /\ \A i, j, d \in Inodes, k, l \in Positions :
       IsIn(i, d, k) /\ IsIn(j, d, l) /\ inode_list[i].name = inode_list[j].name => i = j

\* The name that is about to be entered is not in its directory.
NewName(p) ==
  call[p].step \in {"name", "bind", "enter"} =>
    /\ \A i \in Inodes, k \in Positions :
         IsIn(i, call[p].inode, k) => inode_list[i].name # Head(call[p].path)
    /\ call[p].step = "enter" =>
         /\ inode_list[call[p].block].name = Head(call[p].path)
         /\ call[p].block # ROOT

TreeInv ==
  crashes = 0 =>
    /\ DirectoriesSound
    /\ EntriesSound
    /\ \A p \in Procs : NewName(p)


\* Every inode has its name and its entries, in memory and on the disk.
SameShape ==
  /\ \A i \in Inodes :
       /\ inode_list'[i].bound = inode_list[i].bound
       /\ inode_list'[i].address_block = inode_list[i].address_block
       /\ inode_list'[i].name = inode_list[i].name
       /\ EntriesOf(inode_list, i)' = EntriesOf(inode_list, i)
  /\ \A i \in Inodes : OnDisk(i)' <=> OnDisk(i)

(* What is on the disk is in memory.                                          *)
LEMMA InMemory ==
  ASSUME DiskFollows
  PROVE  \A i \in Inodes : OnDisk(i) =>
           /\ inode_list[i].bound /\ inode_list[i].name = disk.inodes[i].name
           /\ EntriesOf(disk.inodes, i) = EntriesOf(inode_list, i)
BY DEF DiskFollows, OnDisk, EntriesOf

(* The empty root directory is a tree.                                        *)
LEMMA InitTree ==
  ASSUME Init
  PROVE  OrderInv /\ TreeInv
<1>1. /\ disk.inodes = inode_list /\ file = [i \in Inodes |-> NULL]
      /\ call = [p \in Procs |-> Idle]
  BY DEF Init
<1>2. /\ \A i \in Inodes : inode_list[i].bound <=> i = ROOT
      /\ inode_list[ROOT].type = "DIRECTORY"
  BY Numbers DEF Init, Unbound
<1>3. \A i \in Inodes : inode_list[i].bound => EntriesOf(inode_list, i) = NoEntries
  <2>1. inode_list[ROOT].address_block = Min(Blocks)
    BY Numbers DEF Init, Unbound
  <2>2. Min(Blocks) \in Blocks
    BY MinExists, BlocksAssumption
  <2>3. EntriesOf(inode_list, ROOT) = NoEntries
    BY <2>1, <2>2 DEF Init, EntriesOf
  <2>4. QED
    BY <1>2, <2>3
<1>4. \A i, d \in Inodes, k \in Positions : ~IsIn(i, d, k)
  BY <1>3 DEF IsIn, NoEntries, ROOT
<1>5. \A d \in Inodes, k \in Positions, b \in Blocks : ~HasData(d, k, b)
  BY <1>3, Numbers DEF HasData, NoEntries
<1>6. \A p \in Procs : call[p].step = "idle"
  BY <1>1 DEF Idle
<1>7. OrderInv
  <2>1. Packed /\ GhostsSound
    BY <1>4 DEF Packed, GhostsSound
  <2>2. NewSound
    BY <1>1, <1>4 DEF NewSound, OnDisk
  <2>3. CopiesExact
    BY <1>1, <1>2 DEF CopiesExact
  <2>4. \A p \in Procs : Grows(p)
    BY <1>6 DEF Grows
  <2>5. QED
    BY <2>1, <2>2, <2>3, <2>4 DEF OrderInv
<1>8. TreeInv
  <2>1. DirectoriesSound
    BY <1>4, <1>5 DEF DirectoriesSound
  <2>2. EntriesSound
    BY <1>2, <1>4 DEF EntriesSound
  <2>3. \A p \in Procs : NewName(p)
    BY <1>6 DEF NewName
  <2>4. QED
    BY <2>1, <2>2, <2>3 DEF TreeInv
<1>9. QED
  BY <1>7, <1>8

(* Who is in no call grows no tree.                                           *)
LEMMA OneGrows ==
  ASSUME NEW p \in Procs, \A q \in Procs \ {p} : call'[q].step = "idle"
  PROVE  /\ Grows(p)' => (\A q \in Procs : Grows(q))'
         /\ NewName(p)' => (\A q \in Procs : NewName(q))'
         /\ call'[p].step \notin Masked => Grows(p)' /\ NewName(p)'
<1>1. \A q \in Procs \ {p} : Grows(q)' /\ NewName(q)'
  BY DEF Grows, NewName
<1>2. call'[p].step \notin Masked => Grows(p)' /\ NewName(p)'
  BY DEF Grows, NewName, Masked
<1>3. QED
  BY <1>1, <1>2

(* The disk has the inodes it had, but for the end of open.                   *)
LEMMA QuietShape ==
  ASSUME IInv, NewSound, NEW p \in Procs, Quiet(p), call[p].step # "list"
  PROVE  SameShape
<1>1. SameTree /\ DiskFollows
  BY DEF Quiet, IInv
<1>2. \A i \in Inodes : OnDisk(i)' <=> OnDisk(i)
  <2>1. CASE disk'.inodes = disk.inodes
    BY <2>1 DEF OnDisk
  <2>2. CASE disk'.inodes # disk.inodes
    <3>1. \A q \in Procs : call[q].step = "idle"
      BY <2>2 DEF Quiet
    <3>2. \A i \in Inodes : inode_list[i].bound <=> OnDisk(i)
      BY <1>1, <3>1, InMemory DEF NewSound, Masked
    <3>3. disk'.inodes \in {inode_list, inode_list'}
      BY <1>1, <2>2 DEF SameTree
    <3>4. QED
      BY <1>1, <3>2, <3>3 DEF OnDisk, SameTree
  <2>3. QED
    BY <2>1, <2>2
<1>3. QED
  BY <1>1, <1>2, SameEntries DEF SameShape, SameTree


(* What only depends on the shape stays.                                      *)
LEMMA ShapeOrder ==
  ASSUME SameShape, OrderInv,
         (\A q \in Procs : call'[q].step \notin Masked) =>
           \A q \in Procs : call[q].step \notin Masked
  PROVE  Packed' /\ GhostsSound' /\ NewSound'
<1>1. \A i, d \in Inodes, k \in Positions : IsIn(i, d, k)' <=> IsIn(i, d, k)
  BY DEF SameShape, IsIn
<1>2. \A i \in Inodes : /\ OnDisk(i)' <=> OnDisk(i)
                        /\ FirstFree(i)' <=> FirstFree(i)
                        /\ \A d \in Inodes : FreeBehind(d, i)' <=> FreeBehind(d, i)
                        /\ inode_list'[i].bound = inode_list[i].bound
                        /\ EntriesOf(inode_list, i)' = EntriesOf(inode_list, i)
  BY DEF SameShape, FirstFree, FreeBehind
<1>3. Packed'
  BY <1>1, <1>2 DEF OrderInv, Packed
<1>4. GhostsSound'
  BY <1>1, <1>2 DEF OrderInv, GhostsSound
<1>5. NewSound'
  BY <1>1, <1>2 DEF OrderInv, NewSound
<1>6. QED
  BY <1>3, <1>4, <1>5

(* Open files have in memory what is on the disk.                             *)
LEMMA QuietCopies ==
  ASSUME NEW p \in Procs, Quiet(p), CopiesExact
  PROVE  CopiesExact'
<1>1. SameTree /\ disk'.inodes \in {disk.inodes, inode_list, inode_list'}
  BY DEF Quiet, SameTree
<1>2. inode_list'[ROOT].type = "DIRECTORY" /\ disk'.inodes[ROOT].type = "DIRECTORY"
  BY <1>1, Numbers DEF Quiet, CopiesExact
<1>3. \A i \in Inodes : file'[i] # NULL => file'[i] = EntriesOf(inode_list, i)'
  BY <1>1, SameEntries DEF Quiet, CopiesExact
<1>4. QED
  BY <1>2, <1>3 DEF CopiesExact

LEMMA QuietOrder ==
  ASSUME IInv, OrderInv, NEW p \in Procs, Quiet(p), call[p].step # "list", Grows(p)',
         call[p].step \in Masked => call'[p].step \in Masked
  PROVE  OrderInv'
<1>1. SameShape
  BY QuietShape DEF OrderInv
<1>2. \A q \in Procs \ {p} : call[q].step = "idle" /\ call'[q].step = "idle"
  BY DEF Quiet
<1>3. (\A q \in Procs : call'[q].step \notin Masked) =>
        \A q \in Procs : call[q].step \notin Masked
  BY <1>2 DEF Masked
<1>4. Packed' /\ GhostsSound' /\ NewSound'
  BY <1>1, <1>3, ShapeOrder
<1>5. CopiesExact'
  BY QuietCopies DEF OrderInv
<1>6. (\A q \in Procs : Grows(q))'
  BY <1>2, OneGrows
<1>7. QED
  BY <1>4, <1>5, <1>6 DEF OrderInv

(* No new directory has data.                                                 *)
LEMMA QuietTree ==
  ASSUME IInv, TreeInv, NEW p \in Procs, Quiet(p), NewName(p)',
         call[p].step # "enter", call'[p].step # "enter"
  PROVE  TreeInv'
<1> SUFFICES ASSUME crashes' = 0
             PROVE  DirectoriesSound' /\ EntriesSound' /\ (\A q \in Procs : NewName(q))'
  BY DEF TreeInv
<1>1. /\ SameTree /\ crashes = 0
      /\ \A q \in Procs \ {p} : call[q].step = "idle" /\ call'[q].step = "idle"
  BY DEF Quiet
<1>2. DirectoriesSound /\ EntriesSound
  BY <1>1 DEF TreeInv
<1>3. \A i \in Inodes : ~Loose(i) /\ ~Loose(i)'
  BY <1>1 DEF Loose
<1>4. \A i, d \in Inodes, k \in Positions : IsIn(i, d, k)' <=> IsIn(i, d, k)
  BY <1>1, SameEntries DEF SameTree, IsIn
<1>5. DirectoriesSound'
  <2>1. ASSUME NEW d \in Inodes, NEW i \in Inodes, NEW k \in Positions, IsIn(i, d, k)'
        PROVE  inode_list'[d].type = "DIRECTORY" /\ inode_list'[i].bound /\ ~Loose(i)'
    <3>1. inode_list[d].type = "DIRECTORY" /\ inode_list[i].bound
      BY <1>2, <1>4, <2>1 DEF DirectoriesSound
    <3>2. QED
      BY <1>1, <1>3, <3>1 DEF Quiet, SameTree
  <2>2. ASSUME NEW d \in Inodes, NEW k \in Positions, NEW b \in Blocks, HasData(d, k, b)'
        PROVE  inode_list'[d].type # "DIRECTORY"
    <3>1. HasData(d, k, b)
      BY <1>1, <2>2, SameEntries
    <3>2. inode_list[d].type # "DIRECTORY"
      BY <1>2, <3>1 DEF DirectoriesSound
    <3>3. inode_list[d].type # "NEW_FILE"
      BY <3>1 DEF IInv, TypesSound, WrittenFilesStayFiles, HasData
    <3>4. QED
      BY <3>2, <3>3 DEF Quiet
  <2>3. QED
    BY <2>1, <2>2 DEF DirectoriesSound
<1>6. EntriesSound'
  <2>1. \A i \in Inodes : /\ inode_list'[i].bound = inode_list[i].bound
                          /\ inode_list'[i].name = inode_list[i].name
    BY <1>1 DEF SameTree
  <2>2. QED
    BY <1>2, <1>3, <1>4, <2>1 DEF EntriesSound
<1>7. (\A q \in Procs : NewName(q))'
  BY <1>1, OneGrows
<1>8. QED
  BY <1>5, <1>6, <1>7

(* A step that is no part of a creation.                                      *)
LEMMA QuietStep ==
  ASSUME IInv, OrderInv, TreeInv, NEW p \in Procs, Quiet(p),
         call[p].step \notin Masked, call'[p].step \notin Masked
  PROVE  OrderInv' /\ TreeInv'
<1>1. Grows(p)' /\ NewName(p)'
  BY OneGrows DEF Quiet
<1>2. OrderInv'
  BY <1>1, QuietOrder DEF Masked
<1>3. TreeInv'
  BY <1>1, QuietTree DEF Masked
<1>4. QED
  BY <1>2, <1>3


(* The directory that a path is created in has no inode of its next name.     *)
LEMMA NextName ==
  ASSUME TypeOK, DiskFollows, InodesSound, NEW path \in Paths, Depth(path) < Len(path)
  PROVE  LET d == Walk(inode_list, path)[Depth(path)]
         IN  /\ d \in Inodes
             /\ \A i \in Inodes, k \in Positions :
                  IsIn(i, d, k) => inode_list[i].name # path[Depth(path) + 1]
<1>0. PICK n, d : n = Depth(path) /\ d = Walk(inode_list, path)[n]
  OBVIOUS
<1>1. Len(path) \in 1 .. 2 /\ n \in 0 .. Len(path) /\ n + 1 \in 1 .. Len(path)
  BY <1>0, DepthFacts DEF Paths
<1>2. Searchable(inode_list) /\ disk \in Disk
  BY Searches DEF TypeOK
<1>3. d \in Inodes /\ d # NULL
  BY <1>0, <1>1, <1>2, DepthFacts, WalkBound
<1>4. Walk(inode_list, path)[n + 1] = NULL
  <2>1. n + 1 \in 0 .. Len(path) /\ ~(n + 1 <= n)
    BY <1>1
  <2>2. QED
    BY <1>0, <2>1, DepthFacts
<1>5. Walk(inode_list, path)[n + 1] = Child(inode_list, d, path[n + 1])
  <2>1. n + 1 - 1 = n
    BY <1>1
  <2>2. QED
    BY <1>0, <1>1, <1>3, <2>1, WalkFacts
<1>6. ASSUME NEW i \in Inodes, NEW k \in Positions, IsIn(i, d, k),
             inode_list[i].name = path[n + 1]
      PROVE  FALSE
  <2> DEFINE here == {j \in Positions :
                        /\ EntriesOf(inode_list, d)[j] \in Inodes \ {0}
                        /\ inode_list[EntriesOf(inode_list, d)[j]].name = path[n + 1]}
  <2>1. k \in here
    BY <1>6 DEF IsIn, ROOT
  <2>2. Child(inode_list, d, path[n + 1]) = EntriesOf(inode_list, d)[Min(here)]
    BY <2>1 DEF Child
  <2>3. Min(here) \in here
    <3>1. here \in SUBSET Nat
      BY DEF Positions
    <3> HIDE DEF here
    <3>2. QED
      BY <2>1, <3>1, MinExists
  <2>4. QED
    BY <1>4, <1>5, <2>2, <2>3, Numbers
<1>7. QED
  BY <1>0, <1>3, <1>6

(* open creates the rest of a path in a directory that has none of it.        *)
LEMMA CreateTree ==
  ASSUME PREEMPT = FALSE, THROUGH_FILES = FALSE, IInv, OrderInv, TreeInv,
         NEW p \in Procs, NEW path \in Paths, Create(p, path)
  PROVE  OrderInv' /\ TreeInv'
<1>0. PICK n, d, rest : /\ n = Depth(path) /\ d = Walk(inode_list, path)[n]
                        /\ rest = SubSeq(path, n + 1, Len(path))
  OBVIOUS
<1>1. /\ Quiet(p) /\ call'[p].step = "name" /\ call'[p].path = rest
      /\ call'[p].inode = d
  BY <1>0, CreateStep
<1>2. call[p].step = "idle" /\ rest # <<>> /\ Proper(path)
  BY <1>0 DEF Create, Idle
<1>3. Len(path) \in 1 .. 2 /\ n \in 0 .. Len(path) /\ path \in Seq(Names)
  BY <1>0, DepthFacts, PathFacts
<1>4. n < Len(path) /\ Head(rest) = path[n + 1]
  <2>1. n # Len(path)
    BY <1>0, <1>2, <1>3
  <2>2. n < Len(path)
    BY <1>3, <2>1
  <2>3. n + 1 \in 1 .. Len(path) /\ Len(path) \in 1 .. Len(path)
    BY <1>3, <2>2
  <2>4. rest[1] = path[n + 1] /\ Head(rest) = rest[1]
    BY <1>0, <1>3, <2>3
  <2>5. QED
    BY <2>2, <2>4
<1>5. /\ d \in Inodes
      /\ \A i \in Inodes, k \in Positions : IsIn(i, d, k) => inode_list[i].name # Head(rest)
  BY <1>0, <1>4, NextName DEF IInv
<1>6. inode_list[d].type = "DIRECTORY"
  <2>1. CASE n = 0
    BY <1>0, <2>1, WalkFacts DEF OrderInv, CopiesExact
  <2>2. CASE n # 0
    <3>1. n \in 1 .. Len(path) - 1 /\ d # NULL
      BY <1>0, <1>3, <1>4, <2>2, DepthFacts
    <3>2. QED
      BY <1>0, <1>2, <3>1 DEF Proper
  <2>3. QED
    BY <2>1, <2>2
<1>7. SameShape
  BY <1>1, <1>2, QuietShape DEF OrderInv
<1>8. Grows(p)'
  <2>1. inode_list'[d].type = "DIRECTORY"
    BY <1>1, <1>5, <1>6 DEF Quiet
  <2>2. \A j \in Inodes : inode_list[j].bound => OnDisk(j)
    BY <1>1, <1>2 DEF OrderInv, NewSound, Quiet, Masked
  <2>3. \A j \in Inodes : inode_list'[j].bound => OnDisk(j)'
    BY <1>7, <2>2 DEF SameShape
  <2>4. Newest(d)'
    BY <2>3 DEF Newest
  <2>5. QED
    BY <1>1, <2>1, <2>3, <2>4 DEF Grows
<1>9. NewName(p)'
  <2>1. \A i \in Inodes, k \in Positions : IsIn(i, d, k)' => inode_list'[i].name # Head(rest)
    BY <1>5, <1>7 DEF SameShape, IsIn
  <2>2. QED
    BY <1>1, <2>1 DEF NewName
<1>10. QED
  BY <1>1, <1>2, <1>8, <1>9, QuietOrder, QuietTree DEF Masked

LEMMA WriteNameTree ==
  ASSUME PREEMPT = FALSE, IInv, OrderInv, TreeInv, NEW p \in Procs, WriteName(p)
  PROVE  OrderInv' /\ TreeInv'
<1>0. PICK d : d = call[p].inode
  OBVIOUS
<1>1. /\ Quiet(p) /\ call'[p].step = "bind" /\ call'[p].path = call[p].path
      /\ call'[p].inode = d /\ call[p].step = "name"
  BY <1>0, WriteNameStep DEF WriteName
<1>2. SameShape /\ d \in Inodes
  <2>1. call[p] \in Call
    BY DEF IInv, TypeOK
  <2>2. QED
    BY <1>0, <1>1, <2>1, QuietShape DEF OrderInv, Call
<1>3. Grows(p)'
  <2>1. /\ inode_list[d].type = "DIRECTORY"
        /\ OnDisk(d) => \A j \in Inodes : inode_list[j].bound => OnDisk(j)
        /\ ~OnDisk(d) => Newest(d)
    BY <1>0, <1>1 DEF OrderInv, Grows
  <2>2. inode_list'[d].type = "DIRECTORY"
    BY <1>1, <1>2, <2>1 DEF Quiet
  <2>3. OnDisk(d)' => \A j \in Inodes : inode_list'[j].bound => OnDisk(j)'
    BY <1>2, <2>1 DEF SameShape
  <2>4. ~OnDisk(d)' => Newest(d)'
    BY <1>2, <2>1 DEF SameShape, Newest
  <2>5. QED
    BY <1>1, <2>2, <2>3, <2>4 DEF Grows
<1>4. OrderInv'
  BY <1>1, <1>3, QuietOrder DEF Masked
<1>5. TreeInv'
  <2>1. CASE crashes = 0
    <3>1. \A i \in Inodes, k \in Positions :
            IsIn(i, d, k) => inode_list[i].name # Head(call[p].path)
      BY <1>0, <1>1, <2>1 DEF TreeInv, NewName
    <3>2. \A i \in Inodes, k \in Positions :
            IsIn(i, d, k)' => inode_list'[i].name # Head(call[p].path)
      BY <1>2, <3>1 DEF SameShape, IsIn
    <3>3. NewName(p)'
      BY <1>1, <3>2 DEF NewName
    <3>4. QED
      BY <1>1, <3>3, QuietTree
  <2>2. CASE crashes # 0
    BY <1>1, <2>2 DEF Quiet, TreeInv
  <2>3. QED
    BY <2>1, <2>2
<1>6. QED
  BY <1>4, <1>5

(* What open has created is all on the disk then, and no ghosts are left: the *)
(* inode that is bound next was bound.                                        *)
LEMMA WriteInodeListTree ==
  ASSUME PREEMPT = FALSE, IInv, OrderInv, TreeInv, NEW p \in Procs, WriteInodeList(p)
  PROVE  OrderInv' /\ TreeInv'
<1>1. /\ Quiet(p) /\ SameTree /\ disk'.inodes = inode_list
      /\ (\A q \in Procs : call'[q].step = "idle") /\ call[p].step = "list"
  <2>1. Quiet(p) /\ disk'.inodes = inode_list /\ \A q \in Procs : call'[q] = Idle
    BY WriteInodeListStep
  <2>2. SameTree
    BY <2>1 DEF Quiet
  <2>3. call[p].step = "list" /\ Idle.step = "idle"
    BY DEF WriteInodeList, Idle
  <2>4. QED
    BY <2>1, <2>2, <2>3
<1>2. \A i \in Inodes : /\ OnDisk(i)' <=> inode_list[i].bound
                        /\ inode_list'[i].bound = inode_list[i].bound
                        /\ inode_list'[i].address_block = inode_list[i].address_block
                        /\ EntriesOf(inode_list, i)' = EntriesOf(inode_list, i)
  BY <1>1, SameEntries DEF OnDisk, SameTree
<1>3. \A i, d \in Inodes, k \in Positions : IsIn(i, d, k)' <=> IsIn(i, d, k)
  BY <1>2 DEF IsIn
<1>4. \A i, d \in Inodes, k \in Positions : IsIn(i, d, k) => inode_list[i].bound
  <2> SUFFICES ASSUME NEW i \in Inodes, NEW d \in Inodes, NEW k \in Positions, IsIn(i, d, k),
                      ~inode_list[i].bound
               PROVE  FALSE
    OBVIOUS
  <2>1. ~OnDisk(i)
    BY InMemory DEF IInv
  <2>2. OnDisk(d)
    BY DEF OrderInv, NewSound
  <2>3. FirstFree(i)
    BY <2>1, <2>2 DEF OrderInv, GhostsSound
  <2>4. call[p].inode \in Inodes /\ inode_list[call[p].inode].bound /\ ~OnDisk(call[p].inode)
    BY <1>1 DEF IInv, TypeOK, Call, Creates, OrderInv, Grows
  <2>5. i <= call[p].inode /\ i # call[p].inode
    BY <2>3, <2>4 DEF FirstFree
  <2>6. i < call[p].inode
    BY <2>4, <2>5 DEF Inodes
  <2>7. QED
    BY <2>4, <2>6 DEF OrderInv, NewSound
<1>5. OrderInv'
  <2>1. Packed'
    BY <1>2, <1>3 DEF OrderInv, Packed
  <2>2. GhostsSound'
    BY <1>2, <1>3, <1>4 DEF GhostsSound
  <2>3. NewSound'
    <3>1. \A i, d \in Inodes, k \in Positions : IsIn(i, d, k)' => OnDisk(d)'
      BY <1>2, <1>3 DEF IsIn
    <3>2. QED
      BY <1>2, <3>1 DEF NewSound
  <2>4. CopiesExact'
    BY <1>1, QuietCopies DEF OrderInv
  <2>5. (\A q \in Procs : Grows(q))'
    BY <1>1, OneGrows DEF Masked
  <2>6. QED
    BY <2>1, <2>2, <2>3, <2>4, <2>5 DEF OrderInv
<1>6. TreeInv'
  BY <1>1, QuietTree, OneGrows DEF Masked
<1>7. QED
  BY <1>5, <1>6

(* A power failure leaves ghosts, and the rest as the disk has it.  Of what    *)
(* open was creating the part that is there is complete but for the last.     *)
LEMMA CrashTree ==
  ASSUME IInv, OrderInv, NEW m, Between(m), init_filesystem(WriteInodes(m))
  PROVE  OrderInv' /\ TreeInv'
<1>1. /\ inode_list' = m /\ disk'.inodes = m /\ disk'.blocks = disk.blocks
      /\ crashes' = crashes + 1
      /\ \A i \in Inodes : file'[i] = NULL
      /\ \A p \in Procs : call'[p].step = "idle"
  <2>1. disk' = [disk EXCEPT !.inodes = m] /\ inode_list' = disk'.inodes
    BY DEF init_filesystem, WriteInodes
  <2>2. disk \in Disk
    BY DEF IInv, TypeOK
  <2>3. QED
    BY <2>1, <2>2 DEF init_filesystem, Idle, Disk
<1>2. \A i \in Inodes :
        /\ OnDisk(i)' <=> m[i].bound
        /\ inode_list'[i].bound <=> m[i].bound
        /\ OnDisk(i) => m[i].bound
        /\ m[i].bound => inode_list[i].bound
        /\ HasBlock(m, i) => /\ HasBlock(inode_list, i)
                             /\ EntriesOf(inode_list, i)' = EntriesOf(inode_list, i)
  BY <1>1 DEF OnDisk, EntriesOf, Between
<1>3. \A i, d \in Inodes, k \in Positions :
        IsIn(i, d, k)' => IsIn(i, d, k) /\ HasBlock(m, d)
  BY <1>1, <1>2 DEF IsIn
<1>4. \A i \in Inodes : FirstFree(i) => FirstFree(i)'
  BY <1>2 DEF FirstFree
<1>5. ASSUME NEW d \in Inodes, NEW i \in Inodes, NEW k \in Positions,
             ~OnDisk(d), m[d].bound, IsIn(i, d, k), ~m[i].bound
      PROVE  FirstFree(i)'
  <2> SUFFICES ASSUME NEW j \in Inodes, ~m[j].bound PROVE i <= j
    BY <1>2 DEF FirstFree
  <2>1. FreeBehind(d, i) /\ ~OnDisk(j)
    BY <1>2, <1>5 DEF OrderInv, NewSound
  <2>2. ~(j < d)
    <3> SUFFICES ASSUME j < d PROVE FALSE
      OBVIOUS
    <3>1. inode_list[j].bound
      BY <1>2, <1>5 DEF OrderInv, NewSound
    <3>2. QED
      BY <1>5, <3>1 DEF Between, OnDisk
  <2>3. d < j
    BY <1>5, <2>2 DEF Inodes
  <2>4. QED
    BY <2>1, <2>3 DEF FreeBehind
<1>6. Packed'
  BY <1>2, <1>3 DEF OrderInv, Packed
<1>7. GhostsSound'
  <2>1. ASSUME NEW d \in Inodes, NEW i \in Inodes, NEW k \in Positions,
               m[d].bound, IsIn(i, d, k), ~m[i].bound
        PROVE  FirstFree(i)'
    <3>1. CASE OnDisk(d)
      BY <1>2, <1>4, <2>1, <3>1 DEF OrderInv, GhostsSound
    <3>2. CASE ~OnDisk(d)
      BY <1>5, <2>1, <3>2
    <3>3. QED
      BY <3>1, <3>2
  <2>2. ASSUME NEW d \in Inodes, NEW i \in Inodes, NEW e \in Inodes, NEW j \in Positions,
               NEW k \in Positions, IsIn(i, d, j), ~m[i].bound, IsIn(e, d, k), j < k
        PROVE  e = i
    <3>1. CASE OnDisk(d)
      BY <1>2, <2>2, <3>1 DEF OrderInv, GhostsSound
    <3>2. CASE ~OnDisk(d)
      <4>1. FreeBehind(d, i) /\ FreeBehind(d, e)
        BY <2>2, <3>2 DEF OrderInv, NewSound
      <4>2. i <= e /\ e <= i
        BY <4>1 DEF FreeBehind
      <4>3. QED
        BY <4>2 DEF Inodes
    <3>3. QED
      BY <3>1, <3>2
  <2>3. QED
    BY <1>2, <1>3, <2>1, <2>2 DEF GhostsSound
<1>8. NewSound'
  BY <1>2, <1>3 DEF NewSound
<1>9. CopiesExact'
  BY <1>1 DEF OrderInv, CopiesExact, Between
<1>10. (\A p \in Procs : Grows(p))'
  BY <1>1 DEF Grows
<1>11. TreeInv'
  <2>1. crashes' # 0
    BY <1>1 DEF IInv, TypeOK
  <2>2. QED
    BY <2>1 DEF TreeInv
<1>12. QED
  BY <1>6, <1>7, <1>8, <1>9, <1>10, <1>11 DEF OrderInv


(* An inode that is bound is in no directory, or is the ghost of its number.  *)
LEMMA BindInodeTree ==
  ASSUME PREEMPT = FALSE, IInv, OrderInv, TreeInv, NEW p \in Procs, BindInode(p)
  PROVE  OrderInv' /\ TreeInv'
<1>1. PICK n \in Inodes : Binds(p, n)
  BY BindInodeStep
<1>2. PICK d : d = call[p].inode
  OBVIOUS
<1>3. /\ n # ROOT /\ ~inode_list[n].bound /\ ~OnDisk(n)
      /\ d \in Inodes /\ d # n /\ inode_list[d].bound
      /\ \A i \in Inodes : ~inode_list[i].bound => n <= i
  <2>1. ~inode_list[n].bound /\ d \in Inodes /\ inode_list[d].bound
        /\ \A i \in Inodes : ~inode_list[i].bound => n <= i
    BY <1>1, <1>2 DEF Binds
  <2>2. ~OnDisk(n)
    BY <2>1, InMemory DEF IInv
  <2>3. n # ROOT
    BY <2>2 DEF IInv, InodesSound, OnDisk
  <2>4. QED
    BY <2>1, <2>2, <2>3
<1>4. /\ \A i \in Inodes : OnDisk(i)' <=> OnDisk(i)
      /\ \A i \in Inodes : FirstFree(i)' <=> FirstFree(i)
      /\ \A i, e \in Inodes : FreeBehind(e, i)' <=> FreeBehind(e, i)
      /\ inode_list'[n].bound
      /\ \A i \in Inodes \ {n} :
           /\ inode_list'[i] = inode_list[i]
           /\ EntriesOf(inode_list, i)' = EntriesOf(inode_list, i)
      /\ EntriesOf(inode_list, n)' = NoEntries
  BY <1>1 DEF Binds, OnDisk, FirstFree, FreeBehind
<1>5. /\ call[p].step = "bind" /\ call'[p].step = "enter"
      /\ call'[p].path = call[p].path /\ call'[p].inode = d /\ call'[p].block = n
      /\ \A q \in Procs \ {p} : call[q].step = "idle" /\ call'[q].step = "idle"
  BY <1>1, <1>2 DEF Binds, OthersIdle, Idle
<1>6. \A i, e \in Inodes, k \in Positions : IsIn(i, e, k)' <=> IsIn(i, e, k)
  <2> SUFFICES ASSUME NEW i \in Inodes, NEW e \in Inodes, NEW k \in Positions
               PROVE  IsIn(i, e, k)' <=> IsIn(i, e, k)
    OBVIOUS
  <2>1. CASE e = n
    BY <1>3, <1>4, <2>1 DEF IsIn, NoEntries, ROOT
  <2>2. CASE e # n
    BY <1>4, <2>2 DEF IsIn
  <2>3. QED
    BY <2>1, <2>2
<1>7. \A e \in Inodes, k \in Positions, b \in Blocks :
        HasData(e, k, b)' <=> HasData(e, k, b)
  <2> SUFFICES ASSUME NEW e \in Inodes, NEW k \in Positions, NEW b \in Blocks
               PROVE  HasData(e, k, b)' <=> HasData(e, k, b)
    OBVIOUS
  <2>1. CASE e = n
    BY <1>3, <1>4, <2>1, Numbers DEF HasData, NoEntries
  <2>2. CASE e # n
    BY <1>4, <2>2 DEF HasData
  <2>3. QED
    BY <2>1, <2>2
<1>8. Grows(p)
  BY DEF OrderInv
<1>9. OrderInv'
  <2>1. Packed'
    <3> SUFFICES ASSUME NEW e \in Inodes, NEW i \in Inodes, NEW j \in Positions,
                        NEW k \in Positions, IsIn(i, e, k)', j < k
                 PROVE  EntriesOf(inode_list, e)'[j] # 0
      BY DEF Packed
    <3>1. IsIn(i, e, k) /\ e # n
      BY <1>3, <1>6 DEF IsIn
    <3>2. QED
      BY <1>4, <3>1 DEF OrderInv, Packed
  <2>2. GhostsSound'
    BY <1>4, <1>6 DEF OrderInv, GhostsSound
  <2>3. NewSound'
    <3>1. \A e, i \in Inodes, k \in Positions :
            ~OnDisk(e)' /\ IsIn(i, e, k)' => inode_list'[i].bound /\ FreeBehind(e, i)'
      BY <1>4, <1>6 DEF OrderInv, NewSound
    <3>2. ASSUME NEW i \in Inodes, NEW j \in Inodes, inode_list'[j].bound, ~OnDisk(j), i < j
          PROVE  inode_list'[i].bound
      <4>1. CASE j = n
        <5>1. inode_list[i].bound
          BY <1>3, <3>2, <4>1 DEF Inodes
        <5>2. QED
          BY <1>4, <5>1
      <4>2. CASE j # n
        BY <1>4, <3>2, <4>2 DEF OrderInv, NewSound
      <4>3. QED
        BY <4>1, <4>2
    <3>3. QED
      BY <1>4, <1>5, <3>1, <3>2 DEF NewSound, Masked
  <2>4. CopiesExact'
    <3>1. file' = file /\ disk'.inodes = disk.inodes
      BY <1>1 DEF Binds
    <3>2. \A i \in Inodes : file[i] # NULL => i # n
      BY <1>3 DEF IInv, CacheSound
    <3>3. QED
      BY <1>3, <1>4, <3>1, <3>2, Numbers DEF OrderInv, CopiesExact
  <2>5. Grows(p)'
    <3>1. inode_list'[d].type = "DIRECTORY"
      BY <1>2, <1>3, <1>4, <1>5, <1>8 DEF Grows
    <3>2. ~OnDisk(n)'
      BY <1>3, <1>4
    <3>3. OnDisk(d)' => FirstFree(n)'
      <4> SUFFICES ASSUME OnDisk(d) PROVE FirstFree(n)
        BY <1>3, <1>4
      <4>1. \A j \in Inodes : inode_list[j].bound => OnDisk(j)
        BY <1>2, <1>5, <1>8 DEF Grows
      <4>2. QED
        BY <1>3, <4>1 DEF FirstFree
    <3>4. Newest(n)'
      <4> SUFFICES ASSUME NEW j \in Inodes, inode_list'[j].bound, ~OnDisk(j), j # n
                   PROVE  j <= n
        BY <1>4 DEF Newest, Inodes
      <4>1. ~(n < j)
        BY <1>3, <1>4 DEF OrderInv, NewSound
      <4>2. QED
        BY <4>1 DEF Inodes
    <3>5. ~OnDisk(d)' => FreeBehind(d, n)'
      <4> SUFFICES ASSUME ~OnDisk(d) PROVE FreeBehind(d, n)
        BY <1>3, <1>4
      <4>1. ~(n < d) /\ Newest(d)
        BY <1>2, <1>3, <1>5, <1>8 DEF OrderInv, NewSound, Grows
      <4>2. d < n
        BY <1>3, <4>1 DEF Inodes
      <4>3. ASSUME NEW j \in Inodes, ~OnDisk(j), d < j
            PROVE  n <= j
        <5>1. ~inode_list[j].bound
          BY <1>3, <4>1, <4>3 DEF Newest, Inodes
        <5>2. QED
          BY <1>3, <5>1
      <4>4. QED
        BY <1>3, <4>2, <4>3 DEF FreeBehind
    <3>6. QED
      BY <1>5, <3>1, <3>2, <3>3, <3>4, <3>5 DEF Grows
  <2>6. QED
    BY <1>5, <2>1, <2>2, <2>3, <2>4, <2>5, OneGrows DEF OrderInv
<1>10. TreeInv'
  <2> SUFFICES ASSUME crashes' = 0
               PROVE  DirectoriesSound' /\ EntriesSound' /\ (\A q \in Procs : NewName(q))'
    BY DEF TreeInv
  <2>1. DirectoriesSound /\ EntriesSound /\ NewName(p)
    BY <1>1 DEF TreeInv, Binds
  <2>2. \A i \in Inodes : ~Loose(i) /\ (Loose(i)' <=> i = n)
    BY <1>5 DEF Loose
  <2>3. \A i, e \in Inodes, k \in Positions : IsIn(i, e, k) =>
          i # n /\ e # n /\ inode_list[i].bound /\ inode_list[e].type = "DIRECTORY"
    BY <1>3, <2>1 DEF DirectoriesSound, IsIn
  <2>4. DirectoriesSound'
    <3>1. \A e, i \in Inodes, k \in Positions : IsIn(i, e, k)' =>
            inode_list'[e].type = "DIRECTORY" /\ inode_list'[i].bound /\ ~Loose(i)'
      BY <1>4, <1>6, <2>2, <2>3
    <3>2. \A e \in Inodes, k \in Positions, b \in Blocks :
            HasData(e, k, b)' => inode_list'[e].type # "DIRECTORY"
      <4> SUFFICES ASSUME NEW e \in Inodes, NEW k \in Positions, NEW b \in Blocks,
                          HasData(e, k, b)
                   PROVE  inode_list'[e].type # "DIRECTORY"
        BY <1>7
      <4>1. e # n
        BY <1>3 DEF HasData
      <4>2. QED
        BY <1>4, <2>1, <4>1 DEF DirectoriesSound
    <3>3. QED
      BY <3>1, <3>2 DEF DirectoriesSound
  <2>5. EntriesSound'
    <3>1. \A i \in Inodes \ {ROOT} : inode_list'[i].bound =>
            Loose(i)' \/ \E e \in Inodes, k \in Positions : IsIn(i, e, k)'
      BY <1>4, <1>6, <2>1, <2>2 DEF EntriesSound
    <3>2. \A i, e, f \in Inodes, k, l \in Positions :
            IsIn(i, e, k)' /\ IsIn(i, f, l)' => e = f /\ k = l
      BY <1>6, <2>1 DEF EntriesSound
    <3>3. \A i, j, e \in Inodes, k, l \in Positions :
            IsIn(i, e, k)' /\ IsIn(j, e, l)' /\ inode_list'[i].name = inode_list'[j].name
              => i = j
      BY <1>4, <1>6, <2>1, <2>3 DEF EntriesSound
    <3>4. QED
      BY <3>1, <3>2, <3>3 DEF EntriesSound
  <2>6. NewName(p)'
    <3>1. \A i \in Inodes, k \in Positions :
            IsIn(i, d, k)' => inode_list'[i].name # Head(call[p].path)
      <4>1. \A i \in Inodes, k \in Positions :
              IsIn(i, d, k) => inode_list[i].name # Head(call[p].path)
        BY <1>2, <1>5, <2>1 DEF NewName
      <4>2. \A i \in Inodes, k \in Positions :
              IsIn(i, d, k) => inode_list'[i].name = inode_list[i].name
        BY <1>3, <1>4, <2>3
      <4>3. QED
        BY <1>3, <1>6, <4>1, <4>2
    <3>2. inode_list'[n].name = Head(call[p].path)
      BY <1>1 DEF Binds
    <3>3. QED
      BY <1>3, <1>5, <3>1, <3>2 DEF NewName
  <2>7. QED
    BY <1>5, <2>4, <2>5, <2>6, OneGrows
<1>11. QED
  BY <1>9, <1>10


(* A directory has room for every inode but the root and itself.              *)
LEMMA Room ==
  ASSUME IInv, DirectoriesSound, EntriesSound, NEW h \in Inodes, HasBlock(inode_list, h),
         inode_list[h].type = "DIRECTORY", NEW i \in Inodes \ {ROOT}, Loose(i)
  PROVE  \E k \in Positions : EntriesOf(inode_list, h)[k] = 0
<1> SUFFICES ASSUME \A k \in Positions : EntriesOf(inode_list, h)[k] # 0
             PROVE  FALSE
  OBVIOUS
<1> DEFINE S == Inodes \ {ROOT, i}
           f == [k \in Positions |-> EntriesOf(inode_list, h)[k]]
<1>1. \A k \in Positions : f[k] \in S /\ IsIn(f[k], h, k)
  <2> SUFFICES ASSUME NEW k \in Positions PROVE f[k] \in S /\ IsIn(f[k], h, k)
    OBVIOUS
  <2>1. inode_list[h].address_block \in Blocks /\ disk.blocks \in [Blocks -> Entries]
    BY DEF IInv, InodesSound, TypeOK, Disk
  <2>2. EntriesOf(inode_list, h)[k] \in Blocks \cup Inodes
    BY <2>1 DEF EntriesOf, Entries
  <2>3. EntriesOf(inode_list, h)[k] \notin Blocks
    BY DEF DirectoriesSound, HasData
  <2>4. IsIn(f[k], h, k)
    BY <2>2, <2>3 DEF IsIn, ROOT
  <2>5. f[k] # i
    BY <2>4 DEF DirectoriesSound
  <2>6. QED
    BY <2>4, <2>5 DEF IsIn
<1>2. IsFiniteSet(S) /\ Cardinality(S) = INODES - 2
  <2>1. IsFiniteSet(Inodes) /\ Cardinality(Inodes) = INODES
    <3>1. 0 \in Int /\ INODES - 1 \in Int /\ ~(0 > INODES - 1)
      BY LengthsAssumption
    <3>2. IsFiniteSet(0 .. INODES - 1) /\ Cardinality(0 .. INODES - 1) = INODES - 1 - 0 + 1
      BY <3>1, FS_Interval
    <3>3. QED
      BY <3>2, LengthsAssumption DEF Inodes
  <2>2. IsFiniteSet(Inodes \ {ROOT}) /\ Cardinality(Inodes \ {ROOT}) = INODES - 1
    BY <2>1, Numbers, FS_RemoveElement
  <2>3. /\ IsFiniteSet((Inodes \ {ROOT}) \ {i})
        /\ Cardinality((Inodes \ {ROOT}) \ {i}) = INODES - 1 - 1
    BY <2>2, FS_RemoveElement
  <2>4. S = (Inodes \ {ROOT}) \ {i}
    OBVIOUS
  <2> HIDE DEF S
  <2>5. QED
    BY <2>3, <2>4, LengthsAssumption
<1>3. IsFiniteSet(Positions) /\ Cardinality(Positions) = LENGTH
  <2>1. 1 \in Int /\ LENGTH \in Int
    BY LengthsAssumption
  <2>2. /\ IsFiniteSet(1 .. LENGTH)
        /\ Cardinality(1 .. LENGTH) = IF 1 > LENGTH THEN 0 ELSE LENGTH - 1 + 1
    BY <2>1, FS_Interval
  <2>3. QED
    BY <2>2, LengthsAssumption DEF Positions
<1>4. f \in [Positions -> S]
  <2> HIDE DEF S
  <2>1. QED
    BY <1>1
<1>5. PICK k, l \in Positions : k # l /\ f[k] = f[l]
  <2>1. Cardinality(S) < Cardinality(Positions)
    BY <1>2, <1>3, LengthsAssumption
  <2> HIDE DEF S, f
  <2>2. QED
    BY <1>2, <1>3, <1>4, <2>1, FS_PigeonHole
<1>6. IsIn(f[k], h, k) /\ IsIn(f[k], h, l) /\ f[k] \in Inodes
  BY <1>1, <1>5
<1>7. QED
  BY <1>5, <1>6 DEF EntriesSound

(* The new inode is the last one of its directory.                            *)
LEMMA EnterInodeTree ==
  ASSUME PREEMPT = FALSE, IInv, OrderInv, TreeInv, NEW p \in Procs, EnterInode(p)
  PROVE  OrderInv' /\ TreeInv'
<1>0. PICK h, i \in Inodes : \E m \in 0 .. LENGTH : Enters(p, h, i, m)
  BY EnterInodeStep
<1>1. PICK m \in 0 .. LENGTH : Enters(p, h, i, m)
  BY <1>0
<1> DEFINE e == EntriesOf(inode_list, h)
<1>2. /\ call[p].step = "enter" /\ call[p].inode = h /\ call[p].block = i
      /\ HasBlock(inode_list, h) /\ i # h /\ HasBlock(inode_list, i)
      /\ EntriesOf(inode_list, i) = NoEntries
      /\ call'[p].step \in {"list", "name"} /\ call'[p].inode = i
      /\ call'[p].step = "name" => inode_list'[i].type = "DIRECTORY"
      /\ \A q \in Procs \ {p} : call[q].step = "idle" /\ call'[q].step = "idle"
  <2>1. /\ call[p].step = "enter" /\ call[p].inode = h /\ call[p].block = i
        /\ HasBlock(inode_list, h) /\ i # h /\ HasBlock(inode_list, i)
        /\ EntriesOf(inode_list, i) = NoEntries
    BY <1>1 DEF Enters
  <2>2. PICK rest :
          /\ call'[p].step = (IF rest = <<>> THEN "list" ELSE "name")
          /\ call'[p].inode = i
          /\ rest # <<>> => inode_list'[i].type = "DIRECTORY"
    BY <1>1 DEF Enters
  <2>3. call'[p].step \in {"list", "name"}
        /\ (call'[p].step = "name" => inode_list'[i].type = "DIRECTORY")
    BY <2>2
  <2>4. \A q \in Procs \ {p} : call[q].step = "idle" /\ call'[q].step = "idle"
    BY <1>1 DEF Enters, OthersIdle, Idle
  <2>5. QED
    BY <2>1, <2>2, <2>3, <2>4
<1>3. /\ \A j \in Inodes : OnDisk(j)' <=> OnDisk(j)
      /\ \A j \in Inodes : FirstFree(j)' <=> FirstFree(j)
      /\ \A j, d \in Inodes : FreeBehind(d, j)' <=> FreeBehind(d, j)
      /\ \A j \in Inodes : Newest(j)' <=> Newest(j)
      /\ \A j \in Inodes :
           /\ inode_list'[j].bound = inode_list[j].bound
           /\ inode_list'[j].name = inode_list[j].name
           /\ inode_list'[j].address_block = inode_list[j].address_block
           /\ j # i => inode_list'[j].type = inode_list[j].type
           /\ HasBlock(inode_list, j) /\ j # h =>
                EntriesOf(inode_list, j)' = EntriesOf(inode_list, j)
  BY <1>1 DEF Enters, OnDisk, FirstFree, FreeBehind, Newest
<1>4. /\ \A k \in Positions : EntriesOf(inode_list, h)'[k] = IF k = m THEN i ELSE e[k]
      /\ m # 0 => m \in Positions /\ e[m] = 0
      /\ \A k \in Positions : m = 0 \/ k < m => e[k] # 0
  BY <1>1 DEF Enters, EntersAt
<1>5. /\ inode_list[h].type = "DIRECTORY" /\ ~OnDisk(i) /\ i # ROOT
      /\ OnDisk(h) => FirstFree(i)
      /\ ~OnDisk(h) => FreeBehind(h, i)
      /\ Newest(i)
  <2>1. Grows(p) /\ OnDisk(ROOT)
    BY DEF OrderInv, IInv, InodesSound, OnDisk
  <2>2. QED
    BY <1>2, <2>1 DEF Grows
<1>6. \A j, d \in Inodes, k \in Positions :
        IsIn(j, d, k)' <=> IsIn(j, d, k) \/ (j = i /\ d = h /\ k = m)
  <2> SUFFICES ASSUME NEW j \in Inodes, NEW d \in Inodes, NEW k \in Positions
               PROVE  IsIn(j, d, k)' <=> IsIn(j, d, k) \/ (j = i /\ d = h /\ k = m)
    OBVIOUS
  <2>1. CASE d # h
    BY <1>3, <2>1 DEF IsIn
  <2>2. CASE d = h /\ k # m
    BY <1>2, <1>3, <1>4, <2>2 DEF IsIn
  <2>3. CASE d = h /\ k = m
    <3>1. e[k] = 0
      BY <1>4, <2>3 DEF Positions
    <3>2. ~IsIn(j, d, k)
      BY <2>3, <3>1 DEF IsIn, ROOT
    <3>3. IsIn(j, d, k)' <=> j = i
      BY <1>2, <1>3, <1>4, <1>5, <2>3 DEF IsIn
    <3>4. QED
      BY <2>3, <3>2, <3>3
  <2>4. QED
    BY <2>1, <2>2, <2>3
<1>7. \A d \in Inodes, k \in Positions, b \in Blocks :
        HasData(d, k, b)' => HasData(d, k, b)
  <2> SUFFICES ASSUME NEW d \in Inodes, NEW k \in Positions, NEW b \in Blocks, HasData(d, k, b)'
               PROVE  HasData(d, k, b)
    OBVIOUS
  <2>1. CASE d = h /\ k = m
    BY <1>4, <2>1, Numbers DEF HasData
  <2>2. CASE d = h /\ k # m
    BY <1>2, <1>4, <2>2 DEF HasData
  <2>3. CASE d # h
    BY <1>3, <2>3 DEF HasData
  <2>4. QED
    BY <2>1, <2>2, <2>3
<1> HIDE DEF e
<1>8. OrderInv'
  <2>1. Packed'
    <3> SUFFICES ASSUME NEW d \in Inodes, NEW g \in Inodes, NEW j \in Positions,
                        NEW k \in Positions, IsIn(g, d, k)', j < k
                 PROVE  EntriesOf(inode_list, d)'[j] # 0
      BY DEF Packed
    <3>1. CASE d = h /\ k = m
      <4>1. e[j] # 0 /\ j # m
        BY <1>4, <3>1 DEF Positions
      <4>2. QED
        BY <1>4, <3>1, <4>1
    <3>2. CASE ~(d = h /\ k = m)
      <4>1. IsIn(g, d, k)
        BY <1>6, <3>2
      <4>2. EntriesOf(inode_list, d)[j] # 0 /\ HasBlock(inode_list, d)
        BY <4>1 DEF OrderInv, Packed, IsIn
      <4>3. CASE d = h
        <5>1. EntriesOf(inode_list, d)'[j] = IF j = m THEN i ELSE e[j]
          BY <1>4, <4>3
        <5>2. QED
          BY <1>5, <4>2, <4>3, <5>1 DEF e, ROOT
      <4>4. CASE d # h
        BY <1>3, <4>2, <4>4
      <4>5. QED
        BY <4>3, <4>4
    <3>3. QED
      BY <3>1, <3>2
  <2>2. GhostsSound'
    <3>1. \A d, g \in Inodes, k \in Positions :
            OnDisk(d) /\ IsIn(g, d, k)' /\ ~OnDisk(g) => FirstFree(g)
      BY <1>5, <1>6 DEF OrderInv, GhostsSound
    <3>2. ASSUME NEW d \in Inodes, NEW g \in Inodes, NEW f \in Inodes,
                 NEW j \in Positions, NEW k \in Positions,
                 OnDisk(d), IsIn(g, d, j)', ~OnDisk(g), IsIn(f, d, k)', j < k
          PROVE  f = g
      <4>1. CASE d = h /\ j = m
        <5>1. IsIn(f, h, k)
          BY <1>6, <3>2, <4>1 DEF Positions
        <5>2. e[m] # 0
          BY <3>2, <4>1, <5>1 DEF OrderInv, Packed, e
        <5>3. QED
          BY <1>4, <4>1, <5>2 DEF Positions
      <4>2. CASE d = h /\ k = m
        <5>1. f = i
          <6>1. ~IsIn(f, d, k)
            BY <1>4, <4>2 DEF IsIn, ROOT, e, Positions
          <6>2. QED
            BY <1>6, <3>2, <6>1
        <5>2. FirstFree(g) /\ FirstFree(i)
          BY <1>5, <3>1, <3>2, <4>2
        <5>3. i <= g /\ g <= i
          BY <1>5, <3>2, <5>2 DEF FirstFree
        <5>4. QED
          BY <5>1, <5>3 DEF Inodes
      <4>3. CASE ~(d = h /\ j = m) /\ ~(d = h /\ k = m)
        BY <1>6, <3>2, <4>3 DEF OrderInv, GhostsSound
      <4>4. QED
        BY <4>1, <4>2, <4>3
    <3>3. QED
      BY <1>3, <3>1, <3>2 DEF GhostsSound
  <2>3. NewSound'
    <3>1. \A d, g \in Inodes, k \in Positions :
            ~OnDisk(d) /\ IsIn(g, d, k)' => inode_list[g].bound /\ FreeBehind(d, g)
      BY <1>2, <1>5, <1>6 DEF OrderInv, NewSound
    <3>2. QED
      BY <1>2, <1>3, <3>1 DEF OrderInv, NewSound, Masked
  <2>4. CopiesExact'
    <3>1. file' = file /\ disk'.inodes = disk.inodes
      BY <1>1 DEF Enters
    <3>2. \A j \in Inodes : file[j] # NULL => j # h /\ HasBlock(inode_list, j)
      BY <1>5 DEF IInv, CacheSound
    <3>3. QED
      BY <1>3, <1>5, <3>1, <3>2, Numbers DEF OrderInv, CopiesExact
  <2>5. Grows(p)'
    BY <1>2, <1>3, <1>5 DEF Grows
  <2>6. QED
    BY <1>2, <2>1, <2>2, <2>3, <2>4, <2>5, OneGrows DEF OrderInv
<1>9. TreeInv'
  <2> SUFFICES ASSUME crashes' = 0
               PROVE  DirectoriesSound' /\ EntriesSound' /\ (\A q \in Procs : NewName(q))'
    BY DEF TreeInv
  <2>1. DirectoriesSound /\ EntriesSound /\ NewName(p)
    BY <1>1 DEF TreeInv, Enters
  <2>2. \A j \in Inodes : (Loose(j) <=> j = i) /\ ~Loose(j)'
    BY <1>2 DEF Loose
  <2>3. m # 0
    BY <1>2, <1>4, <1>5, <2>1, <2>2, Room DEF e
  <2>4. \A j, d \in Inodes, k \in Positions : IsIn(j, d, k) =>
          /\ j # i /\ d # i /\ inode_list[j].bound
          /\ inode_list[d].type = "DIRECTORY"
    BY <1>2, <2>1, <2>2 DEF DirectoriesSound, IsIn, NoEntries, ROOT
  <2>5. DirectoriesSound'
    <3>1. \A d, j \in Inodes, k \in Positions : IsIn(j, d, k)' =>
            inode_list'[d].type = "DIRECTORY" /\ inode_list'[j].bound /\ ~Loose(j)'
      BY <1>2, <1>3, <1>5, <1>6, <2>2, <2>4
    <3>2. \A d \in Inodes, k \in Positions, b \in Blocks :
            HasData(d, k, b)' => inode_list'[d].type # "DIRECTORY"
      <4> SUFFICES ASSUME NEW d \in Inodes, NEW k \in Positions, NEW b \in Blocks,
                          HasData(d, k, b)
                   PROVE  inode_list'[d].type # "DIRECTORY"
        BY <1>7
      <4>1. d # i
        BY <1>2, Numbers DEF HasData, NoEntries
      <4>2. QED
        BY <1>3, <2>1, <4>1 DEF DirectoriesSound
    <3>3. QED
      BY <3>1, <3>2 DEF DirectoriesSound
  <2>6. EntriesSound'
    <3>1. ASSUME NEW j \in Inodes \ {ROOT}, inode_list'[j].bound
          PROVE  \E d \in Inodes, k \in Positions : IsIn(j, d, k)'
      <4>1. CASE j = i
        BY <1>4, <1>6, <2>3, <4>1
      <4>2. CASE j # i
        BY <1>3, <1>6, <2>1, <2>2, <3>1, <4>2 DEF EntriesSound
      <4>3. QED
        BY <4>1, <4>2
    <3>2. \A j, d, f \in Inodes, k, l \in Positions :
            IsIn(j, d, k)' /\ IsIn(j, f, l)' => d = f /\ k = l
      BY <1>6, <2>1, <2>4 DEF EntriesSound
    <3>3. ASSUME NEW j \in Inodes, NEW g \in Inodes, NEW d \in Inodes, NEW k \in Positions,
                 NEW l \in Positions, IsIn(j, d, k)', IsIn(g, d, l)',
                 inode_list'[j].name = inode_list'[g].name
          PROVE  j = g
      <4>1. inode_list[j].name = inode_list[g].name
        BY <1>3, <3>3
      <4>2. inode_list[i].name = Head(call[p].path)
            /\ \A c \in Inodes, q \in Positions :
                 IsIn(c, h, q) => inode_list[c].name # Head(call[p].path)
        BY <1>2, <2>1 DEF NewName
      <4>3. QED
        BY <1>6, <2>1, <3>3, <4>1, <4>2 DEF EntriesSound
    <3>4. QED
      BY <3>1, <3>2, <3>3 DEF EntriesSound
  <2>7. NewName(p)'
    <3>1. \A j \in Inodes, k \in Positions : ~IsIn(j, i, k)'
      BY <1>2, <1>6, <2>4
    <3>2. QED
      BY <1>2, <3>1 DEF NewName
  <2>8. QED
    BY <1>2, <2>5, <2>6, <2>7, OneGrows
<1>10. QED
  BY <1>8, <1>9


(* A data block is no entry of a directory.                                   *)
LEMMA LinkBlockTree ==
  ASSUME PREEMPT = FALSE, IInv, OrderInv, TreeInv, NEW p \in Procs, LinkBlock(p)
  PROVE  OrderInv' /\ TreeInv'
<1>1. PICK i \in Inodes, m \in Positions, b \in Blocks : Links(p, i, m, b)
  BY LinkBlockStep
<1>2. /\ call'[p].step \notin Masked /\ call[p].step = "link"
      /\ \A q \in Procs \ {p} : call[q].step = "idle" /\ call'[q].step = "idle"
      /\ inode_list' = inode_list /\ crashes' = crashes
      /\ HasBlock(inode_list, i) /\ inode_list[i].type = "REGULAR_FILE"
      /\ disk'.inodes = disk.inodes
  BY <1>1 DEF Links, OthersIdle, Idle
<1>3. /\ file[i] = EntriesOf(inode_list, i) /\ file[i][m] = 0
      /\ EntriesOf(inode_list, i)' = file'[i]
      /\ \A k \in Positions : file'[i][k] = IF k = m THEN b ELSE file[i][k]
      /\ \A j \in Inodes \ {i} :
           /\ file'[j] = file[j]
           /\ HasBlock(inode_list, j) => EntriesOf(inode_list, j)' = EntriesOf(inode_list, j)
  BY <1>1 DEF Links, OrderInv, CopiesExact
<1>4. \A j \in Inodes : /\ OnDisk(j)' <=> OnDisk(j)
                        /\ FirstFree(j)' <=> FirstFree(j)
                        /\ \A d \in Inodes : FreeBehind(d, j)' <=> FreeBehind(d, j)
                        /\ inode_list'[j] = inode_list[j]
  BY <1>2 DEF OnDisk, FirstFree, FreeBehind
<1>5. b # 0 /\ b \notin Inodes
  BY Numbers
<1>6. \A j, d \in Inodes, k \in Positions : IsIn(j, d, k)' <=> IsIn(j, d, k)
  <2> SUFFICES ASSUME NEW j \in Inodes, NEW d \in Inodes, NEW k \in Positions
               PROVE  IsIn(j, d, k)' <=> IsIn(j, d, k)
    OBVIOUS
  <2>1. CASE d = i /\ k = m
    BY <1>3, <1>5, <2>1 DEF IsIn, ROOT
  <2>2. CASE d = i /\ k # m
    BY <1>3, <1>4, <2>2 DEF IsIn
  <2>3. CASE d # i
    BY <1>3, <1>4, <2>3 DEF IsIn
  <2>4. QED
    BY <2>1, <2>2, <2>3
<1>7. OrderInv'
  <2>1. Packed'
    <3> SUFFICES ASSUME NEW d \in Inodes, NEW g \in Inodes, NEW j \in Positions,
                        NEW k \in Positions, IsIn(g, d, k), j < k
                 PROVE  EntriesOf(inode_list, d)'[j] # 0
      BY <1>6 DEF Packed
    <3>1. EntriesOf(inode_list, d)[j] # 0 /\ HasBlock(inode_list, d)
      BY DEF OrderInv, Packed, IsIn
    <3>2. CASE d = i
      BY <1>3, <1>5, <3>1, <3>2
    <3>3. CASE d # i
      BY <1>3, <3>1, <3>3
    <3>4. QED
      BY <3>2, <3>3
  <2>2. GhostsSound'
    BY <1>4, <1>6 DEF OrderInv, GhostsSound
  <2>3. NewSound'
    <3>1. \A q \in Procs : call[q].step \notin Masked
      BY <1>2 DEF Masked
    <3>2. QED
      BY <1>4, <1>6, <3>1 DEF OrderInv, NewSound
  <2>4. CopiesExact'
    <3>1. \A j \in Inodes : file[j] # NULL => HasBlock(inode_list, j)
      BY DEF IInv, CacheSound
    <3>2. QED
      BY <1>2, <1>3, <3>1 DEF OrderInv, CopiesExact
  <2>5. (\A q \in Procs : Grows(q))'
    BY <1>2, OneGrows
  <2>6. QED
    BY <2>1, <2>2, <2>3, <2>4, <2>5 DEF OrderInv
<1>8. TreeInv'
  <2> SUFFICES ASSUME crashes' = 0
               PROVE  DirectoriesSound' /\ EntriesSound' /\ (\A q \in Procs : NewName(q))'
    BY DEF TreeInv
  <2>1. DirectoriesSound /\ EntriesSound
    BY <1>2 DEF TreeInv
  <2>2. \A j \in Inodes : ~Loose(j) /\ ~Loose(j)'
    BY <1>2 DEF Loose, Masked
  <2>3. DirectoriesSound'
    <3>1. \A d \in Inodes, k \in Positions, a \in Blocks :
            HasData(d, k, a)' => inode_list'[d].type # "DIRECTORY"
      <4> SUFFICES ASSUME NEW d \in Inodes, NEW k \in Positions, NEW a \in Blocks,
                          HasData(d, k, a)', d # i
                   PROVE  inode_list[d].type # "DIRECTORY"
        BY <1>2
      <4>1. HasData(d, k, a)
        BY <1>3, <1>4 DEF HasData
      <4>2. QED
        BY <2>1, <4>1 DEF DirectoriesSound
    <3>2. QED
      BY <1>4, <1>6, <2>1, <2>2, <3>1 DEF DirectoriesSound
  <2>4. EntriesSound'
    BY <1>4, <1>6, <2>1, <2>2 DEF EntriesSound
  <2>5. QED
    BY <1>2, <2>3, <2>4, OneGrows
<1>9. QED
  BY <1>7, <1>8

LEMMA StutterTree ==
  ASSUME OrderInv, TreeInv, UNCHANGED vars
  PROVE  OrderInv' /\ TreeInv'
<1>1. UNCHANGED <<inode_list, disk, file, call, crashes>>
  BY DEF vars, tables
<1>2. /\ \A i \in Inodes : (OnDisk(i)' <=> OnDisk(i)) /\ (FirstFree(i)' <=> FirstFree(i))
      /\ \A i, d \in Inodes : FreeBehind(d, i)' <=> FreeBehind(d, i)
      /\ \A i \in Inodes : Loose(i)' <=> Loose(i)
      /\ \A i, d \in Inodes, k \in Positions : IsIn(i, d, k)' <=> IsIn(i, d, k)
      /\ \A i \in Inodes, k \in Positions, b \in Blocks :
           HasData(i, k, b)' <=> HasData(i, k, b)
  BY <1>1 DEF OnDisk, FirstFree, FreeBehind, Loose, IsIn, HasData, EntriesOf
<1>3. OrderInv'
  <2>1. Packed' /\ GhostsSound'
    BY <1>1, <1>2 DEF OrderInv, Packed, GhostsSound, EntriesOf
  <2>2. NewSound' /\ CopiesExact'
    BY <1>1, <1>2 DEF OrderInv, NewSound, CopiesExact, EntriesOf
  <2>3. (\A p \in Procs : Grows(p))'
    BY <1>1 DEF OrderInv, Grows, OnDisk, FirstFree, FreeBehind, Newest
  <2>4. QED
    BY <2>1, <2>2, <2>3 DEF OrderInv
<1>4. TreeInv'
  <2>1. crashes = 0 => DirectoriesSound' /\ EntriesSound'
    BY <1>1, <1>2 DEF TreeInv, DirectoriesSound, EntriesSound
  <2>2. crashes = 0 => (\A p \in Procs : NewName(p))'
    BY <1>1 DEF TreeInv, NewName, IsIn, EntriesOf
  <2>3. QED
    BY <1>1, <2>1, <2>2 DEF TreeInv
<1>5. QED
  BY <1>3, <1>4

(* The invariant of the tree is inductive.                                    *)
LEMMA NextTree ==
  ASSUME PREEMPT = FALSE, THROUGH_FILES = FALSE, IInv, OrderInv, TreeInv, [Next]_vars
  PROVE  OrderInv' /\ TreeInv'
<1>1. ASSUME NEW p \in Procs, NEW path \in Paths, open(p, path)
      PROVE  OrderInv' /\ TreeInv'
  <2>1. call[p].step \notin Masked
    BY <1>1 DEF open, Idle, Masked
  <2>2. QED
    BY <1>1, <2>1, OpenStep, QuietStep
<1>2. ASSUME NEW p \in Procs, NEW path \in Paths, opendir(p, path)
      PROVE  OrderInv' /\ TreeInv'
  <2>1. call[p].step \notin Masked
    BY <1>2 DEF opendir, Idle, Masked
  <2>2. QED
    BY <1>2, <2>1, OpendirStep, QuietStep
<1>3. ASSUME NEW p \in Procs, NEW blocks \in 1 .. LENGTH, NEW extends \in BOOLEAN,
             write(p, blocks, extends)
      PROVE  OrderInv' /\ TreeInv'
  <2>1. call[p].step \notin Masked
    BY <1>3 DEF write, Idle, Masked
  <2>2. QED
    BY <1>3, <2>1, WriteStep, QuietStep
<1>4. ASSUME NEW p \in Procs, WriteBlock(p)
      PROVE  OrderInv' /\ TreeInv'
  <2>1. call[p].step \notin Masked
    BY <1>4 DEF WriteBlock, Masked
  <2>2. QED
    BY <1>4, <2>1, WriteBlockStep, QuietStep
<1>5. ASSUME NEW p \in Procs, MarkBlock(p)
      PROVE  OrderInv' /\ TreeInv'
  <2>1. call[p].step \notin Masked
    BY <1>5 DEF MarkBlock, Masked
  <2>2. QED
    BY <1>5, <2>1, MarkBlockStep, QuietStep
<1>6. ASSUME NEW p \in Procs, close(p)
      PROVE  OrderInv' /\ TreeInv'
  <2>1. call[p].step \notin Masked
    BY <1>6 DEF close, Idle, Masked
  <2>2. QED
    BY <1>6, <2>1, CloseStep, QuietStep
<1>7. ASSUME NEW p \in Procs, NEW path \in Paths, Create(p, path)
      PROVE  OrderInv' /\ TreeInv'
  BY <1>7, CreateTree
<1>8. ASSUME NEW p \in Procs,
             WriteName(p) \/ BindInode(p) \/ EnterInode(p) \/ WriteInodeList(p) \/ LinkBlock(p)
      PROVE  OrderInv' /\ TreeInv'
  BY <1>8, WriteNameTree, BindInodeTree, EnterInodeTree, WriteInodeListTree, LinkBlockTree
<1>9. ASSUME NEW p \in Procs, NEW cut \in Cuts,
             CutInodeList(p, cut) \/ CutWrite(p, cut)
      PROVE  OrderInv' /\ TreeInv'
  BY <1>9, CrashFacts, CrashTree
<1>10. CASE PowerFails
  BY <1>10, DiskCrash, CrashTree
<1>11. CASE UNCHANGED vars
  BY <1>11, StutterTree
<1>12. QED
  BY <1>1, <1>2, <1>3, <1>4, <1>5, <1>6, <1>7, <1>8, <1>9, <1>10, <1>11 DEF Next


(* Between creations the directories are a tree: what the invariant says, in  *)
(* terms of their entries.                                                    *)
LEMMA IsTree ==
  ASSUME IInv, TreeInv
  PROVE  TreeKept
<1> SUFFICES ASSUME crashes = 0, \A p \in Procs : call[p].step \notin Masked
             PROVE  /\ {EntryAt(e) : e \in Entered}
                         = {i \in Inodes \ {ROOT} : inode_list[i].bound}
                    /\ \A e, f \in Entered : e # f =>
                         /\ EntryAt(e) # EntryAt(f)
                         /\ e[1] = f[1] =>
                              inode_list[EntryAt(e)].name # inode_list[EntryAt(f)].name
  BY DEF TreeKept
<1>1. DirectoriesSound /\ EntriesSound /\ \A i \in Inodes : ~Loose(i)
  BY DEF TreeInv, Loose, Masked
<1>2. \A e \in Entered : /\ e \in Inodes \X Positions /\ e = <<e[1], e[2]>>
                         /\ IsIn(EntryAt(e), e[1], e[2])
  <2> SUFFICES ASSUME NEW e \in Entered
               PROVE  /\ e \in Inodes \X Positions /\ e = <<e[1], e[2]>>
                      /\ IsIn(EntryAt(e), e[1], e[2])
    OBVIOUS
  <2>1. /\ e \in Inodes \X Positions /\ e = <<e[1], e[2]>>
        /\ e[1] \in Inodes /\ e[2] \in Positions
        /\ HasBlock(inode_list, e[1]) /\ inode_list[e[1]].type = "DIRECTORY"
        /\ EntriesOf(inode_list, e[1])[e[2]] # 0
    BY DEF Entered
  <2>2. inode_list[e[1]].address_block \in Blocks /\ disk.blocks \in [Blocks -> Entries]
    BY <2>1 DEF IInv, InodesSound, TypeOK, Disk
  <2>3. EntriesOf(inode_list, e[1])[e[2]] \in Blocks \cup Inodes
    BY <2>1, <2>2 DEF EntriesOf, Entries
  <2>4. EntriesOf(inode_list, e[1])[e[2]] \notin Blocks
    BY <1>1, <2>1 DEF DirectoriesSound, HasData
  <2>5. QED
    BY <2>1, <2>3, <2>4 DEF IsIn, EntryAt, ROOT
<1>3. \A d, i \in Inodes, k \in Positions : IsIn(i, d, k) =>
        <<d, k>> \in Entered /\ EntryAt(<<d, k>>) = i
  <2> SUFFICES ASSUME NEW d \in Inodes, NEW i \in Inodes, NEW k \in Positions, IsIn(i, d, k)
               PROVE  <<d, k>> \in Entered /\ EntryAt(<<d, k>>) = i
    OBVIOUS
  <2>1. inode_list[d].type = "DIRECTORY"
    BY <1>1 DEF DirectoriesSound
  <2>2. QED
    BY <2>1 DEF IsIn, Entered, EntryAt, ROOT
<1>4. {EntryAt(e) : e \in Entered} = {i \in Inodes \ {ROOT} : inode_list[i].bound}
  <2>1. ASSUME NEW e \in Entered
        PROVE  EntryAt(e) \in Inodes \ {ROOT} /\ inode_list[EntryAt(e)].bound
    <3>1. IsIn(EntryAt(e), e[1], e[2]) /\ e[1] \in Inodes /\ e[2] \in Positions
      BY <1>2, <2>1
    <3>2. EntryAt(e) \in Inodes \ {ROOT}
      BY <3>1 DEF IsIn
    <3>3. QED
      BY <1>1, <3>1, <3>2 DEF DirectoriesSound
  <2>2. ASSUME NEW i \in Inodes \ {ROOT}, inode_list[i].bound
        PROVE  \E e \in Entered : EntryAt(e) = i
    <3>1. PICK d \in Inodes, k \in Positions : IsIn(i, d, k)
      BY <1>1, <2>2 DEF EntriesSound
    <3>2. QED
      BY <1>3, <3>1
  <2>3. QED
    BY <2>1, <2>2
<1>5. ASSUME NEW e \in Entered, NEW f \in Entered, e # f
      PROVE  /\ EntryAt(e) # EntryAt(f)
             /\ e[1] = f[1] => inode_list[EntryAt(e)].name # inode_list[EntryAt(f)].name
  <2>1. /\ e[1] \in Inodes /\ e[2] \in Positions /\ f[1] \in Inodes /\ f[2] \in Positions
        /\ IsIn(EntryAt(e), e[1], e[2]) /\ IsIn(EntryAt(f), f[1], f[2])
        /\ e[1] # f[1] \/ e[2] # f[2]
    BY <1>2, <1>5
  <2>2. EntryAt(e) \in Inodes /\ EntryAt(f) \in Inodes
    BY <2>1 DEF IsIn
  <2>3. EntryAt(e) # EntryAt(f)
    BY <1>1, <2>1, <2>2 DEF EntriesSound
  <2>4. QED
    BY <1>1, <2>1, <2>2, <2>3 DEF EntriesSound
<1>6. QED
  BY <1>4, <1>5

(* Until the power fails, directories form a tree: each inode in use is once  *)
(* in one directory, and no name twice.                                       *)
THEOREM DirectoriesFormATree ==
  ASSUME PREEMPT = FALSE, THROUGH_FILES = FALSE
  PROVE  Spec => []TreeKept
<1>1. Init => IInv /\ OrderInv /\ TreeInv
  BY InitInv, InitTree
<1>2. IInv /\ OrderInv /\ TreeInv /\ [Next]_vars => IInv' /\ OrderInv' /\ TreeInv'
  <2> SUFFICES ASSUME IInv, OrderInv, TreeInv, [Next]_vars
               PROVE  IInv' /\ OrderInv' /\ TreeInv'
    OBVIOUS
  <2>1. IInv'
    BY NextInv
  <2>2. OrderInv' /\ TreeInv'
    BY NextTree
  <2>3. QED
    BY <2>1, <2>2
<1>3. IInv /\ OrderInv /\ TreeInv => TreeKept
  BY IsTree
<1>4. QED
  BY <1>1, <1>2, <1>3, PTL DEF Spec


-----------------------------------------------------------------------------
(* Files stay where they are.                                                *)

\* What directory d has on the disk is found there after a step: it has its
\* place and its name, and nothing new before it can be taken for it.
Stays(d) ==
  \A k \in Positions :
    LET e == EntriesOf(disk.inodes, d)[k]
    IN  e \in Inodes \ {0} /\ OnDisk(e) =>
          /\ EntriesOf(disk.inodes, d)'[k] = e
          /\ disk'.inodes[e].name = disk.inodes[e].name
          /\ \A j \in Positions :
               LET f == EntriesOf(disk.inodes, d)'[j]
               IN  j < k /\ f \in Inodes \ {0} =>
                     \/ disk'.inodes[f].name = NULL
                     \/ /\ EntriesOf(disk.inodes, d)[j] = f
                        /\ disk'.inodes[f].name = disk.inodes[f].name

\* Nothing is found after a step that was not there before: see Stays.
FoundStays ==
  \A d \in Inodes, name \in Names :
    HasBlock(disk.inodes, d) /\ Child(disk.inodes, d, name) # NULL =>
      Child(disk.inodes, d, name)' = Child(disk.inodes, d, name)

(* The first match stays the first match.                                     *)
LEMMA ChildStays ==
  ASSUME TypeOK, DiskFollows, InodesSound,
         \A d \in Inodes : HasBlock(disk.inodes, d) => Stays(d)
  PROVE  FoundStays
<1> SUFFICES ASSUME NEW d \in Inodes, NEW name \in Names, HasBlock(disk.inodes, d),
                    Child(disk.inodes, d, name) # NULL
             PROVE  Child(disk.inodes, d, name)' = Child(disk.inodes, d, name)
  BY DEF FoundStays
<1>0. PICK x, y, D, E : /\ x = EntriesOf(disk.inodes, d) /\ y = EntriesOf(disk.inodes, d)'
                        /\ D = disk.inodes /\ E = disk'.inodes
  OBVIOUS
<1> DEFINE here == {k \in Positions : x[k] \in Inodes \ {0} /\ D[x[k]].name = name}
           there == {k \in Positions : y[k] \in Inodes \ {0} /\ E[y[k]].name = name}
<1>1. Child(disk.inodes, d, name) = IF here = {} THEN NULL ELSE x[Min(here)]
  BY <1>0 DEF Child
<1>2. Child(disk.inodes, d, name)' = IF there = {} THEN NULL ELSE y[Min(there)]
  BY <1>0 DEF Child
<1>3. /\ here # {} => Min(here) \in here /\ \A k \in here : Min(here) <= k
      /\ there # {} => Min(there) \in there /\ \A k \in there : Min(there) <= k
  <2>1. here \in SUBSET Nat /\ there \in SUBSET Nat
    BY DEF Positions
  <2> HIDE DEF here, there
  <2>2. QED
    BY <2>1, MinExists
<1>4. PICK k \in here : k = Min(here)
  BY <1>1, <1>3
<1>5. k \in Positions /\ x[k] \in Inodes \ {0} /\ D[x[k]].name = name
  BY <1>4
<1>6. OnDisk(x[k]) /\ name # NULL
  <2>1. Unbound.name = NULL /\ name # NULL
    BY NULLAssumption DEF Unbound
  <2>2. QED
    BY <1>0, <1>5, <2>1 DEF InodesSound, OnDisk
<1>7. /\ y[k] = x[k] /\ E[x[k]].name = name
      /\ \A j \in Positions : j < k /\ y[j] \in Inodes \ {0} =>
           E[y[j]].name = NULL \/ (x[j] = y[j] /\ E[y[j]].name = D[y[j]].name)
  BY <1>0, <1>5, <1>6 DEF Stays
<1>8. k \in there
  BY <1>5, <1>7
<1>9. Min(there) = k
  <2>1. PICK j \in there : j = Min(there) /\ j <= k
    BY <1>3, <1>8
  <2>2. ~(j < k)
    <3> SUFFICES ASSUME j < k PROVE FALSE
      OBVIOUS
    <3>1. j \in Positions /\ y[j] \in Inodes \ {0} /\ E[y[j]].name = name
      BY <2>1
    <3>2. x[j] = y[j] /\ D[x[j]].name = name
      BY <1>6, <1>7, <3>1
    <3>3. j \in here /\ ~(k <= j)
      BY <1>5, <3>1, <3>2 DEF Positions
    <3>4. QED
      BY <1>3, <1>4, <3>3
  <2>3. j \in Positions
    BY <2>1
  <2>4. QED
    BY <1>5, <2>1, <2>2, <2>3 DEF Positions
<1> HIDE DEF here, there
<1>10. QED
  BY <1>1, <1>2, <1>4, <1>7, <1>8, <1>9

\* A path's inodes on the disk.
DiskWalk ==
  \A path \in Paths :
    /\ Walk(disk.inodes, path)[0] = ROOT
    /\ \A k \in 1 .. Len(path) :
         Walk(disk.inodes, path)[k] =
           IF Walk(disk.inodes, path)[k - 1] = NULL THEN NULL
           ELSE Child(disk.inodes, Walk(disk.inodes, path)[k - 1], path[k])

LEMMA DiskWalkFacts == DiskWalk
BY WalkFacts DEF DiskWalk

(* So does what a path leads to.                                              *)
LEMMA LookupStays ==
  ASSUME TypeOK, DiskFollows, InodesSound, FoundStays, DiskWalk, DiskWalk',
         NEW path \in Paths, Lookup(disk.inodes, path) # NULL
  PROVE  Lookup(disk.inodes, path)' = Lookup(disk.inodes, path)
<1>0. PICK v, w, n : /\ v = Walk(disk.inodes, path) /\ w = Walk(disk.inodes, path)'
                     /\ n = Len(path)
  OBVIOUS
<1>1. n \in 1 .. 2 /\ \A k \in 1 .. n : path[k] \in Names
  BY <1>0 DEF Paths
<1>2. /\ v[0] = ROOT /\ w[0] = ROOT
      /\ \A k \in 1 .. n :
           v[k] = IF v[k - 1] = NULL THEN NULL ELSE Child(disk.inodes, v[k - 1], path[k])
  BY <1>0 DEF DiskWalk
<1>3. ASSUME NEW k \in 1 .. n
      PROVE  w[k] = IF w[k - 1] = NULL THEN NULL ELSE Child(disk.inodes, w[k - 1], path[k])'
  BY <1>0 DEF DiskWalk
<1>4. ASSUME NEW k \in 0 .. n, v[k] # NULL
      PROVE  v[k] \in Inodes /\ HasBlock(disk.inodes, v[k])
  <2>1. Searchable(disk.inodes) /\ disk \in Disk
    BY Searches DEF TypeOK
  <2>2. QED
    BY <1>0, <1>4, <2>1, WalkBound
<1>5. ASSUME NEW k \in 1 .. n, v[k] # NULL, v[k - 1] # NULL => w[k - 1] = v[k - 1]
      PROVE  v[k - 1] # NULL /\ w[k] = v[k]
  <2>1. v[k - 1] # NULL /\ v[k] = Child(disk.inodes, v[k - 1], path[k])
    BY <1>2, <1>5
  <2>2. k - 1 \in 0 .. n
    BY <1>1
  <2>3. v[k - 1] \in Inodes /\ HasBlock(disk.inodes, v[k - 1]) /\ path[k] \in Names
    BY <1>1, <1>4, <2>1, <2>2
  <2>4. Child(disk.inodes, v[k - 1], path[k])' = v[k]
    BY <1>5, <2>1, <2>3 DEF FoundStays
  <2>5. QED
    BY <1>3, <1>5, <2>1, <2>4
<1>6. v[1] # NULL => w[1] = v[1]
  <2>1. 1 \in 1 .. n /\ 1 - 1 = 0
    BY <1>1
  <2>2. QED
    BY <1>2, <1>5, <2>1
<1>7. n = 2 /\ v[2] # NULL => w[2] = v[2]
  <2>1. n = 2 => 2 \in 1 .. n /\ 2 - 1 = 1
    OBVIOUS
  <2>2. QED
    BY <1>5, <1>6, <2>1
<1>8. Lookup(disk.inodes, path) = v[n] /\ Lookup(disk.inodes, path)' = w[n]
  BY <1>0 DEF Lookup
<1>9. n = 1 \/ n = 2
  BY <1>1
<1>10. QED
  BY <1>6, <1>7, <1>8, <1>9


(* No step gives a name away: new inodes are entered where nothing was, or    *)
(* their numbers are the last of the directories that have them.              *)
LEMMA QuietStays ==
  ASSUME IInv, OrderInv, NEW p \in Procs, Quiet(p)
  PROVE  FoundStays
<1>1. SameTree /\ DiskFollows
  BY DEF Quiet, IInv
<1>2. \A d \in Inodes : OnDisk(d) =>
        EntriesOf(disk.inodes, d)' = EntriesOf(disk.inodes, d)
  BY <1>1 DEF SameTree, EntriesOf, OnDisk, DiskFollows
<1>3. \A e \in Inodes : OnDisk(e) \/ disk'.inodes = disk.inodes =>
        disk'.inodes[e].name = disk.inodes[e].name
  BY <1>1 DEF SameTree, OnDisk, DiskFollows
<1>4. ASSUME NEW d \in Inodes, HasBlock(disk.inodes, d)
      PROVE  Stays(d)
  <2>0. OnDisk(d)
    BY <1>4 DEF OnDisk
  <2> DEFINE x == EntriesOf(disk.inodes, d)
  <2> SUFFICES ASSUME NEW k \in Positions, x[k] \in Inodes \ {0}, OnDisk(x[k]),
                      NEW j \in Positions, j < k, x[j] \in Inodes \ {0}
               PROVE  disk'.inodes[x[j]].name = disk.inodes[x[j]].name
    BY <1>2, <1>3, <2>0 DEF Stays
  <2>1. HasBlock(inode_list, d) /\ x = EntriesOf(inode_list, d)
    BY <1>1, <1>4, <2>0, InMemory DEF DiskFollows
  <2>2. IsIn(x[j], d, j) /\ IsIn(x[k], d, k)
    BY <2>1 DEF IsIn, ROOT
  <2>3. OnDisk(x[j])
    <3> SUFFICES ASSUME ~OnDisk(x[j]) PROVE FALSE
      OBVIOUS
    <3>1. x[k] = x[j]
      BY <2>0, <2>2 DEF OrderInv, GhostsSound
    <3>2. QED
      BY <3>1
  <2>4. QED
    BY <1>3, <2>3
<1>5. QED
  BY <1>1, <1>4, ChildStays DEF IInv

(* Nor does a power failure within a transfer.                                *)
LEMMA CrashStays ==
  ASSUME IInv, OrderInv, NEW m, Between(m), init_filesystem(WriteInodes(m))
  PROVE  FoundStays
<1>1. disk'.inodes = m /\ disk'.blocks = disk.blocks
  <2>1. disk' = [disk EXCEPT !.inodes = m] /\ disk \in Disk
    BY DEF init_filesystem, WriteInodes, IInv, TypeOK
  <2>2. QED
    BY <2>1 DEF Disk
<1>2. TypeOK /\ DiskFollows /\ InodesSound
  BY DEF IInv
<1>3. \A e \in Inodes : OnDisk(e) =>
        m[e].name = disk.inodes[e].name /\ m[e].address_block = disk.inodes[e].address_block
  BY <1>2 DEF Between, OnDisk, DiskFollows
<1>4. ASSUME NEW d \in Inodes, HasBlock(disk.inodes, d)
      PROVE  Stays(d)
  <2> DEFINE x == EntriesOf(disk.inodes, d)
  <2>1. OnDisk(d) /\ HasBlock(inode_list, d) /\ x = EntriesOf(inode_list, d)
    BY <1>2, <1>4, InMemory DEF OnDisk, DiskFollows
  <2>2. EntriesOf(disk.inodes, d)' = x
    BY <1>1, <1>3, <2>1 DEF EntriesOf
  <2> SUFFICES ASSUME NEW k \in Positions, x[k] \in Inodes \ {0}, OnDisk(x[k]),
                      NEW j \in Positions, j < k, x[j] \in Inodes \ {0}
               PROVE  m[x[j]].name = disk.inodes[x[j]].name
    BY <1>1, <1>3, <2>2 DEF Stays
  <2>3. IsIn(x[j], d, j) /\ IsIn(x[k], d, k)
    BY <2>1 DEF IsIn, ROOT
  <2>4. OnDisk(x[j])
    <3> SUFFICES ASSUME ~OnDisk(x[j]) PROVE FALSE
      OBVIOUS
    <3>1. x[k] = x[j]
      BY <2>1, <2>3 DEF OrderInv, GhostsSound
    <3>2. QED
      BY <3>1
  <2>5. QED
    BY <1>3, <2>4
<1>5. QED
  BY <1>2, <1>4, ChildStays

(* A step that changes free entries but no inodes on the disk.                *)
LEMMA EntriesStay ==
  ASSUME IInv, DiskFollows', disk'.inodes = disk.inodes,
         \A d \in Inodes, k \in Positions :
           LET old == EntriesOf(inode_list, d)[k]
               new == EntriesOf(inode_list, d)'[k]
           IN  HasBlock(disk.inodes, d) => new = old \/ (old = 0 /\ (new \in Inodes => ~OnDisk(new)))
  PROVE  FoundStays
<1>1. DiskFollows /\ InodesSound
  BY DEF IInv
<1>2. ASSUME NEW d \in Inodes, HasBlock(disk.inodes, d)
      PROVE  Stays(d)
  <2>0. PICK x, y : /\ x = EntriesOf(disk.inodes, d) /\ y = EntriesOf(disk.inodes, d)'
    OBVIOUS
  <2>1. x = EntriesOf(inode_list, d) /\ y = EntriesOf(inode_list, d)'
    BY <1>1, <1>2, <2>0 DEF OnDisk, DiskFollows, EntriesOf
  <2>2. \A k \in Positions : y[k] = x[k] \/ (x[k] = 0 /\ (y[k] \in Inodes => ~OnDisk(y[k])))
    BY <1>2, <2>1
  <2>3. \A e \in Inodes : ~OnDisk(e) => disk.inodes[e].name = NULL
    BY <1>1 DEF InodesSound, OnDisk, Unbound
  <2>4. QED
    BY <2>0, <2>2, <2>3 DEF Stays
<1>3. QED
  BY <1>1, <1>2, ChildStays DEF IInv

(* A step that writes nothing to the disk that lookups depend on.             *)
LEMMA DiskStays ==
  ASSUME disk'.inodes = disk.inodes, disk'.blocks = disk.blocks
  PROVE  FoundStays
BY DEF FoundStays, Child, EntriesOf

(* Every step leaves what can be found.                                       *)
LEMMA NextFound ==
  ASSUME PREEMPT = FALSE, IInv, OrderInv, [Next]_vars
  PROVE  FoundStays
<1>1. ASSUME NEW p \in Procs, NEW path \in Paths,
             open(p, path) \/ Create(p, path) \/ opendir(p, path)
      PROVE  FoundStays
  <2>1. Quiet(p)
    BY <1>1, OpenStep, CreateStep, OpendirStep
  <2>2. QED
    BY <2>1, QuietStays
<1>2. ASSUME NEW p \in Procs, WriteName(p) \/ WriteInodeList(p)
      PROVE  FoundStays
  <2>1. Quiet(p)
    BY <1>2, WriteNameStep, WriteInodeListStep
  <2>2. QED
    BY <2>1, QuietStays
<1>3. ASSUME NEW p \in Procs, NEW blocks \in 1 .. LENGTH, NEW extends \in BOOLEAN,
             write(p, blocks, extends)
      PROVE  FoundStays
  BY <1>3, WriteStep, QuietStays
<1>4. ASSUME NEW p \in Procs, WriteBlock(p) \/ MarkBlock(p) \/ close(p)
      PROVE  FoundStays
  <2>1. Quiet(p)
    BY <1>4, WriteBlockStep, MarkBlockStep, CloseStep
  <2>2. QED
    BY <2>1, QuietStays
<1>5. ASSUME NEW p \in Procs, BindInode(p)
      PROVE  FoundStays
  <2>1. PICK n \in Inodes : Binds(p, n)
    BY <1>5, BindInodeStep
  <2>2. QED
    BY <2>1, DiskStays DEF Binds
<1>6. ASSUME NEW p \in Procs, EnterInode(p)
      PROVE  FoundStays
  <2>1. IInv' /\ \E h, i \in Inodes : \E m \in 0 .. LENGTH : Enters(p, h, i, m)
    BY <1>6, EnterInodeStep
  <2>2. PICK h, i \in Inodes : \E m \in 0 .. LENGTH : Enters(p, h, i, m)
    BY <2>1
  <2>3. PICK m \in 0 .. LENGTH : Enters(p, h, i, m)
    BY <2>2
  <2>4. ASSUME NEW d \in Inodes, NEW k \in Positions,
               HasBlock(disk.inodes, d)
        PROVE  \/ EntriesOf(inode_list, d)'[k] = EntriesOf(inode_list, d)[k]
               \/ /\ EntriesOf(inode_list, d)[k] = 0
                  /\ EntriesOf(inode_list, d)'[k] = i
    <3>1. CASE d = h
      <4>1. /\ EntriesOf(inode_list, h)'[k] = IF k = m THEN i ELSE EntriesOf(inode_list, h)[k]
            /\ m # 0 => EntriesOf(inode_list, h)[m] = 0
        BY <2>3 DEF Enters, EntersAt
      <4>2. QED
        BY <3>1, <4>1 DEF Positions
    <3>2. CASE d # h
      BY <2>3, <2>4, <3>2 DEF Enters, IInv, DiskFollows
    <3>3. QED
      BY <3>1, <3>2
  <2>5. ~OnDisk(i) /\ disk'.inodes = disk.inodes
    BY <2>3 DEF Enters, OrderInv, Grows
  <2>6. DiskFollows'
    BY <2>1 DEF IInv
  <2>7. QED
    BY <2>4, <2>5, <2>6, EntriesStay
<1>7. ASSUME NEW p \in Procs, LinkBlock(p)
      PROVE  FoundStays
  <2>1. IInv' /\ \E i \in Inodes, k \in Positions, b \in Blocks : Links(p, i, k, b)
    BY <1>7, LinkBlockStep
  <2>2. PICK i \in Inodes, m \in Positions, b \in Blocks : Links(p, i, m, b)
    BY <2>1
  <2>3. file[i] = EntriesOf(inode_list, i) /\ file[i][m] = 0
    BY <2>2 DEF Links, OrderInv, CopiesExact
  <2>4. ASSUME NEW d \in Inodes, NEW k \in Positions,
               HasBlock(disk.inodes, d)
        PROVE  \/ EntriesOf(inode_list, d)'[k] = EntriesOf(inode_list, d)[k]
               \/ /\ EntriesOf(inode_list, d)[k] = 0
                  /\ EntriesOf(inode_list, d)'[k] = b
    <3>1. CASE d = i
      BY <2>2, <2>3, <3>1 DEF Links
    <3>2. CASE d # i
      BY <2>2, <2>4, <3>2 DEF Links, IInv, DiskFollows
    <3>3. QED
      BY <3>1, <3>2
  <2>5. b \notin Inodes /\ disk'.inodes = disk.inodes
    BY <2>2, Numbers DEF Links
  <2>6. DiskFollows'
    BY <2>1 DEF IInv
  <2>7. QED
    BY <2>4, <2>5, <2>6, EntriesStay
<1>8. ASSUME NEW p \in Procs, NEW cut \in Cuts,
             CutInodeList(p, cut) \/ CutWrite(p, cut)
      PROVE  FoundStays
  BY <1>8, CrashFacts, CrashStays
<1>9. CASE PowerFails
  BY <1>9, DiskCrash, CrashStays
<1>10. CASE UNCHANGED vars
  BY <1>10, DiskStays DEF vars
<1>11. QED
  BY <1>1, <1>2, <1>3, <1>4, <1>5, <1>6, <1>7, <1>8, <1>9, <1>10 DEF Next

(* Whatever is created, and whenever the power fails, also while the inode    *)
(* list is being written, a file that is on the disk under some path is there *)
(* for ever.                                                                  *)
THEOREM FilesAreKept ==
  ASSUME PREEMPT = FALSE, THROUGH_FILES = FALSE
  PROVE  Spec => FilesStay
<1> DEFINE Inv == IInv /\ OrderInv /\ TreeInv
           Kept == \A path \in Paths :
                     Lookup(disk.inodes, path) # NULL
                       => Lookup(disk.inodes, path)' = Lookup(disk.inodes, path)
<1>1. Init => Inv
  BY InitInv, InitTree
<1>2. Inv /\ [Next]_vars => Inv'
  BY NextInv, NextTree
<1>3. DiskWalk
  BY DiskWalkFacts
<1>4. Inv /\ DiskWalk /\ DiskWalk' /\ [Next]_vars => Kept
  <2> SUFFICES ASSUME Inv, DiskWalk, DiskWalk', [Next]_vars PROVE Kept
    OBVIOUS
  <2>1. FoundStays
    BY NextFound
  <2>2. QED
    BY <2>1, LookupStays DEF IInv
<1>5. Spec => [][Kept]_vars
  <2> HIDE DEF Inv, Kept
  <2>1. QED
    BY <1>1, <1>2, <1>3, <1>4, PTL DEF Spec
<1>6. QED
  BY <1>5 DEF FilesStay

=============================================================================
