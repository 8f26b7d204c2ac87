------------------------------- MODULE Memory -------------------------------
(***************************************************************************)
(* Physical memory and page tables: kernel/memory.c.                       *)
(*                                                                         *)
(* The kernel keeps one sorted list of memory blocks, memory_page_map.  A  *)
(* block is usable (not bound), belongs to the page table of a process, or *)
(* is reserved; usable and reserved blocks both name the page table of the *)
(* kernel.  Allocation moves the border between two neighbours of the list *)
(* where it can; freeing merges a block into a neighbour.                  *)
(*                                                                         *)
(* Addresses are counted in pages, and a process is named by its page      *)
(* table.  Its identity-mapped kernel pages are left out.  Every function  *)
(* of memory.c, and create_process and exit_process around them, runs      *)
(* between cli() and sti(), so each action is one call.                    *)
(***************************************************************************)
EXTENDS Integers, SequencesExt, FiniteSets

CONSTANTS
  MEMORY_MAP,  \* memory_page_map as init_memory() leaves it
  MAX_TABLES,  \* bound: page tables of processes there may be at once
  VPAGES,      \* pages of the address space of a process, the last its stack
  CODE_PAGES   \* sizes of the programs that are executed

KERNEL_PAGE_TABLE == 0

Block == [bound : BOOLEAN, base : Nat, limit : Nat,
          page_table : 0 .. MAX_TABLES]

\* The memory below the kernel is reserved, and the machine reports two
\* reserved areas above the memory it has.  init_memory() sorts the areas,
\* which do not overlap.
ASSUME MemoryMapAssumption ==
  /\ MEMORY_MAP \in Seq(Block) /\ Len(MEMORY_MAP) >= 3
  /\ \A i \in 1 .. Len(MEMORY_MAP) :
       /\ MEMORY_MAP[i].page_table = KERNEL_PAGE_TABLE
       /\ MEMORY_MAP[i].bound \/ MEMORY_MAP[i].limit > 0
  /\ \A i \in {1, Len(MEMORY_MAP) - 1, Len(MEMORY_MAP)} : MEMORY_MAP[i].bound
  /\ \A i \in 1 .. Len(MEMORY_MAP) - 1 :
       MEMORY_MAP[i].base + MEMORY_MAP[i].limit <= MEMORY_MAP[i + 1].base

ASSUME SizesAssumption ==
  /\ MAX_TABLES \in Nat \ {0}
  /\ VPAGES \in Nat
  /\ \A n \in CODE_PAGES : n \in 1 .. (VPAGES - 1)

VARIABLES
  memory_page_map,  \* the blocks, sorted
  page_table_list   \* for each page table of a process: is it bound, and the
                    \* frame of each of its pages

vars == <<memory_page_map, page_table_list>>

-----------------------------------------------------------------------------
(* Page tables and blocks. *)

Tables == 1 .. MAX_TABLES

Pages == 1 .. VPAGES

\* The entry of a page that is not present.
Ignored == -1

Empty == [v \in Pages |-> Ignored]

Bound == {p \in Tables : page_table_list[p].bound}

Frames(p) == {page_table_list[p].pages[v] : v \in Pages} \ {Ignored}

Extent(b) == b.base .. (b.base + b.limit - 1)

TypeOK ==
  /\ memory_page_map \in Seq(Block)
  /\ page_table_list \in
       [Tables -> [bound : BOOLEAN, pages : [Pages -> Nat \cup {Ignored}]]]

\* create_page_table takes the first page table that is not bound.
create_page_table == Min(Tables \ Bound)

-----------------------------------------------------------------------------
(* Allocation. *)

\* The first usable block, 0 when there is none.
UsableBlock(map) == SelectInSeq(map, LAMBDA b : ~b.bound)

\* A block that gives up its last page, and one that takes the page before it.
LoseLast(b) == [b EXCEPT !.limit = @ - 1]

GainBefore(b) == [b EXCEPT !.base = @ - 1, !.limit = @ + 1]

\* A block that gives up its first page, and one that takes the page after it.
LoseFirst(b) == [b EXCEPT !.base = @ + 1, !.limit = @ - 1]
GainAfter(b) == [b EXCEPT !.limit = @ + 1]

NewBlock(p, base) ==
  [bound |-> TRUE, base |-> base, limit |-> 1, page_table |-> p]

\* Mutant: an emptied block stays in the list.
CleanUp_Never(map, i) == map

\* The usable block at i is removed when nothing is left of it.
CleanUp(map, i) == IF map[i].limit <= 0 THEN RemoveAt(map, i) ELSE map

\* Mutant: the page is taken from the wrong end of the usable block.
TakePage_WrongEnd(map, p) ==
  LET i == UsableBlock(map)
  IN  IF i < Len(map) /\ map[i + 1].page_table = p THEN
        [map |-> CleanUp([map EXCEPT ![i] = LoseLast(@),
                                     ![i + 1] = GainBefore(@)], i),
         frame |-> map[i].base]
      ELSE IF i > 1 /\ map[i - 1].page_table = p THEN
        [map |-> CleanUp([map EXCEPT ![i] = LoseFirst(@),
                                     ![i - 1] = GainAfter(@)], i),
         frame |-> map[i].base]
      ELSE
        [map |-> CleanUp(InsertAt([map EXCEPT ![i] = LoseFirst(@)], i,
                                  NewBlock(p, map[i].base)), i + 1),
         frame |-> map[i].base]

\* A page of the first usable block: from its end when p owns the block after
\* it, else from its start, as a new block unless p owns the block before it.
TakePage(map, p) ==
  LET i == UsableBlock(map)
  IN  IF i < Len(map) /\ map[i + 1].page_table = p THEN
        [map |-> CleanUp([map EXCEPT ![i] = LoseLast(@),
                                     ![i + 1] = GainBefore(@)], i),
         frame |-> map[i + 1].base - 1]
      ELSE IF i > 1 /\ map[i - 1].page_table = p THEN
        [map |-> CleanUp([map EXCEPT ![i] = LoseFirst(@),
                                     ![i - 1] = GainAfter(@)], i),
         frame |-> map[i].base]
      ELSE
        [map |-> CleanUp(InsertAt([map EXCEPT ![i] = LoseFirst(@)], i,
                                  NewBlock(p, map[i].base)), i + 1),
         frame |-> map[i].base]

\* One page of allocate_memory: nothing is done for a page that is there
\* already, nor, silently, when no usable block is left.
AllocatePage(m, p, v) ==
  IF m.pages[v] # Ignored \/ UsableBlock(m.map) = 0 THEN m
  ELSE LET taken == TakePage(m.map, p)
       IN  [map |-> taken.map, pages |-> [m.pages EXCEPT ![v] = taken.frame]]

\* allocate_memory: the pages of a range, in order.
allocate_memory(m, p, range) ==
  LET after[n \in 0 .. Len(range)] ==
        IF n = 0 THEN m ELSE AllocatePage(after[n - 1], p, range[n])
  IN  after[Len(range)]

-----------------------------------------------------------------------------
(* Freeing.  A walk down the list with two pointers, here indices, that the  *)
(* code updates on its own each time a block is removed; 0 is no block.      *)

\* Mutant: the limit of the removed block is lost.
MergeIntoPrevious_LosesPages(w) ==
  [map |-> RemoveAt(w.map, w.current),
   current |-> w.current,
   prev |-> IF w.prev > w.current THEN w.prev - 1 ELSE w.prev]

\* The block at w.current is added to the one prev points to.
MergeIntoPrevious(w) ==
  [map |-> RemoveAt([w.map EXCEPT ![w.prev].limit =
                                    @ + w.map[w.current].limit], w.current),
   current |-> w.current,
   prev |-> IF w.prev > w.current THEN w.prev - 1 ELSE w.prev]

\* Mutant: the block after it keeps its base.
MergeIntoNext_KeepsBase(w) ==
  LET c == w.current
      map == RemoveAt([w.map EXCEPT ![c + 1].limit = @ + w.map[c].limit], c)
  IN  [map |-> map, current |-> c + 1,
       prev |-> IF c + 2 <= Len(map) THEN c + 2 ELSE 0]

\* A block that takes over the one before it.
TakeOver(b, before) ==
  [b EXCEPT !.limit = @ + before.limit, !.base = before.base]

\* The block is added to the one after it, and the walk goes on behind that
\* one; prev is then set from the block the walk goes on with, to its
\* successor.
MergeIntoNext(w) ==
  LET c == w.current
      map == RemoveAt([w.map EXCEPT ![c + 1] = TakeOver(@, w.map[c])], c)
  IN  [map |-> map, current |-> c + 1,
       prev |-> IF c + 2 <= Len(map) THEN c + 2 ELSE 0]

\* Mutant: the block keeps the page table that is being freed.
Unbind_KeepsTable(b) == [b EXCEPT !.bound = FALSE]

Unbind(b) == [b EXCEPT !.bound = FALSE, !.page_table = KERNEL_PAGE_TABLE]

\* The walk passes the block at w.current.
PassBlock(w, b) ==
  [map |-> [w.map EXCEPT ![w.current] = b],
   current |-> w.current + 1, prev |-> w.current]

FreeBlock(w, p) ==
  LET OfKernel(i) == /\ i \in 1 .. Len(w.map)
                     /\ w.map[i].page_table = KERNEL_PAGE_TABLE
  IN  IF w.current > Len(w.map) THEN w
      ELSE IF w.map[w.current].page_table # p
        THEN PassBlock(w, w.map[w.current])
      ELSE IF OfKernel(w.prev) THEN MergeIntoPrevious(w)
      ELSE IF OfKernel(w.current + 1) THEN MergeIntoNext(w)
      ELSE PassBlock(w, Unbind(w.map[w.current]))

\* Each turn of the loop removes or passes a block.
FreeBlocks(map, p) ==
  LET walk[n \in 0 .. Len(map)] ==
        IF n = 0 THEN [map |-> map, current |-> 1, prev |-> 0]
        ELSE FreeBlock(walk[n - 1], p)
  IN  walk[Len(map)].map

\* Mutant: the entries of the page table are left as they are.
free_page_table_KeepsEntries(p) ==
  /\ memory_page_map' = FreeBlocks(memory_page_map, p)
  /\ page_table_list' = [page_table_list EXCEPT ![p].bound = FALSE]

free_page_table(p) ==
  /\ memory_page_map' = FreeBlocks(memory_page_map, p)
  /\ page_table_list' = [page_table_list EXCEPT
                           ![p] = [bound |-> FALSE, pages |-> Empty]]

-----------------------------------------------------------------------------
(* The calls of process.c. *)

\* create_process: pages for the code, then one for the arguments and the
\* stack, at the top of the address space.
create_process(n) ==
  LET p == create_page_table
      code == allocate_memory([map |-> memory_page_map,
                               pages |-> page_table_list[p].pages],
                              p, [i \in 1 .. n |-> i])
      all == allocate_memory(code, p, <<VPAGES>>)
  IN  /\ Tables \ Bound # {}
      /\ memory_page_map' = all.map
      /\ page_table_list' = [page_table_list EXCEPT
                               ![p] = [bound |-> TRUE, pages |-> all.pages]]

\* handle_page_fault: a process touched a page that is not present.
handle_page_fault(p, v) ==
  LET m == allocate_memory([map |-> memory_page_map,
                            pages |-> page_table_list[p].pages], p, <<v>>)
  IN  /\ p \in Bound
      /\ page_table_list[p].pages[v] = Ignored
      /\ memory_page_map' = m.map
      /\ page_table_list' = [page_table_list EXCEPT ![p].pages = m.pages]

exit_process(p) == p \in Bound /\ free_page_table(p)

Init ==
  /\ memory_page_map = MEMORY_MAP
  /\ page_table_list = [p \in Tables |-> [bound |-> FALSE, pages |-> Empty]]

Next ==
  \/ \E n \in CODE_PAGES : create_process(n)
  \/ \E p \in Tables, v \in Pages : handle_page_fault(p, v)
  \/ \E p \in Tables : exit_process(p)

Spec == Init /\ [][Next]_vars

-----------------------------------------------------------------------------
(* Safety. *)

Limits(map, S) ==
  LET sum[n \in 0 .. Len(map)] ==
        IF n = 0 THEN 0 ELSE sum[n - 1] + (IF n \in S THEN map[n].limit ELSE 0)
  IN  sum[Len(map)]

BlocksOf(p) ==
  {i \in 1 .. Len(memory_page_map) : memory_page_map[i].page_table = p}

\* No page of the machine is lost or invented: the blocks always add up to the
\* memory map the boot loader handed over, whatever is split and merged.
MemoryConserved ==
  Limits(memory_page_map, 1 .. Len(memory_page_map))
    = Limits(MEMORY_MAP, 1 .. Len(MEMORY_MAP))

\* The list and the page tables agree: a process has as many pages mapped as
\* there are in the blocks that name its page table.
PagesAccounted ==
  \A p \in Bound :
    Limits(memory_page_map, BlocksOf(p))
      = Cardinality({v \in Pages : page_table_list[p].pages[v] # Ignored})

\* Pages are neither lost nor invented, in the machine and in each process.
MemoryAccounted == MemoryConserved /\ PagesAccounted

\* exit gives back everything: a page table that is not bound owns no block
\* and maps no page, so the process that gets it next starts empty.
FreedCompletely ==
  \A p \in Tables \ Bound : BlocksOf(p) = {} /\ Frames(p) = {}

\* From the second block up to the reserved areas, the blocks are in order, with
\* no hole between them and no page in two of them.
Tiled ==
  \A i \in 2 .. (Len(memory_page_map) - 2) :
    memory_page_map[i].base + memory_page_map[i].limit
      = memory_page_map[i + 1].base

\* A process uses the pages of its own blocks.
Owned ==
  \A p \in Bound :
    Frames(p) = UNION {Extent(memory_page_map[i]) : i \in BlocksOf(p)}

\* Splitting, merging and removing blocks keep the list in order, unless a
\* process exits that has more than one block.
TilingKept ==
  [][Tiled => \/ Tiled'
              \/ \E p \in Bound : p \notin Bound' /\ Cardinality(BlocksOf(p)) > 1
    ]_vars

\* While the list is in order, no step lets a process use a page that is not
\* in one of its own blocks, so nobody shares a page with anybody.
OwnershipKept == [][Tiled /\ Owned /\ Tiled' => Owned']_vars

-----------------------------------------------------------------------------
(* What the comments of memory.c promise and free_page_table breaks. *)

\* The pages init_memory() found usable.
UsableAtBoot ==
  UNION {Extent(MEMORY_MAP[i]) :
           i \in {j \in 1 .. Len(MEMORY_MAP) : ~MEMORY_MAP[j].bound}}

\* "find a useable memory block" (memory.c:211): every page a process is
\* given is one that was usable at boot.
OnlyUsableFrames == \A p \in Bound : Frames(p) \subseteq UsableAtBoot

\* "free the allocated memory" (memory.c:382): what no process has is usable.
FreedIsUsable ==
  \A f \in UsableAtBoot :
    \/ \E p \in Bound : f \in Frames(p)
    \/ \E i \in 1 .. Len(memory_page_map) :
         ~memory_page_map[i].bound /\ f \in Extent(memory_page_map[i])

\* "allocate and write process memory" (process.c:612): a process that has
\* been created has its program in memory.
ProgramInMemory == \A p \in Bound : page_table_list[p].pages[1] # Ignored

=============================================================================
