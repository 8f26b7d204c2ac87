# A formal model of the cool_os_name kernel

cool_os_name is a 32-bit x86 kernel with a preemptive scheduler, paging, a file
system of its own, terminals on four screens and a small user library. This
directory holds TLA+ modules that model the kernel's components, TLC
configurations that check them on small instances, and proofs, checked by TLAPS,
that hold for every instance. All source positions below are relative to `src/`.

Contents

1. The system: components, interactions, what is hard about them
2. The modules and the plan
3. How the modules correspond to the code
4. The runs, their bounds and what they show
5. Fairness
6. Proofs
7. What the code does not keep
8. What is not modelled, and why
9. Running the tools

---------------------------------------------------------------------------

## 1. The system

### 1.1 Components

| component | code | state it keeps | operations |
|---|---|---|---|
| Processes and scheduler | `kernel/process.c` 1-267, 600-765, `kernel/pit_entry.asm` | `process_list`, `current_process` (an index into it), descriptors (`state`, `quantum`, `parent`, `ruid`, `euid`, registers, page table), CR3 | timer handler, `create_process`, `execute_from_process`, `exit_process`, `seteuid`, `handle_page_fault` |
| Physical memory and page tables | `kernel/memory.c` | `memory_page_map` (sorted list of blocks), `page_table_list` | `init_memory`, `create_page_table`, `allocate_memory`, `free_page_table`, `set_page_map` |
| Open files of processes | `kernel/process.c` 269-527, `kernel/filesystem.c` 244-303, 505-573 | `open_files` of each process, `open_files_list` | `fopen`, `fclose`, `fread`, `fwrite`, `dup`, `dup2`; `open`, `close`, `seek` under them |
| System call gate | `kernel/system_call.c`, `kernel/system_call_entry.asm` | static `heap`, `fd`, `dd`, `bytes`, `return_data` | one handler for all calls |
| Interrupt masking | `kernel/kernel.c` 59-77, `kernel/interrupts.c`, `kernel/exception.c` | the flag IF, the counter `mutex`, in-service bits of the controller | `cli`, `sti`, `sti_forced`, `send_EOI` |
| Keyboard input | `drivers/keyboard.c`, `kernel/tty.c`, `headers/scancode.h` | `keyboard_buffers` (linked list), `COMMAND_KEYS`, `state`, `status`, the shown screen | `input`, the keyboard handler |
| File system on disk | `kernel/filesystem.c` | bitmap of blocks, inode list, list of names (each in memory and on the disk), blocks of entries | `init_filesystem`, `get_inode_index_of`, `open`, `opendir`, `read`, `write`, `execute`, `close` |
| Screens | `drivers/screen.c`, `kernel/tty.c` | video memory, the hardware's cursor and start address; a copy, a cursor and a scroll position for each screen | `print`, `print_to_other_screen`, `scroll_lines`, `scroll_pages`, `switch_screen` |
| Disk | `kernel/sd.c`, `drivers/ata.c` | the controller's registers | `sd_read`, `sd_write`, `ata_read`, `ata_write` |
| Kernel heap | `utils/heap.c` | list of heap blocks | `malloc`, `free` |
| Utilities | `utils/list.c`, `utils/string.c` | none of their own | list and string functions |
| Boot and kernel start | `bootloader/boot.asm`, `kernel/kernel.c` 24-57 | none after start | loads the kernel, memory map, `init()` |
| User library and programs | `c/`, `default_fs/` | of the processes | wrappers of the system calls, shell, login |
| Image tools | `add_file.c`, `add_directory.c` | the disk image | run on the developer's machine |

There are no tests. The documentation is an eight-line README and the comments
of the code; where a property rests on a comment, its own comment quotes it.

### 1.2 Interactions

- Everything a process does reaches the kernel through `int 0x40`, a **trap
  gate**: interrupts stay enabled in system calls. Sections that must not be
  interrupted lie between `cli()` and `sti()`, which count.
- The **timer** may therefore switch processes between any two instructions of a
  system call outside those sections. The scheduler reads the descriptors,
  saves the interrupted context in the current one and loads another.
- `execute` is a call: the caller is `BLOCKED` until its child exits. It loops on
  `hlt` at the end of `execute_from_process`, and `exit_process` makes it `WAITING`.
- The **keyboard** interrupts anything, fills the buffers of the readers of the
  shown screen and echoes to it. Readers poll a flag in their buffer.
- Processes share the file system's descriptors: `open` gives everyone who opens
  a file the same one. Offsets are kept per process and set before each transfer.
- The file system's tables are read at boot and written to the disk as they change.
- The **screens** are written by processes (through the terminals' special
  files), by the keyboard's echo and by the kernel's messages; the one that is
  shown lives in the video memory, the others in copies.
- A **shell** redirects a command by changing its own streams before `execute`,
  which hands them to the child, and by changing them back after it.
- `create_process` and `exit_process` use memory, open files and the file system;
  the page-fault handler allocates memory or kills the process.

### 1.3 What is hard about each, and what makes it correct

| component | hard behaviour | correct when |
|---|---|---|
| Processes | ticks anywhere; an index into a list that shrinks; chains of callers; a page table that is freed while in use | the index names the owner of the CPU, contexts are saved where they belong, no foreign or freed address space is used, callers wait for exactly their child, somebody can always run, nobody starves, rights given up stay given up |
| Memory | blocks split, merged and removed in one list for everyone | pages are neither lost nor shared, and exit gives back everything |
| Open files | a descriptor shared by duplicates and by processes; multi-step calls | closed by the last user and not before, one descriptor per file; transfers at one's own offset (which the code does not keep) |
| System call gate | static variables behind a gate that allows ticks | results belong to the caller, arguments too (which the code does not keep) |
| Interrupts | a counter that nests, leaks and is reset; handlers that enable interrupts and are interrupted | sections exclude each other, nobody waits with interrupts off, every interrupt is ended |
| Keyboard | a list changed by readers and walked by an interrupt; keys that come early or late | the line read is the line typed, and it is read |
| File system | three tables and blocks written one after the other; power failures; directories and files whose blocks look alike | each block has one use, what the disk refers to is on it, files stay where they are, directories form a tree |
| File contents | a call is several writes to the disk; a descriptor and its copies of blocks shared by everyone who has the file open; an end mark that the size counts | every read gets what finished writes have put there, and a power failure costs at most the write that was going on |
| Screens | a comparison before `cli`; a scroll position kept twice, in the register and in the descriptor; a cursor that leaves the display; unsigned positions that a user can scroll below 0 | text goes to the screen it is for, the display follows the cursor, a switch finds the right lines |
| Login and shell | `dup2` over entries that are shared within a process, with other processes and across `execute`; error paths between `fopen` and `fclose` | a command has the streams it was asked to have, the shell gets its own back, nothing stays open |
| Disk, heap | multi-instruction commands and lists without mutual exclusion | not modelled (section 8) |

`PROJECT.json` lists each of these hazards at the line where it bites, with the
properties that cover it, or with a note where the code does not withstand it or the model leaves it out.

---------------------------------------------------------------------------

## 2. The modules and the plan

| module | subject | checked by | proofs |
|---|---|---|---|
| `TimeSharing` | abstract: processes share a CPU, execute is a call | through `Process` | |
| `Process` | scheduler, execute, exit, seteuid; implements `TimeSharing` | `MCProcess` | `ProcessProofs` |
| `Memory` | allocation and page tables | `MCMemory` | `MemoryProofs` |
| `OpenFiles` | lists of open files over shared descriptors | `MCOpenFiles`, and through `Shell` | `OpenFilesProofs` |
| `SystemCall` | the gate and its static variables | `MCSystemCall` | `EntryProofs` |
| `Interrupts` | cli/sti, two interrupts, end of interrupt | `MCInterrupts` | `InterruptsProofs` |
| `Keyboard` | reading lines | `MCKeyboard` | `EntryProofs` |
| `FileSystem` | tables and trees, in memory and on the disk | `MCFileSystem` | `FileSystemProofs` |
| `ByteFile` | abstract: files are sequences of bytes, read and written at one's own offset | through `FileData` | |
| `FileData` | `read` and `write` with bytes, offsets, sizes and copies of blocks; implements `ByteFile` | `MCFileData` | `FileDataProofs` |
| `Shell` | the programs login and shell over `OpenFiles` | `MCShell` | `OpenFilesProofs` |
| `Terminals` | abstract: a picture for each terminal, of which one is shown | through `Screen` | |
| `Screen` | printing, scrolling and switching; implements `Terminals` | `MCScreen` | `ScreenProofs` |

The modules compose as follows. Three of them are shown to implement an abstract
one through `INSTANCE ... WITH`: `Process` implements `TimeSharing`, `FileData`
implements `ByteFile`, `Screen` implements `Terminals`. `Shell` extends `OpenFiles`: a statement
of the programs is a call of that module together with a change of the
program's variables. Every other module takes from processes only what it
needs: `OpenFiles` and `Interrupts` keep `parent`, because who waits for whom
decides who can make a call; `SystemCall`, `Keyboard`, `Screen` and `FileSystem` let
processes interleave freely, which is the scheduler's most general behaviour.
Where a module assumes something that another one establishes, it says so:
`Memory`, `OpenFiles` and `FileSystem` treat sections between `cli()` and
`sti()` as one step, or as steps without interference, and `SectionsExclude` of
`Interrupts` is the reason they may. `FileData` has one descriptor for each file, which is
`OneDescriptorPerFile` of `OpenFiles`, and blocks of its own for each file, which is
`OneOwnerPerBlock` of `FileSystem`.

Worth doing next: a terminal as a queue of lines, for `Keyboard` to implement;
the kernel's heap.

The modules are written so that they can be proved about: parameters are
constants with named assumptions, `RECURSIVE` is not used anywhere (sums are
folds, reachability is a recursive function), each operation is an action, and
invariants are conjunctions.

---------------------------------------------------------------------------

## 3. How the modules correspond to the code

`PROJECT.json` maps each definition to its lines. Definitions keep the names of
the functions, fields and constants they model. An operator whose comment starts
with *Mutant* is a plausible bug in the definition that follows it; no
specification uses it. For each checked property one of them, put in
the place of the definition, is caught by TLC.

### Process

| state | code |
|---|---|
| `process_list`, `current_process` | the list and the static index, -1 for none |
| `state`, `quantum`, `parent`, `ruid`, `euid`, `regs` | fields of `process_descriptor`, as functions of the descriptor |
| `cpu` | what the CPU executes: whose code, and whether user code, the loop in `execute_from_process` or an idle loop |
| `cr3` | the page table in use; a process's page table has its name |

`pit_interrupt_handler` is split into its four outcomes: nothing to schedule
(`TickIdle`), no current process (`TickDispatch`), the current one yields
(`TickPreempt`) or goes on (`TickContinue`); the choice is
`find_process_to_run`, the switch `switch_process`. `ExecuteSucceeds`,
`ExecuteFails`, `ReturnFromExecute`, `Exit`, `FaultInKernelMap` and `seteuid`
are what the process that has the CPU does. The handler is one step, as the
controller sends no second interrupt before its end of interrupt; `execute` and
`exit` are one step each because they run between `cli()` and `sti_forced()`.
Descriptors are never freed in the code; the model reuses the name of one to
which no pointer is left, which keeps the model finite.

### TimeSharing

`live`, `caller`, `running`; `Run`, `Call`, `Return`. The refinement mapping (end
of `Process`) takes `caller` from `parent` and `running` from the current
process if it is `RUNNING`: between `execute` and the next tick the current
process is the blocked caller and nobody runs.

### Memory

`memory_page_map` is the sequence of blocks; addresses are counted in pages.
`create_process` maps code and stack, `handle_page_fault` one more page,
`exit_process` frees all. `TakePage` moves the border between a usable block
and its neighbour where the owner allows it and otherwise inserts a block, as
memory.c:211-267; freeing (`FreeBlocks`) is the walk of memory.c:382-418 with its
current and previous blocks, one turn of the loop per value of a recursive
function, as the calls that `allocate_memory` makes are.

### OpenFiles

`entry[p]` holds the `open_file` structures and `open_files[p]` the list of
references to them: `fopen` appends the same structure twice
(`kernel/process.c:291` and `:308`). `call[p]` is what is left of a call, since
calls of process.c are not masked as a whole: `fopen`/`Register`,
`Seek`/`Transfer`, `fclose`/`Close`/`Unuse`/`Copy`. `dup` of a descriptor that
does not exist appends an entry that was never filled in (`DupMissing`); the
constant `Garbage` gives what `malloc` may have left there. `OVERLAP` says whether
calls of different processes may overlap.

### SystemCall

`slot` are the four static variables of the handler, `return_data` that of the
entry code. A call passes `Enter`, `Load` (argument from the static variable), the
function itself, `Assign` (result to the static variable), `Fetch`, `Store`,
`Return`, and the scheduler may switch between any two of them. A value is its
owner and its role. `disturbed` is a history variable: the processes whose result was in a
static variable, between `Assign` and `Fetch` or `Store` and `Return`, when another process
executed an instruction of the handler. A process that is in the function it called, or has
its result in EAX, is not. The names of the
specification are prefixed (`GateSpec`, `Callers`), because `EntryProofs` extends this
module and `Keyboard`.

### Interrupts

`IF_` and `mutex` change in `cli`, `sti` and `sti_forced`; `frame[p]` is the
system call a process is in, with the number of sections it has open, and
`handler` the keyboard's handler with the stack it runs on. `CallLeak` is a return
between `cli()` and `sti()`, as in `get_inode_index_of`, `opendir`,
`execute`, `close` and `closedir`. `Tick`
switches to some runnable process and gives back the flag of the context it
returns to; it drops the interrupted context when no process is current.

### Keyboard

`first`, `next`, `length` and `place` are the linked list and the position
`input()` has found in it; adding and removing are two steps each. The handler is
one action per kind of scan code (`CharKey`, `Backspace`,
`keyboard_command_char`, `ReleaseCode`, `CharKeyReleased`, `Acknowledge`), whole,
with the two-part release codes kept in `state`. `line` is a history variable:
what should be in the buffer. There are four terminals (tty.c), and at first the one with
index 0 is shown. With `ATOMIC` two operations on the list do not overlap; with `SLOW` a
reader whose line is complete wakes before the next key. Section 7 says what happens
otherwise.

### FileSystem

The three tables are variables, `disk` holds their copies and the blocks of
entries, `file[i]` the block of entries in an open descriptor. Creating a file
is `Create`, `WriteName`, `BindInode`, `EnterInode`, `WriteInodeList`, in the
order of the code's disk writes; writing is `write`, then for each block
`WriteBlock`, `MarkBlock`, `LinkBlock`. `init_filesystem` is a power failure
followed by a boot. It may happen between any two steps (`PowerFails`), and while the
inode list is being written (`CutInodeList` for filesystem.c:219, `CutWrite` for
filesystem.c:398): `ata_write_sectors` writes its 16 sectors one by one (ata.c:80), and
since an inode has 44 bytes, one may lie in two of them. `Transferred` is what the
disk then holds: the new inodes up to a sector's end, the old ones behind it, and of an inode
across the two the first fields new (in the order bound, type, size, block, name; they are at
bytes 0, 4, 24, 28 and 32) and the others old. `Cuts` are the inodes
and fields where sectors end. Of the other transfers only one word or one name changes: a
bitmap and a block of entries differ from what the disk has in one entry, which lies in
one sector, and a new name that is only half there is not referred to yet.

### FileData and ByteFile

`inode_size` is the inode list in memory, `file[f]` the descriptor with
the list of blocks and the copies of blocks, `offset[p][f]` the offset a process
keeps for a file, `disk` the copies on the disk, `call` the local variables of the
call that is going on. A write is `StartWrite` (the size, in memory and on the disk),
then for each block `AllocateBlock` if it has none, and `WriteBlock` (copy and
disk); a read is `StartRead` and then a `ReadBlock` for each block. The
arithmetic is the code's: `BlocksOf` is the number of turns, `Chunk` the size of
a `memcpy`, and the loop starts at block 0. `PowerFailure` may come
after each step and, while a block is being written, between two sectors. `Init`
is a disk made by `add_file`. `written` is a history variable, the bytes of
finished writes, and is the content of the abstract file; a power failure sets it
to what is found on the disk, which `ByteFile` restricts.

### Shell

`program[p]` holds the statement a process is at and the variables of its `main`.
Each action is one statement that makes a call, in the order of shell.c
and login.c; `Advance` goes on to the next statement that will be done, since
what is about a stream is done only if there is a file for it. Parsing is the
choice between `ParseIn`, `ParseOut`, `ParseFails` and `ParseEnds`. The rest of a call
(`Continue`) are the later steps of `OpenFiles`. The image programs are in is a file of its own,
which no program opens, and terminals are no regular files (the module's two assumptions).

### Screen and Terminals

`screen_list` are the descriptors, `video` the video memory with the hardware's
cursor, `start` the start address register. `print` and `switch_screen` are
masked and one step each; `print_to_other_screen` is `CompareScreen`, which looks at
the shown screen's index, and then `PrintShown` or `PrintHidden`. `Echo` is a
typed key or a message of the kernel. `misdirected` is a history
variable: text for the screen that is shown has been put into its copy. The refinement
mapping takes a terminal's picture from the video memory if it is shown and from its
descriptor otherwise.

---------------------------------------------------------------------------

## 4. The runs

States are distinct states. "Fails" means that TLC finds the one listed property
violated, which is a finding of `PROJECT.json`.

| run | instance | states | result |
|---|---|---|---|
| `processes` | 3 processes, 2 of them logins, 2 users, quantum 2, fair | 7,631 | holds |
| `memory_safety` | 8 usable pages, 3 page tables, 3 pages each, programs of 1 and 2 pages | 43,543 | holds |
| `memory_usable` | the same | | fails: `OnlyUsableFrames` |
| `files_overlapping` | 2 processes, 1 file, lists of 4 entries, calls overlap | | fails: `TransferAtOwnOffset` |
| `syscalls` | 2 processes, all calls, ticks anywhere | 1,872,388 | holds |
| `interrupts_masked` | 2 logins and a third process, nesting 2, counter up to 3, returns between cli and sti | 7,688 | holds |
| `handler_lost` | the same without such returns | | fails: `HandlerKept` |
| `keyboard_lines` | 2 readers on 2 screens, lines of 2, all command keys, fair | 37,878 | holds |
| `fs_tables` | 2 processes, 2 names, 4 inodes, 6 blocks of 3 entries, 1 power failure | 65,220 | holds |
| `file_data` | 2 processes, a file of the image and a new one, blocks of 4 bytes, 1 power failure | 225,330 | holds |
| `shell_session` | 2 terminals, shells in shells, 1 file besides users.txt and a program | 866,567 | holds |
| `screens` | 2 screens of 1 row and 3 columns, 1 process and the keyboard | 1,122,576 | holds |

**`processes`** checks `ContextsOwned`, `AddressSpaces`, `CallTree`,
`SomeoneCanRun`, `CredentialsInherited`, `ExecuteIsACall`, the liveness property
`ExecuteReturns` and `ImplementsFairTimeSharing`: the refinement with the fairness of
`TimeSharing`, which says that nobody is passed over for ever. Three descriptors are enough for
a chain of callers (a login exits and the other executes twice in a row), for an
index that an exit leaves at the end of the list, for round robin among three
and for the reuse of a descriptor. A quantum of 2 has a tick that counts and
one that preempts; 5, the code's value, adds only more of the first. The safety
properties do not depend on these bounds: they are proved (section 6).

**`memory_safety`** checks that pages are conserved and that list
and page tables agree (`MemoryAccounted`), that exit frees everything
(`FreedCompletely`), and that steps keep the list in order and pages unshared
while it is in order (`TilingKept`, `OwnershipKept`). Exits with several
blocks may put the list out of order (section 7); states after that are not
explored (`UntilOutOfOrder`), the step itself is checked; that the invariants hold behind it
too, and for maps, tables and programs of any size, is proved (section 6). Three tables let a
block lie between two others, which makes all splits and merges happen. The
map starts with a gap behind its first block, as the code's does.

**`files_overlapping`** shows that reads and writes of processes that share a descriptor get into
each other's way: `fread` seeks to the offset of its process's entry (process.c:350) and
transfers after that, with interrupts on, and the descriptor, with one offset, is everybody's
who has the file open. Two processes with the file open are enough: the one seeks,
the other's transfer moves the offset, and the first one transfers there. The first
process reads on to offset 1 and the second stays at 0, so their offsets differ.

**`syscalls`** checks `ResultIsOwn`: the result is the caller's unless another process was in
the handler while it was in a static variable; that this condition is needed is in
section 7. What it leaves is that calls are open for a long time and return in any order, that
each goes through the variable its result is read from, and that EAX is left alone by calls
without a result. Two processes are enough, since a value is lost to one other process;
also proved for all sets of processes.

**`interrupts_masked`** checks `SectionsExclude` and `HaltsEnabled` with leaking
functions; also proved for all instances. **`handler_lost`** leaves the leaks out,
which shows that they are not the reason the keyboard's handler is lost.

**`keyboard_lines`** checks `InputIsTyped` and `LineIsRead`. Two screens tell the
readers that are to get a key from those that are not; lines of two
characters have a first, a last and one removed by a backspace; a third
character is written behind the line if it comes too late.

**`fs_tables`** checks `OneOwnerPerBlock`, `DiskConsistent`, `FilesStay`,
`TreeKept` and `NoBlockLost`. Two names give paths of one and two
components, among them a file in a directory of the same name; with three inodes
besides the root the table can be full, and blocks run out (the bound on
creation keeps the code from running over its tables). The power fails once, at each
point; all properties were also checked with two failures (`MAX_CRASHES` = 2, 269,945 states). Sectors of the
inode list end within inodes, behind each of their first four fields, and between two (`Cuts`).

**`file_data`** checks `CopiesAreDisk`, `DiskHoldsWritten`, `TransfersFit` and
`ImplementsByteFile`. All of it is about the first block of a file: a file may hold
three bytes and its end mark, as `MAX_SIZE` = `BLOCK` = 4 (section 7 says what
happens behind it, `BLOCKS` = 2 leaves room for it). Writes of one, two and three
bytes and reads of one and three make writes that overwrite, extend
and fill a file and reads that are cut by its end or start there. A process has
one file open at a time, and both may have the same one, with different offsets, through
one descriptor. One file is of the image, without end mark, the other has no block.
The power fails once, at any point; after it the files can be opened, read and
written again.

**`shell_session`** checks `RedirectionUndone`, `CommandsRedirected` and
`OnlyErrorsLeak` of the programs, and `NoDescriptorLeak`, `ClosedWithoutSharers` and
`OneDescriptorPerFile` of the open files under them: the shells duplicate, redirect,
hand on and close descriptors over long sequences of calls, with entries that share one and
entries that are stale. The lists of open files may have 4 entries for logins, 8 for one
shell and 6 for what it or the other login executes: a shell uses four for
streams and copies, so that one can redirect both streams, do so
with errors, and execute a shell that redirects one more. Two logins make calls of
two sessions that share descriptors of files; calls of different processes do not overlap
(section 7 says what breaks otherwise). `DescriptorsReturned` and `DescriptorUnique`
prove two of them for programs that make these calls in any order; the others hold for two such programs with lists of
three entries (2,391,122 states, `OVERLAP = FALSE`).

**`screens`** checks `StartIsScroll`, `PrintShowsCursor` and
`ImplementsTerminals`. A screen has one row of three columns and its memory
two cells more (`MAX_CURSOR` = 4), so that every second text leaves the display and
users can scroll back to lines behind it, and on to lines before the first, which the
code does not prevent (screen.c:115 compares an unsigned number with 0). The register counts to 10, which is no multiple of 3,
as 65536 is none of 80: when it has wrapped below 0 lines do not start where
the screen's do. Two cells are a prompt users do not erase (`PROMPT` = 2). `Bounded` stops
at screens scrolled by more than four lines either way (`FARTHEST`), with which the register
has wrapped, and behind a misdirected output: from then on the scroll positions may
drift for ever; what is printed does not depend on them. The steps that lead there are checked.

The type invariants are in the runs of `Process`, `Memory` and `FileData`; those of
`SystemCall` and the other modules were checked with the same configurations.

`CHECK_DEADLOCK FALSE` is set where the modelled system really can stop: all
processes have exited (open files, interrupts) or wait for room in their lists (shell), or a bound of the model is reached
(file system).

All bounds: `MAX_TABLES`, `VPAGES` and `CODE_PAGES` in `Memory`; `MAX_ENTRIES` and
`MAX_OFFSET` in `OpenFiles`; `MAX_DEPTH` and `MAX_MUTEX` in `Interrupts`;
`LENGTH` and `MAX_LENGTH` in `Keyboard`; `INODES`, `LENGTH`, `MAX_CRASHES` and
one open file for each process in `FileSystem`; `MAX_SIZE`, `MAX_OPEN`, `MAX_CRASHES`
and the sets `Data` and `Counts` in `FileData`; `PROMPT`, `MAX_CURSOR`, `Lines` and `FARTHEST` in
`Screen`; `MAX_ENTRIES` also in `Shell`.

---------------------------------------------------------------------------

## 5. Fairness

- `Process!FairSpec`: weak fairness of the timer handler, because the timer is a
  hardware clock that is never stopped; strong fairness of `ReturnFromExecute`,
  because a process keeps the CPU for whole ticks, which is enough for the
  few instructions of the loop test whenever it is scheduled. A process need not
  ever exit or make a call. The abstract counterpart is weak fairness of `Run`.
- `Keyboard!FairSpec`: strong fairness of a reader's own steps, which is
  what the fairness of `TimeSharing` gives it: readers are scheduled again and again. Keys need
  not come.
- `Interrupts!FairSpec` is used only for `HandlerResumes` (section 7).

No other run assumes fairness.

---------------------------------------------------------------------------

## 6. Proofs

### ProcessProofs

For every set of descriptors, every boot list without repetition, every set of
user ids with 0 and every positive quantum (the assumptions of `Process`):

| theorem | statement |
|---|---|
| `TypeCorrect` | `Spec => []TypeOK` |
| `IndexNamesOwner` | `Spec => []ContextsOwned` |
| `AddressSpacesSeparate` | `Spec => []AddressSpaces` |
| `CallTreeKept` | `Spec => [](CallTree /\ CredentialsInherited)` |
| `UserIdsFlowDown` | `Spec => []CredentialsInherited` |
| `NoDeadlock` | `Spec => []SomeoneCanRun` |
| `SharesTime` | `Spec => TS!Spec` |
| `ExecuteCalls` | `Spec => ExecuteIsACall` |

The inductive invariant `IInv` is `SchedulerInv /\ CallTree /\
CredentialsInherited`. `SchedulerInv` adds to the checked invariants three
facts none of them implies: `Injective` (no descriptor is in the list twice,
without which removing one would leave another index naming it), `LiveStates`
(a listed process has not exited) and `CpuConsistent` (the CPU is idle exactly
when the index is -1). The proof that a step keeps it has a lemma for each action;
those of the two switching ticks rest on `SwitchEffect` and `SwitchPreserves`, and
that of exit on `RemoveFacts`, which says how indices move when a list
element is removed. `AddressSpaces` follows from `CpuConsistent` with the
types; `SomeoneCanRun` from `CallTree`: of the processes in the list, the last
one cannot be blocked, because its child would be further down.

Each step of `Process` is a step of `TimeSharing` or leaves its variables alone.
There is a lemma for each action, under `IInv`: a tick that switches is `Run`, a
successful execute is `Call`, an exit is `Return`, and the rest stutters. A switch needs
that no listed process but a blocked one has a child (`CallTree`); exit needs that the
process that runs has none and that its parent is not in use by another.
`ExecuteIsACall` comes from the same case analysis, because only exit changes a
state from `BLOCKED`.

### MemoryProofs

For every memory map of areas that do not overlap, every number of page tables and pages, and
programs of every size:

| theorem | statement |
|---|---|
| `Typed` | `Spec => []TypeOK` |
| `Accounted` | `Spec => []MemoryAccounted` |
| `AllFreed` | `Spec => []FreedCompletely` |
| `ListKept` | `Spec => TilingKept` |
| `OwnershipIsKept` | `Spec => OwnershipKept` |

`MemoryMapAssumption` is what `init_memory` establishes: it sorts the areas the BIOS
reports (memory.c:80), which do not overlap, the first and the last two blocks are not usable ones, and a
usable block is not empty. The invariants hold in all states, those in which the list is out of
order included, which the run does not enter.

The inductive invariant `IInv` has to say why the arithmetic of blocks stays
sound when the list is out of order, where neighbours need not touch. `Filled`: a block that is
usable or a process's is not empty, so a page can be taken from it. `Fits`: the blocks before a
block have, together, no more pages than its base says. It implies that no base or limit gets
negative, whatever is merged with whatever, and is kept although a merge (memory.c:387) takes the
base of one block and adds the limit of another. With them go the sums that `MemoryAccounted` is
about, and that an unbound table has no block.

Allocating and freeing replace one or two neighbours in the list by others. `Window` says what
that does to sums over the list, and the lemmas after it what it does to `Fits`, `Filled`,
the order of the list and the pages a process holds; what remains for each operation is arithmetic on two blocks
(`TakeAfter`, `TakeBefore` and `TakeNew` for the three ways to take a page, `MergeSound` and `UnbindSound` for freeing).
`allocate_memory` takes pages one by one and `free_page_table` walks down the list; both are recursive
functions on numbers, which exist and can be followed step by step by `Recursion` and `UpTo`.

`WalkedTo` is the invariant of the walk: all blocks before the current one that were the
process's have been given up, and the previous pointer is at a neighbour. `AllFreed` needs it,
because merging moves the pointers on and a block passed over would stay with an unbound table. If the process has
only one block the previous pointer is right in front of the current one when the walk
arrives there; that is what `ListKept` rests on, and what fails with several.

### InterruptsProofs

For every set of processes, every nesting depth and every bound on the counter:

| theorem | statement |
|---|---|
| `SectionsExcluded` | `Spec => []SectionsExclude` |
| `HaltsAreEnabled` | `Spec => []HaltsEnabled` |

The invariant adds `CountCovers` (the counter is never below the number of
sections a context has open; it may be above, after a leak) and `CallShapes`
(where a process can wait, and that user code runs with interrupts on).
The first is why `sti()`'s countdown does not enable interrupts under a section that
is open.

### EntryProofs

The two ways into the kernel. For every set of processes that make system calls:

| theorem | statement |
|---|---|
| `ResultsAreOwn` | `GateSpec => []ResultIsOwn` |

The invariant `OwnInv` says where the result of a process that nobody
has disturbed is at each step: in the static variable, in EAX or in `return_data`. A step
of another process leaves it there, or finds it in one of the two variables
and makes this process a disturbed one.

For every finite set of readers, however they are spread over the terminals, every set of
command keys and lines of every length:

| theorem | statement | if |
|---|---|---|
| `ListIsKept` | `Spec => []ListInv` | `ATOMIC` |
| `KeyboardTypes` | `Spec => []TypeOK` | `ATOMIC` |
| `WaitersAreFound` | `Spec => []`(who waits on the screen shown is in `Shown`) | `ATOMIC` |
| `TypedIsRead` | `Spec => []InputIsTyped` | `ATOMIC`, `SLOW` |
| `ReadyWhenComplete` | `Spec => [](\A p \in Procs : Ready(p) <=> Complete(line[p]))` | `ATOMIC`, `SLOW` |

The hypotheses are what the run assumes; `TypedIsRead` is false without either (section 7).
The first three allow keys to come at any time, between the two steps of an
operation too.

`ListInv` is the invariant of the linked list: there is a sequence without
repetitions that `first` and `next` run through, whose elements are the processes
that wait or are about to take their buffers out, and whose length is `length`. Half-way
through an operation, the place that was found is still where the new node goes
or the old one comes out (`PlacesRight`), which needs that nobody else is half-way
(`OneChanges`), and that a node that is put in is not in already and ends the list (`NewIsLast`).
`Listed`, the nodes the code's loops visit, is a recursive function with as many steps as there
are processes; `ListedIs` follows it along the sequence with `UpTo`, and `ShortEnough` (no
sequence without repetitions is longer than the set it is from) says that it gets to the end.
The sequence is extended by one (`AppendedIs`) and loses an element (`RemovedIs`).

`LinesInv` relates the buffers to the lines typed: they are the same, the flag `need_to_buffer`
says whether the newline has been typed (`Over`), and a buffer nobody waits for is empty. It
follows that `input()`'s condition is that the line is complete (`ReadyIs`), so with `SLOW` the
handler never edits a complete line; and because the handler finds just those who wait for the
screen shown (`ShownIs`), each key gets into the lines it was typed for and into no other.
`ReadyWhenComplete` is the safety half of `LineIsRead`: no reader whose line is complete goes on
waiting for another key. TLC checked all these invariants with two and three readers.

### OpenFilesProofs

For every set of processes and files, lists of any length and whatever a new entry
holds:

| theorem | statement | if |
|---|---|---|
| `TypeCorrect` | `Spec => []TypeOK` | |
| `DescriptorUnique` | `Spec => []OneDescriptorPerFile` | |
| `DescriptorsReturned` | `Spec => []NoDescriptorLeak` | `OVERLAP = FALSE` |
| `StreamsReset` | `ShellSpec => []RedirectionUndone` | `OVERLAP = FALSE` |
| `CommandsGetStreams` | `ShellSpec => []CommandsRedirected` | `OVERLAP = FALSE` |
| `LeakCounted` | `ShellSpec => []OnlyErrorsLeak` | `OVERLAP = FALSE` |

With `OVERLAP = TRUE` the third is false (section 7); the hypothesis is what
`shell_session` assumes. The first two rest on `OpenInv`, which adds to the types that a live process
has its two streams and that a process that has exited makes no calls. The others need
`IInv`, with `Solo` (one call at a time) and `CloseKnows`: what `fclose` has found out
in its scan is still true when it closes. The entry that is removed from a list, and the one that is duplicated, are found
by scans for the first match (`FirstUnusedFacts`, `MinExists`).

The last three are about any number of terminals, with shells in shells to any depth.
They rest on `IInv` and `ShellInv`. A call of
`OpenFiles` takes several steps, a statement of a program is over only when they are;
so `ShellInv` speaks of `Entries(p)` and `List(p)`, what the lists of `p` will be when the call
it is in has returned, and every later step of a call leaves them as they are
(`CallGoesOn`). Of each program it says

- which positions of its list it relies on at each statement (`Slots`), that they are in use
  and that no two of them are one entry (`InUse`): what a shell closes is not its own copy of a stream;
- what the streams and their copies are at each statement (`Streams`);
- how many entries are in use (`Counted`): those positions, and what has been lost;
- that files to be given to a command are open (`FilesOpen`), and the streams it began with
  (`HomeOpen`): a `close` that is about to happen counts as one that has (`Kept`).

`HomeOpen` is about descriptors that others may close. It is kept because of `CallerKeeps`: who executed a program
waits, with those streams open, so that `fclose` finds another
user. A login has no caller; its streams are a terminal, and it closes only users.txt.
Statements and calls are kept apart: the lemmas from `OpensFile` to `ProgramBegins`
say what a statement does to one program's lists, those from `FopenEffect` to `CopyGoesOn` what a
call does, `ShellFrame` that nobody else is affected, and the lemmas on actions combine them.
TLC checked `ShellInv` on the states of `shell_session` before it was proved.

### FileSystemProofs

For every number of inodes, blocks, names and processes, blocks of any length and any number of
power failures, after any step and between any two sectors of the inode list, wherever those end, if
`write` is not preempted (`PREEMPT = FALSE`; else two writers get the same block, section 7):

| theorem | statement | if also |
|---|---|---|
| `TypeCorrect` | `Spec => []TypeOK` | |
| `BlocksHaveOneOwner` | `Spec => []OneOwnerPerBlock` | |
| `DiskAlwaysConsistent` | `Spec => []DiskConsistent` | |
| `BlocksAccountedFor` | `Spec => []NoBlockLost` | |
| `DirectoriesFormATree` | `Spec => []TreeKept` | `THROUGH_FILES = FALSE` |
| `FilesAreKept` | `Spec => FilesStay` | `THROUGH_FILES = FALSE` |

A path that leads through a file reads the file's block as a directory
(section 7), so the last two are about paths that do not.

`IInv` says what is marked, bound, named and cached while a call is in the middle:
`DiskFollows` and `InodesSound` relate the tables in memory and on the disk,
`DataSound` and `CacheSound` the data blocks of an inode and of its open file, `Creates`
and `Writes` what the call has still to do and the room there is for it. That a block found
free is nobody's follows from `DataSound`; that a new directory's block is
empty, from blocks that are not marked being empty. `LostSound` counts the inodes that
power failures have left without a name, one for each at most: an inode is bound with its first
field and named with its last, and of the inodes of one transfer only one lies across the end of the sector.

What a power failure leaves of a transfer is said once for all of them: `Between` is true of a
table of inodes in which some of the new is on the disk and all of the old, `DiskCrash` and
`CrashFacts` show that it is true of what is on the disk, between the steps and in the
middle of a transfer, and everything after that uses `Between` only.

Tree and lookups need `OrderInv`, which is about the order in which things are
written. After a power failure a directory may have an entry for an inode that is free again,
a ghost. Ghosts are the inode that will be bound next, and they are the last
entries of their directory (`GhostsSound`), so that the file a path leads to stays the first match:
a name bound again appears behind the files that were there. When a path's directories are made one after the
other and the power fails between the sectors that hold their inodes, the first one that is not on the disk
is entered in the last one that is; so each new inode is the next free one after the directory
it is entered in (`NewSound`, `FreeBehind`, `Newest`). Before the first
failure there are no ghosts, and `TreeInv` holds: who is in a directory is in use,
in one place, under a name of its own. That a directory has room counts its entries against the inodes.

The model assumes what the proofs need of its constants: there are finitely many blocks, and `NULL` is
neither an inode nor a name.

### FileDataProofs

For all sets of processes and files, all sizes of blocks and any number of power
failures:

| theorem | statement | if |
|---|---|---|
| `CopiesOnDisk` | `Spec => []CopiesAreDisk` | |
| `TypeCorrect` | `Spec => []TypeOK` | `MAX_SIZE <= BLOCK` |
| `TransfersStayInside` | `Spec => []TransfersFit` | `MAX_SIZE <= BLOCK` |
| `WrittenStays` | `Spec => []DiskHoldsWritten` | `MAX_SIZE <= BLOCK` |
| `ByteFileImplemented` | `Spec => ImplementsByteFile` | `MAX_SIZE <= BLOCK` |

`CopiesOnDisk` is for files of any size. Its invariant `IInv` adds
`Shape`, types without the bounds on numbers, so that the arithmetic of transfers
plays no part, and `OpenOK`: whoever has a file open, the caller among them, keeps
its descriptor from being freed.

The others are for files that stay within a block (16 sectors, 8192 bytes), because behind the
first block the code does not keep them (section 7, filesystem.c:402 and 432). Their
invariant `FInv` adds the numbers: the disk has the
inode's size (`SizesOnDisk`); nobody is behind what has been written
(`OffsetsWithin`); the size counts it and the end mark, or what is being written
(`SizesCount`); the first block holds it (`FirstBlockHolds`); and a call that is going on is where
its offset says (`Writing`, `Reading`). TLC checked `FInv` first.

In the refinement a block that is written is a `Write` of `ByteFile`, a block that is read a
`Read`; a power failure in a call leaves half a `Write` (`HalfOfWrite`, `OthersSurvive`), and
the steps before them leave `ByteFile`'s variables alone.

### ScreenProofs

For every number of screens, every size of screen and register, and texts of any length:

| theorem | statement |
|---|---|
| `StartFollowsScroll` | `Spec => []StartIsScroll` |
| `TerminalsImplemented` | `Spec => ImplementsTerminals` |
| `CursorIsShown` | `Spec => PrintShowsCursor` |

The first is arithmetic modulo `WORD` (`Remainder`, `RemainderUnique`, `ModAdd`): a
scroll adds the same number of lines to the descriptor and the register, and a switch adds
the difference of two descriptors.

For the refinement, `Screen` prints character by character into a copy or the video memory, and
`Terminals` fills a picture. Both are recursive functions on the positions of the text:
that such a function exists, and what it is at the next position, is proved
from the least number of a set (`LeastExists`, `UpTo`, `Recursion`, `Iterates`), and with it
`PrintedIsPut` says that the two give the same cells and the same cursor. The invariant
`RequestsSound` says that what waits between the comparison and the printing is a request that
was compared with a screen. `NULLAssumption` (the value of no request is a request) is the
only assumption that was added for it.

`CursorIsShown` is about the displays users can scroll to, lines before the first and behind
the last, and registers of any width. `ScrollsToCursor` is its arithmetic: the
division rounds towards zero, so `print` scrolls one line more than the quotient, and what that makes of
the start address stays within the register if the cursor is behind the first line, or if it is
in the first line, behind its first cell, and the display starts at a line. The property excludes the rest, in which the
register wraps once more (section 7).

### What is only model-checked

- Liveness (`ExecuteReturns`, `LineIsRead`) and the fairness in
  `ImplementsFairTimeSharing`: TLAPS does not handle `ENABLED`.

Every other property the passing runs check is a theorem, some under the hypotheses given
above.

---------------------------------------------------------------------------

## 7. What the code does not keep

### Findings

Each is a run whose property fails; `PROJECT.json` describes the behaviour.

| run | property | where |
|---|---|---|
| `memory_usable` | `OnlyUsableFrames` | `kernel/memory.c:397` |
| `handler_lost` | `HandlerKept` | `kernel/process.c:239` |
| `files_overlapping` | `TransferAtOwnOffset` | `kernel/process.c:350` |

### Further properties that fail

These are stated in the modules and have no run of their own. To see one fail,
change the named constant or put the property into the configuration.

- `Process!OnlyViolatorsAreKilled` (`MCProcess.cfg`): `execute_from_process`
  returns at process.c:716, when the file cannot be opened, with the
  page table of the kernel in use. Unless a tick comes first, the caller's next
  instruction faults and the handler (process.c:558) kills it.
- `Memory!FreedIsUsable` (`MCMemory.cfg`): a reserved block names the same page
  table as a usable one, so memory.c:387 merges freed pages into a reserved
  neighbour, and they are not found again.
- `Memory!ProgramInMemory`: when no block is usable `allocate_memory` does nothing
  and says nothing (memory.c:222).
- `Memory`: an exit of a process with several blocks may leave the list out of
  order (the exception in `TilingKept`, the same cause as `memory_usable`).
- `OpenFiles!EntriesStayOpen` (`MCOpenFiles.cfg`): `fclose` looks for other
  processes that use the descriptor, not for other entries of its own
  (process.c:421), so closing one duplicate closes all.
- `OpenFiles` with `OVERLAP = TRUE` (`MCOpenFiles.cfg`) breaks `NoDescriptorLeak` and
  `ClosedWithoutSharers` too: between `fclose`'s scan and its close another process may open or
  close the same descriptor. `OneDescriptorPerFile` holds there too, which is proved.
- `OpenFiles!ExecuteClosesNoOther` (`MCOpenFiles.cfg`): `execute` closes the descriptor
  of the image it has loaded (filesystem.c:541), but `open` gives the same one to
  everybody, so a process that was reading the file loses it.
- `SystemCall!ArgumentIsOwn`, and `ResultIsOwn` without its condition on `disturbed`
  (`MCSystemCall.cfg`): arguments (system_call.c:40) and results (system_call.c:36) go through
  static variables behind a gate that allows ticks, and another process's call replaces them.
- `Interrupts!HandlerResumes` under `FairSpec`: the keyboard may interrupt a
  process in `execute`'s loop, and the timer its handler; the process is blocked
  until its child exits, and until then the keyboard's interrupt is not ended.
- `Keyboard` with `SLOW = FALSE` breaks `InputIsTyped`: a key that comes between the
  end of a line and the reader's waking up edits the line (keyboard.c:170).
  With `ATOMIC = FALSE` a buffer can be lost from the list.
- `FileSystem` with `PREEMPT = TRUE` breaks `OneOwnerPerBlock`: `get_free_block`
  searches and marks without `cli()` (filesystem.c:356), and two writers
  can get the same block. A run of 15 steps shows it.
- `FileSystem!TreeKept` is claimed up to the first power failure only: the
  directory's block is written before the inode list (filesystem.c:209 and 219), so
  after a failure between them a directory names an inode that is free.
- `FileSystem!FilesInDirectories` with `THROUGH_FILES = TRUE`: a path that leads
  through a regular file reads the file's block as a directory (filesystem.c:109). It
  fails with `MAX_CRASHES = 2` also without such paths: a new file
  found after a boot is made a directory in memory by
  `opendir`, a file is entered into it, and the power fails before the inode list
  is written.
- `FileData` with `MAX_SIZE = 5` breaks `TransfersFit`: a chunk is counted from the
  start of the buffer and not of the block (filesystem.c:432), so a transfer that
  begins within a block and reaches behind it copies past its end; and the loop starts
  at block 0 wherever the offset is (filesystem.c:402).
- `FileData`: a file of the disk image has no end mark, because `add_file` counts
  its bytes only, and `read` stops a byte before the size, so its last byte is never
  read. A `read` of a file without a block returns without a value; it is left out.
- `Screen`: output for the screen that is shown goes to its copy, and is
  lost at the next switch, if the user switches to it behind the comparison at
  screen.c:181; if the text scrolls, `StartIsScroll` is broken from then on.
- `Screen!PrintShowsCursor` without `OnLine`, and with the cursor in the first line:
  scroll_lines and scroll_pages should stop at the first line, but
  their tests (screen.c:115 and 129) compare an unsigned number with 0. One line up at the top sets the start
  address to 65456, and the next print in the first line to 65472: the cursor, near 0, is not on the
  display. Behind the first line `print` finds it again, which is what the property says.
- `Screen!PrintShowsCursor` for the first cell (`PROMPT = 0`, `video'.cursor >= 0`): a backspace that
  returns to the first cell of a screen that has been scrolled makes `print` scroll one line
  too many (screen.c:173), to before the start of the video memory.
- `FileSystem` loses an inode for each power failure between two sectors of the
  inode list: of an inode that straddles them - the 12th, with 44 bytes each, is the first - the
  type is on the disk and the name is not. It stays in use, under no name, for ever; `DiskOrdered` counts these
  (`Lost`). No file is affected, and the block it would have had stays marked.
- `Shell`: files that are open when the shell finds an error in a command, or a second
  `<` or `>`, are never closed (shell.c:114); `OnlyErrorsLeak` counts them.

---------------------------------------------------------------------------

## 8. What is not modelled, and why

- The kernel's heap (`utils/heap.c`): the modules assume that `malloc` succeeds and
  that what is freed is not used again. Its hazards are in `PROJECT.json`.
- The registers of the disk's controller (`drivers/ata.c`): a transfer of a sector is
  one step, and the power fails between two of them. What two interleaved commands do to the controller
  is the hardware's matter.
- Transfers over several blocks of a file: the code restarts at block 0, so there is
  nothing to keep (section 7).
- The tail of the timer's assembly stub: `save_eax` and `save_esp` are static, and a
  second tick between the end of interrupt and `IRET` could overwrite them. `Process` takes the
  handler as one step.
- Full tables: `get_free_block` returns -1 and the search for an inode ends behind
  its table; the results are used. What they then overwrite depends on the
  memory layout. The bounds of `FileSystem` stop before.
- Screens: colours, tabs, the switch `to_print`, which nothing sets, the
  initialisation of the hardware, and screens that are full: the cursor is a `short`
  (screen.c:252) and negative after 409 lines, which `BoundsAssumption` excludes.
- Permissions and modes of files: functions of one call without shared state,
  but for the user ids, which are in `Process`. Descriptors of directories, which
  `opendir` makes for each caller.
- Exceptions other than the page fault have no handler.
- The contents of freed heap blocks (`exit_process` reads a list node after
  freeing it; it is still intact unless reused).
- The boot loader runs once, alone. String and list functions are modelled by what
  they do, inside the modules that use them. Of the user library only the calls are
  modelled, of the programs in `default_fs/` the shell and the login; the others are
  the commands of `Shell`. The image tools are the `Init` of `FileSystem` and
  `FileData`.

---------------------------------------------------------------------------

## 9. Running the tools

In this directory:

    tlc -workers 2 -config MCProcess.cfg MCProcess
    tlapm ProcessProofs.tla

`PROJECT.json` lists each run with its module and configuration, each mutant with
the property that catches it, and the theorems. `syscalls`,
`file_data`, `shell_session`, `screens` and `fs_tables` take one to three minutes each, the
others seconds. The proofs of `FileSystemProofs` and `FileDataProofs` take a
few minutes each, those of `OpenFilesProofs` and `MemoryProofs` ten, that of `ProcessProofs` a minute or two, the others less.
